------------------------- MODULE JsonDocumentProofs -------------------------
(***************************************************************************)
(* Theorems about JsonDocument, for every set of names, indices, scalars   *)
(* and comments, and for documents of any size: what a program holds are   *)
(* trees of Values, and the operations on them are those of JsonPromise.   *)
(*                                                                         *)
(* The inductive invariant is IsTree of both Values.  The rest is about    *)
(* the operators: first paths and trees; then, for each operation, which   *)
(* children it leaves, and that Filled makes of this what the promise      *)
(* says; then that a call on the Value at a path leaves what is beside it; *)
(* and last, one lemma for each action.                                    *)
(***************************************************************************)
EXTENDS JsonDocument, SequenceTheorems, FiniteSetTheorems, WellFoundedInduction, TLAPS

Key  == Seq(Nat)
Path == Seq(Key)

----------------------------------------------------------------------------
(* Paths. *)

\* Of a path through p, what is before p is p and what comes after is the rest.
LEMMA Joined ==
    ASSUME NEW p \in Path, NEW q \in Path
    PROVE  /\ p \o q \in Path
           /\ Len(p \o q) = Len(p) + Len(q)
           /\ IsUnder(p, p \o q)
           /\ Rest(p, p \o q) = q
<1> USE DEF Path
<1>1. /\ p \o q \in Path /\ Len(p \o q) = Len(p) + Len(q)
      /\ \A i \in 1 .. Len(p) + Len(q) :
           (p \o q)[i] = IF i <= Len(p) THEN p[i] ELSE q[i - Len(p)]
  BY ConcatProperties
<1>2. Len(p) \in Nat /\ Len(q) \in Nat
  BY LenProperties
<1>3. SubSeq(p \o q, 1, Len(p)) = p
  <2>1. \A i \in 1 .. Len(p) : (p \o q)[i] = p[i] /\ p[i] \in Key
    BY <1>1, <1>2, ElementOfSeq
  <2>2. /\ SubSeq(p \o q, 1, Len(p)) \in Seq(Key)
        /\ Len(SubSeq(p \o q, 1, Len(p))) = Len(p)
        /\ \A i \in 1 .. Len(p) : SubSeq(p \o q, 1, Len(p))[i] = (p \o q)[i]
    BY <2>1, <1>2, SubSeqProperties
  <2> QED
    BY <2>1, <2>2, SeqEqual
<1>4. SubSeq(p \o q, Len(p) + 1, Len(p) + Len(q)) = q
  <2> DEFINE t == SubSeq(p \o q, Len(p) + 1, Len(p) + Len(q))
  <2>1. \A i \in Len(p) + 1 .. Len(p) + Len(q) :
           (p \o q)[i] = q[i - Len(p)] /\ q[i - Len(p)] \in Key
    BY <1>1, <1>2, ElementOfSeq
  <2>2. /\ t \in Seq(Key)
        /\ Len(t) = IF Len(p) + 1 <= Len(p) + Len(q) THEN Len(p) + Len(q) - (Len(p) + 1) + 1 ELSE 0
        /\ \A i \in 1 .. Len(p) + Len(q) - (Len(p) + 1) + 1 : t[i] = (p \o q)[Len(p) + 1 + i - 1]
    BY <2>1, <1>2, SubSeqProperties
  <2>3. Len(t) = Len(q) /\ \A i \in 1 .. Len(q) : t[i] = q[i]
    BY <2>1, <2>2, <1>2
  <2> QED
    BY <2>2, <2>3, SeqEqual
<1> QED
  BY <1>1, <1>2, <1>3, <1>4 DEF IsUnder, Rest

\* A path under p is p and the rest.
LEMMA Split ==
    ASSUME NEW p \in Path, NEW r \in Path, IsUnder(p, r)
    PROVE  Rest(p, r) \in Path /\ r = p \o Rest(p, r)
<1>1. Len(p) \in Nat /\ Len(r) \in Nat /\ Len(p) <= Len(r) /\ SubSeq(r, 1, Len(p)) = p
  BY LenProperties DEF Path, IsUnder
<1>2. \A i \in 1 .. Len(r) : r[i] \in Key
  BY ElementOfSeq DEF Path
<1>3. /\ Rest(p, r) \in Path
      /\ Len(Rest(p, r)) = Len(r) - Len(p)
      /\ \A i \in 1 .. Len(r) - Len(p) : Rest(p, r)[i] = r[Len(p) + i]
  <2>1. \A i \in Len(p) + 1 .. Len(r) : r[i] \in Key
    BY <1>1, <1>2
  <2> DEFINE t == SubSeq(r, Len(p) + 1, Len(r))
  <2>2. /\ t \in Seq(Key)
        /\ Len(t) = IF Len(p) + 1 <= Len(r) THEN Len(r) - (Len(p) + 1) + 1 ELSE 0
        /\ \A i \in 1 .. Len(r) - (Len(p) + 1) + 1 : t[i] = r[Len(p) + 1 + i - 1]
    BY <2>1, <1>1, SubSeqProperties
  <2> QED
    BY <2>2, <1>1 DEF Rest, Path
<1>4. \A i \in 1 .. Len(p) : p[i] = r[i]
  <2>1. \A i \in 1 .. Len(p) : r[i] \in Key
    BY <1>1, <1>2
  <2>2. \A i \in 1 .. Len(p) - 1 + 1 : SubSeq(r, 1, Len(p))[i] = r[1 + i - 1]
    BY <2>1, <1>1, SubSeqProperties
  <2> QED
    BY <2>2, <1>1
<1>5. /\ p \o Rest(p, r) \in Seq(Key)
      /\ Len(p \o Rest(p, r)) = Len(p) + Len(Rest(p, r))
      /\ \A i \in 1 .. Len(p) + Len(Rest(p, r)) :
           (p \o Rest(p, r))[i] = IF i <= Len(p) THEN p[i] ELSE Rest(p, r)[i - Len(p)]
  BY <1>3, ConcatProperties DEF Path
<1>6. Len(p \o Rest(p, r)) = Len(r) /\ \A i \in 1 .. Len(r) : (p \o Rest(p, r))[i] = r[i]
  BY <1>1, <1>3, <1>4, <1>5
<1> QED
  BY <1>3, <1>5, <1>6, SeqEqual DEF Path

\* The path of the Value itself.
LEMMA Nothing ==
    /\ <<>> \in Path /\ <<>> \in Key
    /\ \A p \in Path : p \o <<>> = p /\ <<>> \o p = p /\ IsUnder(p, p) /\ Rest(p, p) = <<>>
<1>1. <<>> \in Path /\ <<>> \in Key
  BY EmptySeq DEF Path, Key
<1>2. ASSUME NEW p \in Path PROVE p \o <<>> = p /\ <<>> \o p = p
  BY ConcatEmptySeq DEF Path
<1>3. ASSUME NEW p \in Path PROVE IsUnder(p, p) /\ Rest(p, p) = <<>>
  BY <1>1, <1>2, Joined
<1> QED
  BY <1>1, <1>2, <1>3

\* The first key of a path.
LEMMA FirstKey ==
    ASSUME NEW r \in Path, r # <<>>
    PROVE  /\ r[1] \in Key /\ <<r[1]>> \in Path /\ Tail(r) \in Path
           /\ r = <<r[1]>> \o Tail(r)
           /\ Len(Tail(r)) = Len(r) - 1
           /\ Rest(<<r[1]>>, r) = Tail(r)
<1>1. Len(r) \in Nat \ {0}
  BY EmptySeq DEF Path
<1>2. r[1] \in Key
  BY <1>1, ElementOfSeq DEF Path
<1>3. <<r[1]>> \in Path
  BY <1>2 DEF Path
<1>4. Tail(r) \in Path /\ Len(Tail(r)) = Len(r) - 1 /\ \A i \in 1 .. Len(Tail(r)) : Tail(r)[i] = r[i + 1]
  BY HeadTailProperties DEF Path
<1>5. r = <<r[1]>> \o Tail(r)
  <2>1. /\ <<r[1]>> \o Tail(r) \in Seq(Key)
        /\ Len(<<r[1]>> \o Tail(r)) = 1 + Len(Tail(r))
        /\ \A i \in 1 .. 1 + Len(Tail(r)) :
              (<<r[1]>> \o Tail(r))[i] = IF i <= 1 THEN <<r[1]>>[i] ELSE Tail(r)[i - 1]
    BY <1>3, <1>4, ConcatProperties, Len(<<r[1]>>) = 1 DEF Path
  <2>2. \A i \in 1 .. Len(r) : (<<r[1]>> \o Tail(r))[i] = r[i]
    BY <2>1, <1>1, <1>4
  <2> QED
    BY <2>1, <2>2, <1>1, <1>4, SeqEqual DEF Path
<1>6. Rest(<<r[1]>>, r) = Tail(r)
  <2>1. PICK a \in Path, b \in Path : a = <<r[1]>> /\ b = Tail(r)
    BY <1>3, <1>4
  <2>2. Rest(a, a \o b) = b
    BY Joined
  <2>3. r = a \o b
    BY <1>5, <2>1
  <2> QED
    BY <2>1, <2>2, <2>3
<1> QED
  BY <1>2, <1>3, <1>4, <1>5, <1>6

\* The paths under a single key are those that begin with it.
LEMMA OneKey ==
    ASSUME NEW k \in Key
    PROVE  /\ <<k>> \in Path /\ <<k>> # <<>> /\ <<k>>[1] = k /\ Len(<<k>>) = 1
           /\ \A q \in Path : /\ <<k>> \o q \in Path /\ <<k>> \o q # <<>>
                              /\ (<<k>> \o q)[1] = k
                              /\ Tail(<<k>> \o q) = q /\ Rest(<<k>>, <<k>> \o q) = q
           /\ \A r \in Path : IsUnder(<<k>>, r) <=> r # <<>> /\ r[1] = k
<1>1. <<k>> \in Path /\ <<k>> # <<>> /\ <<k>>[1] = k /\ Len(<<k>>) = 1
  BY DEF Path
<1>2. ASSUME NEW q \in Path
      PROVE  /\ <<k>> \o q \in Path /\ <<k>> \o q # <<>>
             /\ (<<k>> \o q)[1] = k
             /\ Tail(<<k>> \o q) = q /\ Rest(<<k>>, <<k>> \o q) = q
  <2>1. Len(q) \in Nat
    BY LenProperties DEF Path
  <2>2. /\ <<k>> \o q \in Path /\ Len(<<k>> \o q) = 1 + Len(q) /\ IsUnder(<<k>>, <<k>> \o q)
        /\ Rest(<<k>>, <<k>> \o q) = q
    BY <1>1, Joined
  <2>3. <<k>> \o q # <<>>
    BY <2>1, <2>2, EmptySeq
  <2>4. (<<k>> \o q)[1] = k
    BY <2>1, <1>1, ConcatProperties DEF Path
  <2>5. Tail(<<k>> \o q) = q
    BY <2>2, <2>3, <2>4, FirstKey
  <2> QED
    BY <2>2, <2>3, <2>4, <2>5
<1>3. ASSUME NEW r \in Path PROVE IsUnder(<<k>>, r) <=> r # <<>> /\ r[1] = k
  <2>1. ASSUME IsUnder(<<k>>, r) PROVE r # <<>> /\ r[1] = k
    BY <2>1, <1>1, <1>2, Split
  <2>2. ASSUME r # <<>>, r[1] = k PROVE IsUnder(<<k>>, r)
    <3>1. PICK b \in Path : r = <<k>> \o b
      BY <2>2, FirstKey
    <3> QED
      BY <3>1, <1>1, Joined
  <2> QED
    BY <2>1, <2>2
<1> QED
  BY <1>1, <1>2, <1>3

\* The last key of a path.
LEMMA LastKey ==
    ASSUME NEW p \in Path, NEW k \in Key
    PROVE  /\ p \o <<k>> \in Path /\ p \o <<k>> # <<>>
           /\ Len(p \o <<k>>) = Len(p) + 1
           /\ (p \o <<k>>)[Len(p \o <<k>>)] = k
           /\ SubSeq(p \o <<k>>, 1, Len(p \o <<k>>) - 1) = p
<1>1. Len(p) \in Nat
  BY LenProperties DEF Path
<1>2. /\ p \o <<k>> \in Path /\ Len(p \o <<k>>) = Len(p) + 1 /\ IsUnder(p, p \o <<k>>)
  BY OneKey, Joined
<1>3. (p \o <<k>>)[Len(p) + 1] = k
  BY <1>1, OneKey, ConcatProperties DEF Path
<1>4. p \o <<k>> # <<>>
  BY <1>1, <1>2, EmptySeq
<1> QED
  BY <1>1, <1>2, <1>3, <1>4 DEF IsUnder

\* A path that is not empty leads from the Value above it, by one key.
LEMMA LastKeyOf ==
    ASSUME NEW r \in Path, r # <<>>
    PROVE  /\ SubSeq(r, 1, Len(r) - 1) \in Path /\ r[Len(r)] \in Key
           /\ r = SubSeq(r, 1, Len(r) - 1) \o <<r[Len(r)]>>
<1>1. Len(r) \in Nat \ {0}
  BY EmptySeq DEF Path
<1>2. \A i \in 1 .. Len(r) : r[i] \in Key
  BY ElementOfSeq DEF Path
<1>3. SubSeq(r, 1, Len(r)) = SubSeq(r, 1, Len(r) - 1) \o <<r[Len(r)]>>
  BY <1>1, SubSeqRecursiveSecond DEF Path
<1>4. SubSeq(r, 1, Len(r)) = r
  BY SubSeqFull DEF Path
<1>5. SubSeq(r, 1, Len(r) - 1) \in Path
  BY <1>1, <1>2, SubSeqProperties DEF Path
<1> QED
  <2>1. r[Len(r)] \in Key
    BY <1>1, <1>2
  <2> QED
    BY <2>1, <1>3, <1>4, <1>5

\* Paths are put together in any order.
LEMMA Longer ==
    ASSUME NEW p \in Path, NEW q \in Path, NEW s \in Path
    PROVE  (p \o q) \o s = p \o (q \o s)
BY ConcatAssociative DEF Path

\* Keys of an array are numbers.
LEMMA NumberKey ==
    /\ \A i \in Nat : <<i>> \in Key /\ <<i>>[1] = i /\ Len(<<i>>) = 1 /\ <<<<i>>>> \in Path
    /\ \A k \in Key : Len(k) = 1 => k[1] \in Nat /\ k = <<k[1]>>
<1>1. ASSUME NEW i \in Nat PROVE <<i>> \in Key /\ <<i>>[1] = i /\ Len(<<i>>) = 1 /\ <<<<i>>>> \in Path
  BY DEF Key, Path
<1>2. ASSUME NEW k \in Key, Len(k) = 1 PROVE k[1] \in Nat /\ k = <<k[1]>>
  <2>1. k[1] \in Nat
    BY <1>2, 1 \in 1 .. Len(k), ElementOfSeq DEF Key
  <2>2. <<k[1]>> \in Seq(Nat) /\ Len(<<k[1]>>) = 1
    BY <2>1
  <2> QED
    BY <1>2, <2>1, <2>2, SeqEqual DEF Key
<1> QED
  BY <1>1, <1>2

----------------------------------------------------------------------------
(* Trees. *)

\* A tree of Values, finitely many, as a program has them.
IsTree(v) ==
    /\ v = [p \in DOMAIN v |-> v[p]]
    /\ DOMAIN v \subseteq Path
    /\ IsFiniteSet(DOMAIN v)
    /\ \A p \in DOMAIN v : IsNode(v[p])
    /\ WellFormed(v)

\* The types by name.
LEMMA Types == ValueType = {"null", "int", "uint", "real", "string", "boolean", "array", "object"}
BY DEF ValueType, TypeRank

\* The least of some natural numbers.
LEMMA Least ==
    ASSUME NEW T \in SUBSET Nat, T # {}
    PROVE  \E x \in T : \A y \in T : x <= y
<1>1. IsWellFoundedOn(OpToRel(<, Nat), Nat)
  BY NatLessThanWellFounded
<1>2. \E x \in T : \A y \in T : ~(<<y, x>> \in OpToRel(<, Nat))
  BY <1>1, WFMin
<1>3. ASSUME NEW x \in T, NEW y \in T, <<y, x>> \notin OpToRel(<, Nat) PROVE x <= y
  BY <1>3 DEF OpToRel
<1> QED
  BY <1>2, <1>3

\* What is right under the Value at p has a Value there to hold it.
LEMMA Above ==
    ASSUME NEW v, IsTree(v), NEW p \in Path, NEW k \in Key, p \o <<k>> \in DOMAIN v
    PROVE  p \in DOMAIN v /\ IsKeyOf(v[p].type, k)
<1> DEFINE r == p \o <<k>>
<1>1. r \in Path /\ r # <<>> /\ r[Len(r)] = k /\ SubSeq(r, 1, Len(r) - 1) = p
  BY LastKey
<1>2. LET up == SubSeq(r, 1, Len(r) - 1)
      IN up \in DOMAIN v /\ IsKeyOf(v[up].type, r[Len(r)])
  BY <1>1 DEF IsTree, WellFormed
<1> QED
  BY <1>1, <1>2

\* And so has whatever is under p.
LEMMA FarAbove ==
    ASSUME NEW v, IsTree(v), NEW p \in Path, NEW q \in Path, p \o q \in DOMAIN v
    PROVE  p \in DOMAIN v
<1> DEFINE T == {n \in 0 .. Len(q) : p \o SubSeq(q, 1, n) \in DOMAIN v}
<1>1. Len(q) \in Nat /\ SubSeq(q, 1, Len(q)) = q
  BY LenProperties, SubSeqFull DEF Path
<1>2. Len(q) \in T /\ T \in SUBSET Nat
  <2>1. p \o SubSeq(q, 1, Len(q)) \in DOMAIN v
    BY <1>1
  <2> HIDE DEF Path
  <2>2. Len(q) \in 0 .. Len(q)
    BY <1>1
  <2>3. Len(q) \in T
    BY <2>1, <2>2, Zenon
  <2> QED
    BY <2>3
<1>3. PICK m \in T : \A y \in T : m <= y
  BY <1>2, Least
<1>4. m = 0
  <2> SUFFICES ASSUME m # 0 PROVE FALSE
    OBVIOUS
  <2>1. m \in 1 .. Len(q) /\ m - 1 \in 0 .. Len(q)
    BY <1>1
  <2>2. \A i \in 1 .. m - 1 : q[i] \in Key
    BY <1>1, <2>1, ElementOfSeq DEF Path
  <2>3. SubSeq(q, 1, m - 1) \in Path /\ q[m] \in Key
    BY <1>1, <2>1, <2>2, SubSeqProperties, ElementOfSeq DEF Path
  <2>4. SubSeq(q, 1, m) = SubSeq(q, 1, m - 1) \o <<q[m]>>
    BY <1>1, <2>1, SubSeqRecursiveSecond DEF Path
  <2>5. p \o SubSeq(q, 1, m) = (p \o SubSeq(q, 1, m - 1)) \o <<q[m]>>
    <3>1. PICK a \in Path, b \in Path : a = SubSeq(q, 1, m - 1) /\ b = <<q[m]>>
      BY <2>3, OneKey
    <3>2. (p \o a) \o b = p \o (a \o b)
      BY Longer
    <3> QED
      BY <2>4, <3>1, <3>2
  <2>6. p \o SubSeq(q, 1, m - 1) \in DOMAIN v
    BY <2>3, <2>5, Joined, Above
  <2>7. m - 1 \in T
    BY <2>1, <2>6
  <2> QED
    BY <1>3, <2>1, <2>7
<1>5. SubSeq(q, 1, 0) = <<>>
  BY SubSeqEmpty
<1> QED
  BY <1>3, <1>4, <1>5, Nothing

\* Functions from paths that have a root, and a child above whatever else they have.
Rooted(v) ==
    /\ v = [p \in DOMAIN v |-> v[p]]
    /\ DOMAIN v \subseteq Path
    /\ <<>> \in DOMAIN v
    /\ \A r \in DOMAIN v \ {<<>>} : <<r[1]>> \in DOMAIN v

\* A tree has a child above whatever it has.
LEMMA TreeIsRooted ==
    ASSUME NEW v, IsTree(v)
    PROVE  Rooted(v)
<1>1. ASSUME NEW r \in DOMAIN v, r # <<>> PROVE <<r[1]>> \in DOMAIN v
  <2>1. r \in Path
    BY DEF IsTree
  <2>2. <<r[1]>> \in Path /\ Tail(r) \in Path /\ <<r[1]>> \o Tail(r) \in DOMAIN v
    BY <1>1, <2>1, FirstKey
  <2> QED
    BY <2>2, FarAbove
<1> QED
  BY <1>1 DEF Rooted, IsTree, WellFormed

\* What makes a function of paths a tree.
LEMMA MakeTree ==
    ASSUME NEW v, v = [p \in DOMAIN v |-> v[p]],
           DOMAIN v \subseteq Path, IsFiniteSet(DOMAIN v), <<>> \in DOMAIN v,
           \A p \in DOMAIN v : IsNode(v[p]),
           \A p \in Path, k \in Key :
              p \o <<k>> \in DOMAIN v => p \in DOMAIN v /\ IsKeyOf(v[p].type, k)
    PROVE  IsTree(v)
<1>1. ASSUME NEW r \in DOMAIN v, r # <<>>
      PROVE  LET up == SubSeq(r, 1, Len(r) - 1)
             IN up \in DOMAIN v /\ IsKeyOf(v[up].type, r[Len(r)])
  <2>1. PICK p \in Path, k \in Key : p = SubSeq(r, 1, Len(r) - 1) /\ k = r[Len(r)] /\ r = p \o <<k>>
    BY <1>1, LastKeyOf
  <2> QED
    BY <2>1
<1>2. \A p \in DOMAIN v : /\ v[p].type \in ValueType
                          /\ v[p].type \in {"null", "array", "object"} => v[p].data = <<>>
  BY DEF IsNode
<1>3. WellFormed(v)
  BY <1>1, <1>2 DEF WellFormed
<1> QED
  BY <1>3 DEF IsTree

----------------------------------------------------------------------------
(* The parts of a tree. *)

\* At(v, p) is what v has under p.
LEMMA AtIs ==
    ASSUME NEW v, DOMAIN v \subseteq Path, NEW p \in Path
    PROVE  /\ At(v, p) = [q \in DOMAIN At(v, p) |-> At(v, p)[q]]
           /\ DOMAIN At(v, p) = {q \in Path : p \o q \in DOMAIN v}
           /\ \A q \in DOMAIN At(v, p) : At(v, p)[q] = v[p \o q]
<1>1. {Rest(p, r) : r \in Under(v, p)} = {q \in Path : p \o q \in DOMAIN v}
  <2>1. ASSUME NEW r \in Under(v, p) PROVE Rest(p, r) \in Path /\ p \o Rest(p, r) \in DOMAIN v
    BY Split DEF Under
  <2>2. ASSUME NEW q \in Path, p \o q \in DOMAIN v PROVE \E r \in Under(v, p) : q = Rest(p, r)
    BY <2>2, Joined DEF Under
  <2> QED
    BY <2>1, <2>2
<1> QED
  BY <1>1 DEF At

\* The keys are those of the paths of one key.
LEMMA KeysAre ==
    ASSUME NEW v, DOMAIN v \subseteq Path
    PROVE  Keys(v) = {k \in Key : <<k>> \in DOMAIN v}
<1>1. ASSUME NEW k \in Keys(v) PROVE k \in Key /\ <<k>> \in DOMAIN v
  <2>1. PICK q \in DOMAIN v : Len(q) = 1 /\ k = q[1]
    BY DEF Keys
  <2>2. q \in Path /\ q # <<>>
    <3>1. Len(<<>>) = 0
      BY EmptySeq
    <3> QED
      BY <2>1, <3>1
  <2>3. Tail(q) \in Path /\ Len(Tail(q)) = 0 /\ q = <<q[1]>> \o Tail(q) /\ q[1] \in Key
    <3>1. /\ q[1] \in Key /\ Tail(q) \in Path /\ q = <<q[1]>> \o Tail(q)
          /\ Len(Tail(q)) = Len(q) - 1
      BY <2>2, FirstKey
    <3> QED
      BY <2>1, <3>1
  <2>4. Tail(q) = <<>>
    BY <2>3, EmptySeq DEF Path
  <2>5. q = <<k>>
    BY <2>1, <2>3, <2>4, OneKey, Nothing
  <2> QED
    BY <2>1, <2>3, <2>5
<1>2. ASSUME NEW k \in Key, <<k>> \in DOMAIN v PROVE k \in Keys(v)
  BY <1>2, OneKey DEF Keys
<1> QED
  BY <1>1, <1>2

\* Two values are the same if their roots and their children are.
LEMMA SameParts ==
    ASSUME NEW v, NEW w, Rooted(v), Rooted(w),
           v[<<>>] = w[<<>>], Keys(v) = Keys(w),
           \A k \in Keys(v) : Child(v, k) = Child(w, k)
    PROVE  v = w
<1>1. ASSUME NEW x, NEW y, Rooted(x), Rooted(y), x[<<>>] = y[<<>>], Keys(x) = Keys(y),
             \A k \in Keys(x) : Child(x, k) = Child(y, k),
             NEW r \in DOMAIN x
      PROVE  r \in DOMAIN y /\ x[r] = y[r]
  <2> DOMAIN x \subseteq Path /\ DOMAIN y \subseteq Path
    BY <1>1 DEF Rooted
  <2>1. CASE r = <<>>
    BY <1>1, <2>1 DEF Rooted
  <2>2. CASE r # <<>>
    <3>1. r \in Path /\ <<r[1]>> \in DOMAIN x
      BY <1>1, <2>2 DEF Rooted
    <3>2. PICK k \in Key, q \in Path : k = r[1] /\ r = <<k>> \o q
      BY <2>2, <3>1, FirstKey
    <3>3. k \in Keys(x) /\ <<k>> \in Path
      <4>1. Keys(x) = {l \in Key : <<l>> \in DOMAIN x}
        BY KeysAre
      <4>2. <<k>> \in DOMAIN x
        BY <3>1, <3>2
      <4> QED
        BY <4>1, <4>2, OneKey
    <3>4. q \in DOMAIN At(x, <<k>>) /\ At(x, <<k>>)[q] = x[r]
      <4>1. /\ DOMAIN At(x, <<k>>) = {s \in Path : <<k>> \o s \in DOMAIN x}
            /\ \A s \in DOMAIN At(x, <<k>>) : At(x, <<k>>)[s] = x[<<k>> \o s]
        BY <3>3, AtIs
      <4> QED
        BY <3>2, <4>1
    <3>5. At(x, <<k>>) = At(y, <<k>>)
      BY <1>1, <3>3 DEF Child
    <3>6. r \in DOMAIN y /\ At(y, <<k>>)[q] = y[r]
      <4>1. /\ DOMAIN At(y, <<k>>) = {s \in Path : <<k>> \o s \in DOMAIN y}
            /\ \A s \in DOMAIN At(y, <<k>>) : At(y, <<k>>)[s] = y[<<k>> \o s]
        BY <3>3, AtIs
      <4> QED
        BY <3>2, <3>4, <3>5, <4>1
    <3> QED
      BY <3>4, <3>5, <3>6
  <2> QED
    BY <2>1, <2>2
<1>2. \A r \in DOMAIN v : r \in DOMAIN w /\ v[r] = w[r]
  BY <1>1
<1>3. \A r \in DOMAIN w : r \in DOMAIN v /\ w[r] = v[r]
  BY <1>1
<1>4. DOMAIN v = DOMAIN w
  BY <1>2, <1>3
<1> QED
  BY <1>2, <1>4 DEF Rooted

\* What is in a finite set is finite when a function names it.
LEMMA FiniteImage ==
    ASSUME NEW S, IsFiniteSet(S), NEW f, f = [x \in S |-> f[x]]
    PROVE  IsFiniteSet({f[x] : x \in S})
<1> DEFINE T == {f[x] : x \in S}
<1>1. f \in Surjection(S, T)
  BY DEF Surjection
<1> QED
  BY <1>1, FS_Surjection

\* A value whose children are trees under keys that its type has is a tree.
LEMMA PartsMakeTree ==
    ASSUME NEW v, Rooted(v), IsNode(v[<<>>]), IsFiniteSet(Keys(v)),
           \A k \in Keys(v) : IsKeyOf(Type(v), k) /\ IsTree(Child(v, k))
    PROVE  IsTree(v)
<1>1. /\ v = [p \in DOMAIN v |-> v[p]] /\ DOMAIN v \subseteq Path /\ <<>> \in DOMAIN v
      /\ \A r \in DOMAIN v \ {<<>>} : <<r[1]>> \in DOMAIN v
  BY DEF Rooted
<1>2. Keys(v) = {k \in Key : <<k>> \in DOMAIN v}
  BY <1>1, KeysAre
<1>3. ASSUME NEW k \in Keys(v)
      PROVE  /\ k \in Key /\ <<k>> \in Path
             /\ DOMAIN Child(v, k) = {q \in Path : <<k>> \o q \in DOMAIN v}
             /\ \A q \in DOMAIN Child(v, k) : Child(v, k)[q] = v[<<k>> \o q]
  <2>1. k \in Key /\ <<k>> \in Path
    BY <1>2, OneKey
  <2> QED
    BY <1>1, <2>1, AtIs DEF Child
<1>4. ASSUME NEW r \in DOMAIN v, r # <<>>
      PROVE  \E k \in Keys(v), q \in Path : q \in DOMAIN Child(v, k) /\ r = <<k>> \o q
  <2>1. PICK k \in Key, q \in Path : k = r[1] /\ r = <<k>> \o q
    BY <1>1, <1>4, FirstKey
  <2>2. k \in Keys(v)
    BY <1>1, <1>2, <1>4, <2>1
  <2> QED
    BY <1>3, <2>1, <2>2
<1>5. IsFiniteSet(DOMAIN v)
  <2> DEFINE Of(k) == {<<k>> \o q : q \in DOMAIN Child(v, k)}
             All   == {Of(k) : k \in Keys(v)}
  <2>1. ASSUME NEW k \in Keys(v) PROVE IsFiniteSet(Of(k))
    <3> DEFINE f == [q \in DOMAIN Child(v, k) |-> <<k>> \o q]
    <3>1. IsFiniteSet(DOMAIN Child(v, k))
      BY DEF IsTree
    <3>2. IsFiniteSet({f[q] : q \in DOMAIN Child(v, k)})
      BY <3>1, FiniteImage
    <3> QED
      BY <3>2
  <2>2. IsFiniteSet(All)
    <3> DEFINE f == [k \in Keys(v) |-> Of(k)]
    <3>1. IsFiniteSet({f[k] : k \in Keys(v)})
      BY FiniteImage
    <3>2. {f[k] : k \in Keys(v)} = All
      OBVIOUS
    <3> QED
      BY <3>1, <3>2
  <2>3. IsFiniteSet(UNION All)
    BY <2>1, <2>2, FS_UNION
  <2>4. ASSUME NEW r \in DOMAIN v, r # <<>> PROVE r \in UNION All
    <3>1. PICK k \in Keys(v), q \in Path : q \in DOMAIN Child(v, k) /\ r = <<k>> \o q
      BY <1>4, <2>4
    <3> QED
      BY <3>1
  <2>5. PICK U : U = UNION All
    OBVIOUS
  <2> HIDE DEF All
  <2>6. IsFiniteSet(U \cup {<<>>})
    BY <2>3, <2>5, FS_AddElement
  <2>7. DOMAIN v \subseteq U \cup {<<>>}
    BY <2>4, <2>5
  <2> QED
    BY <2>6, <2>7, FS_Subset
<1>6. ASSUME NEW r \in DOMAIN v PROVE IsNode(v[r])
  <2>1. CASE r = <<>>
    BY <2>1
  <2>2. CASE r # <<>>
    <3>1. PICK k \in Keys(v), q \in Path : q \in DOMAIN Child(v, k) /\ r = <<k>> \o q
      BY <1>4, <2>2
    <3> QED
      BY <1>3, <3>1 DEF IsTree
  <2> QED
    BY <2>1, <2>2
<1>7. ASSUME NEW p \in Path, NEW k \in Key, p \o <<k>> \in DOMAIN v
      PROVE  p \in DOMAIN v /\ IsKeyOf(v[p].type, k)
  <2>1. CASE p = <<>>
    <3>1. <<k>> \in DOMAIN v
      BY <1>7, <2>1, OneKey, Nothing
    <3> QED
      BY <1>1, <1>2, <2>1, <3>1 DEF Type
  <2>2. CASE p # <<>>
    <3>1. PICK l \in Key, q \in Path : p = <<l>> \o q
      BY <2>2, FirstKey
    <3>2. <<l>> \in Path /\ <<k>> \in Path /\ q \o <<k>> \in Path
      BY OneKey, LastKey
    <3>3. p \o <<k>> = <<l>> \o (q \o <<k>>)
      BY <3>1, <3>2, Longer
    <3>4. p \o <<k>> \in Path /\ p \o <<k>> # <<>> /\ (p \o <<k>>)[1] = l
      <4>1. PICK b \in Path : b = q \o <<k>>
        BY <3>2
      <4> QED
        BY <3>3, <4>1, OneKey
    <3>5. <<l>> \in DOMAIN v
      BY <1>1, <1>7, <3>4
    <3>6. l \in Keys(v)
      BY <1>2, <3>5
    <3>7. q \o <<k>> \in DOMAIN Child(v, l)
      BY <1>3, <1>7, <3>2, <3>3, <3>6
    <3>8. q \in DOMAIN Child(v, l) /\ IsKeyOf(Child(v, l)[q].type, k)
      BY <3>6, <3>7, Above
    <3> QED
      BY <1>3, <3>1, <3>6, <3>8
  <2> QED
    BY <2>1, <2>2
<1> QED
  BY <1>1, <1>5, <1>6, <1>7, MakeTree

\* At goes down step by step.
LEMMA AtAt ==
    ASSUME NEW v, DOMAIN v \subseteq Path, NEW p \in Path, NEW q \in Path
    PROVE  At(At(v, p), q) = At(v, p \o q)
<1>1. /\ DOMAIN At(v, p) = {s \in Path : p \o s \in DOMAIN v}
      /\ \A s \in DOMAIN At(v, p) : At(v, p)[s] = v[p \o s]
  BY AtIs
<1>2. p \o q \in Path
  BY Joined
<1>3. /\ At(v, p \o q) = [s \in DOMAIN At(v, p \o q) |-> At(v, p \o q)[s]]
      /\ DOMAIN At(v, p \o q) = {s \in Path : (p \o q) \o s \in DOMAIN v}
      /\ \A s \in DOMAIN At(v, p \o q) : At(v, p \o q)[s] = v[(p \o q) \o s]
  BY <1>2, AtIs
<1>4. DOMAIN At(v, p) \subseteq Path
  BY <1>1
<1>5. /\ At(At(v, p), q) = [s \in DOMAIN At(At(v, p), q) |-> At(At(v, p), q)[s]]
      /\ DOMAIN At(At(v, p), q) = {s \in Path : q \o s \in DOMAIN At(v, p)}
      /\ \A s \in DOMAIN At(At(v, p), q) : At(At(v, p), q)[s] = At(v, p)[q \o s]
  BY <1>4, AtIs
<1>6. \A s \in Path : (p \o q) \o s = p \o (q \o s) /\ q \o s \in Path
  BY Longer, Joined
<1>7. DOMAIN At(At(v, p), q) = DOMAIN At(v, p \o q)
  BY <1>1, <1>3, <1>5, <1>6
<1>8. ASSUME NEW s \in DOMAIN At(v, p \o q) PROVE At(At(v, p), q)[s] = At(v, p \o q)[s]
  <2>1. s \in Path /\ s \in DOMAIN At(At(v, p), q)
    BY <1>3, <1>7
  <2>2. At(At(v, p), q)[s] = At(v, p)[q \o s] /\ q \o s \in DOMAIN At(v, p)
    BY <1>5, <2>1
  <2>3. At(v, p)[q \o s] = v[p \o (q \o s)]
    BY <1>1, <2>2
  <2>4. At(v, p \o q)[s] = v[(p \o q) \o s]
    BY <1>3
  <2> QED
    BY <1>6, <2>1, <2>2, <2>3, <2>4
<1> QED
  BY <1>3, <1>5, <1>7, <1>8

\* The Value at the empty path is the Value.
LEMMA AtRoot ==
    ASSUME NEW v, Rooted(v)
    PROVE  At(v, <<>>) = v
<1>1. /\ v = [p \in DOMAIN v |-> v[p]] /\ DOMAIN v \subseteq Path
  BY DEF Rooted
<1>2. /\ At(v, <<>>) = [q \in DOMAIN At(v, <<>>) |-> At(v, <<>>)[q]]
      /\ DOMAIN At(v, <<>>) = {q \in Path : <<>> \o q \in DOMAIN v}
      /\ \A q \in DOMAIN At(v, <<>>) : At(v, <<>>)[q] = v[<<>> \o q]
  BY <1>1, Nothing, AtIs
<1>3. DOMAIN At(v, <<>>) = DOMAIN v /\ \A q \in DOMAIN v : At(v, <<>>)[q] = v[q]
  BY <1>1, <1>2, Nothing
<1> QED
  BY <1>1, <1>2, <1>3

\* What is under a path of a tree is a tree.
LEMMA AtIsTree ==
    ASSUME NEW v, IsTree(v), NEW p \in DOMAIN v
    PROVE  IsTree(At(v, p)) /\ At(v, p)[<<>>] = v[p]
<1> DEFINE u == At(v, p)
<1>0. p \in Path /\ DOMAIN v \subseteq Path /\ \A r \in DOMAIN v : IsNode(v[r])
  BY DEF IsTree
<1>1. /\ u = [q \in DOMAIN u |-> u[q]]
      /\ DOMAIN u = {q \in Path : p \o q \in DOMAIN v}
      /\ \A q \in DOMAIN u : u[q] = v[p \o q]
  BY <1>0, AtIs
<1>2. <<>> \in DOMAIN u /\ u[<<>>] = v[p]
  BY <1>0, <1>1, Nothing
<1>3. IsFiniteSet(DOMAIN u)
  <2>1. IsFiniteSet(Under(v, p))
    BY FS_Subset DEF IsTree, Under
  <2> DEFINE f == [r \in Under(v, p) |-> Rest(p, r)]
  <2>2. IsFiniteSet({f[r] : r \in Under(v, p)})
    BY <2>1, FiniteImage
  <2> QED
    BY <2>2 DEF At
<1>4. \A q \in DOMAIN u : IsNode(u[q])
  BY <1>0, <1>1
<1>5. ASSUME NEW q \in Path, NEW k \in Key, q \o <<k>> \in DOMAIN u
      PROVE  q \in DOMAIN u /\ IsKeyOf(u[q].type, k)
  <2>1. (p \o q) \o <<k>> = p \o (q \o <<k>>) /\ p \o q \in Path
    <3>1. PICK b \in Path : b = <<k>>
      BY OneKey
    <3> QED
      BY <1>0, <3>1, Longer, Joined
  <2>2. (p \o q) \o <<k>> \in DOMAIN v
    BY <1>1, <1>5, <2>1
  <2>3. p \o q \in DOMAIN v /\ IsKeyOf(v[p \o q].type, k)
    BY <2>1, <2>2, Above
  <2> QED
    BY <1>1, <2>3
<1> HIDE DEF u
<1>6. IsTree(u)
  BY <1>1, <1>2, <1>3, <1>4, <1>5, MakeTree
<1> QED
  BY <1>2, <1>6 DEF u

----------------------------------------------------------------------------
(* What the operations leave: the node of the root, the keys of the        *)
(* children, and each child.                                               *)

LEMMA ChildIs ==
    ASSUME NEW v, DOMAIN v \subseteq Path, NEW k \in Key
    PROVE  /\ Child(v, k) = [q \in DOMAIN Child(v, k) |-> Child(v, k)[q]]
           /\ DOMAIN Child(v, k) = {q \in Path : <<k>> \o q \in DOMAIN v}
           /\ \A q \in DOMAIN Child(v, k) : Child(v, k)[q] = v[<<k>> \o q]
<1>1. <<k>> \in Path
  BY OneKey
<1> QED
  BY <1>1, AtIs DEF Child

\* Children are the same where the paths under their key are.
Alike(v, k, w, l) ==
    /\ \A q \in Path : <<k>> \o q \in DOMAIN v <=> <<l>> \o q \in DOMAIN w
    /\ \A q \in Path : <<k>> \o q \in DOMAIN v => v[<<k>> \o q] = w[<<l>> \o q]

\* Such children are the same.
LEMMA SameChild ==
    ASSUME NEW v, NEW w, DOMAIN v \subseteq Path, DOMAIN w \subseteq Path,
           NEW k \in Key, NEW l \in Key, Alike(v, k, w, l)
    PROVE  Child(v, k) = Child(w, l)
<1>1. /\ Child(v, k) = [q \in DOMAIN Child(v, k) |-> Child(v, k)[q]]
      /\ DOMAIN Child(v, k) = {q \in Path : <<k>> \o q \in DOMAIN v}
      /\ \A q \in DOMAIN Child(v, k) : Child(v, k)[q] = v[<<k>> \o q]
  BY ChildIs
<1>2. /\ Child(w, l) = [q \in DOMAIN Child(w, l) |-> Child(w, l)[q]]
      /\ DOMAIN Child(w, l) = {q \in Path : <<l>> \o q \in DOMAIN w}
      /\ \A q \in DOMAIN Child(w, l) : Child(w, l)[q] = w[<<l>> \o q]
  BY ChildIs
<1>3. DOMAIN Child(v, k) = DOMAIN Child(w, l)
  BY <1>1, <1>2 DEF Alike
<1>4. \A q \in DOMAIN Child(v, k) : Child(v, k)[q] = Child(w, l)[q]
  BY <1>1, <1>2, <1>3 DEF Alike
<1> QED
  BY <1>1, <1>2, <1>3, <1>4

\* Put(v, p, w) is v outside of p, and w under p.
LEMMA PutIs ==
    ASSUME NEW v, DOMAIN v \subseteq Path, NEW w, DOMAIN w \subseteq Path, NEW p \in Path
    PROVE  /\ Put(v, p, w) = [r \in DOMAIN Put(v, p, w) |-> Put(v, p, w)[r]]
           /\ DOMAIN Put(v, p, w) \subseteq Path
           /\ \A r \in Path : ~IsUnder(p, r) =>
                 /\ r \in DOMAIN Put(v, p, w) <=> r \in DOMAIN v
                 /\ r \in DOMAIN v => Put(v, p, w)[r] = v[r]
           /\ \A q \in Path :
                 /\ p \o q \in DOMAIN Put(v, p, w) <=> q \in DOMAIN w
                 /\ q \in DOMAIN w => Put(v, p, w)[p \o q] = w[q]
<1> DEFINE new == {p \o q : q \in DOMAIN w}
           u == Put(v, p, w)
<1>1. DOMAIN u = (DOMAIN v \ Under(v, p)) \union new
  BY DEF Put
<1>2. \A r \in DOMAIN u : u[r] = IF r \in new THEN w[Rest(p, r)] ELSE v[r]
  BY DEF Put
<1>3. u = [r \in DOMAIN u |-> u[r]]
  BY DEF Put
<1>4. ASSUME NEW q \in Path
      PROVE  /\ p \o q \in Path /\ IsUnder(p, p \o q) /\ Rest(p, p \o q) = q
             /\ p \o q \in new <=> q \in DOMAIN w
  <2>1. p \o q \in Path /\ IsUnder(p, p \o q) /\ Rest(p, p \o q) = q
    BY Joined
  <2>2. ASSUME p \o q \in new PROVE q \in DOMAIN w
    <3>1. PICK s \in DOMAIN w : p \o q = p \o s
      BY <2>2
    <3>2. Rest(p, p \o s) = s
      BY Joined
    <3> QED
      BY <2>1, <3>1, <3>2
  <2> QED
    BY <2>1, <2>2
<1>5. \A r \in new : r \in Path /\ IsUnder(p, r)
  BY <1>4
<1>6. DOMAIN u \subseteq Path
  BY <1>1, <1>5
<1>7. ASSUME NEW r \in Path, ~IsUnder(p, r)
      PROVE  /\ r \in DOMAIN u <=> r \in DOMAIN v
             /\ r \in DOMAIN v => u[r] = v[r]
  BY <1>1, <1>2, <1>5, <1>7 DEF Under
<1>8. ASSUME NEW q \in Path
      PROVE  /\ p \o q \in DOMAIN u <=> q \in DOMAIN w
             /\ q \in DOMAIN w => u[p \o q] = w[q]
  <2>1. p \o q \notin DOMAIN v \ Under(v, p)
    BY <1>4 DEF Under
  <2>2. p \o q \in DOMAIN u <=> q \in DOMAIN w
    BY <1>1, <1>4, <2>1
  <2>3. ASSUME q \in DOMAIN w PROVE u[p \o q] = w[q]
    BY <1>2, <1>4, <2>2, <2>3
  <2> QED
    BY <2>2, <2>3
<1> QED
  BY <1>3, <1>6, <1>7, <1>8

\* u is v with the child w, new or in the place of another.
Placed(u, v, k, w) ==
    /\ Rooted(u) /\ u[<<>>] = v[<<>>]
    /\ Keys(u) = Keys(v) \union {k}
    /\ Child(u, k) = w
    /\ \A l \in Keys(v) \ {k} : Child(u, l) = Child(v, l)

\* A child that is put into a Value changes no other.
LEMMA PutChild ==
    ASSUME NEW v, Rooted(v), NEW w, Rooted(w), NEW k \in Key
    PROVE  Placed(Put(v, <<k>>, w), v, k, w)
<1> DEFINE u == Put(v, <<k>>, w)
<1>0. /\ DOMAIN v \subseteq Path /\ <<>> \in DOMAIN v /\ <<>> \in DOMAIN w /\ DOMAIN w \subseteq Path
      /\ w = [r \in DOMAIN w |-> w[r]]
      /\ \A r \in DOMAIN v \ {<<>>} : <<r[1]>> \in DOMAIN v
  BY DEF Rooted
<1>1. <<k>> \in Path
  BY OneKey
<1>2. /\ u = [r \in DOMAIN u |-> u[r]]
      /\ DOMAIN u \subseteq Path
      /\ \A r \in Path : ~IsUnder(<<k>>, r) =>
            /\ r \in DOMAIN u <=> r \in DOMAIN v
            /\ r \in DOMAIN v => u[r] = v[r]
      /\ \A q \in Path :
            /\ <<k>> \o q \in DOMAIN u <=> q \in DOMAIN w
            /\ q \in DOMAIN w => u[<<k>> \o q] = w[q]
  <2>1. DOMAIN v \subseteq Path /\ DOMAIN w \subseteq Path
    BY <1>0
  <2>2. PICK p \in Path : p = <<k>>
    BY <1>1
  <2> DEFINE x == Put(v, p, w)
  <2>3. /\ x = [r \in DOMAIN x |-> x[r]]
        /\ DOMAIN x \subseteq Path
        /\ \A r \in Path : ~IsUnder(p, r) =>
              /\ r \in DOMAIN x <=> r \in DOMAIN v
              /\ r \in DOMAIN v => x[r] = v[r]
        /\ \A q \in Path :
              /\ p \o q \in DOMAIN x <=> q \in DOMAIN w
              /\ q \in DOMAIN w => x[p \o q] = w[q]
    BY <2>1, PutIs
  <2> HIDE DEF x
  <2>4. x = u
    BY <2>2 DEF x
  <2> HIDE DEF u
  <2> QED
    BY <2>2, <2>3, <2>4
<1> HIDE DEF u
<1>3. ~IsUnder(<<k>>, <<>>)
  BY OneKey, Nothing
<1>4. <<>> \in DOMAIN u /\ u[<<>>] = v[<<>>]
  BY <1>0, <1>2, <1>3, Nothing
<1>5. <<k>> \in DOMAIN u
  <2>1. <<k>> \o <<>> \in DOMAIN u
    BY <1>0, <1>2, Nothing
  <2> QED
    BY <2>1, <1>1, Nothing
<1>6. ASSUME NEW l \in Key, l # k, NEW q \in Path
      PROVE  /\ ~IsUnder(<<k>>, <<l>> \o q)
             /\ <<l>> \o q \in Path
             /\ <<l>> \o q \in DOMAIN u <=> <<l>> \o q \in DOMAIN v
             /\ <<l>> \o q \in DOMAIN v => u[<<l>> \o q] = v[<<l>> \o q]
  <2>1. <<l>> \o q \in Path /\ (<<l>> \o q)[1] = l
    BY OneKey
  <2>2. ~IsUnder(<<k>>, <<l>> \o q)
    BY <1>6, <2>1, OneKey
  <2> QED
    BY <1>2, <2>1, <2>2
<1>7. ASSUME NEW l \in Key, l # k PROVE <<l>> \in DOMAIN u <=> <<l>> \in DOMAIN v
  <2>1. <<l>> \o <<>> \in DOMAIN u <=> <<l>> \o <<>> \in DOMAIN v
    BY <1>6, <1>7, Nothing
  <2>2. <<l>> \o <<>> = <<l>>
    BY OneKey, Nothing
  <2> QED
    BY <2>1, <2>2
<1>8. Keys(u) = {l \in Key : <<l>> \in DOMAIN u} /\ Keys(v) = {l \in Key : <<l>> \in DOMAIN v}
  BY <1>0, <1>2, KeysAre
<1>9. Keys(u) = Keys(v) \union {k}
  BY <1>5, <1>7, <1>8
<1>10. ASSUME NEW r \in DOMAIN u, r # <<>> PROVE <<r[1]>> \in DOMAIN u
  <2>0. r \in Path
    BY <1>2
  <2>1. PICK l \in Key, q \in Path : l = r[1] /\ r = <<l>> \o q
    BY <1>10, <2>0, FirstKey
  <2>2. CASE l = k
    BY <1>5, <2>1, <2>2
  <2>3. CASE l # k
    <3>1. r \in DOMAIN v
      BY <1>6, <2>1, <2>3
    <3>2. <<l>> \in DOMAIN v
      BY <1>0, <1>10, <2>1, <3>1
    <3> QED
      BY <1>7, <2>1, <2>3, <3>2
  <2> QED
    BY <2>2, <2>3
<1>11. Child(u, k) = w
  <2>1. /\ Child(u, k) = [q \in DOMAIN Child(u, k) |-> Child(u, k)[q]]
        /\ DOMAIN Child(u, k) = {q \in Path : <<k>> \o q \in DOMAIN u}
        /\ \A q \in DOMAIN Child(u, k) : Child(u, k)[q] = u[<<k>> \o q]
    BY <1>2, ChildIs
  <2>2. DOMAIN Child(u, k) = DOMAIN w
    BY <1>0, <1>2, <2>1
  <2>3. \A q \in DOMAIN w : Child(u, k)[q] = w[q]
    BY <1>0, <1>2, <2>1, <2>2
  <2> QED
    BY <1>0, <2>1, <2>2, <2>3
<1>12. ASSUME NEW l \in Keys(v) \ {k} PROVE Child(u, l) = Child(v, l)
  <2>1. l \in Key /\ l # k
    BY <1>8
  <2>2. \A q \in Path : <<l>> \o q \in DOMAIN u <=> <<l>> \o q \in DOMAIN v
    BY <1>6, <2>1
  <2>3. \A q \in Path : <<l>> \o q \in DOMAIN u => u[<<l>> \o q] = v[<<l>> \o q]
    BY <1>6, <2>1
  <2>4. DOMAIN u \subseteq Path /\ DOMAIN v \subseteq Path
    BY <1>0, <1>2
  <2> QED
    <3>1. Alike(u, l, v, l)
      BY <2>2, <2>3 DEF Alike
    <3> QED
      BY <2>1, <2>4, <3>1, SameChild
<1>13. Rooted(u)
  BY <1>2, <1>4, <1>10 DEF Rooted
<1>14. Placed(u, v, k, w)
  BY <1>4, <1>9, <1>11, <1>12, <1>13 DEF Placed
<1> QED
  BY <1>14 DEF u

\* A value with only some of its children.
Only(v, K) == [r \in {r \in DOMAIN v : r = <<>> \/ r[1] \in K} |-> v[r]]

\* Children that are left out leave the others as they are.
LEMMA OnlySome ==
    ASSUME NEW v, Rooted(v), NEW K
    PROVE  LET u == Only(v, K)
           IN /\ Rooted(u) /\ u[<<>>] = v[<<>>]
              /\ Keys(u) = Keys(v) \cap K
              /\ \A k \in Keys(u) : Child(u, k) = Child(v, k)
<1> DEFINE u == Only(v, K)
<1>0. /\ DOMAIN v \subseteq Path /\ <<>> \in DOMAIN v
      /\ \A r \in DOMAIN v \ {<<>>} : <<r[1]>> \in DOMAIN v
  BY DEF Rooted
<1>1. /\ u = [r \in DOMAIN u |-> u[r]]
      /\ DOMAIN u = {r \in DOMAIN v : r = <<>> \/ r[1] \in K}
      /\ \A r \in DOMAIN u : u[r] = v[r]
  BY DEF Only
<1> HIDE DEF u
<1>2. DOMAIN u \subseteq Path /\ <<>> \in DOMAIN u /\ u[<<>>] = v[<<>>]
  BY <1>0, <1>1
<1>3. Keys(u) = {l \in Key : <<l>> \in DOMAIN u} /\ Keys(v) = {l \in Key : <<l>> \in DOMAIN v}
  BY <1>0, <1>2, KeysAre
<1>4. \A k \in Key : <<k>> # <<>> /\ <<k>>[1] = k
  BY OneKey
<1>5. Keys(u) = Keys(v) \cap K
  BY <1>1, <1>3, <1>4
<1>6. ASSUME NEW r \in DOMAIN u, r # <<>> PROVE <<r[1]>> \in DOMAIN u
  <2>1. r[1] \in Key
    BY <1>2, <1>6, FirstKey
  <2>2. <<r[1]>> \in DOMAIN v /\ r[1] \in K
    BY <1>0, <1>1, <1>6
  <2> QED
    BY <1>1, <1>4, <2>1, <2>2
<1>7. ASSUME NEW k \in Keys(u) PROVE Child(u, k) = Child(v, k)
  <2>1. k \in Key /\ k \in K
    BY <1>3, <1>5
  <2>2. \A q \in Path : <<k>> \o q # <<>> /\ (<<k>> \o q)[1] = k
    BY <2>1, OneKey
  <2>3. \A q \in Path : <<k>> \o q \in DOMAIN u <=> <<k>> \o q \in DOMAIN v
    BY <1>1, <2>1, <2>2
  <2>4. \A q \in Path : <<k>> \o q \in DOMAIN u => u[<<k>> \o q] = v[<<k>> \o q]
    BY <1>1
  <2>5. DOMAIN u \subseteq Path /\ DOMAIN v \subseteq Path
    BY <1>0, <1>2
  <2> QED
    <3>1. Alike(u, k, v, k)
      BY <2>3, <2>4 DEF Alike
    <3> QED
      BY <2>1, <2>5, <3>1, SameChild
<1>8. Rooted(u)
  BY <1>1, <1>2, <1>6 DEF Rooted
<1> QED
  BY <1>2, <1>5, <1>7, <1>8 DEF u

\* A finite set of natural numbers has a greatest.
LEMMA Bounded ==
    ASSUME NEW S \in SUBSET Nat, IsFiniteSet(S)
    PROVE  \E n \in Nat : \A x \in S : x <= n
<1> DEFINE T == {U \in SUBSET S : ~\E n \in Nat : \A x \in U : x <= n}
<1> SUFFICES ASSUME S \in T PROVE FALSE
  OBVIOUS
<1>1. IsWellFoundedOn(StrictSubsetOrdering(S), SUBSET S)
  BY FS_StrictSubsetOrderingWellFounded, FS_FiniteSubsetsOfFinite
<1>2. PICK U \in T : \A V \in T : <<V, U>> \notin StrictSubsetOrdering(S)
  BY <1>1, WFMin
<1>3. PICK y \in U : TRUE
  <2>1. U # {}
    BY 0 \in Nat
  <2> QED
    BY <2>1
<1>4. U \ {y} \notin T
  <2>1. <<U \ {y}, U>> \in StrictSubsetOrdering(S)
    BY <1>3 DEF StrictSubsetOrdering
  <2> QED
    BY <1>2, <2>1
<1>5. PICK n \in Nat : \A x \in U \ {y} : x <= n
  BY <1>4
<1>6. y \in Nat
  BY <1>3
<1>7. PICK m \in Nat : m = IF n < y THEN y ELSE n
  BY <1>5, <1>6
<1>8. \A x \in U : x <= m
  BY <1>5, <1>6, <1>7
<1> QED
  BY <1>8

\* Largest is the greatest of finitely many numbers.
LEMMA Greatest ==
    ASSUME NEW S \in SUBSET Nat, IsFiniteSet(S), S # {}
    PROVE  Largest(S) \in S /\ \A x \in S : x <= Largest(S)
<1>1. \E y \in S : \A x \in S : x <= y
  <2> DEFINE T == {n \in Nat : \A x \in S : x <= n}
  <2>1. T # {}
    BY Bounded
  <2>2. PICK n \in T : \A m \in T : n <= m
    BY <2>1, Least
  <2>3. n \in S
    <3> SUFFICES ASSUME n \notin S PROVE FALSE
      OBVIOUS
    <3>1. \A x \in S : x < n
      BY <2>2
    <3>2. n - 1 \in Nat /\ \A x \in S : x <= n - 1
      <4>1. PICK x \in S : x \in Nat /\ x < n
        BY <3>1
      <4>2. n \in Nat /\ n > 0
        BY <4>1
      <4> QED
        BY <3>1, <4>2
    <3>3. n - 1 \in T
      BY <3>2
    <3> QED
      BY <2>2, <3>2, <3>3
  <2> QED
    BY <2>2, <2>3
<1> QED
  BY <1>1 DEF Largest

\* Where there are keys there is a set of them; they are as many as the tree's.
LEMMA KeysFinite ==
    ASSUME NEW v, IsTree(v)
    PROVE  /\ IsFiniteSet(Keys(v)) /\ Keys(v) = {k \in Key : <<k>> \in DOMAIN v}
           /\ \A k \in Keys(v) : IsKeyOf(Type(v), k) /\ IsTree(Child(v, k))
<1>1. Keys(v) = {k \in Key : <<k>> \in DOMAIN v}
  BY KeysAre DEF IsTree
<1>2. IsFiniteSet(Keys(v))
  <2> DEFINE Q == {q \in DOMAIN v : Len(q) = 1}
             f == [q \in Q |-> q[1]]
  <2>1. IsFiniteSet(Q)
    BY FS_Subset DEF IsTree
  <2>2. f = [q \in Q |-> f[q]] /\ Keys(v) = {f[q] : q \in Q}
    BY DEF Keys
  <2> HIDE DEF f, Q
  <2>3. IsFiniteSet({f[q] : q \in Q})
    BY <2>1, <2>2, FiniteImage
  <2> QED
    BY <2>2, <2>3
<1>3. ASSUME NEW k \in Keys(v) PROVE IsKeyOf(Type(v), k) /\ IsTree(Child(v, k))
  <2>1. k \in Key /\ <<k>> \in DOMAIN v
    BY <1>1
  <2>2. <<>> \in Path /\ <<>> \o <<k>> \in DOMAIN v
    BY <2>1, OneKey, Nothing
  <2>3. IsKeyOf(v[<<>>].type, k)
    BY <2>1, <2>2, Above
  <2> QED
    BY <2>1, <2>3, AtIsTree DEF Type, Child
<1> QED
  BY <1>1, <1>2, <1>3

\* The size of an array is one more than its last index.
LEMMA SizeIs ==
    ASSUME NEW v, Type(v) = "array", NEW n \in Nat,
           Keys(v) \subseteq {<<i>> : i \in 0 .. n - 1},
           n > 0 => <<n - 1>> \in Keys(v)
    PROVE  size(v) = n
<1>1. CASE n = 0
  <2>1. Keys(v) = {}
    BY <1>1
  <2> QED
    BY <1>1, <2>1 DEF size, IsArray, IsObject
<1>2. CASE n # 0
  <2>1. n - 1 \in {k[1] : k \in Keys(v)}
    <3>1. <<n - 1>>[1] = n - 1
      OBVIOUS
    <3> QED
      BY <1>2, <3>1
  <2>2. \A x \in {k[1] : k \in Keys(v)} : x \in Nat /\ x <= n - 1
    OBVIOUS
  <2>3. Largest({k[1] : k \in Keys(v)}) = n - 1
    <3> DEFINE S == {k[1] : k \in Keys(v)}
    <3>1. \E y \in S : \A x \in S : x <= y
      BY <2>1, <2>2
    <3>2. Largest(S) \in S /\ \A x \in S : x <= Largest(S)
      BY <3>1 DEF Largest
    <3>3. Largest(S) <= n - 1 /\ n - 1 <= Largest(S) /\ Largest(S) \in Nat
      BY <2>1, <2>2, <3>2
    <3> QED
      BY <3>3
  <2>4. Keys(v) # {}
    BY <1>2
  <2> QED
    BY <2>3, <2>4 DEF size, IsArray, IsObject
<1> QED
  BY <1>1, <1>2

\* The keys of an array are the numbers of its entries, which its size bounds.
LEMMA ArrayKeys ==
    ASSUME NEW v, IsTree(v), Type(v) = "array"
    PROVE  /\ size(v) \in Nat
           /\ Keys(v) \subseteq {<<i>> : i \in 0 .. size(v) - 1}
           /\ size(v) > 0 => <<size(v) - 1>> \in Keys(v)
<1> DEFINE S == {k[1] : k \in Keys(v)}
<1>1. \A k \in Keys(v) : k \in Key /\ Len(k) = 1
  BY KeysFinite DEF IsKeyOf
<1>2. \A k \in Keys(v) : k[1] \in Nat /\ k = <<k[1]>>
  BY <1>1, NumberKey
<1>3. CASE Keys(v) = {}
  BY <1>3 DEF size, IsArray, IsObject
<1>4. CASE Keys(v) # {}
  <2>1. IsFiniteSet(S)
    <3> DEFINE f == [k \in Keys(v) |-> k[1]]
    <3>1. IsFiniteSet({f[k] : k \in Keys(v)})
      BY KeysFinite, FiniteImage
    <3> QED
      BY <3>1
  <2>2. S \in SUBSET Nat /\ S # {}
    BY <1>2, <1>4
  <2>3. Largest(S) \in S /\ \A x \in S : x <= Largest(S)
    BY <2>1, <2>2, Greatest
  <2>4. size(v) = Largest(S) + 1
    BY <1>4 DEF size, IsArray, IsObject
  <2>5. PICK m \in Nat : m = Largest(S)
    BY <2>2, <2>3
  <2>6. \A k \in Keys(v) : k = <<k[1]>> /\ k[1] \in 0 .. m
    BY <1>2, <2>3, <2>5
  <2>7. <<m>> \in Keys(v)
    <3>1. PICK k \in Keys(v) : k[1] = m
      BY <2>3, <2>5
    <3> QED
      BY <2>6, <3>1
  <2>8. size(v) = m + 1 /\ size(v) - 1 = m
    BY <2>4, <2>5
  <2> QED
    BY <2>6, <2>7, <2>8
<1> QED
  BY <1>3, <1>4

\* Values without children.
LEMMA Leaf ==
    ASSUME NEW v, v = [p \in {<<>>} |-> v[p]], IsNode(v[<<>>])
    PROVE  IsTree(v) /\ Rooted(v) /\ Keys(v) = {}
<1>1. DOMAIN v = {<<>>} /\ DOMAIN v \subseteq Path
  BY Nothing
<1>2. Rooted(v)
  BY <1>1 DEF Rooted
<1>3. Keys(v) = {k \in Key : <<k>> \in DOMAIN v}
  BY <1>1, KeysAre
<1>4. Keys(v) = {}
  BY <1>1, <1>3, OneKey
<1>5. IsTree(v)
  BY <1>2, <1>4, FS_EmptySet, PartsMakeTree
<1> QED
  BY <1>2, <1>4, <1>5

\* A Value without children.
LEMMA EmptyIs ==
    ASSUME NEW t \in {"null", "array", "object"}
    PROVE  LET v == Make(t, <<>>)
           IN /\ IsTree(v) /\ Rooted(v) /\ Keys(v) = {}
              /\ v = [p \in {<<>>} |-> v[p]]
              /\ v[<<>>] = [type |-> t, data |-> <<>>, comments |-> NoComments,
                            start |-> 0, limit |-> 0]
              /\ Type(v) = t
<1> DEFINE v == Make(t, <<>>)
<1>1. /\ v = [p \in {<<>>} |-> v[p]]
      /\ v[<<>>] = [type |-> t, data |-> <<>>, comments |-> NoComments, start |-> 0, limit |-> 0]
  BY DEF Make, NullNode
<1>2. IsNode(v[<<>>]) /\ v[<<>>].type = t
  <2>1. NoComments = [slot \in CommentPlacement |-> NoComments[slot]]
    BY DEF NoComments
  <2> HIDE DEF v
  <2> QED
    BY <1>1, <2>1, Types DEF IsNode
<1> HIDE DEF v
<1>3. IsTree(v) /\ Rooted(v) /\ Keys(v) = {}
  BY <1>1, <1>2, Leaf
<1> QED
  BY <1>1, <1>2, <1>3 DEF v, Type

\* A null is such a Value.
LEMMA NullIs ==
    /\ IsTree(Null) /\ Rooted(Null) /\ Keys(Null) = {} /\ Type(Null) = "null"
    /\ Null = [p \in {<<>>} |-> NullNode] /\ IsNode(NullNode)
<1>1. /\ IsTree(Null) /\ Rooted(Null) /\ Keys(Null) = {} /\ Type(Null) = "null"
  BY EmptyIs DEF Null
<1>2. Null = [p \in {<<>>} |-> NullNode]
  <2>1. Null = [p \in {<<>>} |-> Null[p]] /\ Null[<<>>] = NullNode
    BY EmptyIs DEF Null, NullNode
  <2> QED
    BY <2>1
<1>3. IsNode(Null[<<>>]) /\ Null[<<>>] = NullNode
  BY <1>1, <1>2, Nothing DEF IsTree, WellFormed
<1> QED
  BY <1>1, <1>2, <1>3

\* A null has no children, and becomes an array or an object without any.
LEMMA BecomeIs ==
    ASSUME NEW v, IsTree(v), NEW t \in {"array", "object"}, Allows(v, t)
    PROVE  LET a == Become(v, t)
           IN /\ IsTree(a) /\ Rooted(a) /\ Type(a) = t
              /\ Keys(a) = Keys(v)
              /\ \A k \in Keys(v) : Child(a, k) = Child(v, k)
<1>1. CASE Type(v) = "null"
  <2>1. Keys(v) = {}
    BY <1>1, KeysFinite DEF IsKeyOf
  <2>2. Become(v, t) = Make(t, <<>>)
    BY <1>1 DEF Become, IsNull, Empty
  <2> QED
    BY <2>1, <2>2, EmptyIs
<1>2. CASE Type(v) # "null"
  <2>1. Become(v, t) = v /\ Type(v) = t
    BY <1>2 DEF Become, IsNull, Allows
  <2> QED
    BY <2>1, TreeIsRooted
<1> QED
  BY <1>1, <1>2

\* The keys of an array are below its size; a null is an array without any.
LEMMA SizeOfArray ==
    ASSUME NEW v, IsTree(v), Allows(v, "array")
    PROVE  /\ size(v) \in Nat /\ size(Become(v, "array")) = size(v)
           /\ Keys(v) \subseteq {<<i>> : i \in 0 .. size(v) - 1}
           /\ size(v) > 0 => <<size(v) - 1>> \in Keys(v)
<1>1. CASE Type(v) = "null"
  <2>1. Keys(v) = {} /\ size(v) = 0
    BY <1>1, KeysFinite DEF IsKeyOf, size, IsArray, IsObject
  <2>2. Keys(Become(v, "array")) = {} /\ Type(Become(v, "array")) = "array"
    BY <2>1, BecomeIs
  <2>3. size(Become(v, "array")) = 0
    <3>1. PICK n \in Nat : n = 0
      OBVIOUS
    <3>2. /\ Keys(Become(v, "array")) \subseteq {<<i>> : i \in 0 .. n - 1}
          /\ n > 0 => <<n - 1>> \in Keys(Become(v, "array"))
      BY <2>2, <3>1
    <3> QED
      BY <2>2, <3>1, <3>2, SizeIs
  <2> QED
    BY <2>1, <2>3
<1>2. CASE Type(v) # "null"
  BY <1>2, ArrayKeys DEF Allows, Become, IsNull
<1> QED
  BY <1>1, <1>2

\* (*this)[i] for some i: what was not there is null now.
LEMMA ElementsAre ==
    ASSUME NEW v, IsTree(v), Allows(v, "array"), NEW from \in Nat, NEW to \in Nat
    PROVE  LET u == Elements(v, from, to)
           IN /\ Rooted(u) /\ u[<<>>] = Become(v, "array")[<<>>]
              /\ Keys(u) = Keys(v) \union {<<i>> : i \in from .. to - 1}
              /\ \A k \in Keys(u) :
                    Child(u, k) = IF k \in Keys(v) THEN Child(v, k) ELSE Null
<1> DEFINE a == Become(v, "array")
           new == {<<<<i>>>> : i \in from .. to - 1} \ DOMAIN a
           u == Elements(v, from, to)
<1>1. /\ IsTree(a) /\ Rooted(a) /\ Keys(a) = Keys(v)
      /\ \A k \in Keys(v) : Child(a, k) = Child(v, k)
  BY BecomeIs
<1>2. /\ DOMAIN a \subseteq Path /\ <<>> \in DOMAIN a
      /\ \A r \in DOMAIN a \ {<<>>} : <<r[1]>> \in DOMAIN a
  BY <1>1 DEF Rooted
<1>3. /\ u = [r \in DOMAIN u |-> u[r]]
      /\ DOMAIN u = DOMAIN a \union new
      /\ \A r \in DOMAIN u : u[r] = IF r \in new THEN NullNode ELSE a[r]
  BY DEF Elements
<1>4. ASSUME NEW r \in new
      PROVE  /\ r \in Path /\ r # <<>> /\ r[1] \in Key /\ r = <<r[1]>> /\ r \notin DOMAIN a
             /\ \E i \in from .. to - 1 : r[1] = <<i>>
  <2>1. PICK i \in from .. to - 1 : r = <<<<i>>>>
    OBVIOUS
  <2>2. PICK k \in Key : k = <<i>>
    BY <2>1, NumberKey
  <2> QED
    BY <2>1, <2>2, OneKey
<1>5. ASSUME NEW i \in from .. to - 1, <<<<i>>>> \notin DOMAIN a PROVE <<<<i>>>> \in new
  BY <1>5
<1> HIDE DEF a, u, new
<1>6. DOMAIN u \subseteq Path /\ <<>> \in DOMAIN u /\ u[<<>>] = a[<<>>]
  BY <1>2, <1>3, <1>4
<1>7. Rooted(u)
  <2>1. ASSUME NEW r \in DOMAIN u, r # <<>> PROVE <<r[1]>> \in DOMAIN u
    BY <1>2, <1>3, <1>4, <2>1
  <2> QED
    BY <1>3, <1>6, <2>1 DEF Rooted
<1>8. Keys(u) = {k \in Key : <<k>> \in DOMAIN u} /\ Keys(a) = {k \in Key : <<k>> \in DOMAIN a}
  BY <1>2, <1>6, KeysAre
<1>9. Keys(u) = Keys(a) \union {<<i>> : i \in from .. to - 1}
  <2>1. ASSUME NEW k \in Keys(u), k \notin Keys(a) PROVE k \in {<<i>> : i \in from .. to - 1}
    <3>1. k \in Key /\ <<k>> \in new
      BY <1>3, <1>8, <2>1
    <3>2. <<k>>[1] = k
      BY <3>1, OneKey
    <3> QED
      BY <1>4, <3>1, <3>2
  <2>2. ASSUME NEW i \in from .. to - 1 PROVE <<i>> \in Keys(u)
    <3>1. <<i>> \in Key
      <4>1. i \in Nat
        OBVIOUS
      <4> QED
        BY <4>1, NumberKey
    <3>2. <<<<i>>>> \in DOMAIN u
      BY <1>3, <1>5
    <3> QED
      BY <1>8, <3>1, <3>2
  <2>3. Keys(a) \subseteq Keys(u)
    BY <1>3, <1>8
  <2> QED
    BY <2>1, <2>2, <2>3
<1>10. ASSUME NEW k \in Keys(a) PROVE Child(u, k) = Child(a, k)
  <2>1. k \in Key /\ <<k>> \in DOMAIN a
    BY <1>8
  <2>2. ASSUME NEW q \in Path
        PROVE  /\ <<k>> \o q \notin new
               /\ <<k>> \o q \in DOMAIN u <=> <<k>> \o q \in DOMAIN a
               /\ <<k>> \o q \in DOMAIN u => u[<<k>> \o q] = a[<<k>> \o q]
    <3>1. (<<k>> \o q)[1] = k
      BY <2>1, OneKey
    <3>2. <<k>> \o q \notin new
      BY <1>4, <2>1, <3>1
    <3> QED
      BY <1>3, <3>2
  <2>3. Alike(u, k, a, k)
    BY <2>2 DEF Alike
  <2> QED
    BY <1>2, <1>6, <2>1, <2>3, SameChild
<1>11. ASSUME NEW k \in Keys(u), k \notin Keys(a) PROVE Child(u, k) = Null
  <2>1. k \in Key /\ <<k>> \in new /\ <<k>> \notin DOMAIN a
    BY <1>3, <1>8, <1>11
  <2>2. /\ Child(u, k) = [q \in DOMAIN Child(u, k) |-> Child(u, k)[q]]
        /\ DOMAIN Child(u, k) = {q \in Path : <<k>> \o q \in DOMAIN u}
        /\ \A q \in DOMAIN Child(u, k) : Child(u, k)[q] = u[<<k>> \o q]
    <3>1. DOMAIN u \subseteq Path
      BY <1>6
    <3> QED
      BY <2>1, <3>1, ChildIs
  <2>3. <<k>> \o <<>> = <<k>> /\ <<>> \in Path
    BY <2>1, OneKey, Nothing
  <2>4. ASSUME NEW q \in Path, <<k>> \o q \in DOMAIN u PROVE q = <<>>
    <3>1. (<<k>> \o q)[1] = k /\ <<k>> \o q # <<>> /\ Tail(<<k>> \o q) = q
      BY <2>1, OneKey
    <3>2. <<k>> \o q \notin DOMAIN a
      BY <1>2, <2>1, <3>1
    <3>3. <<k>> \o q = <<k>>
      BY <1>3, <1>4, <2>4, <3>1, <3>2
    <3>4. Tail(<<k>> \o <<>>) = <<>>
      BY <2>1, <2>3, OneKey
    <3> QED
      BY <2>3, <3>1, <3>3, <3>4
  <2>5. DOMAIN Child(u, k) = {<<>>}
    <3>1. <<>> \in DOMAIN Child(u, k)
      BY <1>3, <2>1, <2>2, <2>3
    <3> QED
      BY <2>2, <2>4, <3>1
  <2>6. Child(u, k)[<<>>] = NullNode
    BY <1>3, <2>1, <2>2, <2>3, <2>5
  <2> QED
    BY <2>2, <2>5, <2>6, NullIs
<1> QED
  BY <1>1, <1>6, <1>7, <1>9, <1>10, <1>11 DEF u, a

\* u is v with the elements from .. to - 1, nulls in the gaps, moved by `by`.
Shifted(u, v, from, to, by) ==
    LET low == IF by < 0 THEN from + by ELSE from
    IN /\ Rooted(u) /\ u[<<>>] = Become(v, "array")[<<>>]
       /\ Keys(u) = {k \in Keys(v) : k[1] < low} \union {<<j + by>> : j \in from .. to - 1}
       /\ \A k \in Keys(v) : k[1] < low => Child(u, k) = Child(v, k)
       /\ \A j \in from .. to - 1 :
             Child(u, <<j + by>>) = IF <<j>> \in Keys(v) THEN Child(v, <<j>>) ELSE Null

\* The entries from .. to - 1 are moved, and those below them kept.
LEMMA MovedAre ==
    ASSUME NEW v, IsTree(v), Allows(v, "array"), NEW from \in Nat, NEW to \in Nat,
           NEW by \in {-1, 1}, from + by >= 0
    PROVE  Shifted(Moved(v, from, to, by), v, from, to, by)
<1> DEFINE low  == IF by < 0 THEN from + by ELSE from
           all  == Elements(v, from, to)
           kept == {r \in DOMAIN all : r = <<>> \/ r[1][1] < low}
           move(r) == <<<<r[1][1] + by>>>> \o Tail(r)
           back(r) == <<<<r[1][1] - by>>>> \o Tail(r)
           moved == {r \in DOMAIN all : r # <<>> /\ r[1][1] \in from .. to - 1}
           new   == {move(r) : r \in moved}
           u == Moved(v, from, to, by)
<1>1. /\ Rooted(all) /\ all[<<>>] = Become(v, "array")[<<>>]
      /\ Keys(all) = Keys(v) \union {<<i>> : i \in from .. to - 1}
      /\ \A k \in Keys(all) : Child(all, k) = IF k \in Keys(v) THEN Child(v, k) ELSE Null
  BY ElementsAre
<1>2. /\ u = [r \in DOMAIN u |-> u[r]]
      /\ DOMAIN u = kept \union new
      /\ \A r \in DOMAIN u : u[r] = IF r \in new THEN all[back(r)] ELSE all[r]
  BY DEF Moved
<1> HIDE DEF u, all
<1>3. /\ DOMAIN all \subseteq Path /\ <<>> \in DOMAIN all
      /\ \A r \in DOMAIN all \ {<<>>} : <<r[1]>> \in DOMAIN all
      /\ Keys(all) = {k \in Key : <<k>> \in DOMAIN all}
  BY <1>1, KeysAre DEF Rooted
<1>4. \A k \in Keys(all) : k \in Key /\ k[1] \in Nat /\ k = <<k[1]>>
  <2>1. \A k \in Keys(v) : \E i \in Nat : k = <<i>>
    <3>1. size(v) \in Nat /\ Keys(v) \subseteq {<<i>> : i \in 0 .. size(v) - 1}
      BY SizeOfArray
    <3> QED
      BY <3>1
  <2>2. \A k \in Keys(all) : \E i \in Nat : k = <<i>>
    BY <1>1, <2>1
  <2> QED
    BY <2>2, NumberKey
<1>5. ASSUME NEW r \in DOMAIN all, r # <<>>
      PROVE  \E i \in Nat, q \in Path : /\ r[1][1] = i /\ Tail(r) = q /\ r = <<<<i>>>> \o q /\ r[1] = <<i>>
                                        /\ <<i>> \in Keys(all)
  <2>0. r \in Path
    BY <1>3
  <2>1. r[1] \in Key /\ Tail(r) \in Path /\ r = <<r[1]>> \o Tail(r) /\ <<r[1]>> \in DOMAIN all
    BY <1>3, <1>5, <2>0, FirstKey
  <2>2. PICK k \in Keys(all) : k = r[1]
    BY <1>3, <2>1
  <2> QED
    BY <1>4, <2>1, <2>2
<1>6. ASSUME NEW i \in Int, i + by >= 0, NEW q \in Path
      PROVE  /\ <<i + by>> \in Key /\ <<<<i + by>>>> \o q \in Path /\ <<<<i + by>>>> \o q # <<>>
             /\ (<<<<i + by>>>> \o q)[1] = <<i + by>>
             /\ Tail(<<<<i + by>>>> \o q) = q
             /\ i >= 0 => back(<<<<i + by>>>> \o q) = <<<<i>>>> \o q
  <2>0. PICK m \in Nat : m = i + by
    BY <1>6
  <2>1. PICK k \in Key : k = <<i + by>> /\ k[1] = i + by
    BY <2>0, NumberKey
  <2>2. k[1] - by = i
    BY <2>1
  <2> QED
    BY <2>1, <2>2, OneKey
<1>7. ASSUME NEW r \in new
      PROVE  \E i \in from .. to - 1, q \in Path : r = <<<<i + by>>>> \o q /\ <<<<i>>>> \o q \in DOMAIN all
  <2>1. PICK s \in moved : r = move(s)
    OBVIOUS
  <2>2. PICK i \in Nat, q \in Path : s[1][1] = i /\ Tail(s) = q /\ s = <<<<i>>>> \o q
    BY <1>5, <2>1
  <2> QED
    BY <2>1, <2>2
<1>8. ASSUME NEW i \in from .. to - 1, NEW q \in Path, <<<<i>>>> \o q \in DOMAIN all
      PROVE  <<<<i + by>>>> \o q \in new
  <2>0. i \in Nat
    OBVIOUS
  <2>1. <<i>> \in Key
    BY <2>0, NumberKey
  <2>2. PICK s : s = <<<<i>>>> \o q
    OBVIOUS
  <2>3. s # <<>> /\ s[1] = <<i>> /\ Tail(s) = q
    BY <2>1, <2>2, OneKey
  <2>4. s[1][1] = i
    BY <2>3
  <2>5. s \in moved /\ move(s) = <<<<i + by>>>> \o q
    BY <1>8, <2>2, <2>3, <2>4
  <2> QED
    BY <2>5
<1>9. low \in Nat /\ \A i \in from .. to - 1 : i \in Nat /\ i + by \in Nat /\ i + by >= low
  OBVIOUS
<1>10. ASSUME NEW r \in new
       PROVE  /\ r \in Path /\ r # <<>>
              /\ \E j \in from .. to - 1 : r[1] = <<j + by>> /\ r[1][1] = j + by
  <2>1. PICK i \in from .. to - 1, q \in Path : r = <<<<i + by>>>> \o q
    BY <1>7
  <2>2. i \in Int /\ i + by >= 0
    BY <1>9
  <2>3. r[1] = <<i + by>> /\ r # <<>> /\ r \in Path
    BY <1>6, <2>1, <2>2
  <2> QED
    BY <2>3
<1>11. kept \cap new = {}
  <2> SUFFICES ASSUME NEW r \in kept, r \in new PROVE FALSE
    OBVIOUS
  <2>1. PICK j \in from .. to - 1 : r # <<>> /\ r[1][1] = j + by
    BY <1>10
  <2> QED
    BY <1>9, <2>1
<1>12. ASSUME NEW i \in from .. to - 1, NEW q \in Path
       PROVE  /\ <<<<i + by>>>> \o q \in DOMAIN u <=> <<<<i>>>> \o q \in DOMAIN all
              /\ <<<<i>>>> \o q \in DOMAIN all => u[<<<<i + by>>>> \o q] = all[<<<<i>>>> \o q]
  <2>0. i \in Int /\ i \in Nat /\ i + by >= 0 /\ i >= 0 /\ i + by \in Nat /\ i + by >= low
    BY <1>9
  <2>1. PICK r : r = <<<<i + by>>>> \o q
    OBVIOUS
  <2>2. /\ r # <<>> /\ r[1] = <<i + by>> /\ r[1][1] = i + by
        /\ back(r) = <<<<i>>>> \o q /\ Tail(r) = q
    <3>1. /\ <<<<i + by>>>> \o q # <<>>
          /\ (<<<<i + by>>>> \o q)[1] = <<i + by>>
          /\ Tail(<<<<i + by>>>> \o q) = q
          /\ back(<<<<i + by>>>> \o q) = <<<<i>>>> \o q
      BY <1>6, <2>0
    <3>2. r[1] = <<i + by>>
      BY <2>1, <3>1
    <3>3. r[1][1] = i + by
      BY <3>2
    <3>4. back(r) = back(<<<<i + by>>>> \o q)
      BY <2>1
    <3> HIDE DEF back
    <3> QED
      BY <2>1, <3>1, <3>2, <3>3, <3>4
  <2>3. r \notin kept
    BY <1>9, <2>0, <2>2
  <2>4. ASSUME r \in new PROVE <<<<i>>>> \o q \in DOMAIN all
    <3>1. PICK j \in from .. to - 1, s \in Path : r = <<<<j + by>>>> \o s /\ <<<<j>>>> \o s \in DOMAIN all
      BY <1>7, <2>4
    <3>2. j \in Int /\ j + by >= 0 /\ j \in Nat /\ j >= 0
      BY <1>9
    <3>3. back(r) = <<<<j>>>> \o s
      BY <1>6, <3>1, <3>2
    <3> QED
      BY <2>2, <3>1, <3>3
  <2>5. r \in new <=> <<<<i>>>> \o q \in DOMAIN all
    BY <1>8, <2>1, <2>4
  <2>6. r \in DOMAIN u <=> r \in new
    BY <1>2, <2>3
  <2>7. r \in new => u[r] = all[back(r)]
    BY <1>2, <2>6
  <2> QED
    BY <2>1, <2>2, <2>5, <2>6, <2>7
<1>13. ASSUME NEW k \in Keys(all), k[1] < low, NEW q \in Path
       PROVE  /\ <<k>> \o q \in DOMAIN u <=> <<k>> \o q \in DOMAIN all
              /\ <<k>> \o q \in DOMAIN u => u[<<k>> \o q] = all[<<k>> \o q]
  <2>1. PICK r : r = <<k>> \o q
    OBVIOUS
  <2>2. r # <<>> /\ r[1] = k
    BY <1>4, <2>1, OneKey
  <2>3. r \notin new
    <3> SUFFICES ASSUME r \in new PROVE FALSE
      OBVIOUS
    <3>1. PICK j \in from .. to - 1 : r[1][1] = j + by
      BY <1>10
    <3> QED
      BY <1>9, <1>13, <2>2, <3>1
  <2>4. r \in kept <=> r \in DOMAIN all
    BY <1>13, <2>2
  <2> QED
    BY <1>2, <2>1, <2>3, <2>4
<1> HIDE DEF low, kept, new, moved, move, back
<1>14. DOMAIN u \subseteq Path /\ <<>> \in DOMAIN u /\ u[<<>>] = all[<<>>]
  <2>1. <<>> \in kept /\ <<>> \notin new /\ kept \subseteq Path
    BY <1>3, <1>10 DEF kept
  <2> QED
    BY <1>2, <1>10, <2>1
<1>15. Keys(u) = {k \in Key : <<k>> \in DOMAIN u}
  BY <1>14, KeysAre
<1>16. ASSUME NEW i \in from .. to - 1
       PROVE  <<i>> \in Keys(all) /\ <<i + by>> \in Keys(u)
  <2>1. <<i>> \in Keys(all) /\ <<i>> \in Key /\ <<i + by>> \in Key
    BY <1>1, <1>9, NumberKey
  <2>2. <<<<i>>>> \in DOMAIN all /\ <<<<i>>>> \o <<>> = <<<<i>>>> /\ <<<<i + by>>>> \o <<>> = <<<<i + by>>>>
    BY <1>3, <2>1, OneKey, Nothing
  <2>3. <<<<i + by>>>> \in DOMAIN u
    BY <1>12, <2>2, Nothing
  <2> QED
    BY <1>15, <2>1, <2>3
<1>17. ASSUME NEW k \in Keys(v), k[1] < low PROVE k \in Keys(u) /\ k \in Keys(all)
  <2>1. k \in Keys(all) /\ k \in Key /\ <<k>> \in DOMAIN all
    BY <1>1, <1>3
  <2>2. <<k>> \o <<>> = <<k>>
    BY <2>1, OneKey, Nothing
  <2>3. <<k>> \in DOMAIN u
    BY <1>13, <1>17, <2>1, <2>2, Nothing
  <2> QED
    BY <1>15, <2>1, <2>3
<1>18. ASSUME NEW r \in DOMAIN u, r # <<>>
       PROVE  \/ r[1] \in Keys(v) /\ r[1][1] < low
              \/ \E j \in from .. to - 1 : r[1] = <<j + by>>
  <2>1. CASE r \in new
    BY <1>10, <2>1
  <2>2. CASE r \notin new
    <3>1. r \in DOMAIN all /\ r[1][1] < low
      BY <1>2, <1>18, <2>2 DEF kept
    <3>2. PICK i \in Nat : r[1] = <<i>> /\ <<i>> \in Keys(all) /\ r[1][1] = i
      BY <1>5, <1>18, <3>1
    <3>3. i \notin from .. to - 1
      BY <1>9, <3>1, <3>2 DEF low
    <3>4. <<i>> \in Keys(v)
      BY <1>1, <3>2, <3>3
    <3> QED
      BY <3>1, <3>2, <3>4
  <2> QED
    BY <2>1, <2>2
<1>19. Rooted(u)
  <2>1. ASSUME NEW r \in DOMAIN u, r # <<>> PROVE <<r[1]>> \in DOMAIN u
    <3>1. r[1] \in Keys(u)
      BY <1>16, <1>17, <1>18, <2>1
    <3> QED
      BY <1>15, <3>1
  <2> QED
    BY <1>2, <1>14, <2>1 DEF Rooted
<1>20. Keys(u) = {k \in Keys(v) : k[1] < low} \union {<<j + by>> : j \in from .. to - 1}
  <2>1. ASSUME NEW k \in Keys(u)
        PROVE  k \in {l \in Keys(v) : l[1] < low} \union {<<j + by>> : j \in from .. to - 1}
    <3>1. k \in Key /\ <<k>> \in DOMAIN u /\ <<k>> # <<>> /\ <<k>>[1] = k
      BY <1>15, OneKey
    <3> QED
      BY <1>18, <3>1
  <2> QED
    BY <1>16, <1>17, <2>1
<1>21. ASSUME NEW k \in Keys(v), k[1] < low PROVE Child(u, k) = Child(v, k)
  <2>1. k \in Keys(all) /\ k \in Key
    BY <1>3, <1>17, <1>21
  <2>2. Alike(u, k, all, k)
    BY <1>13, <1>21, <2>1 DEF Alike
  <2>3. Child(u, k) = Child(all, k)
    BY <1>3, <1>14, <2>1, <2>2, SameChild
  <2> QED
    BY <1>1, <2>1, <2>3
<1>22. ASSUME NEW j \in from .. to - 1
       PROVE  Child(u, <<j + by>>) = IF <<j>> \in Keys(v) THEN Child(v, <<j>>) ELSE Null
  <2>1. <<j>> \in Key /\ <<j + by>> \in Key /\ <<j>> \in Keys(all)
    BY <1>9, <1>16, NumberKey
  <2>2. Alike(u, <<j + by>>, all, <<j>>)
    BY <1>12 DEF Alike
  <2>3. Child(u, <<j + by>>) = Child(all, <<j>>)
    BY <1>3, <1>14, <2>1, <2>2, SameChild
  <2> QED
    BY <1>1, <2>1, <2>3
<1> QED
  BY <1>1, <1>14, <1>19, <1>20, <1>21, <1>22 DEF u, low, Shifted

----------------------------------------------------------------------------
(* Values on any path. *)

\* A Value at p is put there, or another in its place, and all is a tree again.
LEMMA PutIsTree ==
    ASSUME NEW v, IsTree(v), NEW w, IsTree(w), NEW p \in DOMAIN v
    PROVE  LET u == Put(v, p, w)
           IN /\ IsTree(u) /\ p \in DOMAIN u /\ At(u, p) = w
              /\ u = [r \in DOMAIN u |-> u[r]]
              /\ DOMAIN u \subseteq Path
              /\ \A r \in Path : ~IsUnder(p, r) =>
                    /\ r \in DOMAIN u <=> r \in DOMAIN v
                    /\ r \in DOMAIN v => u[r] = v[r]
              /\ \A q \in Path :
                    /\ p \o q \in DOMAIN u <=> q \in DOMAIN w
                    /\ q \in DOMAIN w => u[p \o q] = w[q]
<1> DEFINE u == Put(v, p, w)
<1>0. /\ DOMAIN v \subseteq Path /\ DOMAIN w \subseteq Path /\ p \in Path
      /\ <<>> \in DOMAIN v /\ <<>> \in DOMAIN w
      /\ IsFiniteSet(DOMAIN v) /\ IsFiniteSet(DOMAIN w)
      /\ w = [r \in DOMAIN w |-> w[r]]
      /\ \A r \in DOMAIN v : IsNode(v[r])
      /\ \A r \in DOMAIN w : IsNode(w[r])
  BY DEF IsTree, WellFormed
<1>1. /\ u = [r \in DOMAIN u |-> u[r]]
      /\ DOMAIN u \subseteq Path
      /\ \A r \in Path : ~IsUnder(p, r) =>
            /\ r \in DOMAIN u <=> r \in DOMAIN v
            /\ r \in DOMAIN v => u[r] = v[r]
      /\ \A q \in Path :
            /\ p \o q \in DOMAIN u <=> q \in DOMAIN w
            /\ q \in DOMAIN w => u[p \o q] = w[q]
  BY <1>0, PutIs
<1>2. IsFiniteSet(DOMAIN u)
  <2> DEFINE f == [q \in DOMAIN w |-> p \o q]
  <2>1. IsFiniteSet({f[q] : q \in DOMAIN w})
    <3>1. IsFiniteSet(DOMAIN w)
      BY <1>0
    <3> QED
      BY <3>1, FiniteImage
  <2>2. IsFiniteSet(DOMAIN v \ Under(v, p))
    BY <1>0, FS_Difference
  <2>3. DOMAIN u = (DOMAIN v \ Under(v, p)) \cup {f[q] : q \in DOMAIN w}
    BY DEF Put
  <2> QED
    BY <2>1, <2>2, <2>3, FS_Union
<1> HIDE DEF u
<1>3. ASSUME NEW r \in DOMAIN u, IsUnder(p, r)
      PROVE  \E q \in DOMAIN w : r = p \o q /\ u[r] = w[q]
  <2>1. PICK q \in Path : r = p \o q
    BY <1>0, <1>1, <1>3, Split
  <2> QED
    BY <1>1, <2>1
<1>4. p \in DOMAIN u
  BY <1>0, <1>1, Nothing
<1>5. <<>> \in DOMAIN u
  <2>1. CASE IsUnder(p, <<>>)
    <3>1. PICK q \in Path : <<>> = p \o q
      BY <1>0, <2>1, Nothing, Split
    <3>2. p = <<>>
      <4>1. p \in Seq(Key) /\ q \in Seq(Key) /\ p \o q = <<>>
        BY <1>0, <3>1 DEF Path
      <4> QED
        BY <4>1, ConcatEqualIffEmpty
    <3> QED
      BY <1>4, <3>2
  <2>2. CASE ~IsUnder(p, <<>>)
    BY <1>0, <1>1, <2>2, Nothing
  <2> QED
    BY <2>1, <2>2
<1>6. ASSUME NEW r \in DOMAIN u PROVE IsNode(u[r])
  <2>1. CASE IsUnder(p, r)
    BY <1>0, <1>3, <2>1
  <2>2. CASE ~IsUnder(p, r)
    <3>1. r \in Path
      BY <1>1
    <3>2. r \in DOMAIN v /\ u[r] = v[r]
      BY <1>1, <2>2, <3>1
    <3> QED
      BY <1>0, <3>2
  <2> QED
    BY <2>1, <2>2
<1>7. ASSUME NEW s \in Path, NEW k \in Key, s \o <<k>> \in DOMAIN u
      PROVE  s \in DOMAIN u /\ IsKeyOf(u[s].type, k)
  <2>0. <<k>> \in Path /\ s \o <<k>> \in Path
    BY OneKey, LastKey
  <2>1. ASSUME IsUnder(p, s) PROVE IsUnder(p, s \o <<k>>)
    <3>1. PICK q \in Path : s = p \o q
      BY <1>0, <2>1, Split
    <3>2. s \o <<k>> = p \o (q \o <<k>>)
      BY <1>0, <2>0, <3>1, Longer
    <3>3. q \o <<k>> \in Path
      BY LastKey
    <3> QED
      BY <1>0, <3>2, <3>3, Joined
  <2>2. ASSUME s \o <<k>> \in DOMAIN v, ~IsUnder(p, s)
        PROVE  s \in DOMAIN u /\ IsKeyOf(u[s].type, k)
    <3>1. s \in DOMAIN v /\ IsKeyOf(v[s].type, k)
      BY <2>2, Above
    <3> QED
      BY <1>1, <2>2, <3>1
  <2>3. CASE ~IsUnder(p, s \o <<k>>)
    BY <1>1, <1>7, <2>0, <2>1, <2>2, <2>3
  <2>4. CASE IsUnder(p, s \o <<k>>)
    <3>1. PICK q \in DOMAIN w : s \o <<k>> = p \o q
      BY <1>3, <1>7, <2>4
    <3>2. CASE q = <<>>
      <4>1. s \o <<k>> = p
        BY <1>0, <3>1, <3>2, Nothing
      <4>2. ~IsUnder(p, s)
        <5>1. Len(p) = Len(s) + 1 /\ Len(s) \in Nat
          BY <4>1, LastKey, LenProperties DEF Path
        <5> QED
          BY <5>1 DEF IsUnder
      <4> QED
        BY <2>2, <4>1, <4>2
    <3>3. CASE q # <<>>
      <4>1. PICK t \in Path, l \in Key : q = t \o <<l>>
        BY <1>0, <3>3, LastKeyOf
      <4>2. p \o q = (p \o t) \o <<l>> /\ p \o t \in Path
        <5>1. <<l>> \in Path
          BY OneKey
        <5> QED
          BY <1>0, <4>1, <5>1, Longer, Joined
      <4>3. s = p \o t /\ k = l
        <5>1. PICK a \in Path, b \in Path : a = s \o <<k>> /\ b = (p \o t) \o <<l>>
          BY <2>0, <3>1, <4>2
        <5>2. a[Len(a)] = k /\ SubSeq(a, 1, Len(a) - 1) = s
          BY <5>1, LastKey
        <5>3. b[Len(b)] = l /\ SubSeq(b, 1, Len(b) - 1) = p \o t
          BY <4>2, <5>1, LastKey
        <5> QED
          BY <3>1, <4>2, <5>1, <5>2, <5>3
      <4>4. t \in DOMAIN w /\ IsKeyOf(w[t].type, l)
        BY <4>1, Above
      <4> QED
        BY <1>1, <4>3, <4>4
    <3> QED
      BY <3>2, <3>3
  <2> QED
    BY <2>3, <2>4
<1>8. IsTree(u)
  BY <1>1, <1>2, <1>5, <1>6, <1>7, MakeTree
<1>9. At(u, p) = w
  <2>1. /\ At(u, p) = [q \in DOMAIN At(u, p) |-> At(u, p)[q]]
        /\ DOMAIN At(u, p) = {q \in Path : p \o q \in DOMAIN u}
        /\ \A q \in DOMAIN At(u, p) : At(u, p)[q] = u[p \o q]
    <3>1. DOMAIN u \subseteq Path /\ p \in Path
      BY <1>0, <1>1
    <3> QED
      BY <3>1, AtIs
  <2>2. DOMAIN At(u, p) = DOMAIN w
    BY <1>0, <1>1, <2>1
  <2>3. \A q \in DOMAIN w : At(u, p)[q] = w[q]
    BY <1>0, <1>1, <2>1, <2>2
  <2> QED
    BY <1>0, <2>1, <2>2, <2>3
<1> QED
  BY <1>1, <1>4, <1>8, <1>9 DEF u

\* What is put where it came from changes nothing.
LEMMA PutBack ==
    ASSUME NEW v, IsTree(v), NEW p \in DOMAIN v
    PROVE  Put(v, p, At(v, p)) = v
<1> DEFINE w == At(v, p)
           u == Put(v, p, w)
<1>0. p \in Path /\ DOMAIN v \subseteq Path /\ v = [r \in DOMAIN v |-> v[r]]
  BY DEF IsTree
<1>1. /\ DOMAIN w = {q \in Path : p \o q \in DOMAIN v}
      /\ \A q \in DOMAIN w : w[q] = v[p \o q]
  BY <1>0, AtIs
<1> HIDE DEF w
<1>3. /\ u = [r \in DOMAIN u |-> u[r]]
      /\ DOMAIN u \subseteq Path
      /\ \A r \in Path : ~IsUnder(p, r) =>
            /\ r \in DOMAIN u <=> r \in DOMAIN v
            /\ r \in DOMAIN v => u[r] = v[r]
      /\ \A q \in Path :
            /\ p \o q \in DOMAIN u <=> q \in DOMAIN w
            /\ q \in DOMAIN w => u[p \o q] = w[q]
  <2>1. DOMAIN w \subseteq Path
    BY <1>1
  <2> QED
    BY <1>0, <2>1, PutIs
<1> HIDE DEF u
<1>4. ASSUME NEW r \in Path
      PROVE  /\ r \in DOMAIN u <=> r \in DOMAIN v
             /\ r \in DOMAIN v => u[r] = v[r]
  <2>1. CASE IsUnder(p, r)
    <3>1. PICK q \in Path : r = p \o q
      BY <1>0, <2>1, Split
    <3> QED
      BY <1>1, <1>3, <3>1
  <2>2. CASE ~IsUnder(p, r)
    BY <1>3, <2>2
  <2> QED
    BY <2>1, <2>2
<1>5. DOMAIN u = DOMAIN v
  BY <1>0, <1>3, <1>4
<1>6. u = v
  BY <1>0, <1>3, <1>4, <1>5
<1> QED
  BY <1>6 DEF u, w

----------------------------------------------------------------------------
(* Arrays without gaps. *)

\* A path one key longer.
Onto(p, k) == p \o <<k>>

\* Paths of which the last keys are taken off are the same if they were.
LEMMA SameEnd ==
    ASSUME NEW s \in Path, NEW t \in Path, NEW k \in Key, NEW l \in Key, Onto(s, k) = Onto(t, l)
    PROVE  s = t /\ k = l
<1>1. PICK a \in Path, b \in Path : a = s \o <<k>> /\ b = t \o <<l>>
  BY LastKey
<1>2. a[Len(a)] = k /\ SubSeq(a, 1, Len(a) - 1) = s
  BY <1>1, LastKey
<1>3. b[Len(b)] = l /\ SubSeq(b, 1, Len(b) - 1) = t
  BY <1>1, LastKey
<1>4. a = b
  BY <1>1 DEF Onto
<1> QED
  BY <1>2, <1>3, <1>4

\* The path of an entry that an array in v may have, by its size.
Gap(v, r) == \E p \in DOMAIN v : /\ v[p].type = "array"
                                 /\ \E i \in 0 .. size(At(v, p)) - 1 : r = p \o <<<<i>>>>

\* An array inside a tree has a size.
LEMMA SizeAt ==
    ASSUME NEW v, IsTree(v), NEW p \in DOMAIN v, v[p].type = "array"
    PROVE  size(At(v, p)) \in Nat
<1>1. IsTree(At(v, p)) /\ Type(At(v, p)) = "array"
  BY AtIsTree DEF Type
<1> QED
  BY <1>1, ArrayKeys

\* Filled adds nulls where an array has gaps, and nothing else.
LEMMA FilledIs ==
    ASSUME NEW v, IsTree(v)
    PROVE  LET F == Filled(v)
           IN /\ F = [r \in DOMAIN F |-> F[r]]
              /\ DOMAIN F \subseteq Path
              /\ \A r \in Path : r \in DOMAIN F <=> r \in DOMAIN v \/ Gap(v, r)
              /\ \A r \in DOMAIN F : F[r] = IF r \in DOMAIN v THEN v[r] ELSE NullNode
<1> DEFINE Of(p) == {p \o <<<<i>>>> : i \in 0 .. size(At(v, p)) - 1}
           arrays == {p \in DOMAIN v : v[p].type = "array"}
           gaps == (UNION {Of(p) : p \in arrays}) \ DOMAIN v
           F == Filled(v)
<1>0. DOMAIN v \subseteq Path
  BY DEF IsTree
<1>1. /\ F = [r \in DOMAIN F |-> F[r]]
      /\ DOMAIN F = DOMAIN v \union gaps
      /\ \A r \in DOMAIN F : F[r] = IF r \in gaps THEN NullNode ELSE v[r]
  BY DEF Filled
<1>2. ASSUME NEW r PROVE r \in gaps <=> Gap(v, r) /\ r \notin DOMAIN v
  <2>1. \A p : r \in Of(p) <=> \E i \in 0 .. size(At(v, p)) - 1 : r = p \o <<<<i>>>>
    OBVIOUS
  <2>2. \A p : p \in arrays <=> p \in DOMAIN v /\ v[p].type = "array"
    OBVIOUS
  <2> HIDE DEF Of, arrays
  <2>3. r \in gaps <=> (\E p \in arrays : r \in Of(p)) /\ r \notin DOMAIN v
    OBVIOUS
  <2> QED
    BY <2>1, <2>2, <2>3 DEF Gap
<1>3. ASSUME NEW r, Gap(v, r) PROVE r \in Path
  <2>0. PICK p \in DOMAIN v : v[p].type = "array" /\ \E i \in 0 .. size(At(v, p)) - 1 : r = p \o <<<<i>>>>
    BY <1>3 DEF Gap
  <2>1. PICK i \in 0 .. size(At(v, p)) - 1 : v[p].type = "array" /\ r = p \o <<<<i>>>>
    BY <2>0
  <2>2. i \in Nat
    BY <2>1, SizeAt
  <2> QED
    BY <1>0, <2>1, <2>2, NumberKey, LastKey
<1> HIDE DEF F, gaps
<1>5. DOMAIN F \subseteq Path
  BY <1>0, <1>1, <1>3, <1>2
<1>6. \A r \in Path : r \in DOMAIN F <=> r \in DOMAIN v \/ Gap(v, r)
  BY <1>1, <1>2
<1>7. \A r \in DOMAIN F : F[r] = IF r \in DOMAIN v THEN v[r] ELSE NullNode
  BY <1>1, <1>2
<1> QED
  BY <1>1, <1>5, <1>6, <1>7 DEF F

\* What is filled in under p is filled in under p alone.
LEMMA GapUnder ==
    ASSUME NEW v, IsTree(v), NEW p \in DOMAIN v, NEW q \in Path
    PROVE  p \o q \in DOMAIN v \/ Gap(v, p \o q) <=> q \in DOMAIN At(v, p) \/ Gap(At(v, p), q)
<1> DEFINE u == At(v, p)
<1>0. p \in Path /\ DOMAIN v \subseteq Path
  BY DEF IsTree
<1>1. /\ DOMAIN u = {s \in Path : p \o s \in DOMAIN v}
      /\ \A s \in DOMAIN u : u[s] = v[p \o s]
  BY <1>0, AtIs
<1>2. \A s \in Path : At(u, s) = At(v, p \o s)
  BY <1>0, AtAt
<1>3. IsTree(u)
  BY AtIsTree
<1> HIDE DEF u
<1>4. ASSUME Gap(v, p \o q), q # <<>> PROVE Gap(u, q)
  <2>0. PICK s \in DOMAIN v : v[s].type = "array" /\ \E i \in 0 .. size(At(v, s)) - 1 : p \o q = s \o <<<<i>>>>
    BY <1>4 DEF Gap
  <2>1. PICK i \in 0 .. size(At(v, s)) - 1 : v[s].type = "array" /\ p \o q = s \o <<<<i>>>>
    BY <2>0
  <2>2. i \in Nat
    BY <2>1, SizeAt
  <2>3. PICK k \in Key : k = <<i>>
    BY <2>2, NumberKey
  <2>4. PICK t \in Path, l \in Key : q = t \o <<l>>
    BY <1>4, LastKeyOf
  <2>5. (p \o t) \o <<l>> = s \o <<k>> /\ p \o t \in Path /\ s \in Path
    <3>1. <<l>> \in Path
      BY OneKey
    <3>2. (p \o t) \o <<l>> = p \o (t \o <<l>>)
      BY <1>0, <3>1, Longer
    <3> QED
      BY <1>0, <2>1, <2>3, <2>4, <3>2, Joined
  <2>6. p \o t = s /\ l = k
    <3>1. PICK a \in Path : a = p \o t
      BY <2>5
    <3>2. Onto(a, l) = Onto(s, k) /\ s \in Path
      BY <2>5, <3>1 DEF Onto
    <3>3. a = s /\ l = k
      BY <3>2, SameEnd
    <3> QED
      BY <3>1, <3>3
  <2>7. t \in DOMAIN u /\ u[t].type = "array" /\ At(u, t) = At(v, s)
    BY <1>1, <1>2, <2>1, <2>6
  <2> QED
    BY <2>1, <2>3, <2>4, <2>6, <2>7 DEF Gap
<1>5. ASSUME Gap(u, q) PROVE Gap(v, p \o q)
  <2>0. PICK t \in DOMAIN u : u[t].type = "array" /\ \E i \in 0 .. size(At(u, t)) - 1 : q = t \o <<<<i>>>>
    BY <1>5 DEF Gap
  <2>1. PICK i \in 0 .. size(At(u, t)) - 1 : u[t].type = "array" /\ q = t \o <<<<i>>>>
    BY <2>0
  <2>2. i \in Nat /\ t \in Path
    BY <1>1, <1>3, <2>1, SizeAt
  <2>3. p \o t \in DOMAIN v /\ v[p \o t].type = "array" /\ At(u, t) = At(v, p \o t)
    BY <1>1, <1>2, <2>1, <2>2
  <2>4. (p \o t) \o <<<<i>>>> = p \o (t \o <<<<i>>>>)
    <3>1. <<<<i>>>> \in Path
      BY <2>2, NumberKey
    <3> QED
      BY <1>0, <2>2, <3>1, Longer
  <2> QED
    BY <2>1, <2>3, <2>4 DEF Gap
<1>6. q = <<>> => p \o q \in DOMAIN v /\ q \in DOMAIN u
  BY <1>0, <1>1, Nothing
<1>7. p \o q \in DOMAIN v <=> q \in DOMAIN u
  BY <1>1
<1> QED
  BY <1>4, <1>5, <1>6, <1>7 DEF u

\* A Value inside another one is seen as it is seen alone.
LEMMA AtFilled ==
    ASSUME NEW v, IsTree(v), NEW p \in DOMAIN v
    PROVE  At(Filled(v), p) = Filled(At(v, p))
<1> DEFINE F == Filled(v)
           u == At(v, p)
           G == Filled(u)
           H == At(F, p)
<1>0. p \in Path /\ DOMAIN v \subseteq Path
  BY DEF IsTree
<1>1. /\ DOMAIN u = {s \in Path : p \o s \in DOMAIN v}
      /\ \A s \in DOMAIN u : u[s] = v[p \o s]
  BY <1>0, AtIs
<1>2. IsTree(u)
  BY AtIsTree
<1>3. /\ F = [r \in DOMAIN F |-> F[r]] /\ DOMAIN F \subseteq Path
      /\ \A r \in Path : r \in DOMAIN F <=> r \in DOMAIN v \/ Gap(v, r)
      /\ \A r \in DOMAIN F : F[r] = IF r \in DOMAIN v THEN v[r] ELSE NullNode
  BY FilledIs
<1>5. \A q \in Path : p \o q \in DOMAIN v \/ Gap(v, p \o q) <=> q \in DOMAIN u \/ Gap(u, q)
  BY GapUnder
<1> HIDE DEF u, F
<1>4. /\ G = [r \in DOMAIN G |-> G[r]] /\ DOMAIN G \subseteq Path
      /\ \A r \in Path : r \in DOMAIN G <=> r \in DOMAIN u \/ Gap(u, r)
      /\ \A r \in DOMAIN G : G[r] = IF r \in DOMAIN u THEN u[r] ELSE NullNode
  BY <1>2, FilledIs
<1>6. /\ H = [q \in DOMAIN H |-> H[q]]
      /\ DOMAIN H = {q \in Path : p \o q \in DOMAIN F}
      /\ \A q \in DOMAIN H : H[q] = F[p \o q]
  <2>1. DOMAIN F \subseteq Path
    BY <1>3
  <2> QED
    BY <1>0, <2>1, AtIs
<1> HIDE DEF G, H
<1>7. \A q \in Path : p \o q \in Path
  BY <1>0, Joined
<1>8. DOMAIN G = DOMAIN H
  BY <1>3, <1>4, <1>5, <1>6, <1>7
<1>9. ASSUME NEW q \in DOMAIN G PROVE G[q] = H[q]
  <2>1. q \in Path /\ q \in DOMAIN H /\ p \o q \in DOMAIN F
    BY <1>4, <1>6, <1>8
  <2>2. H[q] = IF p \o q \in DOMAIN v THEN v[p \o q] ELSE NullNode
    BY <1>3, <1>6, <2>1
  <2>3. G[q] = IF q \in DOMAIN u THEN u[q] ELSE NullNode
    BY <1>4
  <2> QED
    BY <1>1, <2>1, <2>2, <2>3
<1>10. G = H
  BY <1>4, <1>6, <1>8, <1>9
<1> QED
  BY <1>10 DEF F, G, H, u

\* What a program sees of a value: all entries of an array are there.
LEMMA FilledParts ==
    ASSUME NEW v, IsTree(v)
    PROVE  LET F == Filled(v)
           IN /\ Rooted(F) /\ F[<<>>] = v[<<>>] /\ Type(F) = Type(v)
              /\ Keys(F) = Keys(v) \union IF Type(v) = "array" THEN {<<i>> : i \in 0 .. size(v) - 1} ELSE {}
              /\ \A k \in Keys(v) : Child(F, k) = Filled(Child(v, k))
              /\ \A k \in Keys(F) \ Keys(v) : Child(F, k) = Null
<1> DEFINE F == Filled(v)
           new == IF Type(v) = "array" THEN {<<i>> : i \in 0 .. size(v) - 1} ELSE {}
<1>0. /\ DOMAIN v \subseteq Path /\ <<>> \in DOMAIN v
      /\ \A r \in DOMAIN v \ {<<>>} : <<r[1]>> \in DOMAIN v
  BY TreeIsRooted DEF Rooted
<1>1. /\ F = [r \in DOMAIN F |-> F[r]] /\ DOMAIN F \subseteq Path
      /\ \A r \in Path : r \in DOMAIN F <=> r \in DOMAIN v \/ Gap(v, r)
      /\ \A r \in DOMAIN F : F[r] = IF r \in DOMAIN v THEN v[r] ELSE NullNode
  BY FilledIs
<1> HIDE DEF F, new
<1>2. <<>> \in DOMAIN F /\ F[<<>>] = v[<<>>]
  BY <1>0, <1>1, Nothing
<1>3. Keys(F) = {k \in Key : <<k>> \in DOMAIN F} /\ Keys(v) = {k \in Key : <<k>> \in DOMAIN v}
  BY <1>0, <1>1, KeysAre
<1>4. At(v, <<>>) = v
  BY TreeIsRooted, AtRoot
\* A gap is right under the root, or has a child above it.
<1>5. ASSUME NEW r \in Path, Gap(v, r)
      PROVE  \/ \E k \in new : k \in Key /\ r = <<k>>
             \/ r # <<>> /\ <<r[1]>> \in DOMAIN v
  <2>0. PICK s \in DOMAIN v : v[s].type = "array" /\ \E i \in 0 .. size(At(v, s)) - 1 : r = s \o <<<<i>>>>
    BY <1>5 DEF Gap
  <2>1. PICK i \in 0 .. size(At(v, s)) - 1 : v[s].type = "array" /\ r = s \o <<<<i>>>>
    BY <2>0
  <2>2. i \in Nat /\ s \in Path
    BY <1>0, <2>1, SizeAt
  <2>3. PICK k \in Key : k = <<i>>
    BY <2>2, NumberKey
  <2>4. CASE s = <<>>
    <3>1. r = <<k>>
      BY <2>1, <2>3, <2>4, OneKey, Nothing
    <3>2. k \in new
      BY <1>4, <2>1, <2>3, <2>4 DEF new, Type
    <3> QED
      BY <3>1, <3>2
  <2>5. CASE s # <<>>
    <3>1. PICK l \in Key, t \in Path : l = s[1] /\ s = <<l>> \o t
      BY <2>2, <2>5, FirstKey
    <3>2. <<l>> \in Path /\ <<k>> \in Path
      BY OneKey
    <3>3. r = <<l>> \o (t \o <<k>>) /\ t \o <<k>> \in Path
      <4>1. (<<l>> \o t) \o <<k>> = <<l>> \o (t \o <<k>>)
        BY <3>1, <3>2, Longer
      <4> QED
        BY <2>1, <2>3, <3>1, <4>1, LastKey
    <3>4. r # <<>> /\ r[1] = l
      BY <3>3, OneKey
    <3> QED
      BY <1>0, <2>5, <3>1, <3>4
  <2> QED
    BY <2>4, <2>5
<1>6. ASSUME NEW k \in new PROVE k \in Key /\ Gap(v, <<k>>) /\ <<k>> \in DOMAIN F
  <2>1. Type(v) = "array" /\ k \in {<<i>> : i \in 0 .. size(v) - 1}
    BY DEF new
  <2>2. size(v) \in Nat
    BY <2>1, ArrayKeys
  <2>3. PICK i \in Nat : i \in 0 .. size(v) - 1 /\ k = <<i>>
    BY <2>1, <2>2
  <2>4. k \in Key /\ <<k>> = <<>> \o <<<<i>>>> /\ <<k>> \in Path
    <3>1. k \in Key
      BY <2>3, NumberKey
    <3> QED
      BY <2>3, <3>1, OneKey, Nothing
  <2>5. Gap(v, <<k>>)
    BY <1>0, <1>4, <2>1, <2>3, <2>4 DEF Gap, Type
  <2> QED
    BY <1>1, <2>4, <2>5
<1>7. Keys(F) = Keys(v) \union new
  <2>1. ASSUME NEW k \in Key, <<k>> \in DOMAIN F PROVE k \in Keys(v) \union new
    <3>1. <<k>> \in Path /\ <<k>>[1] = k
      BY OneKey
    <3>2. CASE <<k>> \in DOMAIN v
      BY <1>3, <3>2
    <3>3. CASE Gap(v, <<k>>)
      <4>1. \/ \E l \in new : l \in Key /\ <<k>> = <<l>>
            \/ <<k>> \in DOMAIN v
        BY <1>5, <3>1, <3>3
      <4>2. ASSUME NEW l \in new, l \in Key, <<k>> = <<l>> PROVE k \in new
        BY <4>2, <3>1, OneKey
      <4> QED
        BY <1>3, <4>1, <4>2
    <3> QED
      BY <1>1, <2>1, <3>1, <3>2, <3>3
  <2>2. Keys(v) \subseteq Keys(F)
    BY <1>0, <1>1, <1>3
  <2> QED
    BY <1>3, <1>6, <2>1, <2>2
<1>8. Rooted(F)
  <2>1. ASSUME NEW r \in DOMAIN F, r # <<>> PROVE <<r[1]>> \in DOMAIN F
    <3>1. r \in Path
      BY <1>1
    <3>2. CASE r \in DOMAIN v
      <4>1. <<r[1]>> \in DOMAIN v
        BY <1>0, <2>1, <3>2
      <4> QED
        BY <1>0, <1>1, <4>1
    <3>3. CASE \E k \in new : k \in Key /\ r = <<k>>
      BY <1>6, <3>3, OneKey
    <3>4. CASE <<r[1]>> \in DOMAIN v
      BY <1>0, <1>1, <3>4
    <3> QED
      BY <1>1, <1>5, <3>1, <3>2, <3>3, <3>4
  <2> QED
    BY <1>1, <1>2, <2>1 DEF Rooted
<1>9. ASSUME NEW k \in Keys(v) PROVE Child(F, k) = Filled(Child(v, k))
  BY <1>3, AtFilled DEF Child, F
<1>10. ASSUME NEW k \in Keys(F), k \notin Keys(v) PROVE Child(F, k) = Null
  <2>1. k \in Key /\ <<k>> \in DOMAIN F /\ <<k>> \notin DOMAIN v
    BY <1>3, <1>10
  <2>2. /\ Child(F, k) = [q \in DOMAIN Child(F, k) |-> Child(F, k)[q]]
        /\ DOMAIN Child(F, k) = {q \in Path : <<k>> \o q \in DOMAIN F}
        /\ \A q \in DOMAIN Child(F, k) : Child(F, k)[q] = F[<<k>> \o q]
    <3>1. DOMAIN F \subseteq Path
      BY <1>1
    <3> QED
      BY <2>1, <3>1, ChildIs
  <2>3. <<k>> \o <<>> = <<k>> /\ <<>> \in Path
    BY <2>1, OneKey, Nothing
  <2>4. ASSUME NEW q \in Path, <<k>> \o q \in DOMAIN F PROVE q = <<>>
    <3>1. PICK r \in Path : r = <<k>> \o q
      BY <2>1, OneKey
    <3>2. r # <<>> /\ r[1] = k /\ Tail(r) = q
      BY <2>1, <3>1, OneKey
    <3>3. <<r[1]>> \notin DOMAIN v /\ r \notin DOMAIN v
      BY <1>0, <2>1, <3>2
    <3>4. PICK l \in new : l \in Key /\ r = <<l>>
      BY <1>1, <1>5, <2>4, <3>1, <3>3
    <3>5. Tail(<<l>> \o <<>>) = <<>> /\ <<l>> \o <<>> = <<l>>
      BY <3>4, OneKey, Nothing
    <3> QED
      BY <3>2, <3>4, <3>5
  <2>5. DOMAIN Child(F, k) = {<<>>}
    <3>1. <<>> \in DOMAIN Child(F, k)
      BY <2>1, <2>2, <2>3
    <3> QED
      BY <2>2, <2>4, <3>1
  <2>6. Child(F, k)[<<>>] = NullNode
    BY <1>1, <2>1, <2>2, <2>3, <2>5
  <2> QED
    BY <2>2, <2>5, <2>6, NullIs
<1>11. Type(F) = Type(v)
  BY <1>2 DEF Type
<1> QED
  BY <1>2, <1>7, <1>8, <1>9, <1>10, <1>11 DEF F, new

----------------------------------------------------------------------------
(* A call on one Value leaves what a program sees of the others. *)

\* u is v but for what is under p.
Beside(v, u, p) ==
    \A r \in Path : ~IsUnder(p, r) => /\ r \in DOMAIN v <=> r \in DOMAIN u
                                      /\ r \in DOMAIN v => v[r] = u[r]

\* A path one key longer is under p, or is p.
LEMMA UnderLonger ==
    ASSUME NEW p \in Path, NEW s \in Path, NEW k \in Key
    PROVE  /\ IsUnder(p, s) => IsUnder(p, s \o <<k>>)
           /\ IsUnder(p, s \o <<k>>) /\ ~IsUnder(p, s) => p = s \o <<k>>
<1>0. <<k>> \in Path /\ s \o <<k>> \in Path
  BY OneKey, LastKey
<1>1. ASSUME IsUnder(p, s) PROVE IsUnder(p, s \o <<k>>)
  <2>1. PICK q \in Path : s = p \o q
    BY <1>1, Split
  <2>2. s \o <<k>> = p \o (q \o <<k>>)
    BY <1>0, <2>1, Longer
  <2>3. q \o <<k>> \in Path
    BY LastKey
  <2> QED
    BY <2>2, <2>3, Joined
<1>2. ASSUME IsUnder(p, s \o <<k>>), ~IsUnder(p, s) PROVE p = s \o <<k>>
  <2>1. PICK q \in Path : s \o <<k>> = p \o q
    BY <1>0, <1>2, Split
  <2>2. CASE q = <<>>
    BY <2>1, <2>2, Nothing
  <2>3. CASE q # <<>>
    <3>1. PICK t \in Path, l \in Key : q = t \o <<l>>
      BY <2>3, LastKeyOf
    <3>2. p \o q = (p \o t) \o <<l>> /\ p \o t \in Path
      <4>1. <<l>> \in Path
        BY OneKey
      <4> QED
        BY <3>1, <4>1, Longer, Joined
    <3>3. PICK a \in Path : a = p \o t
      BY <3>2
    <3>4. Onto(s, k) = Onto(a, l)
      BY <2>1, <3>2, <3>3 DEF Onto
    <3>5. s = a
      BY <3>4, SameEnd
    <3> QED
      BY <1>2, <3>3, <3>5, Joined
  <2> QED
    BY <2>2, <2>3
<1> QED
  BY <1>1, <1>2

\* A call on the Value at p leaves the others in their places, with their sizes,
LEMMA SameKeys ==
    ASSUME NEW v, IsTree(v), NEW u, IsTree(u), NEW p \in Path,
           p \in DOMAIN v, p \in DOMAIN u, Beside(v, u, p),
           NEW s \in DOMAIN v, ~IsUnder(p, s)
    PROVE  s \in DOMAIN u /\ u[s] = v[s] /\ size(At(u, s)) = size(At(v, s))
<1> DEFINE a == At(v, s)
           b == At(u, s)
<1>0. s \in Path /\ DOMAIN v \subseteq Path /\ DOMAIN u \subseteq Path
  BY DEF IsTree
<1>1. s \in DOMAIN u /\ u[s] = v[s]
  BY <1>0 DEF Beside
<1>2. IsTree(a) /\ IsTree(b) /\ Type(a) = Type(b)
  BY <1>1, AtIsTree DEF Type
<1>3. /\ DOMAIN a = {q \in Path : s \o q \in DOMAIN v}
      /\ DOMAIN b = {q \in Path : s \o q \in DOMAIN u}
  BY <1>0, AtIs
<1> HIDE DEF a, b
<1>4. /\ Keys(a) = {k \in Key : <<k>> \in DOMAIN a}
      /\ Keys(b) = {k \in Key : <<k>> \in DOMAIN b}
  BY <1>2, KeysFinite
<1>5. ASSUME NEW k \in Key PROVE <<k>> \in DOMAIN a <=> <<k>> \in DOMAIN b
  <2>1. <<k>> \in Path /\ s \o <<k>> \in Path
    BY <1>0, OneKey, LastKey
  <2>2. s \o <<k>> \in DOMAIN v <=> s \o <<k>> \in DOMAIN u
    <3>1. CASE IsUnder(p, s \o <<k>>)
      BY <1>0, <3>1, UnderLonger
    <3>2. CASE ~IsUnder(p, s \o <<k>>)
      BY <2>1, <3>2 DEF Beside
    <3> QED
      BY <3>1, <3>2
  <2> QED
    BY <1>3, <2>1, <2>2
<1>6. Keys(a) = Keys(b)
  BY <1>4, <1>5
<1>7. size(a) = size(b)
  BY <1>2, <1>6 DEF size, IsArray, IsObject
<1> QED
  BY <1>1, <1>7 DEF a, b

\* and with their gaps.
LEMMA SameGaps ==
    ASSUME NEW v, IsTree(v), NEW u, IsTree(u), NEW p \in Path,
           p \in DOMAIN v, p \in DOMAIN u, Beside(v, u, p),
           NEW r \in Path, ~IsUnder(p, r), Gap(v, r)
    PROVE  Gap(u, r)
<1>1. PICK s \in DOMAIN v : v[s].type = "array" /\ \E i \in 0 .. size(At(v, s)) - 1 : r = s \o <<<<i>>>>
  BY DEF Gap
<1>2. PICK i \in 0 .. size(At(v, s)) - 1 : r = s \o <<<<i>>>>
  BY <1>1
<1>3. i \in Nat /\ s \in Path
  BY <1>1, SizeAt DEF IsTree
<1>4. ~IsUnder(p, s)
  <2>1. PICK k \in Key : k = <<i>>
    BY <1>3, NumberKey
  <2> QED
    BY <1>2, <1>3, <2>1, UnderLonger
<1>5. s \in DOMAIN u /\ u[s] = v[s] /\ size(At(u, s)) = size(At(v, s))
  BY <1>4, SameKeys
<1> QED
  BY <1>1, <1>2, <1>5 DEF Gap

\* u is v with w at p.
Replaced(u, v, p, w) ==
    /\ u = [r \in DOMAIN u |-> u[r]]
    /\ DOMAIN u \subseteq Path
    /\ \A r \in Path : ~IsUnder(p, r) =>
          /\ r \in DOMAIN u <=> r \in DOMAIN v
          /\ r \in DOMAIN v => u[r] = v[r]
    /\ \A q \in Path :
          /\ p \o q \in DOMAIN u <=> q \in DOMAIN w
          /\ q \in DOMAIN w => u[p \o q] = w[q]

\* Put is such a change.
LEMMA PutReplaces ==
    ASSUME NEW v, DOMAIN v \subseteq Path, NEW w, DOMAIN w \subseteq Path, NEW p \in Path
    PROVE  Replaced(Put(v, p, w), v, p, w)
BY PutIs DEF Replaced

\* And a program sees it as one.
LEMMA PutFilled ==
    ASSUME NEW v, IsTree(v), NEW w, IsTree(w), NEW p \in DOMAIN v
    PROVE  Filled(Put(v, p, w)) = Put(Filled(v), p, Filled(w))
<1> DEFINE u == Put(v, p, w)
           F == Filled(v)
           G == Filled(w)
           H == Filled(u)
           R == Put(F, p, G)
<1>0. p \in Path
  BY DEF IsTree
<1>1. /\ IsTree(u) /\ p \in DOMAIN u /\ At(u, p) = w
      /\ \A r \in Path : ~IsUnder(p, r) =>
            /\ r \in DOMAIN u <=> r \in DOMAIN v
            /\ r \in DOMAIN v => u[r] = v[r]
      /\ \A q \in Path :
            /\ p \o q \in DOMAIN u <=> q \in DOMAIN w
            /\ q \in DOMAIN w => u[p \o q] = w[q]
  <2>1. IsTree(u) /\ p \in DOMAIN u /\ At(u, p) = w
    BY PutIsTree
  <2>2. Replaced(u, v, p, w)
    <3>1. DOMAIN v \subseteq Path /\ DOMAIN w \subseteq Path
      BY DEF IsTree
    <3> QED
      BY <1>0, <3>1, PutReplaces
  <2> HIDE DEF u
  <2> QED
    BY <2>1, <2>2 DEF Replaced
<1> HIDE DEF u
<1>2. Beside(v, u, p) /\ Beside(u, v, p)
  BY <1>1 DEF Beside
<1>3. /\ DOMAIN F \subseteq Path
      /\ \A r \in Path : r \in DOMAIN F <=> r \in DOMAIN v \/ Gap(v, r)
      /\ \A r \in DOMAIN F : F[r] = IF r \in DOMAIN v THEN v[r] ELSE NullNode
  BY FilledIs
<1>4. /\ DOMAIN G \subseteq Path
      /\ \A r \in Path : r \in DOMAIN G <=> r \in DOMAIN w \/ Gap(w, r)
      /\ \A r \in DOMAIN G : G[r] = IF r \in DOMAIN w THEN w[r] ELSE NullNode
  BY FilledIs
<1>5. /\ H = [r \in DOMAIN H |-> H[r]] /\ DOMAIN H \subseteq Path
      /\ \A r \in Path : r \in DOMAIN H <=> r \in DOMAIN u \/ Gap(u, r)
      /\ \A r \in DOMAIN H : H[r] = IF r \in DOMAIN u THEN u[r] ELSE NullNode
  BY <1>1, FilledIs
<1> HIDE DEF F, G, H
<1>6. /\ R = [r \in DOMAIN R |-> R[r]]
      /\ DOMAIN R \subseteq Path
      /\ \A r \in Path : ~IsUnder(p, r) =>
            /\ r \in DOMAIN R <=> r \in DOMAIN F
            /\ r \in DOMAIN F => R[r] = F[r]
      /\ \A q \in Path :
            /\ p \o q \in DOMAIN R <=> q \in DOMAIN G
            /\ q \in DOMAIN G => R[p \o q] = G[q]
  <2>1. DOMAIN F \subseteq Path /\ DOMAIN G \subseteq Path
    BY <1>3, <1>4
  <2>2. Replaced(R, F, p, G)
    BY <1>0, <2>1, PutReplaces
  <2> HIDE DEF R
  <2> QED
    BY <2>2 DEF Replaced
<1> HIDE DEF R
<1>7. ASSUME NEW r \in Path
      PROVE  /\ r \in DOMAIN H <=> r \in DOMAIN R
             /\ r \in DOMAIN H => H[r] = R[r]
  <2>1. CASE IsUnder(p, r)
    <3>1. PICK q \in Path : r = p \o q
      BY <1>0, <2>1, Split
    <3>2. r \in DOMAIN u \/ Gap(u, r) <=> q \in DOMAIN w \/ Gap(w, q)
      BY <1>1, <3>1, GapUnder
    <3>3. r \in DOMAIN H <=> q \in DOMAIN G
      BY <1>4, <1>5, <3>2
    <3>4. r \in DOMAIN R <=> q \in DOMAIN G
      BY <1>6, <3>1
    <3>5. ASSUME q \in DOMAIN G PROVE H[r] = R[r]
      <4>1. H[r] = IF q \in DOMAIN w THEN w[q] ELSE NullNode
        BY <1>1, <1>5, <3>1, <3>3, <3>5
      <4>2. R[r] = G[q]
        BY <1>6, <3>1, <3>5
      <4> QED
        BY <1>4, <3>5, <4>1, <4>2
    <3> QED
      BY <3>3, <3>4, <3>5
  <2>2. CASE ~IsUnder(p, r)
    <3>1. Gap(u, r) <=> Gap(v, r)
      BY <1>0, <1>1, <1>2, <2>2, SameGaps
    <3>2. r \in DOMAIN u <=> r \in DOMAIN v
      BY <1>1, <2>2
    <3>3. r \in DOMAIN H <=> r \in DOMAIN F
      BY <1>3, <1>5, <3>1, <3>2
    <3>4. r \in DOMAIN v => u[r] = v[r]
      BY <1>1, <2>2
    <3>5. r \in DOMAIN F => H[r] = F[r]
      BY <1>3, <1>5, <3>2, <3>3, <3>4
    <3> QED
      BY <1>6, <2>2, <3>3, <3>5
  <2> QED
    BY <2>1, <2>2
<1>8. DOMAIN H = DOMAIN R
  BY <1>5, <1>6, <1>7
<1>9. H = R
  BY <1>5, <1>6, <1>7, <1>8
<1> QED
  BY <1>9 DEF u, F, G, H, R

\* A Value without children is seen as it is.
LEMMA FilledLeaf ==
    ASSUME NEW v, IsTree(v), Keys(v) = {}
    PROVE  Filled(v) = v
<1>1. Rooted(v)
  BY TreeIsRooted
<1>2. ASSUME Type(v) = "array" PROVE size(v) = 0
  <2>1. size(v) \in Nat /\ (size(v) > 0 => <<size(v) - 1>> \in Keys(v))
    BY <1>2, ArrayKeys
  <2> QED
    BY <2>1
<1>3. /\ Rooted(Filled(v)) /\ Filled(v)[<<>>] = v[<<>>]
      /\ Keys(Filled(v)) = Keys(v) \union IF Type(v) = "array" THEN {<<i>> : i \in 0 .. size(v) - 1} ELSE {}
  BY FilledParts
<1>4. Keys(Filled(v)) = {}
  BY <1>2, <1>3
<1> QED
  BY <1>1, <1>3, <1>4, SameParts

----------------------------------------------------------------------------
(* What JsonPromise says of arrays, of a Value as a program sees it. *)

LEMMA PromiseTree ==
    /\ Promise!NullNode = NullNode /\ Promise!Null = Null
    /\ \A v : Promise!Keys(v) = Keys(v) /\ Promise!Type(v) = Type(v) /\ Promise!size(v) = size(v)
    /\ \A v, t : Promise!Become(v, t) = Become(v, t) /\ (Promise!Allows(v, t) <=> Allows(v, t))
    /\ \A v, p : Promise!At(v, p) = At(v, p) /\ Promise!Drop(v, p) = Drop(v, p)
    /\ \A v, k : Promise!Child(v, k) = Child(v, k)
    /\ \A v, p, w : Promise!Put(v, p, w) = Put(v, p, w)
    /\ \A v, w : Promise!WithPayload(v, w) = WithPayload(v, w)
    /\ \A S : Promise!Cardinality(S) = Cardinality(S)
<1>0. \A S : Promise!Cardinality(S) = Cardinality(S)
  BY DEF Promise!Cardinality, Cardinality
<1>1. Promise!CommentPlacement = CommentPlacement /\ Promise!NoComments = NoComments
  BY DEF Promise!CommentPlacement, CommentPlacement, Promise!NoComments, NoComments
<1>2. Promise!NullNode = NullNode
  BY <1>1 DEF Promise!NullNode, NullNode
<1>3. \A t, d : Promise!Make(t, d) = Make(t, d)
  BY <1>2 DEF Promise!Make, Make
<1>4. Promise!Null = Null
  BY <1>3 DEF Promise!Null, Null
<1>5. \A v : Promise!Keys(v) = Keys(v) /\ Promise!Type(v) = Type(v)
  BY DEF Promise!Keys, Keys, Promise!Type, Type
<1>6. \A S : Promise!Largest(S) = Largest(S)
  BY DEF Promise!Largest, Largest
<1>7. \A v : /\ Promise!IsNull(v) <=> IsNull(v)
             /\ Promise!IsArray(v) <=> IsArray(v)
             /\ Promise!IsObject(v) <=> IsObject(v)
  BY <1>5 DEF Promise!IsNull, IsNull, Promise!IsArray, IsArray, Promise!IsObject, IsObject
<1>8. \A v : Promise!size(v) = size(v)
  <2> SUFFICES ASSUME NEW v PROVE Promise!size(v) = size(v)
    OBVIOUS
  <2>1. Promise!Keys(v) = Keys(v)
    BY <1>5
  <2>2. Promise!Largest({k[1] : k \in Promise!Keys(v)}) = Largest({k[1] : k \in Keys(v)})
    BY <1>6, <2>1
  <2>3. CASE IsArray(v)
    <3>1. Promise!size(v) = IF Promise!Keys(v) = {} THEN 0 ELSE Promise!Largest({k[1] : k \in Promise!Keys(v)}) + 1
      BY <1>5, <2>3 DEF Promise!size, Promise!IsArray, Promise!IsObject, IsArray
    <3>2. size(v) = IF Keys(v) = {} THEN 0 ELSE Largest({k[1] : k \in Keys(v)}) + 1
      BY <2>3 DEF size, IsArray, IsObject
    <3> QED
      BY <2>1, <2>2, <3>1, <3>2
  <2>4. CASE ~IsArray(v)
    <3>1. Promise!size(v) = IF IsObject(v) THEN Cardinality(Keys(v)) ELSE 0
      BY <1>0, <1>7, <2>1, <2>4 DEF Promise!size
    <3>2. size(v) = IF IsObject(v) THEN Cardinality(Keys(v)) ELSE 0
      BY <2>4 DEF size
    <3> QED
      BY <3>1, <3>2
  <2> QED
    BY <2>3, <2>4
<1>9. \A v, t : Promise!Become(v, t) = Become(v, t)
  BY <1>3, <1>7 DEF Promise!Become, Become, Promise!Empty, Empty
<1>10. \A v, t : Promise!Allows(v, t) <=> Allows(v, t)
  BY <1>5 DEF Promise!Allows, Allows
<1>11. /\ \A p, r : Promise!IsUnder(p, r) <=> IsUnder(p, r)
       /\ \A p, r : Promise!Rest(p, r) = Rest(p, r)
  BY DEF Promise!IsUnder, IsUnder, Promise!Rest, Rest
<1>12. \A v, p : Promise!Under(v, p) = Under(v, p)
  BY <1>11 DEF Promise!Under, Under
<1>13. \A v, p : Promise!At(v, p) = At(v, p)
  BY <1>11, <1>12 DEF Promise!At, At
<1>14. \A v, p : Promise!Drop(v, p) = Drop(v, p)
  BY <1>12 DEF Promise!Drop, Drop
<1>15. \A v, k : Promise!Child(v, k) = Child(v, k)
  BY <1>13 DEF Promise!Child, Child
<1>16. \A v, p, w : Promise!Put(v, p, w) = Put(v, p, w)
  BY <1>11, <1>12 DEF Promise!Put, Put
<1>17. \A v, w : Promise!WithPayload(v, w) = WithPayload(v, w)
  BY DEF Promise!WithPayload, WithPayload
<1> QED
  BY <1>0, <1>2, <1>4, <1>5, <1>8, <1>9, <1>10, <1>13, <1>14, <1>15, <1>16, <1>17

\* The path of an entry of an array, and of what is in it.
LEMMA EntryIs ==
    ASSUME NEW i \in Nat, NEW q \in Path
    PROVE  LET r == <<<<i>>>> \o q
           IN r \in Path /\ r # <<>> /\ r[1] = <<i>> /\ r[1][1] = i /\ Tail(r) = q
<1>1. PICK k \in Key : k = <<i>> /\ k[1] = i
  BY NumberKey
<1>2. <<k>> \o q \in Path /\ <<k>> \o q # <<>> /\ (<<k>> \o q)[1] = k /\ Tail(<<k>> \o q) = q
  BY OneKey
<1> QED
  BY <1>1, <1>2

\* An array without gaps has as many keys as its size.
LEMMA NumberKeys ==
    ASSUME NEW n \in Nat
    PROVE  /\ IsFiniteSet({<<i>> : i \in 0 .. n - 1})
           /\ Cardinality({<<i>> : i \in 0 .. n - 1}) = n
<1> DEFINE S == 0 .. n - 1
           T == {<<i>> : i \in S}
           f == [i \in S |-> <<i>>]
<1>1. IsFiniteSet(S) /\ Cardinality(S) = n
  BY FS_Interval
<1>2. f \in Bijection(S, T)
  <2>1. \A i, j \in S : f[i] = f[j] => i = j
    OBVIOUS
  <2>2. f \in [S -> T]
    OBVIOUS
  <2>3. \A t \in T : \E i \in S : f[i] = t
    OBVIOUS
  <2> HIDE DEF f, S, T
  <2> QED
    BY <2>1, <2>2, <2>3 DEF Bijection, Injection, Surjection, IsInjective
<1>3. ExistsBijection(S, T)
  BY <1>2 DEF ExistsBijection
<1> HIDE DEF S, T
<1>4. IsFiniteSet(T) /\ Cardinality(T) = n
  BY <1>1, <1>3, FS_Bijection
<1> QED
  BY <1>4 DEF S, T

\* What a program sees at index j.
ItemAt(v, j) == IF <<j>> \in Keys(v) THEN Filled(Child(v, <<j>>)) ELSE Null

\* An array is seen as a sequence of as many items as its size.
LEMMA ItemsSeen ==
    ASSUME NEW v, IsTree(v), Allows(v, "array")
    PROVE  LET F == Filled(v)
           IN /\ Promise!Items(F) = [i \in 1 .. size(v) |-> ItemAt(v, i - 1)]
              /\ size(F) = size(v) /\ Allows(F, "array") /\ Type(F) = Type(v)
              /\ Become(F, "array")[<<>>] = Become(v, "array")[<<>>]
<1> DEFINE F == Filled(v)
<1>0. /\ size(v) \in Nat /\ Keys(v) \subseteq {<<i>> : i \in 0 .. size(v) - 1}
      /\ size(v) > 0 => <<size(v) - 1>> \in Keys(v)
  BY SizeOfArray
<1>1. /\ F[<<>>] = v[<<>>] /\ Type(F) = Type(v)
      /\ Keys(F) = Keys(v) \union IF Type(v) = "array" THEN {<<i>> : i \in 0 .. size(v) - 1} ELSE {}
      /\ \A k \in Keys(v) : Child(F, k) = Filled(Child(v, k))
      /\ \A k \in Keys(F) \ Keys(v) : Child(F, k) = Null
  BY FilledParts
<1> HIDE DEF F
<1>2. Type(v) # "array" => size(v) = 0
  BY DEF Allows, size, IsArray, IsObject
<1> DEFINE K == {<<i>> : i \in 0 .. size(v) - 1}
<1>3. Keys(F) = K
  <2>1. CASE Type(v) = "array"
    BY <1>0, <1>1, <2>1
  <2>2. CASE Type(v) # "array"
    <3>1. size(v) = 0
      BY <1>2, <2>2
    <3>2. K = {}
      BY <3>1
    <3> QED
      BY <1>0, <1>1, <2>2, <3>2
  <2> QED
    BY <2>1, <2>2
<1>4. Cardinality(K) = size(v)
  BY <1>0, NumberKeys
<1>5. \A i \in 1 .. size(v) : <<i - 1>> \in K
  <2>1. ASSUME NEW i \in 1 .. size(v) PROVE \E j \in 0 .. size(v) - 1 : <<i - 1>> = <<j>>
    <3>1. i - 1 \in 0 .. size(v) - 1
      BY <1>0
    <3> QED
      BY <3>1
  <2> QED
    BY <2>1
<1> HIDE DEF K
<1>6. \A i \in 1 .. size(v) : Child(F, <<i - 1>>) = ItemAt(v, i - 1)
  BY <1>1, <1>3, <1>5 DEF ItemAt
<1>7. Promise!Items(F) = [i \in 1 .. size(v) |-> Child(F, <<i - 1>>)]
  <2>1. Promise!Keys(F) = Keys(F) /\ \A k : Promise!Child(F, k) = Child(F, k)
    BY PromiseTree
  <2>2. Promise!Items(F) = [i \in 1 .. Promise!Cardinality(Promise!Keys(F)) |-> Promise!Child(F, <<i - 1>>)]
    BY DEF Promise!Items
  <2>3. Promise!Cardinality(Promise!Keys(F)) = size(v)
    BY <1>3, <1>4, <2>1, PromiseTree
  <2> QED
    BY <2>1, <2>2, <2>3
<1>8. Promise!Items(F) = [i \in 1 .. size(v) |-> ItemAt(v, i - 1)]
  BY <1>6, <1>7
<1>9. Allows(F, "array")
  BY <1>1 DEF Allows
<1>10. Become(F, "array")[<<>>] = Become(v, "array")[<<>>]
  BY <1>1 DEF Become, IsNull
<1>11. size(F) = size(v)
  <2>1. CASE Type(v) = "array"
    <3>1. Keys(F) \subseteq {<<i>> : i \in 0 .. size(v) - 1}
      BY <1>3 DEF K
    <3>2. size(v) > 0 => <<size(v) - 1>> \in Keys(F)
      BY <1>0, <1>1
    <3>3. Type(F) = "array" /\ size(v) \in Nat
      BY <1>0, <1>1, <2>1
    <3> QED
      BY <3>1, <3>2, <3>3, SizeIs
  <2>2. CASE Type(v) # "array"
    <3>1. Type(F) = "null"
      BY <1>1, <2>2 DEF Allows
    <3>2. size(F) = 0
      BY <3>1 DEF size, IsArray, IsObject
    <3> QED
      BY <1>2, <2>2, <3>2
  <2> QED
    BY <2>1, <2>2
<1> QED
  BY <1>1, <1>8, <1>9, <1>10, <1>11 DEF F

\* The array of some items has these items.
LEMMA OfItemsIs ==
    ASSUME NEW v, NEW n \in Nat, NEW items, DOMAIN items = 1 .. n,
           \A i \in 1 .. n : Rooted(items[i])
    PROVE  LET u == Promise!OfItems(v, items)
           IN /\ Rooted(u) /\ u[<<>>] = Become(v, "array")[<<>>]
              /\ Keys(u) = {<<i>> : i \in 0 .. n - 1}
              /\ \A i \in 0 .. n - 1 : Child(u, <<i>>) = items[i + 1]
<1> DEFINE u == Promise!OfItems(v, items)
           Of(i) == {<<<<i - 1>>>> \o q : q \in DOMAIN items[i]}
           paths == UNION {Of(i) : i \in DOMAIN items}
<1>1. /\ u = [r \in DOMAIN u |-> u[r]]
      /\ DOMAIN u = {<<>>} \union paths
      /\ \A r \in DOMAIN u : u[r] = IF r = <<>> THEN Become(v, "array")[<<>>]
                                    ELSE items[r[1][1] + 1][Tail(r)]
  BY PromiseTree DEF Promise!OfItems
<1>2. \A r : r \in paths <=> \E i \in 1 .. n : \E q \in DOMAIN items[i] : r = <<<<i - 1>>>> \o q
  <2>1. \A r, i : r \in Of(i) <=> \E q \in DOMAIN items[i] : r = <<<<i - 1>>>> \o q
    OBVIOUS
  <2> HIDE DEF Of
  <2>2. \A r : r \in paths <=> \E i \in 1 .. n : r \in Of(i)
    OBVIOUS
  <2> QED
    BY <2>1, <2>2
<1> HIDE DEF u, paths
<1>3. ASSUME NEW i \in 0 .. n - 1, NEW q \in DOMAIN items[i + 1]
      PROVE  /\ i \in Nat /\ q \in Path
             /\ <<<<i>>>> \o q \in DOMAIN u /\ u[<<<<i>>>> \o q] = items[i + 1][q]
  <2>1. i \in Nat /\ i + 1 \in 1 .. n /\ (i + 1) - 1 = i
    OBVIOUS
  <2>2. q \in Path
    BY <2>1 DEF Rooted
  <2>3. PICK r \in Path : r = <<<<i>>>> \o q /\ r # <<>> /\ r[1][1] = i /\ Tail(r) = q
    BY <2>1, <2>2, EntryIs
  <2>4. r \in paths
    BY <1>2, <2>1, <2>3
  <2> QED
    BY <1>1, <2>1, <2>2, <2>3, <2>4
<1>4. ASSUME NEW r \in DOMAIN u, r # <<>>
      PROVE  \E i \in 0 .. n - 1 : \E q \in DOMAIN items[i + 1] : r = <<<<i>>>> \o q
  <2>1. PICK i \in 1 .. n : \E q \in DOMAIN items[i] : r = <<<<i - 1>>>> \o q
    BY <1>1, <1>2, <1>4
  <2>2. i - 1 \in 0 .. n - 1 /\ (i - 1) + 1 = i
    OBVIOUS
  <2> QED
    BY <2>1, <2>2
<1>5. \A i \in 0 .. n - 1 : i \in Nat /\ <<>> \in DOMAIN items[i + 1] /\ <<<<i>>>> \o <<>> = <<<<i>>>>
                            /\ <<<<i>>>> \in DOMAIN u
  <2>1. ASSUME NEW i \in 0 .. n - 1
        PROVE  i \in Nat /\ <<>> \in DOMAIN items[i + 1] /\ <<<<i>>>> \o <<>> = <<<<i>>>>
    <3>1. i \in Nat /\ i + 1 \in 1 .. n
      OBVIOUS
    <3>2. <<<<i>>>> \in Path
      BY <3>1, NumberKey
    <3> QED
      BY <3>1, <3>2, Nothing DEF Rooted
  <2>2. ASSUME NEW i \in 0 .. n - 1 PROVE <<<<i>>>> \o <<>> \in DOMAIN u
    BY <1>3, <2>1
  <2> QED
    BY <2>1, <2>2
<1>6. DOMAIN u \subseteq Path
  <2>1. ASSUME NEW r \in DOMAIN u PROVE r \in Path
    <3>1. CASE r = <<>>
      BY <3>1, Nothing
    <3>2. CASE r # <<>>
      <4>1. PICK i \in 0 .. n - 1 : \E q \in DOMAIN items[i + 1] : r = <<<<i>>>> \o q
        BY <1>4, <3>2
      <4>2. PICK q \in DOMAIN items[i + 1] : r = <<<<i>>>> \o q
        BY <4>1
      <4> QED
        BY <1>3, <4>2, EntryIs
    <3> QED
      BY <3>1, <3>2
  <2> QED
    BY <2>1
<1>7. ASSUME NEW r \in DOMAIN u, r # <<>>
      PROVE  /\ <<r[1]>> \in DOMAIN u
             /\ \E i \in 0 .. n - 1 : r[1] = <<i>> /\ Tail(r) \in DOMAIN items[i + 1]
  <2>1. PICK i \in 0 .. n - 1 : \E q \in DOMAIN items[i + 1] : r = <<<<i>>>> \o q
    BY <1>4, <1>7
  <2>2. PICK q \in DOMAIN items[i + 1] : r = <<<<i>>>> \o q
    BY <2>1
  <2>3. r[1] = <<i>> /\ Tail(r) = q
    BY <1>3, <2>2, EntryIs
  <2> QED
    BY <1>5, <2>2, <2>3
<1>8. Rooted(u)
  BY <1>1, <1>6, <1>7 DEF Rooted
<1>9. Keys(u) = {<<i>> : i \in 0 .. n - 1}
  <2>1. Keys(u) = {k \in Key : <<k>> \in DOMAIN u}
    BY <1>6, KeysAre
  <2>2. ASSUME NEW k \in Key, <<k>> \in DOMAIN u PROVE \E i \in 0 .. n - 1 : k = <<i>>
    BY <1>7, <2>2, OneKey
  <2>3. \A i \in 0 .. n - 1 : <<i>> \in Key
    BY <1>5, NumberKey
  <2>4. \A k : k \in {<<i>> : i \in 0 .. n - 1} <=> \E i \in 0 .. n - 1 : k = <<i>>
    OBVIOUS
  <2>5. \A k : k \in Keys(u) <=> \E i \in 0 .. n - 1 : k = <<i>>
    BY <1>5, <2>1, <2>2, <2>3
  <2> QED
    BY <2>4, <2>5
<1>10. ASSUME NEW i \in 0 .. n - 1 PROVE Child(u, <<i>>) = items[i + 1]
  <2>1. i \in Nat /\ i + 1 \in 1 .. n
    BY <1>5
  <2>2. PICK k \in Key : k = <<i>>
    BY <2>1, NumberKey
  <2>3. /\ Child(u, k) = [q \in DOMAIN Child(u, k) |-> Child(u, k)[q]]
        /\ DOMAIN Child(u, k) = {q \in Path : <<k>> \o q \in DOMAIN u}
        /\ \A q \in DOMAIN Child(u, k) : Child(u, k)[q] = u[<<k>> \o q]
    BY <1>6, ChildIs
  <2>4. ASSUME NEW q \in Path, <<k>> \o q \in DOMAIN u PROVE q \in DOMAIN items[i + 1]
    <3>1. PICK r \in DOMAIN u : r = <<k>> \o q
      BY <2>4
    <3>2. r # <<>> /\ r[1] = k /\ Tail(r) = q /\ k[1] = i
      BY <2>1, <2>2, <3>1, EntryIs, OneKey, NumberKey
    <3>3. PICK j \in 0 .. n - 1 : r[1] = <<j>> /\ Tail(r) \in DOMAIN items[j + 1]
      BY <1>7, <3>2
    <3>4. j \in Nat /\ <<j>>[1] = j
      BY <1>5, NumberKey
    <3> QED
      BY <3>2, <3>3, <3>4
  <2>5. DOMAIN Child(u, k) = DOMAIN items[i + 1]
    <3>1. DOMAIN items[i + 1] \subseteq Path
      BY <2>1 DEF Rooted
    <3> QED
      BY <1>3, <2>2, <2>3, <2>4, <3>1
  <2>6. \A q \in DOMAIN items[i + 1] : Child(u, k)[q] = items[i + 1][q]
    BY <1>3, <2>2, <2>3, <2>5
  <2>7. items[i + 1] = [q \in DOMAIN items[i + 1] |-> items[i + 1][q]]
    BY <2>1 DEF Rooted
  <2> QED
    BY <2>2, <2>3, <2>5, <2>6, <2>7
<1>11. u[<<>>] = Become(v, "array")[<<>>]
  BY <1>1
<1> QED
  BY <1>8, <1>9, <1>10, <1>11 DEF u

\* An item is as a program sees it.
LEMMA ItemIsTree ==
    ASSUME NEW v, IsTree(v), NEW j
    PROVE  Rooted(ItemAt(v, j))
<1>1. CASE <<j>> \in Keys(v)
  <2>1. IsTree(Child(v, <<j>>))
    BY <1>1, KeysFinite
  <2> QED
    BY <1>1, <2>1, FilledParts DEF ItemAt
<1>2. CASE <<j>> \notin Keys(v)
  BY <1>2, NullIs DEF ItemAt
<1> QED
  BY <1>1, <1>2

\* x is seen as the array of these items, with the comments of v.
LEMMA SeenAs ==
    ASSUME NEW v, IsTree(v), Allows(v, "array"),
           NEW x, IsTree(x), Type(x) = "array", x[<<>>] = Become(v, "array")[<<>>],
           NEW items, DOMAIN items = 1 .. size(x),
           \A j \in 0 .. size(x) - 1 : items[j + 1] = ItemAt(x, j)
    PROVE  Filled(x) = Promise!OfItems(Filled(v), items)
<1> DEFINE F == Filled(v)
           G == Filled(x)
           u == Promise!OfItems(F, items)
           n == size(x)
<1>1. n \in Nat /\ Keys(x) \subseteq {<<i>> : i \in 0 .. n - 1}
  BY ArrayKeys
<1>2. Become(F, "array")[<<>>] = Become(v, "array")[<<>>]
  BY ItemsSeen
<1>3. /\ Rooted(G) /\ G[<<>>] = x[<<>>]
      /\ Keys(G) = Keys(x) \union {<<i>> : i \in 0 .. n - 1}
      /\ \A k \in Keys(x) : Child(G, k) = Filled(Child(x, k))
      /\ \A k \in Keys(G) \ Keys(x) : Child(G, k) = Null
  BY FilledParts
<1> HIDE DEF F, G, n
<1>4. \A i \in 1 .. n : Rooted(items[i])
  <2>1. ASSUME NEW i \in 1 .. n PROVE Rooted(items[i])
    <3>1. i - 1 \in 0 .. size(x) - 1 /\ (i - 1) + 1 = i
      BY <1>1 DEF n
    <3>2. items[i] = ItemAt(x, i - 1)
      BY <3>1
    <3> QED
      BY <3>2, ItemIsTree
  <2> QED
    BY <2>1
<1>5. /\ Rooted(u) /\ u[<<>>] = Become(F, "array")[<<>>]
      /\ Keys(u) = {<<i>> : i \in 0 .. n - 1}
      /\ \A i \in 0 .. n - 1 : Child(u, <<i>>) = items[i + 1]
  <2>1. DOMAIN items = 1 .. n /\ n \in Nat
    BY <1>1 DEF n
  <2> HIDE DEF n
  <2>2. \A i \in 1 .. n : Rooted(items[i])
    BY <1>4
  <2> QED
    BY <2>1, <2>2, OfItemsIs
<1> HIDE DEF u
<1>6. Keys(u) = Keys(G)
  BY <1>1, <1>3, <1>5
<1>7. ASSUME NEW k \in Keys(u) PROVE Child(u, k) = Child(G, k)
  <2>1. PICK i \in 0 .. n - 1 : k = <<i>>
    BY <1>5
  <2>2. Child(u, k) = ItemAt(x, i)
    BY <1>5, <2>1 DEF n
  <2>3. Child(G, k) = ItemAt(x, i)
    BY <1>3, <1>6, <2>1 DEF ItemAt
  <2> QED
    BY <2>2, <2>3
<1>8. u[<<>>] = G[<<>>]
  BY <1>2, <1>3, <1>5
<1>9. u = G
  BY <1>3, <1>5, <1>6, <1>7, <1>8, SameParts
<1> QED
  BY <1>9 DEF u, F, G

----------------------------------------------------------------------------
(* The promises of the operations on arrays, item by item. *)

LEMMA LenOf ==
    ASSUME NEW n \in Nat, NEW s, s = [i \in 1 .. n |-> s[i]]
    PROVE  Len(s) = n /\ s \in Seq({s[i] : i \in 1 .. n})
<1>1. s \in [1 .. n -> {s[i] : i \in 1 .. n}]
  OBVIOUS
<1>2. s \in Seq({s[i] : i \in 1 .. n})
  BY <1>1
<1> QED
  BY <1>2, LenProperties

\* A part of a sequence.
LEMMA PartOf ==
    ASSUME NEW S, NEW s \in Seq(S), NEW m \in 1 .. Len(s) + 1, NEW n \in m - 1 .. Len(s)
    PROVE  /\ SubSeq(s, m, n) \in Seq(S) /\ Len(SubSeq(s, m, n)) = n - m + 1
           /\ DOMAIN SubSeq(s, m, n) = 1 .. n - m + 1
           /\ \A i \in 1 .. n - m + 1 : SubSeq(s, m, n)[i] = s[m + i - 1]
<1>1. \A i \in m .. n : s[i] \in S
  BY ElementOfSeq, LenProperties
<1>2. Len(s) \in Nat /\ m \in Int /\ n \in Int
  BY LenProperties
<1> QED
  BY <1>1, <1>2, SubSeqProperties, LenProperties

\* The items a program sees in v.
Items(v) == [i \in 1 .. size(v) |-> ItemAt(v, i - 1)]

\* The items of an array, one by one; behind its size it is null.
LEMMA ItemsOf ==
    ASSUME NEW v, IsTree(v), Allows(v, "array")
    PROVE  /\ Promise!Items(Filled(v)) = Items(v) /\ Len(Items(v)) = size(v) /\ size(v) \in Nat
           /\ Items(v) \in Seq({Items(v)[i] : i \in 1 .. size(v)})
           /\ \A i \in 1 .. size(v) : Items(v)[i] = ItemAt(v, i - 1)
           /\ \A j \in Nat : j >= size(v) => ItemAt(v, j) = Null
<1>1. size(v) \in Nat /\ Keys(v) \subseteq {<<i>> : i \in 0 .. size(v) - 1}
  BY SizeOfArray
<1>2. Promise!Items(Filled(v)) = Items(v)
  BY ItemsSeen DEF Items
<1>3. Items(v) = [i \in 1 .. size(v) |-> Items(v)[i]] /\ \A i \in 1 .. size(v) : Items(v)[i] = ItemAt(v, i - 1)
  BY DEF Items
<1>4. Len(Items(v)) = size(v) /\ Items(v) \in Seq({Items(v)[i] : i \in 1 .. size(v)})
  BY <1>1, <1>3, LenOf
<1>5. ASSUME NEW j \in Nat, j >= size(v) PROVE ItemAt(v, j) = Null
  <2>1. <<j>> \notin Keys(v)
    <3>1. ASSUME <<j>> \in Keys(v) PROVE FALSE
      <4>1. PICK i \in 0 .. size(v) - 1 : <<j>> = <<i>>
        BY <1>1, <3>1
      <4> QED
        BY <1>1, <1>5, <4>1
    <3> QED
      BY <3>1
  <2> QED
    BY <2>1 DEF ItemAt
<1> QED
  BY <1>1, <1>2, <1>3, <1>4, <1>5

\* x is an array in the place of v.
ArrayFor(x, v) == IsTree(x) /\ Type(x) = "array" /\ x[<<>>] = Become(v, "array")[<<>>]

\* Grow, item by item.
LEMMA GrowIs ==
    ASSUME NEW v, IsTree(v), Allows(v, "array"), NEW x, ArrayFor(x, v), NEW n \in Nat,
           size(x) = IF n < size(v) THEN size(v) ELSE n,
           \A j \in Nat : ItemAt(x, j) = ItemAt(v, j)
    PROVE  Promise!Grow(Filled(v), n, Filled(x))
<1> DEFINE F == Filled(v)
           items == [i \in 1 .. size(x) |-> IF i <= Len(Items(v)) THEN Items(v)[i] ELSE Null]
<1>1. /\ Promise!Items(F) = Items(v) /\ Len(Items(v)) = size(v) /\ size(v) \in Nat
      /\ \A i \in 1 .. size(v) : Items(v)[i] = ItemAt(v, i - 1)
      /\ \A j \in Nat : j >= size(v) => ItemAt(v, j) = Null
  BY ItemsOf
<1>2. ASSUME NEW j \in 0 .. size(x) - 1 PROVE items[j + 1] = ItemAt(x, j)
  <2>1. j \in Nat /\ j + 1 \in 1 .. size(x) /\ (j + 1) - 1 = j
    BY <1>1
  <2>2. CASE j < size(v)
    <3>1. j + 1 \in 1 .. size(v)
      BY <1>1, <2>1, <2>2
    <3> QED
      BY <1>1, <2>1, <3>1
  <2>3. CASE ~(j < size(v))
    BY <1>1, <2>1, <2>3
  <2> QED
    BY <2>2, <2>3
<1>3. Filled(x) = Promise!OfItems(F, items)
  <2>1. DOMAIN items = 1 .. size(x)
    OBVIOUS
  <2> HIDE DEF items
  <2> QED
    BY <1>2, <2>1, SeenAs DEF ArrayFor
<1>4. Promise!Allows(F, "array")
  BY ItemsSeen, PromiseTree
<1>5. items = [i \in 1 .. IF n < Len(Promise!Items(F)) THEN Len(Promise!Items(F)) ELSE n |->
                  IF i <= Len(Promise!Items(F)) THEN Promise!Items(F)[i] ELSE Promise!Null]
  BY <1>1, PromiseTree
<1> HIDE DEF F, items
<1>6. Promise!Grow(F, n, Filled(x))
  BY <1>3, <1>4, <1>5 DEF Promise!Grow
<1> QED
  BY <1>6 DEF F

\* Shrink, item by item.
LEMMA ShrinkIs ==
    ASSUME NEW v, IsTree(v), Allows(v, "array"), NEW x, ArrayFor(x, v),
           NEW n \in 0 .. size(v), size(x) = n,
           \A j \in 0 .. n - 1 : ItemAt(x, j) = ItemAt(v, j)
    PROVE  Promise!Shrink(Filled(v), n, Filled(x))
<1> DEFINE F == Filled(v)
           part == SubSeq(Items(v), 1, n)
           S == {Items(v)[i] : i \in 1 .. size(v)}
<1>1. /\ Promise!Items(F) = Items(v) /\ Len(Items(v)) = size(v) /\ size(v) \in Nat
      /\ Items(v) \in Seq(S)
      /\ \A i \in 1 .. size(v) : Items(v)[i] = ItemAt(v, i - 1)
  BY ItemsOf
<1> HIDE DEF S
<1>2. DOMAIN part = 1 .. n /\ \A i \in 1 .. n : part[i] = Items(v)[i]
  <2>1. 1 \in 1 .. Len(Items(v)) + 1 /\ n \in 1 - 1 .. Len(Items(v)) /\ n - 1 + 1 = n
    BY <1>1
  <2>2. \A i \in 1 .. n : 1 + i - 1 = i
    BY <1>1
  <2> QED
    BY <1>1, <2>1, <2>2, PartOf
<1> HIDE DEF part
<1>3. Filled(x) = Promise!OfItems(F, part)
  <2>1. ASSUME NEW j \in 0 .. size(x) - 1 PROVE part[j + 1] = ItemAt(x, j)
    <3>1. j \in 0 .. n - 1 /\ j + 1 \in 1 .. n /\ j + 1 \in 1 .. size(v) /\ (j + 1) - 1 = j
      BY <1>1
    <3> QED
      BY <1>1, <1>2, <3>1
  <2>2. DOMAIN part = 1 .. size(x)
    BY <1>2
  <2> QED
    BY <2>1, <2>2, SeenAs DEF ArrayFor
<1>4. Promise!Allows(F, "array")
  BY ItemsSeen, PromiseTree
<1> HIDE DEF F
<1>5. Promise!Shrink(F, n, Filled(x))
  BY <1>1, <1>3, <1>4 DEF Promise!Shrink, part
<1> QED
  BY <1>5 DEF F

\* A sequence with an element inserted.
LEMMA InsertedAre ==
    ASSUME NEW S, NEW s \in Seq(S), NEW e \in S, NEW i \in 0 .. Len(s)
    PROVE  LET t == Promise!InsertAt(s, i + 1, e)
           IN /\ DOMAIN t = 1 .. Len(s) + 1
              /\ \A j \in 1 .. Len(s) + 1 :
                    t[j] = IF j <= i THEN s[j] ELSE IF j = i + 1 THEN e ELSE s[j - 1]
<1> DEFINE a == SubSeq(s, 1, i)
           b == SubSeq(s, i + 1, Len(s))
           n == Len(s)
           c == a \o <<e>>
           t == c \o b
<1>0. n \in Nat /\ i \in Nat /\ i <= n
  BY LenProperties
<1>1. a \in Seq(S) /\ Len(a) = i /\ \A j \in 1 .. i : a[j] = s[j]
  <2>1. 1 \in 1 .. Len(s) + 1 /\ i \in 1 - 1 .. Len(s) /\ i - 1 + 1 = i
    BY <1>0
  <2>2. \A j \in 1 .. i : 1 + j - 1 = j
    BY <1>0
  <2> QED
    BY <2>1, <2>2, PartOf
<1>2. b \in Seq(S) /\ Len(b) = n - i /\ \A j \in 1 .. n - i : b[j] = s[i + j]
  <2>1. i + 1 \in 1 .. Len(s) + 1 /\ n \in (i + 1) - 1 .. Len(s) /\ n - (i + 1) + 1 = n - i
    BY <1>0
  <2>2. \A j \in 1 .. n - i : (i + 1) + j - 1 = i + j
    BY <1>0
  <2>3. /\ b \in Seq(S) /\ Len(b) = n - (i + 1) + 1
        /\ \A j \in 1 .. n - (i + 1) + 1 : b[j] = s[(i + 1) + j - 1]
    <3>1. PICK m \in 1 .. Len(s) + 1 : m = i + 1
      BY <2>1
    <3>2. n \in m - 1 .. Len(s)
      BY <2>1, <3>1
    <3>3. /\ SubSeq(s, m, n) \in Seq(S) /\ Len(SubSeq(s, m, n)) = n - m + 1
          /\ \A j \in 1 .. n - m + 1 : SubSeq(s, m, n)[j] = s[m + j - 1]
      BY <3>2, PartOf
    <3> QED
      BY <3>1, <3>3
  <2> QED
    BY <1>0, <2>1, <2>2, <2>3
<1> HIDE DEF a, b, n
<1>3. <<e>> \in Seq(S) /\ Len(<<e>>) = 1 /\ <<e>>[1] = e
  OBVIOUS
<1>4. /\ c \in Seq(S) /\ Len(c) = i + 1
      /\ \A j \in 1 .. i + 1 : c[j] = IF j <= i THEN s[j] ELSE e
  <2>1. /\ c \in Seq(S) /\ Len(c) = i + 1
        /\ \A j \in 1 .. i + 1 : c[j] = IF j <= i THEN a[j] ELSE <<e>>[j - i]
    BY <1>1, <1>3, ConcatProperties
  <2>2. ASSUME NEW j \in 1 .. i + 1, ~(j <= i) PROVE j - i = 1
    BY <1>0, <2>2
  <2>3. \A j \in 1 .. i + 1 : j <= i => j \in 1 .. i
    BY <1>0
  <2> QED
    BY <1>1, <1>3, <2>1, <2>2, <2>3
<1> HIDE DEF c
<1>5. /\ t \in Seq(S) /\ Len(t) = (i + 1) + (n - i)
      /\ \A j \in 1 .. (i + 1) + (n - i) : t[j] = IF j <= i + 1 THEN c[j] ELSE b[j - (i + 1)]
  <2>1. /\ t \in Seq(S) /\ Len(t) = Len(c) + Len(b)
        /\ \A j \in 1 .. Len(c) + Len(b) : t[j] = IF j <= Len(c) THEN c[j] ELSE b[j - Len(c)]
    BY <1>2, <1>4, ConcatProperties
  <2> HIDE DEF t
  <2> QED
    BY <1>2, <1>4, <2>1
<1>6. DOMAIN t = 1 .. n + 1
  <2>1. (i + 1) + (n - i) = n + 1
    BY <1>0
  <2> QED
    BY <1>5, <2>1, LenProperties
<1>7. ASSUME NEW j \in 1 .. n + 1
      PROVE  t[j] = IF j <= i THEN s[j] ELSE IF j = i + 1 THEN e ELSE s[j - 1]
  <2>1. j \in 1 .. (i + 1) + (n - i) /\ j \in Nat
    BY <1>0
  <2>2. CASE j <= i + 1
    <3>1. j \in 1 .. i + 1
      BY <1>0, <2>1, <2>2
    <3>2. t[j] = c[j]
      BY <1>5, <2>1, <2>2
    <3> QED
      BY <1>0, <1>4, <2>1, <3>1, <3>2
  <2>3. CASE ~(j <= i + 1)
    <3>1. j - (i + 1) \in 1 .. n - i /\ i + (j - (i + 1)) = j - 1 /\ ~(j <= i) /\ j # i + 1
      BY <1>0, <2>1, <2>3
    <3>2. t[j] = b[j - (i + 1)]
      BY <1>5, <2>1, <2>3
    <3> QED
      BY <1>2, <3>1, <3>2
  <2> QED
    BY <2>2, <2>3
<1>8. Promise!InsertAt(s, i + 1, e) = t
  <2>1. (i + 1) - 1 = i
    BY <1>0
  <2> QED
    BY <2>1 DEF Promise!InsertAt, t, c, a, b
<1> HIDE DEF t
<1> QED
  BY <1>6, <1>7, <1>8 DEF n

\* Insert, item by item.
LEMMA InsertIs ==
    ASSUME NEW v, IsTree(v), Allows(v, "array"), NEW x, ArrayFor(x, v),
           NEW w, NEW i \in 0 .. size(v), size(x) = size(v) + 1,
           \A j \in 0 .. size(v) :
              ItemAt(x, j) = IF j < i THEN ItemAt(v, j) ELSE IF j = i THEN w ELSE ItemAt(v, j - 1)
    PROVE  Promise!Insert(Filled(v), i, w, Filled(x))
<1> DEFINE F == Filled(v)
           s == Items(v)
           n == size(v)
           items == Promise!InsertAt(s, i + 1, w)
           S == {Items(v)[k] : k \in 1 .. size(v)}
           S2 == S \union {w}
<1>1. /\ Promise!Items(F) = s /\ Len(s) = n /\ n \in Nat
      /\ s \in Seq(S)
      /\ \A k \in 1 .. n : s[k] = ItemAt(v, k - 1)
  BY ItemsOf
<1> HIDE DEF s, n, S
<1>2. s \in Seq(S2) /\ w \in S2 /\ i \in 0 .. Len(s)
  BY <1>1 DEF n
<1> HIDE DEF S2
<1>3. /\ DOMAIN items = 1 .. n + 1
      /\ \A j \in 1 .. n + 1 :
            items[j] = IF j <= i THEN s[j] ELSE IF j = i + 1 THEN w ELSE s[j - 1]
  BY <1>1, <1>2, InsertedAre
<1> HIDE DEF items
<1>4. ASSUME NEW j \in 0 .. size(x) - 1 PROVE items[j + 1] = ItemAt(x, j)
  <2>1. j \in Nat /\ j \in 0 .. n /\ i \in Nat /\ i <= n /\ j + 1 \in 1 .. n + 1 /\ (j + 1) - 1 = j
    BY <1>1 DEF n
  <2>2. ItemAt(x, j) = IF j < i THEN ItemAt(v, j) ELSE IF j = i THEN w ELSE ItemAt(v, j - 1)
    BY <2>1 DEF n
  <2>3. CASE j < i
    <3>1. j + 1 \in 1 .. n /\ j + 1 <= i
      BY <1>1, <2>1, <2>3
    <3> QED
      BY <1>1, <1>3, <2>1, <2>2, <2>3, <3>1
  <2>4. CASE j = i
    <3>1. ~(j + 1 <= i) /\ ~(j < i)
      BY <2>1, <2>4
    <3> QED
      BY <1>3, <2>1, <2>2, <2>4, <3>1
  <2>5. CASE j > i
    <3>1. j \in 1 .. n /\ ~(j + 1 <= i) /\ j + 1 # i + 1 /\ ~(j < i) /\ j # i
      BY <1>1, <2>1, <2>5
    <3> QED
      BY <1>1, <1>3, <2>1, <2>2, <3>1
  <2> QED
    BY <2>1, <2>3, <2>4, <2>5
<1>5. Filled(x) = Promise!OfItems(F, items)
  <2>1. DOMAIN items = 1 .. size(x)
    BY <1>3 DEF n
  <2> QED
    BY <1>4, <2>1, SeenAs DEF ArrayFor
<1>6. Promise!Allows(F, "array")
  BY ItemsSeen, PromiseTree
<1> HIDE DEF F
<1>7. Promise!Insert(F, i, w, Filled(x))
  BY <1>1, <1>5, <1>6 DEF Promise!Insert, items
<1> QED
  BY <1>7 DEF F

\* A sequence with an element removed.
LEMMA RemovedAre ==
    ASSUME NEW S, NEW s \in Seq(S), NEW i \in 0 .. Len(s) - 1
    PROVE  LET t == Promise!RemoveAt(s, i + 1)
           IN /\ t \in Seq(S) /\ Len(t) = Len(s) - 1
              /\ \A j \in 1 .. Len(s) - 1 : t[j] = IF j <= i THEN s[j] ELSE s[j + 1]
<1> DEFINE a == SubSeq(s, 1, i)
           b == SubSeq(s, i + 2, Len(s))
           n == Len(s)
           t == a \o b
<1>0. n \in Nat /\ i \in Nat /\ i < n
  BY LenProperties
<1>1. a \in Seq(S) /\ Len(a) = i /\ \A j \in 1 .. i : a[j] = s[j]
  <2>1. 1 \in 1 .. Len(s) + 1 /\ i \in 1 - 1 .. Len(s) /\ i - 1 + 1 = i
    BY <1>0
  <2>2. \A j \in 1 .. i : 1 + j - 1 = j
    BY <1>0
  <2> QED
    BY <2>1, <2>2, PartOf
<1>2. b \in Seq(S) /\ Len(b) = n - i - 1 /\ \A j \in 1 .. n - i - 1 : b[j] = s[i + 1 + j]
  <2>0. PICK m \in 1 .. Len(s) + 1 : m = i + 2
    BY <1>0
  <2>1. n \in m - 1 .. Len(s) /\ n - m + 1 = n - i - 1
    BY <1>0, <2>0
  <2>2. \A j \in 1 .. n - i - 1 : m + j - 1 = i + 1 + j
    BY <1>0, <2>0
  <2>3. b = SubSeq(s, m, n)
    BY <2>0
  <2> HIDE DEF b
  <2>4. /\ b \in Seq(S) /\ Len(b) = n - m + 1
        /\ \A j \in 1 .. n - m + 1 : b[j] = s[m + j - 1]
    BY <2>1, <2>3, PartOf
  <2> QED
    BY <1>0, <2>1, <2>2, <2>4
<1> HIDE DEF a, b, n
<1>3. /\ t \in Seq(S) /\ Len(t) = i + (n - i - 1)
      /\ \A j \in 1 .. i + (n - i - 1) : t[j] = IF j <= i THEN a[j] ELSE b[j - i]
  <2>1. /\ t \in Seq(S) /\ Len(t) = Len(a) + Len(b)
        /\ \A j \in 1 .. Len(a) + Len(b) : t[j] = IF j <= Len(a) THEN a[j] ELSE b[j - Len(a)]
    BY <1>1, <1>2, ConcatProperties
  <2> HIDE DEF t
  <2> QED
    BY <1>1, <1>2, <2>1
<1> HIDE DEF t
<1>4. i + (n - i - 1) = n - 1
  BY <1>0
<1>5. ASSUME NEW j \in 1 .. n - 1 PROVE t[j] = IF j <= i THEN s[j] ELSE s[j + 1]
  <2>1. CASE j <= i
    <3>1. j \in 1 .. i
      BY <1>0, <2>1
    <3> QED
      BY <1>1, <1>3, <1>4, <2>1, <3>1
  <2>2. CASE ~(j <= i)
    <3>1. j - i \in 1 .. n - i - 1 /\ i + 1 + (j - i) = j + 1
      BY <1>0, <2>2
    <3> QED
      BY <1>2, <1>3, <1>4, <2>2, <3>1
  <2> QED
    BY <2>1, <2>2
<1>6. Promise!RemoveAt(s, i + 1) = t
  <2>1. (i + 1) - 1 = i /\ (i + 1) + 1 = i + 2
    BY <1>0
  <2> QED
    BY <2>1 DEF Promise!RemoveAt, t, a, b
<1> QED
  BY <1>3, <1>4, <1>5, <1>6 DEF n

\* TakeOut, item by item.
LEMMA TakeOutIs ==
    ASSUME NEW v, IsTree(v), Type(v) = "array", NEW x, ArrayFor(x, v),
           NEW i \in 0 .. size(v) - 1, size(x) = size(v) - 1,
           \A j \in 0 .. size(x) - 1 : ItemAt(x, j) = ItemAt(v, IF j < i THEN j ELSE j + 1)
    PROVE  Promise!TakeOut(Filled(v), i, Filled(x), ItemAt(v, i))
<1> DEFINE F == Filled(v)
           s == Items(v)
           n == size(v)
           t == Promise!RemoveAt(s, i + 1)
           S == {Items(v)[k] : k \in 1 .. size(v)}
<1>0. Allows(v, "array")
  BY DEF Allows
<1>1. /\ Promise!Items(F) = s /\ Len(s) = n /\ n \in Nat
      /\ s \in Seq(S)
      /\ \A k \in 1 .. n : s[k] = ItemAt(v, k - 1)
  BY <1>0, ItemsOf
<1>2. i \in Nat /\ i < n
  BY <1>1
<1> HIDE DEF s, n, S
<1>3. /\ t \in Seq(S) /\ Len(t) = n - 1
      /\ \A j \in 1 .. n - 1 : t[j] = IF j <= i THEN s[j] ELSE s[j + 1]
  <2>1. i \in 0 .. Len(s) - 1
    BY <1>1, <1>2
  <2> QED
    BY <1>1, <2>1, RemovedAre
<1> HIDE DEF t
<1>4. ASSUME NEW j \in 0 .. n - 2 PROVE t[j + 1] = ItemAt(v, IF j < i THEN j ELSE j + 1)
  <2>1. j \in Nat /\ j + 1 \in 1 .. n - 1 /\ j + 1 \in 1 .. n /\ (j + 1) + 1 \in 1 .. n
        /\ (j + 1) - 1 = j /\ ((j + 1) + 1) - 1 = j + 1
    BY <1>1
  <2>2. s[j + 1] = ItemAt(v, j) /\ s[(j + 1) + 1] = ItemAt(v, j + 1)
    BY <1>1, <2>1
  <2>3. j + 1 <= i <=> j < i
    BY <1>2, <2>1
  <2> QED
    BY <1>3, <2>1, <2>2, <2>3
<1>5. DOMAIN t = 1 .. n - 1
  BY <1>3, LenProperties
<1>8. Filled(x) = Promise!OfItems(F, t)
  <2>1. ASSUME NEW j \in 0 .. size(x) - 1 PROVE t[j + 1] = ItemAt(x, j)
    <3>1. j \in 0 .. n - 2
      BY <1>1 DEF n
    <3> QED
      BY <1>4, <3>1
  <2>2. DOMAIN t = 1 .. size(x)
    BY <1>5 DEF n
  <2> QED
    BY <1>0, <2>1, <2>2, SeenAs DEF ArrayFor
<1>9. Promise!Type(F) = "array"
  BY <1>0, ItemsSeen, PromiseTree
<1>10. ItemAt(v, i) = Promise!Items(F)[i + 1]
  <2>1. i + 1 \in 1 .. n /\ (i + 1) - 1 = i
    BY <1>1, <1>2
  <2> QED
    BY <1>1, <2>1
<1> HIDE DEF F
<1>11. Filled(x) = Promise!OfItems(F, Promise!RemoveAt(Promise!Items(F), i + 1))
  BY <1>1, <1>8 DEF t
<1>12. Promise!TakeOut(F, i, Filled(x), ItemAt(v, i))
  BY <1>9, <1>10, <1>11 DEF Promise!TakeOut
<1> QED
  BY <1>12 DEF F

----------------------------------------------------------------------------
(* The operations on arrays keep those promises. *)

LEMMA FilledNull == Filled(Null) = Null
BY FilledLeaf, NullIs

\* An array put together from trees under indices is one in the place of v.
LEMMA ArrayMade ==
    ASSUME NEW v, IsTree(v), Allows(v, "array"), NEW x, Rooted(x),
           x[<<>>] = Become(v, "array")[<<>>], NEW n \in Nat,
           Keys(x) \subseteq {<<i>> : i \in 0 .. n - 1},
           \A k \in Keys(x) : IsTree(Child(x, k))
    PROVE  ArrayFor(x, v)
<1> DEFINE a == Become(v, "array")
<1>1. IsTree(a) /\ Type(a) = "array"
  BY BecomeIs
<1>2. IsNode(a[<<>>])
  BY <1>1 DEF IsTree, WellFormed
<1> HIDE DEF a
<1>3. Type(x) = "array" /\ IsNode(x[<<>>])
  BY <1>1, <1>2 DEF Type, a
<1>4. IsFiniteSet(Keys(x))
  BY NumberKeys, FS_Subset
<1>5. ASSUME NEW k \in Keys(x) PROVE IsKeyOf(Type(x), k)
  <2>1. PICK i \in 0 .. n - 1 : k = <<i>>
    OBVIOUS
  <2>2. i \in Nat
    OBVIOUS
  <2>3. Len(k) = 1 /\ k[1] >= 0
    BY <2>1, <2>2
  <2> QED
    BY <1>3, <2>3 DEF IsKeyOf
<1>6. IsTree(x)
  BY <1>3, <1>4, <1>5, PartsMakeTree
<1> QED
  BY <1>3, <1>6 DEF ArrayFor

\* An array with more entries, all of them null, has grown.
LEMMA GrownIs ==
    ASSUME NEW v, IsTree(v), Allows(v, "array"), NEW x, Rooted(x),
           x[<<>>] = Become(v, "array")[<<>>],
           NEW n \in Nat, NEW N \in SUBSET (0 .. n - 1), n > size(v) => n - 1 \in N,
           Keys(x) = Keys(v) \union {<<i>> : i \in N},
           \A k \in Keys(x) : Child(x, k) = IF k \in Keys(v) THEN Child(v, k) ELSE Null
    PROVE  /\ ArrayFor(x, v) /\ size(x) = IF n < size(v) THEN size(v) ELSE n
           /\ Promise!Grow(Filled(v), n, Filled(x)) /\ Promise!Grow(Filled(v), size(x), Filled(x))
<1> DEFINE m == IF n < size(v) THEN size(v) ELSE n
<1>1. /\ size(v) \in Nat /\ Keys(v) \subseteq {<<i>> : i \in 0 .. size(v) - 1}
      /\ size(v) > 0 => <<size(v) - 1>> \in Keys(v)
  BY SizeOfArray
<1>2. m \in Nat /\ size(v) <= m /\ n <= m
  BY <1>1
<1>3. Keys(x) \subseteq {<<i>> : i \in 0 .. m - 1}
  <2>1. ASSUME NEW k \in Keys(x) PROVE \E i \in 0 .. m - 1 : k = <<i>>
    <3>1. CASE k \in Keys(v)
      <4>1. PICK i \in 0 .. size(v) - 1 : k = <<i>>
        BY <1>1, <3>1
      <4>2. i \in 0 .. m - 1
        BY <1>1, <1>2
      <4> QED
        BY <4>1, <4>2
    <3>2. CASE k \notin Keys(v)
      <4>1. PICK i \in N : k = <<i>>
        BY <3>2
      <4>2. i \in 0 .. m - 1
        BY <1>1, <1>2
      <4> QED
        BY <4>1, <4>2
    <3> QED
      BY <3>1, <3>2
  <2> QED
    BY <2>1
<1>4. m > 0 => <<m - 1>> \in Keys(x)
  <2>1. CASE n <= size(v)
    <3>1. m = size(v)
      BY <1>1, <2>1
    <3> QED
      BY <1>1, <3>1
  <2>2. CASE n > size(v)
    <3>1. m = n /\ n - 1 \in N
      BY <1>1, <2>2
    <3> QED
      BY <3>1
  <2> QED
    BY <1>1, <2>1, <2>2
<1>5. ASSUME NEW k \in Keys(x) PROVE IsTree(Child(x, k))
  <2>1. CASE k \in Keys(v)
    BY <2>1, KeysFinite
  <2>2. CASE k \notin Keys(v)
    BY <2>2, NullIs
  <2> QED
    BY <2>1, <2>2
<1> HIDE DEF m
<1>6. ArrayFor(x, v)
  BY <1>2, <1>3, <1>5, ArrayMade
<1>7. size(x) = m
  BY <1>2, <1>3, <1>4, <1>6, SizeIs DEF ArrayFor
<1>8. ASSUME NEW j \in Nat PROVE ItemAt(x, j) = ItemAt(v, j)
  <2>1. CASE <<j>> \in Keys(v)
    BY <2>1 DEF ItemAt
  <2>2. CASE <<j>> \notin Keys(v) /\ <<j>> \in Keys(x)
    BY <2>2, FilledNull DEF ItemAt
  <2>3. CASE <<j>> \notin Keys(v) /\ <<j>> \notin Keys(x)
    BY <2>3 DEF ItemAt
  <2> QED
    BY <2>1, <2>2, <2>3
<1>9. Promise!Grow(Filled(v), n, Filled(x))
  BY <1>6, <1>7, <1>8, GrowIs DEF m
<1>10. Promise!Grow(Filled(v), size(x), Filled(x))
  <2>1. size(x) \in Nat /\ size(x) = IF size(x) < size(v) THEN size(v) ELSE size(x)
    BY <1>1, <1>2, <1>7
  <2> QED
    BY <1>6, <1>8, <2>1, GrowIs
<1> QED
  BY <1>6, <1>7, <1>9, <1>10 DEF m

\* operator[](ArrayIndex) reaches an entry, and makes it and no other.
LEMMA ElementGrows ==
    ASSUME NEW v, IsTree(v), Allows(v, "array"), NEW i \in Nat
    PROVE  LET x == Element(v, i)
           IN /\ ArrayFor(x, v) /\ size(x) = IF i + 1 < size(v) THEN size(v) ELSE i + 1
              /\ Promise!Grow(Filled(v), i + 1, Filled(x)) /\ Promise!Grow(Filled(v), size(x), Filled(x))
<1> DEFINE a == Become(v, "array")
           x == Element(v, i)
           N == {i}
<1>1. /\ IsTree(a) /\ Rooted(a) /\ Type(a) = "array" /\ Keys(a) = Keys(v)
      /\ \A k \in Keys(v) : Child(a, k) = Child(v, k)
  BY BecomeIs
<1>2. PICK l \in Key : l = <<i>>
  BY NumberKey
<1>3. x = IF l \in Keys(a) THEN a ELSE Put(a, <<l>>, Null)
  BY <1>2 DEF Element
<1> HIDE DEF a, x
<1>4. /\ Rooted(x) /\ x[<<>>] = a[<<>>] /\ Keys(x) = Keys(v) \union {l}
      /\ \A k \in Keys(x) : Child(x, k) = IF k \in Keys(v) THEN Child(v, k) ELSE Null
  <2>1. CASE l \in Keys(a)
    BY <1>1, <1>3, <2>1
  <2>2. CASE l \notin Keys(a)
    <3>1. x = Put(a, <<l>>, Null)
      BY <1>3, <2>2
    <3>2. Rooted(Null)
      BY NullIs
    <3>3. /\ Rooted(x) /\ x[<<>>] = a[<<>>] /\ Keys(x) = Keys(a) \union {l}
          /\ Child(x, l) = Null
          /\ \A k \in Keys(a) \ {l} : Child(x, k) = Child(a, k)
      <4>1. Rooted(a)
        BY <1>1
      <4>2. Placed(x, a, l, Null)
        BY <3>1, <3>2, <4>1, PutChild
      <4> QED
        BY <4>2 DEF Placed
    <3> QED
      BY <1>1, <2>2, <3>3
  <2> QED
    BY <2>1, <2>2
<1>5. Keys(x) = Keys(v) \union {<<j>> : j \in N}
  BY <1>2, <1>4
<1>6. i + 1 \in Nat /\ N \in SUBSET (0 .. (i + 1) - 1) /\ (i + 1) - 1 \in N
  OBVIOUS
<1> HIDE DEF N
<1>7. PICK n \in Nat : n = i + 1
  BY <1>6
<1>8. /\ ArrayFor(x, v) /\ size(x) = IF n < size(v) THEN size(v) ELSE n
      /\ Promise!Grow(Filled(v), n, Filled(x)) /\ Promise!Grow(Filled(v), size(x), Filled(x))
  <2>1. x[<<>>] = Become(v, "array")[<<>>]
    BY <1>4 DEF a
  <2>2. N \in SUBSET (0 .. n - 1) /\ n - 1 \in N
    BY <1>6, <1>7
  <2> QED
    BY <1>4, <1>5, <2>1, <2>2, GrownIs
<1> QED
  BY <1>7, <1>8 DEF x

\* resize makes the entries that were not there.
LEMMA ResizeGrows ==
    ASSUME NEW v, IsTree(v), Allows(v, "array"), NEW n \in Nat, n > size(v)
    PROVE  LET x == resize(v, n)
           IN /\ ArrayFor(x, v) /\ size(x) = n
              /\ Promise!Grow(Filled(v), n, Filled(x)) /\ Promise!Grow(Filled(v), size(x), Filled(x))
<1> DEFINE a == Become(v, "array")
           x == Elements(a, size(v), n)
           N == size(v) .. n - 1
<1>0. size(v) \in Nat /\ size(a) = size(v)
  BY SizeOfArray
<1>1. /\ IsTree(a) /\ Type(a) = "array" /\ Keys(a) = Keys(v)
      /\ \A k \in Keys(v) : Child(a, k) = Child(v, k)
  BY BecomeIs
<1>2. resize(v, n) = x
  BY <1>0 DEF resize
<1> HIDE DEF a, x
<1>3. Become(a, "array") = a /\ Allows(a, "array")
  BY <1>1 DEF Become, IsNull, Allows
<1>4. /\ Rooted(x) /\ x[<<>>] = a[<<>>]
      /\ Keys(x) = Keys(a) \union {<<i>> : i \in N}
      /\ \A k \in Keys(x) : Child(x, k) = IF k \in Keys(a) THEN Child(a, k) ELSE Null
  BY <1>0, <1>1, <1>3, ElementsAre DEF x
<1>5. N \in SUBSET (0 .. n - 1) /\ n - 1 \in N
  BY <1>0
<1> HIDE DEF N
<1>6. /\ ArrayFor(x, v) /\ size(x) = IF n < size(v) THEN size(v) ELSE n
      /\ Promise!Grow(Filled(v), n, Filled(x)) /\ Promise!Grow(Filled(v), size(x), Filled(x))
  <2>1. x[<<>>] = Become(v, "array")[<<>>]
    BY <1>4 DEF a
  <2>2. Keys(x) = Keys(v) \union {<<i>> : i \in N}
    BY <1>1, <1>4
  <2>3. \A k \in Keys(x) : Child(x, k) = IF k \in Keys(v) THEN Child(v, k) ELSE Null
    BY <1>1, <1>4
  <2> QED
    BY <1>4, <1>5, <2>1, <2>2, <2>3, GrownIs
<1> QED
  BY <1>0, <1>2, <1>6

\* A key of an array is its index.
LEMMA KeyNumber ==
    ASSUME NEW v, IsTree(v), Allows(v, "array"), NEW k \in Keys(v)
    PROVE  k[1] \in Nat /\ k = <<k[1]>> /\ k[1] < size(v)
<1>1. size(v) \in Nat /\ Keys(v) \subseteq {<<i>> : i \in 0 .. size(v) - 1}
  BY SizeOfArray
<1>2. PICK i \in 0 .. size(v) - 1 : k = <<i>>
  BY <1>1
<1> QED
  BY <1>1, <1>2

\* An array with fewer entries, and the others as they were, has shrunk.
LEMMA ShrunkIs ==
    ASSUME NEW v, IsTree(v), Allows(v, "array"), NEW x, Rooted(x),
           x[<<>>] = Become(v, "array")[<<>>], NEW n \in 0 .. size(v),
           Keys(x) = {k \in Keys(v) : k[1] < n},
           \A k \in Keys(x) : Child(x, k) = Child(v, k)
    PROVE  /\ ArrayFor(x, v) /\ size(x) <= n
           /\ size(x) = n => Promise!Shrink(Filled(v), n, Filled(x))
<1>1. size(v) \in Nat /\ n \in Nat
  <2>1. size(v) \in Nat
    BY SizeOfArray
  <2> QED
    BY <2>1
<1>2. Keys(x) \subseteq {<<i>> : i \in 0 .. n - 1}
  <2>1. ASSUME NEW k \in Keys(x) PROVE \E i \in 0 .. n - 1 : k = <<i>>
    <3>1. k[1] \in Nat /\ k = <<k[1]>> /\ k[1] < n
      BY KeyNumber
    <3>2. k[1] \in 0 .. n - 1
      BY <1>1, <3>1
    <3> QED
      BY <3>1, <3>2
  <2> QED
    BY <2>1
<1>3. \A k \in Keys(x) : IsTree(Child(x, k))
  BY KeysFinite
<1>4. ArrayFor(x, v)
  BY <1>1, <1>2, <1>3, ArrayMade
<1>5. /\ size(x) \in Nat
      /\ Keys(x) \subseteq {<<i>> : i \in 0 .. size(x) - 1}
      /\ size(x) > 0 => <<size(x) - 1>> \in Keys(x)
  BY <1>4, ArrayKeys DEF ArrayFor
<1>6. size(x) <= n
  <2>1. CASE size(x) > 0
    <3>1. PICK i \in 0 .. n - 1 : <<size(x) - 1>> = <<i>>
      BY <1>2, <1>5, <2>1
    <3> QED
      BY <1>1, <1>5, <3>1
  <2>2. CASE ~(size(x) > 0)
    BY <1>1, <1>5, <2>2
  <2> QED
    BY <2>1, <2>2
<1>7. ASSUME NEW j \in 0 .. n - 1 PROVE ItemAt(x, j) = ItemAt(v, j)
  <2>1. <<j>>[1] = j /\ j < n
    BY <1>1
  <2>2. <<j>> \in Keys(x) <=> <<j>> \in Keys(v)
    BY <2>1
  <2> QED
    BY <2>2 DEF ItemAt
<1>8. size(x) = n => Promise!Shrink(Filled(v), n, Filled(x))
  BY <1>4, <1>7, ShrinkIs
<1> QED
  BY <1>4, <1>6, <1>8

\* clear leaves the node.
LEMMA ClearIs ==
    ASSUME NEW v, IsTree(v)
    PROVE  LET x == clear(v)
           IN x = [p \in {<<>>} |-> v[<<>>]] /\ IsTree(x) /\ Rooted(x) /\ Keys(x) = {}
<1> DEFINE n == v[<<>>]
           x == clear(v)
<1>1. IsNode(n)
  BY DEF IsTree, WellFormed
<1>2. [n EXCEPT !.start = 0, !.limit = 0] = n
  BY <1>1 DEF IsNode
<1>3. x = [p \in {<<>>} |-> n]
  BY <1>2 DEF clear
<1> HIDE DEF x, n
<1>4. x = [p \in {<<>>} |-> x[p]] /\ IsNode(x[<<>>])
  BY <1>1, <1>3
<1>5. IsTree(x) /\ Rooted(x) /\ Keys(x) = {}
  BY <1>4, Leaf
<1> QED
  BY <1>3, <1>5 DEF x, n

\* resize drops the entries from n on; a gap before them makes the size less than n.
LEMMA ResizeShrinks ==
    ASSUME NEW v, IsTree(v), Allows(v, "array"), NEW n \in Nat, n <= size(v)
    PROVE  LET x == resize(v, n)
           IN /\ ArrayFor(x, v) /\ size(x) <= n
              /\ size(x) = n => Promise!Shrink(Filled(v), n, Filled(x))
<1> DEFINE a == Become(v, "array")
           x == resize(v, n)
           K == {k \in Keys(a) : k[1] < n}
<1>0. size(v) \in Nat /\ size(a) = size(v) /\ n \in 0 .. size(v)
  <2>1. size(v) \in Nat /\ size(a) = size(v)
    BY SizeOfArray
  <2> QED
    BY <2>1
<1>1. /\ IsTree(a) /\ Rooted(a) /\ Type(a) = "array" /\ Keys(a) = Keys(v)
      /\ \A k \in Keys(v) : Child(a, k) = Child(v, k)
  BY BecomeIs
<1>2. CASE n = 0
  <2>1. x = clear(a)
    BY <1>0, <1>2 DEF resize
  <2> HIDE DEF a, x
  <2>2. Rooted(x) /\ Keys(x) = {} /\ x[<<>>] = a[<<>>]
    BY <1>1, <2>1, ClearIs
  <2>3. {k \in Keys(v) : k[1] < 0} = {}
    BY KeyNumber
  <2>4. x[<<>>] = Become(v, "array")[<<>>]
    BY <2>2 DEF a
  <2>5. Keys(x) = {k \in Keys(v) : k[1] < n} /\ \A k \in Keys(x) : Child(x, k) = Child(v, k)
    BY <1>2, <2>2, <2>3
  <2>6. /\ ArrayFor(x, v) /\ size(x) <= n
        /\ size(x) = n => Promise!Shrink(Filled(v), n, Filled(x))
    BY <1>0, <2>2, <2>4, <2>5, ShrunkIs
  <2> QED
    BY <2>6 DEF x
<1>3. CASE n # 0
  <2>1. x = [r \in {r \in DOMAIN a : r = <<>> \/ r[1][1] < n} |-> a[r]]
    BY <1>0, <1>3 DEF resize
  <2> HIDE DEF a, x
  <2>2. ASSUME NEW r \in DOMAIN a, r # <<>> PROVE r[1] \in Keys(a)
    <3>1. DOMAIN a \subseteq Path /\ <<r[1]>> \in DOMAIN a /\ r \in Path
      BY <1>1, <2>2 DEF Rooted
    <3>2. r[1] \in Key
      BY <2>2, <3>1, FirstKey
    <3> QED
      BY <3>1, <3>2, KeysAre
  <2>3. {r \in DOMAIN a : r = <<>> \/ r[1][1] < n} = {r \in DOMAIN a : r = <<>> \/ r[1] \in K}
    BY <2>2
  <2> HIDE DEF K
  <2>4. x = Only(a, K)
    BY <2>1, <2>3 DEF Only
  <2>5. /\ Rooted(x) /\ x[<<>>] = a[<<>>] /\ Keys(x) = Keys(a) \cap K
        /\ \A k \in Keys(x) : Child(x, k) = Child(a, k)
    BY <1>1, <2>4, OnlySome
  <2>6. x[<<>>] = Become(v, "array")[<<>>]
    BY <2>5 DEF a
  <2>7. Keys(x) = {k \in Keys(v) : k[1] < n} /\ \A k \in Keys(x) : Child(x, k) = Child(v, k)
    BY <1>1, <2>5 DEF K
  <2>8. /\ ArrayFor(x, v) /\ size(x) <= n
        /\ size(x) = n => Promise!Shrink(Filled(v), n, Filled(x))
    BY <1>0, <2>5, <2>6, <2>7, ShrunkIs
  <2> QED
    BY <2>8 DEF x
<1> QED
  BY <1>2, <1>3

\* u is v with a gap at i.
Parted(u, v, i) ==
    /\ Rooted(u) /\ u[<<>>] = Become(v, "array")[<<>>]
    /\ Keys(u) = {k \in Keys(v) : k[1] < i} \union {<<j + 1>> : j \in i .. size(v) - 1}
    /\ \A k \in Keys(v) : k[1] < i => Child(u, k) = Child(v, k)
    /\ \A j \in i .. size(v) - 1 :
          Child(u, <<j + 1>>) = IF <<j>> \in Keys(v) THEN Child(v, <<j>>) ELSE Null

\* w in such a gap is an insertion.
LEMMA InsertedIs ==
    ASSUME NEW v, IsTree(v), Allows(v, "array"), NEW w, IsTree(w), NEW i \in 0 .. size(v),
           NEW u, Parted(u, v, i), NEW x, Placed(x, u, <<i>>, w)
    PROVE  ArrayFor(x, v) /\ size(x) = size(v) + 1 /\ Promise!Insert(Filled(v), i, Filled(w), Filled(x))
<1>0. size(v) \in Nat
  BY SizeOfArray
<1>1. i \in Nat /\ i <= size(v)
  BY <1>0
<1>2. /\ Rooted(x) /\ x[<<>>] = Become(v, "array")[<<>>]
      /\ Keys(x) = Keys(u) \union {<<i>>}
      /\ Child(x, <<i>>) = w
      /\ \A k \in Keys(u) \ {<<i>>} : Child(x, k) = Child(u, k)
  BY DEF Parted, Placed
<1>3. ASSUME NEW k \in Keys(x)
      PROVE  \/ k = <<i>>
             \/ k \in Keys(v) /\ k[1] \in Nat /\ k = <<k[1]>> /\ k[1] < i /\ Child(x, k) = Child(v, k)
             \/ \E j \in i .. size(v) - 1 : /\ k = <<j + 1>> /\ k # <<i>>
                                            /\ Child(x, k) = IF <<j>> \in Keys(v) THEN Child(v, <<j>>) ELSE Null
  <2>1. CASE k \in Keys(v) /\ k[1] < i
    <3>1. k[1] \in Nat /\ k = <<k[1]>>
      BY <2>1, KeyNumber
    <3>2. k # <<i>>
      BY <1>1, <2>1
    <3>3. k \in Keys(u) /\ Child(u, k) = Child(v, k)
      BY <2>1 DEF Parted
    <3> QED
      BY <1>2, <2>1, <3>1, <3>2, <3>3
  <2>2. CASE k \in {<<j + 1>> : j \in i .. size(v) - 1}
    <3>1. PICK j \in i .. size(v) - 1 : k = <<j + 1>>
      BY <2>2
    <3>2. k # <<i>>
      BY <1>0, <1>1, <3>1
    <3>3. k \in Keys(u) /\ Child(u, k) = IF <<j>> \in Keys(v) THEN Child(v, <<j>>) ELSE Null
      BY <2>2, <3>1 DEF Parted
    <3> QED
      BY <1>2, <3>1, <3>2, <3>3
  <2>3. k \in Keys(u) => <2>1!1 \/ <2>2!1
    BY DEF Parted
  <2> QED
    BY <1>2, <2>1, <2>2, <2>3
<1>4. Keys(x) \subseteq {<<j>> : j \in 0 .. (size(v) + 1) - 1}
  <2>1. ASSUME NEW k \in Keys(x) PROVE \E j \in 0 .. (size(v) + 1) - 1 : k = <<j>>
    <3>1. CASE k = <<i>>
      <4>1. i \in 0 .. (size(v) + 1) - 1
        BY <1>0, <1>1
      <4> QED
        BY <3>1, <4>1
    <3>2. CASE k[1] \in Nat /\ k = <<k[1]>> /\ k[1] < i
      <4>1. k[1] \in 0 .. (size(v) + 1) - 1
        BY <1>0, <1>1, <3>2
      <4> QED
        BY <3>2, <4>1
    <3>3. CASE \E j \in i .. size(v) - 1 : k = <<j + 1>>
      <4>1. PICK j \in i .. size(v) - 1 : k = <<j + 1>>
        BY <3>3
      <4>2. j + 1 \in 0 .. (size(v) + 1) - 1
        BY <1>0, <1>1
      <4> QED
        BY <4>1, <4>2
    <3> QED
      BY <1>3, <3>1, <3>2, <3>3
  <2> QED
    BY <2>1
<1>5. ASSUME NEW k \in Keys(x) PROVE IsTree(Child(x, k))
  <2>1. \A l \in Keys(v) : IsTree(Child(v, l))
    BY KeysFinite
  <2> QED
    BY <1>2, <1>3, <2>1, NullIs
<1>6. ArrayFor(x, v)
  <2>1. PICK n \in Nat : n = size(v) + 1
    BY <1>0
  <2>2. Keys(x) \subseteq {<<j>> : j \in 0 .. n - 1}
    BY <1>4, <2>1
  <2> QED
    BY <1>2, <1>5, <2>2, ArrayMade
<1>7. <<size(v)>> \in Keys(x)
  <2>1. CASE i = size(v)
    BY <1>2, <2>1
  <2>2. CASE i # size(v)
    <3>1. size(v) - 1 \in i .. size(v) - 1 /\ (size(v) - 1) + 1 = size(v)
      BY <1>0, <1>1, <2>2
    <3>2. <<(size(v) - 1) + 1>> \in Keys(u)
      BY <3>1 DEF Parted
    <3> QED
      BY <1>2, <3>1, <3>2
  <2> QED
    BY <2>1, <2>2
<1>8. size(x) = size(v) + 1
  <2>1. PICK n \in Nat : n = size(v) + 1
    BY <1>0
  <2>2. Keys(x) \subseteq {<<j>> : j \in 0 .. n - 1}
    BY <1>4, <2>1
  <2>3. <<n - 1>> \in Keys(x)
    BY <1>0, <1>7, <2>1
  <2>4. Type(x) = "array"
    BY <1>6 DEF ArrayFor
  <2>5. size(x) = n
    BY <2>2, <2>3, <2>4, SizeIs
  <2> QED
    BY <2>1, <2>5
<1>9. ASSUME NEW j \in 0 .. size(v)
      PROVE  ItemAt(x, j) = IF j < i THEN ItemAt(v, j) ELSE IF j = i THEN Filled(w) ELSE ItemAt(v, j - 1)
  <2>0. j \in Nat /\ <<j>>[1] = j
    BY <1>0
  <2>1. CASE j = i
    BY <1>1, <1>2, <2>1 DEF ItemAt
  <2>2. CASE j < i
    <3>1. ASSUME <<j>> \in Keys(x) PROVE <<j>> \in Keys(v) /\ Child(x, <<j>>) = Child(v, <<j>>)
      <4>1. <<j>> # <<i>>
        BY <1>1, <2>0, <2>2
      <4>2. ASSUME NEW l \in i .. size(v) - 1, <<j>> = <<l + 1>> PROVE FALSE
        BY <1>0, <1>1, <2>0, <2>2, <4>2
      <4> QED
        BY <1>3, <3>1, <4>1, <4>2
    <3>2. ASSUME <<j>> \in Keys(v) PROVE <<j>> \in Keys(x)
      <4>1. <<j>> \in Keys(u)
        BY <2>0, <2>2, <3>2 DEF Parted
      <4> QED
        BY <1>2, <4>1
    <3>3. ItemAt(x, j) = ItemAt(v, j)
      BY <3>1, <3>2 DEF ItemAt
    <3> QED
      BY <2>2, <3>3
  <2>3. CASE j > i
    <3>0. j - 1 \in i .. size(v) - 1 /\ (j - 1) + 1 = j /\ ~(j < i) /\ j # i
      BY <1>0, <1>1, <2>0, <2>3
    <3>1. /\ <<(j - 1) + 1>> \in Keys(u)
          /\ Child(u, <<(j - 1) + 1>>) = IF <<j - 1>> \in Keys(v) THEN Child(v, <<j - 1>>) ELSE Null
      BY <3>0 DEF Parted
    <3>2. /\ <<j>> \in Keys(u) /\ <<j>> # <<i>>
          /\ Child(u, <<j>>) = IF <<j - 1>> \in Keys(v) THEN Child(v, <<j - 1>>) ELSE Null
      BY <1>1, <2>0, <3>0, <3>1
    <3>3. /\ <<j>> \in Keys(x)
          /\ Child(x, <<j>>) = IF <<j - 1>> \in Keys(v) THEN Child(v, <<j - 1>>) ELSE Null
      BY <1>2, <3>2
    <3>4. ItemAt(x, j) = ItemAt(v, j - 1)
      BY <3>3, FilledNull DEF ItemAt
    <3> QED
      BY <3>0, <3>4
  <2> QED
    BY <1>1, <2>0, <2>1, <2>2, <2>3
<1>10. Promise!Insert(Filled(v), i, Filled(w), Filled(x))
  BY <1>6, <1>8, <1>9, InsertIs
<1> QED
  BY <1>6, <1>8, <1>10

\* append inserts at the size, whatever gaps there are.
LEMMA AppendInserts ==
    ASSUME NEW v, IsTree(v), Allows(v, "array"), NEW w, IsTree(w)
    PROVE  LET x == append(v, w)
           IN /\ ArrayFor(x, v) /\ size(x) = size(v) + 1
              /\ Promise!Insert(Filled(v), size(v), Filled(w), Filled(x))
<1> DEFINE a == Become(v, "array")
           x == append(v, w)
           n == size(v)
<1>0. n \in Nat /\ size(a) = n
  BY SizeOfArray
<1>1. /\ IsTree(a) /\ Rooted(a) /\ Keys(a) = Keys(v)
      /\ \A k \in Keys(v) : Child(a, k) = Child(v, k)
  BY BecomeIs
<1>2. PICK k \in Key : k = <<n>>
  BY <1>0, NumberKey
<1>3. x = Put(a, <<k>>, w)
  BY <1>0, <1>2 DEF append
<1>4. Parted(a, v, n)
  <2>1. {<<j + 1>> : j \in n .. n - 1} = {}
    BY <1>0
  <2>2. {l \in Keys(v) : l[1] < n} = Keys(v)
    BY KeyNumber
  <2>3. \A j \in n .. n - 1 : FALSE
    BY <1>0
  <2> QED
    BY <1>1, <2>1, <2>2, <2>3 DEF Parted
<1> HIDE DEF a, x
<1>5. Placed(x, a, k, w)
  <2>1. Rooted(w)
    BY TreeIsRooted
  <2> QED
    BY <1>1, <1>3, <2>1, PutChild
<1>6. n \in 0 .. size(v)
  BY <1>0
<1> HIDE DEF n
<1>7. ArrayFor(x, v) /\ size(x) = size(v) + 1 /\ Promise!Insert(Filled(v), n, Filled(w), Filled(x))
  BY <1>2, <1>4, <1>5, <1>6, InsertedIs
<1> QED
  BY <1>7 DEF x, n

\* insert moves what is behind i, gaps and all.
LEMMA InsertInserts ==
    ASSUME NEW v, IsTree(v), Allows(v, "array"), NEW w, IsTree(w), NEW i \in Nat, ~insertFails(v, i)
    PROVE  LET x == insert(v, i, w)
           IN /\ ArrayFor(x, v) /\ size(x) = size(v) + 1 /\ i <= size(v)
              /\ Promise!Insert(Filled(v), i, Filled(w), Filled(x))
<1> DEFINE u == Moved(v, i, size(v), 1)
           x == insert(v, i, w)
<1>0. size(v) \in Nat
  BY SizeOfArray
<1>1. i \in 0 .. size(v)
  BY <1>0 DEF insertFails
<1>2. PICK k \in Key : k = <<i>>
  BY NumberKey
<1>3. x = Put(u, <<k>>, w)
  BY <1>2 DEF insert
<1>4. Parted(u, v, i)
  <2>1. Shifted(u, v, i, size(v), 1)
    <3>1. 1 \in {-1, 1} /\ i + 1 >= 0
      OBVIOUS
    <3> QED
      BY <1>0, <3>1, MovedAre
  <2>2. (IF 1 < 0 THEN i + 1 ELSE i) = i
    OBVIOUS
  <2> HIDE DEF u
  <2> QED
    BY <2>1, <2>2 DEF Parted, Shifted
<1> HIDE DEF u, x
<1>5. Placed(x, u, k, w)
  <2>1. Rooted(w) /\ Rooted(u)
    BY <1>4, TreeIsRooted DEF Parted
  <2> QED
    BY <1>3, <2>1, PutChild
<1>6. ArrayFor(x, v) /\ size(x) = size(v) + 1 /\ Promise!Insert(Filled(v), i, Filled(w), Filled(x))
  BY <1>1, <1>2, <1>4, <1>5, InsertedIs
<1> QED
  BY <1>0, <1>1, <1>6 DEF x

\* removeIndex moves what is behind i forward, gaps and all, and shortens by
\* one unless a gap is at the new end.
LEMMA RemoveTakesOut ==
    ASSUME NEW v, IsTree(v), NEW i \in Nat, ~removeIndexFails(v, i)
    PROVE  LET x == removeIndex(v, i)
           IN /\ ArrayFor(x, v) /\ i \in 0 .. size(v) - 1 /\ <<i>> \in Keys(v) /\ Type(v) = "array"
              /\ size(x) = size(v) - 1 =>
                   Promise!TakeOut(Filled(v), i, Filled(x), Filled(Child(v, <<i>>)))
<1> DEFINE x == removeIndex(v, i)
           n == size(v) - 1
<1>0. Type(v) = "array" /\ Allows(v, "array") /\ <<i>> \in Keys(v)
  BY DEF removeIndexFails, IsArray, Allows
<1>1. size(v) \in Nat /\ i < size(v)
  <2>1. size(v) \in Nat
    BY <1>0, SizeOfArray
  <2>2. PICK k \in Keys(v) : k = <<i>>
    BY <1>0
  <2>3. k[1] < size(v) /\ k[1] = i
    BY <1>0, <2>2, KeyNumber
  <2> QED
    BY <2>1, <2>3
<1>2. x = Moved(v, i + 1, size(v), -1)
  BY DEF removeIndex
<1> HIDE DEF x
<1>3. /\ Rooted(x) /\ x[<<>>] = Become(v, "array")[<<>>]
      /\ Keys(x) = {k \in Keys(v) : k[1] < i} \union {<<j - 1>> : j \in i + 1 .. size(v) - 1}
      /\ \A k \in Keys(v) : k[1] < i => Child(x, k) = Child(v, k)
      /\ \A j \in i + 1 .. size(v) - 1 :
            Child(x, <<j - 1>>) = IF <<j>> \in Keys(v) THEN Child(v, <<j>>) ELSE Null
  <2>0. PICK from \in Nat, by \in {-1, 1} : from = i + 1 /\ by = -1
    OBVIOUS
  <2>1. from + by >= 0 /\ (IF by < 0 THEN from + by ELSE from) = i
    BY <2>0
  <2> DEFINE u == Moved(v, from, size(v), by)
  <2>2. x = u
    BY <1>2, <2>0
  <2>3. Shifted(u, v, from, size(v), by)
    <3>1. Allows(v, "array") /\ size(v) \in Nat /\ from + by >= 0
      BY <1>0, <1>1, <2>1
    <3> QED
      BY <3>1, MovedAre
  <2> HIDE DEF u
  <2>4. \A j \in from .. size(v) - 1 : j + by = j - 1
    BY <1>1, <2>0
  <2>5. {<<j + by>> : j \in from .. size(v) - 1} = {<<j - 1>> : j \in i + 1 .. size(v) - 1}
    BY <2>0, <2>4
  <2>6. /\ Rooted(u) /\ u[<<>>] = Become(v, "array")[<<>>]
        /\ Keys(u) = {k \in Keys(v) : k[1] < i} \union {<<j + by>> : j \in from .. size(v) - 1}
        /\ \A k \in Keys(v) : k[1] < i => Child(u, k) = Child(v, k)
        /\ \A j \in from .. size(v) - 1 :
              Child(u, <<j + by>>) = IF <<j>> \in Keys(v) THEN Child(v, <<j>>) ELSE Null
    BY <2>1, <2>3 DEF Shifted
  <2> QED
    BY <2>0, <2>2, <2>4, <2>5, <2>6
<1>4. n \in Nat
  BY <1>1
<1>5. ASSUME NEW k \in Keys(x)
      PROVE  \/ k \in Keys(v) /\ k[1] \in Nat /\ k = <<k[1]>> /\ k[1] < i /\ Child(x, k) = Child(v, k)
             \/ \E j \in i + 1 .. size(v) - 1 :
                   k = <<j - 1>> /\ Child(x, k) = IF <<j>> \in Keys(v) THEN Child(v, <<j>>) ELSE Null
  <2>1. CASE k \in Keys(v) /\ k[1] < i
    BY <1>0, <1>3, <2>1, KeyNumber
  <2>2. CASE k \in {<<j - 1>> : j \in i + 1 .. size(v) - 1}
    BY <1>3, <2>2
  <2> QED
    BY <1>3, <2>1, <2>2
<1>6. Keys(x) \subseteq {<<j>> : j \in 0 .. n - 1}
  <2>1. ASSUME NEW k \in Keys(x) PROVE \E j \in 0 .. n - 1 : k = <<j>>
    <3>1. CASE k[1] \in Nat /\ k = <<k[1]>> /\ k[1] < i
      <4>1. k[1] \in 0 .. n - 1
        BY <1>1, <3>1
      <4> QED
        BY <3>1, <4>1
    <3>2. CASE \E j \in i + 1 .. size(v) - 1 : k = <<j - 1>>
      <4>1. PICK j \in i + 1 .. size(v) - 1 : k = <<j - 1>>
        BY <3>2
      <4>2. j - 1 \in 0 .. n - 1
        BY <1>1
      <4> QED
        BY <4>1, <4>2
    <3> QED
      BY <1>5, <3>1, <3>2
  <2> QED
    BY <2>1
<1>7. ASSUME NEW k \in Keys(x) PROVE IsTree(Child(x, k))
  <2>1. \A l \in Keys(v) : IsTree(Child(v, l))
    BY KeysFinite
  <2> QED
    BY <1>5, <2>1, NullIs
<1> HIDE DEF n
<1>8. ArrayFor(x, v)
  BY <1>0, <1>3, <1>4, <1>6, <1>7, ArrayMade
<1>9. size(x) <= n
  <2>1. /\ size(x) \in Nat
        /\ size(x) > 0 => <<size(x) - 1>> \in Keys(x)
    BY <1>8, ArrayKeys DEF ArrayFor
  <2>2. CASE size(x) > 0
    <3>1. PICK j \in 0 .. n - 1 : <<size(x) - 1>> = <<j>>
      BY <1>6, <2>1, <2>2
    <3> QED
      BY <1>4, <2>1, <3>1
  <2>3. CASE ~(size(x) > 0)
    BY <1>4, <2>1, <2>3
  <2> QED
    BY <2>2, <2>3
<1>10. ASSUME NEW j \in 0 .. n - 1 PROVE ItemAt(x, j) = ItemAt(v, IF j < i THEN j ELSE j + 1)
  <2>0. j \in Nat /\ <<j>>[1] = j
    BY <1>4
  <2>1. CASE j < i
    <3>1. ASSUME <<j>> \in Keys(x) PROVE <<j>> \in Keys(v) /\ Child(x, <<j>>) = Child(v, <<j>>)
      <4>1. ASSUME NEW l \in i + 1 .. size(v) - 1, <<j>> = <<l - 1>> PROVE FALSE
        BY <1>1, <2>0, <2>1, <4>1
      <4> QED
        BY <1>5, <3>1, <4>1
    <3>2. <<j>> \in Keys(v) => <<j>> \in Keys(x)
      BY <1>3, <2>0, <2>1
    <3>3. ItemAt(x, j) = ItemAt(v, j)
      BY <3>1, <3>2 DEF ItemAt
    <3> QED
      BY <2>1, <3>3
  <2>2. CASE ~(j < i)
    <3>0. j + 1 \in i + 1 .. size(v) - 1 /\ (j + 1) - 1 = j
      BY <1>1, <2>0, <2>2 DEF n
    <3>1. /\ <<(j + 1) - 1>> \in Keys(x)
          /\ Child(x, <<(j + 1) - 1>>) = IF <<j + 1>> \in Keys(v) THEN Child(v, <<j + 1>>) ELSE Null
      BY <1>3, <3>0
    <3>2. /\ <<j>> \in Keys(x)
          /\ Child(x, <<j>>) = IF <<j + 1>> \in Keys(v) THEN Child(v, <<j + 1>>) ELSE Null
      BY <3>0, <3>1
    <3>3. ItemAt(x, j) = ItemAt(v, j + 1)
      BY <3>2, FilledNull DEF ItemAt
    <3> QED
      BY <2>2, <3>3
  <2> QED
    BY <2>1, <2>2
<1>12. \A j \in 0 .. size(x) - 1 : ItemAt(x, j) = ItemAt(v, IF j < i THEN j ELSE j + 1)
  <2>1. size(x) \in Nat
    BY <1>8, ArrayKeys DEF ArrayFor
  <2>2. \A j \in 0 .. size(x) - 1 : j \in 0 .. n - 1
    BY <1>4, <1>9, <2>1
  <2> QED
    BY <1>10, <2>2
<1>13. i \in 0 .. size(v) - 1
  BY <1>1
<1>14. size(x) = size(v) - 1 => Promise!TakeOut(Filled(v), i, Filled(x), ItemAt(v, i))
  BY <1>0, <1>8, <1>12, <1>13, TakeOutIs
<1>15. ItemAt(v, i) = Filled(Child(v, <<i>>))
  BY <1>0 DEF ItemAt
<1> QED
  BY <1>0, <1>8, <1>13, <1>14, <1>15 DEF x

----------------------------------------------------------------------------
(* The operations on objects, and those on any Value. *)

\* A Value that is no array is seen with its own children only.
LEMMA SeenKeys ==
    ASSUME NEW v, IsTree(v), Type(v) # "array"
    PROVE  LET F == Filled(v)
           IN /\ Rooted(F) /\ F[<<>>] = v[<<>>] /\ Type(F) = Type(v) /\ Keys(F) = Keys(v)
              /\ \A k \in Keys(v) : Child(F, k) = Filled(Child(v, k))
BY FilledParts

\* A null becomes an object to a program, too.
LEMMA ObjectSeen ==
    ASSUME NEW v, IsTree(v), Allows(v, "object")
    PROVE  Filled(Become(v, "object")) = Become(Filled(v), "object")
<1>1. Type(v) # "array" /\ Type(Filled(v)) = Type(v)
  <2>1. Type(v) # "array"
    BY DEF Allows
  <2> QED
    BY <2>1, SeenKeys
<1>2. CASE IsNull(v)
  <2>1. Become(v, "object") = Make("object", <<>>) /\ Become(Filled(v), "object") = Make("object", <<>>)
    BY <1>1, <1>2 DEF Become, IsNull, Empty
  <2>2. IsTree(Make("object", <<>>)) /\ Keys(Make("object", <<>>)) = {}
    BY EmptyIs
  <2> QED
    BY <2>1, <2>2, FilledLeaf
<1>3. CASE ~IsNull(v)
  BY <1>1, <1>3 DEF Become, IsNull
<1> QED
  BY <1>2, <1>3

\* resolveReference reaches a member, and makes it and no other.
LEMMA ReferenceNames ==
    ASSUME NEW v, IsTree(v), Allows(v, "object"), NEW name \in Seq(0 .. 255)
    PROVE  LET x == resolveReference(v, name)
           IN /\ IsTree(x) /\ name \in Keys(Filled(x))
              /\ Promise!Name(Filled(v), name, Filled(x))
<1> DEFINE o == Become(v, "object")
           x == resolveReference(v, name)
           F == Filled(v)
<1>0. PICK k \in Key : k = name
  <2>1. Len(name) \in Nat /\ name \in [1 .. Len(name) -> 0 .. 255]
    BY LenProperties
  <2>0. \A i \in 0 .. 255 : i \in Nat
    OBVIOUS
  <2>2. name \in [1 .. Len(name) -> Nat]
    <3>1. \A i \in 1 .. Len(name) : name[i] \in Nat
      BY <2>0, <2>1
    <3> QED
      BY <2>1, <3>1
  <2>3. name \in Seq(Nat)
    BY <2>1, <2>2
  <2> QED
    BY <2>3 DEF Key
<1>1. /\ IsTree(o) /\ Rooted(o) /\ Type(o) = "object" /\ Keys(o) = Keys(v)
      /\ \A l \in Keys(v) : Child(o, l) = Child(v, l)
  BY BecomeIs
<1>2. Type(v) # "array" /\ Allows(F, "object") /\ Keys(F) = Keys(v)
  <2>1. Type(v) # "array"
    BY DEF Allows
  <2>2. Type(F) = Type(v) /\ Keys(F) = Keys(v)
    BY <2>1, SeenKeys
  <2> QED
    BY <2>1, <2>2 DEF Allows
<1>3. Filled(o) = Become(F, "object")
  BY ObjectSeen
<1>4. x = IF k \in Keys(o) THEN o ELSE Put(o, <<k>>, Null)
  BY <1>0 DEF resolveReference
<1>5. k \in Keys(v) => o = v
  <2>1. Type(v) = "null" => size(v) = 0 /\ Keys(v) = {}
    <3>1. ASSUME Type(v) = "null", NEW l \in Keys(v) PROVE FALSE
      <4>1. IsKeyOf("null", l)
        BY <3>1, KeysFinite
      <4> QED
        BY <4>1 DEF IsKeyOf
    <3> QED
      BY <3>1 DEF size, IsArray, IsObject
  <2> QED
    BY <2>1 DEF Become, IsNull
<1> HIDE DEF o, x, F
<1>6. CASE k \in Keys(v)
  <2>1. x = v
    BY <1>1, <1>4, <1>5, <1>6
  <2>2. Promise!Name(F, name, Filled(x))
    BY <1>0, <1>2, <1>6, <2>1, PromiseTree DEF Promise!Name, F
  <2> QED
    BY <1>0, <1>2, <1>6, <2>1, <2>2 DEF x, F
<1>7. CASE k \notin Keys(v)
  <2>1. x = Put(o, <<k>>, Null)
    BY <1>1, <1>4, <1>7
  <2>2. Placed(x, o, k, Null)
    BY <1>1, <2>1, NullIs, PutChild
  <2>3. Type(x) = "object" /\ IsNode(x[<<>>])
    BY <1>1, <2>2 DEF Placed, Type, IsTree, WellFormed
  <2>4. IsTree(x)
    <3>1. IsFiniteSet(Keys(x)) /\ \A l \in Keys(o) : IsKeyOf("object", l) /\ IsTree(Child(o, l))
      <4>1. IsFiniteSet(Keys(o)) /\ \A l \in Keys(o) : IsKeyOf("object", l) /\ IsTree(Child(o, l))
        BY <1>1, KeysFinite
      <4>2. IsFiniteSet(Keys(o) \union {k})
        BY <4>1, FS_AddElement
      <4> QED
        BY <2>2, <4>1, <4>2 DEF Placed
    <3>2. IsKeyOf("object", k)
      BY <1>0 DEF IsKeyOf
    <3>3. \A l \in Keys(x) : IsKeyOf(Type(x), l) /\ IsTree(Child(x, l))
      BY <2>2, <2>3, <3>1, <3>2, NullIs DEF Placed
    <3> QED
      BY <2>2, <2>3, <3>1, <3>3, PartsMakeTree DEF Placed
  <2> DEFINE O == Filled(o)
             X == Filled(x)
             Y == Put(O, <<k>>, Null)
  <2>5. /\ Rooted(O) /\ O[<<>>] = o[<<>>] /\ Keys(O) = Keys(o)
        /\ \A l \in Keys(o) : Child(O, l) = Filled(Child(o, l))
    BY <1>1, SeenKeys
  <2>6. /\ Rooted(X) /\ X[<<>>] = x[<<>>] /\ Keys(X) = Keys(x)
        /\ \A l \in Keys(x) : Child(X, l) = Filled(Child(x, l))
    BY <2>3, <2>4, SeenKeys
  <2> HIDE DEF O, X
  <2>7. Placed(Y, O, k, Null)
    BY <2>5, NullIs, PutChild
  <2> HIDE DEF Y
  <2>8. X = Y
    <3>1. Keys(X) = Keys(Y) /\ X[<<>>] = Y[<<>>] /\ Rooted(Y)
      BY <2>2, <2>5, <2>6, <2>7 DEF Placed
    <3>2. ASSUME NEW l \in Keys(X) PROVE Child(X, l) = Child(Y, l)
      <4>1. CASE l = k
        BY <2>2, <2>6, <2>7, <4>1, FilledNull DEF Placed
      <4>2. CASE l # k
        <5>1. l \in Keys(o) \ {k} /\ l \in Keys(O) \ {k}
          BY <2>2, <2>5, <2>6, <4>2 DEF Placed
        <5>2. Child(x, l) = Child(o, l) /\ Child(Y, l) = Child(O, l)
          BY <2>2, <2>7, <5>1 DEF Placed
        <5> QED
          BY <2>5, <2>6, <5>1, <5>2
      <4> QED
        BY <4>1, <4>2
    <3> QED
      BY <2>6, <3>1, <3>2, SameParts
  <2>9. Promise!Name(F, name, X)
    <3>1. X = Put(Become(F, "object"), <<name>>, Null)
      BY <1>0, <1>3, <2>8 DEF Y, O
    <3>2. name \notin Keys(F)
      BY <1>0, <1>2, <1>7
    <3> QED
      BY <1>2, <3>1, <3>2, PromiseTree DEF Promise!Name
  <2>10. name \in Keys(X)
    BY <1>0, <2>2, <2>6 DEF Placed
  <2> QED
    BY <2>4, <2>9, <2>10 DEF x, X, F
<1> QED
  BY <1>6, <1>7

\* To drop a child is to keep the others.
LEMMA DropIsOnly ==
    ASSUME NEW v, Rooted(v), NEW k \in Key
    PROVE  Drop(v, <<k>>) = Only(v, Keys(v) \ {k})
<1> DEFINE K == Keys(v) \ {k}
<1>1. DOMAIN v \subseteq Path
  BY DEF Rooted
<1>2. ASSUME NEW r \in DOMAIN v PROVE r \notin Under(v, <<k>>) <=> r = <<>> \/ r[1] \in K
  <2>1. IsUnder(<<k>>, r) <=> r # <<>> /\ r[1] = k
    BY <1>1, OneKey
  <2>2. ASSUME r # <<>> PROVE r[1] \in Keys(v)
    <3>1. <<r[1]>> \in DOMAIN v /\ r \in Path
      BY <1>1, <2>2 DEF Rooted
    <3>2. r[1] \in Key
      BY <2>2, <3>1, FirstKey
    <3> QED
      BY <1>1, <3>1, <3>2, KeysAre
  <2> QED
    BY <2>1, <2>2 DEF Under
<1> HIDE DEF K
<1>3. DOMAIN v \ Under(v, <<k>>) = {r \in DOMAIN v : r = <<>> \/ r[1] \in K}
  BY <1>2
<1>4. Drop(v, <<k>>) = Only(v, K)
  BY <1>3 DEF Drop, Only
<1> QED
  BY <1>4 DEF K

\* removeMember takes out one member.
LEMMA RemoveForgets ==
    ASSUME NEW v, IsTree(v), NEW name, isMember(v, name)
    PROVE  LET x == removeMember(v, name)
           IN /\ IsTree(x) /\ name \in Keys(Filled(v)) /\ name \in Keys(v)
              /\ Child(Filled(v), name) = Filled(Child(v, name))
              /\ Promise!Forget(Filled(v), name, Filled(x), Filled(Child(v, name)))
<1> DEFINE x == removeMember(v, name)
           F == Filled(v)
           X == Filled(x)
           Y == Drop(F, <<name>>)
<1>1. Type(v) = "object" /\ name \in Keys(v)
  BY DEF isMember, IsObject
<1>2. Rooted(v) /\ name \in Key
  BY <1>1, TreeIsRooted, KeysFinite
<1>3. x = Only(v, Keys(v) \ {name})
  BY <1>2, DropIsOnly DEF removeMember
<1>4. /\ Rooted(F) /\ F[<<>>] = v[<<>>] /\ Type(F) = Type(v) /\ Keys(F) = Keys(v)
      /\ \A l \in Keys(v) : Child(F, l) = Filled(Child(v, l))
  BY <1>1, SeenKeys
<1> HIDE DEF x, F
<1>5. Y = Only(F, Keys(F) \ {name})
  BY <1>2, <1>4, DropIsOnly
<1> HIDE DEF Y
<1>6. /\ Rooted(x) /\ x[<<>>] = v[<<>>] /\ Keys(x) = Keys(v) \ {name}
      /\ \A l \in Keys(x) : Child(x, l) = Child(v, l)
  BY <1>2, <1>3, OnlySome
<1>7. /\ Rooted(Y) /\ Y[<<>>] = F[<<>>] /\ Keys(Y) = Keys(F) \ {name}
      /\ \A l \in Keys(Y) : Child(Y, l) = Child(F, l)
  BY <1>4, <1>5, OnlySome
<1>8. Type(x) = "object"
  BY <1>1, <1>6 DEF Type
<1>9. IsTree(x)
  <2>1. IsNode(x[<<>>])
    BY <1>6 DEF IsTree, WellFormed
  <2>2. IsFiniteSet(Keys(x))
    BY <1>6, KeysFinite, FS_Subset
  <2>3. \A l \in Keys(x) : IsKeyOf(Type(x), l) /\ IsTree(Child(x, l))
    BY <1>1, <1>6, <1>8, KeysFinite
  <2> QED
    BY <1>6, <2>1, <2>2, <2>3, PartsMakeTree
<1>10. /\ Rooted(X) /\ X[<<>>] = x[<<>>] /\ Keys(X) = Keys(x)
       /\ \A l \in Keys(x) : Child(X, l) = Filled(Child(x, l))
  BY <1>8, <1>9, SeenKeys
<1> HIDE DEF X
<1>11. X = Y
  <2>1. Keys(X) = Keys(Y) /\ X[<<>>] = Y[<<>>]
    BY <1>4, <1>6, <1>7, <1>10
  <2>2. \A l \in Keys(X) : Child(X, l) = Child(Y, l)
    BY <1>4, <1>6, <1>7, <1>10
  <2> QED
    BY <1>7, <1>10, <2>1, <2>2, SameParts
<1>12. Promise!Forget(F, name, X, Filled(Child(v, name)))
  BY <1>1, <1>4, <1>11, PromiseTree DEF Promise!Forget, Y
<1> QED
  BY <1>1, <1>4, <1>9, <1>12 DEF x, F, X

\* clear takes out all.
LEMMA ClearClears ==
    ASSUME NEW v, IsTree(v), Type(v) \in {"null", "array", "object"}
    PROVE  IsTree(clear(v)) /\ Promise!Clear(Filled(v), Filled(clear(v)))
<1> DEFINE x == clear(v)
           F == Filled(v)
<1>1. x = [p \in {<<>>} |-> [v[<<>>] EXCEPT !.start = 0, !.limit = 0]]
  BY DEF clear
<1>2. IsTree(x) /\ Keys(x) = {}
  BY ClearIs
<1>3. F[<<>>] = v[<<>>] /\ Type(F) = Type(v)
  BY FilledParts
<1> HIDE DEF F, x
<1>4. Filled(x) = x
  BY <1>2, FilledLeaf
<1>5. Promise!Clear(F, Filled(x))
  BY <1>1, <1>3, <1>4, PromiseTree DEF Promise!Clear
<1> QED
  BY <1>2, <1>5 DEF F, x

\* The root of v is another, with the same children below.
Rerooted(v, n) == [r \in DOMAIN v |-> IF r = <<>> THEN n ELSE v[r]]

\* Another node leaves the children.
LEMMA RerootIs ==
    ASSUME NEW v, Rooted(v), NEW n
    PROVE  LET u == Rerooted(v, n)
           IN /\ Rooted(u) /\ u[<<>>] = n /\ Keys(u) = Keys(v)
              /\ \A k \in Keys(v) : Child(u, k) = Child(v, k)
<1> DEFINE u == Rerooted(v, n)
<1>0. /\ DOMAIN v \subseteq Path /\ <<>> \in DOMAIN v
      /\ \A r \in DOMAIN v \ {<<>>} : <<r[1]>> \in DOMAIN v
  BY DEF Rooted
<1>1. /\ u = [r \in DOMAIN u |-> u[r]] /\ DOMAIN u = DOMAIN v
      /\ \A r \in DOMAIN u : u[r] = IF r = <<>> THEN n ELSE v[r]
  BY DEF Rerooted
<1> HIDE DEF u
<1>2. Rooted(u) /\ u[<<>>] = n
  BY <1>0, <1>1 DEF Rooted
<1>3. Keys(u) = {k \in Key : <<k>> \in DOMAIN u} /\ Keys(v) = {k \in Key : <<k>> \in DOMAIN v}
  BY <1>0, <1>1, KeysAre
<1>4. ASSUME NEW k \in Keys(v) PROVE Child(u, k) = Child(v, k)
  <2>1. k \in Key
    BY <1>3
  <2>2. Alike(u, k, v, k)
    <3>1. \A q \in Path : <<k>> \o q # <<>>
      BY <2>1, OneKey
    <3> QED
      BY <1>1, <3>1 DEF Alike
  <2>3. DOMAIN u \subseteq Path
    BY <1>0, <1>1
  <2> QED
    BY <1>0, <2>1, <2>2, <2>3, SameChild
<1>5. Keys(u) = Keys(v)
  BY <1>1, <1>3
<1> QED
  BY <1>2, <1>4, <1>5 DEF u

\* Of the same type, it leaves what a program sees of them.
LEMMA RerootSeen ==
    ASSUME NEW v, IsTree(v), NEW n, IsNode(n), n.type = Type(v)
    PROVE  IsTree(Rerooted(v, n)) /\ Filled(Rerooted(v, n)) = Rerooted(Filled(v), n)
<1> DEFINE u == Rerooted(v, n)
           F == Filled(v)
           U == Filled(u)
           W == Rerooted(F, n)
<1>1. /\ Rooted(u) /\ u[<<>>] = n /\ Keys(u) = Keys(v)
      /\ \A k \in Keys(v) : Child(u, k) = Child(v, k)
  BY TreeIsRooted, RerootIs
<1> HIDE DEF u
<1>2. Type(u) = Type(v)
  BY <1>1 DEF Type
<1>3. IsTree(u)
  <2>1. /\ IsFiniteSet(Keys(v))
        /\ \A k \in Keys(v) : IsKeyOf(Type(v), k) /\ IsTree(Child(v, k))
    BY KeysFinite
  <2>2. \A k \in Keys(u) : IsKeyOf(Type(u), k) /\ IsTree(Child(u, k))
    BY <1>1, <1>2, <2>1
  <2>3. IsFiniteSet(Keys(u)) /\ IsNode(u[<<>>])
    BY <1>1, <2>1
  <2> QED
    BY <1>1, <2>2, <2>3, PartsMakeTree
<1>4. size(u) = size(v)
  BY <1>1, <1>2 DEF size, IsArray, IsObject
<1> DEFINE new == IF Type(v) = "array" THEN {<<i>> : i \in 0 .. size(v) - 1} ELSE {}
<1>5. /\ Rooted(F) /\ Keys(F) = Keys(v) \union new
      /\ \A k \in Keys(v) : Child(F, k) = Filled(Child(v, k))
      /\ \A k \in Keys(F) \ Keys(v) : Child(F, k) = Null
  BY FilledParts
<1>6. /\ Rooted(U) /\ U[<<>>] = u[<<>>] /\ Keys(U) = Keys(u) \union new
      /\ \A k \in Keys(u) : Child(U, k) = Filled(Child(u, k))
      /\ \A k \in Keys(U) \ Keys(u) : Child(U, k) = Null
  <2>1. /\ Rooted(U) /\ U[<<>>] = u[<<>>]
        /\ Keys(U) = Keys(u) \union IF Type(u) = "array" THEN {<<i>> : i \in 0 .. size(u) - 1} ELSE {}
        /\ \A k \in Keys(u) : Child(U, k) = Filled(Child(u, k))
        /\ \A k \in Keys(U) \ Keys(u) : Child(U, k) = Null
    BY <1>3, FilledParts
  <2>2. (IF Type(u) = "array" THEN {<<i>> : i \in 0 .. size(u) - 1} ELSE {}) = new
    BY <1>2, <1>4
  <2> HIDE DEF U, new
  <2> QED
    BY <2>1, <2>2
<1> HIDE DEF new, F, U
<1>7. /\ Rooted(W) /\ W[<<>>] = n /\ Keys(W) = Keys(F)
      /\ \A k \in Keys(F) : Child(W, k) = Child(F, k)
  BY <1>5, RerootIs
<1> HIDE DEF W
<1>8. U = W
  <2>1. Keys(U) = Keys(W) /\ U[<<>>] = W[<<>>]
    BY <1>1, <1>5, <1>6, <1>7
  <2>2. \A k \in Keys(U) : Child(U, k) = Child(W, k)
    BY <1>1, <1>5, <1>6, <1>7
  <2> QED
    BY <1>6, <1>7, <2>1, <2>2, SameParts
<1> QED
  BY <1>3, <1>8 DEF u, F, U, W

\* swapPayload exchanges what a program sees but for comments and offsets.
LEMMA PayloadSeen ==
    ASSUME NEW v, IsTree(v), NEW w, IsTree(w)
    PROVE  /\ IsTree(WithPayload(v, w))
           /\ Filled(WithPayload(v, w)) = WithPayload(Filled(v), Filled(w))
<1> DEFINE n == [w[<<>>] EXCEPT !.comments = v[<<>>].comments, !.start = v[<<>>].start, !.limit = v[<<>>].limit]
<1>1. IsNode(v[<<>>]) /\ IsNode(w[<<>>]) /\ <<>> \in DOMAIN w
  BY DEF IsTree, WellFormed
<1>2. IsNode(n) /\ n.type = Type(w)
  <2>1. ASSUME NEW a, NEW b, IsNode(a), IsNode(b)
        PROVE  LET m == [a EXCEPT !.comments = b.comments, !.start = b.start, !.limit = b.limit]
               IN IsNode(m) /\ m.type = a.type
    <3> DEFINE m == [a EXCEPT !.comments = b.comments, !.start = b.start, !.limit = b.limit]
           T == [type : {a.type}, data : {a.data}, comments : {a.comments, b.comments},
                 start : {a.start, b.start}, limit : {a.limit, b.limit}]
    <3>1. a \in T
      BY <2>1 DEF IsNode
    <3>2. m \in T /\ m.type = a.type /\ m.data = a.data /\ m.comments = b.comments
                  /\ m.start = b.start /\ m.limit = b.limit
      BY <3>1
    <3> HIDE DEF m
    <3>3. m = [type |-> m.type, data |-> m.data, comments |-> m.comments, start |-> m.start, limit |-> m.limit]
      BY <3>2
    <3>4. IsNode(m)
      BY <2>1, <3>2, <3>3 DEF IsNode
    <3> QED
      BY <3>2, <3>4 DEF m
  <2>2. IsNode(n) /\ n.type = w[<<>>].type
    BY <1>1, <2>1
  <2> QED
    BY <2>2 DEF Type
<1>3. \A x : x = [r \in DOMAIN x |-> x[r]] /\ <<>> \in DOMAIN x =>
         \A y : WithPayload(y, x) =
            Rerooted(x, [x[<<>>] EXCEPT !.comments = y[<<>>].comments, !.start = y[<<>>].start, !.limit = y[<<>>].limit])
  <2> SUFFICES ASSUME NEW x, x = [r \in DOMAIN x |-> x[r]], <<>> \in DOMAIN x, NEW y
               PROVE  WithPayload(y, x) =
            Rerooted(x, [x[<<>>] EXCEPT !.comments = y[<<>>].comments, !.start = y[<<>>].start, !.limit = y[<<>>].limit])
    OBVIOUS
  <2> QED
    BY DEF WithPayload, Rerooted
<1>4. w = [r \in DOMAIN w |-> w[r]]
  BY DEF IsTree
<1>5. WithPayload(v, w) = Rerooted(w, n)
  BY <1>1, <1>3, <1>4
<1>6. Filled(v)[<<>>] = v[<<>>] /\ Filled(w)[<<>>] = w[<<>>] /\ Rooted(Filled(w))
  BY FilledParts
<1>7. WithPayload(Filled(v), Filled(w)) = Rerooted(Filled(w), n)
  <2> DEFINE V == Filled(v)
             W == Filled(w)
  <2>1. W = [r \in DOMAIN W |-> W[r]] /\ <<>> \in DOMAIN W
    BY <1>6 DEF Rooted
  <2>2. V[<<>>] = v[<<>>] /\ W[<<>>] = w[<<>>]
    BY <1>6
  <2> HIDE DEF V, W
  <2>3. WithPayload(V, W) =
           Rerooted(W, [W[<<>>] EXCEPT !.comments = V[<<>>].comments, !.start = V[<<>>].start,
                                       !.limit = V[<<>>].limit])
    BY <1>3, <2>1
  <2>4. WithPayload(V, W) = Rerooted(W, n)
    BY <2>2, <2>3
  <2> QED
    BY <2>4 DEF V, W
<1> HIDE DEF n
<1>8. IsTree(Rerooted(w, n)) /\ Filled(Rerooted(w, n)) = Rerooted(Filled(w), n)
  BY <1>2, RerootSeen
<1> QED
  BY <1>5, <1>7, <1>8

\* A comment is a change of one node.
LEMMA CommentIs ==
    ASSUME NEW v, IsTree(v), NEW p \in DOMAIN v, NEW text, NEW slot \in CommentPlacement
    PROVE  LET x == At(setComment(v, p, text, slot), p)
           IN /\ IsTree(x) /\ setComment(v, p, text, slot) = Put(v, p, x)
              /\ Promise!Annotate(Filled(At(v, p)), Filled(x))
<1> DEFINE t == IF text[Len(text)] = 10 THEN SubSeq(text, 1, Len(text) - 1) ELSE text
           a == v[p]
           n == [a EXCEPT !.comments[slot] = t]
           s == setComment(v, p, text, slot)
           w == At(v, p)
           y == Rerooted(w, n)
           u == Put(v, p, y)
<1>0. p \in Path /\ DOMAIN v \subseteq Path /\ v = [r \in DOMAIN v |-> v[r]]
  BY DEF IsTree
<1>1. s = [r \in DOMAIN v |-> IF r = p THEN n ELSE v[r]]
  BY <1>0 DEF setComment
<1>2. IsNode(a)
  BY DEF IsTree
<1> HIDE DEF t, a
<1>3. IsNode(n) /\ n.type = a.type /\ n.comments[slot] = t
  <2> DEFINE c == [a.comments EXCEPT ![slot] = t]
             T == [type : {a.type}, data : {a.data}, comments : {a.comments, c},
                   start : {a.start}, limit : {a.limit}]
  <2>1. a \in T
    BY <1>2 DEF IsNode
  <2>2. n = [a EXCEPT !.comments = c]
    OBVIOUS
  <2>3. c = [z \in CommentPlacement |-> c[z]] /\ c[slot] = t
    BY <1>2 DEF IsNode
  <2> HIDE DEF n, c
  <2>4. /\ n \in T /\ n.type = a.type /\ n.data = a.data /\ n.comments = c
        /\ n.start = a.start /\ n.limit = a.limit
    BY <2>1, <2>2
  <2>5. n = [type |-> n.type, data |-> n.data, comments |-> n.comments, start |-> n.start, limit |-> n.limit]
    BY <2>4
  <2> QED
    BY <1>2, <2>3, <2>4, <2>5 DEF IsNode
<1>4. IsTree(w) /\ w[<<>>] = a /\ Type(w) = a.type
  BY AtIsTree DEF Type, a
<1>5. /\ DOMAIN w = {q \in Path : p \o q \in DOMAIN v}
      /\ \A q \in DOMAIN w : w[q] = v[p \o q]
  BY <1>0, AtIs
<1> HIDE DEF s, w, n
<1>6. IsTree(y) /\ Filled(y) = Rerooted(Filled(w), n)
  BY <1>3, <1>4, RerootSeen
<1>7. DOMAIN y = DOMAIN w /\ \A q \in DOMAIN w : y[q] = IF q = <<>> THEN n ELSE w[q]
  BY DEF Rerooted
<1> HIDE DEF y
<1>8. Replaced(u, v, p, y)
  <2>1. DOMAIN y \subseteq Path
    BY <1>6 DEF IsTree
  <2> QED
    BY <1>0, <2>1, PutReplaces
<1>9. At(u, p) = y
  BY <1>6, PutIsTree
<1> HIDE DEF u
<1>10. ASSUME NEW r \in Path
       PROVE  /\ r \in DOMAIN u <=> r \in DOMAIN s
              /\ r \in DOMAIN s => u[r] = s[r]
  <2>1. CASE IsUnder(p, r)
    <3>1. PICK q \in Path : r = p \o q
      BY <1>0, <2>1, Split
    <3>2. r \in DOMAIN u <=> q \in DOMAIN w
      BY <1>7, <1>8, <3>1 DEF Replaced
    <3>3. q \in DOMAIN w <=> r \in DOMAIN s
      BY <1>1, <1>5, <3>1
    <3>4. r = p <=> q = <<>>
      <4>1. q = <<>> => r = p
        BY <1>0, <3>1, Nothing
      <4>2. Rest(p, r) = q /\ Rest(p, p) = <<>>
        BY <1>0, <3>1, Nothing, Joined
      <4> QED
        BY <4>1, <4>2
    <3>5. ASSUME q \in DOMAIN w PROVE u[r] = s[r]
      <4>1. u[r] = IF q = <<>> THEN n ELSE w[q]
        BY <1>7, <1>8, <3>1, <3>5 DEF Replaced
      <4>2. s[r] = IF r = p THEN n ELSE v[r]
        BY <1>1, <3>3, <3>5
      <4> QED
        BY <1>5, <3>1, <3>4, <3>5, <4>1, <4>2
    <3> QED
      BY <3>2, <3>3, <3>5
  <2>2. CASE ~IsUnder(p, r)
    <3>1. r # p
      BY <1>0, <2>2, Nothing
    <3> QED
      BY <1>1, <1>8, <2>2, <3>1 DEF Replaced
  <2> QED
    BY <2>1, <2>2
<1>11. s = u
  <2>1. /\ u = [r \in DOMAIN u |-> u[r]] /\ DOMAIN u \subseteq Path
        /\ s = [r \in DOMAIN s |-> s[r]] /\ DOMAIN s \subseteq Path
    BY <1>0, <1>1, <1>8 DEF Replaced
  <2>2. DOMAIN u = DOMAIN s
    BY <1>10, <2>1
  <2> QED
    BY <1>10, <2>1, <2>2
<1> DEFINE F == Filled(w)
           Y == Filled(y)
<1>12. F = [r \in DOMAIN F |-> F[r]] /\ <<>> \in DOMAIN F /\ F[<<>>] = a
  BY <1>4, FilledParts DEF Rooted
<1>13. Promise!Annotate(F, Y)
  <2>1. Y = Rerooted(F, n)
    BY <1>6
  <2> HIDE DEF F, Y
  <2>2. Y[<<>>].comments[slot] = t
    BY <1>3, <1>12, <2>1 DEF Rerooted
  <2>3. Y = [F EXCEPT ![<<>>] = n]
    BY <1>12, <2>1 DEF Rerooted
  <2>4. Y = [F EXCEPT ![<<>>].comments[slot] = Y[<<>>].comments[slot]]
    BY <1>12, <2>2, <2>3 DEF n
  <2>5. slot \in Promise!CommentPlacement
    BY DEF Promise!CommentPlacement, CommentPlacement
  <2> QED
    BY <2>4, <2>5 DEF Promise!Annotate
<1>14. s = Put(v, p, At(s, p)) /\ At(s, p) = y
  BY <1>9, <1>11 DEF u
<1> QED
  BY <1>6, <1>13, <1>14 DEF s, w

----------------------------------------------------------------------------
(* A call on a Value in the root is one on what a program sees of it. *)

LEMMA DropPut ==
    ASSUME NEW F, DOMAIN F \subseteq Path, NEW G, DOMAIN G \subseteq Path, NEW p \in Path
    PROVE  Drop(Put(F, p, G), p) = Drop(F, p)
<1> DEFINE u == Put(F, p, G)
<1>1. Replaced(u, F, p, G)
  BY PutReplaces
<1> HIDE DEF u
<1>2. DOMAIN u \ Under(u, p) = DOMAIN F \ Under(F, p)
  BY <1>1 DEF Replaced, Under
<1>3. \A r \in DOMAIN F \ Under(F, p) : u[r] = F[r]
  BY <1>1 DEF Replaced, Under
<1>4. Drop(u, p) = Drop(F, p)
  BY <1>2, <1>3 DEF Drop
<1> QED
  BY <1>4 DEF u

\* What becomes of the Value at p, as a program sees it; nothing else does.
LEMMA Edited ==
    ASSUME NEW v, IsTree(v), NEW x, IsTree(x), NEW p \in DOMAIN v
    PROVE  LET u == Put(v, p, x)
           IN /\ IsTree(u) /\ p \in DOMAIN Filled(v) /\ p \in DOMAIN Filled(u)
              /\ At(Filled(v), p) = Filled(At(v, p)) /\ At(Filled(u), p) = Filled(x)
              /\ Drop(Filled(u), p) = Drop(Filled(v), p)
<1> DEFINE u == Put(v, p, x)
<1>0. p \in Path
  BY DEF IsTree
<1>1. IsTree(u) /\ p \in DOMAIN u /\ At(u, p) = x
  BY PutIsTree
<1>2. DOMAIN Filled(v) \subseteq Path /\ DOMAIN Filled(x) \subseteq Path /\ p \in DOMAIN Filled(v)
  BY <1>0, FilledIs
<1>3. Filled(u) = Put(Filled(v), p, Filled(x))
  BY PutFilled
<1>4. Drop(Filled(u), p) = Drop(Filled(v), p)
  BY <1>0, <1>2, <1>3, DropPut
<1> HIDE DEF u
<1>5. p \in DOMAIN Filled(u) /\ At(Filled(u), p) = Filled(x)
  BY <1>0, <1>1, FilledIs, AtFilled
<1>6. At(Filled(v), p) = Filled(At(v, p))
  BY AtFilled
<1> QED
  BY <1>1, <1>2, <1>4, <1>5, <1>6 DEF u

\* What the promise allows to a call on v.
Called(v, v2, w, w2) ==
    \/ w2 = w /\ \/ Promise!Grow(v, size(v2), v2) \/ Promise!Clear(v, v2) \/ Promise!Annotate(v, v2)
                 \/ \E n \in 0 .. size(v) : Promise!Shrink(v, n, v2) \/ Promise!Insert(v, n, w, v2)
                 \/ \E name \in Keys(v2) : Promise!Name(v, name, v2)
                 \/ \E name \in Keys(v) : Promise!Forget(v, name, v2, Child(v, name))
    \/ \E i \in 0 .. size(v) - 1 : Promise!TakeOut(v, i, v2, w2)
    \/ \E name \in Keys(v) : Promise!Forget(v, name, v2, w2)
    \/ Promise!Exchange(v, v2, w, w2)

\* So a call on the Value at p is a step of the promise.
LEMMA CallSteps ==
    ASSUME NEW v, IsTree(v), NEW x, IsTree(x), NEW p \in DOMAIN v, NEW w, NEW w2,
           Called(Filled(At(v, p)), Filled(x), w, w2)
    PROVE  IsTree(Put(v, p, x)) /\ Promise!Step(Filled(v), Filled(Put(v, p, x)), w, w2)
<1> DEFINE u == Put(v, p, x)
           r == Filled(v)
           r2 == Filled(u)
<1>1. /\ IsTree(u) /\ p \in DOMAIN r \cap DOMAIN r2
      /\ Drop(r2, p) = Drop(r, p) /\ At(r, p) = Filled(At(v, p)) /\ At(r2, p) = Filled(x)
  BY Edited
<1> HIDE DEF u
<1>2. Called(At(r, p), At(r2, p), w, w2)
  BY <1>1
<1> HIDE DEF r, r2
<1> DEFINE a == At(r, p)
           b == At(r2, p)
<1>3. Promise!Drop(r2, p) = Promise!Drop(r, p) /\ Promise!At(r, p) = a /\ Promise!At(r2, p) = b
  BY <1>1, PromiseTree
<1> HIDE DEF a, b
<1>4. /\ Promise!size(a) = size(a) /\ Promise!size(b) = size(b)
      /\ Promise!Keys(a) = Keys(a) /\ Promise!Keys(b) = Keys(b)
      /\ \A k : Promise!Child(a, k) = Child(a, k)
  BY PromiseTree
<1>5. Called(a, b, w, w2)
  BY <1>2 DEF a, b
<1>6. Promise!Step(r, r2, w, w2)
  BY <1>1, <1>3, <1>4, <1>5 DEF Promise!Step, Called
<1> QED
  BY <1>1, <1>6 DEF u, r, r2

----------------------------------------------------------------------------
(* The invariant and the steps. *)

\* All that a program holds is a tree of Values: what every operation needs
\* of the Value it is called on, and leaves.
Trees == IsTree(root) /\ IsTree(other)

\* A step leaves trees, and does what the promise says or nothing; one that
\* is not honoured changes only the Value it is made on.
Kept ==
    /\ IsTree(root') /\ IsTree(other')
    /\ \/ UNCHANGED <<root, other>>
       \/ Promise!Step(Filled(root), Filled(root'), Filled(other), Filled(other'))
       \/ ~honoured' /\ Promise!Astray(Filled(root), Filled(root'), Filled(other), Filled(other'))

\* An action that does what the promise says of a call,
LEMMA EditSteps ==
    ASSUME Trees, NEW p \in DOMAIN root, NEW x, IsTree(x), root' = Put(root, p, x), IsTree(other'),
           Called(Filled(At(root, p)), Filled(x), Filled(other), Filled(other'))
    PROVE  Kept
<1>1. IsTree(root) /\ root' = Put(root, p, x)
  BY DEF Trees
<1>2. /\ IsTree(Put(root, p, x))
      /\ Promise!Step(Filled(root), Filled(Put(root, p, x)), Filled(other), Filled(other'))
  BY <1>1, CallSteps
<1> QED
  BY <1>1, <1>2 DEF Kept

\* or that leaves the Value it is called on,
LEMMA EditStutters ==
    ASSUME Trees, NEW p \in DOMAIN root, NEW x, x = At(root, p), root' = Put(root, p, x), UNCHANGED other
    PROVE  Kept
<1>1. root' = root
  BY PutBack DEF Trees
<1> QED
  BY <1>1 DEF Kept, Trees

\* or that is not honoured.
LEMMA GoesAstray ==
    ASSUME Trees, NEW p \in DOMAIN root, NEW x, IsTree(x), root' = Put(root, p, x), ~honoured',
           IsTree(other'), other' = other \/ \E q \in DOMAIN root : other' = At(root, q)
    PROVE  Kept
<1> DEFINE r == Filled(root)
           u == Put(root, p, x)
           r2 == Filled(u)
           w == Filled(other)
           w2 == Filled(other')
<1>1. IsTree(root) /\ root' = u
  BY DEF Trees
<1>2. IsTree(u) /\ p \in DOMAIN r \cap DOMAIN r2 /\ Drop(r2, p) = Drop(r, p)
  BY <1>1, Edited
<1>3. w2 = w \/ \E q \in DOMAIN r : w2 = At(r, q)
  <2>1. ASSUME NEW q \in DOMAIN root, other' = At(root, q)
        PROVE  q \in DOMAIN r /\ w2 = At(r, q)
    <3>1. q \in Path
      BY <1>1 DEF IsTree
    <3> QED
      BY <1>1, <2>1, <3>1, FilledIs, AtFilled
  <2> QED
    BY <2>1
<1> HIDE DEF r, u, r2, w, w2
<1>4. Promise!Astray(r, r2, w, w2)
  BY <1>2, <1>3, PromiseTree DEF Promise!Astray
<1>5. r2 = Filled(root') /\ IsTree(root')
  BY <1>1, <1>2 DEF r2
<1> QED
  BY <1>4, <1>5 DEF Kept, r, w, w2

\* What it is called on is a tree.
LEMMA ValueAt ==
    ASSUME Trees, NEW p \in DOMAIN root
    PROVE  IsTree(At(root, p)) /\ IsTree(other)
BY AtIsTree DEF Trees

\* operator[] with an index.
LEMMA ReachElementKeeps ==
    ASSUME Trees, NEW p \in DOMAIN root, NEW i \in Nat, ReachElement(p, i) PROVE Kept
<1> DEFINE v == At(root, p)
           x == Element(v, i)
<1>0. /\ IsTree(v) /\ IsTree(other) /\ Allows(v, "array") /\ root' = Put(root, p, x) /\ other' = other
  BY ValueAt DEF ReachElement, Edit, EditIf
<1> HIDE DEF v
<1>1. ArrayFor(x, v) /\ Promise!Grow(Filled(v), size(x), Filled(x))
  BY <1>0, ElementGrows
<1> HIDE DEF x
<1>2. IsTree(x) /\ Allows(x, "array")
  BY <1>1 DEF ArrayFor, Allows
<1>3. size(Filled(x)) = size(x)
  BY <1>2, ItemsSeen
<1>4. Called(Filled(v), Filled(x), Filled(other), Filled(other'))
  BY <1>0, <1>1, <1>3 DEF Called
<1> QED
  BY <1>0, <1>2, <1>4, EditSteps DEF v

\* resize, either way.
LEMMA ResizeKeeps ==
    ASSUME Trees, NEW p \in DOMAIN root, NEW n \in Nat, Resize(p, n) PROVE Kept
<1> DEFINE v == At(root, p)
           x == resize(v, n)
<1>0. /\ IsTree(v) /\ IsTree(other) /\ Allows(v, "array") /\ root' = Put(root, p, x) /\ other' = other
      /\ honoured' = ~resizeThrows(v, n)
  BY ValueAt DEF Resize, EditIf
<1> HIDE DEF v
<1>1. size(v) \in Nat /\ size(Filled(v)) = size(v)
  BY <1>0, SizeOfArray, ItemsSeen
<1>2. CASE n > size(v)
  <2>1. ArrayFor(x, v) /\ Promise!Grow(Filled(v), size(x), Filled(x))
    BY <1>0, <1>2, ResizeGrows
  <2> HIDE DEF x
  <2>2. IsTree(x) /\ Allows(x, "array")
    BY <2>1 DEF ArrayFor, Allows
  <2>3. size(Filled(x)) = size(x)
    BY <2>2, ItemsSeen
  <2>4. Called(Filled(v), Filled(x), Filled(other), Filled(other'))
    BY <1>0, <2>1, <2>3 DEF Called
  <2> QED
    BY <1>0, <2>2, <2>4, EditSteps DEF v
<1>3. CASE n <= size(v)
  <2>1. /\ ArrayFor(x, v) /\ size(x) <= n
        /\ size(x) = n => Promise!Shrink(Filled(v), n, Filled(x))
    BY <1>0, <1>3, ResizeShrinks
  <2>2. IsTree(x) /\ size(x) \in Nat
    BY <2>1, ArrayKeys DEF ArrayFor
  <2>3. CASE size(x) = n
    <3> HIDE DEF x
    <3>1. n \in 0 .. size(Filled(v))
      BY <1>1, <1>3
    <3>2. Called(Filled(v), Filled(x), Filled(other), Filled(other'))
      BY <1>0, <2>1, <2>3, <3>1 DEF Called
    <3> QED
      BY <1>0, <2>2, <3>2, EditSteps DEF v
  <2>4. CASE size(x) # n
    <3>1. resizeThrows(v, n)
      BY <1>3, <2>1, <2>2, <2>4 DEF resizeThrows
    <3> HIDE DEF x
    <3> QED
      BY <1>0, <2>2, <3>1, GoesAstray
  <2> QED
    BY <2>3, <2>4
<1> QED
  BY <1>1, <1>2, <1>3

\* append.
LEMMA AppendKeeps ==
    ASSUME Trees, NEW p \in DOMAIN root, Append_(p) PROVE Kept
<1> DEFINE v == At(root, p)
           x == append(v, other)
<1>0. /\ IsTree(v) /\ IsTree(other) /\ Allows(v, "array") /\ root' = Put(root, p, x) /\ other' = other
  BY ValueAt DEF Append_, Edit, EditIf
<1> HIDE DEF v
<1>1. ArrayFor(x, v) /\ Promise!Insert(Filled(v), size(v), Filled(other), Filled(x))
  BY <1>0, AppendInserts
<1> HIDE DEF x
<1>2. IsTree(x) /\ size(v) \in Nat /\ size(Filled(v)) = size(v)
  BY <1>0, <1>1, SizeOfArray, ItemsSeen DEF ArrayFor
<1>3. size(v) \in 0 .. size(Filled(v))
  BY <1>2
<1>4. Called(Filled(v), Filled(x), Filled(other), Filled(other'))
  BY <1>0, <1>1, <1>3 DEF Called
<1> QED
  BY <1>0, <1>2, <1>4, EditSteps DEF v

\* insert, and an insert that returns false.
LEMMA InsertKeeps ==
    ASSUME Trees, NEW p \in DOMAIN root, NEW i \in Nat, Insert(p, i) PROVE Kept
<1> DEFINE v == At(root, p)
           x == insert(v, i, other)
<1>0. /\ IsTree(v) /\ IsTree(other) /\ Allows(v, "array") /\ root' = Put(root, p, x) /\ other' = other
  BY ValueAt DEF Insert, Edit, EditIf
<1>1. CASE insertFails(v, i)
  <2>1. x = v
    BY <1>1 DEF insert
  <2> QED
    BY <1>0, <2>1, EditStutters
<1> HIDE DEF v
<1>2. CASE ~insertFails(v, i)
  <2>1. ArrayFor(x, v) /\ i <= size(v) /\ Promise!Insert(Filled(v), i, Filled(other), Filled(x))
    BY <1>0, <1>2, InsertInserts
  <2> HIDE DEF x
  <2>2. IsTree(x) /\ size(v) \in Nat /\ size(Filled(v)) = size(v)
    BY <1>0, <2>1, SizeOfArray, ItemsSeen DEF ArrayFor
  <2>3. i \in 0 .. size(Filled(v))
    BY <2>1, <2>2
  <2>4. Called(Filled(v), Filled(x), Filled(other), Filled(other'))
    BY <1>0, <2>1, <2>3 DEF Called
  <2> QED
    BY <1>0, <2>2, <2>4, EditSteps DEF v
<1> QED
  BY <1>1, <1>2

\* What a caller is handed is a tree.
LEMMA ChildIsTree ==
    ASSUME NEW v, IsTree(v), NEW k \in Keys(v)
    PROVE  IsTree(Child(v, k))
<1>1. <<k>> \in DOMAIN v
  BY KeysAre DEF IsTree
<1> QED
  BY <1>1, AtIsTree DEF Child

\* removeIndex, and one that returns false.
LEMMA RemoveIndexKeeps ==
    ASSUME Trees, NEW p \in DOMAIN root, NEW i \in Nat, RemoveIndex(p, i) PROVE Kept
<1> DEFINE v == At(root, p)
           x == removeIndex(v, i)
<1>0. /\ IsTree(v) /\ IsTree(other) /\ root' = Put(root, p, x)
      /\ other' = IF removeIndexFails(v, i) THEN other ELSE Child(v, <<i>>)
      /\ honoured' = RemovesOne(v, i)
  BY ValueAt DEF RemoveIndex, EditIf
<1>1. CASE removeIndexFails(v, i)
  <2>1. x = v /\ other' = other
    BY <1>0, <1>1 DEF removeIndex
  <2> QED
    BY <1>0, <2>1, EditStutters
<1>2. CASE ~removeIndexFails(v, i)
  <2>1. /\ ArrayFor(x, v) /\ i \in 0 .. size(v) - 1 /\ <<i>> \in Keys(v) /\ Type(v) = "array"
        /\ size(x) = size(v) - 1 =>
             Promise!TakeOut(Filled(v), i, Filled(x), Filled(Child(v, <<i>>)))
    BY <1>0, <1>2, RemoveTakesOut
  <2>2. IsTree(x) /\ Allows(v, "array")
    BY <2>1 DEF ArrayFor, Allows
  <2>3. size(Filled(v)) = size(v)
    BY <1>0, <2>2, ItemsSeen
  <2>4. other' = Child(v, <<i>>) /\ IsTree(other')
    BY <1>0, <1>2, <2>1, ChildIsTree
  <2>5. CASE size(x) = size(v) - 1
    <3> HIDE DEF x, v
    <3>1. Called(Filled(v), Filled(x), Filled(other), Filled(other'))
      BY <2>1, <2>3, <2>4, <2>5 DEF Called
    <3> QED
      BY <1>0, <2>2, <2>4, <3>1, EditSteps DEF v
  <2>6. CASE size(x) # size(v) - 1
    <3>1. ~honoured'
      BY <1>0, <1>2, <2>6 DEF RemovesOne
    <3>2. p \o <<<<i>>>> \in DOMAIN root /\ other' = At(root, p \o <<<<i>>>>)
      <4>1. /\ <<<<i>>>> \in DOMAIN v /\ DOMAIN v \subseteq Path
            /\ p \in Path /\ DOMAIN root \subseteq Path
        BY <1>0, <2>1, KeysAre DEF IsTree, Trees
      <4>2. PICK q \in Path : q = <<<<i>>>>
        BY <4>1
      <4>3. At(At(root, p), q) = At(root, p \o q)
        BY <4>1, AtAt
      <4>4. p \o q \in DOMAIN root
        <5>1. DOMAIN At(root, p) = {r \in Path : p \o r \in DOMAIN root}
          BY <4>1, AtIs
        <5> QED
          BY <4>1, <4>2, <5>1
      <4> QED
        BY <2>4, <4>2, <4>3, <4>4 DEF Child
    <3> HIDE DEF x, v
    <3> QED
      BY <1>0, <2>2, <2>4, <3>1, <3>2, GoesAstray
  <2> QED
    BY <2>5, <2>6
<1> QED
  BY <1>1, <1>2

\* operator[] with a name.
LEMMA ReachMemberKeeps ==
    ASSUME Trees, NEW p \in DOMAIN root, NEW name \in Seq(0 .. 255), ReachMember(p, name) PROVE Kept
<1> DEFINE v == At(root, p)
           x == resolveReference(v, name)
<1>0. /\ IsTree(v) /\ IsTree(other) /\ Allows(v, "object") /\ root' = Put(root, p, x) /\ other' = other
  BY ValueAt DEF ReachMember, Edit, EditIf
<1> HIDE DEF v
<1>1. /\ IsTree(x) /\ name \in Keys(Filled(x))
      /\ Promise!Name(Filled(v), name, Filled(x))
  BY <1>0, ReferenceNames
<1> HIDE DEF x
<1>2. Called(Filled(v), Filled(x), Filled(other), Filled(other'))
  BY <1>0, <1>1 DEF Called
<1> QED
  BY <1>0, <1>1, <1>2, EditSteps DEF v

\* removeMember that hands out the member.
LEMMA TakeMemberKeeps ==
    ASSUME Trees, NEW p \in DOMAIN root, NEW name, TakeMember(p, name) PROVE Kept
<1> DEFINE v == At(root, p)
           x == removeMember(v, name)
<1>0. /\ IsTree(v) /\ IsTree(other) /\ isMember(v, name) /\ root' = Put(root, p, x) /\ other' = Child(v, name)
  BY ValueAt DEF TakeMember, Edit, EditIf
<1> HIDE DEF v
<1>1. /\ IsTree(x) /\ name \in Keys(Filled(v)) /\ name \in Keys(v)
      /\ Promise!Forget(Filled(v), name, Filled(x), Filled(Child(v, name)))
  BY <1>0, RemoveForgets
<1> HIDE DEF x
<1>2. IsTree(other')
  BY <1>0, <1>1, ChildIsTree
<1>3. Called(Filled(v), Filled(x), Filled(other), Filled(other'))
  BY <1>0, <1>1 DEF Called
<1> QED
  BY <1>0, <1>1, <1>2, <1>3, EditSteps DEF v

\* removeMember that does not: of another name it is a call that goes astray.
LEMMA RemoveMemberKeeps ==
    ASSUME Trees, NEW p \in DOMAIN root, NEW name, RemoveMember(p, name) PROVE Kept
<1> DEFINE v == At(root, p)
           m == CString(name)
           x == removeMember(v, m)
<1>0. /\ IsTree(v) /\ IsTree(other) /\ root' = Put(root, p, x) /\ other' = other
  BY ValueAt DEF RemoveMember, EditIf, removeCString
<1> HIDE DEF m
<1>1. CASE ~isMember(v, m)
  <2>1. x = v
    BY <1>1 DEF removeMember
  <2> QED
    BY <1>0, <2>1, EditStutters
<1> HIDE DEF v
<1>2. CASE isMember(v, m)
  <2>1. /\ IsTree(x) /\ m \in Keys(Filled(v))
        /\ Child(Filled(v), m) = Filled(Child(v, m))
        /\ Promise!Forget(Filled(v), m, Filled(x), Filled(Child(v, m)))
    BY <1>0, <1>2, RemoveForgets
  <2> HIDE DEF x
  <2>2. Called(Filled(v), Filled(x), Filled(other), Filled(other'))
    BY <1>0, <2>1 DEF Called
  <2> QED
    BY <1>0, <2>1, <2>2, EditSteps DEF v
<1> QED
  BY <1>1, <1>2

\* clear.
LEMMA ClearKeeps ==
    ASSUME Trees, NEW p \in DOMAIN root, Clear(p) PROVE Kept
<1> DEFINE v == At(root, p)
           x == clear(v)
<1>0. /\ IsTree(v) /\ IsTree(other) /\ root' = Put(root, p, x) /\ other' = other
      /\ Type(v) \in {"null", "array", "object"}
  BY ValueAt DEF Clear, Allows, Edit, EditIf
<1> HIDE DEF v
<1>1. IsTree(x) /\ Promise!Clear(Filled(v), Filled(x))
  BY <1>0, ClearClears
<1> HIDE DEF x
<1>2. Called(Filled(v), Filled(x), Filled(other), Filled(other'))
  BY <1>0, <1>1 DEF Called
<1> QED
  BY <1>0, <1>1, <1>2, EditSteps DEF v

\* An exchange of two Values is what the promise calls one.
LEMMA Exchanged ==
    ASSUME NEW v, NEW v2, NEW w, NEW w2,
           \/ v2 = w /\ w2 \in {w, v}
           \/ v2 = WithPayload(v, w) /\ w2 \in {w, WithPayload(w, v)}
    PROVE  Called(v, v2, w, w2)
<1>1. Promise!Exchange(v, v2, w, w2)
  BY PromiseTree DEF Promise!Exchange
<1> QED
  BY <1>1 DEF Called

\* operator= and swap.
LEMMA CopyInOrSwapKeeps ==
    ASSUME Trees, NEW p \in DOMAIN root, CopyIn(p) \/ Swap(p) PROVE Kept
<1> DEFINE v == At(root, p)
<1>0. /\ IsTree(v) /\ IsTree(other) /\ root' = Put(root, p, other) /\ other' \in {other, v}
  BY ValueAt DEF CopyIn, Swap, Edit, EditIf
<1> HIDE DEF v
<1>1. Filled(other') \in {Filled(other), Filled(v)} /\ IsTree(other')
  BY <1>0
<1>2. Called(Filled(v), Filled(other), Filled(other), Filled(other'))
  BY <1>1, Exchanged
<1> QED
  BY <1>0, <1>1, <1>2, EditSteps DEF v

\* copyPayload and swapPayload.
LEMMA PayloadKeeps ==
    ASSUME Trees, NEW p \in DOMAIN root, CopyPayload(p) \/ SwapPayload(p) PROVE Kept
<1> DEFINE v == At(root, p)
           x == WithPayload(v, other)
           y == WithPayload(other, v)
<1>0. /\ IsTree(v) /\ IsTree(other) /\ root' = Put(root, p, x) /\ other' \in {other, y}
  BY ValueAt DEF CopyPayload, SwapPayload, Edit, EditIf
<1> HIDE DEF v
<1>1. /\ IsTree(x) /\ Filled(x) = WithPayload(Filled(v), Filled(other))
      /\ IsTree(y) /\ Filled(y) = WithPayload(Filled(other), Filled(v))
  BY <1>0, PayloadSeen
<1> HIDE DEF x, y
<1>2. Filled(other') \in {Filled(other), Filled(y)} /\ IsTree(other')
  BY <1>0, <1>1
<1>3. Called(Filled(v), Filled(x), Filled(other), Filled(other'))
  BY <1>1, <1>2, Exchanged
<1> QED
  BY <1>0, <1>1, <1>2, <1>3, EditSteps DEF v

\* setComment.
LEMMA SetCommentKeeps ==
    ASSUME Trees, NEW p \in DOMAIN root, NEW text, NEW slot \in CommentPlacement,
           SetComment(p, text, slot)
    PROVE  Kept
<1> DEFINE v == At(root, p)
           x == At(setComment(root, p, text, slot), p)
<1>0. IsTree(root) /\ IsTree(other) /\ root' = setComment(root, p, text, slot) /\ other' = other
  BY DEF Trees, SetComment
<1>1. /\ IsTree(x) /\ setComment(root, p, text, slot) = Put(root, p, x)
      /\ Promise!Annotate(Filled(v), Filled(x))
  BY <1>0, CommentIs
<1> HIDE DEF v, x
<1>2. root' = Put(root, p, x)
  BY <1>0, <1>1
<1>3. Called(Filled(v), Filled(x), Filled(other), Filled(other'))
  BY <1>0, <1>1 DEF Called
<1> QED
  BY <1>0, <1>1, <1>2, <1>3, EditSteps DEF v

\* A Value without children that a program has made.
LEMMA ScalarIs ==
    ASSUME NEW v \in Scalars
    PROVE  IsTree(v) /\ Filled(v) = v /\ DOMAIN v = {<<>>}
<1>1. v = [p \in {<<>>} |-> v[<<>>]] /\ IsNode(v[<<>>])
  BY DocumentAssumption
<1>2. v = [p \in {<<>>} |-> v[p]] /\ DOMAIN v = {<<>>}
  BY <1>1
<1>3. IsTree(v) /\ Keys(v) = {}
  BY <1>1, <1>2, Leaf
<1> QED
  BY <1>2, <1>3, FilledLeaf

\* A Value that a program makes.
LEMMA FetchKeeps == ASSUME Trees, Fetch PROVE Kept
<1>1. other' \in Scalars /\ root' = root
  BY DEF Fetch
<1>2. IsTree(other') /\ DOMAIN Filled(other') = {<<>>}
  BY <1>1, ScalarIs
<1>3. Promise!Step(Filled(root), Filled(root'), Filled(other), Filled(other'))
  BY <1>1, <1>2 DEF Promise!Step
<1> QED
  BY <1>1, <1>2, <1>3 DEF Kept, Trees

\* A copy of any Value inside the root.
LEMMA CopyOutKeeps == ASSUME Trees, NEW p \in DOMAIN root, CopyOut(p) PROVE Kept
<1> DEFINE F == Filled(root)
<1>0. other' = At(root, p) /\ root' = root /\ IsTree(root)
  BY DEF CopyOut, Trees
<1>1. IsTree(other')
  BY <1>0, AtIsTree
<1>2. p \in DOMAIN F /\ Promise!At(F, p) = Filled(other')
  <2>1. p \in Path
    BY <1>0 DEF IsTree
  <2>2. p \in DOMAIN F
    BY <1>0, <2>1, FilledIs
  <2>3. At(F, p) = Filled(other')
    BY <1>0, AtFilled
  <2> QED
    BY <2>2, <2>3, PromiseTree
<1>3. Promise!Step(F, Filled(root'), Filled(other), Filled(other'))
  BY <1>0, <1>2 DEF Promise!Step
<1> QED
  BY <1>0, <1>1, <1>3 DEF Kept

\* Every step.
LEMMA NextKeeps ==
    ASSUME Trees, [Next]_vars
    PROVE  Kept
<1>0. Indices \subseteq Nat /\ Names \subseteq Seq(0 .. 255) /\ Slots \subseteq CommentPlacement
  BY DocumentAssumption
<1>1. CASE UNCHANGED vars
  BY <1>1 DEF Kept, Trees, vars
<1>2. CASE Fetch
  BY <1>2, FetchKeeps
<1>3. ASSUME NEW p \in DOMAIN root, NEW i \in Indices,
             ReachElement(p, i) \/ Resize(p, i) \/ Insert(p, i) \/ RemoveIndex(p, i)
      PROVE  Kept
  BY <1>0, <1>3, ReachElementKeeps, ResizeKeeps, InsertKeeps, RemoveIndexKeeps
<1>4. ASSUME NEW p \in DOMAIN root, NEW name \in Names,
             ReachMember(p, name) \/ TakeMember(p, name) \/ RemoveMember(p, name)
      PROVE  Kept
  BY <1>0, <1>4, ReachMemberKeeps, TakeMemberKeeps, RemoveMemberKeeps
<1>5. ASSUME NEW p \in DOMAIN root, NEW text \in Remarks, NEW slot \in Slots,
             SetComment(p, text, slot)
      PROVE  Kept
  BY <1>0, <1>5, SetCommentKeeps
<1>6. ASSUME NEW p \in DOMAIN root,
             \/ Append_(p) \/ Clear(p) \/ CopyIn(p) \/ CopyOut(p) \/ Swap(p)
             \/ CopyPayload(p) \/ SwapPayload(p)
      PROVE  Kept
  BY <1>6, AppendKeeps, ClearKeeps, CopyInOrSwapKeeps, CopyOutKeeps, PayloadKeeps
<1> QED
  BY <1>1, <1>2, <1>3, <1>4, <1>5, <1>6 DEF Next

----------------------------------------------------------------------------
(* The theorems. *)

\* Type correctness: whatever a program does, what it holds are trees of
\* Values, each in one that can hold it (WellFormed), with a proper node.
THEOREM TreesTheorem == Spec => []Trees
<1>1. Init => Trees
  BY NullIs DEF Init, Trees
<1>2. Trees /\ [Next]_vars => Trees'
  <2> SUFFICES ASSUME Trees, [Next]_vars PROVE Trees'
    OBVIOUS
  <2>1. Kept
    BY NextKeeps
  <2> QED
    BY <2>1 DEF Kept, Trees
<1> QED
  BY <1>1, <1>2, PTL DEF Spec

\* The operations of Value do what value.h says of them: whatever a program
\* does to the trees of maps, it sees sequences without gaps and maps, and no
\* call changes a Value above, below or beside the one it is made on.
THEOREM ImplementsPromiseTheorem == Spec => ImplementsPromise
<1>1. Init => Promise!Init
  BY FilledNull, PromiseTree DEF Init, Promise!Init
<1>2. Trees /\ [Next]_vars => [Promise!Next]_<<Filled(root), Filled(other)>>
  <2> SUFFICES ASSUME Trees, [Next]_vars
               PROVE  Promise!Next \/ UNCHANGED <<Filled(root), Filled(other)>>
    OBVIOUS
  <2>1. Kept
    BY NextKeeps
  <2> QED
    BY <2>1 DEF Kept, Promise!Next
<1> QED
  BY <1>1, <1>2, TreesTheorem, PTL DEF Spec, ImplementsPromise, Promise!Spec

\* What any call on a Value promises, it keeps.
LEMMA CallsKeep ==
    ASSUME NEW v, IsTree(v), NEW w, IsTree(w)
    PROVE  LET F == Filled(v)
           IN /\ Allows(v, "array") =>
                  /\ Promise!Insert(F, size(v), Filled(w), Filled(append(v, w)))
                  /\ \A i \in Indices :
                        /\ Promise!Grow(F, i + 1, Filled(Element(v, i)))
                        /\ i > size(v) => Promise!Grow(F, i, Filled(resize(v, i)))
                        /\ i <= size(v) /\ ~resizeThrows(v, i) =>
                             Promise!Shrink(F, i, Filled(resize(v, i)))
                        /\ ~insertFails(v, i) =>
                             Promise!Insert(F, i, Filled(w), Filled(insert(v, i, w)))
                        /\ ~removeIndexFails(v, i) /\ RemovesOne(v, i) =>
                             Promise!TakeOut(F, i, Filled(removeIndex(v, i)), Filled(Child(v, <<i>>)))
              /\ Allows(v, "object") =>
                  \A name \in Names :
                     /\ Promise!Name(F, name, Filled(resolveReference(v, name)))
                     /\ isMember(v, name) =>
                          Promise!Forget(F, name, Filled(removeMember(v, name)), Filled(Child(v, name)))
<1>0. Indices \subseteq Nat /\ Names \subseteq Seq(0 .. 255)
  BY DocumentAssumption
<1>1. ASSUME Allows(v, "array")
      PROVE  Promise!Insert(Filled(v), size(v), Filled(w), Filled(append(v, w)))
  BY <1>1, AppendInserts
<1>2. ASSUME Allows(v, "array"), NEW i \in Indices
      PROVE  /\ Promise!Grow(Filled(v), i + 1, Filled(Element(v, i)))
             /\ i > size(v) => Promise!Grow(Filled(v), i, Filled(resize(v, i)))
             /\ i <= size(v) /\ ~resizeThrows(v, i) =>
                  Promise!Shrink(Filled(v), i, Filled(resize(v, i)))
             /\ ~insertFails(v, i) =>
                  Promise!Insert(Filled(v), i, Filled(w), Filled(insert(v, i, w)))
             /\ ~removeIndexFails(v, i) /\ RemovesOne(v, i) =>
                  Promise!TakeOut(Filled(v), i, Filled(removeIndex(v, i)), Filled(Child(v, <<i>>)))
  <2>1. i \in Nat /\ size(v) \in Nat
    BY <1>0, <1>2, SizeOfArray
  <2>2. Promise!Grow(Filled(v), i + 1, Filled(Element(v, i)))
    BY <1>2, <2>1, ElementGrows
  <2>3. ASSUME i <= size(v), ~resizeThrows(v, i) PROVE Promise!Shrink(Filled(v), i, Filled(resize(v, i)))
    <3>1. /\ ArrayFor(resize(v, i), v) /\ size(resize(v, i)) <= i
          /\ size(resize(v, i)) = i => Promise!Shrink(Filled(v), i, Filled(resize(v, i)))
      BY <1>2, <2>1, <2>3, ResizeShrinks
    <3>2. size(resize(v, i)) = i
      <4>1. size(resize(v, i)) \in Nat
        BY <3>1, ArrayKeys DEF ArrayFor
      <4>2. i = 0 \/ size(resize(v, i)) = i
        BY <2>3 DEF resizeThrows
      <4> QED
        BY <2>1, <3>1, <4>1, <4>2
    <3> QED
      BY <3>1, <3>2
  <2>4. ASSUME i > size(v) PROVE Promise!Grow(Filled(v), i, Filled(resize(v, i)))
    BY <1>2, <2>1, <2>4, ResizeGrows
  <2>5. ASSUME ~insertFails(v, i)
        PROVE  Promise!Insert(Filled(v), i, Filled(w), Filled(insert(v, i, w)))
    BY <1>2, <2>1, <2>5, InsertInserts
  <2>6. ASSUME ~removeIndexFails(v, i), RemovesOne(v, i)
        PROVE  Promise!TakeOut(Filled(v), i, Filled(removeIndex(v, i)), Filled(Child(v, <<i>>)))
    <3>1. size(removeIndex(v, i)) = size(v) - 1
      BY <2>6 DEF RemovesOne
    <3> QED
      BY <2>1, <2>6, <3>1, RemoveTakesOut
  <2> QED
    BY <2>2, <2>3, <2>4, <2>5, <2>6, Zenon
<1>3. ASSUME Allows(v, "object"), NEW name \in Names
      PROVE  /\ Promise!Name(Filled(v), name, Filled(resolveReference(v, name)))
             /\ isMember(v, name) =>
                  Promise!Forget(Filled(v), name, Filled(removeMember(v, name)), Filled(Child(v, name)))
  <2>1. Promise!Name(Filled(v), name, Filled(resolveReference(v, name)))
    BY <1>0, <1>3, ReferenceNames
  <2>2. ASSUME isMember(v, name)
        PROVE  Promise!Forget(Filled(v), name, Filled(removeMember(v, name)), Filled(Child(v, name)))
    BY <2>2, RemoveForgets
  <2> QED
    BY <2>1, <2>2
<1> QED
  BY <1>1, <1>2, <1>3

\* And so for any Value a program can come to: the operations keep their
\* promises there, whether or not the program calls them.
THEOREM EachCallKeepsItsPromiseTheorem == Spec => []EachCallKeepsItsPromise
<1>1. Trees => EachCallKeepsItsPromise
  <2> SUFFICES ASSUME Trees PROVE EachCallKeepsItsPromise
    OBVIOUS
  <2>1. IsTree(root) /\ IsTree(other) /\ WellFormed(root) /\ WellFormed(other)
    BY DEF Trees, IsTree
  <2>2. \A v \in Inside : IsTree(v)
    BY <2>1, AtIsTree DEF Inside
  <2> QED
    BY <2>1, <2>2, CallsKeep DEF EachCallKeepsItsPromise
<1> QED
  BY <1>1, TreesTheorem, PTL
=============================================================================
