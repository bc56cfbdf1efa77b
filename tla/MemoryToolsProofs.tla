------------------------ MODULE MemoryToolsProofs ------------------------
(***************************************************************************)
(* Theorems about the requests of MemoryTools, for any set of requests,    *)
(* any number of them that wait, any pages and values, and whatever the    *)
(* target does.                                                            *)
(*                                                                         *)
(* Paced is the inductive invariant of the connection: as long as every    *)
(* read brought one request, what is on the wire are the pieces of those   *)
(* that wait; while one is being handled, it is the first of them,         *)
(* inputBuffer holds its pieces and nothing else, and the wire those of    *)
(* the others.                                                             *)
(*                                                                         *)
(* SInv is that of the searches.  Its heart is RightOn: what a task has    *)
(* found on its page, at every moment, are the addresses it has looked at  *)
(* and that pass.  PoolInv says that at the end of the busy loop no task   *)
(* is left, and so every page was looked through.                          *)
(***************************************************************************)
EXTENDS MemoryTools, SequenceTheorems, FiniteSetTheorems, TLAPS
-----------------------------------------------------------------------------
(* The connection.                                                         *)

Piece == [of : Requests, part : 1 .. 2]

HttpTypes == /\ wire \in Seq(Piece) /\ inputBuffer \in Seq(Piece)
             /\ waiting \in Seq(Requests) /\ len \in Nat

\* The pieces in w are those of the requests in q, in their order.
PiecesOf(w, q) ==
    /\ Len(w) = 2 * Len(q)
    /\ \A i \in 1 .. Len(q) : /\ w[2 * i - 1] = [of |-> q[i], part |-> 1]
                              /\ w[2 * i]     = [of |-> q[i], part |-> 2]

Paced ==
    paced =>
        /\ pc = "poll" => inputBuffer = <<>> /\ PiecesOf(wire, waiting)
        /\ pc \notin {"poll", "crashed"} =>
              /\ waiting # <<>> /\ request = waiting[1]
              /\ len = 2 /\ Len(inputBuffer) = 2
              /\ PiecesOf(wire, Tail(waiting))

HInv == HttpTypes /\ Paced

\* Nothing was asked for yet.
LEMMA InitHInv == Init => HInv
BY DEF Init, HttpInit, HInv, HttpTypes, Paced, PiecesOf

\* One more request is two more pieces.
LEMMA PiecesAppend ==
    ASSUME NEW w \in Seq(Piece), NEW q \in Seq(Requests), NEW r \in Requests, PiecesOf(w, q)
    PROVE  PiecesOf(w \o Pieces(r), Append(q, r))
<1> DEFINE v == w \o Pieces(r)
<1>1. Pieces(r) \in Seq(Piece) /\ Len(Pieces(r)) = 2
      /\ Pieces(r)[1] = [of |-> r, part |-> 1] /\ Pieces(r)[2] = [of |-> r, part |-> 2]
  BY DEF Pieces, Piece
<1>2. /\ Len(v) = Len(w) + 2 /\ \A k \in 1 .. Len(w) : v[k] = w[k]
      /\ v[Len(w) + 1] = Pieces(r)[1] /\ v[Len(w) + 2] = Pieces(r)[2]
  <2>1. /\ Len(v) = Len(w) + 2 /\ Len(w) \in Nat
        /\ \A k \in 1 .. Len(w) + 2 : v[k] = IF k <= Len(w) THEN w[k] ELSE Pieces(r)[k - Len(w)]
    <3> DEFINE s == Pieces(r)
    <3> HIDE DEF s
    <3>1. s \in Seq(Piece) /\ Len(s) = 2
      BY <1>1 DEF s
    <3>2. /\ Len(w \o s) = Len(w) + Len(s) /\ Len(w) \in Nat
          /\ \A k \in 1 .. Len(w) + Len(s) : (w \o s)[k] = IF k <= Len(w) THEN w[k] ELSE s[k - Len(w)]
      <4>1. Len(w \o s) = Len(w) + Len(s)
        BY <3>1, ConcatProperties, Zenon
      <4>2. \A k \in 1 .. Len(w) + Len(s) : (w \o s)[k] = IF k <= Len(w) THEN w[k] ELSE s[k - Len(w)]
        BY <3>1, ConcatProperties, Zenon
      <4>3. Len(w) \in Nat
        OBVIOUS
      <4> QED
        BY <4>1, <4>2, <4>3
    <3> QED
      BY <3>1, <3>2 DEF s
  <2>2. /\ Len(w) + 1 \in 1 .. Len(w) + 2 /\ (Len(w) + 1) - Len(w) = 1 /\ ~(Len(w) + 1 <= Len(w))
        /\ Len(w) + 2 \in 1 .. Len(w) + 2 /\ (Len(w) + 2) - Len(w) = 2 /\ ~(Len(w) + 2 <= Len(w))
    BY <2>1
  <2> HIDE DEF v
  <2> QED
    BY <2>1, <2>2
<1>3. /\ Len(Append(q, r)) = Len(q) + 1 /\ Append(q, r)[Len(q) + 1] = r
      /\ \A i \in 1 .. Len(q) : Append(q, r)[i] = q[i] /\ Len(q) \in Nat
  OBVIOUS
<1>4. Len(w) = 2 * Len(q) /\ Len(q) \in Nat
  BY DEF PiecesOf
<1> HIDE DEF v
<1>5. Len(v) = 2 * Len(Append(q, r))
  BY <1>2, <1>3, <1>4
<1>6. ASSUME NEW i \in 1 .. Len(Append(q, r))
      PROVE  /\ v[2 * i - 1] = [of |-> Append(q, r)[i], part |-> 1]
             /\ v[2 * i]     = [of |-> Append(q, r)[i], part |-> 2]
  <2>1. CASE i \in 1 .. Len(q)
    <3>1. 2 * i - 1 \in 1 .. Len(w) /\ 2 * i \in 1 .. Len(w)
      BY <2>1, <1>4
    <3> QED
      BY <2>1, <3>1, <1>2, <1>3 DEF PiecesOf
  <2>2. CASE i = Len(q) + 1
    <3>1. 2 * i - 1 = Len(w) + 1 /\ 2 * i = Len(w) + 2
      BY <2>2, <1>4
    <3> QED
      BY <2>2, <3>1, <1>1, <1>2, <1>3
  <2> QED
    BY <2>1, <2>2, <1>3
<1> QED
  BY <1>5, <1>6 DEF PiecesOf, v

\* Without the first two pieces are left those of the other requests.
LEMMA PiecesTail ==
    ASSUME NEW w \in Seq(Piece), NEW q \in Seq(Requests), q # <<>>, PiecesOf(w, q)
    PROVE  PiecesOf(SubSeq(w, 3, Len(w)), Tail(q))
<1>1. Len(q) \in Nat /\ Len(q) >= 1 /\ Len(w) = 2 * Len(q)
  BY DEF PiecesOf
<1>2. Len(Tail(q)) = Len(q) - 1 /\ \A i \in 1 .. Len(q) - 1 : Tail(q)[i] = q[i + 1]
  BY <1>1
<1>3. /\ Len(SubSeq(w, 3, Len(w))) = Len(w) - 2
      /\ \A k \in 1 .. Len(w) - 2 : SubSeq(w, 3, Len(w))[k] = w[k + 2]
  BY <1>1
<1>4. ASSUME NEW i \in 1 .. Len(q) - 1
      PROVE  /\ SubSeq(w, 3, Len(w))[2 * i - 1] = [of |-> Tail(q)[i], part |-> 1]
             /\ SubSeq(w, 3, Len(w))[2 * i]     = [of |-> Tail(q)[i], part |-> 2]
  <2>1. 2 * i - 1 \in 1 .. Len(w) - 2 /\ 2 * i \in 1 .. Len(w) - 2 /\ i + 1 \in 1 .. Len(q)
    BY <1>1
  <2>2. w[2 * (i + 1) - 1] = [of |-> q[i + 1], part |-> 1] /\ w[2 * (i + 1)] = [of |-> q[i + 1], part |-> 2]
    BY <2>1 DEF PiecesOf
  <2>3. (2 * i - 1) + 2 = 2 * (i + 1) - 1 /\ 2 * i + 2 = 2 * (i + 1)
    OBVIOUS
  <2> QED
    BY <2>1, <2>2, <2>3, <1>2, <1>3
<1> QED
  BY <1>1, <1>2, <1>3, <1>4 DEF PiecesOf

\* One read takes the pieces of the first request that waits, or paces the
\* connection no longer.
LEMMA ReadHInv ==
    ASSUME HInv, NEW n \in 1 .. Len(wire), ReadCallBack(n)
    PROVE  HInv'
<1> DEFINE text == inputBuffer \o SubSeq(wire, 1, n)
<1>1. /\ pc = "poll" /\ inputBuffer' = text /\ wire' = SubSeq(wire, n + 1, Len(wire))
      /\ len' = n /\ request' \in Parsed(SubSeq(text, 1, n))
      /\ paced' = (paced /\ SubSeq(wire, 1, n) = Pieces(wire[1].of))
      /\ waiting' = waiting /\ pc' # "poll"
  BY DEF ReadCallBack, Read
<1>2. HttpTypes'
  <2>1. SubSeq(wire, 1, n) \in Seq(Piece) /\ SubSeq(wire, n + 1, Len(wire)) \in Seq(Piece)
    BY DEF HInv, HttpTypes
  <2>2. text \in Seq(Piece)
    BY <2>1 DEF HInv, HttpTypes
  <2> QED
    BY <1>1, <2>1, <2>2 DEF HInv, HttpTypes
<1>3. Paced'
  <2> SUFFICES ASSUME paced' PROVE Paced'
    BY DEF Paced
  <2>1. inputBuffer = <<>> /\ PiecesOf(wire, waiting)
    BY <1>1 DEF HInv, Paced
  <2>2. n = 2
    <3>1. Len(SubSeq(wire, 1, n)) = n
      BY DEF HInv, HttpTypes
    <3> QED
      BY <3>1, <1>1 DEF Pieces
  <2>3. waiting # <<>> /\ wire[1] = [of |-> waiting[1], part |-> 1]
    <3>1. Len(waiting) \in Nat /\ Len(waiting) >= 1
      BY <2>1, <2>2 DEF PiecesOf, HInv, HttpTypes
    <3>2. 1 \in 1 .. Len(waiting) /\ 2 * 1 - 1 = 1
      BY <3>1
    <3>3. wire[1] = [of |-> waiting[1], part |-> 1]
      BY <2>1, <3>2 DEF PiecesOf
    <3> QED
      BY <3>1, <3>3
  <2>4. text = Pieces(waiting[1])
    <3>1. SubSeq(wire, 1, n) \in Seq(Piece)
      BY DEF HInv, HttpTypes
    <3>2. text = SubSeq(wire, 1, n)
      BY <3>1, <2>1, ConcatEmptySeq
    <3>3. wire[1].of = waiting[1]
      BY <2>3
    <3> HIDE DEF text
    <3> QED
      BY <3>2, <3>3, <1>1
  <2>5. request' = waiting[1]
    <3>1. waiting[1] \in Requests
      BY <2>3 DEF HInv, HttpTypes
    <3>2. Pieces(waiting[1]) \in Seq(Piece) /\ Len(Pieces(waiting[1])) = 2
      BY <3>1 DEF Pieces, Piece
    <3>3. SubSeq(text, 1, n) = Pieces(waiting[1])
      BY <2>2, <2>4, <3>2, SubSeqFull
    <3>4. /\ Pieces(waiting[1])[1].part = 1 /\ Pieces(waiting[1])[1].of = waiting[1]
      BY DEF Pieces
    <3> HIDE DEF text
    <3>5. Parsed(Pieces(waiting[1])) = {waiting[1]}
      BY <3>2, <3>4 DEF Parsed
    <3> QED
      BY <3>3, <3>5, <1>1
  <2>6. Len(inputBuffer') = 2
    BY <2>4, <1>1 DEF Pieces
  <2>7. PiecesOf(wire', Tail(waiting))
    BY <2>1, <2>2, <2>3, <1>1, PiecesTail DEF HInv, HttpTypes
  <2> QED
    BY <2>2, <2>3, <2>5, <2>6, <2>7, <1>1 DEF Paced
<1> QED
  BY <1>2, <1>3 DEF HInv

\* The answer is that to the first request that waits, and nothing of it is left.
LEMMA ReplyHInv ==
    ASSUME HInv, Reply
    PROVE  HInv'
<1>1. /\ pc = "reply" /\ pc' = "poll" /\ len' = 0
      /\ inputBuffer' = SubSeq(inputBuffer, len + 1, Len(inputBuffer))
      /\ waiting' = IF waiting = <<>> THEN <<>> ELSE Tail(waiting)
      /\ UNCHANGED <<wire, paced>>
  BY DEF Reply, Send
<1>2. HttpTypes'
  BY <1>1 DEF HInv, HttpTypes
<1>3. Paced'
  <2> SUFFICES ASSUME paced PROVE inputBuffer' = <<>> /\ PiecesOf(wire, waiting')
    BY <1>1 DEF Paced
  <2>1. waiting # <<>> /\ len = 2 /\ Len(inputBuffer) = 2 /\ PiecesOf(wire, Tail(waiting))
    BY <1>1 DEF HInv, Paced
  <2>2. inputBuffer' = <<>>
    BY <2>1, <1>1 DEF HInv, HttpTypes
  <2> QED
    BY <2>1, <2>2, <1>1
<1> QED
  BY <1>2, <1>3 DEF HInv

\* A client that asks waits behind those it has asked before.
LEMMA AskHInv ==
    ASSUME HInv, NEW r \in Requests, AskFor(r)
    PROVE  HInv'
<1>1. /\ wire' = wire \o Pieces(r) /\ waiting' = Append(waiting, r)
      /\ UNCHANGED <<inputBuffer, len, request, paced, pc>>
  BY DEF AskFor, Ask
<1>2. Pieces(r) \in Seq(Piece)
  BY DEF Pieces, Piece
<1>3. HttpTypes'
  BY <1>1, <1>2 DEF HInv, HttpTypes
<1>4. Paced'
  <2>1. CASE paced /\ pc = "poll"
    <3>1. PiecesOf(wire', waiting')
      BY <2>1, <1>1, PiecesAppend DEF HInv, HttpTypes, Paced
    <3> QED
      BY <3>1, <2>1, <1>1 DEF HInv, Paced
  <2>2. CASE paced /\ pc \notin {"poll", "crashed"}
    <3>1. waiting # <<>> /\ PiecesOf(wire, Tail(waiting)) /\ Tail(waiting) \in Seq(Requests)
      BY <2>2 DEF HInv, HttpTypes, Paced
    <3>2. Tail(waiting') = Append(Tail(waiting), r)
      BY <3>1, <1>1 DEF HInv, HttpTypes
    <3>3. PiecesOf(wire', Tail(waiting'))
      BY <3>1, <3>2, <1>1, PiecesAppend DEF HInv, HttpTypes
    <3>4. waiting' # <<>> /\ waiting'[1] = waiting[1]
      BY <3>1, <1>1 DEF HInv, HttpTypes
    <3> QED
      BY <3>3, <3>4, <2>2, <1>1 DEF HInv, Paced
  <2> QED
    BY <2>1, <2>2, <1>1 DEF Paced
<1> QED
  BY <1>3, <1>4 DEF HInv

\* Steps of other threads, of the target and of the client.
LEMMA FrameHInv ==
    ASSUME HInv, UNCHANGED <<wire, inputBuffer, len, request, waiting, paced, pc>>
    PROVE  HInv'
BY DEF HInv, HttpTypes, Paced

\* A handler leaves the connection alone, and the request it was called with.
LEMMA HandlerHInv ==
    ASSUME HInv, UNCHANGED <<wire, inputBuffer, len, request, waiting, paced>>,
           \/ pc' = "crashed"
           \/ pc \notin {"poll", "crashed"} /\ pc' # "poll"
    PROVE  HInv'
BY DEF HInv, HttpTypes, Paced

\* Every step keeps requests and pieces together.
LEMMA NextHInv == HInv /\ [Next]_vars => HInv'
<1> SUFFICES ASSUME HInv, [Next]_vars PROVE HInv'
  OBVIOUS
<1> USE DEF httpVars, http, GoOn, Answer, Handle
<1>1. ASSUME NEW n \in 1 .. Len(wire), ReadCallBack(n) PROVE HInv'
  BY <1>1, ReadHInv
<1>2. CASE Reply  BY <1>2, ReplyHInv
<1>3. CASE GetPages  BY <1>3, HandlerHInv DEF GetPages
<1>4. CASE InitTools  BY <1>4, HandlerHInv DEF InitTools
<1>5. CASE First  BY <1>5, HandlerHInv DEF First
<1>6. CASE FirstPage  BY <1>6, HandlerHInv, FrameHInv DEF FirstPage
<1>7. CASE FirstEnds  BY <1>7, HandlerHInv DEF FirstEnds
<1>8. CASE Second  BY <1>8, HandlerHInv DEF Second, Begin, SearchNothing
<1>9. CASE Third  BY <1>9, HandlerHInv DEF Third, Begin, SearchNothing
<1>10. CASE Commit  BY <1>10, FrameHInv DEF Commit
<1>11. CASE Spin  BY <1>11, HandlerHInv DEF Spin
<1>12. CASE Dump  BY <1>12, HandlerHInv DEF Dump
<1>13. CASE Write  BY <1>13, HandlerHInv DEF Write
<1>14. CASE Clash  BY <1>14, HandlerHInv DEF Clash
<1>15. ASSUME NEW p \in Pages, Work(p) PROVE HInv'
  BY <1>15, FrameHInv DEF Work, TakeTask, CreatNext, ScanPage, ScanCell, CellsEnd, Count
<1>16. ASSUME NEW r \in Requests, AskFor(r) PROVE HInv'
  BY <1>16, AskHInv
<1>17. ASSUME NEW a \in Addresses, NEW v \in Values, Change(a, v) PROVE HInv'
  BY <1>17, FrameHInv DEF Change
<1>18. ASSUME NEW p \in Pages, Unmap(p) PROVE HInv'
  BY <1>18, FrameHInv DEF Unmap
<1>19. CASE UNCHANGED vars  BY <1>19, FrameHInv DEF vars
<1> QED
  BY <1>1, <1>2, <1>3, <1>4, <1>5, <1>6, <1>7, <1>8, <1>9, <1>10, <1>11, <1>12, <1>13,
     <1>14, <1>15, <1>16, <1>17, <1>18, <1>19 DEF Next, Loop

\* Whatever is asked for, and whatever the handlers, the tasks and the target do:
\* as long as every read brings one request, a handler works on the one the client
\* waits for first.
THEOREM RequestsInOrder == Spec => []AnswersInOrder
<1>1. HInv => AnswersInOrder
  BY DEF HInv, Paced, AnswersInOrder
<1> QED
  BY <1>1, InitHInv, NextHInv, PTL DEF Spec
-----------------------------------------------------------------------------
(* The operators of the model.                                             *)

\* There are finitely many pages, and a page has values.
LEMMA PagesAre == /\ Pages = 1 .. Len(Cells) /\ Len(Cells) \in Nat
                  /\ IsFiniteSet(Pages) /\ Cardinality(Pages) = Len(Cells)
                  /\ \A p \in Pages : Cells[p] \in Nat \ {0}
<1>1. Pages = 1 .. Len(Cells) /\ Len(Cells) \in Nat /\ \A p \in Pages : Cells[p] \in Nat \ {0}
  BY MemoryToolsAssumption DEF Pages
<1>2. IsFiniteSet(1 .. Len(Cells)) /\ Cardinality(1 .. Len(Cells)) = Len(Cells)
  BY <1>1, FS_Interval
<1> QED
  BY <1>1, <1>2

\* An address is a page and the place of a value on it.
LEMMA AddressesAre ==
    /\ \A p, i : <<p, i>> \in Addresses <=> p \in Pages /\ i \in 1 .. Cells[p]
    /\ \A a \in Addresses : a = <<a[1], a[2]>> /\ a[1] \in Pages /\ a[2] \in 1 .. Cells[a[1]]
BY DEF Addresses

\* Pages are finite, and so are their addresses.
LEMMA AddressesFinite == IsFiniteSet(Addresses)
<1> DEFINE OfPages == {{p} \X (1 .. Cells[p]) : p \in Pages}
           f == [p \in Pages |-> {p} \X (1 .. Cells[p])]
<1>1. f \in Surjection(Pages, OfPages)
  BY DEF Surjection
<1>2. IsFiniteSet(OfPages)
  <2> HIDE DEF f, OfPages
  <2> QED
    BY <1>1, PagesAre, FS_Surjection
<1>3. ASSUME NEW p \in Pages PROVE IsFiniteSet({p} \X (1 .. Cells[p]))
  <2>1. IsFiniteSet({p})
    BY FS_Singleton
  <2>2. IsFiniteSet(1 .. Cells[p])
    <3> DEFINE c == Cells[p]
    <3>1. c \in Nat
      BY PagesAre
    <3> HIDE DEF c
    <3>2. IsFiniteSet(1 .. c)
      BY <3>1, FS_Interval
    <3> QED
      BY <3>2 DEF c
  <2> QED
    BY <2>1, <2>2, FS_Product
<1> QED
  BY <1>2, <1>3, FS_UNION DEF Addresses

\* The addresses of a page are as many as its values.
LEMMA AddressesOfPage ==
    ASSUME NEW p \in Pages
    PROVE  /\ IsFiniteSet({a \in Addresses : a[1] = p})
           /\ Cardinality({a \in Addresses : a[1] = p}) = Cells[p]
<1> DEFINE A == {a \in Addresses : a[1] = p}
           f == [i \in 1 .. Cells[p] |-> <<p, i>>]
<1>1. f \in Bijection(1 .. Cells[p], A)
  <2>1. f \in [1 .. Cells[p] -> A]
    BY AddressesAre
  <2>2. \A i, j \in 1 .. Cells[p] : f[i] = f[j] => i = j
    OBVIOUS
  <2>3. \A a \in A : \E i \in 1 .. Cells[p] : f[i] = a
    BY AddressesAre
  <2> QED
    BY <2>1, <2>2, <2>3 DEF Bijection, Injection, Surjection, IsInjective
<1>2. IsFiniteSet(1 .. Cells[p]) /\ Cardinality(1 .. Cells[p]) = Cells[p]
  <2> DEFINE c == Cells[p]
  <2>1. c \in Nat \ {0}
    BY PagesAre
  <2> HIDE DEF c
  <2>2. IsFiniteSet(1 .. c) /\ Cardinality(1 .. c) = c
    BY <2>1, FS_Interval
  <2> QED
    BY <2>2 DEF c
<1> HIDE DEF f, A
<1>3. IsFiniteSet(A) /\ Cardinality(A) = Cells[p]
  BY <1>1, <1>2, FS_Bijection DEF ExistsBijection
<1> QED
  BY <1>3 DEF A

\* What a sequence holds.
LEMMA InRange ==
    ASSUME NEW S, NEW s \in Seq(S)
    PROVE  /\ \A x : x \in Range(s) <=> \E i \in 1 .. Len(s) : x = s[i]
           /\ Range(s) \subseteq S
BY RangeEquality, RangeOfSeq

\* An empty file holds nothing.
LEMMA EmptyRange == Range(<<>>) = {}
<1>1. <<>> \in Seq({}) /\ Len(<<>>) = 0
  OBVIOUS
<1>2. 1 .. 0 = {}
  OBVIOUS
<1> QED
  BY <1>1, <1>2, InRange

\* One more element.
LEMMA AppendRange ==
    ASSUME NEW S, NEW s \in Seq(S), NEW e \in S
    PROVE  Range(Append(s, e)) = Range(s) \cup {e}
<1> DEFINE t == Append(s, e)
           n == Len(s)
<1>1. /\ Len(t) = n + 1 /\ n \in Nat /\ t[n + 1] = e /\ \A i \in 1 .. n : t[i] = s[i]
      /\ t \in Seq(S)
  OBVIOUS
<1> HIDE DEF t
<1>2. \A x : x \in Range(t) <=> \E i \in 1 .. Len(t) : x = t[i]
  BY <1>1, InRange
<1>4. \A x : x \in Range(s) <=> \E i \in 1 .. n : x = s[i]
  BY InRange
<1>3. 1 .. n + 1 = (1 .. n) \cup {n + 1}
  BY <1>1
<1> HIDE DEF n
<1> QED
  BY <1>1, <1>2, <1>3, <1>4 DEF t

\* creat makes an empty file, and leaves the others alone.
LEMMA CreatIs ==
    ASSUME NEW F, NEW key
    PROVE  /\ DOMAIN Creat(F, key) = DOMAIN F \cup {key}
           /\ Creat(F, key)[key] = <<>>
           /\ \A k \in DOMAIN F \ {key} : Creat(F, key)[k] = F[k]
BY DEF Creat

\* G has what F has, and this file.
FilledWith(F, G, key, c) ==
    /\ DOMAIN G = DOMAIN F \cup {key} /\ G[key] = c
    /\ \A k \in DOMAIN F \ {key} : G[k] = F[k]

\* A file that is made and filled holds what was put into it.
LEMMA MadeAndFilled ==
    ASSUME NEW F, NEW key, NEW S, NEW c \in Seq(S)
    PROVE  FilledWith(F, AppendAll(Creat(F, key), key, c), key, c)
<1> DEFINE G == Creat(F, key)
<1>1. DOMAIN G = DOMAIN F \cup {key} /\ G[key] = <<>> /\ \A k \in DOMAIN F \ {key} : G[k] = F[k]
  BY CreatIs
<1> HIDE DEF G
<1>2. /\ DOMAIN AppendAll(G, key, c) = DOMAIN G /\ AppendAll(G, key, c)[key] = G[key] \o c
      /\ \A k \in DOMAIN G \ {key} : AppendAll(G, key, c)[k] = G[k]
  BY <1>1 DEF AppendAll
<1>3. <<>> \o c = c
  BY ConcatEmptySeq
<1> QED
  BY <1>1, <1>2, <1>3 DEF G, FilledWith

\* The members of a set, in their order.
LEMMA AscendingIs ==
    ASSUME NEW S \in SUBSET Nat, IsFiniteSet(S), NEW s \in Ascending(S)
    PROVE  /\ s \in Seq(S) /\ Len(s) = Cardinality(S) /\ Range(s) = S
           /\ \A i, j \in 1 .. Len(s) : i < j => s[i] < s[j]
<1> DEFINE n == Cardinality(S)
<1>1. n \in Nat
  BY FS_CardinalityType
<1>2. s \in [1 .. n -> S] /\ \A i, j \in 1 .. n : i < j => s[i] < s[j]
  BY DEF Ascending
<1> HIDE DEF n
<1>3. s \in Seq(S) /\ Len(s) = n
  BY <1>1, <1>2
<1>4. s \in Injection(1 .. n, S)
  <2>1. ASSUME NEW i \in 1 .. n, NEW j \in 1 .. n, s[i] = s[j] PROVE i = j
    <3>1. s[i] \in Nat /\ s[j] \in Nat
      BY <1>2
    <3> QED
      BY <3>1, <2>1, <1>1, <1>2
  <2> QED
    BY <2>1, <1>2 DEF Injection, IsInjective
<1>5. IsFiniteSet(1 .. n) /\ Cardinality(1 .. n) = Cardinality(S)
  BY <1>1, FS_Interval DEF n
<1>6. s \in Surjection(1 .. n, S)
  BY <1>4, <1>5, FS_Injection
<1>7. Range(s) = S
  BY <1>2, <1>6 DEF Surjection, Range
<1> QED
  BY <1>2, <1>3, <1>7 DEF n
-----------------------------------------------------------------------------
(* The searches.  SInv is the inductive invariant, in parts.               *)

\* The file of addresses f and the file of values g of a page and a search.
IsFile(key, f, g) ==
    /\ f \in Seq(Addresses) /\ g \in Seq(Values)
    /\ key[2] = 1 => Len(f) <= Len(g) /\ Len(g) <= Cells[key[1]]
    /\ key[2] = 1 => \A i \in 1 .. Len(f) : f[i][2] = i
    /\ key[2] # 1 => Len(f) = Len(g)
    /\ \A i, j \in 1 .. Len(f) : f[i][1] = key[1] /\ (i < j => f[i][2] < f[j][2])

\* There is no file of a later search without one of the search before.
FilesInv ==
    /\ DOMAIN addr = DOMAIN data /\ DOMAIN addr \subseteq Pages \X (Nat \ {0})
    /\ \A key \in DOMAIN addr : IsFile(key, addr[key], data[key])
    /\ \A key \in DOMAIN addr : key[2] > 1 => <<key[1], key[2] - 1>> \in DOMAIN addr

TargetInv ==
    /\ memory \in [Addresses -> Values] /\ mapped \subseteq Pages /\ changes \in Nat
    /\ changes = 0 => mapped = Pages

MainInv ==
    /\ pc \in {"poll", "handle", "first", "commit", "reply", "hung", "crashed"}
    /\ pages \in Seq(Pages) /\ cnt \in Nat
    /\ at \in Nat /\ acc \in Nat /\ acc2 \in Nat /\ allSize \in Nat
    /\ Len(waiting) <= MaxWaiting
    /\ pc = "first" => request.path = "/first"
    /\ pc = "handle" /\ request.path = "/write" => request.address \in Addresses /\ request.value \in Int

TaskPlaces == {"none", "creates", "page", "cells", "ends"}
Busy == {p \in Pages : task[p].pc # "none"}

\* Every task that was committed is queued, runs or has counted itself; and outside
\* a search there is none.
PoolInv ==
    /\ tasks \in Seq(Pages)
    /\ task \in [Pages -> [pc : TaskPlaces, i : Nat, buff : Values \cup {Absent}]]
    /\ acc <= acc2 /\ acc2 <= Len(Cells)
    /\ pc \notin {"commit", "crashed"} => tasks = <<>> /\ Busy = {}
    /\ pc = "commit" =>
          /\ acc + Len(tasks) + Cardinality(Busy) = acc2 /\ acc2 <= at /\ at <= Len(Cells)
          /\ \A i, j \in 1 .. Len(tasks) : i # j => tasks[i] # tasks[j]
          /\ \A p \in Range(tasks) : p \notin Busy
          /\ \A p \in Range(tasks) \cup Busy : p <= at /\ <<p, search.level>> \in DOMAIN addr

\* The pages for which this search has made a file.
Created(p) ==
    /\ p <= at /\ <<p, search.level>> \in DOMAIN addr
    /\ p \notin Range(tasks) /\ task[p].pc # "creates"

\* What it has to look at on a page, and what it has looked at so far.
OnPage(p) == IF request.path = "/second" THEN {<<p, i>> : i \in 1 .. Len(data[<<p, 1>>])}
             ELSE Range(addr[<<p, search.level>>])
Looked(p) == CASE task[p].pc = "page"  -> {}
               [] task[p].pc = "cells" -> {addr[<<p, search.level>>][i] : i \in 1 .. task[p].i - 1}
               [] OTHER                -> OnPage(p)

\* What it has found there, with which value, and whether that passes; and whether
\* what there is now does.
NewOn(p) == Range(addr[<<p, search.level + 1>>])
NewAt(a) == ValueAt(a, search.level + 1)
Fits(a)  == Passes(Old(a), NewAt(a))
Fit(a)   == Passes(Old(a), memory[a])

RightOn(p) ==
    /\ <<p, search.level + 1>> \in DOMAIN addr
    /\ NewOn(p) \subseteq Looked(p)
    /\ \A a \in NewOn(p) : Fits(a)
    /\ changes = 0 => \A a \in Looked(p) \ NewOn(p) : ~Fit(a)

FoundSoFar == {a \in Addresses : Created(a[1]) /\ a \in NewOn(a[1])}

\* Which tasks there are, by the handler that committed them.
Kinds ==
    /\ request.path \in {"/second", "/third"}
    /\ request.path = "/second" => search.level = 1
    /\ \A p \in Pages :
          /\ task[p].pc = "creates" => task[p].i = 1
          /\ task[p].pc = "page"    => request.path = "/second"
          /\ task[p].pc = "cells"   => /\ request.path = "/third"
                                      /\ task[p].i \in 1 .. Len(addr[<<p, search.level>>]) + 1

SearchInv ==
    pc = "commit" =>
        /\ Kinds
        /\ \A p \in Pages : Created(p) => RightOn(p)
        /\ allSize = Cardinality(FoundSoFar)

\* FirstSearch: files are of pages that may be read, and those it has come past hold
\* their values, as long as the target is as it was.
Past(n) == {pages[i] : i \in 1 .. n} \ Guarded

FirstInv ==
    /\ \A p \in Pages : <<p, 1>> \in DOMAIN addr => p \in Range(pages) \ Guarded
    /\ pc = "first" =>
          /\ at <= Len(pages)
          /\ changes = 0 => \A p \in Past(at) : <<p, 1>> \in DOMAIN addr /\ Len(data[<<p, 1>>]) = Cells[p]
          /\ IsInjective(pages) => allSize = Cardinality({a \in Addresses : a[1] \in Past(at)})

Narrowing(n) == \A count \in 2 .. n : Results(count + 1) \subseteq Results(count)

NarrowInv ==
    orderly =>
        /\ pc \in {"poll", "handle", "reply"} => Narrowing(cnt - 1)
        /\ pc = "commit" /\ request.path = "/third" =>
              search.level = cnt /\ cnt >= 2 /\ Narrowing(cnt - 1)

SInv == /\ FilesInv /\ TargetInv /\ MainInv /\ PoolInv /\ SearchInv /\ FirstInv /\ NarrowInv
        /\ SearchIsRight /\ FirstIsRight
-----------------------------------------------------------------------------
(* Files.                                                                  *)

\* The value of an address in a file.
ValueIn(f, g, a) == g[CHOOSE i \in DOMAIN f : f[i] = a]

\* The addresses in a file are of its page, and different.
LEMMA FileIs ==
    ASSUME NEW key, NEW f, NEW g, IsFile(key, f, g)
    PROVE  /\ DOMAIN f = 1 .. Len(f) /\ Len(f) \in Nat /\ Len(g) \in Nat /\ Len(f) <= Len(g)
           /\ \A i \in 1 .. Len(f) : f[i] \in Addresses /\ f[i][1] = key[1] /\ g[i] \in Values
           /\ \A i, j \in 1 .. Len(f) : f[i] = f[j] => i = j
<1>1. /\ f \in Seq(Addresses) /\ g \in Seq(Values)
      /\ \A i, j \in 1 .. Len(f) : f[i][1] = key[1] /\ (i < j => f[i][2] < f[j][2])
      /\ Len(f) <= Len(g)
  BY DEF IsFile
<1>2. /\ DOMAIN f = 1 .. Len(f) /\ Len(f) \in Nat /\ Len(g) \in Nat
      /\ \A i \in 1 .. Len(f) : f[i] \in Addresses
  BY <1>1, ElementOfSeq
<1>3. ASSUME NEW i \in 1 .. Len(f) PROVE g[i] \in Values
  BY <1>1, <1>2, ElementOfSeq
<1>4. ASSUME NEW i \in 1 .. Len(f), NEW j \in 1 .. Len(f), f[i] = f[j] PROVE i = j
  <2>1. f[i][2] \in Nat
    BY <1>2, AddressesAre
  <2> QED
    BY <2>1, <1>1, <1>2, <1>4
<1> QED
  BY <1>1, <1>2, <1>3, <1>4

\* The value at the place of an address is that of the address.
LEMMA ValueInFile ==
    ASSUME NEW key, NEW f, NEW g, IsFile(key, f, g), NEW i \in 1 .. Len(f)
    PROVE  ValueIn(f, g, f[i]) = g[i]
<1>1. (CHOOSE j \in DOMAIN f : f[j] = f[i]) = i
  BY FileIs
<1> QED
  BY <1>1 DEF ValueIn

\* What creat makes is a file.
LEMMA EmptyFile ==
    ASSUME NEW p \in Pages, NEW k
    PROVE  IsFile(<<p, k>>, <<>>, <<>>)
BY PagesAre DEF IsFile

\* One more address, behind all others, and its value.
LongerFile(key, f, g, a, v, F, G) ==
    /\ IsFile(key, F, G) /\ Range(F) = Range(f) \cup {a}
    /\ ValueIn(F, G, a) = v
    /\ \A b \in Range(f) : ValueIn(F, G, b) = ValueIn(f, g, b)

\* A file of a later search that an address behind its others is written to.
LEMMA FileGrows ==
    ASSUME NEW key, NEW f, NEW g, IsFile(key, f, g), key[2] # 1,
           NEW a \in Addresses, NEW v \in Values, a[1] = key[1], \A b \in Range(f) : b[2] < a[2],
           NEW F, NEW G, F = f \o <<a>>, G = g \o <<v>>
    PROVE  LongerFile(key, f, g, a, v, F, G)
<1> DEFINE ff == Append(f, a)
           gg == Append(g, v)
           n  == Len(f)
<1>1. f \in Seq(Addresses) /\ g \in Seq(Values) /\ n \in Nat /\ n = Len(g)
  BY DEF IsFile
<1>2. F = ff /\ G = gg
  BY <1>1, AppendIsConcat
<1>3. /\ ff \in Seq(Addresses) /\ Len(ff) = n + 1 /\ ff[n + 1] = a /\ \A i \in 1 .. n : ff[i] = f[i]
  BY <1>1, AppendProperties
<1>4. /\ gg \in Seq(Values) /\ Len(gg) = n + 1 /\ gg[n + 1] = v /\ \A i \in 1 .. n : gg[i] = g[i]
  BY <1>1, AppendProperties
<1>5. Range(ff) = Range(f) \cup {a}
  BY <1>1, AppendRange
<1>6. \A b : b \in Range(f) <=> \E i \in 1 .. n : b = f[i]
  BY <1>1, InRange
<1>7. \A i, j \in 1 .. n : f[i][1] = key[1] /\ (i < j => f[i][2] < f[j][2])
  BY DEF IsFile
<1> HIDE DEF ff, gg, n
<1>8. ASSUME NEW i \in 1 .. n + 1, NEW j \in 1 .. n + 1
      PROVE  ff[i][1] = key[1] /\ (i < j => ff[i][2] < ff[j][2])
  <2>1. CASE i \in 1 .. n /\ j \in 1 .. n
    BY <2>1, <1>3, <1>7
  <2>2. CASE i \in 1 .. n /\ j = n + 1
    BY <2>2, <1>3, <1>6, <1>7
  <2>3. CASE i = n + 1
    <3>1. ~(i < j)
      BY <2>3, <1>1
    <3> QED
      BY <2>3, <3>1, <1>3
  <2> QED
    BY <2>1, <2>2, <2>3, <1>1
<1>9. IsFile(key, ff, gg)
  BY <1>3, <1>4, <1>8 DEF IsFile
<1>10. ValueIn(ff, gg, a) = v
  <2>1. n + 1 \in 1 .. Len(ff)
    BY <1>1, <1>3
  <2> QED
    BY <2>1, <1>3, <1>4, <1>9, ValueInFile
<1>11. ASSUME NEW b \in Range(f) PROVE ValueIn(ff, gg, b) = ValueIn(f, g, b)
  <2>1. PICK i \in 1 .. n : b = f[i]
    BY <1>6
  <2>2. i \in 1 .. Len(ff) /\ ff[i] = b /\ gg[i] = g[i] /\ i \in 1 .. Len(f)
    BY <2>1, <1>1, <1>3, <1>4 DEF n
  <2>3. ValueIn(ff, gg, ff[i]) = gg[i]
    BY <2>2, <1>9, ValueInFile
  <2>4. ValueIn(f, g, f[i]) = g[i]
    BY <2>2, ValueInFile
  <2> QED
    BY <2>1, <2>2, <2>3, <2>4
<1> QED
  BY <1>2, <1>5, <1>9, <1>10, <1>11 DEF LongerFile

\* The addresses of a page with these numbers, in their order, and what is there.
LEMMA FileOfHits ==
    ASSUME NEW p \in Pages, NEW k, k # 1, NEW S \in SUBSET (1 .. Cells[p]), NEW hits \in Ascending(S),
           NEW m \in [Addresses -> Values]
    PROVE  LET f == [j \in DOMAIN hits |-> <<p, hits[j]>>]
               g == [j \in DOMAIN hits |-> m[<<p, hits[j]>>]]
           IN /\ IsFile(<<p, k>>, f, g)
              /\ Range(f) = {<<p, i>> : i \in S}
              /\ Len(f) = Cardinality(S) /\ IsFiniteSet(S)
              /\ \A a \in Range(f) : ValueIn(f, g, a) = m[a]
<1> DEFINE f == [j \in DOMAIN hits |-> <<p, hits[j]>>]
           g == [j \in DOMAIN hits |-> m[<<p, hits[j]>>]]
           n == Cardinality(S)
<1>1. IsFiniteSet(S) /\ S \in SUBSET Nat
  <2>1. Cells[p] \in Nat
    BY PagesAre
  <2>2. IsFiniteSet(1 .. Cells[p])
    <3> DEFINE c == Cells[p]
    <3> HIDE DEF c
    <3>1. c \in Nat
      BY <2>1 DEF c
    <3>2. IsFiniteSet(1 .. c)
      BY <3>1, FS_Interval
    <3> QED
      BY <3>2 DEF c
  <2>3. IsFiniteSet(S)
    BY <2>2, FS_Subset
  <2>4. 1 .. Cells[p] \subseteq Nat
    BY <2>1
  <2> QED
    BY <2>3, <2>4
<1>2. /\ hits \in Seq(S) /\ Len(hits) = n /\ Range(hits) = S
      /\ \A i, j \in 1 .. Len(hits) : i < j => hits[i] < hits[j]
  BY <1>1, AscendingIs
<1>3. n \in Nat /\ DOMAIN hits = 1 .. n /\ \A j \in 1 .. n : hits[j] \in S
  BY <1>2, ElementOfSeq
<1> HIDE DEF n
<1>4. \A j \in 1 .. n : <<p, hits[j]>> \in Addresses
  BY <1>3, AddressesAre
<1>5. /\ f \in Seq(Addresses) /\ Len(f) = n /\ \A j \in 1 .. n : f[j] = <<p, hits[j]>>
  BY <1>3, <1>4
<1>6. /\ g \in Seq(Values) /\ Len(g) = n /\ \A j \in 1 .. n : g[j] = m[<<p, hits[j]>>]
  BY <1>3, <1>4
<1> HIDE DEF f, g
<1>7. IsFile(<<p, k>>, f, g)
  <2>1. \A i, j \in 1 .. n : f[i][1] = p /\ (i < j => f[i][2] < f[j][2])
    BY <1>2, <1>5
  <2> QED
    BY <2>1, <1>5, <1>6 DEF IsFile
<1>8. Range(f) = {<<p, i>> : i \in S}
  <2>1. \A x : x \in Range(f) <=> \E j \in 1 .. n : x = f[j]
    BY <1>5, InRange
  <2>2. \A i : i \in S <=> \E j \in 1 .. n : i = hits[j]
    BY <1>2, InRange
  <2>3. ASSUME NEW x \in Range(f) PROVE x \in {<<p, i>> : i \in S}
    <3>1. PICK j \in 1 .. n : x = f[j]
      BY <2>1
    <3>2. x = <<p, hits[j]>> /\ hits[j] \in S
      BY <3>1, <1>3, <1>5
    <3> QED
      BY <3>2
  <2>4. ASSUME NEW i \in S PROVE <<p, i>> \in Range(f)
    BY <2>1, <2>2, <1>5
  <2> QED
    BY <2>3, <2>4
<1>9. ASSUME NEW a \in Range(f) PROVE ValueIn(f, g, a) = m[a]
  <2>1. PICK j \in 1 .. n : a = f[j]
    BY <1>5, InRange
  <2>2. ValueIn(f, g, f[j]) = g[j]
    BY <1>5, <1>7, ValueInFile
  <2> QED
    BY <2>1, <2>2, <1>5, <1>6
<1> QED
  BY <1>1, <1>5, <1>7, <1>8, <1>9 DEF f, g, n
-----------------------------------------------------------------------------
(* What a search has found stays right, whatever happens elsewhere.        *)

\* The value a search compares with, by the files it is in.
LEMMA OldIs ==
    ASSUME NEW a
    PROVE  Old(a) = IF search.level = 1 THEN data[<<a[1], 1>>][a[2]]
                    ELSE ValueIn(addr[<<a[1], search.level>>], data[<<a[1], search.level>>], a)
BY DEF Old, ValueAt, ValueIn

\* The value a search has found, by the files it is in.
LEMMA NewAtIs ==
    ASSUME NEW a
    PROVE  NewAt(a) = ValueIn(addr[<<a[1], search.level + 1>>], data[<<a[1], search.level + 1>>], a)
BY DEF NewAt, ValueAt, ValueIn

\* The files of page p and of the search number k are what they were.
SameFile(p, k) == addr'[<<p, k>>] = addr[<<p, k>>] /\ data'[<<p, k>>] = data[<<p, k>>]

\* It stays as long as the files of the search before do.
LEMMA OldKept ==
    ASSUME NEW a, UNCHANGED search, SameFile(a[1], search.level)
    PROVE  Old(a)' = Old(a)
<1>1. Old(a)' = IF search'.level = 1 THEN data'[<<a[1], 1>>][a[2]]
                ELSE ValueIn(addr'[<<a[1], search'.level>>], data'[<<a[1], search'.level>>], a)
  BY DEF Old, ValueAt, ValueIn
<1> QED
  BY <1>1, OldIs DEF SameFile

\* It stays as long as the files of this search do.
LEMMA NewAtKept ==
    ASSUME NEW a, UNCHANGED search, SameFile(a[1], search.level + 1)
    PROVE  NewAt(a)' = NewAt(a)
<1>1. NewAt(a)' = ValueIn(addr'[<<a[1], search'.level + 1>>], data'[<<a[1], search'.level + 1>>], a)
  BY DEF NewAt, ValueAt, ValueIn
<1> QED
  BY <1>1, NewAtIs DEF SameFile

\* What passed passes still.
LEMMA FitsKept ==
    ASSUME NEW a, UNCHANGED search, Old(a)' = Old(a), NewAt(a)' = NewAt(a), Fits(a)
    PROVE  Fits(a)'
BY DEF Fits, Passes

\* What does not pass still does not, as long as the target is as it was.
LEMMA FitKept ==
    ASSUME NEW a, UNCHANGED <<search, memory>>, Old(a)' = Old(a), ~Fit(a)
    PROVE  ~Fit(a)'
BY DEF Fit, Passes

\* A task looks at addresses of its own page.
LEMMA LookedOnPage ==
    ASSUME FilesInv, Kinds, NEW p \in Pages, <<p, search.level>> \in DOMAIN addr
    PROVE  /\ search.level \in Nat \ {0}
           /\ Looked(p) \subseteq OnPage(p)
           /\ \A a \in OnPage(p) : a \in Addresses /\ a[1] = p
<1> DEFINE f == addr[<<p, search.level>>]
           g == data[<<p, search.level>>]
<1>1. search.level \in Nat \ {0} /\ IsFile(<<p, search.level>>, f, g)
  BY DEF FilesInv
<1>2. /\ f \in Seq(Addresses) /\ Len(f) \in Nat /\ Len(g) \in Nat
      /\ \A x : x \in Range(f) <=> \E i \in 1 .. Len(f) : x = f[i]
      /\ \A i \in 1 .. Len(f) : f[i] \in Addresses /\ f[i][1] = p
  <2> HIDE DEF f, g
  <2>1. f \in Seq(Addresses)
    BY <1>1 DEF IsFile
  <2>2. /\ Len(f) \in Nat /\ Len(g) \in Nat
        /\ \A i \in 1 .. Len(f) : f[i] \in Addresses /\ f[i][1] = <<p, search.level>>[1]
    BY <1>1, FileIs
  <2> QED
    BY <2>1, <2>2, InRange
<1>3. CASE request.path = "/second"
  <2>1. OnPage(p) = {<<p, i>> : i \in 1 .. Len(data[<<p, 1>>])} /\ search.level = 1
    BY <1>3 DEF OnPage, Kinds
  <2>2. Len(g) <= Cells[p] /\ g = data[<<p, 1>>] /\ Cells[p] \in Nat
    BY <1>1, <2>1, PagesAre DEF IsFile
  <2>3. \A i \in 1 .. Len(g) : i \in 1 .. Cells[p]
    BY <1>2, <2>2
  <2>4. \A a \in OnPage(p) : a \in Addresses /\ a[1] = p
    BY <2>1, <2>2, <2>3, AddressesAre
  <2>5. Looked(p) \subseteq OnPage(p)
    BY <1>3 DEF Looked, Kinds
  <2> QED
    BY <1>1, <2>4, <2>5
<1>4. CASE request.path # "/second"
  <2>1. OnPage(p) = Range(f)
    BY <1>4 DEF OnPage
  <2>2. \A a \in OnPage(p) : a \in Addresses /\ a[1] = p
    BY <2>1, <1>2
  <2>3. Looked(p) \subseteq OnPage(p)
    <3>1. CASE task[p].pc = "cells"
      <4>1. Looked(p) = {f[i] : i \in 1 .. task[p].i - 1} /\ task[p].i \in 1 .. Len(f) + 1
        BY <3>1 DEF Looked, Kinds
      <4>2. \A i \in 1 .. task[p].i - 1 : i \in 1 .. Len(f)
        BY <4>1, <1>2
      <4> QED
        BY <4>1, <4>2, <1>2, <2>1
    <3>2. CASE task[p].pc # "cells"
      BY <3>2 DEF Looked
    <3> QED
      BY <3>1, <3>2
  <2> QED
    BY <1>1, <2>2, <2>3
<1> QED
  BY <1>3, <1>4

\* The same for every page, now and after a step.
PagesLooked ==
    \A p \in Pages : <<p, search.level>> \in DOMAIN addr =>
        /\ Looked(p) \subseteq OnPage(p)
        /\ \A a \in OnPage(p) : a \in Addresses /\ a[1] = p

\* All tasks do.
LEMMA AllLookedOnPage == FilesInv /\ Kinds => PagesLooked
BY LookedOnPage DEF PagesLooked

\* A task that does nothing has looked at what it had.
LEMMA LookedKept ==
    ASSUME FilesInv, Kinds, NEW p \in Pages, <<p, search.level>> \in DOMAIN addr,
           UNCHANGED <<search, request>>, task'[p] = task[p], SameFile(p, search.level)
    PROVE  Looked(p)' = Looked(p)
<1>1. OnPage(p)' = OnPage(p)
  BY DEF OnPage, SameFile, Kinds
<1> QED
  BY <1>1 DEF Looked, SameFile

\* A page that was searched rightly stays so when other files change.
LEMMA RightKept ==
    ASSUME FilesInv, Kinds, NEW p \in Pages, <<p, search.level>> \in DOMAIN addr, RightOn(p),
           UNCHANGED <<search, request>>, Looked(p)' = Looked(p),
           SameFile(p, search.level), SameFile(p, search.level + 1), DOMAIN addr \subseteq DOMAIN addr',
           changes' = 0 => changes = 0 /\ memory' = memory
    PROVE  RightOn(p)' /\ NewOn(p)' = NewOn(p)
<1>1. NewOn(p)' = NewOn(p)
  BY DEF NewOn, SameFile
<1>2. \A a \in Looked(p) : a[1] = p
  BY LookedOnPage
<1>3. ASSUME NEW a \in Looked(p) PROVE Old(a)' = Old(a) /\ NewAt(a)' = NewAt(a)
  <2>1. a[1] = p
    BY <1>2
  <2> QED
    BY <2>1, OldKept, NewAtKept
<1>4. ASSUME NEW a \in NewOn(p) PROVE Fits(a)'
  <2>1. Fits(a) /\ a \in Looked(p)
    BY DEF RightOn
  <2> QED
    BY <2>1, <1>3, FitsKept
<1>5. ASSUME changes' = 0, NEW a \in Looked(p) \ NewOn(p) PROVE ~Fit(a)'
  <2>1. ~Fit(a) /\ UNCHANGED memory
    BY <1>5 DEF RightOn
  <2> QED
    BY <2>1, <1>3, FitKept
<1>6. /\ <<p, search'.level + 1>> \in DOMAIN addr' /\ NewOn(p) \subseteq Looked(p)
  BY DEF RightOn
<1> QED
  BY <1>1, <1>4, <1>5, <1>6 DEF RightOn
-----------------------------------------------------------------------------
(* The steps of a task.                                                    *)

\* A task belongs to the search that is being answered, and to a page it had to
\* look through.
LEMMA Working ==
    ASSUME FilesInv, PoolInv, Running, NEW p \in Pages, task[p].pc # "none"
    PROVE  /\ pc = "commit" /\ p <= at /\ p \notin Range(tasks)
           /\ <<p, search.level>> \in DOMAIN addr /\ search.level \in Nat \ {0}
<1>1. p \in Busy
  BY DEF Busy
<1>2. pc = "commit"
  BY <1>1 DEF PoolInv, Running
<1> QED
  BY <1>1, <1>2 DEF PoolInv, FilesInv

\* All files are as they were but those of page p and the search number k, which
\* there are.
Elsewhere(p, k) ==
    /\ DOMAIN addr' = DOMAIN addr \cup {<<p, k>>} /\ DOMAIN data' = DOMAIN data \cup {<<p, k>>}
    /\ \A key \in DOMAIN addr \ {<<p, k>>} : addr'[key] = addr[key] /\ data'[key] = data[key]

\* Files agree when the one that changes does.
LEMMA OneFile ==
    ASSUME FilesInv, NEW p \in Pages, NEW k \in Nat \ {0}, Elsewhere(p, k),
           IsFile(<<p, k>>, addr'[<<p, k>>], data'[<<p, k>>]),
           k > 1 => <<p, k - 1>> \in DOMAIN addr
    PROVE  FilesInv'
<1>1. DOMAIN addr' = DOMAIN data' /\ DOMAIN addr' \subseteq Pages \X (Nat \ {0})
  BY DEF Elsewhere, FilesInv
<1>2. ASSUME NEW key \in DOMAIN addr' PROVE IsFile(key, addr'[key], data'[key])
  BY DEF Elsewhere, FilesInv
<1>3. ASSUME NEW key \in DOMAIN addr', key[2] > 1 PROVE <<key[1], key[2] - 1>> \in DOMAIN addr'
  BY <1>3 DEF Elsewhere, FilesInv
<1> QED
  BY <1>1, <1>2, <1>3 DEF FilesInv

\* A task that has looked further, and found D, leaves the search right.
LEMMA SearchStep ==
    ASSUME FilesInv, FilesInv', SearchInv, pc = "commit", NEW p \in Pages, NEW D \in SUBSET Addresses,
           UNCHANGED <<pc, request, search, at, tasks, memory, changes>>,
           <<p, search.level>> \in DOMAIN addr,
           \A q \in Pages \ {p} : task'[q] = task[q],
           Elsewhere(p, search.level + 1), Kinds', Created(p)', RightOn(p)',
           NewOn(p)' = IF Created(p) THEN NewOn(p) \cup D ELSE D,
           Created(p) => NewOn(p) \cap D = {},
           allSize' = allSize + Cardinality(D)
    PROVE  SearchInv'
<1>1. Kinds /\ search.level \in Nat \ {0}
  BY DEF SearchInv, FilesInv
<1>2. ASSUME NEW q \in Pages \ {p} PROVE Created(q)' <=> Created(q)
  BY <1>1 DEF Created, Elsewhere
<1>3. ASSUME NEW q \in Pages \ {p}, Created(q)
      PROVE  RightOn(q)' /\ NewOn(q)' = NewOn(q)
  <2>1. <<q, search.level>> \in DOMAIN addr /\ RightOn(q)
    BY <1>3 DEF Created, SearchInv
  <2>2. SameFile(q, search.level) /\ SameFile(q, search.level + 1)
    BY <2>1 DEF SameFile, Elsewhere, RightOn
  <2>3. Looked(q)' = Looked(q)
    BY <1>1, <2>1, <2>2, LookedKept
  <2>4. DOMAIN addr \subseteq DOMAIN addr'
    BY DEF Elsewhere
  <2> QED
    BY <1>1, <2>1, <2>2, <2>3, <2>4, RightKept
<1>4. \A a \in D : a[1] = p
  <2>1. NewOn(p)' \subseteq Looked(p)' /\ D \subseteq NewOn(p)'
    BY DEF RightOn
  <2>2. <<p, search'.level>> \in DOMAIN addr'
    BY DEF Elsewhere
  <2>3. PagesLooked'
    BY AllLookedOnPage, PTL
  <2> QED
    BY <2>1, <2>2, <2>3 DEF PagesLooked
<1>5. FoundSoFar' = FoundSoFar \cup D
  <2>1. ASSUME NEW a \in Addresses
        PROVE  Created(a[1])' /\ a \in NewOn(a[1])' <=> (Created(a[1]) /\ a \in NewOn(a[1])) \/ a \in D
    <3>1. CASE a[1] = p
      <4>1. Created(a[1])' /\ NewOn(a[1])' = NewOn(p)'
        BY <3>1
      <4> QED
        BY <3>1, <4>1
    <3>2. CASE a[1] # p
      <4>1. a[1] \in Pages \ {p} /\ a \notin D
        BY <3>2, <1>4, AddressesAre
      <4> QED
        BY <4>1, <1>2, <1>3
    <3> QED
      BY <3>1, <3>2
  <2> QED
    BY <2>1 DEF FoundSoFar
<1>6. FoundSoFar \cap D = {}
  <2>1. ASSUME NEW a \in FoundSoFar, a \in D PROVE FALSE
    <3>1. a[1] = p /\ Created(a[1]) /\ a \in NewOn(a[1])
      BY <2>1, <1>4 DEF FoundSoFar
    <3>2. Created(p) /\ a \in NewOn(p)
      BY <3>1
    <3> QED
      BY <2>1, <3>2
  <2> QED
    BY <2>1
<1>7. Cardinality(FoundSoFar') = Cardinality(FoundSoFar) + Cardinality(D)
  <2>1. FoundSoFar \in SUBSET Addresses
    BY DEF FoundSoFar
  <2>2. IsFiniteSet(FoundSoFar) /\ IsFiniteSet(D)
    BY <2>1, AddressesFinite, FS_Subset
  <2>3. Cardinality(FoundSoFar \cup D) = Cardinality(FoundSoFar) + Cardinality(D) - Cardinality({})
    BY <2>2, <1>6, FS_Union
  <2>4. Cardinality(FoundSoFar) \in Nat /\ Cardinality(D) \in Nat /\ Cardinality({}) = 0
    BY <2>2, FS_CardinalityType, FS_EmptySet
  <2> QED
    BY <2>3, <2>4, <1>5
<1>8. ASSUME NEW q \in Pages, Created(q)' PROVE RightOn(q)'
  BY <1>2, <1>3, <1>8
<1> QED
  BY <1>7, <1>8 DEF SearchInv

\* Steps that find nothing, and look no further.
LEMMA SearchFrame ==
    ASSUME FilesInv, SearchInv, pc = "commit" => Kinds',
           UNCHANGED <<pc, request, search, addr, data, allSize>>,
           changes' = 0 => changes = 0 /\ memory' = memory,
           \A q \in Pages : pc = "commit" => (Created(q)' <=> Created(q)),
           \A q \in Pages : pc = "commit" /\ Created(q) => Looked(q)' = Looked(q)
    PROVE  SearchInv'
<1> SUFFICES ASSUME pc = "commit" PROVE SearchInv'
  BY DEF SearchInv
<1>1. Kinds
  BY DEF SearchInv
<1>2. ASSUME NEW q \in Pages, Created(q) PROVE RightOn(q)' /\ NewOn(q)' = NewOn(q)
  <2>1. <<q, search.level>> \in DOMAIN addr /\ RightOn(q) /\ Looked(q)' = Looked(q)
    BY <1>2 DEF Created, SearchInv
  <2>2. SameFile(q, search.level) /\ SameFile(q, search.level + 1) /\ DOMAIN addr \subseteq DOMAIN addr'
    BY DEF SameFile
  <2> QED
    BY <1>1, <2>1, <2>2, RightKept
<1>3. FoundSoFar' = FoundSoFar
  <2>1. ASSUME NEW a \in Addresses
        PROVE  Created(a[1])' /\ a \in NewOn(a[1])' <=> Created(a[1]) /\ a \in NewOn(a[1])
    BY <1>2, AddressesAre
  <2> QED
    BY <2>1 DEF FoundSoFar
<1>4. ASSUME NEW q \in Pages, Created(q)' PROVE RightOn(q)'
  BY <1>2, <1>4
<1> QED
  BY <1>3, <1>4 DEF SearchInv

\* A task that goes on is still one of its handler's.
LEMMA KindsKept ==
    ASSUME FilesInv, PoolInv, Kinds, pc = "commit", NEW p \in Pages,
           UNCHANGED <<request, search>>,
           \A q \in Pages \ {p} : task'[q] = task[q],
           \A q \in Pages : task[q].pc = "cells" => SameFile(q, search.level),
           task'[p].pc = "creates" => task'[p].i = 1,
           task'[p].pc = "page"    => request.path = "/second",
           task'[p].pc = "cells"   => /\ request.path = "/third"
                                      /\ task'[p].i \in 1 .. Len(addr'[<<p, search.level>>]) + 1
    PROVE  Kinds'
BY DEF Kinds, SameFile

\* A file has as many addresses as it is long.
LEMMA FileSize ==
    ASSUME NEW key, NEW f, NEW g, IsFile(key, f, g)
    PROVE  IsFiniteSet(Range(f)) /\ Cardinality(Range(f)) = Len(f) /\ Range(f) \subseteq Addresses
<1>1. /\ DOMAIN f = 1 .. Len(f) /\ Len(f) \in Nat /\ f \in Seq(Addresses)
      /\ \A i, j \in 1 .. Len(f) : f[i] = f[j] => i = j
  BY FileIs DEF IsFile
<1>2. \A x : x \in Range(f) <=> \E i \in 1 .. Len(f) : x = f[i]
  BY <1>1, InRange
<1>3. f \in Bijection(1 .. Len(f), Range(f))
  <2>1. f \in [1 .. Len(f) -> Range(f)]
    BY <1>1, <1>2
  <2> QED
    BY <1>1, <1>2, <2>1 DEF Bijection, Injection, Surjection, IsInjective
<1> DEFINE n == Len(f)
<1>4. n \in Nat
  BY <1>1
<1> HIDE DEF n
<1>5. IsFiniteSet(1 .. n) /\ Cardinality(1 .. n) = n
  BY <1>4, FS_Interval
<1>6. f \in Bijection(1 .. n, Range(f))
  BY <1>3 DEF n
<1>7. IsFiniteSet(Range(f)) /\ Cardinality(Range(f)) = n
  BY <1>5, <1>6, FS_Bijection DEF ExistsBijection
<1> QED
  BY <1>1, <1>7, InRange DEF n

\* A task that is committed has not found anything.
LEMMA CommitSearch ==
    ASSUME FilesInv, MainInv, PoolInv, SearchInv, Commit
    PROVE  SearchInv'
<1>1. /\ pc = "commit" /\ at' \in Left /\ \A q \in Left : at' <= q
      /\ tasks' = Append(tasks, at')
      /\ UNCHANGED <<httpVars, target, pc, files, search, allSize, task>>
  BY DEF Commit
<1>2. at' \in Pages /\ at' > at /\ tasks \in Seq(Pages)
  BY <1>1 DEF Left, PoolInv
<1>3. Range(tasks') = Range(tasks) \cup {at'}
  BY <1>1, <1>2, AppendRange
<1>4. ASSUME NEW q \in Pages PROVE Created(q)' <=> Created(q)
  <2>1. at \in Nat /\ at' \in Nat /\ q \in Nat
    BY <1>2, PagesAre DEF MainInv
  <2>2. Created(q) => Created(q)'
    BY <1>1, <1>2, <1>3, <2>1 DEF Created, files
  <2>3. ASSUME Created(q)' PROVE Created(q)
    <3>1. /\ q <= at' /\ <<q, search.level>> \in DOMAIN addr /\ q \notin Range(tasks)
          /\ q # at' /\ task[q].pc # "creates"
      BY <2>3, <1>1, <1>3 DEF Created, files
    <3>2. q <= at
      BY <3>1, <2>1, <1>1 DEF Left
    <3> QED
      BY <3>1, <3>2 DEF Created
  <2> QED
    BY <2>2, <2>3
<1>5. Kinds /\ Kinds'
  BY <1>1 DEF SearchInv, Kinds, files, httpVars
<1>6. ASSUME NEW q \in Pages, Created(q) PROVE Looked(q)' = Looked(q)
  BY <1>1, <1>5, <1>6, LookedKept DEF Created, SameFile, files, httpVars
<1> QED
  BY <1>1, <1>4, <1>5, <1>6, SearchFrame DEF files, httpVars, target

\* Neither has one that a thread has taken.
LEMMA TakeTaskSearch ==
    ASSUME FilesInv, PoolInv, SearchInv, NEW p \in Pages, TakeTask(p)
    PROVE  SearchInv'
<1>1. /\ Running /\ tasks # <<>> /\ p = Head(tasks) /\ tasks' = Tail(tasks)
      /\ task' = [task EXCEPT ![p] = [pc |-> "creates", i |-> 1, buff |-> Absent]]
      /\ UNCHANGED <<httpVars, target, pc, files, search, at, allSize>>
  BY DEF TakeTask
<1>2. tasks \in Seq(Pages) /\ task \in [Pages -> [pc : TaskPlaces, i : Nat, buff : Values \cup {Absent}]]
  BY DEF PoolInv
<1>3. pc = "commit"
  BY <1>1 DEF PoolInv, Running
<1>4. Range(tasks) = Range(tasks') \cup {p}
  <2>1. Tail(tasks) \in Seq(Pages) /\ Len(Tail(tasks)) = Len(tasks) - 1 /\ Len(tasks) \in Nat \ {0}
    BY <1>1, <1>2
  <2>2. /\ \A x : x \in Range(tasks) <=> \E i \in 1 .. Len(tasks) : x = tasks[i]
        /\ \A x : x \in Range(tasks') <=> \E i \in 1 .. Len(tasks) - 1 : x = tasks'[i]
    BY <1>1, <1>2, <2>1, InRange
  <2>3. /\ \A i \in 1 .. Len(tasks) - 1 : tasks'[i] = tasks[i + 1] /\ i + 1 \in 1 .. Len(tasks)
        /\ p = tasks[1] /\ 1 \in 1 .. Len(tasks)
    BY <1>1, <1>2, <2>1
  <2>4. \A i \in 1 .. Len(tasks) : i = 1 \/ (i - 1 \in 1 .. Len(tasks) - 1 /\ (i - 1) + 1 = i)
    BY <2>1
  <2>5. ASSUME NEW x \in Range(tasks) PROVE x \in Range(tasks') \cup {p}
    <3>1. PICK i \in 1 .. Len(tasks) : x = tasks[i]
      BY <2>2
    <3>2. CASE i = 1
      BY <3>1, <3>2, <2>3
    <3>3. CASE i - 1 \in 1 .. Len(tasks) - 1 /\ (i - 1) + 1 = i
      <4>1. x = tasks'[i - 1]
        BY <3>1, <3>3, <2>3
      <4> QED
        BY <4>1, <3>3, <2>2
    <3> QED
      BY <3>2, <3>3, <2>4
  <2> QED
    BY <2>2, <2>3, <2>5
<1>5. p \in Range(tasks) /\ task'[p].pc = "creates" /\ task'[p].i = 1
      /\ \A q \in Pages \ {p} : task'[q] = task[q]
  BY <1>1, <1>2, <1>4
<1>6. ASSUME NEW q \in Pages PROVE Created(q)' <=> Created(q)
  BY <1>1, <1>4, <1>5 DEF Created, files
<1>7. Kinds /\ Kinds'
  <2>1. Kinds
    BY <1>3 DEF SearchInv
  <2>2. UNCHANGED <<request, search>> /\ \A q \in Pages : SameFile(q, search.level)
    BY <1>1 DEF files, httpVars, SameFile
  <2> QED
    BY <2>1, <2>2, <1>3, <1>5, KindsKept
<1>8. ASSUME NEW q \in Pages, Created(q) PROVE Looked(q)' = Looked(q)
  <2>1. q # p /\ <<q, search.level>> \in DOMAIN addr
    BY <1>5, <1>8 DEF Created
  <2> QED
    BY <2>1, <1>1, <1>5, <1>7, LookedKept DEF SameFile, files, httpVars
<1> QED
  BY <1>1, <1>6, <1>7, <1>8, SearchFrame DEF files, httpVars, target

\* A file of the task's own, and empty: it has not looked at anything yet.
LEMMA CreatNextSearch ==
    ASSUME FilesInv, MainInv, PoolInv, SearchInv, NEW p \in Pages, CreatNext(p)
    PROVE  FilesInv' /\ SearchInv'
<1> DEFINE l == search.level
           key == <<p, search.level + 1>>
<1>1. /\ Running /\ task[p].pc = "creates"
      /\ addr' = Creat(addr, key) /\ data' = Creat(data, key)
      /\ task' = [task EXCEPT ![p].pc = IF request.path = "/second" THEN "page" ELSE "cells"]
      /\ UNCHANGED <<httpVars, target, pc, search, at, allSize, tasks>>
  BY DEF CreatNext, Is, Goes
<1>2. /\ pc = "commit" /\ p <= at /\ p \notin Range(tasks) /\ <<p, l>> \in DOMAIN addr /\ l \in Nat \ {0}
  BY <1>1, Working
<1>3. /\ Elsewhere(p, l + 1) /\ addr'[key] = <<>> /\ data'[key] = <<>>
  BY <1>1, CreatIs DEF Elsewhere, FilesInv
<1>4. FilesInv'
  <2>1. l + 1 \in Nat \ {0} /\ (l + 1) - 1 = l
    BY <1>2
  <2>2. IsFile(<<p, l + 1>>, addr'[<<p, l + 1>>], data'[<<p, l + 1>>])
    BY <1>3, EmptyFile
  <2> QED
    BY <2>1, <2>2, <1>2, <1>3, OneFile
<1>5. Kinds
  BY <1>2 DEF SearchInv
<1>6. /\ task'[p].pc = IF request.path = "/second" THEN "page" ELSE "cells"
      /\ task'[p].i = 1 /\ \A q \in Pages \ {p} : task'[q] = task[q]
  BY <1>1, <1>5 DEF PoolInv, Kinds
<1>7. ASSUME NEW q \in Pages, <<q, l>> \in DOMAIN addr PROVE SameFile(q, l)
  BY <1>2, <1>3, <1>7 DEF Elsewhere, SameFile
<1>8. Kinds'
  <2>1. \A q \in Pages : task[q].pc = "cells" => SameFile(q, l)
    BY <1>1, <1>7, Working
  <2>2. task'[p].pc = "cells" => request.path = "/third" /\ task'[p].i \in 1 .. Len(addr'[<<p, l>>]) + 1
    <3>1. addr'[<<p, l>>] = addr[<<p, l>>]
      BY <1>2, <1>7 DEF SameFile
    <3>2. Len(addr[<<p, l>>]) \in Nat
      BY <1>2, FileIs DEF FilesInv
    <3> QED
      BY <3>1, <3>2, <1>5, <1>6 DEF Kinds
  <2> QED
    BY <2>1, <2>2, <1>1, <1>2, <1>5, <1>6, KindsKept DEF httpVars
<1>9. ~Created(p) /\ Created(p)'
  BY <1>1, <1>2, <1>3, <1>6 DEF Created, Elsewhere
<1>10. NewOn(p)' = {}
  <2>1. NewOn(p)' = Range(addr'[<<p, search'.level + 1>>])
    BY DEF NewOn
  <2> QED
    BY <2>1, <1>1, <1>3, EmptyRange
<1>11. Looked(p)' = {}
  <2>1. CASE task'[p].pc = "page"
    BY <2>1 DEF Looked
  <2>2. CASE task'[p].pc = "cells"
    <3>1. Looked(p)' = {addr'[<<p, search'.level>>][i] : i \in 1 .. task'[p].i - 1}
      BY <2>2 DEF Looked
    <3>2. 1 .. task'[p].i - 1 = {}
      BY <1>6
    <3> QED
      BY <3>1, <3>2
  <2> QED
    BY <2>1, <2>2, <1>6
<1>12. RightOn(p)'
  BY <1>1, <1>3, <1>10, <1>11 DEF RightOn, Elsewhere
<1>13. allSize' = allSize + Cardinality({})
  BY <1>1, FS_EmptySet DEF MainInv
<1> QED
  BY <1>1, <1>2, <1>3, <1>4, <1>6, <1>8, <1>9, <1>10, <1>12, <1>13, SearchStep DEF httpVars, target

\* What is found goes to the end of the page's file.
LEMMA FoundFiles ==
    ASSUME FilesInv, NEW p, NEW f, NEW g, Found(p, f, g), <<p, search.level + 1>> \in DOMAIN addr
    PROVE  /\ Elsewhere(p, search.level + 1)
           /\ addr'[<<p, search.level + 1>>] = addr[<<p, search.level + 1>>] \o f
           /\ data'[<<p, search.level + 1>>] = data[<<p, search.level + 1>>] \o g
<1> PICK key : key = <<p, search.level + 1>>
  OBVIOUS
<1>1. addr' = AppendAll(addr, key, f) /\ data' = AppendAll(data, key, g)
  BY DEF Found
<1>2. key \in DOMAIN addr
  OBVIOUS
<1>3. key \in DOMAIN data
  BY DEF FilesInv
<1>4. /\ DOMAIN addr' = DOMAIN addr /\ addr'[key] = addr[key] \o f
      /\ \A k \in DOMAIN addr \ {key} : addr'[k] = addr[k]
  <2>1. /\ DOMAIN AppendAll(addr, key, f) = DOMAIN addr
        /\ AppendAll(addr, key, f)[key] = addr[key] \o f
        /\ \A k \in DOMAIN addr \ {key} : AppendAll(addr, key, f)[k] = addr[k]
    BY <1>2 DEF AppendAll
  <2> QED
    BY <2>1, <1>1
<1>5. /\ DOMAIN data' = DOMAIN data /\ data'[key] = data[key] \o g
      /\ \A k \in DOMAIN data \ {key} : data'[k] = data[k]
  <2>1. /\ DOMAIN AppendAll(data, key, g) = DOMAIN data
        /\ AppendAll(data, key, g)[key] = data[key] \o g
        /\ \A k \in DOMAIN data \ {key} : AppendAll(data, key, g)[k] = data[k]
    BY <1>3 DEF AppendAll
  <2> QED
    BY <2>1, <1>1
<1> QED
  BY <1>2, <1>3, <1>4, <1>5 DEF Elsewhere, FilesInv

\* Second looks at a whole page.
LEMMA ScanPageSearch ==
    ASSUME FilesInv, TargetInv, MainInv, PoolInv, SearchInv, NEW p \in Pages, ScanPage(p)
    PROVE  FilesInv' /\ SearchInv'
<1> DEFINE old     == data[<<p, 1>>]
           passing == {i \in 1 .. Len(old) : Passes(old[i], memory[<<p, i>>])}
           key     == <<p, search.level + 1>>
           F(hits) == [j \in DOMAIN hits |-> <<p, hits[j]>>]
           G(hits) == [j \in DOMAIN hits |-> memory[<<p, hits[j]>>]]
<1>1. /\ Running /\ task[p].pc = "page"
      /\ IF p \in mapped THEN \E hits \in Ascending(passing) : Found(p, F(hits), G(hits))
         ELSE UNCHANGED <<files, allSize>>
      /\ task' = [task EXCEPT ![p].pc = "ends"]
      /\ UNCHANGED <<httpVars, target, pc, search, at, tasks>>
  BY DEF ScanPage, Is, Goes
<1>2. /\ pc = "commit" /\ p <= at /\ p \notin Range(tasks) /\ <<p, search.level>> \in DOMAIN addr
  BY <1>1, Working
<1>3. Kinds /\ request.path = "/second" /\ search.level = 1
  BY <1>1, <1>2 DEF SearchInv, Kinds
<1>4. Created(p) /\ RightOn(p)
  BY <1>1, <1>2 DEF Created, SearchInv
<1>5. key \in DOMAIN addr /\ IsFile(key, addr[key], data[key]) /\ addr[key] = <<>> /\ data[key] = <<>>
  <2>1. key \in DOMAIN addr /\ NewOn(p) = {}
    BY <1>1, <1>4 DEF RightOn, Looked
  <2>2. IsFile(key, addr[key], data[key])
    BY <2>1 DEF FilesInv
  <2>3. addr[key] \in Seq(Addresses) /\ data[key] \in Seq(Values) /\ Len(addr[key]) = Len(data[key])
    BY <2>2, <1>3 DEF IsFile
  <2>4. Len(addr[key]) = 0
    <3>1. ASSUME Len(addr[key]) # 0 PROVE FALSE
      <4>1. 1 \in 1 .. Len(addr[key])
        BY <2>3, <3>1
      <4>2. addr[key][1] \in Range(addr[key])
        BY <2>3, <4>1, InRange
      <4> QED
        BY <4>2, <2>1 DEF NewOn
    <3> QED
      BY <3>1
  <2>5. addr[key] = <<>>
    BY <2>3, <2>4, EmptySeq
  <2>6. data[key] = <<>>
    BY <2>3, <2>4, EmptySeq
  <2> QED
    BY <2>1, <2>2, <2>5, <2>6
<1>6. /\ task'[p].pc = "ends" /\ \A q \in Pages \ {p} : task'[q] = task[q]
  BY <1>1 DEF PoolInv
<1>7. passing \in SUBSET (1 .. Cells[p]) /\ \A i \in 1 .. Len(old) : <<p, i>> \in Addresses
  <2>1. Len(old) <= Cells[p] /\ Len(old) \in Nat /\ Cells[p] \in Nat
    BY <1>2, <1>3, FileIs, PagesAre DEF FilesInv, IsFile
  <2>2. 1 .. Len(old) \subseteq 1 .. Cells[p]
    BY <2>1
  <2> QED
    BY <2>2, AddressesAre
<1> HIDE DEF passing
<1>8. CASE p \notin mapped
  <2>1. UNCHANGED <<addr, data, allSize>> /\ changes # 0
    BY <1>1, <1>8 DEF files, TargetInv
  <2>2. FilesInv'
    BY <2>1 DEF FilesInv
  <2>3. Elsewhere(p, search.level + 1)
    BY <2>1, <1>5 DEF Elsewhere, FilesInv
  <2>4. Kinds'
    BY <2>1, <1>1, <1>2, <1>3, <1>6, KindsKept DEF SameFile, httpVars
  <2>5. Created(p)'
    BY <2>1, <1>1, <1>4, <1>6 DEF Created
  <2>6. NewOn(p)' = NewOn(p) /\ NewOn(p) = {}
    <3>1. NewOn(p)' = NewOn(p)
      BY <2>1, <1>1 DEF NewOn
    <3> QED
      BY <3>1, <1>5, EmptyRange DEF NewOn
  <2>7. RightOn(p)'
    BY <2>1, <2>6, <1>1, <1>5 DEF RightOn, target
  <2>8. allSize' = allSize + Cardinality({})
    BY <2>1, FS_EmptySet DEF MainInv
  <2> QED
    BY <2>2, <2>3, <2>4, <2>5, <2>6, <2>7, <2>8, <1>1, <1>2, <1>4, <1>6, SearchStep DEF httpVars, target
<1>9. CASE p \in mapped
  <2>1. PICK hits \in Ascending(passing) : Found(p, F(hits), G(hits))
    BY <1>1, <1>9
  <2> DEFINE f == F(hits)
             g == G(hits)
             D == {<<p, i>> : i \in passing}
  <2>2. /\ IsFile(key, f, g) /\ Range(f) = D /\ \A a \in Range(f) : ValueIn(f, g, a) = memory[a]
    <3>1. search.level + 1 # 1
      BY <1>3
    <3> QED
      BY <3>1, <1>7, FileOfHits DEF TargetInv
  <2>3. Found(p, f, g) /\ allSize' = allSize + Len(f)
    BY <2>1 DEF Found
  <2> HIDE DEF f, g
  <2>4. /\ Elsewhere(p, search.level + 1) /\ addr'[key] = f /\ data'[key] = g
    <3>1. f \in Seq(Addresses) /\ g \in Seq(Values)
      BY <2>2 DEF IsFile
    <3>2. addr[key] \o f = f /\ data[key] \o g = g
      BY <3>1, <1>5, ConcatEmptySeq
    <3>3. /\ Elsewhere(p, search.level + 1)
          /\ addr'[key] = addr[key] \o f /\ data'[key] = data[key] \o g
      BY <2>3, <1>5, FoundFiles
    <3> QED
      BY <3>2, <3>3
  <2>5. FilesInv'
    <3>1. search.level + 1 \in Nat \ {0} /\ (search.level + 1) - 1 = search.level
      BY <1>3
    <3> QED
      BY <3>1, <2>2, <2>4, <1>2, OneFile
  <2>6. \A q \in Pages : <<q, search.level>> \in DOMAIN addr => SameFile(q, search.level)
    BY <2>4, <1>3 DEF Elsewhere, SameFile
  <2>7. Kinds'
    <3>1. \A q \in Pages : task[q].pc = "cells" => SameFile(q, search.level)
      BY <2>6, <1>1, Working
    <3> QED
      BY <3>1, <1>1, <1>2, <1>3, <1>6, KindsKept DEF httpVars
  <2>8. Created(p)'
    BY <1>1, <1>2, <1>6, <2>4 DEF Created, Elsewhere
  <2>9. NewOn(p)' = D /\ NewOn(p) = {}
    <3>1. NewOn(p)' = Range(addr'[<<p, search'.level + 1>>])
      BY DEF NewOn
    <3> QED
      BY <3>1, <2>2, <2>4, <1>1, <1>5, EmptyRange DEF NewOn
  <2>10. Looked(p)' = {<<p, i>> : i \in 1 .. Len(old)}
    <3>1. Looked(p)' = OnPage(p)'
      BY <1>6 DEF Looked
    <3>2. OnPage(p)' = {<<p, i>> : i \in 1 .. Len(data'[<<p, 1>>])}
      BY <1>1, <1>3 DEF OnPage, httpVars
    <3>3. data'[<<p, 1>>] = old
      BY <2>6, <1>2, <1>3 DEF SameFile
    <3> QED
      BY <3>1, <3>2, <3>3
  <2>11. ASSUME NEW i \in 1 .. Len(old) PROVE Old(<<p, i>>)' = old[i]
    <3>1. SameFile(p, search.level)
      BY <2>6, <1>2
    <3>2. Old(<<p, i>>)' = Old(<<p, i>>)
      BY <3>1, <1>1, OldKept
    <3> QED
      BY <3>2, <1>3, OldIs
  <2>12. ASSUME NEW a \in D PROVE Fits(a)'
    <3>1. PICK i \in passing : a = <<p, i>>
      OBVIOUS
    <3>2. i \in 1 .. Len(old) /\ Passes(old[i], memory[a])
      BY <3>1 DEF passing
    <3>3. NewAt(a)' = memory[a]
      <4>1. NewAt(a)' = ValueIn(addr'[<<a[1], search'.level + 1>>], data'[<<a[1], search'.level + 1>>], a)
        BY DEF NewAt, ValueAt, ValueIn
      <4> QED
        BY <4>1, <3>1, <2>2, <2>4, <1>1
    <3>4. Old(a)' = old[i]
      BY <3>1, <3>2, <2>11
    <3> QED
      BY <3>2, <3>3, <3>4, <1>1 DEF Fits, Passes
  <2>13. ASSUME NEW i \in 1 .. Len(old), i \notin passing PROVE ~Fit(<<p, i>>)'
    <3>1. ~Passes(old[i], memory[<<p, i>>])
      BY <2>13 DEF passing
    <3> QED
      BY <3>1, <2>11, <1>1 DEF Fit, Passes, target
  <2>14. RightOn(p)'
    <3>1. D \subseteq Looked(p)'
      BY <2>10 DEF passing
    <3>2. ASSUME NEW a \in Looked(p)' \ D PROVE ~Fit(a)'
      <4>1. PICK i \in 1 .. Len(old) : a = <<p, i>>
        BY <2>10
      <4>2. i \notin passing
        BY <4>1, <3>2
      <4> QED
        BY <4>1, <4>2, <2>13
    <3> HIDE DEF D
    <3> QED
      BY <3>1, <3>2, <2>4, <2>9, <2>12, <1>1 DEF RightOn, Elsewhere
  <2>15. D \in SUBSET Addresses /\ allSize' = allSize + Cardinality(D)
    BY <2>2, <2>3, FileSize
  <2> HIDE DEF D
  <2>16. NewOn(p)' = NewOn(p) \cup D /\ NewOn(p) \cap D = {}
    BY <2>9
  <2> QED
    BY <2>4, <2>5, <2>7, <2>8, <2>14, <2>15, <2>16, <1>1, <1>2, <1>4, <1>6, SearchStep DEF httpVars, target
<1> QED
  BY <1>8, <1>9

\* Third looks at one address after the other.
LEMMA ScanCellSearch ==
    ASSUME FilesInv, TargetInv, MainInv, PoolInv, SearchInv, NEW p \in Pages, ScanCell(p)
    PROVE  FilesInv' /\ SearchInv'
<1> DEFINE l   == search.level
           f   == addr[<<p, search.level>>]
           g   == data[<<p, search.level>>]
           key == <<p, search.level + 1>>
           i   == task[p].i
           a   == f[i]
<1>1. PICK buff \in IF a[1] \in mapped THEN {memory[a]}
                    ELSE IF task[p].buff = Absent THEN Values ELSE {task[p].buff} :
         /\ task' = [task EXCEPT ![p].buff = buff, ![p].i = i + 1]
         /\ IF Passes(g[i], buff) THEN Found(p, <<a>>, <<buff>>) ELSE UNCHANGED <<files, allSize>>
  BY DEF ScanCell
<1>2. /\ Running /\ task[p].pc = "cells" /\ i <= Len(f)
      /\ UNCHANGED <<httpVars, target, pc, search, at, tasks>>
  BY DEF ScanCell, Is
<1>3. pc = "commit" /\ p <= at /\ p \notin Range(tasks) /\ <<p, l>> \in DOMAIN addr /\ l \in Nat \ {0}
  BY <1>2, Working
<1>4. /\ IsFile(<<p, l>>, f, g) /\ f \in Seq(Addresses) /\ Len(f) \in Nat
      /\ \A j \in 1 .. Len(f) : f[j] \in Addresses /\ f[j][1] = p
  BY <1>3, FileIs DEF FilesInv, IsFile
<1>5. Kinds /\ request.path = "/third" /\ i \in 1 .. Len(f)
  BY <1>2, <1>3, <1>4 DEF SearchInv, Kinds
<1>6. Created(p) /\ RightOn(p) /\ key \in DOMAIN addr /\ IsFile(key, addr[key], data[key])
  BY <1>2, <1>3 DEF Created, SearchInv, RightOn, FilesInv
<1>7. a \in Addresses /\ a[1] = p
  BY <1>4, <1>5
<1>8. /\ task'[p].pc = "cells" /\ task'[p].i = i + 1 /\ \A q \in Pages \ {p} : task'[q] = task[q]
  BY <1>1, <1>2 DEF PoolInv
<1>9. buff \in Values /\ (changes = 0 => buff = memory[a])
  <2>1. task[p].buff \in Values \cup {Absent} /\ (a[1] \in mapped => memory[a] \in Values)
    BY <1>7 DEF PoolInv, TargetInv
  <2>2. changes = 0 => a[1] \in mapped
    BY <1>7 DEF TargetInv
  <2> QED
    BY <1>1, <2>1, <2>2
<1>10. Old(a) = g[i]
  <2>1. CASE l = 1
    <3>1. a[2] = i
      BY <2>1, <1>4, <1>5 DEF IsFile
    <3> QED
      BY <2>1, <3>1, <1>7, OldIs
  <2>2. CASE l # 1
    <3>1. ValueIn(f, g, a) = g[i]
      BY <1>4, <1>5, ValueInFile
    <3> QED
      BY <2>2, <3>1, <1>7, OldIs
  <2> QED
    BY <2>1, <2>2
<1>11. /\ Looked(p) = {f[j] : j \in 1 .. i - 1}
       /\ NewOn(p) \subseteq Looked(p) /\ \A b \in NewOn(p) : b[2] < a[2] /\ b[1] = p
  <2>1. Looked(p) = {f[j] : j \in 1 .. i - 1}
    BY <1>2 DEF Looked
  <2>2. \A j \in 1 .. i - 1 : j \in 1 .. Len(f) /\ j < i
    BY <1>4, <1>5
  <2>3. \A j \in 1 .. i - 1 : f[j][2] < a[2] /\ f[j][1] = p
    BY <2>2, <1>4, <1>5 DEF IsFile
  <2>4. NewOn(p) \subseteq Looked(p)
    BY <1>6 DEF RightOn
  <2> QED
    BY <2>1, <2>3, <2>4
<1>12. ASSUME NEW D \in SUBSET {a}, Elsewhere(p, l + 1), IsFile(key, addr'[key], data'[key]),
              Range(addr'[key]) = NewOn(p) \cup D,
              \A b \in NewOn(p) : ValueIn(addr'[key], data'[key], b) = ValueIn(addr[key], data[key], b),
              D = {a} => Passes(g[i], buff) /\ ValueIn(addr'[key], data'[key], a) = buff,
              D = {} => ~Passes(g[i], buff),
              allSize' = allSize + Cardinality(D)
       PROVE  FilesInv' /\ SearchInv'
  <2>1. FilesInv'
    <3>1. l + 1 \in Nat \ {0} /\ (l + 1) - 1 = l
      BY <1>3
    <3> QED
      BY <3>1, <1>3, <1>12, OneFile
  <2>2. \A q \in Pages : <<q, l>> \in DOMAIN addr => SameFile(q, l)
    BY <1>3, <1>12 DEF Elsewhere, SameFile
  <2>3. addr'[<<p, l>>] = f
    BY <2>2, <1>3 DEF SameFile
  <2>4. Kinds'
    <3>1. \A q \in Pages : task[q].pc = "cells" => SameFile(q, l)
      BY <2>2, <1>2, Working
    <3>2. i + 1 \in 1 .. Len(f) + 1
      BY <1>4, <1>5
    <3> QED
      BY <3>1, <3>2, <2>3, <1>2, <1>3, <1>5, <1>8, KindsKept DEF httpVars
  <2>5. Created(p)'
    BY <1>2, <1>3, <1>8, <1>12 DEF Created, Elsewhere
  <2>6. NewOn(p)' = NewOn(p) \cup D
    <3>1. NewOn(p)' = Range(addr'[<<p, search'.level + 1>>])
      BY DEF NewOn
    <3> QED
      BY <3>1, <1>2, <1>12
  <2>7. Looked(p)' = Looked(p) \cup {a}
    <3>1. Looked(p)' = {f[j] : j \in 1 .. (i + 1) - 1}
      <4>1. Looked(p)' = {addr'[<<p, search'.level>>][j] : j \in 1 .. task'[p].i - 1}
        BY <1>8 DEF Looked
      <4> QED
        BY <4>1, <2>3, <1>2, <1>8
    <3>2. 1 .. (i + 1) - 1 = (1 .. i - 1) \cup {i}
      BY <1>4, <1>5
    <3> QED
      BY <3>1, <3>2, <1>11
  <2>8. ASSUME NEW b, b[1] = p PROVE Old(b)' = Old(b)
    <3>1. SameFile(b[1], l)
      BY <2>2, <2>8, <1>3
    <3> QED
      BY <3>1, <1>2, OldKept
  <2>9. ASSUME NEW b, b[1] = p
        PROVE  /\ NewAt(b)' = ValueIn(addr'[key], data'[key], b)
               /\ NewAt(b) = ValueIn(addr[key], data[key], b)
    <3>1. NewAt(b)' = ValueIn(addr'[<<b[1], search'.level + 1>>], data'[<<b[1], search'.level + 1>>], b)
      BY DEF NewAt, ValueAt, ValueIn
    <3> QED
      BY <3>1, <2>9, <1>2, NewAtIs
  <2>10. ASSUME NEW b \in NewOn(p)' PROVE Fits(b)'
    <3>1. CASE b \in NewOn(p)
      <4>1. Fits(b) /\ b[1] = p
        BY <3>1, <1>6, <1>11 DEF RightOn
      <4>2. Old(b)' = Old(b) /\ NewAt(b)' = NewAt(b)
        BY <3>1, <4>1, <2>8, <2>9, <1>12
      <4> QED
        BY <4>1, <4>2, <1>2, FitsKept
    <3>2. CASE D = {a} /\ b = a
      <4>1. Old(b)' = g[i] /\ NewAt(b)' = buff /\ Passes(g[i], buff)
        BY <3>2, <2>8, <2>9, <1>7, <1>10, <1>12
      <4> QED
        BY <4>1, <1>2 DEF Fits, Passes
    <3> QED
      BY <3>1, <3>2, <2>6
  <2>11. ASSUME changes' = 0, NEW b \in Looked(p)' \ NewOn(p)' PROVE ~Fit(b)'
    <3>1. changes = 0 /\ UNCHANGED <<memory, search>>
      BY <2>11, <1>2 DEF target
    <3>2. CASE b \in Looked(p)
      <4>1. ~Fit(b) /\ b[1] = p
        <5>1. b \in OnPage(p) /\ \A c \in OnPage(p) : c[1] = p
          BY <3>2, <1>3, <1>5, LookedOnPage
        <5> QED
          BY <5>1, <3>1, <3>2, <2>6, <2>11, <1>6 DEF RightOn
      <4>2. Old(b)' = Old(b)
        BY <4>1, <2>8
      <4> QED
        BY <4>1, <4>2, <3>1, FitKept
    <3>3. CASE b = a
      <4>1. D = {}
        BY <3>3, <2>6, <2>11
      <4>2. Old(b)' = g[i] /\ memory'[b] = buff /\ ~Passes(g[i], buff)
        BY <4>1, <3>1, <3>3, <2>8, <1>7, <1>9, <1>10, <1>12
      <4> QED
        BY <4>2, <3>1 DEF Fit, Passes
    <3> QED
      BY <3>2, <3>3, <2>7, <2>11
  <2>12. RightOn(p)'
    BY <2>6, <2>7, <2>10, <2>11, <1>2, <1>6, <1>11, <1>12 DEF RightOn, Elsewhere
  <2>13. NewOn(p) \cap D = {}
    <3>1. a[2] \in Nat
      BY <1>7, AddressesAre
    <3> QED
      BY <3>1, <1>11
  <2>14. D \in SUBSET Addresses
    BY <1>7
  <2> QED
    BY <2>1, <2>4, <2>5, <2>6, <2>12, <2>13, <2>14, <1>2, <1>3, <1>6, <1>8, <1>12, SearchStep DEF httpVars, target
<1>13. CASE Passes(g[i], buff)
  <2>1. Found(p, <<a>>, <<buff>>)
    BY <1>1, <1>13
  <2>2. /\ Elsewhere(p, l + 1) /\ addr'[key] = addr[key] \o <<a>> /\ data'[key] = data[key] \o <<buff>>
    BY <2>1, <1>6, FoundFiles
  <2>3. allSize' = allSize + 1
    BY <2>1 DEF Found
  <2>4. Range(addr[key]) = NewOn(p)
    BY DEF NewOn
  <2>5. key[2] # 1 /\ a[1] = key[1] /\ \A b \in Range(addr[key]) : b[2] < a[2]
    BY <2>4, <1>3, <1>7, <1>11
  <2>6. /\ IsFile(key, addr'[key], data'[key]) /\ Range(addr'[key]) = Range(addr[key]) \cup {a}
        /\ ValueIn(addr'[key], data'[key], a) = buff
        /\ \A b \in Range(addr[key]) : ValueIn(addr'[key], data'[key], b) = ValueIn(addr[key], data[key], b)
    <3>1. PICK k, u, w, c, F, G : /\ k = key /\ u = addr[key] /\ w = data[key] /\ c = a
                                  /\ F = addr'[key] /\ G = data'[key]
      OBVIOUS
    <3>2. IsFile(k, u, w) /\ c \in Addresses /\ buff \in Values
      BY <3>1, <1>6, <1>7, <1>9
    <3>3. k[2] # 1 /\ c[1] = k[1] /\ \A b \in Range(u) : b[2] < c[2]
      BY <3>1, <2>5
    <3>4. F = u \o <<c>> /\ G = w \o <<buff>>
      BY <3>1, <2>2
    <3>5. LongerFile(k, u, w, c, buff, F, G)
      BY <3>2, <3>3, <3>4, FileGrows
    <3> HIDE DEF key, a
    <3> QED
      BY <3>1, <3>5 DEF LongerFile
  <2>7. Cardinality({a}) = 1
    BY FS_Singleton
  <2> QED
    BY <2>2, <2>3, <2>4, <2>6, <2>7, <1>12, <1>13
<1>14. CASE ~Passes(g[i], buff)
  <2>1. UNCHANGED <<addr, data, allSize>>
    BY <1>1, <1>14 DEF files
  <2>2. Elsewhere(p, l + 1)
    BY <2>1, <1>6 DEF Elsewhere, FilesInv
  <2>3. Cardinality({}) = 0 /\ allSize \in Nat /\ Range(addr[key]) = NewOn(p)
    BY FS_EmptySet DEF MainInv, NewOn
  <2> QED
    BY <2>1, <2>2, <2>3, <1>6, <1>12, <1>14
<1> QED
  BY <1>13, <1>14

\* At the end of its loop it has looked at all of them.
LEMMA CellsEndSearch ==
    ASSUME FilesInv, PoolInv, SearchInv, NEW p \in Pages, CellsEnd(p)
    PROVE  SearchInv'
<1>1. /\ Running /\ task[p].pc = "cells" /\ task[p].i > Len(addr[<<p, search.level>>])
      /\ task' = [task EXCEPT ![p].pc = "ends"]
      /\ UNCHANGED <<httpVars, target, pc, files, search, at, allSize, tasks>>
  BY DEF CellsEnd, Is, Goes
<1>2. pc = "commit" /\ <<p, search.level>> \in DOMAIN addr
  BY <1>1, Working
<1>3. task'[p].pc = "ends" /\ \A q \in Pages \ {p} : task'[q] = task[q]
  BY <1>1 DEF PoolInv
<1>4. Kinds /\ Kinds'
  BY <1>1, <1>2, <1>3, KindsKept DEF SearchInv, SameFile, files, httpVars
<1>5. ASSUME NEW q \in Pages PROVE Created(q)' <=> Created(q)
  BY <1>1, <1>3 DEF Created, files
<1>6. Looked(p)' = Looked(p)
  <2> DEFINE f == addr[<<p, search.level>>]
  <2>1. f \in Seq(Addresses) /\ Len(f) \in Nat
    BY <1>2, FileIs DEF FilesInv, IsFile
  <2>2. task[p].i - 1 = Len(f) /\ request.path = "/third"
    <3>1. task[p].i \in 1 .. Len(f) + 1 /\ task[p].i > Len(f) /\ request.path = "/third"
      BY <1>1, <1>4 DEF Kinds
    <3> HIDE DEF f
    <3> QED
      BY <3>1, <2>1
  <2>3. Looked(p) = {f[i] : i \in 1 .. Len(f)}
    BY <2>2, <1>1 DEF Looked
  <2>4. Looked(p)' = OnPage(p)'
    BY <1>3 DEF Looked
  <2>5. OnPage(p)' = Range(f)
    BY <2>2, <1>1 DEF OnPage, files, httpVars
  <2> QED
    BY <2>1, <2>3, <2>4, <2>5, RangeEquality
<1>7. ASSUME NEW q \in Pages, Created(q) PROVE Looked(q)' = Looked(q)
  <2>1. CASE q = p
    BY <2>1, <1>6
  <2>2. CASE q # p
    BY <2>2, <1>1, <1>3, <1>4, <1>7, LookedKept DEF Created, SameFile, files, httpVars
  <2> QED
    BY <2>1, <2>2
<1> QED
  BY <1>1, <1>4, <1>5, <1>7, SearchFrame DEF files, httpVars, target

\* A task that ends has found what it had.
LEMMA CountSearch ==
    ASSUME FilesInv, PoolInv, SearchInv, NEW p \in Pages, Count(p)
    PROVE  SearchInv'
<1>1. /\ Running /\ task[p].pc = "ends" /\ task' = [task EXCEPT ![p] = Resting]
      /\ UNCHANGED <<httpVars, target, pc, files, search, at, allSize, tasks>>
  BY DEF Count, Is
<1>2. pc = "commit" /\ <<p, search.level>> \in DOMAIN addr
  BY <1>1, Working
<1>3. task'[p].pc = "none" /\ \A q \in Pages \ {p} : task'[q] = task[q]
  BY <1>1 DEF PoolInv, Resting
<1>4. Kinds /\ Kinds'
  BY <1>1, <1>2, <1>3, KindsKept DEF SearchInv, SameFile, files, httpVars
<1>5. ASSUME NEW q \in Pages PROVE Created(q)' <=> Created(q)
  BY <1>1, <1>3 DEF Created, files
<1>6. Looked(p)' = Looked(p)
  <2>1. OnPage(p)' = OnPage(p)
    BY <1>1 DEF OnPage, files, httpVars
  <2> QED
    BY <2>1, <1>1, <1>3 DEF Looked
<1>7. ASSUME NEW q \in Pages, Created(q) PROVE Looked(q)' = Looked(q)
  <2>1. CASE q = p
    BY <2>1, <1>6
  <2>2. CASE q # p
    BY <2>2, <1>1, <1>3, <1>4, <1>7, LookedKept DEF Created, SameFile, files, httpVars
  <2> QED
    BY <2>1, <2>2
<1> QED
  BY <1>1, <1>4, <1>5, <1>7, SearchFrame DEF files, httpVars, target
-----------------------------------------------------------------------------
(* The pool: no task is lost or counted twice.                             *)

\* The pages that are searched at present are finitely many.
LEMMA BusyFinite == IsFiniteSet(Busy) /\ Cardinality(Busy) \in Nat
<1>1. Busy \in SUBSET Pages
  BY DEF Busy
<1>2. IsFiniteSet(Busy)
  BY <1>1, PagesAre, FS_Subset
<1> QED
  BY <1>2, FS_CardinalityType

\* Steps without the pool.
LEMMA PoolFrame ==
    ASSUME PoolInv, UNCHANGED <<pc, at, search, acc, acc2, tasks>>, Busy' = Busy,
           task' \in [Pages -> [pc : TaskPlaces, i : Nat, buff : Values \cup {Absent}]],
           DOMAIN addr \subseteq DOMAIN addr'
    PROVE  PoolInv'
BY DEF PoolInv

\* Steps of the loop thread outside a search.
LEMMA PoolQuiet ==
    ASSUME PoolInv, UNCHANGED <<tasks, task>>, acc' <= acc2', acc2' <= Len(Cells), pc' # "commit",
           pc' = "crashed" \/ pc \notin {"commit", "crashed"}
    PROVE  PoolInv'
<1>1. Busy' = Busy
  BY DEF Busy
<1> QED
  BY <1>1 DEF PoolInv

\* A search begins with an idle pool.
LEMMA BeginPool ==
    ASSUME PoolInv, NEW level, pc = "handle", Begin(level)
    PROVE  PoolInv'
<1>1. /\ pc' \in {"commit", "crashed"} /\ at' = 0 /\ acc2' = 0 /\ acc' = 0 /\ UNCHANGED <<tasks, task>>
  BY DEF Begin, GoOn
<1>2. tasks = <<>> /\ Busy = {} /\ Busy' = Busy
  BY <1>1 DEF PoolInv, Busy
<1>3. Cardinality(Busy') = 0 /\ Len(tasks') = 0 /\ Range(tasks') = {}
  BY <1>1, <1>2, FS_EmptySet, EmptyRange
<1>4. Len(Cells) \in Nat
  BY PagesAre
<1> QED
  BY <1>1, <1>2, <1>3, <1>4 DEF PoolInv

\* A task that is committed is queued.
LEMMA CommitPool ==
    ASSUME MainInv, PoolInv, Commit
    PROVE  PoolInv'
<1>1. /\ pc = "commit" /\ at' \in Pages /\ at' > at /\ <<at', search.level>> \in DOMAIN addr
      /\ acc2' = acc2 + 1 /\ tasks' = Append(tasks, at')
      /\ UNCHANGED <<pc, addr, search, acc, task>>
  BY DEF Commit, Left, files
<1>2. /\ tasks \in Seq(Pages) /\ Busy' = Busy /\ Cardinality(Busy) \in Nat
      /\ at \in Nat /\ acc \in Nat /\ acc2 \in Nat /\ at' \in Nat /\ at' <= Len(Cells) /\ Len(Cells) \in Nat
  BY <1>1, BusyFinite, PagesAre DEF PoolInv, Busy, MainInv
<1>3. /\ acc + Len(tasks) + Cardinality(Busy) = acc2 /\ acc2 <= at
      /\ \A i, j \in 1 .. Len(tasks) : i # j => tasks[i] # tasks[j]
      /\ \A p \in Range(tasks) : p \notin Busy
      /\ \A p \in Range(tasks) \cup Busy : p <= at /\ <<p, search.level>> \in DOMAIN addr
  BY <1>1 DEF PoolInv
<1>4. /\ Len(tasks') = Len(tasks) + 1 /\ Len(tasks) \in Nat /\ tasks' \in Seq(Pages)
      /\ tasks'[Len(tasks) + 1] = at' /\ \A i \in 1 .. Len(tasks) : tasks'[i] = tasks[i]
      /\ Range(tasks') = Range(tasks) \cup {at'}
  BY <1>1, <1>2, AppendProperties, AppendRange
<1>5. at' \notin Range(tasks) /\ at' \notin Busy
  BY <1>1, <1>2, <1>3
<1>6. ASSUME NEW i \in 1 .. Len(tasks'), NEW j \in 1 .. Len(tasks'), i # j PROVE tasks'[i] # tasks'[j]
  <2>1. \A k \in 1 .. Len(tasks) : tasks[k] \in Range(tasks)
    BY <1>2, InRange
  <2>2. /\ i \in 1 .. Len(tasks) \/ i = Len(tasks) + 1
        /\ j \in 1 .. Len(tasks) \/ j = Len(tasks) + 1
    BY <1>4
  <2> QED
    BY <2>1, <2>2, <1>3, <1>4, <1>5, <1>6
<1>7. \A p \in Range(tasks') : p \notin Busy'
  BY <1>2, <1>3, <1>4, <1>5
<1>8. \A p \in Range(tasks') \cup Busy' : p <= at' /\ <<p, search'.level>> \in DOMAIN addr'
  <2>1. ASSUME NEW p \in Range(tasks) \cup Busy PROVE p <= at' /\ <<p, search'.level>> \in DOMAIN addr'
    <3>1. p \in Nat
      BY <1>2, InRange, PagesAre DEF Busy
    <3> QED
      BY <3>1, <1>1, <1>2, <1>3
  <2> QED
    BY <2>1, <1>1, <1>2, <1>4
<1>9. acc' <= acc2' /\ acc2' <= Len(Cells) /\ acc' + Len(tasks') + Cardinality(Busy') = acc2' /\ acc2' <= at'
  <2>1. acc2' <= at' /\ acc2' <= Len(Cells)
    BY <1>1, <1>2, <1>3
  <2>2. acc' + Len(tasks') + Cardinality(Busy') = acc2'
    BY <1>1, <1>2, <1>3, <1>4
  <2>3. acc' <= acc2'
    BY <1>1, <1>2, <1>3, <1>4
  <2> QED
    BY <2>1, <2>2, <2>3
<1> QED
  BY <1>1, <1>2, <1>4, <1>6, <1>7, <1>8, <1>9 DEF PoolInv

\* A task that is taken runs.
LEMMA TakeTaskPool ==
    ASSUME MainInv, PoolInv, NEW p \in Pages, TakeTask(p)
    PROVE  PoolInv'
<1>1. /\ Running /\ tasks # <<>> /\ p = Head(tasks) /\ tasks' = Tail(tasks)
      /\ task' = [task EXCEPT ![p] = [pc |-> "creates", i |-> 1, buff |-> Absent]]
      /\ UNCHANGED <<pc, addr, search, at, acc2, acc>>
  BY DEF TakeTask, files
<1>2. /\ tasks \in Seq(Pages) /\ task \in [Pages -> [pc : TaskPlaces, i : Nat, buff : Values \cup {Absent}]]
      /\ pc = "commit" /\ acc \in Nat /\ acc2 \in Nat
  BY <1>1 DEF PoolInv, Running, MainInv
<1>3. /\ acc + Len(tasks) + Cardinality(Busy) = acc2
      /\ \A i, j \in 1 .. Len(tasks) : i # j => tasks[i] # tasks[j]
      /\ \A q \in Range(tasks) : q \notin Busy
      /\ \A q \in Range(tasks) \cup Busy : q <= at /\ <<q, search.level>> \in DOMAIN addr
  BY <1>2 DEF PoolInv
<1>4. /\ tasks' \in Seq(Pages) /\ Len(tasks) \in Nat \ {0} /\ Len(tasks') = Len(tasks) - 1 /\ p = tasks[1]
      /\ \A i \in 1 .. Len(tasks) - 1 : tasks'[i] = tasks[i + 1]
  BY <1>1, <1>2
<1>5. /\ \A x : x \in Range(tasks) <=> \E i \in 1 .. Len(tasks) : x = tasks[i]
      /\ \A x : x \in Range(tasks') <=> \E i \in 1 .. Len(tasks') : x = tasks'[i]
  BY <1>2, <1>4, InRange
<1>6. Range(tasks') \subseteq Range(tasks) /\ p \in Range(tasks) /\ p \notin Range(tasks')
  <2>1. \A i \in 1 .. Len(tasks') : i + 1 \in 1 .. Len(tasks) /\ i + 1 # 1 /\ tasks'[i] = tasks[i + 1]
    BY <1>4
  <2>2. 1 \in 1 .. Len(tasks)
    BY <1>4
  <2> QED
    BY <2>1, <2>2, <1>3, <1>4, <1>5
<1>7. p \notin Busy /\ Busy' = Busy \cup {p}
  <2>1. p \notin Busy
    BY <1>3, <1>6
  <2>2. task'[p].pc # "none" /\ \A q \in Pages \ {p} : task'[q] = task[q]
    BY <1>1, <1>2
  <2> QED
    BY <2>1, <2>2 DEF Busy
<1>8. Cardinality(Busy') = Cardinality(Busy) + 1 /\ Cardinality(Busy) \in Nat
  BY <1>7, BusyFinite, FS_AddElement
<1>9. task' \in [Pages -> [pc : TaskPlaces, i : Nat, buff : Values \cup {Absent}]]
  BY <1>1, <1>2 DEF TaskPlaces
<1>10. acc' <= acc2' /\ acc2' <= at' /\ at' <= Len(Cells) /\ acc2' <= Len(Cells)
  BY <1>1, <1>2 DEF PoolInv
<1>11. acc' + Len(tasks') + Cardinality(Busy') = acc2'
  BY <1>1, <1>2, <1>3, <1>4, <1>8
<1>12. ASSUME NEW i \in 1 .. Len(tasks'), NEW j \in 1 .. Len(tasks'), i # j PROVE tasks'[i] # tasks'[j]
  <2>1. i + 1 \in 1 .. Len(tasks) /\ j + 1 \in 1 .. Len(tasks) /\ i + 1 # j + 1
    BY <1>4, <1>12
  <2>2. tasks'[i] = tasks[i + 1] /\ tasks'[j] = tasks[j + 1]
    BY <1>4
  <2> QED
    BY <2>1, <2>2, <1>3
<1>13. \A q \in Range(tasks') : q \notin Busy'
  BY <1>3, <1>6, <1>7
<1>14. \A q \in Range(tasks') \cup Busy' : q <= at' /\ <<q, search'.level>> \in DOMAIN addr'
  BY <1>1, <1>3, <1>6, <1>7
<1> QED
  BY <1>1, <1>2, <1>4, <1>9, <1>10, <1>11, <1>12, <1>13, <1>14 DEF PoolInv

\* A task that ends has counted itself.
LEMMA CountPool ==
    ASSUME FilesInv, MainInv, PoolInv, NEW p \in Pages, Count(p)
    PROVE  PoolInv'
<1>1. /\ Running /\ task[p].pc = "ends" /\ task' = [task EXCEPT ![p] = Resting] /\ acc' = acc + 1
      /\ UNCHANGED <<pc, addr, search, at, acc2, tasks>>
  BY DEF Count, Is, files
<1>2. pc = "commit" /\ p \in Busy
  BY <1>1, Working DEF Busy
<1>3. task'[p].pc = "none" /\ \A q \in Pages \ {p} : task'[q] = task[q]
  BY <1>1 DEF PoolInv, Resting
<1>4. Busy' = Busy \ {p}
  BY <1>3 DEF Busy
<1>5. Cardinality(Busy') = Cardinality(Busy) - 1 /\ Cardinality(Busy) \in Nat /\ Cardinality(Busy') \in Nat
  <2>1. IsFiniteSet(Busy \ {p}) /\ Cardinality(Busy \ {p}) = Cardinality(Busy) - 1
    BY <1>2, BusyFinite, FS_RemoveElement
  <2> QED
    BY <2>1, <1>4, BusyFinite, FS_CardinalityType
<1>6. task' \in [Pages -> [pc : TaskPlaces, i : Nat, buff : Values \cup {Absent}]]
  BY <1>1 DEF PoolInv, TaskPlaces, Resting
<1>7. acc + Len(tasks) + Cardinality(Busy) = acc2 /\ Len(tasks) \in Nat /\ acc \in Nat /\ acc2 \in Nat
  BY <1>2 DEF PoolInv, MainInv
<1>8. acc' <= acc2' /\ acc' + Len(tasks') + Cardinality(Busy') = acc2'
  BY <1>1, <1>5, <1>7
<1> QED
  BY <1>1, <1>2, <1>4, <1>6, <1>8 DEF PoolInv

\* A task that goes on is still the same task.
LEMMA WorkingPool ==
    ASSUME FilesInv, TargetInv, PoolInv, SearchInv, NEW p \in Pages,
           CreatNext(p) \/ ScanPage(p) \/ ScanCell(p) \/ CellsEnd(p), DOMAIN addr \subseteq DOMAIN addr'
    PROVE  PoolInv'
<1>1. task \in [Pages -> [pc : TaskPlaces, i : Nat, buff : Values \cup {Absent}]]
  BY DEF PoolInv
<1>2. UNCHANGED <<pc, at, search, acc, acc2, tasks>> /\ task[p].pc # "none"
  BY DEF CreatNext, ScanPage, ScanCell, CellsEnd, Is
<1>3. ASSUME NEW place \in {"page", "cells", "ends"}, task' = [task EXCEPT ![p].pc = place]
      PROVE  /\ task'[p].pc # "none" /\ \A q \in Pages \ {p} : task'[q] = task[q]
             /\ task' \in [Pages -> [pc : TaskPlaces, i : Nat, buff : Values \cup {Absent}]]
  BY <1>1, <1>3 DEF TaskPlaces
<1>4. /\ task'[p].pc # "none" /\ \A q \in Pages \ {p} : task'[q] = task[q]
      /\ task' \in [Pages -> [pc : TaskPlaces, i : Nat, buff : Values \cup {Absent}]]
  <2>1. CASE CreatNext(p) \/ ScanPage(p) \/ CellsEnd(p)
    BY <2>1, <1>3 DEF CreatNext, ScanPage, CellsEnd, Goes
  <2>2. CASE ScanCell(p)
    <3> DEFINE a == addr[<<p, search.level>>][task[p].i]
    <3>1. PICK buff \in IF a[1] \in mapped THEN {memory[a]}
                        ELSE IF task[p].buff = Absent THEN Values ELSE {task[p].buff} :
                task' = [task EXCEPT ![p].buff = buff, ![p].i = task[p].i + 1]
      BY <2>2 DEF ScanCell
    <3>2. buff \in Values
      <4>1. Running /\ task[p].pc = "cells" /\ task[p].i <= Len(addr[<<p, search.level>>])
        BY <2>2 DEF ScanCell, Is
      <4>2. pc = "commit" /\ <<p, search.level>> \in DOMAIN addr
        BY <4>1, Working
      <4>3. task[p].i \in 1 .. Len(addr[<<p, search.level>>])
        BY <4>1, <4>2, FileIs DEF SearchInv, Kinds, FilesInv
      <4>4. memory[a] \in Values
        BY <4>2, <4>3, FileIs DEF FilesInv, TargetInv
      <4> QED
        BY <1>1, <3>1, <4>4
    <3> QED
      BY <1>1, <1>2, <3>1, <3>2
  <2> QED
    BY <2>1, <2>2
<1>5. Busy' = Busy
  BY <1>2, <1>4 DEF Busy
<1> QED
  BY <1>2, <1>4, <1>5, PoolFrame
-----------------------------------------------------------------------------
(* The end of a search.                                                    *)

\* A result is in one of the files of its search.
LEMMA InResults ==
    ASSUME NEW count, NEW a
    PROVE  a \in Results(count) <=> \E key \in DOMAIN addr : key[2] = count /\ a \in Range(addr[key])
BY DEF Results

\* When all tasks have ended, every page was looked through.
LEMMA AllLooked ==
    ASSUME MainInv, PoolInv, pc = "commit", Left = {}, acc2 = acc,
           NEW p \in Pages, <<p, search.level>> \in DOMAIN addr
    PROVE  Created(p) /\ Looked(p) = OnPage(p)
<1>1. acc + Len(tasks) + Cardinality(Busy) = acc2 /\ tasks \in Seq(Pages) /\ acc \in Nat /\ Len(tasks) \in Nat
  BY DEF PoolInv, MainInv
<1>2. Len(tasks) = 0 /\ Cardinality(Busy) = 0
  BY <1>1, BusyFinite
<1>3. tasks = <<>> /\ Busy = {}
  <2>1. tasks = <<>>
    BY <1>1, <1>2, EmptySeq
  <2>2. Busy = {}
    BY <1>2, BusyFinite, FS_EmptySet
  <2> QED
    BY <2>1, <2>2
<1>4. task[p].pc = "none" /\ Range(tasks) = {}
  BY <1>3, EmptyRange DEF Busy
<1>5. p <= at
  BY PagesAre DEF Left, MainInv
<1> QED
  BY <1>4, <1>5 DEF Created, Looked

\* Then what it has found is what it should find.
WellFound(new) ==
    /\ new \subseteq Candidates
    /\ \A a \in new : Passes(Old(a), ValueAt(a, search.level + 1))
    /\ changes = 0 => \A a \in Candidates \ new : ~Passes(Old(a), memory[a])

\* That the busy loop ends means the search is complete.
LEMMA SearchEnds ==
    ASSUME FilesInv, MainInv, PoolInv, SearchInv, pc = "commit", Left = {}, acc2 = acc,
           search.level \in Nat \ {0}
    PROVE  WellFound(Results(search.level + 1)) /\ allSize = Cardinality(Results(search.level + 1))
<1> DEFINE l == search.level
           new == Results(search.level + 1)
<1>1. Kinds /\ allSize = Cardinality(FoundSoFar)
  BY DEF SearchInv
<1>2. ASSUME NEW p \in Pages, <<p, l>> \in DOMAIN addr
      PROVE  /\ Created(p) /\ RightOn(p) /\ Looked(p) = OnPage(p)
             /\ \A a \in OnPage(p) : a \in Addresses /\ a[1] = p
  BY <1>1, <1>2, AllLooked, LookedOnPage DEF SearchInv
<1>3. ASSUME NEW a \in new
      PROVE  /\ a \in Addresses /\ <<a[1], l>> \in DOMAIN addr /\ a[1] \in Pages /\ a \in NewOn(a[1])
  <2>1. PICK key \in DOMAIN addr : key[2] = l + 1 /\ a \in Range(addr[key])
    BY <1>3, InResults
  <2>2. key = <<key[1], l + 1>> /\ key[1] \in Pages /\ IsFile(key, addr[key], data[key])
    BY <2>1 DEF FilesInv
  <2>3. a \in Addresses /\ a[1] = key[1]
    <3>1. addr[key] \in Seq(Addresses)
      BY <2>2 DEF IsFile
    <3>2. PICK i \in 1 .. Len(addr[key]) : a = addr[key][i]
      BY <2>1, <3>1, InRange
    <3> QED
      BY <3>2, <2>2, FileIs
  <2>4. <<key[1], l>> \in DOMAIN addr
    <3>1. l + 1 > 1 /\ (l + 1) - 1 = l
      OBVIOUS
    <3> QED
      BY <2>1, <3>1 DEF FilesInv
  <2> QED
    BY <2>1, <2>2, <2>3, <2>4 DEF NewOn
<1>4. ASSUME NEW p \in Pages, <<p, l>> \in DOMAIN addr, NEW a \in NewOn(p)
      PROVE  a \in new
  BY <1>2, <1>4, InResults DEF RightOn, NewOn
<1>5. new = FoundSoFar
  <2>1. ASSUME NEW a \in new PROVE a \in FoundSoFar
    BY <1>2, <1>3 DEF FoundSoFar
  <2>2. ASSUME NEW a \in FoundSoFar PROVE a \in new
    BY <1>4, AddressesAre DEF FoundSoFar, Created
  <2> QED
    BY <2>1, <2>2
<1>6. ASSUME NEW a \in Candidates
      PROVE  a[1] \in Pages /\ <<a[1], l>> \in DOMAIN addr /\ a \in OnPage(a[1])
  <2>1. CASE request.path = "/second"
    <3>1. a \in Addresses /\ <<a[1], 1>> \in DOMAIN data /\ a[2] <= Len(data[<<a[1], 1>>]) /\ l = 1
      BY <2>1, <1>1 DEF Candidates, FirstValues, Kinds
    <3>2. a = <<a[1], a[2]>> /\ a[1] \in Pages /\ a[2] \in Nat \ {0}
      BY <3>1, AddressesAre
    <3>3. <<a[1], l>> \in DOMAIN addr /\ Len(data[<<a[1], 1>>]) \in Nat
      BY <3>1, FileIs DEF FilesInv
    <3>4. a[2] \in 1 .. Len(data[<<a[1], 1>>])
      BY <3>1, <3>2, <3>3
    <3> QED
      BY <2>1, <3>2, <3>3, <3>4 DEF OnPage
  <2>2. CASE request.path # "/second"
    <3>1. a \in Results(l)
      BY <2>2 DEF Candidates
    <3>2. PICK key \in DOMAIN addr : key[2] = l /\ a \in Range(addr[key])
      BY <3>1, InResults
    <3>3. key = <<key[1], l>> /\ key[1] \in Pages
      BY <3>2 DEF FilesInv
    <3>4. a \in OnPage(key[1])
      BY <2>2, <3>2, <3>3 DEF OnPage
    <3>5. a[1] = key[1]
      BY <3>2, <3>3, <3>4, <1>2
    <3> QED
      BY <3>2, <3>3, <3>4, <3>5
  <2> QED
    BY <2>1, <2>2
<1>7. ASSUME NEW p \in Pages, <<p, l>> \in DOMAIN addr, NEW a \in OnPage(p)
      PROVE  a \in Candidates
  <2>1. CASE request.path = "/second"
    <3>1. l = 1 /\ a \in Addresses /\ a[1] = p
      BY <1>1, <1>2, <1>7, <2>1 DEF Kinds
    <3>2. PICK i \in 1 .. Len(data[<<p, 1>>]) : a = <<p, i>>
      BY <2>1, <1>7 DEF OnPage
    <3>3. i <= Len(data[<<p, 1>>]) /\ <<p, 1>> \in DOMAIN data
      BY <3>1, <1>7, FileIs DEF FilesInv
    <3> QED
      BY <2>1, <3>1, <3>2, <3>3 DEF Candidates, FirstValues
  <2>2. CASE request.path # "/second"
    <3>1. a \in Range(addr[<<p, l>>])
      BY <2>2, <1>7 DEF OnPage
    <3> QED
      BY <2>2, <3>1, <1>7, InResults DEF Candidates
  <2> QED
    BY <2>1, <2>2
<1>8. ASSUME NEW a \in new PROVE a \in Candidates /\ Fits(a)
  <2>1. a[1] \in Pages /\ <<a[1], l>> \in DOMAIN addr /\ a \in NewOn(a[1])
    BY <1>3
  <2>2. Fits(a) /\ a \in OnPage(a[1])
    <3> PICK p : p = a[1]
      OBVIOUS
    <3>1. p \in Pages /\ <<p, l>> \in DOMAIN addr /\ a \in NewOn(p)
      BY <2>1
    <3>2. RightOn(p) /\ Looked(p) = OnPage(p)
      BY <3>1, <1>2
    <3> QED
      BY <3>1, <3>2 DEF RightOn
  <2> QED
    BY <2>1, <2>2, <1>7
<1>9. ASSUME changes = 0, NEW a \in Candidates \ new PROVE ~Fit(a)
  <2>1. a[1] \in Pages /\ <<a[1], l>> \in DOMAIN addr /\ a \in OnPage(a[1])
    BY <1>6
  <2>2. a \notin NewOn(a[1])
    BY <2>1, <1>4, <1>9
  <2> QED
    BY <2>1, <2>2, <1>2, <1>9 DEF RightOn
<1>10. WellFound(new)
  BY <1>8, <1>9 DEF WellFound, Fits, Fit, NewAt
<1> QED
  BY <1>1, <1>5, <1>10

\* What was found rightly stays so when only the target changes.
LEMMA WellFoundKept ==
    ASSUME UNCHANGED <<request, search, addr, data>>, changes' = 0 => changes = 0 /\ memory' = memory,
           NEW new, WellFound(new)
    PROVE  WellFound(new)'
<1>1. Candidates' = Candidates
  <2>1. Results(search.level)' = Results(search.level)
    BY DEF Results
  <2>2. FirstValues' = FirstValues
    BY DEF FirstValues
  <2> QED
    BY <2>1, <2>2 DEF Candidates
<1>2. ASSUME NEW a PROVE Old(a)' = Old(a) /\ NewAt(a)' = NewAt(a)
  BY OldKept, NewAtKept DEF SameFile
<1>3. ASSUME NEW a \in new PROVE Passes(Old(a), ValueAt(a, search.level + 1))'
  <2>1. Fits(a)
    BY DEF WellFound, Fits, NewAt
  <2>2. Fits(a)'
    BY <2>1, <1>2, FitsKept
  <2> QED
    BY <2>2 DEF Fits, NewAt
<1>4. ASSUME changes' = 0, NEW a \in Candidates \ new PROVE ~Passes(Old(a), memory[a])'
  <2>1. ~Fit(a) /\ UNCHANGED memory
    BY <1>4 DEF WellFound, Fit
  <2>2. ~Fit(a)'
    BY <2>1, <1>2, FitKept
  <2> QED
    BY <2>2 DEF Fit
<1> QED
  BY <1>1, <1>3, <1>4 DEF WellFound

\* The property, in these terms.
LEMMA SearchIsRightIs ==
    SearchIsRight <=> (Searched => LET new == Results(search.level + 1)
                                   IN WellFound(new) /\ response = Cardinality(new))
BY DEF SearchIsRight, WellFound

\* An answer stays right until it is sent.
LEMMA AnswerKept ==
    ASSUME SearchIsRight, UNCHANGED <<pc, request, response, search, addr, data>>,
           changes' = 0 => changes = 0 /\ memory' = memory
    PROVE  SearchIsRight'
<1> SUFFICES ASSUME Searched PROVE SearchIsRight'
  BY DEF SearchIsRight, Searched
<1> PICK new : new = Results(search.level + 1)
  OBVIOUS
<1>1. WellFound(new) /\ response = Cardinality(new)
  BY SearchIsRightIs
<1>2. WellFound(new)'
  BY <1>1, WellFoundKept
<1>3. new = Results(search.level + 1)'
  BY DEF Results
<1> QED
  BY <1>1, <1>2, <1>3 DEF SearchIsRight, WellFound

\* The answer of Second and Third is right.
LEMMA SpinAnswers ==
    ASSUME FilesInv, MainInv, PoolInv, SearchInv, Spin
    PROVE  SearchIsRight'
<1>1. /\ pc = "commit" /\ Left = {} /\ acc2 = acc
      /\ UNCHANGED <<target, request, files, search>>
      /\ pc' = "reply" => response' = allSize
  BY DEF Spin, Answer, GoOn, http, httpVars
<1> SUFFICES ASSUME Searched' PROVE SearchIsRight'
  BY DEF SearchIsRight
<1>2. search.level \in Nat \ {0} /\ response' = allSize
  BY <1>1 DEF Searched
<1> PICK new : new = Results(search.level + 1)
  OBVIOUS
<1>3. WellFound(new) /\ allSize = Cardinality(new)
  BY <1>1, <1>2, SearchEnds
<1>4. WellFound(new)'
  BY <1>1, <1>3, WellFoundKept DEF target, files
<1>5. new = Results(search.level + 1)'
  BY <1>1 DEF Results, files
<1> QED
  BY <1>2, <1>3, <1>4, <1>5 DEF SearchIsRight, WellFound
-----------------------------------------------------------------------------
(* FirstSearch.                                                            *)

AddressesIn(P) == {a \in Addresses : a[1] \in P}

\* preadv reads as many values as a page has.
LEMMA PageValuesAre ==
    ASSUME TargetInv, NEW p \in Pages
    PROVE  PageValues(p) \in Seq(Values) /\ Len(PageValues(p)) = Cells[p]
<1>1. \A i \in 1 .. Cells[p] : memory[<<p, i>>] \in Values
  BY AddressesAre DEF TargetInv
<1> DEFINE c == Cells[p]
<1>2. c \in Nat
  BY PagesAre
<1>3. PageValues(p) = [i \in 1 .. c |-> memory[<<p, i>>]] /\ \A i \in 1 .. c : memory[<<p, i>>] \in Values
  BY <1>1 DEF PageValues
<1> HIDE DEF c
<1>4. PICK v : v = PageValues(p)
  OBVIOUS
<1>5. v \in [1 .. c -> Values]
  BY <1>3, <1>4
<1>6. v \in Seq(Values) /\ Len(v) = c
  BY <1>2, <1>5
<1> QED
  BY <1>4, <1>6 DEF c

\* A page is skipped, ends the program, or gets new files.
LEMMA FirstPageFiles ==
    ASSUME FilesInv, TargetInv, MainInv, FirstPage
    PROVE  /\ pages[at + 1] \in Pages /\ at + 1 \in 1 .. Len(pages) /\ at' = at + 1
           /\ FilesInv'
           /\ LET p == pages[at + 1]
              IN \/ p \in Guarded /\ UNCHANGED <<pc, addr, data, allSize>>
                 \/ pc' = "crashed" /\ UNCHANGED <<addr, data, allSize>>
                 \/ /\ p \notin Guarded /\ UNCHANGED pc /\ Elsewhere(p, 1)
                    /\ p \in mapped => Len(data'[<<p, 1>>]) = Cells[p]
                    /\ allSize' = allSize + Cells[p]
<1>1. pc = "first" /\ at < Len(pages) /\ at' = at + 1 /\ at \in Nat /\ pages \in Seq(Pages)
  BY DEF FirstPage, MainInv
<1>2. at + 1 \in 1 .. Len(pages) /\ pages[at + 1] \in Pages
  BY <1>1
<1> PICK p \in Pages : p = pages[at + 1]
  BY <1>2
<1>3. CASE p \in Guarded
  BY <1>1, <1>2, <1>3 DEF FirstPage, FilesInv, files
<1>4. CASE p \notin Guarded /\ ~made
  BY <1>1, <1>2, <1>4 DEF FirstPage, FilesInv, files, GoOn
<1>5. CASE p \notin Guarded /\ made
  <2> PICK key, f, g : /\ key = <<p, 1>>
                       /\ f = IF p \in mapped THEN <<<<p, 1>>>> ELSE <<>>
                       /\ g = IF p \in mapped THEN PageValues(p) ELSE <<>>
    OBVIOUS
  <2>1. /\ addr' = AppendAll(Creat(addr, key), key, f) /\ data' = AppendAll(Creat(data, key), key, g)
        /\ allSize' = allSize + Cells[p] /\ UNCHANGED pc
    BY <1>5 DEF FirstPage
  <2>2. <<p, 1>> \in Addresses /\ Cells[p] \in Nat \ {0}
    BY AddressesAre, PagesAre
  <2>3. /\ f \in Seq(Addresses) /\ g \in Seq(Values) /\ Len(f) <= Len(g) /\ Len(g) <= Cells[p]
        /\ p \in mapped => Len(g) = Cells[p]
        /\ Len(f) \in 0 .. 1 /\ \A i \in 1 .. Len(f) : f[i] = <<p, 1>>
    BY <2>2, PageValuesAre
  <2>4. IsFile(key, f, g)
    <3>1. \A i \in 1 .. Len(f) : i = 1 /\ f[i][1] = p /\ f[i][2] = 1
      BY <2>3
    <3>2. \A i, j \in 1 .. Len(f) : f[i][1] = p /\ (i < j => f[i][2] < f[j][2])
      BY <3>1
    <3>3. key[1] = p /\ key[2] = 1
      OBVIOUS
    <3> QED
      BY <2>3, <3>1, <3>2, <3>3 DEF IsFile
  <2>5. /\ DOMAIN addr' = DOMAIN addr \cup {key} /\ addr'[key] = f
        /\ \A k \in DOMAIN addr \ {key} : addr'[k] = addr[k]
    <3>1. FilledWith(addr, addr', key, f)
      BY <2>1, <2>3, MadeAndFilled
    <3> QED
      BY <3>1 DEF FilledWith
  <2>6. /\ DOMAIN data' = DOMAIN data \cup {key} /\ data'[key] = g
        /\ \A k \in DOMAIN data \ {key} : data'[k] = data[k]
    <3>1. FilledWith(data, data', key, g)
      BY <2>1, <2>3, MadeAndFilled
    <3> QED
      BY <3>1 DEF FilledWith
  <2>7. Elsewhere(p, 1)
    BY <2>5, <2>6 DEF Elsewhere, FilesInv
  <2>8. FilesInv'
    <3>1. IsFile(<<p, 1>>, addr'[<<p, 1>>], data'[<<p, 1>>])
      BY <2>4, <2>5, <2>6
    <3>2. 1 \in Nat \ {0} /\ ~(1 > 1)
      OBVIOUS
    <3> QED
      BY <3>1, <3>2, <2>7, OneFile
  <2> QED
    BY <1>1, <1>2, <1>5, <2>1, <2>3, <2>6, <2>7, <2>8
<1> QED
  BY <1>3, <1>4, <1>5

\* Page by page it has read what it has come past.
LEMMA FirstPageFirst ==
    ASSUME FilesInv, TargetInv, MainInv, FirstInv, FirstPage
    PROVE  FirstInv'
<1> PICK p : p = pages[at + 1]
  OBVIOUS
<1>1. /\ p \in Pages /\ at + 1 \in 1 .. Len(pages) /\ at' = at + 1 /\ at \in Nat /\ pages \in Seq(Pages)
      /\ \/ p \in Guarded /\ UNCHANGED <<pc, addr, data, allSize>>
         \/ pc' = "crashed" /\ UNCHANGED <<addr, data, allSize>>
         \/ /\ p \notin Guarded /\ UNCHANGED pc /\ Elsewhere(p, 1)
            /\ p \in mapped => Len(data'[<<p, 1>>]) = Cells[p]
            /\ allSize' = allSize + Cells[p]
  BY FirstPageFiles DEF MainInv
<1>2. pc = "first" /\ UNCHANGED <<pages, mapped, changes>>
  BY DEF FirstPage, target
<1>3. p \in Range(pages)
  BY <1>1, InRange
<1>4. \A q \in Pages : <<q, 1>> \in DOMAIN addr' => q \in Range(pages') \ Guarded
  BY <1>1, <1>2, <1>3 DEF FirstInv, Elsewhere
<1>5. Past(at + 1) = Past(at) \cup ({p} \ Guarded)
  <2>1. 1 .. at + 1 = (1 .. at) \cup {at + 1}
    BY <1>1
  <2> QED
    BY <2>1 DEF Past
<1>6. ASSUME pc' = "first", changes' = 0, NEW q \in Past(at + 1)
      PROVE  <<q, 1>> \in DOMAIN addr' /\ Len(data'[<<q, 1>>]) = Cells[q]
  <2>2. mapped = Pages /\ changes = 0
    BY <1>2, <1>6 DEF TargetInv
  <2>3. ASSUME q \in Past(at), q # p \/ p \in Guarded
        PROVE  <<q, 1>> \in DOMAIN addr' /\ Len(data'[<<q, 1>>]) = Cells[q]
    <3>1. <<q, 1>> \in DOMAIN addr /\ Len(data[<<q, 1>>]) = Cells[q] /\ q \notin Guarded
      BY <2>2, <2>3, <1>2 DEF FirstInv, Past
    <3> QED
      BY <3>1, <2>3, <1>1, <1>6 DEF Elsewhere
  <2>4. ASSUME q = p, p \notin Guarded
        PROVE  <<q, 1>> \in DOMAIN addr' /\ Len(data'[<<q, 1>>]) = Cells[q]
    BY <2>2, <2>4, <1>1, <1>6 DEF Elsewhere
  <2> QED
    BY <2>3, <2>4, <1>5
<1>7. ASSUME pc' = "first", IsInjective(pages')
      PROVE  allSize' = Cardinality(AddressesIn(Past(at + 1)))
  <2>1. allSize = Cardinality(AddressesIn(Past(at))) /\ allSize \in Nat
    BY <1>2, <1>7 DEF FirstInv, AddressesIn, MainInv
  <2>2. CASE p \in Guarded
    <3>1. Past(at + 1) = Past(at)
      BY <2>2, <1>5
    <3> QED
      BY <3>1, <2>1, <2>2, <1>1
  <2>3. CASE p \notin Guarded
    <3>1. p \notin Past(at)
      <4>1. ASSUME NEW i \in 1 .. at, pages[i] = p PROVE FALSE
        <5>1. DOMAIN pages = 1 .. Len(pages) /\ i \in 1 .. Len(pages) /\ i # at + 1
          BY <1>1
        <5> QED
          BY <5>1, <4>1, <1>1, <1>2, <1>7 DEF IsInjective
      <4> QED
        BY <4>1 DEF Past
    <3> DEFINE A == AddressesIn(Past(at))
               B == {a \in Addresses : a[1] = p}
    <3>2. AddressesIn(Past(at + 1)) = A \cup B /\ A \cap B = {}
      BY <3>1, <2>3, <1>5 DEF AddressesIn
    <3>3. A \in SUBSET Addresses
      BY DEF AddressesIn
    <3>4. IsFiniteSet(B) /\ Cardinality(B) = Cells[p] /\ Cells[p] \in Nat
      BY <1>1, AddressesOfPage, PagesAre
    <3> HIDE DEF A, B
    <3>5. IsFiniteSet(A)
      BY <3>3, AddressesFinite, FS_Subset
    <3>6. Cardinality(A \cup B) = Cardinality(A) + Cardinality(B) - Cardinality(A \cap B)
      BY <3>4, <3>5, FS_Union
    <3>7. Cardinality(A \cap B) = 0
      BY <3>2, FS_EmptySet
    <3>8. Cardinality(A \cup B) = Cardinality(A) + Cells[p]
      BY <3>4, <3>5, <3>6, <3>7, FS_CardinalityType
    <3>9. allSize' = allSize + Cells[p] /\ allSize = Cardinality(A)
      BY <2>1, <2>3, <1>1, <1>7 DEF A
    <3> QED
      BY <3>2, <3>8, <3>9
  <2> QED
    BY <2>2, <2>3
<1>8. at' <= Len(pages')
  BY <1>1, <1>2
<1>9. Past(at)' = Past(at + 1)
  BY <1>1, <1>2 DEF Past
<1> QED
  BY <1>4, <1>6, <1>7, <1>8, <1>9 DEF FirstInv, AddressesIn

\* What it has found is what it has read.
LEMMA FirstAnswers ==
    ASSUME FilesInv, MainInv, FirstInv, FirstEnds
    PROVE  FirstIsRight'
<1>1. /\ pc = "first" /\ at = Len(pages) /\ response' = allSize
      /\ UNCHANGED <<addr, data, pages, changes>>
  BY DEF FirstEnds, Answer, files, target
<1> SUFFICES ASSUME changes = 0, IsInjective(pages) PROVE allSize = Cardinality(FirstValues)
  <2>1. FirstValues' = FirstValues
    BY <1>1 DEF FirstValues
  <2> QED
    BY <1>1, <2>1 DEF FirstIsRight
<1>2. /\ allSize = Cardinality(AddressesIn(Past(Len(pages)))) /\ pages \in Seq(Pages)
      /\ \A p \in Past(Len(pages)) : <<p, 1>> \in DOMAIN addr /\ Len(data[<<p, 1>>]) = Cells[p]
  BY <1>1 DEF FirstInv, AddressesIn, MainInv
<1>3. \A p : p \in Past(Len(pages)) <=> p \in Range(pages) \ Guarded
  BY <1>2, InRange DEF Past
<1>4. ASSUME NEW a \in Addresses
      PROVE  a \in FirstValues <=> a[1] \in Past(Len(pages))
  <2>1. a[1] \in Pages /\ a[2] \in 1 .. Cells[a[1]]
    BY AddressesAre
  <2>2. a \in FirstValues => a[1] \in Past(Len(pages))
    BY <2>1, <1>3 DEF FirstValues, FirstInv, FilesInv
  <2>3. a[1] \in Past(Len(pages)) => a \in FirstValues
    BY <2>1, <1>2 DEF FirstValues, FilesInv
  <2> QED
    BY <2>2, <2>3
<1>5. FirstValues = AddressesIn(Past(Len(pages)))
  BY <1>4 DEF FirstValues, AddressesIn
<1> QED
  BY <1>2, <1>5
-----------------------------------------------------------------------------
(* Every part of SInv holds after every step.                              *)

\* Only the file of page p and of the search number k may be another.
OnlyFile(p, k) ==
    /\ DOMAIN addr \subseteq DOMAIN addr' /\ DOMAIN addr' \subseteq DOMAIN addr \cup {<<p, k>>}
    /\ \A key \in DOMAIN addr' \ {<<p, k>>} : addr'[key] = addr[key]

\* A task writes only to the file of its page and of this search.
LEMMA WorkFiles ==
    ASSUME NEW p \in Pages, Work(p)
    PROVE  OnlyFile(p, search.level + 1)
<1> PICK k, key : k = search.level + 1 /\ key = <<p, k>>
  OBVIOUS
<1> SUFFICES OnlyFile(p, k)
  OBVIOUS
<1>1. ASSUME NEW f, addr' = AppendAll(addr, key, f) PROVE OnlyFile(p, k)
  BY <1>1 DEF OnlyFile, AppendAll
<1>2. CASE UNCHANGED addr
  BY <1>2 DEF OnlyFile
<1>3. CASE addr' = Creat(addr, key)
  BY <1>3 DEF OnlyFile, Creat
<1>4. UNCHANGED addr \/ addr' = Creat(addr, key) \/ \E f : addr' = AppendAll(addr, key, f)
  <2>1. CASE TakeTask(p) \/ CellsEnd(p) \/ Count(p)
    BY <2>1 DEF TakeTask, CellsEnd, Count, files
  <2>2. CASE CreatNext(p)
    BY <2>2 DEF CreatNext
  <2>3. CASE ScanPage(p)
    BY <2>3 DEF ScanPage, Found, files
  <2>4. CASE ScanCell(p)
    BY <2>4 DEF ScanCell, Found, files
  <2> QED
    BY <2>1, <2>2, <2>3, <2>4 DEF Work
<1>5. CASE \E f : addr' = AppendAll(addr, key, f)
  <2> PICK f : addr' = AppendAll(addr, key, f)
    BY <1>5
  <2> QED
    BY <1>1
<1> QED
  BY <1>2, <1>3, <1>4, <1>5

\* A task runs only while the loop thread waits for it, and changes nothing else.
LEMMA WorkFrame ==
    ASSUME FilesInv, PoolInv, NEW p \in Pages, Work(p)
    PROVE  /\ pc = "commit"
           /\ UNCHANGED <<httpVars, target, pc, pages, made, cnt, search, at, acc2, orderly>>
<1>1. UNCHANGED <<httpVars, target, pc, pages, made, cnt, search, at, acc2, orderly>>
  BY DEF Work, TakeTask, CreatNext, ScanPage, ScanCell, CellsEnd, Count
<1>2. CASE TakeTask(p)
  BY <1>2 DEF TakeTask, Running, PoolInv
<1>3. CASE ~TakeTask(p)
  <2>1. Running /\ task[p].pc # "none"
    BY <1>3 DEF Work, CreatNext, ScanPage, ScanCell, CellsEnd, Count, Is
  <2> QED
    BY <2>1, <1>1, Working
<1> QED
  BY <1>1, <1>2, <1>3

\* The steps that are neither the loop thread's nor a task's.
Outside == \/ \E r \in Requests : AskFor(r)
           \/ \E a \in Addresses, v \in Values : Change(a, v)
           \/ \E p \in Pages : Unmap(p)
           \/ UNCHANGED vars

\* They leave alone what the program keeps.
LEMMA OutsideFrame ==
    ASSUME TargetInv, Outside
    PROVE  /\ UNCHANGED <<request, response, pc, pages, made, cnt, addr, data, search, at, acc2,
                          allSize, acc, tasks, task, orderly>>
           /\ changes' = 0 => changes = 0 /\ UNCHANGED <<memory, mapped>>
<1>1. changes + 1 # 0
  BY DEF TargetInv
<1> QED
  BY <1>1 DEF Outside, AskFor, Ask, Change, Unmap, vars, httpVars, target, files, pool

\* Files.
LEMMA NextFiles ==
    ASSUME SInv, [Next]_vars
    PROVE  FilesInv'
<1> USE DEF SInv
<1>1. CASE UNCHANGED <<addr, data>>
  BY <1>1 DEF FilesInv
<1>2. CASE InitTools
  <2>1. addr' = <<>> /\ data' = <<>> /\ DOMAIN <<>> = {}
    BY <1>2 DEF InitTools
  <2> QED
    BY <2>1 DEF FilesInv
<1>3. CASE FirstPage
  BY <1>3, FirstPageFiles
<1>4. ASSUME NEW p \in Pages, Work(p) PROVE FilesInv'
  <2>1. CASE CreatNext(p)  BY <2>1, CreatNextSearch
  <2>2. CASE ScanPage(p)   BY <2>2, ScanPageSearch
  <2>3. CASE ScanCell(p)   BY <2>3, ScanCellSearch
  <2>4. CASE TakeTask(p) \/ CellsEnd(p) \/ Count(p)
    BY <2>4, <1>1 DEF TakeTask, CellsEnd, Count, files
  <2> QED
    BY <2>1, <2>2, <2>3, <2>4, <1>4 DEF Work
<1>5. CASE Outside
  BY <1>1, <1>5, OutsideFrame
<1>6. CASE (Loop /\ ~InitTools /\ ~FirstPage) \/ Clash
  <2>1. UNCHANGED <<addr, data>>
    BY <1>6 DEF Loop, ReadCallBack, GetPages, First, FirstEnds, Second, Third, Commit, Spin, Dump, Write, Reply,
                Clash, files
  <2> QED
    BY <2>1, <1>1
<1> QED
  BY <1>2, <1>3, <1>4, <1>5, <1>6 DEF Next, Outside

\* The target.
LEMMA NextTarget ==
    ASSUME SInv, [Next]_vars
    PROVE  TargetInv'
<1> USE DEF SInv
<1>1. CASE UNCHANGED target
  BY <1>1 DEF TargetInv, target
<1>2. CASE Write
  <2> PICK a, b : a = request.address /\ b = request.value % Byte
    OBVIOUS
  <2>1. a \in Addresses /\ request.value \in Int /\ Byte \in Nat \ {0}
    BY <1>2, MemoryToolsAssumption DEF Write, Handle, MainInv
  <2>2. b \in 0 .. Byte - 1
    BY <2>1
  <2>3. memory[a] \in Values /\ memory[a] - (memory[a] % Byte) + b \in Values
    BY <2>1, <2>2, MemoryToolsAssumption DEF TargetInv
  <2>4. /\ memory' = memory \/ memory' = [memory EXCEPT ![a] = memory[a] - (memory[a] % Byte) + b]
        /\ UNCHANGED mapped /\ changes' = IF changes = 0 THEN 1 ELSE changes
    BY <1>2 DEF Write
  <2> QED
    BY <2>3, <2>4 DEF TargetInv
<1>3. CASE Outside
  <2>1. CASE UNCHANGED target
    BY <2>1, <1>1
  <2>2. ASSUME NEW a \in Addresses, NEW v \in Values, Change(a, v) PROVE TargetInv'
    BY <2>2 DEF Change, TargetInv
  <2>3. ASSUME NEW p \in Pages, Unmap(p) PROVE TargetInv'
    BY <2>3 DEF Unmap, TargetInv
  <2>4. ASSUME NEW r \in Requests, AskFor(r) PROVE UNCHANGED target
    BY <2>4 DEF AskFor
  <2>5. UNCHANGED vars => UNCHANGED target
    BY DEF vars
  <2> QED
    BY <2>1, <2>2, <2>3, <2>4, <2>5, <1>3 DEF Outside
<1>4. ASSUME NEW p \in Pages, Work(p) PROVE TargetInv'
  BY <1>1, <1>4, WorkFrame
<1>5. CASE (Loop /\ ~Write) \/ Clash
  <2>1. UNCHANGED target
    BY <1>5 DEF Loop, ReadCallBack, GetPages, InitTools, First, FirstPage, FirstEnds, Second, Third, Commit, Spin,
                Dump, Reply, Clash
  <2> QED
    BY <2>1, <1>1
<1> QED
  BY <1>2, <1>3, <1>4, <1>5 DEF Next, Outside

\* What main keeps.
LEMMA MemPages ==
    ASSUME TargetInv, MainInv, GetMemPage
    PROVE  pages' \in Seq(Pages) /\ Range(pages) \subseteq Range(pages')
<1> PICK s \in Ascending(mapped) : pages' = pages \o s
  BY DEF GetMemPage
<1>1. mapped \in SUBSET Nat /\ IsFiniteSet(mapped)
  <2>1. mapped \in SUBSET Pages
    BY DEF TargetInv
  <2>2. IsFiniteSet(mapped)
    BY <2>1, PagesAre, FS_Subset
  <2> QED
    BY <2>1, <2>2, PagesAre
<1>2. s \in Seq(mapped)
  BY <1>1, AscendingIs
<1>3. s \in Seq(Pages) /\ pages \in Seq(Pages)
  BY <1>2 DEF TargetInv, MainInv
<1>4. Range(pages \o s) = Range(pages) \cup Range(s)
  BY <1>3, RangeConcatenation
<1> QED
  BY <1>3, <1>4

\* What a read takes for a request of /write has an address and a number.
LEMMA ParsedWrite ==
    ASSUME HInv, MainInv, NEW n \in 1 .. Len(wire), ReadCallBack(n), request'.path = "/write"
    PROVE  request'.address \in Addresses /\ request'.value \in Int
<1> DEFINE text == SubSeq(inputBuffer \o SubSeq(wire, 1, n), 1, n)
<1>1. request' \in Parsed(text)
  BY DEF ReadCallBack, Read
<1>2. text[1].of \in Requests
  <2>1. SubSeq(wire, 1, n) \in Seq(Piece) /\ Len(SubSeq(wire, 1, n)) = n /\ n \in Nat /\ n >= 1
    BY DEF HInv, HttpTypes
  <2> PICK w : w = SubSeq(wire, 1, n)
    OBVIOUS
  <2>2. inputBuffer \o w \in Seq(Piece) /\ Len(inputBuffer \o w) >= n
    BY <2>1 DEF HInv, HttpTypes
  <2>3. \A u \in Seq(Piece) : Len(u) >= n => SubSeq(u, 1, n)[1] \in Piece
    BY <2>1
  <2>4. text[1] \in Piece
    BY <2>2, <2>3
  <2> QED
    BY <2>4 DEF Piece
<1> PICK r \in Requests : r = text[1].of
  BY <1>2
<1> HIDE DEF text
<1>3. request' = r \/ \E P \in SUBSET (DOMAIN r \ {"method", "path"}) : request' = Lacking(r, P)
  BY <1>1 DEF Parsed, Garbage
<1>4. CASE request' = r
  BY <1>4, HandlersAssumption
<1>5. ASSUME NEW P \in SUBSET (DOMAIN r \ {"method", "path"}), request' = Lacking(r, P)
      PROVE  request'.address \in Addresses /\ request'.value \in Int
  <2>1. "path" \in DOMAIN r /\ "path" \notin P
    BY HttpAssumption
  <2>2. r.path = "/write"
    BY <2>1, <1>5 DEF Lacking
  <2>3. "address" \in DOMAIN r /\ "value" \in DOMAIN r /\ r.address \in Addresses /\ r.value \in Int
    BY <2>2, HandlersAssumption
  <2> QED
    BY <2>3, <1>5, HandlersAssumption DEF Lacking
<1> QED
  BY <1>3, <1>4, <1>5

\* A search has found as many addresses as there are in a set of them.
LEMMA FoundIsNat == SearchInv /\ pc = "commit" => allSize \in Nat
<1>1. FoundSoFar \in SUBSET Addresses
  BY DEF FoundSoFar
<1>2. Cardinality(FoundSoFar) \in Nat
  BY <1>1, AddressesFinite, FS_Subset, FS_CardinalityType
<1> QED
  BY <1>2 DEF SearchInv

\* Pages are numbers.
LEMMA LeftIn == Left \subseteq Nat
BY PagesAre DEF Left

\* Every step keeps main's variables what they are.
LEMMA NextMain ==
    ASSUME SInv, HInv, SearchInv', [Next]_vars
    PROVE  MainInv'
<1> USE DEF SInv
<1>0. waiting \in Seq(Requests)
  BY DEF HInv, HttpTypes
<1> USE DEF GoOn, Answer, http, httpVars, Handle
<1>1. ASSUME NEW n \in 1 .. Len(wire), ReadCallBack(n) PROVE MainInv'
  <2>1. request'.path = "/write" => request'.address \in Addresses /\ request'.value \in Int
    BY <1>1, ParsedWrite
  <2>2. /\ UNCHANGED <<pages, cnt, at, acc, acc2, allSize, waiting>>
        /\ pc' \in {"handle", "reply", "crashed"}
    BY <1>1 DEF ReadCallBack, Read, pool
  <2> QED
    BY <2>1, <2>2 DEF MainInv
<1>2. CASE Reply
  <2>1. /\ waiting' = IF waiting = <<>> THEN <<>> ELSE Tail(waiting)
        /\ pc' = "poll" /\ at' = 0 /\ acc2' = 0 /\ acc' = 0 /\ allSize' = 0 /\ UNCHANGED <<pages, cnt>>
    BY <1>2 DEF Reply, Send
  <2>2. waiting = <<>> => Len(waiting) = 0
    OBVIOUS
  <2>3. waiting # <<>> => Len(Tail(waiting)) = Len(waiting) - 1
    BY <1>0
  <2>4. Len(waiting') <= MaxWaiting
    BY <1>0, <2>1, <2>2, <2>3, HttpAssumption DEF MainInv
  <2> QED
    BY <2>1, <2>4 DEF MainInv
<1>3. CASE GetPages
  <2>1. pages' \in Seq(Pages)
    BY <1>3, MemPages DEF GetPages
  <2> QED
    BY <2>1, <1>3 DEF GetPages, MainInv, pool
<1>4. CASE InitTools
  <2>1. pages' \in Seq(Pages)
    BY <1>4, MemPages DEF InitTools
  <2> QED
    BY <2>1, <1>4 DEF InitTools, MainInv, pool
<1>5. CASE First
  BY <1>5 DEF First, MainInv, pool
<1>6. CASE FirstPage
  <2>1. /\ at' = at + 1 /\ UNCHANGED <<pages, cnt, acc, acc2, request, waiting>>
        /\ pc = "first" /\ pc' \in {pc, "crashed"}
        /\ allSize' = allSize \/ allSize' = allSize + Cells[pages[at + 1]]
    BY <1>6 DEF FirstPage, pool
  <2>2. Cells[pages[at + 1]] \in Nat
    BY <1>6, FirstPageFiles, PagesAre
  <2> QED
    BY <2>1, <2>2 DEF MainInv
<1>7. CASE FirstEnds
  BY <1>7 DEF FirstEnds, MainInv, pool
<1>8. CASE Second
  BY <1>8 DEF Second, Begin, SearchNothing, MainInv, pool
<1>9. CASE Third
  BY <1>9 DEF Third, Begin, SearchNothing, MainInv, pool
<1>10. CASE Commit
  <2>1. at' \in Nat
    BY <1>10, LeftIn DEF Commit
  <2> QED
    BY <2>1, <1>10 DEF Commit, MainInv
<1>11. CASE Spin
  BY <1>11 DEF Spin, MainInv, pool
<1>12. CASE Dump
  BY <1>12 DEF Dump, MainInv, pool
<1>13. CASE Write
  BY <1>13 DEF Write, MainInv, pool
<1>14. CASE Clash
  BY <1>14 DEF Clash, MainInv, pool
<1>15. ASSUME NEW p \in Pages, Work(p) PROVE MainInv'
  <2>1. pc = "commit" /\ UNCHANGED <<request, waiting, pc, pages, cnt, at, acc2>>
    BY <1>15, WorkFrame
  <2>2. allSize' \in Nat
    <3>1. (SearchInv /\ pc = "commit" => allSize \in Nat)'
      BY FoundIsNat, PTL
    <3> QED
      BY <2>1, <3>1
  <2>3. acc' = acc \/ acc' = acc + 1
    BY <1>15 DEF Work, TakeTask, CreatNext, ScanPage, ScanCell, CellsEnd, Count
  <2> QED
    BY <2>1, <2>2, <2>3 DEF MainInv
<1>16. ASSUME NEW r \in Requests, AskFor(r) PROVE MainInv'
  BY <1>0, <1>16, HttpAssumption DEF AskFor, Ask, MainInv, pool
<1>17. CASE Outside /\ UNCHANGED waiting
  BY <1>17, OutsideFrame DEF MainInv
<1>18. ASSUME NEW a \in Addresses, NEW v \in Values, Change(a, v) PROVE UNCHANGED waiting
  BY <1>18 DEF Change
<1>19. ASSUME NEW p \in Pages, Unmap(p) PROVE UNCHANGED waiting
  BY <1>19 DEF Unmap
<1>20. UNCHANGED vars => UNCHANGED waiting
  BY DEF vars
<1>21. CASE Outside
  BY <1>16, <1>17, <1>18, <1>19, <1>20, <1>21 DEF Outside
<1> QED
  BY <1>1, <1>2, <1>3, <1>4, <1>5, <1>6, <1>7, <1>8, <1>9, <1>10, <1>11, <1>12, <1>13,
     <1>14, <1>15, <1>21 DEF Next, Loop, Outside

\* The pool.
LEMMA SpinPool ==
    ASSUME MainInv, PoolInv, Spin
    PROVE  PoolInv'
<1>1. /\ pc = "commit" /\ acc2 = acc /\ pc' \in {"reply", "hung"}
      /\ UNCHANGED <<search, at, acc, acc2, tasks, task>>
  BY DEF Spin, GoOn, Answer, pool
<1>2. tasks \in Seq(Pages) /\ acc + Len(tasks) + Cardinality(Busy) = acc2
  BY <1>1 DEF PoolInv
<1>3. Len(tasks) = 0 /\ Cardinality(Busy) = 0
  BY <1>1, <1>2, BusyFinite DEF MainInv
<1>4. tasks = <<>> /\ Busy = {}
  BY <1>2, <1>3, BusyFinite, FS_EmptySet
<1> QED
  BY <1>1, <1>4 DEF PoolInv, Busy

\* Every step keeps count of the tasks.
LEMMA NextPool ==
    ASSUME SInv, [Next]_vars
    PROVE  PoolInv'
<1> USE DEF SInv
<1>0. acc <= acc2 /\ acc2 <= Len(Cells) /\ Len(Cells) \in Nat
  BY PagesAre DEF PoolInv
<1>1. CASE Second \/ Third
  <2>1. ASSUME NEW level, Begin(level) PROVE PoolInv'
    BY <2>1, <1>1, BeginPool DEF Second, Third, Handle
  <2>2. ASSUME NEW count, SearchNothing(count) PROVE PoolInv'
    BY <2>2, <1>0, <1>1, PoolQuiet DEF Second, Third, Handle, SearchNothing, Answer, pool
  <2> QED
    BY <1>1, <2>1, <2>2 DEF Second, Third
<1>2. CASE Commit
  BY <1>2, CommitPool
<1>3. CASE Spin
  BY <1>3, SpinPool
<1>4. CASE Loop /\ ~Second /\ ~Third /\ ~Commit /\ ~Spin /\ ~Reply
  <2>1. UNCHANGED <<tasks, task, acc, acc2>> /\ pc' # "commit" /\ pc \notin {"commit", "crashed"}
    BY <1>4 DEF Loop, ReadCallBack, GetPages, InitTools, First, FirstPage, FirstEnds, Dump, Write, pool, Handle,
                Answer, GoOn
  <2> QED
    BY <1>0, <2>1, PoolQuiet
<1>5. CASE Reply
  <2>1. UNCHANGED <<tasks, task>> /\ pc' = "poll" /\ pc = "reply" /\ acc' = 0 /\ acc2' = 0
    BY <1>5 DEF Reply
  <2> QED
    BY <1>0, <2>1, PoolQuiet
<1>6. CASE Clash
  BY <1>0, <1>6, PoolQuiet DEF Clash, GoOn, pool
<1>7. ASSUME NEW p \in Pages, Work(p) PROVE PoolInv'
  <2>1. CASE TakeTask(p)
    BY <2>1, TakeTaskPool
  <2>2. CASE Count(p)
    BY <2>2, CountPool
  <2>3. CASE CreatNext(p) \/ ScanPage(p) \/ ScanCell(p) \/ CellsEnd(p)
    BY <2>3, <1>7, WorkingPool, WorkFiles DEF OnlyFile
  <2> QED
    BY <1>7, <2>1, <2>2, <2>3 DEF Work
<1>8. CASE Outside
  <2>1. UNCHANGED <<pc, at, search, acc, acc2, tasks, task, addr>>
    BY <1>8, OutsideFrame
  <2> QED
    BY <2>1, PoolFrame DEF PoolInv, Busy
<1> QED
  BY <1>1, <1>2, <1>3, <1>4, <1>5, <1>6, <1>7, <1>8 DEF Next, Loop, Outside

\* A search begins with nothing.
LEMMA BeginSearch ==
    ASSUME PoolInv, pc = "handle", UNCHANGED addr, NEW level, Begin(level),
           request.path \in {"/second", "/third"}, request.path = "/second" => level = 1
    PROVE  SearchInv'
<1>1. /\ at' = 0 /\ allSize' = 0 /\ search'.level = level
      /\ UNCHANGED <<request, tasks, task>>
  BY DEF Begin, GoOn, httpVars
<1>2. task[1] = task[1] /\ Busy = {}
  BY DEF PoolInv
<1>3. Kinds'
  BY <1>1, <1>2 DEF Kinds, Busy
<1>4. ASSUME NEW p \in Pages PROVE ~Created(p)'
  <2>1. ~(p <= 0)
    BY PagesAre
  <2> QED
    BY <1>1, <2>1 DEF Created
<1>5. FoundSoFar' = {}
  BY <1>4, AddressesAre DEF FoundSoFar
<1>6. Cardinality({}) = 0
  BY FS_EmptySet
<1> QED
  BY <1>1, <1>3, <1>4, <1>5, <1>6 DEF SearchInv

\* Every step keeps a search right.
LEMMA NextSearch ==
    ASSUME SInv, [Next]_vars
    PROVE  SearchInv'
<1> USE DEF SInv
<1>1. CASE Second
  <2>1. CASE Begin(1)
    BY <2>1, <1>1, BeginSearch DEF Second, Handle, files
  <2>2. CASE SearchNothing(2)
    BY <2>2 DEF SearchNothing, Answer, SearchInv
  <2> QED
    BY <2>1, <2>2, <1>1 DEF Second
<1>2. CASE Third
  <2>1. ASSUME NEW level, Begin(level) PROVE SearchInv'
    BY <2>1, <1>2, BeginSearch DEF Third, Handle, files
  <2>2. ASSUME NEW count, SearchNothing(count) PROVE SearchInv'
    BY <2>2 DEF SearchNothing, Answer, SearchInv
  <2> QED
    BY <2>1, <2>2, <1>2 DEF Third
<1>3. CASE Commit
  BY <1>3, CommitSearch
<1>4. CASE (Loop /\ ~Second /\ ~Third /\ ~Commit) \/ Clash
  <2>1. pc' # "commit"
    BY <1>4 DEF Loop, ReadCallBack, GetPages, InitTools, First, FirstPage, FirstEnds, Dump, Write, Handle,
                Answer, GoOn, Spin, Reply, Clash
  <2> QED
    BY <2>1 DEF SearchInv
<1>5. ASSUME NEW p \in Pages, Work(p) PROVE SearchInv'
  BY <1>5, TakeTaskSearch, CreatNextSearch, ScanPageSearch, ScanCellSearch, CellsEndSearch, CountSearch DEF Work
<1>6. CASE Outside
  <2>1. UNCHANGED <<pc, request, search, at, addr, data, tasks, task, allSize>>
    BY <1>6, OutsideFrame
  <2>2. pc = "commit" => Kinds'
    BY <2>1 DEF Kinds, SearchInv
  <2>3. \A q \in Pages : Created(q)' <=> Created(q)
    BY <2>1 DEF Created
  <2>4. \A q \in Pages : Looked(q)' = Looked(q)
    BY <2>1 DEF Looked, OnPage
  <2>5. changes' = 0 => changes = 0 /\ memory' = memory
    BY <1>6, OutsideFrame
  <2> QED
    BY <2>1, <2>2, <2>3, <2>4, <2>5, SearchFrame
<1> QED
  BY <1>1, <1>2, <1>3, <1>4, <1>5, <1>6 DEF Next, Loop, Outside

\* FirstSearch.
LEMMA FirstFrame ==
    ASSUME FirstInv, DOMAIN addr' \cap {<<p, 1>> : p \in Pages} \subseteq DOMAIN addr,
           Range(pages) \subseteq Range(pages'),
           pc' = "first" =>
               /\ pc = "first" /\ UNCHANGED <<pages, at, allSize, addr, data>>
               /\ changes' = 0 => changes = 0
    PROVE  FirstInv'
<1>1. \A p \in Pages : <<p, 1>> \in DOMAIN addr' => p \in Range(pages') \ Guarded
  BY DEF FirstInv
<1>2. CASE pc' # "first"
  BY <1>1, <1>2 DEF FirstInv
<1>3. CASE pc' = "first"
  <2>1. Past(at)' = Past(at)
    BY <1>3 DEF Past
  <2>2. /\ at' <= Len(pages')
        /\ changes' = 0 => \A p \in Past(at) : <<p, 1>> \in DOMAIN addr' /\ Len(data'[<<p, 1>>]) = Cells[p]
        /\ IsInjective(pages') => allSize' = Cardinality({a \in Addresses : a[1] \in Past(at)})
    BY <1>3 DEF FirstInv
  <2> QED
    BY <1>1, <2>1, <2>2 DEF FirstInv
<1> QED
  BY <1>2, <1>3

\* Before the first page it has come past none.
LEMMA FirstBegins ==
    ASSUME MainInv, FirstInv, UNCHANGED <<pages, addr>>, at' = 0, allSize' = 0
    PROVE  FirstInv'
<1>1. Past(at)' = {}
  BY DEF Past
<1>2. {a \in Addresses : a[1] \in {}} = {} /\ Cardinality({}) = 0
  BY FS_EmptySet
<1>3. at' <= Len(pages')
  BY DEF MainInv
<1>4. \A p \in Pages : <<p, 1>> \in DOMAIN addr' => p \in Range(pages') \ Guarded
  BY DEF FirstInv
<1>5. Cardinality({a \in Addresses : a[1] \in Past(at)})' = 0
  BY <1>1, <1>2
<1> QED
  BY <1>1, <1>3, <1>4, <1>5 DEF FirstInv

\* Every step keeps FirstSearch right.
LEMMA NextFirst ==
    ASSUME SInv, [Next]_vars
    PROVE  FirstInv'
<1> USE DEF SInv
<1>1. CASE GetPages \/ InitTools
  <2>1. Range(pages) \subseteq Range(pages')
    BY <1>1, MemPages DEF GetPages, InitTools
  <2>2. pc' # "first" /\ (UNCHANGED addr \/ addr' = <<>>) /\ DOMAIN <<>> = {}
    BY <1>1 DEF GetPages, InitTools, Answer, files
  <2> QED
    BY <2>1, <2>2, FirstFrame
<1>2. CASE First
  <2>1. CASE request.type = "int"
    BY <1>2, <2>1, FirstBegins DEF First, GoOn, files
  <2>2. CASE request.type # "int"
    BY <1>2, <2>2, FirstFrame DEF First, Answer, files
  <2> QED
    BY <2>1, <2>2
<1>3. CASE FirstPage
  BY <1>3, FirstPageFirst
<1>4. CASE (Loop /\ ~GetPages /\ ~InitTools /\ ~First /\ ~FirstPage) \/ Clash
  <2>1. UNCHANGED <<pages, addr>> /\ pc' # "first"
    BY <1>4 DEF Loop, ReadCallBack, FirstEnds, Second, Third, Begin, SearchNothing, Commit, Spin, Dump, Write,
                Reply, Clash, Answer, GoOn, Handle, files
  <2> QED
    BY <2>1, FirstFrame
<1>5. ASSUME NEW p \in Pages, Work(p) PROVE FirstInv'
  <2>1. pc' = "commit" /\ UNCHANGED pages /\ OnlyFile(p, search.level + 1)
    BY <1>5, WorkFrame, WorkFiles
  <2>2. CASE CreatNext(p)
    <3>1. search.level \in Nat \ {0}
      BY <2>2, Working DEF CreatNext, Is
    <3>2. search.level + 1 # 1
      BY <3>1
    <3>3. DOMAIN addr' \cap {<<q, 1>> : q \in Pages} \subseteq DOMAIN addr
      BY <2>1, <3>2 DEF OnlyFile
    <3> QED
      BY <2>1, <3>3, FirstFrame
  <2>3. CASE ~CreatNext(p)
    <3>1. DOMAIN addr' = DOMAIN addr
      BY <1>5, <2>3 DEF Work, TakeTask, ScanPage, ScanCell, CellsEnd, Count, Found, AppendAll, files
    <3> QED
      BY <2>1, <3>1, FirstFrame
  <2> QED
    BY <2>2, <2>3
<1>6. CASE Outside
  BY <1>6, OutsideFrame, FirstFrame
<1> QED
  BY <1>1, <1>2, <1>3, <1>4, <1>5, <1>6 DEF Next, Loop, Outside

\* No search after the first finds what the one before has not.
LEMMA ResultsElsewhere ==
    ASSUME NEW p, NEW k, OnlyFile(p, k), NEW count, count # k
    PROVE  Results(count)' = Results(count)
<1>1. ASSUME NEW key PROVE key \in DOMAIN addr' /\ key[2] = count <=> key \in DOMAIN addr /\ key[2] = count
  BY DEF OnlyFile
<1>2. ASSUME NEW key \in DOMAIN addr, key[2] = count PROVE addr'[key] = addr[key]
  BY <1>1, <1>2 DEF OnlyFile
<1>3. {key \in DOMAIN addr' : key[2] = count} = {key \in DOMAIN addr : key[2] = count}
  BY <1>1
<1>4. {Range(addr'[key]) : key \in {key \in DOMAIN addr' : key[2] = count}} =
      {Range(addr[key]) : key \in {key \in DOMAIN addr : key[2] = count}}
  BY <1>2, <1>3
<1> QED
  BY <1>4 DEF Results

\* Results are in files.
LEMMA NarrowingKept ==
    ASSUME UNCHANGED addr, NEW n, Narrowing(n)
    PROVE  Narrowing(n)'
BY DEF Narrowing, Results

\* A search that writes its own results leaves those before alone.
LEMMA NarrowingElsewhere ==
    ASSUME NEW p, NEW n \in Nat, OnlyFile(p, n + 1), Narrowing(n - 1)
    PROVE  Narrowing(n - 1)'
<1>1. ASSUME NEW count \in 2 .. n - 1 PROVE Results(count + 1)' \subseteq Results(count)'
  <2>1. count # n + 1 /\ count + 1 # n + 1
    OBVIOUS
  <2>2. Results(count)' = Results(count) /\ Results(count + 1)' = Results(count + 1)
    BY <2>1, ResultsElsewhere
  <2> QED
    BY <2>2 DEF Narrowing
<1> QED
  BY <1>1 DEF Narrowing

\* Steps that change no file and no number of a search.
LEMMA NarrowFrame ==
    ASSUME NarrowInv, UNCHANGED <<addr, cnt, search, request>>, orderly' => orderly,
           \/ pc' \notin {"poll", "handle", "reply", "commit"}
           \/ pc \in {"poll", "handle", "reply"} /\ pc' \in {"poll", "handle", "reply"}
           \/ pc = "commit" /\ pc' = "commit"
    PROVE  NarrowInv'
<1>1. Narrowing(cnt - 1) => Narrowing(cnt - 1)'
  BY DEF Narrowing, Results
<1> QED
  BY <1>1 DEF NarrowInv

\* The search that ends found nothing but results of the one before.
LEMMA SpinNarrow ==
    ASSUME FilesInv, MainInv, PoolInv, SearchInv, NarrowInv, Spin
    PROVE  NarrowInv'
<1>1. /\ pc = "commit" /\ Left = {} /\ acc2 = acc /\ UNCHANGED <<addr, orderly, request>>
      /\ \/ cnt' = (IF request.path = "/second" THEN 2 ELSE cnt + 1) /\ pc' = "reply"
         \/ pc' = "hung"
  BY DEF Spin, Answer, GoOn, files, http, httpVars
<1> SUFFICES ASSUME orderly, pc' = "reply" PROVE Narrowing(cnt - 1)'
  BY <1>1 DEF NarrowInv
<1>2. CASE request.path = "/second"
  <2>1. cnt' = 2 /\ 2 .. 2 - 1 = {}
    BY <1>1, <1>2
  <2> QED
    BY <2>1 DEF Narrowing
<1>3. CASE request.path # "/second"
  <2>1. request.path = "/third" /\ cnt' = cnt + 1
    BY <1>1, <1>3 DEF SearchInv, Kinds
  <2>2. search.level = cnt /\ cnt >= 2 /\ cnt \in Nat /\ Narrowing(cnt - 1)
    BY <2>1, <1>1 DEF NarrowInv, MainInv
  <2>3. Results(search.level + 1) \subseteq Results(search.level)
    <3>1. WellFound(Results(search.level + 1)) /\ search.level \in Nat \ {0}
      BY <1>1, <2>2, SearchEnds
    <3> QED
      BY <3>1, <1>3 DEF WellFound, Candidates
  <2> PICK n : n = cnt
    OBVIOUS
  <2>4. Narrowing(n)
    <3>1. \A count \in 2 .. cnt : count = cnt \/ count \in 2 .. cnt - 1
      BY <2>2
    <3> QED
      BY <2>2, <2>3, <3>1 DEF Narrowing
  <2>5. Narrowing(n)'
    BY <2>4, <1>1, NarrowingKept
  <2>6. cnt' - 1 = n
    BY <2>1, <2>2
  <2> QED
    BY <2>5, <2>6 DEF Narrowing
<1> QED
  BY <1>2, <1>3

\* Every step keeps the searches narrowing.
LEMMA NextNarrow ==
    ASSUME SInv, [Next]_vars
    PROVE  NarrowInv'
<1> USE DEF SInv
<1>1. CASE InitTools
  <2>1. cnt' = 0 /\ pc' = "reply" /\ 2 .. 0 - 1 = {}
    BY <1>1 DEF InitTools, Answer
  <2> QED
    BY <2>1 DEF NarrowInv, Narrowing
<1>2. CASE First
  BY <1>2 DEF First, Answer, GoOn, NarrowInv
<1>3. CASE FirstPage
  <2>1. pc' \in {"first", "crashed"}
    BY <1>3 DEF FirstPage, GoOn
  <2> QED
    BY <2>1 DEF NarrowInv
<1>4. CASE FirstEnds
  <2>1. cnt' = 1 /\ pc' = "reply" /\ 2 .. 1 - 1 = {}
    BY <1>4 DEF FirstEnds, Answer
  <2> QED
    BY <2>1 DEF NarrowInv, Narrowing
<1>5. CASE Second
  <2>1. CASE request.func \in Functions_
    <3>1. pc' \in {"commit", "crashed"} /\ request' = request /\ request.path = "/second"
      BY <1>5, <2>1 DEF Second, Begin, GoOn, Handle, httpVars
    <3> QED
      BY <3>1 DEF NarrowInv
  <2>2. CASE request.func \notin Functions_
    BY <1>5, <2>2 DEF Second, NarrowInv
  <2> QED
    BY <2>1, <2>2
<1>6. CASE Third
  <2>1. CASE request.func \in Functions_
    <3>1. /\ pc = "handle" /\ pc' \in {"commit", "crashed"} /\ UNCHANGED <<cnt, addr>>
          /\ \E count : /\ search'.level = count
                        /\ orderly' = (orderly /\ cnt >= 2 /\ count = cnt /\ request.func \in Functions_)
      BY <1>6, <2>1 DEF Third, Begin, GoOn, Handle, files
    <3>2. Narrowing(cnt - 1) => Narrowing(cnt - 1)'
      BY <3>1 DEF Narrowing, Results
    <3> QED
      BY <3>1, <3>2 DEF NarrowInv
  <2>2. CASE request.func \notin Functions_
    BY <1>6, <2>2 DEF Third, NarrowInv
  <2> QED
    BY <2>1, <2>2
<1>7. CASE Spin
  BY <1>7, SpinNarrow
<1>8. CASE GetPages \/ Dump \/ Write \/ Commit \/ Clash
  <2>1. /\ UNCHANGED <<addr, cnt, search, request, orderly>>
        /\ \/ pc = "handle" /\ pc' \in {"reply", "crashed"}
           \/ pc = "commit" /\ pc' = pc
           \/ pc' = "crashed"
    BY <1>8 DEF GetPages, Dump, Write, Commit, Clash, Answer, GoOn, Handle, files, http, httpVars
  <2> QED
    BY <2>1, NarrowFrame
<1>9. ASSUME NEW n \in 1 .. Len(wire), ReadCallBack(n) PROVE NarrowInv'
  <2>1. pc = "poll" /\ pc' \in {"handle", "reply", "crashed"} /\ UNCHANGED <<addr, cnt, orderly>>
    BY <1>9 DEF ReadCallBack, files
  <2>2. Narrowing(cnt - 1) => Narrowing(cnt - 1)'
    BY <2>1 DEF Narrowing, Results
  <2> QED
    BY <2>1, <2>2 DEF NarrowInv
<1>10. CASE Reply
  <2>1. pc = "reply" /\ pc' = "poll" /\ UNCHANGED <<addr, cnt, orderly>>
    BY <1>10 DEF Reply, files
  <2>2. Narrowing(cnt - 1) => Narrowing(cnt - 1)'
    BY <2>1 DEF Narrowing, Results
  <2> QED
    BY <2>1, <2>2 DEF NarrowInv
<1>11. ASSUME NEW p \in Pages, Work(p) PROVE NarrowInv'
  <2>1. pc = "commit" /\ UNCHANGED <<request, pc, cnt, search, orderly>> /\ OnlyFile(p, search.level + 1)
    BY <1>11, WorkFrame, WorkFiles DEF httpVars
  <2> SUFFICES ASSUME orderly, request.path = "/third"
               PROVE  search.level = cnt /\ cnt >= 2 /\ Narrowing(cnt - 1)'
    BY <2>1 DEF NarrowInv
  <2>2. search.level = cnt /\ cnt >= 2 /\ Narrowing(cnt - 1) /\ cnt \in Nat
    BY <2>1 DEF NarrowInv, MainInv
  <2> PICK n \in Nat : n = cnt
    BY <2>2
  <2>3. Narrowing(n - 1)'
    BY <2>1, <2>2, NarrowingElsewhere
  <2> QED
    BY <2>1, <2>2, <2>3 DEF Narrowing
<1>12. CASE Outside
  <2>1. UNCHANGED <<addr, cnt, search, request, pc, orderly>>
    BY <1>12, OutsideFrame
  <2>2. pc \in {"poll", "handle", "first", "commit", "reply", "hung", "crashed"}
    BY DEF MainInv
  <2> QED
    BY <2>1, <2>2, NarrowFrame
<1> QED
  BY <1>1, <1>2, <1>3, <1>4, <1>5, <1>6, <1>7, <1>8, <1>9, <1>10, <1>11, <1>12 DEF Next, Loop, Outside

\* Answers.
LEMMA NextSearchIsRight ==
    ASSUME SInv, [Next]_vars
    PROVE  SearchIsRight'
<1> USE DEF SInv
<1>1. CASE Spin
  BY <1>1, SpinAnswers
<1>2. CASE Outside
  <2>1. /\ UNCHANGED <<pc, request, response, search, addr, data>>
        /\ changes' = 0 => changes = 0 /\ memory' = memory
    BY <1>2, OutsideFrame
  <2> QED
    BY <2>1, AnswerKept
<1>3. CASE ~Searched'
  BY <1>3 DEF SearchIsRight
<1>4. ASSUME NEW n \in 1 .. Len(wire), ReadCallBack(n) PROVE ~Searched'
  <2>1. pc' = "reply" => ~Handled(request')
    BY <1>4 DEF ReadCallBack
  <2> QED
    BY <2>1, HandlersAssumption DEF Handled, Searched
<1>5. CASE Second \/ Third
  <2>1. request' = request /\ (pc' = "reply" => request.func \notin Functions_)
    BY <1>5 DEF Second, Third, Begin, SearchNothing, GoOn, Answer, http, httpVars
  <2> QED
    BY <2>1, <1>3 DEF Searched
<1>6. CASE Reply \/ Commit \/ Clash \/ FirstPage
  <2>1. pc' # "reply"
    BY <1>6 DEF Reply, Commit, Clash, FirstPage, GoOn
  <2> QED
    BY <2>1, <1>3 DEF Searched
<1>7. CASE GetPages \/ InitTools \/ First \/ FirstEnds \/ Dump \/ Write
  <2>1. request.path \in {"/getPages", "/init", "/first", "/dump", "/write"}
    BY <1>7 DEF GetPages, InitTools, First, FirstEnds, Dump, Write, Handle, MainInv
  <2>2. request' = request
    BY <1>7 DEF GetPages, InitTools, First, FirstEnds, Dump, Write, Answer, GoOn, http, httpVars
  <2> QED
    BY <2>1, <2>2, <1>3 DEF Searched
<1>8. ASSUME NEW p \in Pages, Work(p) PROVE ~Searched'
  <2>1. pc' = "commit"
    BY <1>8, WorkFrame
  <2> QED
    BY <2>1 DEF Searched
<1> QED
  BY <1>1, <1>2, <1>3, <1>4, <1>5, <1>6, <1>7, <1>8 DEF Next, Loop, Outside

\* Only the end of FirstSearch gives /first a number.
LEMMA NextFirstIsRight ==
    ASSUME SInv, [Next]_vars
    PROVE  FirstIsRight'
<1> USE DEF SInv
<1>1. CASE FirstEnds
  BY <1>1, FirstAnswers
<1>2. CASE Outside
  <2>1. /\ UNCHANGED <<pc, request, response, pages, data>>
        /\ changes' = 0 => changes = 0
    BY <1>2, OutsideFrame
  <2>2. FirstValues' = FirstValues
    BY <2>1 DEF FirstValues
  <2> QED
    BY <2>1, <2>2 DEF FirstIsRight
<1>3. CASE pc' # "reply" \/ request'.path # "/first" \/ response' = Absent
  BY <1>3 DEF FirstIsRight
<1>4. ASSUME NEW n \in 1 .. Len(wire), ReadCallBack(n) PROVE response' = Absent
  BY <1>4 DEF ReadCallBack, Read
<1>5. CASE Reply \/ Commit \/ Clash \/ FirstPage
  <2>1. pc' # "reply"
    BY <1>5 DEF Reply, Commit, Clash, FirstPage, GoOn
  <2> QED
    BY <2>1, <1>3
<1>6. CASE First
  <2>1. pc' = "first" \/ response' = Absent
    BY <1>6 DEF First, GoOn, Answer
  <2> QED
    BY <2>1, <1>3
<1>7. CASE GetPages \/ InitTools \/ Second \/ Third \/ Dump \/ Write \/ Spin
  <2>1. request.path \in {"/getPages", "/init", "/second", "/third", "/dump", "/write"}
    BY <1>7 DEF GetPages, InitTools, Second, Third, Dump, Write, Spin, Handle, SearchInv, Kinds
  <2>2. request' = request
    BY <1>7 DEF GetPages, InitTools, Second, Third, Begin, SearchNothing, Dump, Write, Spin, Answer, GoOn, http,
                httpVars
  <2> QED
    BY <2>1, <2>2, <1>3
<1>8. ASSUME NEW p \in Pages, Work(p) PROVE pc' # "reply"
  BY <1>8, WorkFrame
<1> QED
  BY <1>1, <1>2, <1>3, <1>4, <1>5, <1>6, <1>7, <1>8 DEF Next, Loop, Outside

\* Nothing was searched yet.
LEMMA InitSInv == Init => SInv
<1> SUFFICES ASSUME Init PROVE SInv
  OBVIOUS
<1> USE DEF Init, HttpInit
<1>1. DOMAIN <<>> = {} /\ Len(<<>>) = 0 /\ 1 .. 0 = {}
  OBVIOUS
<1>2. FilesInv
  BY <1>1 DEF FilesInv
<1>3. TargetInv
  BY MemoryToolsAssumption DEF TargetInv
<1>4. MainInv
  BY HttpAssumption DEF MainInv
<1>5. PoolInv
  <2>1. 0 <= Len(Cells) /\ Len(Cells) \in Nat
    BY PagesAre
  <2>2. task \in [Pages -> [pc : TaskPlaces, i : Nat, buff : Values \cup {Absent}]] /\ Busy = {}
    BY DEF Resting, TaskPlaces, Busy
  <2> QED
    BY <2>1, <2>2 DEF PoolInv
<1>6. SearchInv /\ SearchIsRight /\ FirstIsRight
  BY DEF SearchInv, SearchIsRight, Searched, FirstIsRight
<1>7. FirstInv
  BY <1>1 DEF FirstInv
<1>8. NarrowInv
  <2>1. 2 .. 0 - 1 = {}
    OBVIOUS
  <2> QED
    BY <2>1 DEF NarrowInv, Narrowing
<1> QED
  BY <1>2, <1>3, <1>4, <1>5, <1>6, <1>7, <1>8 DEF SInv

\* Every step keeps the invariant.
LEMMA NextSInv == HInv /\ SInv /\ [Next]_vars => SInv'
<1> SUFFICES ASSUME HInv, SInv, [Next]_vars PROVE SInv'
  OBVIOUS
<1>1. FilesInv' /\ TargetInv' /\ PoolInv' /\ SearchInv'
  BY NextFiles, NextTarget, NextPool, NextSearch
<1>2. MainInv'
  BY <1>1, NextMain
<1>3. FirstInv' /\ NarrowInv' /\ SearchIsRight' /\ FirstIsRight'
  BY NextFirst, NextNarrow, NextSearchIsRight, NextFirstIsRight
<1> QED
  BY <1>1, <1>2, <1>3 DEF SInv

\* The invariant says what the searches promise.
LEMMA SInvIsRight == HInv /\ SInv => SearchesAreRight
<1> SUFFICES ASSUME HInv, SInv PROVE SearchesAreRight
  OBVIOUS
<1>1. TypeOK
  <2>1. acc2 <= Cardinality(Pages)
    BY PagesAre DEF SInv, PoolInv
  <2> QED
    BY <2>1 DEF TypeOK, SInv, HInv, HttpTypes, Piece, FilesInv, TargetInv, MainInv, PoolInv
<1>2. FilesAgree
  <2>1. ASSUME NEW key \in DOMAIN addr
        PROVE  /\ key[2] > 1 => Len(addr[key]) = Len(data[key])
               /\ \A i, j \in DOMAIN addr[key] :
                     /\ addr[key][i][1] = key[1]
                     /\ i < j => addr[key][i][2] < addr[key][j][2]
    <3> PICK f, g : f = addr[key] /\ g = data[key]
      OBVIOUS
    <3>1. IsFile(key, f, g)
      BY DEF SInv, FilesInv
    <3>2. DOMAIN f = 1 .. Len(f)
      BY <3>1, FileIs
    <3>3. key[2] > 1 => key[2] # 1
      BY DEF SInv, FilesInv
    <3> QED
      BY <3>1, <3>2, <3>3 DEF IsFile
  <2> QED
    BY <2>1 DEF FilesAgree, SInv, FilesInv
<1>3. Narrow
  <2>1. ASSUME orderly, pc \in {"poll", "reply"} PROVE Narrowing(cnt - 1)
    BY <2>1 DEF SInv, NarrowInv
  <2> QED
    BY <2>1 DEF Narrow, Narrowing
<1> QED
  BY <1>1, <1>2, <1>3 DEF SearchesAreRight, SInv

\* Whatever is asked for in whatever order, and whatever the target does meanwhile:
\* the files agree with each other, each search finds what it should and counts it,
\* and searches in their order narrow down.
THEOREM SearchesRight == Spec => []SearchesAreRight
<1> QED
  BY InitHInv, NextHInv, InitSInv, NextSInv, SInvIsRight, PTL DEF Spec

\* What the busy loop of Second and Third compares: as many tasks have counted
\* themselves as were committed exactly when none is queued and none runs.  So the
\* loop thread neither leaves a task behind, whose pool it would destroy, nor waits
\* for one that will never come.
CountersTell == pc = "commit" => (acc2 = acc <=> tasks = <<>> /\ Busy = {})

THEOREM BusyLoopEndsWithTasks == Spec => []CountersTell
<1>1. SInv => CountersTell
  <2> SUFFICES ASSUME SInv, pc = "commit" PROVE acc2 = acc <=> tasks = <<>> /\ Busy = {}
    BY DEF CountersTell
  <2>1. /\ tasks \in Seq(Pages) /\ acc \in Nat /\ acc2 \in Nat
        /\ acc + Len(tasks) + Cardinality(Busy) = acc2
    BY DEF SInv, PoolInv, MainInv
  <2>2. Len(tasks) \in Nat /\ Cardinality(Busy) \in Nat
    BY <2>1, BusyFinite
  <2>3. acc2 = acc <=> Len(tasks) = 0 /\ Cardinality(Busy) = 0
    BY <2>1, <2>2
  <2>4. Cardinality(Busy) = 0 <=> Busy = {}
    BY BusyFinite, FS_EmptySet
  <2>5. Len(tasks) = 0 <=> tasks = <<>>
    BY <2>1
  <2> QED
    BY <2>3, <2>4, <2>5
<1> QED
  BY <1>1, InitHInv, NextHInv, InitSInv, NextSInv, PTL DEF Spec
=============================================================================
