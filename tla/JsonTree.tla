---------------------------- MODULE JsonTree ----------------------------
(***************************************************************************)
(* Json::Value (jsoncpp, the library MemoryTools answers its requests      *)
(* with) as a container.  A value is a tree of std::maps; here it is a     *)
(* function from the paths of the tree to its nodes.  A path is a sequence *)
(* of keys, and a key, the code's CZString, is a sequence of numbers: <<i>>*)
(* for index i of an array, the character codes of the name for a member   *)
(* of an object.  Entries of an array that were never made are not in the  *)
(* tree.                                                                   *)
(***************************************************************************)
EXTENDS Integers, Sequences, FiniteSets

Largest(S) == CHOOSE x \in S : \A y \in S : y <= x

----------------------------------------------------------------------------
(* Nodes and trees. *)

TypeRank == [null |-> 0, int |-> 1, uint |-> 2, real |-> 3, string |-> 4,
             boolean |-> 5, array |-> 6, object |-> 7]
ValueType == DOMAIN TypeRank

CommentPlacement == {"before", "afterOnSameLine", "after"}
NoComments == [slot \in CommentPlacement |-> <<>>]

NullNode == [type |-> "null", data |-> <<>>, comments |-> NoComments,
             start |-> 0, limit |-> 0]

Make(type, data) == [p \in {<<>>} |-> [NullNode EXCEPT !.type = type, !.data = data]]
Null      == Make("null", <<>>)
OfInt(n)    == Make("int", <<n>>)
OfUInt(n)   == Make("uint", <<n>>)
OfReal(d)   == Make("real", d)
OfString(s) == Make("string", s)
OfBool(b)   == Make("boolean", <<IF b THEN 1 ELSE 0>>)
Empty(t)    == Make(t, <<>>)

Type(v) == v[<<>>].type
Data(v) == v[<<>>].data

IsUnder(p, r) == Len(p) <= Len(r) /\ SubSeq(r, 1, Len(p)) = p
Under(v, p)   == {r \in DOMAIN v : IsUnder(p, r)}
Rest(p, r)    == SubSeq(r, Len(p) + 1, Len(r))

At(v, p)  == [q \in {Rest(p, r) : r \in Under(v, p)} |-> v[p \o q]]
Drop(v, p) == [r \in DOMAIN v \ Under(v, p) |-> v[r]]
Put(v, p, w) ==
    LET new == {p \o q : q \in DOMAIN w}
    IN [r \in (DOMAIN v \ Under(v, p)) \union new |->
           IF r \in new THEN w[Rest(p, r)] ELSE v[r]]

Keys(v) == {q[1] : q \in {q \in DOMAIN v : Len(q) = 1}}
Child(v, k) == At(v, <<k>>)

IsNull(v)   == Type(v) = "null"
IsArray(v)  == Type(v) = "array"
IsObject(v) == Type(v) = "object"

size(v) == CASE IsArray(v)  -> IF Keys(v) = {} THEN 0
                               ELSE Largest({k[1] : k \in Keys(v)}) + 1
             [] IsObject(v) -> Cardinality(Keys(v))
             [] OTHER       -> 0

empty(v) == (IsNull(v) \/ IsArray(v) \/ IsObject(v)) /\ size(v) = 0

isValidIndex(v, i) == i < size(v)

----------------------------------------------------------------------------
(* The operations.  Those that may throw say so with an operator of their  *)
(* own; what they have changed by then, they have changed.                 *)

Allows(v, t) == Type(v) \in {"null", t}

(* "if (type() == nullValue) *this = Value(t)", comments and all.          *)
Become(v, t) == IF IsNull(v) THEN Empty(t) ELSE v

(* operator[](ArrayIndex) and resolveReference.                            *)
Element(v, i) == LET a == Become(v, "array")
                 IN IF <<i>> \in Keys(a) THEN a ELSE Put(a, <<<<i>>>>, Null)
resolveReference(v, name) ==
    LET o == Become(v, "object")
    IN IF name \in Keys(o) THEN o ELSE Put(o, <<name>>, Null)

(* operator[] const and find: nullSingleton where there is nothing.        *)
Indexed(v, i)  == IF <<i>> \in Keys(v) THEN Child(v, <<i>>) ELSE Null
Member(v, name) == IF name \in Keys(v) THEN Child(v, name) ELSE Null

isMember(v, name) == IsObject(v) /\ name \in Keys(v)

get(v, name, default) == IF isMember(v, name) THEN Child(v, name) ELSE default

clear(v) == [p \in {<<>>} |-> [v[<<>>] EXCEPT !.start = 0, !.limit = 0]]

Elements(v, from, to) ==          \* (*this)[i] for i in from .. to - 1
    LET a   == Become(v, "array")
        new == {<<<<i>>>> : i \in from .. to - 1} \ DOMAIN a
    IN [r \in DOMAIN a \union new |-> IF r \in new THEN NullNode ELSE a[r]]

resize(v, n) ==
    LET a == Become(v, "array")
    IN CASE n = 0       -> clear(a)
         [] n > size(a) -> Elements(a, size(a), n)
         [] OTHER       -> [r \in {r \in DOMAIN a : r = <<>> \/ r[1][1] < n} |-> a[r]]

(* JSON_ASSERT(size() == newSize), in the branch that erases.              *)
resizeThrows(v, n) == n # 0 /\ n <= size(v) /\ size(resize(v, n)) # n

appendAtCount(v, w) ==                 \* the number of entries for the size
    LET a == Become(v, "array") IN Put(a, <<<<Cardinality(Keys(a))>>>>, w)
append(v, w) == LET a == Become(v, "array") IN Put(a, <<<<size(a)>>>>, w)

(* The loops of insert and removeIndex reach every element they move with  *)
(* operator[], which makes those that were not there.                      *)
Moved(v, from, to, by) ==         \* elements from .. to - 1, moved by `by`
    LET all  == Elements(v, from, to)
        kept == {r \in DOMAIN all : r = <<>> \/ r[1][1] < (IF by < 0 THEN from + by ELSE from)}
        move(r) == <<<<r[1][1] + by>>>> \o Tail(r)
        back(r) == <<<<r[1][1] - by>>>> \o Tail(r)
        new  == {move(r) : r \in {r \in DOMAIN all : r # <<>> /\ r[1][1] \in from .. to - 1}}
    IN [r \in kept \union new |-> IF r \in new THEN all[back(r)] ELSE all[r]]

insertFails(v, i) == i > size(v)
insert(v, i, w) == IF insertFails(v, i) THEN v
                   ELSE Put(Moved(v, i, size(v), 1), <<<<i>>>>, w)

removeIndexFails(v, i) == ~IsArray(v) \/ <<i>> \notin Keys(v)
removeIndex(v, i) == IF removeIndexFails(v, i) THEN v
                     ELSE Moved(v, i + 1, size(v), -1)

removeMember(v, name) == IF isMember(v, name) THEN Drop(v, <<name>>) ELSE v

(* A name that goes through a char pointer ends at its first 0.            *)
CString(name) == IF \E i \in DOMAIN name : name[i] = 0
                 THEN SubSeq(name, 1, (CHOOSE i \in DOMAIN name :
                        name[i] = 0 /\ \A j \in 1 .. i - 1 : name[j] # 0) - 1)
                 ELSE name

(* swapPayload leaves comments and offsets where they are.                 *)
WithPayload(v, w) == [w EXCEPT ![<<>>].comments = v[<<>>].comments,
                               ![<<>>].start = v[<<>>].start,
                               ![<<>>].limit = v[<<>>].limit]

(* setComment drops one trailing newline.                                  *)
setComment(v, p, text, slot) ==
    LET n == Len(text)
    IN [v EXCEPT ![p].comments[slot] =
            IF text[n] = 10 THEN SubSeq(text, 1, n - 1) ELSE text]
----------------------------------------------------------------------------
(* Every Value in the tree is in a Value that can hold it, under a key of  *)
(* its kind, and a Value without children has the data of its type.        *)
IsKeyOf(type, k) == CASE type = "array"  -> Len(k) = 1 /\ k[1] >= 0
                      [] type = "object" -> k \in Seq(0 .. 255)
                      [] OTHER           -> FALSE

WellFormed(v) ==
    /\ <<>> \in DOMAIN v
    /\ \A p \in DOMAIN v \ {<<>>} :
          LET up == SubSeq(p, 1, Len(p) - 1)
          IN up \in DOMAIN v /\ IsKeyOf(v[up].type, p[Len(p)])
    /\ \A p \in DOMAIN v : /\ v[p].type \in ValueType
                           /\ v[p].type \in {"null", "array", "object"} => v[p].data = <<>>
============================================================================
