--------------------------- MODULE JsonPromise ---------------------------
(***************************************************************************)
(* What value.h promises of a Json::Value: an array is a sequence, without *)
(* gaps, that grows with nulls; an object maps names to Values; and every  *)
(* operation changes the Value it is called on and nothing above, below or *)
(* beside it.  root is a Value with all that is in it, other a second one. *)
(* Of a call that is not honoured only the last of this is left.           *)
(*                                                                         *)
(* Every operator below says what the Value v may become, in one call on   *)
(* it: v2 is the Value afterwards.                                         *)
(***************************************************************************)
EXTENDS JsonTree, SequencesExt

VARIABLES root, other,
          honoured   \* whether the last call has done what value.h says of it

Items(v) == [i \in 1 .. Cardinality(Keys(v)) |-> Child(v, <<i - 1>>)]

(* The array of these items, with v's own comments and offsets.            *)
OfItems(v, items) ==
    LET a     == Become(v, "array")
        paths == UNION {{<<<<i - 1>>>> \o q : q \in DOMAIN items[i]} : i \in DOMAIN items}
    IN [r \in {<<>>} \union paths |->
           IF r = <<>> THEN a[<<>>] ELSE items[r[1][1] + 1][Tail(r)]]

----------------------------------------------------------------------------
(* operator[] and resize: nulls up to the n-th item.                       *)
Grow(v, n, v2) ==
    /\ Allows(v, "array")
    /\ v2 = OfItems(v, [i \in 1 .. IF n < Len(Items(v)) THEN Len(Items(v)) ELSE n |->
                           IF i <= Len(Items(v)) THEN Items(v)[i] ELSE Null])

Shrink(v, n, v2) ==
    /\ Allows(v, "array")
    /\ v2 = OfItems(v, SubSeq(Items(v), 1, n))

Insert(v, i, w, v2) ==
    /\ Allows(v, "array")
    /\ v2 = OfItems(v, InsertAt(Items(v), i + 1, w))

(* Of a null that was never written nothing may be removed: a stutter.     *)
TakeOut(v, i, v2, removed) ==
    /\ Type(v) = "array"
    /\ removed = Items(v)[i + 1]
    /\ v2 = OfItems(v, RemoveAt(Items(v), i + 1))

Name(v, name, v2) ==
    /\ Allows(v, "object")
    /\ v2 = IF name \in Keys(v) THEN v ELSE Put(Become(v, "object"), <<name>>, Null)

Forget(v, name, v2, removed) ==
    /\ Type(v) = "object"
    /\ name \in Keys(v)
    /\ removed = Child(v, name) /\ v2 = Drop(v, <<name>>)

Clear(v, v2) ==
    /\ Type(v) \in {"null", "array", "object"}
    /\ v2 = [q \in {<<>>} |-> [v[<<>>] EXCEPT !.start = 0, !.limit = 0]]

Annotate(v, v2) ==
    \E slot \in CommentPlacement :
       v2 = [v EXCEPT ![<<>>].comments[slot] = v2[<<>>].comments[slot]]

(* One Value becomes the other, or each becomes what the other was: with   *)
(* the comments, or with neither's.                                        *)
Exchange(v, v2, w, w2) ==
    \/ v2 = w                 /\ w2 \in {w, v}
    \/ v2 = WithPayload(v, w) /\ w2 \in {w, WithPayload(w, v)}

(* A step replaces the second Value, or is a call on the one at p.         *)
Step(r, r2, w, w2) ==
    \/ r2 = r /\ (DOMAIN w2 = {<<>>} \/ \E p \in DOMAIN r : w2 = At(r, p))
    \/ \E p \in DOMAIN r \cap DOMAIN r2 :
          /\ Drop(r2, p) = Drop(r, p)
          /\ LET v == At(r, p)  v2 == At(r2, p)
             IN \/ w2 = w /\ \/ Grow(v, size(v2), v2) \/ Clear(v, v2) \/ Annotate(v, v2)
                             \/ \E n \in 0 .. size(v) : Shrink(v, n, v2) \/ Insert(v, n, w, v2)
                             \/ \E name \in Keys(v2) : Name(v, name, v2)
                             \/ \E name \in Keys(v) : Forget(v, name, v2, Child(v, name))
                \/ \E i \in 0 .. size(v) - 1 : TakeOut(v, i, v2, w2)
                \/ \E name \in Keys(v) : Forget(v, name, v2, w2)
                \/ Exchange(v, v2, w, w2)

(* What else is done to the Value at p stays there, and what it hands out, *)
(* if it does, is from the root.                                           *)
Astray(r, r2, w, w2) ==
    \E p \in DOMAIN r \cap DOMAIN r2 :
       /\ Drop(r2, p) = Drop(r, p)
       /\ w2 = w \/ \E q \in DOMAIN r : w2 = At(r, q)

Init == root = Null /\ other = Null
Next == \/ Step(root, root', other, other')
        \/ ~honoured' /\ Astray(root, root', other, other')
Spec == Init /\ [][Next]_<<root, other>>
============================================================================
