--------------------------- MODULE JsonDocument ---------------------------
(***************************************************************************)
(* A program that builds a Json::Value, the way MemoryTools.cpp and wz.cpp *)
(* build their answers: it holds a root and, beside it, an other Value,    *)
(* and calls the operations of JsonValue on any Value inside the root.     *)
(* What an operation throws leaves what it had changed by then.            *)
(***************************************************************************)
EXTENDS JsonTree

CONSTANTS Names,       \* names of members
          Indices,     \* indices and sizes a caller passes
          Scalars,       \* Values without children
          Remarks,     \* texts of comments,
          Slots,       \* where they are put,
          MaxRemarks,  \* and a bound on how many there are
          MaxNodes,    \* bounds: the Values in root,
          MaxOther     \* and in other

(* A program's own Values come from no document: they have no offsets.     *)
IsNode(n) ==
    /\ n = [type |-> n.type, data |-> n.data, comments |-> n.comments,
            start |-> n.start, limit |-> n.limit]
    /\ n.comments = [slot \in CommentPlacement |-> n.comments[slot]]
    /\ n.type \in ValueType
    /\ n.type \in {"null", "array", "object"} => n.data = <<>>
    /\ n.start = 0 /\ n.limit = 0

ASSUME DocumentAssumption ==
    /\ Names \subseteq Seq(0 .. 255)
    /\ Indices \subseteq Nat
    /\ Slots \subseteq CommentPlacement
    /\ \A v \in Scalars : v = [p \in {<<>>} |-> v[<<>>]] /\ IsNode(v[<<>>])

VARIABLES root, other,
          honoured   \* history: whether the last call did what value.h says

vars == <<root, other, honoured>>

Init == root = Null /\ other = Null /\ honoured = TRUE

EditIf(p, v, ok) == root' = Put(root, p, v) /\ honoured' = ok
Edit(p, v) == EditIf(p, v, TRUE)

----------------------------------------------------------------------------
Fetch == /\ other' \in Scalars
         /\ honoured' = TRUE /\ UNCHANGED root

ReachElement(p, i) == /\ Allows(At(root, p), "array")
                      /\ Edit(p, Element(At(root, p), i))
                      /\ UNCHANGED other

ReachMember(p, name) == /\ Allows(At(root, p), "object")
                        /\ Edit(p, resolveReference(At(root, p), name))
                        /\ UNCHANGED other

Resize(p, n) == /\ Allows(At(root, p), "array")
                /\ EditIf(p, resize(At(root, p), n), ~resizeThrows(At(root, p), n))
                /\ UNCHANGED other

Append_(p) == /\ Allows(At(root, p), "array")
              /\ Edit(p, append(At(root, p), other))
              /\ UNCHANGED other

Insert(p, i) == /\ Allows(At(root, p), "array")
                /\ Edit(p, insert(At(root, p), i, other))
                /\ UNCHANGED other

(* An array that ends with what is removed loses the gap before it, too.   *)
RemovesOne(v, i) == removeIndexFails(v, i) \/ size(removeIndex(v, i)) = size(v) - 1

RemoveIndexReadLate(p, i) ==           \* what is at i after the move is the one removed
    LET v == At(root, p)
    IN /\ EditIf(p, removeIndex(v, i), RemovesOne(v, i))
       /\ other' = IF removeIndexFails(v, i) THEN other ELSE Indexed(removeIndex(v, i), i)

RemoveIndex(p, i) ==
    LET v == At(root, p)
    IN /\ EditIf(p, removeIndex(v, i), RemovesOne(v, i))
       /\ other' = IF removeIndexFails(v, i) THEN other ELSE Child(v, <<i>>)

TakeMember(p, name) ==
    LET v == At(root, p)
    IN /\ Type(v) = "object" /\ isMember(v, name)
       /\ Edit(p, removeMember(v, name))
       /\ other' = Child(v, name)

(* The overload that hands nothing out goes through the char pointer.      *)
removeCString(v, name) == removeMember(v, CString(name))

RemoveMember(p, name) ==
    LET v == At(root, p)
    IN /\ Allows(v, "object")
       /\ EditIf(p, removeCString(v, name), removeCString(v, name) = removeMember(v, name))
       /\ UNCHANGED other

Clear(p) == /\ Allows(At(root, p), "array") \/ Allows(At(root, p), "object")
            /\ Edit(p, clear(At(root, p)))
            /\ UNCHANGED other

CopyIn(p)  == Edit(p, other) /\ UNCHANGED other
CopyOut(p) == other' = At(root, p) /\ honoured' = TRUE /\ UNCHANGED root
Swap(p)    == Edit(p, other) /\ other' = At(root, p)

CopyPayload(p) == Edit(p, WithPayload(At(root, p), other)) /\ UNCHANGED other
SwapPayload(p) == /\ Edit(p, WithPayload(At(root, p), other))
                  /\ other' = WithPayload(other, At(root, p))

SetComment(p, text, slot) == /\ root' = setComment(root, p, text, slot)
                             /\ honoured' = TRUE /\ UNCHANGED other

Next ==
    \/ Fetch
    \/ \E p \in DOMAIN root :
          \/ \E i \in Indices : \/ ReachElement(p, i) \/ Resize(p, i)
                                \/ Insert(p, i) \/ RemoveIndex(p, i)
          \/ \E name \in Names : \/ ReachMember(p, name) \/ TakeMember(p, name)
                                  \/ RemoveMember(p, name)
          \/ \E text \in Remarks, slot \in Slots : SetComment(p, text, slot)
          \/ Append_(p) \/ Clear(p) \/ CopyIn(p) \/ CopyOut(p) \/ Swap(p)
          \/ CopyPayload(p) \/ SwapPayload(p)

Spec == Init /\ [][Next]_vars

Remarked(v) == {p \in DOMAIN v : \E slot \in CommentPlacement : v[p].comments[slot] # <<>>}

Small == /\ Cardinality(DOMAIN root) <= MaxNodes /\ Cardinality(DOMAIN other) <= MaxOther
         /\ Cardinality(Remarked(root)) + Cardinality(Remarked(other)) <= MaxRemarks

----------------------------------------------------------------------------
(* Gaps in an array read as nulls.                                         *)
Filled(v) ==
    LET ends == UNION {{p \o <<<<i>>>> : i \in 0 .. size(At(v, p)) - 1} :
                          p \in {p \in DOMAIN v : v[p].type = "array"}}
        gaps == ends \ DOMAIN v
    IN [p \in DOMAIN v \union gaps |-> IF p \in gaps THEN NullNode ELSE v[p]]

(* What a program sees of its Values is what value.h promises: arrays are  *)
(* sequences that operator[], resize, insert, append and removeIndex treat *)
(* as sequences, although the map behind them has gaps, and no operation   *)
(* on a Value changes one above, below or beside it.  Calls that are not   *)
(* honoured are the resize that throws, the removeIndex that removes more  *)
(* than one element, and the removeMember that takes another name.         *)
Promise == INSTANCE JsonPromise WITH root <- Filled(root), other <- Filled(other)
ImplementsPromise == Promise!Spec

Inside == {At(root, p) : p \in DOMAIN root} \union {other}

(* And every call keeps the promise made of that call, of any Value it may *)
(* be made on, not only of some call; what it leaves is a tree of Values.  *)
(* Left out are the same calls as above.                                   *)
EachCallKeepsItsPromise ==
    /\ WellFormed(root) /\ WellFormed(other)
    /\ \A v \in Inside :
          LET F == Filled(v)
          IN /\ Allows(v, "array") =>
                  /\ Promise!Insert(F, size(v), Filled(other), Filled(append(v, other)))
                  /\ \A i \in Indices :
                        /\ Promise!Grow(F, i + 1, Filled(Element(v, i)))
                        /\ i > size(v) => Promise!Grow(F, i, Filled(resize(v, i)))
                        /\ i <= size(v) /\ ~resizeThrows(v, i) =>
                             Promise!Shrink(F, i, Filled(resize(v, i)))
                        /\ ~insertFails(v, i) =>
                             Promise!Insert(F, i, Filled(other), Filled(insert(v, i, other)))
                        /\ ~removeIndexFails(v, i) /\ RemovesOne(v, i) =>
                             Promise!TakeOut(F, i, Filled(removeIndex(v, i)), Filled(Child(v, <<i>>)))
             /\ Allows(v, "object") =>
                  \A name \in Names :
                     /\ Promise!Name(F, name, Filled(resolveReference(v, name)))
                     /\ isMember(v, name) =>
                          Promise!Forget(F, name, Filled(removeMember(v, name)), Filled(Child(v, name)))

(* Claimed by value.h of resize: "Resize the array to newSize elements",   *)
(* as JSON_ASSERT(size() == newSize) at its end has it.                    *)
ResizedToNewSize == \A v \in Inside, n \in Indices : Allows(v, "array") => size(resize(v, n)) = n

(* Claimed by value.h of removeIndex: "Remove the indexed array element".  *)
RemovesTheElementOnly == \A v \in Inside, i \in Indices : RemovesOne(v, i)

(* Claimed by value.h of the key of removeMember(const String&): it "may   *)
(* contain embedded nulls".                                                *)
RemovesTheNamedMember ==
    \A v \in Inside, name \in Names : removeCString(v, name) = removeMember(v, name)
============================================================================
