---------------------------- MODULE JsonOrder ----------------------------
(***************************************************************************)
(* How the Values of a program compare.                                    *)
(***************************************************************************)
EXTENDS JsonDocument, JsonValue

CONSTANT Others   \* Values a program may compare those of its document with

NotANumber(v) == \E p \in DOMAIN v : v[p].type = "real" /\ v[p].data = NaN
Ordered(S)    == {v \in S : ~NotANumber(v)}

(* Exactly one of less, equal and greater, and less is transitive.         *)
Total(S, T) ==
    \A v \in S, w \in T :
       /\ Cardinality({c \in {"<", "=", ">"} :
             CASE c = "<" -> Less(v, w) [] c = "=" -> Equal(v, w) [] c = ">" -> Less(w, v)}) = 1
       /\ compare(v, w) = 0 <=> Equal(v, w)
       /\ Less(v, w) => \A x \in T : Less(w, x) => Less(v, x)

(* Of Values that do not depend on the document, TLC evaluates it once.    *)
OthersAreOrdered ==
    /\ Total(Ordered(Others), Ordered(Others))
    /\ \A v, w \in {v \in Others : Type(v) = "real"} :
          NotANumber(v) => ~Less(v, w) /\ ~Less(w, v) /\ ~Equal(v, w)

(* operator<, operator== and compare agree on any two Values without NaN,  *)
(* numbers of any type, strings of any length and what is in arrays and    *)
(* objects included, and order them, as a std::map or std::sort of Values  *)
(* needs it.  A NaN is in no order with a real, not even itself.           *)
OrderIsTotal ==
    /\ OthersAreOrdered
    /\ Total(Ordered(Inside), Ordered(Inside \union Others))
============================================================================
