--------------------------- MODULE JsonGrammar ---------------------------
(***************************************************************************)
(* The language that json_features.h and reader.h give the readers, as a   *)
(* machine with a stack that is fed one lexeme after another.  It is JSON, *)
(* and what the features add to it: comments between any two lexemes,      *)
(* commas at the end, values left out, numbers for names, strings between  *)
(* apostrophes, anything after the value.                                  *)
(*                                                                         *)
(* odd says of a text that it has come to one of the five places where the *)
(* readers are known to do otherwise (Odd, below); it tells nothing of     *)
(* whether the text is one of the language.                                *)
(*                                                                         *)
(* A lexeme is a record of its kind and its text; features f are those of  *)
(* OurReader.  The machine is a record: open is the stack of the arrays    *)
(* and objects that are open, an object with the names it has; expect is   *)
(* what the next lexeme may be; depth counts the nested values; behind is  *)
(* whether the last lexeme was a comment.                                  *)
(***************************************************************************)
EXTENDS Integers, Sequences

LOCAL Top(s)    == s[Len(s)]
LOCAL Popped(s) == SubSeq(s, 1, Len(s) - 1)
LOCAL Larger(a, b) == IF a < b THEN b ELSE a

Begin == [expect |-> "value", open |-> <<>>, depth |-> 0, root |-> "none",
          behind |-> FALSE, odd |-> FALSE]
Refused(g) == [g EXCEPT !.expect = "nothing"]

(* After a value, or the bracket that ends one.                            *)
Complete(g) ==
    [g EXCEPT !.expect = CASE g.open = <<>>               -> "end"
                           [] Top(g.open).kind = "array"  -> "array comma"
                           [] Top(g.open).kind = "object" -> "object comma"]

Close(g) == Complete([g EXCEPT !.open = Popped(@)])

(* A value begins: it is one level deeper than what is open.               *)
Deeper(g, kind) == [g EXCEPT !.depth = Larger(@, Len(g.open) + 1),
                             !.root  = IF g.open = <<>> THEN kind ELSE @]

OpenUp(g, kind) ==
    [Deeper(g, kind) EXCEPT !.open   = Append(@, [kind |-> kind, names |-> {}, last |-> <<>>]),
                            !.expect = IF kind = "array" THEN "first element" ELSE "first name"]

(* Of a name: its text without the quotes, or the number.                  *)
Named(g, name) == [g EXCEPT !.expect = "colon",
                            !.open[Len(g.open)].names = @ \union {name},
                            !.open[Len(g.open)].last  = name]

ValueBegins(g, x, f) ==
    CASE x.kind = "[" -> OpenUp(g, "array")
      [] x.kind = "{" -> OpenUp(g, "object")
      [] \/ x.kind \in {"string", "number", "word"}
         \/ x.kind = "special" /\ f.allowSpecialFloats
         \/ x.kind = "apostrophes" /\ f.allowSingleQuotes -> Complete(Deeper(g, x.kind))
      [] OTHER -> Refused(g)

(* An array may end where its first element may stand, and, in OurReader,  *)
(* where one after a comma may.                                            *)
ElementBegins(g, x, f) ==
    IF /\ x.kind = "]"
       /\ \/ g.expect = "first element"
          \/ f.allowTrailingCommas /\ ~f.allowDroppedNullPlaceholders
    THEN Close(g) ELSE ValueBegins(g, x, f)

NameBegins(g, x, f) ==
    CASE x.kind = "}" /\ (g.expect = "first name" \/ f.allowTrailingCommas) -> Close(g)
      [] /\ \/ x.kind = "string"
            \/ x.kind = "number" /\ f.allowNumericKeys
            \/ x.kind = "apostrophes" /\ f.allowSingleQuotes
         /\ f.rejectDupKeys => x.name \notin Top(g.open).names -> Named(g, x.name)
      [] OTHER -> Refused(g)

MemberEnds(g, x) ==
    CASE x.kind = "}" -> Close(g)
      [] x.kind = "," -> [g EXCEPT !.expect = "name"]
      [] OTHER        -> Refused(g)

ElementEnds(g, x) ==
    CASE x.kind = "]" -> Close(g)
      [] x.kind = "," -> [g EXCEPT !.expect = "next element"]
      [] OTHER        -> Refused(g)

Ends(g, f) == IF f.failIfExtra THEN Refused(g) ELSE g

(* A value left out reads as null, where what follows ends a value.        *)
LeftOut(g, x, f) ==
    /\ f.allowDroppedNullPlaceholders
    /\ x.kind \in {",", "}", "]"}
    /\ g.expect \in {"value", "next element"} \/ (g.expect = "first element" /\ x.kind # "]")

Take(g, x, f) ==
    CASE x.kind = "comment" /\ f.allowComments          -> g
      [] x.kind = "comment" /\ g.expect # "end"         -> Refused(g)
      [] g.expect = "value"                             -> ValueBegins(g, x, f)
      [] g.expect \in {"first element", "next element"} -> ElementBegins(g, x, f)
      [] g.expect \in {"first name", "name"}            -> NameBegins(g, x, f)
      [] g.expect = "colon"        -> IF x.kind = ":" THEN [g EXCEPT !.expect = "value"]
                                      ELSE Refused(g)
      [] g.expect = "object comma"                      -> MemberEnds(g, x)
      [] g.expect = "array comma"                       -> ElementEnds(g, x)
      [] g.expect = "end"                               -> Ends(g, f)
      [] g.expect = "nothing"                           -> g

(* A comment that is not allowed is taken before a name and after the      *)
(* values of an object or an array; one that is is refused before a colon, *)
(* and a bracket behind it where a value may stand.  Any lexeme behind a   *)
(* comment goes for the comma of an object.  An object whose last name is  *)
(* empty may end with a comma.  And a minus sign alone is a number, 0.     *)
Odd(g, x, f) ==
    \/ x.kind = "comment" /\ IF f.allowComments THEN g.expect = "colon"
                             ELSE g.expect \in {"first name", "name", "object comma", "array comma"}
    \/ g.behind /\ \/ x.kind = "]" /\ g.expect \in {"first element", "next element"}
                   \/ x.kind \notin {"comment", ",", "}"} /\ g.expect = "object comma"
    \/ x.kind = "}" /\ g.expect = "name" /\ Top(g.open).last = <<>>
    \/ x.kind = "sign"

Feed(g, x, f) ==
    LET taken == IF LeftOut(g, x, f) THEN Take(Complete(Deeper(g, "null")), x, f) ELSE Take(g, x, f)
    IN [taken EXCEPT !.behind = x.kind = "comment", !.odd = @ \/ Odd(g, x, f)]

Machine(lexemes, f) ==
    LET g[n \in 0 .. Len(lexemes)] == IF n = 0 THEN Begin ELSE Feed(g[n - 1], lexemes[n], f)
    IN g[Len(lexemes)]

IsText(g, f) == /\ g.expect = "end"
                /\ g.depth <= f.stackLimit
                /\ f.strictRoot => g.root \in {"array", "object"}
============================================================================
