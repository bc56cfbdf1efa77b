---------------------------- MODULE JsonChars ----------------------------
(***************************************************************************)
(* The characters the readers and the writers of JSON know by name, by     *)
(* their codes: a text is a sequence of numbers.                           *)
(***************************************************************************)
EXTENDS Integers

NUL       == 0
TAB       == 9
LF        == 10
CR        == 13
SPACE     == 32
QUOTE     == 34
APOSTROPHE == 39
STAR      == 42
PLUS      == 43
COMMA     == 44
MINUS     == 45
DOT       == 46
SLASH     == 47
COLON     == 58
LBRACKET  == 91
BACKSLASH == 92
RBRACKET  == 93
LBRACE    == 123
RBRACE    == 125
Digit == 48 .. 57
White == {SPACE, TAB, CR, LF}
Upper == [e |-> 69, I |-> 73, N |-> 78]
Lower == [a |-> 97, b |-> 98, e |-> 101, f |-> 102, n |-> 110, r |-> 114,
          t |-> 116, u |-> 117]
TrueText  == <<116, 114, 117, 101>>
FalseText == <<102, 97, 108, 115, 101>>
NullText  == <<110, 117, 108, 108>>
NaNText      == <<78, 97, 78>>
InfinityText == <<73, 110, 102, 105, 110, 105, 116, 121>>
HugeText     == <<49, 101, 43, 57, 57, 57, 57>>        \* 1e+9999
AllText      == <<65, 108, 108>>
NoneText     == <<78, 111, 110, 101>>
SignificantText == <<115, 105, 103, 110, 105, 102, 105, 99, 97, 110, 116>>
DecimalText     == <<100, 101, 99, 105, 109, 97, 108>>
============================================================================
