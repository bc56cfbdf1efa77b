---------------------------- MODULE MCJsonText ----------------------------
EXTENDS JsonText

Mark(kind, c) == [kind |-> kind, text |-> <<c>>, name |-> <<>>]
Quoted_(name) == [kind |-> "string", text |-> <<QUOTE>> \o name \o <<QUOTE>>, name |-> name]
Word(kind, txt) == [kind |-> kind, text |-> txt, name |-> <<>>]

MCLexemes ==
    {Mark("{", LBRACE), Mark("}", RBRACE), Mark("[", LBRACKET), Mark("]", RBRACKET),
     Mark(",", COMMA), Mark(":", COLON), Quoted_(<<>>), Quoted_(<<97>>),
     [kind |-> "number", text |-> <<49, SPACE>>, name |-> <<49>>],       \* 1
     Word("comment", <<SLASH, SLASH, 99, LF>>),                          \* //c
     Word("comment", <<SLASH, STAR, 100, STAR, SLASH>>)}                 \* /*d*/

(* At and beyond the limits of the four integer types, reals that are and  *)
(* are not integers, and what overflows.                                   *)
Numbers == {<<48>>, <<52, 55>>, <<52, 56>>, <<57, 53>>, <<57, 54>>,             \* 0 47 48 95 96
            <<52, 57, 57>>, <<53, 48, 48>>, <<57, 57, 57>>, <<49, 48, 48, 48>>, \* 499 500 999 1000
            <<MINUS, 52, 56>>, <<MINUS, 52, 57>>,                               \* -48 -49
            <<MINUS, 53, 48, 48>>, <<MINUS, 53, 48, 49>>,                       \* -500 -501
            <<48, DOT, 53>>, <<52, 55, DOT, 48>>, <<MINUS, 49, DOT, 53>>,       \* 0.5 47.0 -1.5
            <<53, 101, 50>>, <<49, 69, PLUS, 51>>, <<53, 101, MINUS, 49>>,      \* 5e2 1E+3 5e-1
            <<49, 101, 53>>, <<MINUS, 49, 101, 53>>}                            \* 1e5 -1e5
Strings == {<<BACKSLASH, 117, 48, 48, 101, 57>>,                                \* \u00e9
            <<BACKSLASH, 117, 100, 56, 51, 100, BACKSLASH, 117, 68, 69, 48, 48>>, \* \ud83d\uDE00
            <<BACKSLASH, 117, 48, 48, 48, 48>>, <<BACKSLASH, 98, BACKSLASH, QUOTE, SLASH, TAB>>,
            <<195, 169>>, <<226, 130, 172>>, <<240, 159, 152, 128>>, <<127, 1>>}
Broken  == {<<49, 101>>, <<116, 114>>, <<QUOTE, 97>>, <<SLASH, 97>>, \* 1e tr "a /a
            <<QUOTE, BACKSLASH, 120, QUOTE>>,                                   \* "\x"
            <<QUOTE, BACKSLASH, 117, 48, 48, QUOTE>>,                           \* "\u00"
            <<QUOTE, BACKSLASH, 117, 100, 56, 48, 48, QUOTE>>}                  \* "\ud800"

MCWords == {Word("number", n) : n \in Numbers} \union {Quoted_(s) : s \in Strings} \union
           {Word("malformed", b) : b \in Broken} \union {Word("sign", <<MINUS>>)} \union
           {Word("word", w) : w \in {TrueText, FalseText, NullText}} \union
           {Word("special", w) : w \in {NaNText, InfinityText}} \union
           {Word("apostrophes", <<APOSTROPHE, 97, QUOTE, APOSTROPHE>>)}

PlainFeatures == [allowComments |-> TRUE, strictRoot |-> FALSE, allowDroppedNullPlaceholders |-> FALSE,
          allowNumericKeys |-> FALSE, failIfExtra |-> FALSE, stackLimit |-> 3]
MCReaderFeatures ==
    {PlainFeatures,
     [PlainFeatures EXCEPT !.allowComments = FALSE, !.strictRoot = TRUE, !.stackLimit = 2],
     [PlainFeatures EXCEPT !.allowDroppedNullPlaceholders = TRUE, !.allowNumericKeys = TRUE]}

Strict == strictMode(readerDefaults(3), 2)
OnlyStrict == {Strict}
OnlyDefaults == {readerDefaults(3)}

(* Enough for an object with an empty name and a comma at its end.         *)
EmptyName == {x \in MCLexemes : x.kind \in {"{", "}", ",", ":", "number"} \/ x = Quoted_(<<>>)}
MCCharReaderSettings ==
    {readerDefaults(3), Strict,
     [readerDefaults(3) EXCEPT !.allowDroppedNullPlaceholders = OfBool(TRUE),
                               !.rejectDupKeys = OfBool(TRUE),
                               !.allowNumericKeys = OfBool(TRUE),
                               !.allowSpecialFloats = OfBool(TRUE),
                               !.allowSingleQuotes = OfBool(TRUE)]}

MCLayouts ==
    {BuilderDefaults,
     [BuilderDefaults EXCEPT !.indentation = OfString(<<>>), !.commentStyle = OfString(NoneText),
                             !.enableYAMLCompatibility = OfBool(TRUE)],
     [BuilderDefaults EXCEPT !.useSpecialFloats = OfBool(TRUE), !.emitUTF8 = OfBool(TRUE),
                             !.commentStyle = OfString(NoneText),
                             !.precision = OfInt(2), !.precisionType = OfString(DecimalText)]}
============================================================================
