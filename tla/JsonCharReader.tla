-------------------------- MODULE JsonCharReader --------------------------
(***************************************************************************)
(* Json::OurReader, which CharReaderBuilder::newCharReader makes: "a       *)
(* complete copy of Read impl" (json_reader.cpp) with more features.  What *)
(* the copy left as it was is taken from JsonReader under our...; what     *)
(* differs is defined here.  The reader s has one field more in use:       *)
(* lastHasComment, lastValueHasAComment_.                                  *)
(***************************************************************************)
EXTENDS JsonReader

BOM == <<239, 187, 191>>

ourContainsNewLine(s, from, to)   == containsNewLine(s, from, to)
ourSkipSpaces(s)                  == skipSpaces(s)
ourMatch(s, pattern)              == match(s, pattern)
ourNormalizeEOL(text)             == normalizeEOL(text)
ourReadCppStyleComment(s)         == readCppStyleComment(s)
ourAddComment(s, from, to, slot)  == addComment(s, from, to, slot)
ourReadString(s)                  == readString(s)
ourReadStringSingleQuote(s)       == Quoted(s, APOSTROPHE)
ourDecodeDouble(s, token)         == decodeDouble(s, token)
ourDecodeString(s, token)         == decodeString(s, token)
ourAddError(s, token)             == addError(s, token)

----------------------------------------------------------------------------
(* Tokens. *)

(* After a sign, an I is not a number but the beginning of an infinity.    *)
ourReadNumber(s, checkInf) ==
    IF checkInf /\ Peek(s) = Upper.I THEN [getNextChar(s) EXCEPT !.ok = FALSE]
    ELSE [readNumber(s) EXCEPT !.ok = TRUE]

ourReadCStyleComment(s) ==
    LET s1 == readCStyleComment(s)
    IN [s |-> s1,
        newLine |-> \E i \in s.cur + 1 .. s1.cur - 1 : s.text[i] = LF]

ourReadCommentOverOther(s) == readComment(s)     \* the last one on the line stays

ourCommentEnd(s) ==
    CASE Peek(s) = STAR  -> ourReadCStyleComment(getNextChar(s))
      [] Peek(s) = SLASH -> [s |-> ourReadCppStyleComment(getNextChar(s)), newLine |-> FALSE]
      [] OTHER           -> [s |-> [getNextChar(s) EXCEPT !.ok = FALSE], newLine |-> FALSE]

(* The comment of a value is the first one on its line.                    *)
ourCollected(s, end, newLine) ==
    IF ~(end.ok /\ s.collect) THEN end
    ELSE IF /\ ~s.lastHasComment /\ ~newLine
            /\ s.lastEnd >= 0 /\ ~ourContainsNewLine(s, s.lastEnd, s.cur - 1)
    THEN [ourAddComment(end, s.cur - 1, end.cur, "afterOnSameLine") EXCEPT !.lastHasComment = TRUE]
    ELSE ourAddComment(end, s.cur - 1, end.cur, "before")

CollectedBehind(s, end) == ourCollected(s, end.s, end.newLine)
ourReadComment(s) == CollectedBehind(s, ourCommentEnd(s))

(* The characters OurReader knows and Reader does not; the others are read *)
(* as Reader reads them.                                                   *)
Special(type, start, s, word) ==
    Lexed(type, start, IF s.f.allowSpecialFloats THEN ourMatch(s, word) ELSE [s EXCEPT !.ok = FALSE])

AfterSign(s, infinity, start) ==
    IF s.ok THEN Lexed("number", start, s) ELSE Special(infinity, start, s, Tail(InfinityText))

ourTokenFrom(c, start, s, s1) ==       \* s is before c, s1 behind it
    CASE c = QUOTE      -> Lexed("string", start, ourReadString(s1))
      [] c = APOSTROPHE -> Lexed("string", start, IF s.f.allowSingleQuotes
                                                  THEN ourReadStringSingleQuote(s1)
                                                  ELSE [s1 EXCEPT !.ok = FALSE])
      [] c = SLASH      -> Lexed("comment", start, ourReadComment(s1))
      [] c \in {MINUS, PLUS} ->
           AfterSign(ourReadNumber(s1, TRUE), IF c = MINUS THEN "negInf" ELSE "posInf", start)
      [] c = Upper.N    -> Special("NaN", start, s1, Tail(NaNText))
      [] c = Upper.I    -> Special("posInf", start, s1, Tail(InfinityText))
      [] OTHER          -> readToken(s)

ourTokenAt(s) == ourTokenFrom(Peek(s), s.cur, s, getNextChar(s))

ourReadToken(s) == ourTokenAt(ourSkipSpaces(s))

RECURSIVE ourNextToken(_)
ourPastComments(s) == IF s.tok.type = "comment" THEN ourNextToken(s) ELSE s
ourNextToken(s)    == ourPastComments(ourReadToken(s))

ourSkipCommentTokens(s) == IF s.f.allowComments THEN ourNextToken(s) ELSE ourReadToken(s)

RECURSIVE ourRecoverFromError(_, _)
ourRecovered(s, until) == IF s.tok.type \in {until, "endOfStream"} THEN [s EXCEPT !.ok = FALSE]
                          ELSE ourRecoverFromError(s, until)
ourRecoverFromError(s, until) == ourRecovered([ourReadToken(s) EXCEPT !.errors = s.errors], until)

ourAddErrorAndRecover(s, until) == ourRecoverFromError(ourAddError(s, s.tok), until)

(* Positive integers that fit the signed type are of the signed type.      *)
SignedIf(d) == IF d.ok /\ Type(d.value) = "uint" /\ Data(d.value)[1] <= MaxLargestInt
               THEN [ok |-> TRUE, value |-> OfInt(Data(d.value)[1])] ELSE d
ourDecodeNumber(s, token) == SignedIf(decodeNumber(s, token))

----------------------------------------------------------------------------
(* The descent. *)

RECURSIVE ourReadValue(_), ourReadMembers(_, _), ourReadElements(_, _)

ourReadObject(s, token) == ourReadMembers(Opened(s, "object", token), <<>>)

ourReadArray(s, token) == ourReadElements(Opened(s, "array", token), 0)

ourSimple(s) ==
    LET t == s.tok.type
    IN CASE t = "number" -> Decoded(s, ourDecodeNumber(s, s.tok))
         [] t = "NaN"    -> SetToken(s, OfReal(NaN), s.tok)
         [] t = "posInf" -> SetToken(s, OfReal(Infinite(1)), s.tok)
         [] t = "negInf" -> SetToken(s, OfReal(Infinite(-1)), s.tok)
         [] OTHER        -> Simple(s)

ourIsSimple(t) == IsSimple(t) \/ t \in {"NaN", "posInf", "negInf"}

ourReadBy(s) ==
    CASE s.tok.type = "objectBegin" -> Closed(ourReadObject(s, s.tok))
      [] s.tok.type = "arrayBegin"  -> Closed(ourReadArray(s, s.tok))
      [] ourIsSimple(s.tok.type)    -> ourSimple(s)
      [] OTHER                      -> Dropped(s)

ourFinished(s) == IF s.threw THEN s ELSE [Remembered(s) EXCEPT !.lastHasComment = @ /\ ~s.collect]

ourValueAt(s) ==
    IF \/ s.tok.type \in {"objectBegin", "arrayBegin"} \/ ourIsSimple(s.tok.type)
       \/ EndsValue(s.tok.type) /\ s.f.allowDroppedNullPlaceholders
    THEN ourFinished(ourReadBy(s)) ELSE NoValue(s)

ourReadValue(s) == IF TooDeep(s) THEN GivesUp(s) ELSE ourValueAt(TakeComments(ourSkipCommentTokens(s)))

ourMemberName(s) ==
    CASE s.tok.type = "string" -> ourDecodeString(s, s.tok)
      [] s.tok.type = "number" /\ s.f.allowNumericKeys ->
           LET n == ourDecodeNumber(s, s.tok)
           IN IF n.ok THEN [ok |-> TRUE, value |-> asString(n.value)] ELSE Bad
      [] OTHER -> Bad

ourNextMember(s, name) == IF s.tok.type = "objectEnd" THEN s ELSE ourReadMembers(s, name)

ourMemberEnd(s, name) ==
    IF s.tok.type \in {"objectEnd", "arraySeparator", "comment"}
    THEN ourNextMember(ourPastComments(s), name) ELSE ourAddErrorAndRecover(s, "objectEnd")

ourMemberRead(s, name) == CASE s.threw -> Up(s)
                            [] ~s.ok   -> ourRecoverFromError(Up(s), "objectEnd")
                            [] OTHER   -> ourMemberEnd(ourReadToken(Up(s)), name)

ourAfterName(s, name) ==
    IF s.tok.type # "memberSeparator" THEN ourAddErrorAndRecover(s, "objectEnd")
    ELSE ourMemberRead(ourReadValue(InMember(s, name)), name)

ourReadMember(s, name, last) ==
    CASE s.ok /\ s.tok.type = "objectEnd" /\ (last = <<>> \/ s.f.allowTrailingCommas) -> s
      [] \/ ~s.ok \/ ~name.ok
         \/ s.f.rejectDupKeys /\ isMember(At(s.doc, s.node), name.value) ->
           ourAddErrorAndRecover(s, "objectEnd")
      [] OTHER -> ourAfterName(ourReadToken(s), name.value)

ourMembersFrom(s, last) == ourReadMember(s, ourMemberName(s), last)
ourReadMembers(s, last) == ourMembersFrom(ourNextToken(s), last)

ourElementEnd(s, index) == CASE s.tok.type = "arrayEnd"       -> s
                             [] s.tok.type = "arraySeparator" -> ourReadElements(s, index + 1)
                             [] OTHER -> ourAddErrorAndRecover(s, "arrayEnd")

ourElementRead(s, index) == CASE s.threw -> Up(s)
                              [] ~s.ok   -> ourRecoverFromError(Up(s), "arrayEnd")
                              [] OTHER   -> ourElementEnd(ourNextToken(Up(s)), index)

(* An array may end before its first element, and after a comma.           *)
ourElementsFrom(s, index) ==
    IF /\ Peek(s) = RBRACKET
       /\ index = 0 \/ (s.f.allowTrailingCommas /\ ~s.f.allowDroppedNullPlaceholders)
    THEN ourReadToken(s) ELSE ourElementRead(ourReadValue(InElement(s, index)), index)

ourReadElements(s, index) == ourElementsFrom(ourSkipSpaces(s), index)

----------------------------------------------------------------------------
(* parse. *)

(* begin_ moves past the mark, and offsets count from there.               *)
ourSkipBom(text, f) == IF f.skipBom /\ Len(text) >= 3 /\ SubSeq(text, 1, 3) = BOM
                       THEN SubSeq(text, 4, Len(text)) ELSE text

ourCheckRoot(s, length, successful) ==
    IF s.f.strictRoot /\ ~IsArray(s.doc) /\ ~IsObject(s.doc)
    THEN ourAddError(s, Token("error", End(s) - length, End(s))) ELSE [s EXCEPT !.ok = successful]

AllRead(s, length, successful) ==
    IF s.f.failIfExtra /\ s.tok.type # "endOfStream" THEN ourAddError(s, s.tok)
    ELSE ourCheckRoot(LeftComments(s), length, successful)

ourRootRead(s, length) == IF s.threw THEN s ELSE AllRead(ourSkipCommentTokens(s), length, s.ok)

ourParse(text, f, collect) ==
    ourRootRead(ourReadValue(Start(ourSkipBom(text, f), f, collect)), Len(text))

----------------------------------------------------------------------------
(* CharReaderBuilder: settings that were not made read as null, which is   *)
(* false, and 0 for the stack limit.                                       *)

Switches == {"collectComments", "allowComments", "allowTrailingCommas", "strictRoot",
             "allowDroppedNullPlaceholders", "allowNumericKeys", "allowSingleQuotes",
             "failIfExtra", "rejectDupKeys", "allowSpecialFloats", "skipBom"}

readerDefaults(stackLimit) ==
    [name \in Switches \union {"stackLimit"} |->
        IF name = "stackLimit" THEN OfInt(stackLimit)
        ELSE OfBool(name \in {"collectComments", "allowComments", "allowTrailingCommas", "skipBom"})]

strictMode(settings, stackLimit) ==
    [name \in DOMAIN settings \union (Switches \ {"collectComments"}) \union {"stackLimit"} |->
        CASE name = "stackLimit" -> OfInt(stackLimit)
          [] name \in Switches \ {"collectComments"} ->
               OfBool(name \in {"strictRoot", "failIfExtra", "rejectDupKeys", "skipBom"})
          [] OTHER -> settings[name]]

validateReader(settings) == DOMAIN settings \subseteq Switches \union {"stackLimit"}

newCharReaderThrows(settings) ==
    \/ \E name \in Switches : asBool(Setting(settings, name)).throws
    \/ asUInt(Setting(settings, "stackLimit")).throws

newCharReader(settings) ==
    [name \in Switches \union {"stackLimit"} |->
        IF name = "stackLimit" THEN asUInt(Setting(settings, name)).value
        ELSE asBool(Setting(settings, name)).value]

(* OurCharReader::parse: its features are those of the settings.           *)
charReaderParse(text, settings) ==
    LET f == newCharReader(settings) IN ourParse(text, f, f.collectComments)
============================================================================
