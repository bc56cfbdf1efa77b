---------------------------- MODULE JsonReader ----------------------------
(***************************************************************************)
(* Json::Reader: a recursive descent over the characters of a text.  The   *)
(* members of the class are the fields of a record s, and every operator   *)
(* named for a method maps the reader to the reader after the call; what   *)
(* the call returned is s.ok, the token it filled s.tok.                   *)
(*                                                                         *)
(*   text, f     the document and the features; never change               *)
(*   cur         current_: the number of characters consumed               *)
(*   doc, node   the root Value and the path of currentValue(): nodes_ is  *)
(*               the stack of the prefixes of node                         *)
(*   lastEnd     lastValueEnd_, -1 while it is null                        *)
(*   lastNode    lastValue_, a path                                        *)
(*   before      commentsBefore_                                           *)
(*   errors      errors_: the offsets each error is reported with          *)
(*   threw       the stack limit was exceeded: the exception is on its way *)
(*   stale       lastValue_ was used when its Value was no longer there    *)
(***************************************************************************)
EXTENDS JsonWriter

LOCAL Least(S)   == CHOOSE x \in S : \A y \in S : x <= y
LOCAL Lesser(a, b) == IF a < b THEN a ELSE b

End(s)       == Len(s.text)
Peek(s)      == IF s.cur < End(s) THEN s.text[s.cur + 1] ELSE NUL
Slice(s, from, to) == SubSeq(s.text, from + 1, to)

getNextChar(s) == [s EXCEPT !.cur = Lesser(@ + 1, End(s))]

(* The first offset from i on whose character is not in S.                 *)
Past(s, i, S) == Least({j \in i .. End(s) : j = End(s) \/ s.text[j + 1] \notin S} \union
                       (IF i > End(s) THEN {i} ELSE {}))

containsNewLine(s, from, to) ==
    \E i \in from + 1 .. to : s.text[i] \in {LF, CR}

----------------------------------------------------------------------------
(* Tokens. *)

Token(type, start, end) == [type |-> type, start |-> start, end |-> end]

skipSpaces(s) == [s EXCEPT !.cur = Past(s, s.cur, White)]

match(s, pattern) ==
    IF Slice(s, s.cur, Lesser(s.cur + Len(pattern), End(s))) = pattern
    THEN [s EXCEPT !.cur = @ + Len(pattern), !.ok = TRUE]
    ELSE [s EXCEPT !.ok = FALSE]

readNumber(s) ==
    LET char(i)  == IF i < End(s) THEN s.text[i + 1] ELSE NUL
        whole    == Past(s, s.cur, Digit)
        fraction == IF char(whole) = DOT THEN Past(s, whole + 1, Digit) ELSE whole
        sign     == IF char(fraction + 1) \in {PLUS, MINUS} THEN 1 ELSE 0
    IN [s EXCEPT !.cur = IF char(fraction) \in {Lower.e, Upper.e}
                         THEN Past(s, fraction + 1 + sign, Digit) ELSE fraction]

(* Up to the next quote that no backslash precedes.                        *)
RECURSIVE Quoted(_, _)
Quoted(s, quote) ==
    IF s.cur = End(s) THEN [s EXCEPT !.ok = FALSE]
    ELSE CASE Peek(s) = BACKSLASH -> Quoted(getNextChar(getNextChar(s)), quote)
           [] Peek(s) = quote     -> [getNextChar(s) EXCEPT !.ok = TRUE]
           [] OTHER               -> Quoted(getNextChar(s), quote)

readString(s) == Quoted(s, QUOTE)

(* The loop ends at "*/", or one character before the end of the text.     *)
readCStyleComment(s) ==
    LET stops == {i \in s.cur .. End(s) - 2 :
                     s.text[i + 1] = STAR /\ s.text[i + 2] = SLASH}
        at    == IF stops # {} THEN Least(stops) + 1
                 ELSE IF s.cur + 1 < End(s) THEN End(s) - 1 ELSE s.cur
        last  == [s EXCEPT !.cur = at]
    IN [getNextChar(last) EXCEPT !.ok = Peek(last) = SLASH]

readCppStyleComment(s) ==
    LET eol  == Past(s, s.cur, (0 .. 255) \ {LF, CR})
        crlf == /\ eol + 1 < End(s)
                /\ s.text[eol + 1] = CR /\ s.text[eol + 2] = LF
    IN [s EXCEPT !.cur = Lesser(eol + (IF crlf THEN 2 ELSE 1), End(s)), !.ok = TRUE]

normalizeEOL(text) ==
    LET kept == {i \in DOMAIN text : ~(text[i] = LF /\ i > 1 /\ text[i - 1] = CR)}
        nth(n) == CHOOSE i \in kept : Cardinality({j \in kept : j <= i}) = n
    IN [n \in 1 .. Cardinality(kept) |-> IF text[nth(n)] = CR THEN LF ELSE text[nth(n)]]

addComment(s, from, to, placement) ==
    LET comment == normalizeEOL(Slice(s, from, to))
    IN IF placement = "before" THEN [s EXCEPT !.before = @ \o comment]
       ELSE IF s.lastNode \notin DOMAIN s.doc THEN [s EXCEPT !.stale = TRUE]
       ELSE [s EXCEPT !.doc = setComment(@, s.lastNode, comment, placement)]

(* The rest of a comment whose slash was read.                             *)
CommentEnd(s) == CASE Peek(s) = STAR  -> readCStyleComment(getNextChar(s))
                   [] Peek(s) = SLASH -> readCppStyleComment(getNextChar(s))
                   [] OTHER           -> [getNextChar(s) EXCEPT !.ok = FALSE]

(* A comment on the line a value ended on is the comment of that value.    *)
OnSameLine(s, from, to) == /\ s.lastEnd >= 0 /\ ~containsNewLine(s, s.lastEnd, from)
                           /\ Peek(s) # STAR \/ ~containsNewLine(s, from, to)

Collected(s, end) ==                   \* s is before the comment, end behind it
    IF end.ok /\ s.collect
    THEN addComment(end, s.cur - 1, end.cur,
                    IF OnSameLine(s, s.cur - 1, end.cur) THEN "afterOnSameLine" ELSE "before")
    ELSE end

readComment(s) == Collected(s, CommentEnd(s))

(* The token's type is settled by its first character.                     *)
Lexed(type, start, s) == [s EXCEPT !.tok = Token(IF s.ok THEN type ELSE "error", start, s.cur)]

TokenFrom(c, start, s) ==              \* c has been read
    CASE c = LBRACE   -> Lexed("objectBegin", start, s)
      [] c = RBRACE   -> Lexed("objectEnd", start, s)
      [] c = LBRACKET -> Lexed("arrayBegin", start, s)
      [] c = RBRACKET -> Lexed("arrayEnd", start, s)
      [] c = QUOTE    -> Lexed("string", start, readString(s))
      [] c = SLASH    -> Lexed("comment", start, readComment(s))
      [] c \in Digit \union {MINUS} -> Lexed("number", start, readNumber(s))
      [] c = Lower.t  -> Lexed("true", start, match(s, Tail(TrueText)))
      [] c = Lower.f  -> Lexed("false", start, match(s, Tail(FalseText)))
      [] c = Lower.n  -> Lexed("null", start, match(s, Tail(NullText)))
      [] c = COMMA    -> Lexed("arraySeparator", start, s)
      [] c = COLON    -> Lexed("memberSeparator", start, s)
      [] c = NUL      -> Lexed("endOfStream", start, s)
      [] OTHER        -> Lexed("error", start, [s EXCEPT !.ok = FALSE])

TokenAt(s) == TokenFrom(Peek(s), s.cur, [getNextChar(s) EXCEPT !.ok = TRUE])

readToken(s) == TokenAt(skipSpaces(s))

(* readToken until the token is no comment; "while (comment && ok)" is the *)
(* same, since a token that is not ok has type error.                      *)
RECURSIVE NextToken(_)
PastComments(s) == IF s.tok.type = "comment" THEN NextToken(s) ELSE s
NextToken(s)    == PastComments(readToken(s))

skipCommentTokens(s) == IF s.f.allowComments THEN NextToken(s) ELSE readToken(s)

----------------------------------------------------------------------------
(* Errors. *)

addError(s, token) == [s EXCEPT !.errors = Append(@, <<token.start, token.end>>),
                                !.ok = FALSE]

RECURSIVE recoverFromError(_, _)
Recovered(s, until) == IF s.tok.type \in {until, "endOfStream"} THEN [s EXCEPT !.ok = FALSE]
                       ELSE recoverFromError(s, until)
recoverFromError(s, until) == Recovered([readToken(s) EXCEPT !.errors = s.errors], until)

addErrorAndRecover(s, until) == recoverFromError(addError(s, s.tok), until)

----------------------------------------------------------------------------
(* Literals. *)

(* currentValue().swapPayload(v), and the offsets of the token.            *)
SetValue(s, v, start, limit) ==
    LET here == WithPayload(At(s.doc, s.node), v)
        w    == [here EXCEPT ![<<>>].start = start, ![<<>>].limit = limit]
    IN [s EXCEPT !.doc = Put(@, s.node, w)]

SetToken(s, v, token) == [SetValue(s, v, token.start, token.end) EXCEPT !.ok = TRUE]

RECURSIVE Decimal(_, _)                \* the digits from the one at i on
Decimal(digits, n) == IF digits = <<>> THEN n
                      ELSE Decimal(Tail(digits), 10 * n + Head(digits) - 48)

(* External: std::istream's >> to double.  It takes a sign, digits with a  *)
(* point, and an exponent that has digits if it is there at all.           *)
Signed(text)   == text # <<>> /\ text[1] \in {PLUS, MINUS}
SignOf(text)   == IF text # <<>> /\ text[1] = MINUS THEN -1 ELSE 1
Unsigned(text) == IF Signed(text) THEN Tail(text) ELSE text
DigitsEnd(text, from) == Past([text |-> text, cur |-> 0], from, Digit)

(* The digits of text up to last, but for a point after the whole ones.    *)
Parts(text, whole, last) ==
    [digits |-> SubSeq(text, 1, whole) \o SubSeq(text, whole + 2, last),
     places |-> IF last > whole THEN last - whole - 1 ELSE 0,
     more   |-> last < Len(text),
     power  |-> SubSeq(text, last + 2, Len(text))]

PartsFrom(text, whole) ==
    Parts(text, whole, IF whole < Len(text) /\ text[whole + 1] = DOT
                       THEN DigitsEnd(text, whole + 1) ELSE whole)

OfParts(p, sign) ==
    [ok    |-> p.digits # <<>> /\ (p.more => Unsigned(p.power) # <<>>),
     value |-> Double(sign * Decimal(p.digits, 0),
                      SignOf(p.power) * Decimal(Unsigned(p.power), 0) - p.places)]

DoubleOf(text) == OfParts(PartsFrom(Unsigned(text), DigitsEnd(Unsigned(text), 0)), SignOf(text))

RealIf(d) == IF d.ok THEN [ok |-> TRUE, value |-> OfReal(d.value)] ELSE [ok |-> FALSE, value |-> Null]

decodeDouble(s, token) == RealIf(DoubleOf(Slice(s, token.start, token.end)))

(* An integer that fits, digit by digit, in the largest integer type of    *)
(* its sign; anything else is a double.  The result is the magnitude, or   *)
(* -1 for a double.                                                        *)
RECURSIVE Magnitude(_, _, _)
Magnitude(digits, n, max) ==
    IF digits = <<>> THEN n
    ELSE LET d == Head(digits) - 48
         IN IF \/ Head(digits) \notin Digit
               \/ n > max \div 10
               \/ n = max \div 10 /\ (Len(digits) > 1 \/ d > max % 10)
            THEN -1 ELSE Magnitude(Tail(digits), 10 * n + d, max)

decodeNumber(s, token) ==
    LET text     == Slice(s, token.start, token.end)
        negative == text[1] = MINUS
        n        == IF negative THEN Magnitude(Tail(text), 0, MaxLargestInt + 1)
                    ELSE Magnitude(text, 0, MaxLargestUInt)
    IN IF n = -1 THEN decodeDouble(s, token)
       ELSE [ok |-> TRUE, value |-> IF negative THEN OfInt(-n)
                                    ELSE IF n <= MaxInt THEN OfInt(n) ELSE OfUInt(n)]

HexDigit(c) == CASE c \in Digit     -> c - 48
                 [] c \in 97 .. 102 -> c - 87
                 [] c \in 65 .. 70  -> c - 55
                 [] OTHER           -> -1

(* The code unit of four hex digits, -1 if they are not there.             *)
decodeUnicodeEscapeSequence(hex) ==
    IF Len(hex) < 4 \/ \E i \in 1 .. 4 : HexDigit(hex[i]) = -1 THEN -1
    ELSE HexDigit(hex[1]) * 4096 + HexDigit(hex[2]) * 256 + HexDigit(hex[3]) * 16 + HexDigit(hex[4])

(* A code point and how many characters after "\u" it took; the second     *)
(* half of a surrogate pair may be any code unit.                          *)
decodeUnicodeCodePoint(rest) ==
    LET first  == decodeUnicodeEscapeSequence(rest)
        more   == SubSeq(rest, 5, Len(rest))
        second == IF Len(more) >= 6 /\ more[1] = BACKSLASH /\ more[2] = Lower.u
                  THEN decodeUnicodeEscapeSequence(SubSeq(more, 3, Len(more))) ELSE -1
    IN CASE first \notin 55296 .. 56319 -> [point |-> first, took |-> 4]
         [] second = -1                 -> [point |-> -1, took |-> 0]
         [] OTHER -> [point |-> 65536 + (first % 1024) * 1024 + (second % 1024), took |-> 10]

codePointToUTF8(p) ==
    LET tail(n) == 128 + ((p \div 64^n) % 64)
    IN CASE p <= 127   -> <<p>>
         [] p <= 2047  -> <<192 + p \div 64, tail(0)>>
         [] p <= 65535 -> <<224 + p \div 4096, tail(1), tail(0)>>
         [] OTHER      -> <<240 + p \div 262144, tail(2), tail(1), tail(0)>>

Escaped == [c \in {QUOTE, SLASH, BACKSLASH, Lower.b, Lower.f, Lower.n, Lower.r, Lower.t} |->
               CASE c = Lower.b -> 8  [] c = Lower.f -> 12 [] c = Lower.n -> LF
                 [] c = Lower.r -> CR [] c = Lower.t -> TAB [] OTHER -> c]

Bad == [ok |-> FALSE, value |-> <<>>]

RECURSIVE Unescaped(_, _)              \* the characters between the quotes
Unescaped(rest, done) ==
    IF rest = <<>> \/ Head(rest) = QUOTE THEN [ok |-> TRUE, value |-> done]
    ELSE IF Head(rest) # BACKSLASH THEN Unescaped(Tail(rest), Append(done, Head(rest)))
    ELSE IF Len(rest) = 1 THEN Bad
    ELSE IF rest[2] \in DOMAIN Escaped
         THEN Unescaped(SubSeq(rest, 3, Len(rest)), Append(done, Escaped[rest[2]]))
    ELSE LET u == decodeUnicodeCodePoint(SubSeq(rest, 3, Len(rest)))
         IN IF rest[2] # Lower.u \/ u.point = -1 THEN Bad
            ELSE Unescaped(SubSeq(rest, 3 + u.took, Len(rest)), done \o codePointToUTF8(u.point))

decodeString(s, token) == Unescaped(Slice(s, token.start + 1, token.end - 1), <<>>)
----------------------------------------------------------------------------
(* The descent. *)

Down(s, key) == [s EXCEPT !.node = Append(@, key)]
Up(s)        == [s EXCEPT !.node = SubSeq(@, 1, Len(@) - 1)]

(* The comments read so far become the comment before the current value.   *)
TakeComments(s) ==
    IF s.collect /\ s.before # <<>>
    THEN [s EXCEPT !.doc = setComment(@, s.node, s.before, "before"), !.before = <<>>]
    ELSE s

(* readObject and readArray begin with an empty container, keep the offset *)
(* it starts at, and leave its end to readValue.                           *)
Opened(s, t, token) == SetValue(s, Empty(t), token.start, s.doc[s.node].limit)
ClosedNowhere(s) == s                   \* the limit is not set
Closed(s)  == [s EXCEPT !.doc[s.node].limit = s.cur]

Decoded(s, d) == IF d.ok THEN SetToken(s, d.value, s.tok) ELSE addError(s, s.tok)

(* The values that are one token, and what is no value.                    *)
Simple(s) ==
    LET t == s.tok.type
        d == decodeString(s, s.tok)
    IN CASE t = "number" -> Decoded(s, decodeNumber(s, s.tok))
         [] t = "string" -> IF d.ok THEN SetToken(s, OfString(d.value), s.tok)
                            ELSE addError(s, s.tok)
         [] t = "true"   -> SetToken(s, OfBool(TRUE), s.tok)
         [] t = "false"  -> SetToken(s, OfBool(FALSE), s.tok)
         [] t = "null"   -> SetToken(s, Null, s.tok)

(* "Un-read" the token after a missing value, and take a null for it.      *)
Dropped(s) == [SetValue(s, Null, s.cur - 2, s.cur - 1) EXCEPT !.cur = @ - 1, !.ok = TRUE]

NoValue(s) == addError([s EXCEPT !.doc[s.node].start = s.tok.start,
                                 !.doc[s.node].limit = s.tok.end], s.tok)

IsSimple(t)    == t \in {"number", "string", "true", "false", "null"}
EndsElement(t) == t \in {"arraySeparator", "arrayEnd"}    \* a brace is forgotten
EndsValue(t)   == t \in {"arraySeparator", "objectEnd", "arrayEnd"}
Remembered(s) == IF s.collect THEN [s EXCEPT !.lastEnd = s.cur, !.lastNode = s.node] ELSE s

RECURSIVE readValue(_), readMembers(_, _), readElements(_, _)

readObject(s, token) == readMembers(Opened(s, "object", token), <<>>)

ElementsFrom(s) == IF Peek(s) = RBRACKET THEN readToken(s) ELSE readElements(s, 0)

readArray(s, token) == ElementsFrom(skipSpaces(Opened(s, "array", token)))

ReadBy(s) ==                           \* by the token that has been read
    CASE s.tok.type = "objectBegin" -> Closed(readObject(s, s.tok))
      [] s.tok.type = "arrayBegin"  -> Closed(readArray(s, s.tok))
      [] IsSimple(s.tok.type)       -> Simple(s)
      [] OTHER                      -> Dropped(s)

Finished(s) == IF s.threw THEN s ELSE Remembered(s)

ValueAt(s) ==
    IF \/ s.tok.type \in {"objectBegin", "arrayBegin"} \/ IsSimple(s.tok.type)
       \/ EndsValue(s.tok.type) /\ s.f.allowDroppedNullPlaceholders
    THEN Finished(ReadBy(s)) ELSE NoValue(s)

TooDeep(s) == Len(s.node) + 1 > s.f.stackLimit
GivesUp(s) == [s EXCEPT !.threw = TRUE, !.ok = FALSE]

readValue(s) == IF TooDeep(s) THEN GivesUp(s) ELSE ValueAt(TakeComments(skipCommentTokens(s)))

(* The name of a member; an empty name after a comma still ends the object.*)
MemberName(s) ==
    CASE s.tok.type = "string" -> decodeString(s, s.tok)
      [] s.tok.type = "number" /\ s.f.allowNumericKeys ->
           LET n == decodeNumber(s, s.tok)
           IN IF n.ok THEN [ok |-> TRUE, value |-> asString(n.value)] ELSE Bad
      [] OTHER -> Bad

(* The token after a value: a comment lets any token stand for the comma.  *)
NextMember(s, name) == IF s.tok.type = "objectEnd" THEN s ELSE readMembers(s, name)

MemberEnd(s, name) ==
    IF s.tok.type \in {"objectEnd", "arraySeparator", "comment"}
    THEN NextMember(PastComments(s), name) ELSE addErrorAndRecover(s, "objectEnd")

MemberRead(s, name) == CASE s.threw -> Up(s)
                         [] ~s.ok   -> recoverFromError(Up(s), "objectEnd")
                         [] OTHER   -> MemberEnd(readToken(Up(s)), name)

InMember(s, name) == Down([s EXCEPT !.doc = Put(@, s.node, resolveReference(At(@, s.node), name))], name)

AfterName(s, name) ==
    IF s.tok.type # "memberSeparator" THEN addErrorAndRecover(s, "objectEnd")
    ELSE MemberRead(readValue(InMember(s, name)), name)

readMember(s, name, last) ==
    CASE s.ok /\ s.tok.type = "objectEnd" /\ last = <<>> -> s
      [] ~s.ok \/ ~name.ok -> addErrorAndRecover(s, "objectEnd")
      [] OTHER -> AfterName(readToken(s), name.value)

MembersFrom(s, last) == readMember(s, MemberName(s), last)
readMembers(s, last) == MembersFrom(NextToken(s), last)

ElementEnd(s, index) == CASE s.tok.type = "arrayEnd"       -> s
                          [] s.tok.type = "arraySeparator" -> readElements(s, index + 1)
                          [] OTHER -> addErrorAndRecover(s, "arrayEnd")

ElementRead(s, index) == CASE s.threw -> Up(s)
                           [] ~s.ok   -> recoverFromError(Up(s), "arrayEnd")
                           [] OTHER   -> ElementEnd(NextToken(Up(s)), index)

InElement(s, index) == Down([s EXCEPT !.doc = Put(@, s.node, Element(At(@, s.node), index))], <<index>>)

readElements(s, index) == ElementRead(readValue(InElement(s, index)), index)

----------------------------------------------------------------------------
(* parse. *)

Start(text, f, collect) ==
    [text |-> text, f |-> f, collect |-> collect /\ f.allowComments, cur |-> 0,
     doc |-> Null, node |-> <<>>, lastEnd |-> -1, lastNode |-> <<>>,
     lastHasComment |-> FALSE, before |-> <<>>, errors |-> <<>>, ok |-> TRUE,
     tok |-> Token("endOfStream", 0, 0), threw |-> FALSE, stale |-> FALSE]

LeftComments(s) == IF s.collect /\ s.before # <<>>
                   THEN [s EXCEPT !.doc = setComment(@, <<>>, s.before, "after")] ELSE s

(* The root that must be an array or an object is looked at last.          *)
CheckRoot(s, successful) ==
    IF s.f.strictRoot /\ ~IsArray(s.doc) /\ ~IsObject(s.doc)
    THEN addError(s, Token("error", 0, End(s))) ELSE [s EXCEPT !.ok = successful]

RootRead(s) == IF s.threw THEN s ELSE CheckRoot(LeftComments(skipCommentTokens(s)), s.ok)

parse(text, f, collect) == RootRead(readValue(Start(text, f, collect)))
============================================================================
