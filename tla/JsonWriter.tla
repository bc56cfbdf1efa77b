---------------------------- MODULE JsonWriter ----------------------------
(***************************************************************************)
(* The writers of json_writer.cpp: FastWriter, and the three that lay the  *)
(* text out in lines, StyledWriter, StyledStreamWriter and the             *)
(* BuiltStyledStreamWriter a StreamWriterBuilder makes.  These three have  *)
(* the same methods, line for line, but for how they indent, how they      *)
(* write comments and what their options are, and so they are one          *)
(* recursion here over a writer w:                                         *)
(*                                                                         *)
(*   o         the class and its options; never changes                    *)
(*   out       document_, *document_ or *sout_: the text so far            *)
(*   indent    indentString_                                               *)
(*   indented  indented_ (StyledWriter looks at the text instead)          *)
(*                                                                         *)
(* childValues_ is never seen between two calls: it is what writeValue     *)
(* writes for children that are all on one line.                           *)
(***************************************************************************)
EXTENDS JsonValue

CONSTANTS RightMargin,       \* rightMargin_: 74 in the code
          IndentSize         \* indentSize_: 3 in the code

LOCAL Last(s)    == s[Len(s)]
LOCAL Abs(n)     == IF n < 0 THEN -n ELSE n
LOCAL Zeros(n)   == [i \in 1 .. n |-> 48]

RECURSIVE uintToString(_)
uintToString(n) == IF n < 10 THEN <<48 + n>>
                   ELSE Append(uintToString(n \div 10), 48 + (n % 10))

valueToString(n) == IF n < 0 THEN <<MINUS>> \o uintToString(-n) ELSE uintToString(n)

(* printf's %.*g and %.*f of a finite double: its digits, as many as the  *)
(* precision has significant ones or places, the nearest or the even one.  *)
Rounded(d, precision, decimal) ==
    LET excess == IF decimal THEN -d[2] - precision
                  ELSE Len(uintToString(Abs(d[1]))) - precision
        unit   == 10^excess
        nearest(n) == n \div unit +
                      (IF 2 * (n % unit) > unit \/ (2 * (n % unit) = unit /\ (n \div unit) % 2 = 1)
                       THEN 1 ELSE 0)
    IN IF excess <= 0 THEN d
       ELSE Double(IF d[1] < 0 THEN -nearest(-d[1]) ELSE nearest(d[1]), d[2] + excess)

Plain(digits, e) ==                    \* digits * 10^e, without an exponent
    LET n == Len(digits) + e
    IN CASE e >= 0 -> digits \o Zeros(e)
         [] n > 0  -> SubSeq(digits, 1, n) \o <<DOT>> \o SubSeq(digits, n + 1, Len(digits))
         [] OTHER  -> <<48, DOT>> \o Zeros(-n) \o digits

Scientific(digits, power) ==
    LET places == uintToString(Abs(power))
    IN (IF Len(digits) = 1 THEN digits ELSE <<Head(digits), DOT>> \o Tail(digits))
       \o <<Lower.e, IF power < 0 THEN MINUS ELSE PLUS>>
       \o (IF Len(places) = 1 THEN <<48>> ELSE <<>>) \o places

(* printf's %.*g takes an exponent for very small and for large numbers.   *)
Formatted(digits, e, precision, decimal) ==
    LET power == Len(digits) - 1 + e
    IN IF ~decimal /\ (power < -4 \/ power >= precision)
       THEN Scientific(digits, power) ELSE Plain(digits, e)

(* A text with neither a point nor an exponent gets ".0", which            *)
(* fixZerosInTheEnd takes away again if no places were asked for.          *)
Marked(text, whole) == IF whole \/ \E i \in DOMAIN text : text[i] \in {DOT, Lower.e}
                       THEN text ELSE text \o <<DOT, 48>>

FiniteText(r, precision, decimal) ==
    Marked(Formatted(uintToString(Abs(r[1])), r[2], precision, decimal), decimal /\ precision = 0)

(* The sign of a zero is not kept.                                         *)
realToString(d, special, precision, decimal) ==
    IF d = NaN THEN IF special THEN NaNText ELSE NullText
    ELSE (IF d[1] < 0 THEN <<MINUS>> ELSE <<>>)
         \o (IF IsFinite(d)
             THEN FiniteText(Rounded(d, IF precision = 0 /\ ~decimal THEN 1 ELSE precision, decimal),
                             precision, decimal)
             ELSE IF special THEN InfinityText ELSE HugeText)

asString(v) ==
    CASE Type(v) = "null"            -> <<>>
      [] Type(v) = "string"          -> Data(v)
      [] Type(v) = "boolean"         -> IF Data(v)[1] = 1 THEN TrueText ELSE FalseText
      [] Type(v) \in {"int", "uint"} -> valueToString(Data(v)[1])
      [] Type(v) = "real"            -> realToString(Data(v), FALSE, 17, FALSE)

----------------------------------------------------------------------------
(* Strings. *)

NeedsEscape(c) == c \in {QUOTE, BACKSLASH} \/ c < SPACE \/ c > 127

HexText(n) == [i \in 1 .. 4 |-> LET d == (n \div 16^(4 - i)) % 16
                                IN IF d < 10 THEN 48 + d ELSE 87 + d]
appendHex(n) == <<BACKSLASH, Lower.u>> \o HexText(n)

(* The code point at the head of s, or the replacement character, and how  *)
(* many bytes it took.                                                     *)
utf8ToCodepoint(s) ==
    LET b == Head(s)
        n == CASE b < 128 -> 1 [] b < 224 -> 2 [] b < 240 -> 3 [] b < 248 -> 4 [] OTHER -> 0
        low(i) == s[i] % 64
        point == CASE n = 1 -> b
                   [] n = 2 -> (b % 32) * 64 + low(2)
                   [] n = 3 -> (b % 16) * 4096 + low(2) * 64 + low(3)
                   [] n = 4 -> (b % 8) * 262144 + low(2) * 4096 + low(3) * 64 + low(4)
        whole == n > 0 /\ n <= Len(s)
        valid == /\ whole
                 /\ point >= <<0, 128, 2048, 65536>>[n]
                 /\ ~(n = 3 /\ point \in 55296 .. 57343)
    IN [point |-> IF valid THEN point ELSE 65533, took |-> IF whole THEN n ELSE 1]

ShortEscape == [c \in {QUOTE, BACKSLASH, 8, 12, LF, CR, TAB} |->
                   CASE c = 8  -> Lower.b [] c = 12 -> Lower.f [] c = LF -> Lower.n
                     [] c = CR -> Lower.r [] c = TAB -> Lower.t [] OTHER -> c]

RECURSIVE EscapedText(_, _)

EscapedFrom(s, u, emitUTF8) ==         \* u: what s begins with
    LET short == Head(s) \in DOMAIN ShortEscape
        p     == u.point - 65536
    IN (CASE short -> <<BACKSLASH, ShortEscape[Head(s)]>>
          [] u.point < SPACE -> appendHex(u.point)
          [] u.point < 128 \/ emitUTF8 -> <<u.point>>
          [] u.point < 65536 -> appendHex(u.point)
          [] OTHER -> appendHex(55296 + ((p \div 1024) % 1024)) \o appendHex(56320 + (p % 1024)))
       \o EscapedText(SubSeq(s, (IF short THEN 1 ELSE u.took) + 1, Len(s)), emitUTF8)

EscapedText(s, emitUTF8) ==
    IF s = <<>> THEN <<>>
    ELSE EscapedFrom(s, IF emitUTF8 THEN [point |-> Head(s), took |-> 1] ELSE utf8ToCodepoint(s),
                     emitUTF8)

valueToQuotedStringN(s, emitUTF8) ==
    <<QUOTE>> \o (IF \E i \in DOMAIN s : NeedsEscape(s[i]) THEN EscapedText(s, emitUTF8)
                  ELSE s) \o <<QUOTE>>

valueToQuotedString(s) == valueToQuotedStringN(CString(s), FALSE)

----------------------------------------------------------------------------
(* Options, and what every writer writes for a value that has no children. *)

Options == [class |-> "built", indentation |-> <<TAB>>, colon |-> <<SPACE, COLON, SPACE>>,
            null |-> NullText, comments |-> TRUE, special |-> FALSE, emitUTF8 |-> FALSE,
            precision |-> 17, decimal |-> FALSE]

Text(v, o) ==
    CASE Type(v) = "null"   -> o.null
      [] Type(v) = "real"   -> realToString(Data(v), o.special, o.precision, o.decimal)
      [] Type(v) = "string" -> valueToQuotedStringN(Data(v), o.emitUTF8)
      [] Type(v) = "array"  -> <<LBRACKET, RBRACKET>>
      [] Type(v) = "object" -> <<LBRACE, RBRACE>>
      [] OTHER              -> asString(v)

ElementsOf(v) == [i \in 1 .. size(v) |-> Indexed(v, i - 1)]

RECURSIVE Join(_, _)
Join(texts, separator) ==
    CASE texts = <<>>     -> <<>>
      [] Len(texts) = 1   -> Head(texts)
      [] OTHER            -> Head(texts) \o separator \o Join(Tail(texts), separator)

RECURSIVE FastText(_, _)
FastText(v, o) ==
    LET names == getMemberNames(v)
        elements == ElementsOf(v)
    IN CASE IsArray(v) ->
              <<LBRACKET>> \o Join([i \in DOMAIN elements |-> FastText(elements[i], o)], <<COMMA>>)
              \o <<RBRACKET>>
         [] IsObject(v) ->
              <<LBRACE>> \o Join([i \in DOMAIN names |->
                                     valueToQuotedStringN(names[i], FALSE) \o o.colon
                                     \o FastText(Child(v, names[i]), o)], <<COMMA>>)
              \o <<RBRACE>>
         [] OTHER -> Text(v, o)

FastWriter(v, yaml, dropNull, omitLF) ==
    FastText(v, [Options EXCEPT !.class = "fast",
                                !.colon = IF yaml THEN <<COLON, SPACE>> ELSE <<COLON>>,
                                !.null  = IF dropNull THEN <<>> ELSE NullText])
    \o (IF omitLF THEN <<>> ELSE <<LF>>)

----------------------------------------------------------------------------
(* The writers in lines. *)

Emit(w, text) == [w EXCEPT !.out = @ \o text]

(* StyledWriter: at the end of a line or after a blank it is indented.     *)
StyledWriter_writeIndent(w) ==
    CASE w.out = <<>>          -> Emit(w, w.indent)
      [] Last(w.out) = SPACE   -> w
      [] Last(w.out) = LF      -> Emit(w, w.indent)
      [] OTHER                 -> Emit(w, <<LF>> \o w.indent)

StyledStreamWriter_writeIndent(w) == Emit(w, <<LF>> \o w.indent)

(* No indentation, no lines.                                               *)
BuiltStyledStreamWriter_writeIndent(w) ==
    IF w.o.indentation = <<>> THEN w ELSE Emit(w, <<LF>> \o w.indent)

writeIndent(w) == CASE w.o.class = "styled" -> StyledWriter_writeIndent(w)
                    [] w.o.class = "stream" -> StyledStreamWriter_writeIndent(w)
                    [] w.o.class = "built"  -> BuiltStyledStreamWriter_writeIndent(w)

IndentOnce(w) == IF w.o.class # "styled" /\ w.indented THEN w ELSE writeIndent(w)

writeWithIndent(w, text) == [Emit(IndentOnce(w), text) EXCEPT !.indented = FALSE]

indent(w)   == [w EXCEPT !.indent = @ \o w.o.indentation]
unindent(w) == [w EXCEPT !.indent = SubSeq(@, 1, Len(@) - Len(w.o.indentation))]

Comment(v, slot)      == v[<<>>].comments[slot]
hasComment(v, slot)   == Comment(v, slot) # <<>>
hasCommentForValue(v) == \E slot \in CommentPlacement : hasComment(v, slot)

(* Every line of a comment that begins with a slash is indented.           *)
RECURSIVE Indented(_, _)
Indented(text, by) ==
    IF text = <<>> THEN <<>>
    ELSE <<Head(text)>>
         \o (IF Head(text) = LF /\ Len(text) > 1 /\ text[2] = SLASH THEN by ELSE <<>>)
         \o Indented(Tail(text), by)

StyledWriter_commentWithoutEnd(w, v) ==          \* what follows is on its line
    IF ~hasComment(v, "before") THEN w
    ELSE Emit(writeIndent(Emit(w, <<LF>>)), Indented(Comment(v, "before"), w.indent))

StyledWriter_writeCommentBeforeValue(w, v) ==
    IF ~hasComment(v, "before") THEN w
    ELSE Emit(writeIndent(Emit(w, <<LF>>)), Indented(Comment(v, "before"), w.indent) \o <<LF>>)

StyledStreamWriter_writeCommentBeforeValue(w, v) ==
    IF ~hasComment(v, "before") THEN w
    ELSE [Emit(IndentOnce(w), Indented(Comment(v, "before"), w.indent)) EXCEPT !.indented = FALSE]

BuiltStyledStreamWriter_writeCommentBeforeValue(w, v) ==
    IF w.o.comments THEN StyledStreamWriter_writeCommentBeforeValue(w, v) ELSE w

writeCommentBeforeValue(w, v) ==
    CASE w.o.class = "styled" -> StyledWriter_writeCommentBeforeValue(w, v)
      [] w.o.class = "stream" -> StyledStreamWriter_writeCommentBeforeValue(w, v)
      [] w.o.class = "built"  -> BuiltStyledStreamWriter_writeCommentBeforeValue(w, v)

SameLine(w, v) == IF hasComment(v, "afterOnSameLine")
                  THEN Emit(w, <<SPACE>> \o Comment(v, "afterOnSameLine")) ELSE w

StyledWriter_writeCommentAfterValueOnSameLine(w, v) ==
    IF hasComment(v, "after")
    THEN Emit(SameLine(w, v), <<LF>> \o Comment(v, "after") \o <<LF>>) ELSE SameLine(w, v)

StyledStreamWriter_writeCommentAfterValueOnSameLine(w, v) ==
    LET w1 == SameLine(w, v)
    IN [IF hasComment(v, "after") THEN Emit(writeIndent(w1), Comment(v, "after")) ELSE w1
        EXCEPT !.indented = FALSE]

BuiltStyledStreamWriter_writeCommentAfterValueOnSameLine(w, v) ==
    LET w1 == SameLine(w, v)
    IN CASE ~w.o.comments          -> w
         [] hasComment(v, "after") -> Emit(writeIndent(w1), Comment(v, "after"))
         [] OTHER                  -> w1

writeCommentAfterValueOnSameLine(w, v) ==
    CASE w.o.class = "styled" -> StyledWriter_writeCommentAfterValueOnSameLine(w, v)
      [] w.o.class = "stream" -> StyledStreamWriter_writeCommentAfterValueOnSameLine(w, v)
      [] w.o.class = "built"  -> BuiltStyledStreamWriter_writeCommentAfterValueOnSameLine(w, v)

(* An array is on one line if it is short, and its elements are too.       *)
isMultilineArray(v, o) ==
    LET elements == ElementsOf(v)
        texts    == [i \in DOMAIN elements |-> Text(elements[i], o)]
    IN \/ size(v) * 3 >= RightMargin
       \/ \E i \in DOMAIN elements :
             \/ (IsArray(elements[i]) \/ IsObject(elements[i])) /\ ~empty(elements[i])
             \/ hasCommentForValue(elements[i])
       \/ 4 + Len(Join(texts, <<COMMA, SPACE>>)) >= RightMargin

SingleLine(v, o) ==
    LET elements == ElementsOf(v)
        blank    == IF o.indentation = <<>> THEN <<>> ELSE <<SPACE>>
    IN <<LBRACKET>> \o blank
       \o Join([i \in DOMAIN elements |-> Text(elements[i], o)], <<COMMA>> \o blank)
       \o blank \o <<RBRACKET>>

(* An object's members and an array's elements, each with the comments     *)
(* before and after it; a comma comes before the comment after.            *)
RECURSIVE writeValue(_, _), WriteChildren(_, _, _)

OnOneLine(w, v) == /\ IsArray(v)
                   /\ ~(w.o.class = "built" /\ w.o.comments) /\ ~isMultilineArray(v, w.o)

writeValue(w, v) ==
    LET keys == IF IsObject(v) THEN getMemberNames(v) ELSE [i \in 1 .. size(v) |-> <<i - 1>>]
    IN CASE size(v) = 0     -> Emit(w, Text(v, w.o))
         [] OnOneLine(w, v) -> Emit(w, SingleLine(v, w.o))
         [] OTHER ->
              writeWithIndent(
                  unindent(WriteChildren(
                      indent(writeWithIndent(w, IF IsObject(v) THEN <<LBRACE>> ELSE <<LBRACKET>>)),
                      v, keys)),
                  IF IsObject(v) THEN <<RBRACE>> ELSE <<RBRACKET>>)

WriteChild(w, v, key) ==
    LET name == IF w.o.class = "built" THEN valueToQuotedStringN(key, w.o.emitUTF8)
                ELSE valueToQuotedString(key)
    IN IF IsObject(v)
       THEN writeValue(Emit(writeWithIndent(w, name), w.o.colon), Member(v, key))
       ELSE [writeValue([IndentOnce(w) EXCEPT !.indented = TRUE], Member(v, key))
             EXCEPT !.indented = FALSE]

WriteMore(w, v, keys) == IF keys = <<>> THEN w ELSE WriteChildren(w, v, keys)
CommaIf(w, more)      == IF more THEN Emit(w, <<COMMA>>) ELSE w

WriteChildren(w, v, keys) ==
    LET child == Member(v, Head(keys))
    IN WriteMore(writeCommentAfterValueOnSameLine(
                     CommaIf(WriteChild(writeCommentBeforeValue(w, child), v, Head(keys)),
                             Len(keys) > 1),
                     child),
                 v, Tail(keys))

Styled(v, o) ==
    LET w0 == writeCommentBeforeValue([o |-> o, out |-> <<>>, indent |-> <<>>, indented |-> TRUE], v)
        w1 == [IndentOnce(w0) EXCEPT !.indented = TRUE]
    IN writeCommentAfterValueOnSameLine(writeValue(IF o.class = "styled" THEN w0 ELSE w1, v), v).out

StyledWriter(v) ==
    Styled(v, [Options EXCEPT !.class = "styled",
                              !.indentation = [i \in 1 .. IndentSize |-> SPACE]]) \o <<LF>>

StyledStreamWriter(v, indentation) ==
    Styled(v, [Options EXCEPT !.class = "stream", !.indentation = indentation]) \o <<LF>>

----------------------------------------------------------------------------
(* StreamWriterBuilder.  The settings are a Value, an object; here they    *)
(* are a function from the names of the settings that were made to their   *)
(* Values, and one that was not made reads as null.                        *)

BuilderDefaults ==
    [commentStyle |-> OfString(AllText), indentation |-> OfString(<<TAB>>),
     enableYAMLCompatibility |-> OfBool(FALSE), dropNullPlaceholders |-> OfBool(FALSE),
     useSpecialFloats |-> OfBool(FALSE), emitUTF8 |-> OfBool(FALSE),
     precision |-> OfInt(17), precisionType |-> OfString(SignificantText)]

Setting(settings, name) == IF name \in DOMAIN settings THEN settings[name] ELSE Null

validateBuilder(settings) == DOMAIN settings \subseteq DOMAIN BuilderDefaults

newStreamWriterThrows(settings) ==
    LET s(name) == Setting(settings, name)
    IN \/ \E name \in {"indentation", "commentStyle", "precisionType"} : asStringThrows(s(name))
       \/ \E name \in {"enableYAMLCompatibility", "dropNullPlaceholders",
                       "useSpecialFloats", "emitUTF8"} : asBool(s(name)).throws
       \/ asUInt(s("precision")).throws
       \/ asString(s("commentStyle")) \notin {AllText, NoneText}
       \/ asString(s("precisionType")) \notin {SignificantText, DecimalText}

newStreamWriter(settings) ==
    LET s(name)  == Setting(settings, name)
        on(name) == asBool(s(name)).value
        precision == asUInt(s("precision")).value
    IN [class       |-> "built",
        indentation |-> asString(s("indentation")),
        colon       |-> IF on("enableYAMLCompatibility") THEN <<COLON, SPACE>>
                        ELSE IF asString(s("indentation")) = <<>> THEN <<COLON>>
                        ELSE <<SPACE, COLON, SPACE>>,
        null        |-> IF on("dropNullPlaceholders") THEN <<>> ELSE NullText,
        comments    |-> asString(s("commentStyle")) = AllText,
        special     |-> on("useSpecialFloats"),
        emitUTF8    |-> on("emitUTF8"),
        precision   |-> IF precision > 17 THEN 17 ELSE precision,
        decimal     |-> asString(s("precisionType")) = DecimalText]

writeString(settings, v) == Styled(v, newStreamWriter(settings))

toStyledString(v) ==
    (IF hasComment(v, "before") THEN <<LF>> ELSE <<>>) \o writeString(BuilderDefaults, v) \o <<LF>>
============================================================================
