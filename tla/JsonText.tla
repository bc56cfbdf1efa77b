----------------------------- MODULE JsonText -----------------------------
(***************************************************************************)
(* Texts, put together one lexeme after another, and what the readers and  *)
(* the writers make of them.                                               *)
(***************************************************************************)
EXTENDS JsonCharReader, JsonGrammar

CONSTANTS Lexemes,      \* records [kind, text, name]
          Words,        \* lexemes that are tried alone
          Layouts,      \* settings of StreamWriterBuilders
          ReaderFeatures, CharReaderSettings,
          MaxLexemes    \* bound on the length of a text

VARIABLES typed,
          byReader,     \* what a Reader with each of the features made of the text
          byCharReader  \* what each of the CharReaders made of it

vars == <<typed, byReader, byCharReader>>

RECURSIVE Concat(_)
Concat(lexemes) == IF lexemes = <<>> THEN <<>> ELSE Head(lexemes).text \o Concat(Tail(lexemes))
text == Concat(typed)

ReadBy_(lexemes, reader, charReader) ==
    LET chars == Concat(lexemes)
    IN /\ reader     = [f \in ReaderFeatures |-> parse(chars, f, TRUE)]
       /\ charReader = [c \in CharReaderSettings |-> charReaderParse(chars, c)]

Init == typed = <<>> /\ ReadBy_(typed, byReader, byCharReader)

Type_(x) == /\ x \in Lexemes
            /\ Len(typed) < MaxLexemes /\ typed \in Seq(Lexemes)
            /\ typed' = Append(typed, x)

Alone(x) == /\ x \in Words
            /\ typed = <<>>
            /\ typed' = <<x>>

Next == \E x \in Lexemes \union Words :
           (Type_(x) \/ Alone(x)) /\ ReadBy_(typed', byReader', byCharReader')

Spec == Init /\ [][Next]_vars

(* The features of OurReader that do what these of Reader do.              *)
OfReader(f) == [name \in Switches \union {"stackLimit"} |->
                   IF name \in DOMAIN f THEN f[name] ELSE FALSE]

(* A text is not continued once no reader will take it.                    *)
Viable ==
    \/ \E f \in ReaderFeatures : Machine(typed, [OfReader(f) EXCEPT !.failIfExtra = TRUE]).expect # "nothing"
    \/ \E c \in CharReaderSettings :
          Machine(typed, [newCharReader(c) EXCEPT !.failIfExtra = TRUE]).expect # "nothing"

----------------------------------------------------------------------------
(* A document without offsets and comments, and with the integers of one   *)
(* type: what two texts of the same value have in common.                  *)
Bare(v) == [p \in DOMAIN v |->
               [type |-> IF v[p].type = "uint" THEN "int" ELSE v[p].type, data |-> v[p].data]]
Remarks(v) == [p \in DOMAIN v |-> v[p].comments]

(* What the readers make of the text, accepted or not.                     *)
Readings == {byReader[f] : f \in ReaderFeatures} \union
            {byCharReader[c] : c \in CharReaderSettings}
Accepted == {s \in Readings : s.ok}

(* A reader that records an error refuses the text, and the other way      *)
(* round; the error is at a place in the text.  Where it is not known to   *)
(* do otherwise, it takes exactly the texts of the documented language,    *)
(* and throws only if they are nested too deeply.                          *)
Faithful(s, g, f) ==
    /\ ~g.odd => /\ s.ok <=> IsText(g, f)
                 /\ s.threw => g.depth >= f.stackLimit
    /\ s.ok <=> s.errors = <<>> /\ ~s.threw
    /\ \A i \in DOMAIN s.errors : s.errors[i][1] <= s.errors[i][2] /\ s.errors[i][2] <= Len(text)

ReadersFollowGrammar ==
    /\ \A f \in ReaderFeatures : Faithful(byReader[f], Machine(typed, OfReader(f)), OfReader(f))
    /\ \A c \in CharReaderSettings :
          Faithful(byCharReader[c], Machine(typed, newCharReader(c)), newCharReader(c))

Commented == {i \in DOMAIN typed : typed[i].kind = "comment"}

(* Claimed by json_features.h of strictMode, "Comments are forbidden", and *)
(* by reader.h of allowComments, "true if comments are allowed": where     *)
(* they are not, and nothing may follow the value, none is taken.          *)
StrictForbidsComments ==
    \A c \in CharReaderSettings :
       LET f == newCharReader(c)
       IN ~f.allowComments /\ f.failIfExtra /\ byCharReader[c].ok => Commented = {}

(* Claimed by the same line of reader.h: where they are, a text with one   *)
(* between two lexemes is taken.                                           *)
CommentsAreAllowed ==
    \A c \in CharReaderSettings :
       LET f == newCharReader(c)
       IN f.allowComments /\ IsText(Machine(typed, f), f) => byCharReader[c].ok

(* Claimed by reader.h of allowTrailingCommas, "true if trailing commas in *)
(* objects and arrays are allowed": where they are not, none is taken.     *)
TrailingCommasAreForbidden ==
    \A c \in CharReaderSettings :
       LET f == newCharReader(c)
           ends == {i \in 1 .. Len(typed) - 1 : typed[i].kind = "," /\ typed[i + 1].kind \in {"}", "]"}}
       IN ~f.allowTrailingCommas /\ ~f.allowDroppedNullPlaceholders /\ f.failIfExtra
             /\ byCharReader[c].ok => ends = {}

(* The document is a tree of Values whatever the text, and lastValue_ was  *)
(* never used after its Value was gone.  The offsets of every Value are    *)
(* those of its text: read alone, it is the same Value.  (A name given     *)
(* twice keeps its last value; of a null that stands for nothing the       *)
(* offsets are arbitrary.)                                                 *)
SameValue(s, v) == s.ok /\ Bare(s.doc) = Bare(v)

SameAlone(s, f) ==
    \A p \in DOMAIN s.doc :
       SameValue(parse(Slice(s, s.doc[p].start, s.doc[p].limit), [f EXCEPT !.strictRoot = FALSE], TRUE),
                 At(s.doc, p))

OffsetsFit ==
    /\ \A s \in Readings : WellFormed(s.doc) /\ ~s.stale
    /\ \A f \in {f \in ReaderFeatures : ~f.allowDroppedNullPlaceholders} :
          byReader[f].ok => SameAlone(byReader[f], f)

(* Whatever a reader took, every writer writes so that it reads as the     *)
(* same Value again.  A writer that knows no special floats writes null    *)
(* for what is no number and a huge number for an infinity; what one that  *)
(* does writes is for the readers that know them too.                      *)
Specials(v, S) == \E p \in DOMAIN v : v[p].type = "real" /\ v[p].data \in S

Written(v) ==
    [text : {FastWriter(v, FALSE, FALSE, FALSE), StyledWriter(v), StyledStreamWriter(v, <<TAB>>)} \union
            {writeString(l, v) : l \in {l \in Layouts : ~newStreamWriter(l).special}},
     special : {FALSE}] \union
    [text : {writeString(l, v) : l \in {l \in Layouts : newStreamWriter(l).special}},
     special : {TRUE}]

Readable(w, v, f) == /\ ~f.strictRoot
                     /\ ~w.special => ~Specials(v, {NaN})
                     /\ w.special /\ ~f.allowSpecialFloats =>
                           ~Specials(v, {NaN, Infinite(1), Infinite(-1)})

RoundTrip ==
    \A v \in {s.doc : s \in Accepted}, c \in CharReaderSettings :
       \A w \in Written(v) :
          Readable(w, v, newCharReader(c)) =>
             SameValue(charReaderParse(w.text, c), v)

(* OurReader keeps every comment of a text, once: before, on the line of   *)
(* or after some Value; and what toStyledString writes has the same        *)
(* comments at the same Values.  A Value whose name is given again takes   *)
(* its comment on the same line with it.                                   *)
RECURSIVE Letters(_)                   \* the characters of a set of <<key, text>>
Letters(S) == IF S = {} THEN 0
              ELSE LET x == CHOOSE x \in S : TRUE
                   IN Cardinality({i \in DOMAIN x[2] : x[2][i] # LF}) + Letters(S \ {x})

CommentsIn(doc) == {<<p, slot, doc[p].comments[slot]>> : p \in DOMAIN doc, slot \in CommentPlacement}
KeepsComments(s, again) ==
    /\ Letters({<<<<x[1], x[2]>>, x[3]>> : x \in CommentsIn(s.doc)}) =
       Letters({<<i, typed[i].text>> : i \in Commented})
    /\ Remarks(again.doc) = Remarks(s.doc)

CommentsAreKept ==
    \A c \in CharReaderSettings :
       LET f == newCharReader(c)
           plain == Machine(typed, [f EXCEPT !.failIfExtra = TRUE, !.rejectDupKeys = TRUE])
       IN f.collectComments /\ f.allowComments /\ IsText(plain, f) /\ ~plain.odd =>
             KeepsComments(byCharReader[c], charReaderParse(toStyledString(byCharReader[c].doc), c))

(* isConvertibleTo tells whether the conversion throws, and isInt and its  *)
(* kin that it neither throws nor overflows and keeps the number.          *)
Keeps(v, is, as, low, high) ==
    is => /\ ~as.throws /\ low <= as.value /\ as.value <= high
          /\ OfInteger(as.value) = asDouble(v).value

ConversionsAgree ==
    \A v \in {s.doc : s \in Accepted} :
       /\ isConvertibleTo(v, "int")     <=> ~asInt(v).throws
       /\ isConvertibleTo(v, "uint")    <=> ~asUInt(v).throws
       /\ isConvertibleTo(v, "real")    <=> ~asDouble(v).throws
       /\ isConvertibleTo(v, "boolean") <=> ~asBool(v).throws
       /\ isConvertibleTo(v, "string")  <=> ~asStringThrows(v)
       /\ Keeps(v, isInt(v),    asInt(v),    MinInt, MaxInt)
       /\ Keeps(v, isUInt(v),   asUInt(v),   0, MaxUInt)
       /\ Keeps(v, isInt64(v),  asInt64(v),  MinLargestInt, MaxLargestInt)
       /\ Keeps(v, isUInt64(v), asUInt64(v), 0, MaxLargestUInt)
       /\ isInt(v) => isInt64(v)
       /\ isUInt(v) => isUInt64(v)
       /\ isInt64(v) \/ isUInt64(v) <=> isIntegral(v)
============================================================================
