---------------------------- MODULE JsonValue ----------------------------
(***************************************************************************)
(* What a Json::Value holds: numbers, how Values compare, and what they    *)
(* convert to.  The tree of Values and its operations are in JsonTree.     *)
(*                                                                         *)
(* Integers keep the code's four limits, scaled down.  A double is a       *)
(* decimal float <<m, e>> for m * 10^e with at most Digits digits in m,    *)
(* so that, as in the code, the largest integers are not doubles.          *)
(***************************************************************************)
EXTENDS JsonTree, JsonChars

CONSTANTS MaxInt,            \* Value::maxInt
          MaxLargestInt,     \* Value::maxInt64
          Digits,            \* decimal digits of a double
          MaxExponent        \* doubles beyond it are infinite

MaxUInt         == 2 * MaxInt + 1
MaxLargestUInt  == 2 * MaxLargestInt + 1
MinInt          == -MaxInt - 1
MinLargestInt   == -MaxLargestInt - 1

ASSUME LimitsAssumption ==
    /\ MaxInt \in Nat \ {0} /\ MaxLargestInt \in Nat /\ MaxUInt < MaxLargestInt
    /\ Digits \in Nat \ {0} /\ MaxExponent \in Nat

LOCAL Abs(n)      == IF n < 0 THEN -n ELSE n
LOCAL Cut(n, d)   == IF n < 0 THEN -((-n) \div d) ELSE n \div d  \* C++ division

----------------------------------------------------------------------------
(* Doubles. *)

Infinite(sign) == <<sign, MaxExponent + 1>>
NaN            == <<0, MaxExponent + 1>>
IsFinite(d)    == d[2] <= MaxExponent

(* m * 10^e as the nearest double, in the form without trailing zeros.     *)
RECURSIVE Double(_, _)
Double(m, e) ==
    IF m = 0 THEN <<0, 0>>
    ELSE IF Abs(m) >= 10^Digits
         THEN LET up == IF Abs(m) % 10 >= 5 THEN 1 ELSE 0
              IN Double(Cut(m, 10) + (IF m < 0 THEN -up ELSE up), e + 1)
    ELSE IF Abs(m) % 10 = 0 THEN Double(Cut(m, 10), e + 1)
    ELSE IF e > MaxExponent THEN Infinite(IF m < 0 THEN -1 ELSE 1)
    ELSE <<m, e>>

OfInteger(n) == Double(n, 0)

(* c <= d, for finite doubles.                                             *)
AtMost(c, d) ==
    LET e == IF c[2] < d[2] THEN c[2] ELSE d[2]
    IN c[1] * 10^(c[2] - e) <= d[1] * 10^(d[2] - e)

InRange(d, low, high) ==
    CASE d = NaN       -> FALSE
      [] ~IsFinite(d)  -> FALSE
      [] OTHER         -> AtMost(OfInteger(low), d) /\ AtMost(d, OfInteger(high))

IsIntegral(d) == IsFinite(d) => d[2] >= 0     \* modf of an infinity is 0

(* The cast of a finite double to an integer: towards zero.                *)
Truncated(d) == IF d[2] >= 0 THEN d[1] * 10^d[2] ELSE Cut(d[1], 10^(-d[2]))

----------------------------------------------------------------------------
(* Comparison.  Keys are ordered by index or by memcmp and then length,    *)
(* which is the same order of sequences.                                   *)

SeqLess(s, t) ==
    \/ \E i \in DOMAIN s \cap DOMAIN t :
          /\ s[i] < t[i]
          /\ \A j \in 1 .. i - 1 : s[j] = t[j]
    \/ /\ Len(s) < Len(t)
       /\ \A i \in DOMAIN s : s[i] = t[i]

RECURSIVE Sorted(_)
Sorted(S) == IF S = {} THEN <<>>
             ELSE LET k == CHOOSE k \in S : \A l \in S : ~SeqLess(l, k)
                  IN <<k>> \o Sorted(S \ {k})

getMemberNames(v) == Sorted(Keys(v))

RealLess(c, d) == CASE c = NaN \/ d = NaN -> FALSE
                    [] c[2] > MaxExponent \/ d[2] > MaxExponent ->
                         LET side(x) == IF IsFinite(x) THEN 0 ELSE x[1]
                         IN side(c) < side(d)
                    [] OTHER -> ~AtMost(d, c)

RECURSIVE Less(_, _)
Less(v, w) ==
    LET a == Data(v)  b == Data(w)
        ks == Sorted(Keys(v))  ls == Sorted(Keys(w))
        pairLess(i) == \/ SeqLess(ks[i], ls[i])
                       \/ ks[i] = ls[i] /\ Less(Child(v, ks[i]), Child(w, ls[i]))
        pairMore(i) == \/ SeqLess(ls[i], ks[i])
                       \/ ks[i] = ls[i] /\ Less(Child(w, ls[i]), Child(v, ks[i]))
    IN CASE Type(v) # Type(w) -> TypeRank[Type(v)] < TypeRank[Type(w)]
         [] Type(v) = "real"  -> RealLess(a, b)
         [] Type(v) \in {"array", "object"} ->
              \/ Len(ks) < Len(ls)
              \/ /\ Len(ks) = Len(ls)
                 /\ \E i \in DOMAIN ks :
                       pairLess(i) /\ \A j \in 1 .. i - 1 : ~pairLess(j) /\ ~pairMore(j)
         [] OTHER -> SeqLess(a, b)

EqualWhateverType(v, w) == DOMAIN v = DOMAIN w /\ \A p \in DOMAIN v : v[p].data = w[p].data

Equal(v, w) ==
    /\ DOMAIN v = DOMAIN w
    /\ \A p \in DOMAIN v :
          /\ v[p].type = w[p].type
          /\ v[p].data = w[p].data
          /\ v[p].type = "real" => v[p].data # NaN

compare(v, w) == IF Less(v, w) THEN -1 ELSE IF Less(w, v) THEN 1 ELSE 0

----------------------------------------------------------------------------
(* Conversions. *)

Number(v)    == Data(v)[1]
isNumeric(v) == Type(v) \in {"int", "uint", "real"}

isInt(v)  == CASE Type(v) \in {"int", "uint"} -> MinInt <= Number(v) /\ Number(v) <= MaxInt
               [] Type(v) = "real" -> InRange(Data(v), MinInt, MaxInt) /\ IsIntegral(Data(v))
               [] OTHER -> FALSE

isUInt(v) == CASE Type(v) \in {"int", "uint"} -> 0 <= Number(v) /\ Number(v) <= MaxUInt
               [] Type(v) = "real" -> InRange(Data(v), 0, MaxUInt) /\ IsIntegral(Data(v))
               [] OTHER -> FALSE

isInt64Inclusive(v) ==                 \* the range of asInt64
    IF Type(v) = "real"
    THEN InRange(Data(v), MinLargestInt, MaxLargestInt) /\ IsIntegral(Data(v))
    ELSE Type(v) = "int" \/ (Type(v) = "uint" /\ Number(v) <= MaxLargestInt)

(* The largest 64-bit integers are not doubles: what they round to is out. *)
isInt64(v) == CASE Type(v) = "int"  -> TRUE
                [] Type(v) = "uint" -> Number(v) <= MaxLargestInt
                [] Type(v) = "real" -> /\ InRange(Data(v), MinLargestInt, MaxLargestInt)
                                       /\ Data(v) # OfInteger(MaxLargestInt)
                                       /\ IsIntegral(Data(v))
                [] OTHER -> FALSE

isUInt64(v) == CASE Type(v) = "int"  -> 0 <= Number(v)
                 [] Type(v) = "uint" -> TRUE
                 [] Type(v) = "real" -> /\ InRange(Data(v), 0, MaxLargestUInt)
                                        /\ Data(v) # OfInteger(MaxLargestUInt)
                                        /\ IsIntegral(Data(v))
                 [] OTHER -> FALSE

isIntegral(v) == CASE Type(v) \in {"int", "uint"} -> TRUE
                   [] Type(v) = "real" -> /\ InRange(Data(v), MinLargestInt, MaxLargestUInt)
                                          /\ Data(v) # OfInteger(MaxLargestUInt)
                                          /\ IsIntegral(Data(v))
                   [] OTHER -> FALSE

(* What asInt and its kin return, or that they throw.                      *)
Throws     == [throws |-> TRUE, value |-> 0]
Returns(n) == [throws |-> FALSE, value |-> n]

AsInteger(v, fits, low, high) ==
    CASE Type(v) \in {"int", "uint"} -> IF fits THEN Returns(Number(v)) ELSE Throws
      [] Type(v) = "real"    -> IF InRange(Data(v), low, high)
                                THEN Returns(Truncated(Data(v))) ELSE Throws
      [] Type(v) = "null"    -> Returns(0)
      [] Type(v) = "boolean" -> Returns(Number(v))
      [] OTHER               -> Throws

asInt(v)    == AsInteger(v, isInt(v), MinInt, MaxInt)
asUInt(v)   == AsInteger(v, isUInt(v), 0, MaxUInt)
asInt64(v)  == AsInteger(v, isInt64(v), MinLargestInt, MaxLargestInt)
asUInt64(v) == AsInteger(v, isUInt64(v), 0, MaxLargestUInt)

asDouble(v) == CASE Type(v) = "real" -> Returns(Data(v))
                 [] Type(v) = "null" -> Returns(OfInteger(0))
                 [] Type(v) \in {"int", "uint", "boolean"} -> Returns(OfInteger(Number(v)))
                 [] OTHER            -> Throws

asBool(v) == CASE Type(v) = "null" -> Returns(FALSE)
               [] Type(v) = "real" -> Returns(Data(v) # OfInteger(0) /\ Data(v) # NaN)
               [] Type(v) \in {"int", "uint", "boolean"} -> Returns(Number(v) # 0)
               [] OTHER            -> Throws

(* asString needs the text of numbers, which the writers have.             *)
asStringThrows(v) == Type(v) \in {"array", "object"}

isConvertibleTo(v, t) ==
    LET simple == Type(v) \in {"boolean", "null"}
    IN CASE t = "null"    -> \/ isNumeric(v) /\ asDouble(v).value = OfInteger(0)
                             \/ Type(v) = "boolean" /\ Number(v) = 0
                             \/ Type(v) = "string" /\ Data(v) = <<>>
                             \/ Type(v) \in {"array", "object"} /\ Keys(v) = {}
                             \/ IsNull(v)
         [] t = "int"     -> \/ isInt(v) \/ simple
                             \/ Type(v) = "real" /\ InRange(Data(v), MinInt, MaxInt)
         [] t = "uint"    -> \/ isUInt(v) \/ simple
                             \/ Type(v) = "real" /\ InRange(Data(v), 0, MaxUInt)
         [] t \in {"real", "boolean"} -> isNumeric(v) \/ simple
         [] t = "string"  -> isNumeric(v) \/ simple \/ Type(v) = "string"
         [] OTHER         -> Allows(v, t)

============================================================================
