---------------------------- MODULE JsonPartsProofs ---------------------------
(***************************************************************************)
(* Two parts of jsoncpp.  What its readers make of a number token, for      *)
(* integer types of every width and tokens of every length; and the arrays  *)
(* of Json::Value, of every size and with every set of values: the map that *)
(* they are kept in has no hole, and is the list of JsonList.               *)
(***************************************************************************)
EXTENDS JsonNumbers, JsonArrays, SequenceTheorems, WellFoundedInduction, TLAPS

\* A set of naturals that is not empty has a least element.
LEMMA Least ==
    ASSUME NEW S \in SUBSET Nat, S # {}
    PROVE  \E n \in S : \A m \in S : n <= m
<1>1. PICK n \in S : \A m \in S : <<m, n>> \notin OpToRel(<, Nat)
  BY NatLessThanWellFounded, WFMin
<1>2. \A m \in S : ~(m < n)
  BY <1>1 DEF OpToRel
<1> QED
  BY <1>2

------------------------------------------------------------------------------
(* Numbers *)

\* The two readers compute their limits differently (maxIntegerValue / 10, and
\* -(minLargestInt / 10)) and arrive at the same ones.
LEMMA SameLimits ==
    ASSUME Number!TypeOK
    PROVE  /\ Number!Threshold = Number!MaxIntegerValue \div 10
           /\ Number!LastDigit = Number!MaxIntegerValue % 10
           /\ Number!MaxIntegerValue \in Nat
           /\ Number!MaxIntegerValue <= Number!MaxLargestUInt
<1>1. CASE ours /\ negative
  <2>1. Number!MaxIntegerValue = MaxLargestInt + 1
    BY <1>1 DEF Number!MaxIntegerValue
  <2>2. /\ -Number!MinLargestInt = MaxLargestInt + 1
        /\ Number!MinLargestInt < 0 /\ Number!MinLargestInt \in Int
    BY NumbersAssumption DEF Number!MinLargestInt
  <2>3. Number!Quotient(Number!MinLargestInt, 10) = -((MaxLargestInt + 1) \div 10)
    BY <2>2, NumbersAssumption DEF Number!Quotient
  <2>4. Number!Threshold = (MaxLargestInt + 1) \div 10
    BY <1>1, <2>3, NumbersAssumption DEF Number!Threshold
  <2>5. Number!LastDigit = (MaxLargestInt + 1) % 10
    BY <1>1, <2>2, <2>3, NumbersAssumption DEF Number!LastDigit, Number!Remainder
  <2> QED BY <2>1, <2>4, <2>5, NumbersAssumption DEF Number!MaxLargestUInt
<1>2. CASE ~(ours /\ negative)
  BY <1>2, NumbersAssumption DEF Number!Threshold, Number!LastDigit,
       Number!MaxIntegerValue, Number!MaxLargestUInt, Number!TypeOK
<1> QED BY <1>1, <1>2

\* A digit that is not too large fits: the arithmetic behind the three conditions.
LEMMA DigitFits ==
    ASSUME NEW max \in Nat, NEW v \in Nat, NEW d \in 0..9,
           v < max \div 10 \/ (v = max \div 10 /\ d <= max % 10)
    PROVE  v * 10 + d \in Nat /\ v * 10 + d <= max
OBVIOUS

\* A digit character is worth 0 to 9.
LEMMA DigitInRange ==
    ASSUME Number!TypeOK, pos < Len(text), Number!IsDigit(text[pos + 1])
    PROVE  text[pos + 1] - Number!Zero \in 0..9
<1>1. pos + 1 \in 1..Len(text) /\ Len(text) \in Nat
  BY DEF Number!TypeOK
<1>2. text[pos + 1] \in Number!Chars
  BY <1>1 DEF Number!TypeOK
<1>3. Number!Chars \subseteq Int
  <2>1. \A c \in Number!DigitChars : c \in Int
    BY NumbersAssumption DEF Number!DigitChars, Number!Zero
  <2> QED BY <2>1 DEF Number!Chars, Number!Minus, Number!Plus, Number!Point, Number!Exponent
<1>4. text[pos + 1] \in Int
  BY <1>2, <1>3
<1> QED BY <1>4 DEF Number!IsDigit, Number!Zero

\* TypeOK is preserved by the steps of readNumber and decodeNumber.
LEMMA NumberTypes == Number!Spec => []Number!TypeOK
<1>1. Number!Init => Number!TypeOK
  <2> SUFFICES ASSUME Number!Init PROVE Number!TypeOK
    OBVIOUS
  <2>1. PICK c \in Number!Chars : text = <<c>>
    BY DEF Number!Init, Number!Chars
  <2>2. text \in Seq(Number!Chars) /\ text # <<>> /\ Len(text) = 1
    BY <2>1
  <2>3. 0 \in 0..Number!MaxLargestUInt
    BY NumbersAssumption DEF Number!MaxLargestUInt
  <2>4. pos \in 0..Len(text) /\ decoded \in Int /\ exact \in Nat
    BY <2>2 DEF Number!Init
  <2>5. ours \in BOOLEAN /\ negative \in BOOLEAN
    BY Zenon DEF Number!Init
  <2>6. value \in 0..Number!MaxLargestUInt /\ n_pc \in Number!Phases /\ kind = "none"
    BY <2>3 DEF Number!Init, Number!Phases
  <2> QED BY <2>2, <2>4, <2>5, <2>6 DEF Number!TypeOK
<1>2. Number!TypeOK /\ [Number!Next]_(Number!vars) => Number!TypeOK'
  <2> SUFFICES ASSUME Number!TypeOK, [Number!Next]_(Number!vars) PROVE Number!TypeOK'
    OBVIOUS
  <2>1. CASE Number!ReadChar
    <3>1. PICK c \in Number!Chars, next \in Number!Phases : n_pc' = next /\ text' = Append(text, c)
      BY <2>1 DEF Number!ReadChar
    <3>3. text' \in Seq(Number!Chars) /\ text' # <<>> /\ Len(text') = Len(text) + 1
      BY <3>1 DEF Number!TypeOK
    <3> QED BY <2>1, <3>1, <3>3 DEF Number!ReadChar, Number!TypeOK
  <2>2. CASE Number!EndToken
    <3>1. Len(text) \in Nat /\ Len(text) >= 1
      BY DEF Number!TypeOK
    <3>2. Number!SignLength \in 0..1
      BY DEF Number!SignLength
    <3>3. pos' \in 0..Len(text)
      BY <2>2, <3>1, <3>2 DEF Number!EndToken
    <3>4. negative' \in BOOLEAN
      BY <2>2 DEF Number!EndToken
    <3> QED BY <2>2, <3>3, <3>4 DEF Number!EndToken, Number!TypeOK
  <2>3. CASE Number!DecodeDigit
    <3> DEFINE digit == text[pos + 1] - Number!Zero
    <3>1. text' = text /\ ours' = ours /\ negative' = negative
      BY <2>3 DEF Number!DecodeDigit
    <3>2. CASE Number!DecodeDouble
      BY <3>1, <3>2 DEF Number!DecodeDouble, Number!TypeOK
    <3>3. CASE /\ Number!IsDigit(text[pos + 1]) /\ pos' = pos + 1
               /\ value' = (value * 10 + digit) % (Number!MaxLargestUInt + 1)
               /\ exact' = exact * 10 + digit /\ UNCHANGED <<n_pc, kind, decoded>>
      <4>1. pos + 1 \in 1..Len(text) /\ Len(text) \in Nat
        BY <2>3 DEF Number!DecodeDigit, Number!TypeOK
      <4>3. digit \in 0..9
        BY <2>3, <3>3, DigitInRange DEF Number!DecodeDigit
      <4> HIDE DEF digit
      <4>4. exact' \in Nat
        BY <3>3, <4>3 DEF Number!TypeOK
      <4>5. Number!MaxLargestUInt \in Nat
        BY NumbersAssumption DEF Number!MaxLargestUInt
      <4>6. value' \in 0..Number!MaxLargestUInt
        BY <3>3, <4>3, <4>5 DEF Number!TypeOK
      <4>7. pos' \in 0..Len(text)
        BY <3>3, <4>1 DEF Number!TypeOK
      <4> QED BY <3>1, <3>3, <4>4, <4>6, <4>7 DEF Number!TypeOK
    <3> QED BY <2>3, <3>2, <3>3 DEF Number!DecodeDigit
  <2>4. CASE Number!DecodeInteger
    <3>1. decoded' \in Int
      <4>1. value \in Int /\ Number!MaxLargestUInt \in Int /\ Number!MinLargestInt \in Int
        BY NumbersAssumption DEF Number!TypeOK, Number!MaxLargestUInt, Number!MinLargestInt
      <4>2. \A v \in Int : Number!AsLargestInt(v) \in Int
        BY <4>1 DEF Number!AsLargestInt
      <4>3. Number!Negated \in Int
        BY <4>1, <4>2 DEF Number!Negated
      <4> QED BY <2>4, <4>1, <4>3 DEF Number!DecodeInteger
    <3>2. kind' \in {"int", "uint"}
      BY <2>4 DEF Number!DecodeInteger
    <3> QED BY <2>4, <3>1, <3>2 DEF Number!DecodeInteger, Number!TypeOK
  <2>5. CASE UNCHANGED Number!vars
    BY <2>5 DEF Number!vars, Number!TypeOK
  <2> QED BY <2>1, <2>2, <2>3, <2>4, <2>5 DEF Number!Next
<1> QED BY <1>1, <1>2, PTL DEF Number!Spec

\* The inductive invariant: decodeNumber starts from zero.
LoopInv == Number!NoWrap /\ (n_pc \in Number!Phases => value = 0)

LEMMA LoopKept == Number!Spec => []LoopInv
<1>1. Number!Init => LoopInv
  BY DEF Number!Init, Number!NoWrap, LoopInv
<1>2. Number!TypeOK /\ Number!TypeOK' /\ LoopInv /\ [Number!Next]_(Number!vars) => LoopInv'
  <2> SUFFICES ASSUME Number!TypeOK, Number!TypeOK', LoopInv, [Number!Next]_(Number!vars)
               PROVE  LoopInv'
    OBVIOUS
  <2>1. CASE Number!ReadChar
    BY <2>1 DEF Number!ReadChar, Number!NoWrap, LoopInv, Number!Phases
  <2>2. CASE Number!EndToken
    BY <2>2, NumbersAssumption
       DEF Number!EndToken, Number!NoWrap, LoopInv, Number!Phases, Number!MaxIntegerValue,
           Number!MaxLargestUInt, Number!TypeOK
  <2>3. CASE Number!DecodeDigit
    <3> DEFINE digit == text[pos + 1] - Number!Zero
    <3>1. text' = text /\ negative' = negative /\ n_pc = "decode"
      BY <2>3 DEF Number!DecodeDigit
    <3>2. CASE Number!DecodeDouble
      BY <3>2 DEF Number!DecodeDouble, Number!NoWrap, LoopInv, Number!Phases
    <3>3. CASE /\ Number!IsDigit(text[pos + 1]) /\ ~Number!TooLarge(digit) /\ pos' = pos + 1
               /\ value' = (value * 10 + digit) % (Number!MaxLargestUInt + 1)
               /\ exact' = exact * 10 + digit /\ n_pc' = n_pc
      <4>1. digit \in 0..9
        BY <2>3, <3>3, DigitInRange DEF Number!DecodeDigit
      <4> HIDE DEF digit
      <4>2. \/ value < Number!MaxIntegerValue \div 10
            \/ value = Number!MaxIntegerValue \div 10 /\ digit <= Number!MaxIntegerValue % 10
        BY <3>3, <4>1, SameLimits DEF Number!TooLarge, Number!TypeOK
      <4>3. value * 10 + digit \in Nat /\ value * 10 + digit <= Number!MaxIntegerValue
        <5>1. value \in Nat /\ Number!MaxIntegerValue \in Nat
          BY SameLimits DEF Number!TypeOK
        <5> QED BY <4>1, <4>2, <5>1, DigitFits
      <4>4. Number!MaxIntegerValue' = Number!MaxIntegerValue
        BY <3>1 DEF Number!MaxIntegerValue
      <4>5. value' = value * 10 + digit
        BY <3>3, <4>3, SameLimits, NumbersAssumption DEF Number!MaxLargestUInt
      <4> QED BY <3>1, <3>3, <4>3, <4>4, <4>5 DEF Number!NoWrap, LoopInv, Number!Phases
    <3> QED BY <2>3, <3>2, <3>3 DEF Number!DecodeDigit
  <2>4. CASE Number!DecodeInteger
    BY <2>4 DEF Number!DecodeInteger, Number!NoWrap, LoopInv, Number!Phases
  <2>5. CASE UNCHANGED Number!vars
    BY <2>5 DEF Number!vars, Number!NoWrap, LoopInv, Number!Phases, Number!MaxIntegerValue
  <2> QED BY <2>1, <2>2, <2>3, <2>4, <2>5 DEF Number!Next
<1> QED BY <1>1, <1>2, NumberTypes, PTL DEF Number!Spec

\* Neither reader's loop wraps around, for integer types of every width and tokens of
\* every length: the tests of decodeNumber against the threshold and the last digit
\* are enough.
THEOREM NeverWraps == Number!Spec => []Number!NoWrap
<1>1. LoopInv => Number!NoWrap
  BY DEF LoopInv
<1> QED BY <1>1, LoopKept, PTL

\* The numbers that the first characters stand for, one after the other.
LEMMA PrefixesExist ==
    ASSUME NEW s \in Seq(Int)
    PROVE  \E f : f = [i \in 0..Len(s) |->
                         IF i = 0 THEN 0 ELSE f[i - 1] * 10 + (s[i] - Number!Zero)]
<1> DEFINE E(n) == \E f : f = [i \in 0..n |->
                              IF i = 0 THEN 0 ELSE f[i - 1] * 10 + (s[i] - Number!Zero)]
           Missing == {n \in Nat : ~E(n)}
<1>1. Len(s) \in Nat
  OBVIOUS
<1>2. Missing = {}
  <2> SUFFICES ASSUME Missing # {} PROVE FALSE
    OBVIOUS
  <2>1. PICK n \in Missing : \A m \in Missing : n <= m
    BY Least
  <2>2. CASE n = 0
    <3> DEFINE g == [i \in 0..0 |-> 0]
    <3>1. g = [i \in 0..0 |-> IF i = 0 THEN 0 ELSE g[i - 1] * 10 + (s[i] - Number!Zero)]
      OBVIOUS
    <3>2. E(0)
      BY <3>1
    <3> QED BY <2>2, <3>2
  <2>3. CASE n # 0
    <3>1. n - 1 \in Nat /\ E(n - 1)
      <4> HIDE DEF E
      <4>1. n - 1 \in Nat /\ ~(n <= n - 1)
        BY <2>1, <2>3
      <4>2. n - 1 \notin Missing
        BY <2>1, <4>1
      <4> QED BY <4>1, <4>2
    <3>2. PICK f : f = [i \in 0..(n - 1) |->
                          IF i = 0 THEN 0 ELSE f[i - 1] * 10 + (s[i] - Number!Zero)]
      BY <3>1
    <3> DEFINE g == [i \in 0..n |->
                       IF i < n THEN f[i] ELSE f[n - 1] * 10 + (s[n] - Number!Zero)]
    <3>3. \A i \in 0..(n - 1) :
             f[i] = IF i = 0 THEN 0 ELSE f[i - 1] * 10 + (s[i] - Number!Zero)
      BY <3>2
    <3>4. \A i \in 0..(n - 1) : g[i] = f[i]
      BY <3>1
    <3>5. ASSUME NEW i \in 0..n
          PROVE  g[i] = IF i = 0 THEN 0 ELSE g[i - 1] * 10 + (s[i] - Number!Zero)
      <4>1. CASE i < n
        <5>1. i \in 0..(n - 1) /\ (i # 0 => i - 1 \in 0..(n - 1))
          BY <4>1
        <5> QED BY <3>3, <3>4, <5>1
      <4>2. CASE i = n
        <5>1. g[n] = f[n - 1] * 10 + (s[n] - Number!Zero)
          BY <3>1
        <5>2. g[n - 1] = f[n - 1]
          BY <3>1, <3>4
        <5> QED BY <2>3, <4>2, <5>1, <5>2
      <4> QED BY <4>1, <4>2
    <3>6. g = [i \in 0..n |-> g[i]]
      OBVIOUS
    <3> HIDE DEF g
    <3>7. g = [i \in 0..n |-> IF i = 0 THEN 0 ELSE g[i - 1] * 10 + (s[i] - Number!Zero)]
      BY <3>5, <3>6
    <3>8. E(n)
      BY <3>7
    <3> QED BY <3>8
  <2> QED BY <2>2, <2>3
<1> QED BY <1>1, <1>2

LEMMA PrefixesUnfold ==
    ASSUME NEW s \in Seq(Int)
    PROVE  /\ Number!Prefixes(s)[0] = 0
           /\ \A i \in 1..Len(s) : Number!Prefixes(s)[i] =
                                     Number!Prefixes(s)[i - 1] * 10 + (s[i] - Number!Zero)
<1> DEFINE F(f) == f = [i \in 0..Len(s) |->
                         IF i = 0 THEN 0 ELSE f[i - 1] * 10 + (s[i] - Number!Zero)]
<1>1. \E f : F(f)
  BY PrefixesExist
<1>2. Number!Prefixes(s) = CHOOSE f : F(f)
  BY DEF Number!Prefixes
<1>3. F(Number!Prefixes(s))
  <2> HIDE DEF F
  <2> QED BY <1>1, <1>2
<1> QED BY <1>3

LEMMA OneMoreDigit ==
    ASSUME NEW a \in Nat, NEW d \in 0..9
    PROVE  a * 10 + d \in Nat /\ a <= a * 10 + d
OBVIOUS

\* A number grows with each of its digits.
LEMMA PrefixesGrow ==
    ASSUME NEW s \in Seq(Int), \A i \in 1..Len(s) : s[i] - Number!Zero \in 0..9
    PROVE  \A i \in 0..Len(s) : /\ Number!Prefixes(s)[i] \in Nat
                                /\ \A j \in i..Len(s) :
                                      Number!Prefixes(s)[i] <= Number!Prefixes(s)[j]
<1> DEFINE P == Number!Prefixes(s)
<1>1. /\ P[0] = 0 /\ Len(s) \in Nat
      /\ \A i \in 1..Len(s) : P[i] = P[i - 1] * 10 + (s[i] - Number!Zero)
  BY PrefixesUnfold
<1> HIDE DEF P
<1>2. \A i \in 0..Len(s) : P[i] \in Nat
  <2> DEFINE Bad == {i \in 0..Len(s) : P[i] \notin Nat}
  <2> SUFFICES ASSUME Bad # {} PROVE FALSE
    OBVIOUS
  <2>1. PICK n \in Bad : \A m \in Bad : n <= m
    <3>1. Bad \in SUBSET Nat
      BY <1>1
    <3> QED BY <3>1, Least
  <2>2. n # 0 /\ n \in 1..Len(s) /\ n - 1 \in 0..Len(s) /\ n - 1 \notin Bad
    BY <1>1, <2>1
  <2>3. P[n - 1] \in Nat /\ P[n] = P[n - 1] * 10 + (s[n] - Number!Zero)
    BY <1>1, <2>2
  <2>4. s[n] - Number!Zero \in 0..9
    BY <2>2
  <2>5. P[n] \in Nat
    BY <2>3, <2>4, OneMoreDigit
  <2> QED BY <2>1, <2>5
<1>3. ASSUME NEW i \in 0..Len(s) PROVE \A j \in i..Len(s) : P[i] <= P[j]
  <2> DEFINE Bad == {j \in i..Len(s) : ~(P[i] <= P[j])}
  <2> SUFFICES ASSUME Bad # {} PROVE FALSE
    OBVIOUS
  <2>1. PICK n \in Bad : \A m \in Bad : n <= m
    <3>1. Bad \in SUBSET Nat
      BY <1>1
    <3> QED BY <3>1, Least
  <2>2. P[i] \in Nat /\ P[n] \in Nat /\ ~(P[i] <= P[n])
    BY <1>1, <1>2, <2>1
  <2>3. n # i
    BY <2>2
  <2>4. n \in 1..Len(s) /\ n - 1 \in i..Len(s) /\ n - 1 \in 0..Len(s) /\ n - 1 \notin Bad
    BY <1>1, <2>1, <2>3
  <2>5. P[i] <= P[n - 1] /\ P[n - 1] \in Nat
    BY <1>2, <2>4
  <2>6. P[n] = P[n - 1] * 10 + (s[n] - Number!Zero) /\ s[n] - Number!Zero \in 0..9
    BY <1>1, <2>4
  <2>7. P[n - 1] <= P[n]
    BY <2>5, <2>6, OneMoreDigit
  <2> QED BY <2>2, <2>5, <2>7
<1> QED BY <1>2, <1>3 DEF P

\* The characters of a token, and the number without its sign.
LEMMA TokenParts ==
    ASSUME Number!TypeOK
    PROVE  /\ text \in Seq(Int) /\ Len(text) \in Nat /\ Len(text) > 0
           /\ Number!SignLength \in 0..1
           /\ Number!SignLength = (IF text[1] = Number!Minus THEN 1 ELSE 0)
           /\ Number!Unsigned(text) \in Seq(Int)
           /\ Len(Number!Unsigned(text)) = Len(text) - Number!SignLength
           /\ \A i \in 1..Len(Number!Unsigned(text)) :
                 Number!Unsigned(text)[i] = text[i + Number!SignLength]
<1>1. \A c \in Number!Chars : c \in Int
  <2>1. \A c \in Number!DigitChars : c \in Int
    BY NumbersAssumption DEF Number!DigitChars, Number!Zero
  <2> QED BY <2>1 DEF Number!Chars, Number!Minus, Number!Plus, Number!Point, Number!Exponent
<1>2. text \in Seq(Number!Chars) /\ text # <<>>
  BY DEF Number!TypeOK
<1>3. text \in Seq(Int) /\ Len(text) \in Nat /\ Len(text) > 0
  <2>1. /\ Len(text) \in Nat /\ \A i \in 1..Len(text) : text[i] \in Int
        /\ text = [i \in 1..Len(text) |-> text[i]]
    BY <1>1, <1>2
  <2> QED BY <1>2, <2>1
<1>4. CASE text[1] = Number!Minus
  <2>1. Number!SignLength = 1 /\ Number!Unsigned(text) = Tail(text)
    BY <1>4 DEF Number!SignLength, Number!Unsigned
  <2>2. /\ Tail(text) \in Seq(Int) /\ Len(Tail(text)) = Len(text) - 1
        /\ \A i \in 1..Len(Tail(text)) : Tail(text)[i] = text[i + 1]
    BY <1>2, <1>3, HeadTailProperties
  <2> QED BY <1>3, <1>4, <2>1, <2>2
<1>5. CASE text[1] # Number!Minus
  <2>1. Number!SignLength = 0 /\ Number!Unsigned(text) = text
    BY <1>5 DEF Number!SignLength, Number!Unsigned
  <2> QED BY <1>3, <1>5, <2>1
<1> QED BY <1>4, <1>5

\* A digit that is refused makes the number larger than every integer of its sign, unless
\* the digits end with it.
LEMMA TooLargeAt ==
    ASSUME NEW max \in Nat, max >= 10, NEW v \in Nat, NEW d \in 0..9, NEW e \in 0..9,
           NEW last \in BOOLEAN, v >= max \div 10,
           v > max \div 10 \/ ~last \/ d > max % 10
    PROVE  v * 10 + d > max \/ (~last /\ (v * 10 + d) * 10 + e > max)
<1>1. /\ max \div 10 \in Nat /\ max \div 10 >= 1 /\ max % 10 \in 0..9
      /\ max = (max \div 10) * 10 + (max % 10)
  OBVIOUS
<1> DEFINE q == max \div 10
           r == max % 10
<1>2. q \in Nat /\ q >= 1 /\ r \in 0..9 /\ max = q * 10 + r /\ v >= q
      /\ (v > q \/ ~last \/ d > r)
  BY <1>1
<1> HIDE DEF q, r
<1>3. CASE v > q
  BY <1>2, <1>3
<1>4. CASE d > r
  BY <1>2, <1>4
<1>5. CASE ~last
  <2>1. (v * 10 + d) * 10 + e > max
    BY <1>2
  <2> QED BY <1>5, <2>1
<1> QED BY <1>2, <1>3, <1>4, <1>5

\* While decodeNumber runs: the digits so far are those of the token, and value is their
\* number; when it gives up, the next character is not a digit, or is one too many.
Decoding ==
    /\ n_pc \in {"decode", "done"} =>
          /\ (negative <=> text[1] = Number!Minus)
          /\ pos \in Number!SignLength..Len(text)
          /\ \A i \in (Number!SignLength + 1)..pos : Number!IsDigit(text[i])
          /\ exact = Number!Prefixes(Number!Unsigned(text))[pos - Number!SignLength]
    /\ n_pc \in Number!Phases => exact = 0
    /\ n_pc = "done" =>
          \/ /\ pos = Len(text) /\ kind \in {"int", "uint"} /\ value <= Number!MaxIntegerValue
             /\ decoded = IF negative THEN -value ELSE value
          \/ /\ pos < Len(text)
             /\ kind = IF Number!IsDouble(text) THEN "double" ELSE "error"
             /\ \/ ~Number!IsDigit(text[pos + 1])
                \/ Number!TooLarge(text[pos + 1] - Number!Zero)

\* The smallest integer is negated without leaving the type, by either reader.
LEMMA NegatedValue ==
    ASSUME Number!TypeOK, negative, value <= Number!MaxIntegerValue
    PROVE  Number!Negated = -value
<1>1. value \in Nat /\ value <= MaxLargestInt + 1 /\ MaxLargestInt \in Nat /\ MaxLargestInt >= 9
      /\ Number!MaxIntegerValue = MaxLargestInt + 1
  BY NumbersAssumption DEF Number!TypeOK, Number!MaxIntegerValue
<1>2. CASE ours
  <2>1. value \div 10 <= MaxLargestInt /\ value \div 10 \in Nat
        /\ value = (value \div 10) * 10 + (value % 10) /\ value % 10 \in 0..9
    BY <1>1
  <2>2. Number!AsLargestInt(value \div 10) = value \div 10
    BY <2>1 DEF Number!AsLargestInt
  <2>3. Number!Negated = -(value \div 10) * 10 - (value % 10)
    BY <1>2, <2>2 DEF Number!Negated
  <2> QED BY <1>1, <2>1, <2>3
<1>3. CASE ~ours
  <2>1. CASE value = MaxLargestInt + 1
    BY <1>1, <1>3, <2>1 DEF Number!Negated, Number!MinLargestInt
  <2>2. CASE value # MaxLargestInt + 1
    <3>1. Number!AsLargestInt(value) = value
      BY <1>1, <2>2 DEF Number!AsLargestInt
    <3> QED BY <1>1, <1>3, <2>2, <3>1 DEF Number!Negated
  <2> QED BY <2>1, <2>2
<1> QED BY <1>2, <1>3

LEMMA DecodingDigit ==
    ASSUME Number!TypeOK, Number!TypeOK', Decoding, n_pc = "decode", pos < Len(text),
           Number!IsDigit(text[pos + 1]), pos' = pos + 1,
           exact' = exact * 10 + (text[pos + 1] - Number!Zero),
           UNCHANGED <<n_pc, text, negative>>
    PROVE  Decoding'
<1> DEFINE u == Number!Unsigned(text)
           l == Number!SignLength
<1>1. /\ text \in Seq(Int) /\ Len(text) \in Nat /\ Len(text) > 0 /\ l \in 0..1
      /\ u \in Seq(Int) /\ Len(u) = Len(text) - l
      /\ \A i \in 1..Len(u) : u[i] = text[i + l]
  BY TokenParts
<1>2. /\ (negative <=> text[1] = Number!Minus) /\ pos \in l..Len(text)
      /\ \A i \in (l + 1)..pos : Number!IsDigit(text[i])
      /\ exact = Number!Prefixes(u)[pos - l]
  BY DEF Decoding
<1> HIDE DEF u, l
<1>4. pos + 1 - l \in 1..Len(u) /\ pos - l = (pos + 1 - l) - 1 /\ (pos + 1 - l) + l = pos + 1
  BY <1>1, <1>2
<1>5. Number!Prefixes(u)[pos + 1 - l] =
         Number!Prefixes(u)[pos - l] * 10 + (u[pos + 1 - l] - Number!Zero)
  BY <1>1, <1>4, PrefixesUnfold
<1>6. u[pos + 1 - l] = text[pos + 1]
  BY <1>1, <1>4
<1>7. exact' = Number!Prefixes(u)[pos' - l]
  <2>1. exact' = Number!Prefixes(u)[pos + 1 - l]
    BY <1>2, <1>5, <1>6, Zenon
  <2>2. pos' - l = pos + 1 - l
    BY <1>1, <1>2
  <2> QED BY <2>1, <2>2, Zenon
<1>8. pos' \in l..Len(text)
  BY <1>1, <1>2
<1>9. \A i \in (l + 1)..pos' : Number!IsDigit(text[i])
  <2> TAKE i \in (l + 1)..pos'
  <2>1. i \in (l + 1)..pos \/ i = pos + 1
    BY <1>1, <1>2
  <2> QED BY <1>2, <2>1
<1>10. Number!SignLength' = Number!SignLength /\ text' = text /\ (negative' <=> negative)
  BY DEF Number!SignLength
<1>11. /\ exact' = Number!Prefixes(Number!Unsigned(text'))[pos' - Number!SignLength']
       /\ pos' \in Number!SignLength'..Len(text')
       /\ \A i \in (Number!SignLength' + 1)..pos' : Number!IsDigit(text'[i])
       /\ (negative' <=> text'[1] = Number!Minus)
  BY <1>2, <1>7, <1>8, <1>9, <1>10 DEF u, l
<1> QED BY <1>11 DEF Decoding, Number!Phases

LEMMA DecodingNext ==
    ASSUME Number!TypeOK, Number!TypeOK', LoopInv, Decoding, [Number!Next]_(Number!vars)
    PROVE  Decoding'
<1>1. CASE Number!ReadChar
  <2>1. n_pc \in Number!Phases /\ n_pc' \in Number!Phases /\ exact' = exact
    BY <1>1 DEF Number!ReadChar
  <2> QED BY <2>1 DEF Decoding, Number!Phases
<1>2. CASE Number!EndToken
  <2>1. /\ n_pc' = "decode" /\ text' = text /\ pos' = Number!SignLength /\ exact' = 0
        /\ negative' = (text[1] = Number!Minus)
    BY <1>2 DEF Number!EndToken, Decoding
  <2>2. Number!SignLength' = Number!SignLength
    BY <2>1 DEF Number!SignLength
  <2>3. /\ Len(text) \in Nat /\ Len(text) > 0 /\ Number!SignLength \in 0..1
        /\ Number!Unsigned(text) \in Seq(Int)
    BY TokenParts
  <2>4. Number!Prefixes(Number!Unsigned(text))[0] = 0
    BY <2>3, PrefixesUnfold
  <2>5. pos' - Number!SignLength' = 0 /\ pos' \in Number!SignLength'..Len(text')
        /\ (Number!SignLength' + 1)..pos' = {}
    BY <2>1, <2>2, <2>3
  <2>6. exact' = Number!Prefixes(Number!Unsigned(text'))[pos' - Number!SignLength']
    BY <2>1, <2>4, <2>5
  <2>7. negative' <=> text'[1] = Number!Minus
    BY <2>1
  <2> QED BY <2>1, <2>5, <2>6, <2>7 DEF Decoding, Number!Phases
<1>3. CASE Number!DecodeDigit
  <2>1. n_pc = "decode" /\ pos < Len(text) /\ UNCHANGED <<text, ours, negative>>
    BY <1>3 DEF Number!DecodeDigit
  <2>2. CASE /\ Number!DecodeDouble
             /\ \/ ~Number!IsDigit(text[pos + 1])
                \/ Number!TooLarge(text[pos + 1] - Number!Zero)
    <3>1. /\ n_pc' = "done" /\ UNCHANGED <<pos, value, decoded, exact>>
          /\ kind' = IF Number!IsDouble(text) THEN "double" ELSE "error"
      BY <2>2 DEF Number!DecodeDouble
    <3>2. /\ Number!SignLength' = Number!SignLength
          /\ Number!Unsigned(text') = Number!Unsigned(text)
      BY <2>1 DEF Number!SignLength
    <3>3. Number!TooLarge(text[pos + 1] - Number!Zero)' <=>
             Number!TooLarge(text[pos + 1] - Number!Zero)
      BY <2>1, <3>1 DEF Number!TooLarge, Number!Threshold, Number!LastDigit,
                        Number!MaxIntegerValue
    <3>4. /\ (negative' <=> text'[1] = Number!Minus)
          /\ pos' \in Number!SignLength'..Len(text')
          /\ \A i \in (Number!SignLength' + 1)..pos' : Number!IsDigit(text'[i])
          /\ exact' = Number!Prefixes(Number!Unsigned(text'))[pos' - Number!SignLength']
      BY <2>1, <3>1, <3>2 DEF Decoding
    <3>5. /\ pos' < Len(text')
          /\ kind' = IF Number!IsDouble(text') THEN "double" ELSE "error"
          /\ \/ ~Number!IsDigit(text'[pos' + 1])
             \/ Number!TooLarge(text[pos + 1] - Number!Zero)'
      BY <2>1, <2>2, <3>1, <3>3
    <3> QED BY <3>1, <3>4, <3>5 DEF Decoding, Number!Phases
  <2>3. CASE /\ Number!IsDigit(text[pos + 1]) /\ pos' = pos + 1 /\ n_pc' = n_pc
             /\ exact' = exact * 10 + (text[pos + 1] - Number!Zero)
    BY <2>1, <2>3, DecodingDigit
  <2> QED BY <1>3, <2>2, <2>3 DEF Number!DecodeDigit
<1>4. CASE Number!DecodeInteger
  <2>1. /\ n_pc = "decode" /\ pos = Len(text) /\ n_pc' = "done"
        /\ UNCHANGED <<text, ours, negative, pos, value, exact>>
        /\ kind' \in {"int", "uint"}
        /\ decoded' = IF negative THEN Number!Negated ELSE value
    BY <1>4 DEF Number!DecodeInteger
  <2>2. value <= Number!MaxIntegerValue
    BY <2>1 DEF LoopInv, Number!NoWrap
  <2>3. decoded' = IF negative THEN -value ELSE value
    BY <2>1, <2>2, NegatedValue
  <2>4. Number!MaxIntegerValue' = Number!MaxIntegerValue
        /\ Number!SignLength' = Number!SignLength
    BY <2>1 DEF Number!MaxIntegerValue, Number!SignLength
  <2>5. /\ (negative' <=> text'[1] = Number!Minus)
        /\ pos' \in Number!SignLength'..Len(text')
        /\ \A i \in (Number!SignLength' + 1)..pos' : Number!IsDigit(text'[i])
        /\ exact' = Number!Prefixes(Number!Unsigned(text'))[pos' - Number!SignLength']
    BY <2>1, <2>4 DEF Decoding
  <2>6. /\ pos' = Len(text') /\ kind' \in {"int", "uint"} /\ value' <= Number!MaxIntegerValue'
        /\ decoded' = IF negative' THEN -value' ELSE value'
    BY <2>1, <2>2, <2>3, <2>4
  <2> QED BY <2>1, <2>5, <2>6 DEF Decoding, Number!Phases
<1>5. CASE UNCHANGED Number!vars
  <2>1. UNCHANGED <<n_pc, text, ours, negative, pos, value, kind, decoded, exact>>
    BY <1>5 DEF Number!vars
  <2> QED BY <2>1 DEF Decoding, Number!SignLength, Number!MaxIntegerValue, Number!TooLarge,
                      Number!Threshold, Number!LastDigit
<1> QED BY <1>1, <1>2, <1>3, <1>4, <1>5 DEF Number!Next

\* The number of a token, by its sign, against the limits of the integer types.
LEMMA FitsIfNotLarger ==
    ASSUME Number!TypeOK, negative <=> text[1] = Number!Minus,
           NEW m \in Nat, m = Number!Magnitude(Number!Unsigned(text))
    PROVE  /\ Number!Number(text) = (IF negative THEN -m ELSE m)
           /\ (/\ Number!MinLargestInt <= Number!Number(text)
               /\ Number!Number(text) <= Number!MaxLargestUInt)
              <=> m <= Number!MaxIntegerValue
<1>1. Number!Number(text) = (IF negative THEN -m ELSE m)
  BY DEF Number!Number, Number!Unsigned
<1> QED BY <1>1, NumbersAssumption DEF Number!MinLargestInt, Number!MaxLargestUInt,
                                       Number!MaxIntegerValue

\* The digits of an integral token.
LEMMA IntegralDigits ==
    ASSUME Number!TypeOK, Number!Integral(text)
    PROVE  LET u == Number!Unsigned(text)
           IN  /\ \A i \in 1..Len(u) : Number!IsDigit(u[i]) /\ u[i] - Number!Zero \in 0..9
               /\ \A i \in (Number!SignLength + 1)..Len(text) : Number!IsDigit(text[i])
<1> DEFINE u == Number!Unsigned(text)
<1>1. /\ text \in Seq(Int) /\ Len(text) \in Nat /\ Len(text) > 0 /\ Number!SignLength \in 0..1
      /\ u \in Seq(Int) /\ Len(u) = Len(text) - Number!SignLength
      /\ \A i \in 1..Len(u) : u[i] = text[i + Number!SignLength]
  BY TokenParts
<1>2. \A i \in DOMAIN u : Number!IsDigit(u[i])
  BY DEF Number!Integral
<1> HIDE DEF u
<1>3. \A i \in 1..Len(u) : Number!IsDigit(u[i])
  BY <1>1, <1>2
<1>4. \A i \in 1..Len(u) : u[i] - Number!Zero \in 0..9
  <2> TAKE i \in 1..Len(u)
  <2>1. u[i] \in Int /\ Number!IsDigit(u[i])
    BY <1>1, <1>3
  <2> QED BY <2>1 DEF Number!IsDigit, Number!Zero
<1>5. ASSUME NEW i \in (Number!SignLength + 1)..Len(text) PROVE Number!IsDigit(text[i])
  <2>1. i - Number!SignLength \in 1..Len(u) /\ (i - Number!SignLength) + Number!SignLength = i
    BY <1>1
  <2>2. u[i - Number!SignLength] = text[i]
    BY <1>1, <2>1
  <2> QED BY <1>3, <2>1, <2>2
<1> QED BY <1>3, <1>4, <1>5 DEF u

\* A token of digits is a double to operator>>.
LEMMA DigitsAreDouble ==
    ASSUME Number!TypeOK, Number!Integral(text), pos \in Number!SignLength..Len(text),
           pos < Len(text)
    PROVE  Number!IsDouble(text)
<1>1. /\ text \in Seq(Int) /\ Len(text) \in Nat /\ Len(text) > 0 /\ Number!SignLength \in 0..1
      /\ Number!SignLength = (IF text[1] = Number!Minus THEN 1 ELSE 0)
  BY TokenParts
<1>2. \A i \in (Number!SignLength + 1)..Len(text) : Number!IsDigit(text[i])
  BY IntegralDigits
<1>3. \A i \in 1..Len(text) : text[i] # Number!Exponent
  <2> TAKE i \in 1..Len(text)
  <2>1. ~Number!IsDigit(Number!Exponent) /\ Number!Minus # Number!Exponent
    BY DEF Number!IsDigit, Number!Exponent, Number!Zero, Number!Minus
  <2>2. i \in (Number!SignLength + 1)..Len(text) \/ (i = 1 /\ Number!SignLength = 1)
    BY <1>1
  <2> QED BY <1>1, <1>2, <2>1, <2>2
<1>4. pos + 1 \in (Number!SignLength + 1)..Len(text) /\ pos + 1 \in DOMAIN text
      /\ DOMAIN text = 1..Len(text) /\ 1..(pos + 1) \subseteq 1..Len(text)
  BY <1>1
<1>5. Number!IsDigit(text[pos + 1]) /\ \A j \in 1..(pos + 1) : text[j] # Number!Exponent
  BY <1>2, <1>3, <1>4
<1>6. \E i \in DOMAIN text :
         Number!IsDigit(text[i]) /\ \A j \in 1..i : text[j] # Number!Exponent
  BY <1>4, <1>5
<1>7. ~ \E i \in DOMAIN text : text[i] = Number!Exponent
  BY <1>3, <1>4
<1> QED BY <1>6, <1>7 DEF Number!IsDouble

\* When decodeNumber gives up on a token of digits, its number fits no integer.
LEMMA TooLargeToFit ==
    ASSUME Number!TypeOK, Number!NoWrap, Decoding, n_pc = "done", Number!Integral(text),
           pos < Len(text), Number!TooLarge(text[pos + 1] - Number!Zero)
    PROVE  Number!Magnitude(Number!Unsigned(text)) > Number!MaxIntegerValue
<1> DEFINE u == Number!Unsigned(text)
           l == Number!SignLength
           P == Number!Prefixes(u)
           k == pos - l
           max == Number!MaxIntegerValue
<1>1. /\ Len(text) \in Nat /\ l \in 0..1 /\ u \in Seq(Int) /\ Len(u) = Len(text) - l
      /\ \A i \in 1..Len(u) : u[i] = text[i + l]
  BY TokenParts
<1>2. \A i \in 1..Len(u) : u[i] - Number!Zero \in 0..9
  BY IntegralDigits
<1>3. \A i \in 1..Len(u) : P[i] = P[i - 1] * 10 + (u[i] - Number!Zero)
  BY <1>1, PrefixesUnfold
<1>4. \A i \in 0..Len(u) : P[i] \in Nat /\ \A j \in i..Len(u) : P[i] <= P[j]
  BY <1>1, <1>2, PrefixesGrow
<1>5. pos \in l..Len(text) /\ exact = P[k] /\ value = exact
  BY DEF Decoding, Number!NoWrap
<1>6. max \in Nat /\ max >= 10
  BY SameLimits, NumbersAssumption DEF Number!MaxIntegerValue, Number!MaxLargestUInt
<1>7. /\ value >= max \div 10
      /\ \/ value > max \div 10 \/ pos + 1 # Len(text)
         \/ text[pos + 1] - Number!Zero > max % 10
  BY SameLimits DEF Number!TooLarge
<1>8. Number!Magnitude(u) = P[Len(u)]
  BY DEF Number!Magnitude
<1> HIDE DEF u, l, P, max
<1>9. /\ k \in 0..Len(u) /\ k + 1 \in 1..Len(u) /\ (k + 1) + l = pos + 1 /\ (k + 1) - 1 = k
      /\ (pos + 1 # Len(text) <=> k + 1 # Len(u))
      /\ k + 1 \in 0..Len(u) /\ Len(u) \in (k + 1)..Len(u) /\ Len(u) \in Nat
  BY <1>1, <1>5
<1> HIDE DEF k
<1>10. u[k + 1] = text[pos + 1]
  BY <1>1, <1>9
<1>11. /\ P[k + 1] = value * 10 + (u[k + 1] - Number!Zero) /\ u[k + 1] - Number!Zero \in 0..9
       /\ value \in Nat
  <2>1. P[(k + 1) - 1] = value /\ value \in Nat
    BY <1>4, <1>5, <1>9
  <2> QED BY <1>2, <1>3, <1>9, <2>1
<1>12. P[k + 1] \in Nat /\ P[k + 1] <= P[Len(u)] /\ P[Len(u)] \in Nat
  BY <1>4, <1>9
<1>13. CASE k + 1 = Len(u)
  <2>1. P[k + 1] > max
    BY <1>6, <1>7, <1>9, <1>10, <1>11, <1>13, TooLargeAt
  <2> QED BY <1>6, <1>8, <1>12, <2>1 DEF u, max
<1>14. CASE k + 1 # Len(u)
  <2>1. /\ k + 2 \in 1..Len(u) /\ (k + 2) - 1 = k + 1 /\ k + 2 \in 0..Len(u)
        /\ Len(u) \in (k + 2)..Len(u)
    BY <1>9, <1>14
  <2>2. P[k + 2] = P[k + 1] * 10 + (u[k + 2] - Number!Zero) /\ u[k + 2] - Number!Zero \in 0..9
        /\ P[k + 2] \in Nat /\ P[k + 2] <= P[Len(u)]
    BY <1>2, <1>3, <1>4, <2>1
  <2>3. P[k + 1] > max \/ P[k + 2] > max
    BY <1>6, <1>7, <1>10, <1>11, <2>2, TooLargeAt
  <2> QED BY <1>6, <1>8, <1>12, <2>2, <2>3 DEF u, max
<1> QED BY <1>13, <1>14

LEMMA DecodedNumber ==
    ASSUME Number!TypeOK, Number!NoWrap, Decoding
    PROVE  Number!IntegerIfItFits
<1> SUFFICES ASSUME n_pc = "done", Number!Integral(text)
             PROVE  IF /\ Number!MinLargestInt <= Number!Number(text)
                       /\ Number!Number(text) <= Number!MaxLargestUInt
                    THEN kind \in {"int", "uint"} /\ decoded = Number!Number(text)
                    ELSE kind = "double"
  BY DEF Number!IntegerIfItFits
<1> DEFINE u == Number!Unsigned(text)
           m == Number!Magnitude(u)
<1>1. /\ Len(text) \in Nat /\ Number!SignLength \in 0..1 /\ u \in Seq(Int)
      /\ Len(u) = Len(text) - Number!SignLength
  BY TokenParts
<1>2. /\ (negative <=> text[1] = Number!Minus) /\ pos \in Number!SignLength..Len(text)
      /\ exact = Number!Prefixes(u)[pos - Number!SignLength] /\ value = exact
  BY DEF Decoding, Number!NoWrap
<1>3. m = Number!Prefixes(u)[Len(u)]
  BY DEF Number!Magnitude
<1>4. m \in Nat
  <2>1. \A i \in 1..Len(u) : u[i] - Number!Zero \in 0..9
    BY IntegralDigits
  <2>2. Len(u) \in 0..Len(u)
    BY <1>1
  <2> QED BY <1>1, <1>3, <2>1, <2>2, PrefixesGrow
<1> HIDE DEF m
<1>5. /\ Number!Number(text) = (IF negative THEN -m ELSE m)
      /\ (/\ Number!MinLargestInt <= Number!Number(text)
          /\ Number!Number(text) <= Number!MaxLargestUInt)
         <=> m <= Number!MaxIntegerValue
  BY <1>2, <1>4, FitsIfNotLarger DEF m
<1>6. CASE /\ pos = Len(text) /\ kind \in {"int", "uint"} /\ value <= Number!MaxIntegerValue
           /\ decoded = IF negative THEN -value ELSE value
  <2>1. pos - Number!SignLength = Len(u)
    BY <1>1, <1>6
  <2>2. value = m
    BY <1>2, <1>3, <2>1
  <2> QED BY <1>5, <1>6, <2>2
<1>7. CASE /\ pos < Len(text)
           /\ kind = IF Number!IsDouble(text) THEN "double" ELSE "error"
           /\ \/ ~Number!IsDigit(text[pos + 1])
              \/ Number!TooLarge(text[pos + 1] - Number!Zero)
  <2>1. Number!IsDouble(text)
    BY <1>2, <1>7, DigitsAreDouble
  <2>2. Number!IsDigit(text[pos + 1])
    <3>1. pos + 1 \in (Number!SignLength + 1)..Len(text)
      BY <1>1, <1>2, <1>7
    <3> QED BY <3>1, IntegralDigits
  <2>3. m > Number!MaxIntegerValue
    BY <1>7, <2>2, TooLargeToFit DEF m
  <2>4. Number!MaxIntegerValue \in Nat
    BY SameLimits
  <2>5. ~(m <= Number!MaxIntegerValue)
    BY <1>4, <2>3, <2>4
  <2> QED BY <1>5, <1>7, <2>1, <2>5
<1> QED BY <1>6, <1>7 DEF Decoding

\* decodeNumber of either reader, for integer types of every width and tokens of every
\* length: an integral token becomes exactly its integer if that fits, the smallest one
\* included, and a double otherwise.
THEOREM IntegersExact == Number!Spec => []IntegerIfItFits
<1>1. Number!Init => LoopInv /\ Decoding
  BY DEF Number!Init, Number!NoWrap, LoopInv, Decoding, Number!Phases
<1>2. Number!TypeOK /\ Number!TypeOK' /\ LoopInv /\ Decoding /\ [Number!Next]_(Number!vars)
      => Decoding'
  BY DecodingNext
<1>3. Number!TypeOK /\ LoopInv /\ Decoding => IntegerIfItFits
  BY DecodedNumber DEF LoopInv, IntegerIfItFits
<1> QED BY <1>1, <1>2, <1>3, NumberTypes, LoopKept, PTL DEF Number!Spec

------------------------------------------------------------------------------
(* The arrays of Json::Value *)

\* A bounded set of naturals that is not empty has a largest element.
LEMMA Largest ==
    ASSUME NEW b \in Nat, NEW S \in SUBSET (0..b), S # {}
    PROVE  \E n \in S : \A m \in S : n >= m
<1> DEFINE T == {b - n : n \in S}
<1>1. T \in SUBSET Nat /\ T # {}
  <2>1. ASSUME NEW n \in S PROVE b - n \in Nat
    <3>1. n \in 0..b
      OBVIOUS
    <3> QED
      BY <3>1
  <2>2. PICK n : n \in S
    OBVIOUS
  <2>3. b - n \in T
    BY <2>2
  <2> QED
    BY <2>1, <2>3
<1>2. PICK t \in T : \A u \in T : t <= u
  <2> HIDE DEF T
  <2> QED
    BY <1>1, Least
<1>3. PICK n \in S : t = b - n
  BY <1>2
<1>4. ASSUME NEW m \in S PROVE n >= m
  <2>1. b - n <= b - m
    BY <1>2, <1>3
  <2> QED
    BY <2>1
<1> QED
  BY <1>4

Indexes == 0..(MaxSize - 1)

\* size() is one more than the highest index.
LEMMA SizeOfMap ==
    ASSUME NEW m, DOMAIN m \subseteq Indexes
    PROVE  /\ Container!SizeOf(m) \in 0..MaxSize
           /\ \A k \in DOMAIN m : k < Container!SizeOf(m)
           /\ DOMAIN m # {} => Container!SizeOf(m) - 1 \in DOMAIN m
           /\ DOMAIN m = {} => Container!SizeOf(m) = 0
<1>1. CASE DOMAIN m = {}
  BY <1>1, ArraysAssumption DEF Container!SizeOf
<1>2. CASE DOMAIN m # {}
  <2>1. DOMAIN m \in SUBSET (0..MaxSize)
    BY ArraysAssumption DEF Indexes
  <2>2. \E n \in DOMAIN m : \A k \in DOMAIN m : n >= k
    BY <1>2, <2>1, ArraysAssumption, Largest
  <2> DEFINE n == Container!Max(DOMAIN m)
  <2>3. n \in DOMAIN m /\ \A k \in DOMAIN m : n >= k
    BY <2>2 DEF Container!Max
  <2>4. Container!SizeOf(m) = n + 1
    BY <1>2 DEF Container!SizeOf
  <2> HIDE DEF n
  <2>5. \A k \in DOMAIN m : k \in Indexes
    OBVIOUS
  <2> QED
    BY <1>2, <2>3, <2>4, <2>5, ArraysAssumption DEF Indexes
<1> QED
  BY <1>1, <1>2

\* A map without holes has as many entries as its size.
LEMMA SizeOfWhole ==
    ASSUME NEW m, NEW n \in 0..MaxSize, DOMAIN m = 0..(n - 1)
    PROVE  DOMAIN m \subseteq Indexes /\ Container!SizeOf(m) = n
<1>1. DOMAIN m \subseteq Indexes
  BY ArraysAssumption DEF Indexes
<1>2. /\ Container!SizeOf(m) \in 0..MaxSize
      /\ \A k \in DOMAIN m : k < Container!SizeOf(m)
      /\ DOMAIN m # {} => Container!SizeOf(m) - 1 \in DOMAIN m
      /\ DOMAIN m = {} => Container!SizeOf(m) = 0
  BY <1>1, SizeOfMap
<1>3. CASE n = 0
  <2>1. 0..(n - 1) = {}
    BY <1>3
  <2> QED
    BY <1>1, <1>2, <1>3, <2>1
<1>4. CASE n > 0
  <2>1. n - 1 \in DOMAIN m
    BY <1>4
  <2>2. n - 1 < Container!SizeOf(m) /\ Container!SizeOf(m) - 1 \in 0..(n - 1)
    BY <1>2, <2>1
  <2>3. Container!SizeOf(m) \in Int
    BY <1>2
  <2> QED
    BY <1>1, <2>2, <2>3
<1> QED
  BY <1>3, <1>4

\* The list of the elements of a map, null where there is a hole
ListOf(m) == [j \in 1..Container!SizeOf(m) |-> Container!At(m, j - 1)]

LEMMA ListIsSeq ==
    ASSUME NEW m, DOMAIN m \subseteq Indexes, \A k \in DOMAIN m : m[k] \in Container!Contents
    PROVE  /\ ListOf(m) \in Seq(Container!Contents)
           /\ Len(ListOf(m)) = Container!SizeOf(m)
           /\ DOMAIN ListOf(m) = 1..Container!SizeOf(m)
           /\ \A j \in 1..Container!SizeOf(m) : ListOf(m)[j] = Container!At(m, j - 1)
<1> DEFINE n == Container!SizeOf(m)
<1>1. n \in Nat
  BY SizeOfMap, ArraysAssumption
<1>2. \A k : Container!At(m, k) \in Container!Contents
  BY DEF Container!At, Container!Contents
<1> HIDE DEF n
<1>3. ListOf(m) \in [1..n -> Container!Contents]
  BY <1>2 DEF ListOf, n
<1>4. ListOf(m) \in Seq(Container!Contents)
  BY <1>1, <1>3, SeqDef
<1>5. Len(ListOf(m)) = n
  BY <1>1, <1>3, <1>4, LenProperties
<1> QED
  BY <1>3, <1>4, <1>5 DEF ListOf, n

\* The inductive invariant: an array that is indexed at its end or before it has no hole.
ArrayInv ==
    /\ Container!TypeOK
    /\ dense /\ type # "object" => DOMAIN map = 0..(Container!SizeOf(map) - 1)
    /\ dense /\ call.op = "resize" => live

LEMMA ArrayMap ==
    ASSUME ArrayInv, type # "object"
    PROVE  /\ DOMAIN map \subseteq Indexes
           /\ \A k \in DOMAIN map : map[k] \in Container!Contents
           /\ Container!Size = Container!SizeOf(map)
           /\ Container!List = ListOf(map)
BY DEF ArrayInv, Container!TypeOK, Container!Size, Container!List, ListOf, Indexes

\* What a step on an array has to show
LEMMA ArrayKept ==
    ASSUME type' = "array", live' \in BOOLEAN, dense' = dense, dense \in BOOLEAN,
           DOMAIN map' \subseteq Indexes,
           \A k \in DOMAIN map' : map'[k] \in Container!Contents,
           dense => \E n \in 0..MaxSize : DOMAIN map' = 0..(n - 1),
           dense /\ call'.op = "resize" => live'
    PROVE  /\ ArrayInv'
           /\ Container!List' = ListOf(map')
<1>1. dense => DOMAIN map' = 0..(Container!SizeOf(map') - 1)
  BY SizeOfWhole
<1>2. Container!TypeOK'
  BY DEF Container!TypeOK, Indexes
<1>3. ArrayInv'
  BY <1>1, <1>2 DEF ArrayInv
<1> QED
  BY <1>3 DEF Container!List, ListOf

\* Insertion into a list and removal from it, position by position
LEMMA Inserted ==
    ASSUME NEW S, NEW s \in Seq(S), NEW i \in 0..Len(s), NEW v \in S, NEW t \in Seq(S),
           Len(t) = Len(s) + 1,
           \A j \in 1..Len(t) :
              t[j] = IF j < i + 1 THEN s[j] ELSE IF j = i + 1 THEN v ELSE s[j - 1]
    PROVE  t = L!Inserted(s, i, v)
<1> DEFINE front == SubSeq(s, 1, i)
           back == SubSeq(s, i + 1, Len(s))
           head == front \o <<v>>
           whole == head \o back
<1>0. Len(s) \in Nat /\ i \in Nat /\ i <= Len(s)
  BY LenProperties
<1>1. front \in Seq(S) /\ Len(front) = i /\ \A j \in 1..i : front[j] = s[j]
  BY <1>0, SubSeqProperties
<1>2. /\ back \in Seq(S) /\ Len(back) = Len(s) - i
      /\ \A j \in 1..(Len(s) - i) : back[j] = s[i + j]
  BY <1>0, SubSeqProperties
<1>3. <<v>> \in Seq(S) /\ Len(<<v>>) = 1 /\ <<v>>[1] = v
  OBVIOUS
<1>4. L!Inserted(s, i, v) = whole
  BY DEF L!Inserted
<1> HIDE DEF front, back
<1>5. /\ head \in Seq(S) /\ Len(head) = i + 1
      /\ \A j \in 1..i : head[j] = s[j]
      /\ head[i + 1] = v
  <2>1. /\ head \in Seq(S) /\ Len(head) = Len(front) + 1
        /\ \A j \in 1..(Len(front) + 1) :
              head[j] = IF j <= Len(front) THEN front[j] ELSE <<v>>[j - Len(front)]
    BY <1>1, <1>3, ConcatProperties
  <2>2. ASSUME NEW j \in 1..i PROVE head[j] = s[j]
    BY <1>0, <1>1, <2>1
  <2>3. head[i + 1] = v
    <3>1. (i + 1) - Len(front) = 1 /\ ~(i + 1 <= Len(front)) /\ i + 1 \in 1..(Len(front) + 1)
      BY <1>0, <1>1
    <3> QED
      BY <1>3, <2>1, <3>1
  <2> QED
    BY <1>1, <2>1, <2>2, <2>3
<1> HIDE DEF head
<1>6. /\ whole \in Seq(S) /\ Len(whole) = Len(s) + 1
      /\ \A j \in 1..(Len(s) + 1) : whole[j] = IF j <= i + 1 THEN head[j] ELSE back[j - (i + 1)]
  <2>1. /\ whole \in Seq(S) /\ Len(whole) = Len(head) + Len(back)
        /\ \A j \in 1..(Len(head) + Len(back)) :
              whole[j] = IF j <= Len(head) THEN head[j] ELSE back[j - Len(head)]
    BY <1>2, <1>5, ConcatProperties
  <2>2. Len(head) + Len(back) = Len(s) + 1
    BY <1>0, <1>2, <1>5
  <2> QED
    BY <1>5, <2>1, <2>2
<1> HIDE DEF whole
<1>7. ASSUME NEW j \in 1..Len(t) PROVE t[j] = whole[j]
  <2>0. j \in 1..(Len(s) + 1) /\ j \in Int
    BY <1>0
  <2>1. CASE j < i + 1
    <3>1. j \in 1..i
      BY <1>0, <2>0, <2>1
    <3>2. whole[j] = s[j]
      BY <1>0, <1>5, <1>6, <2>0, <3>1
    <3> QED
      BY <2>1, <3>2
  <2>2. CASE j = i + 1
    <3>1. whole[j] = v
      BY <1>0, <1>5, <1>6, <2>0, <2>2
    <3>2. ~(j < i + 1)
      BY <1>0, <2>2
    <3> QED
      BY <2>2, <3>1, <3>2
  <2>3. CASE j > i + 1
    <3>1. j - (i + 1) \in 1..(Len(s) - i) /\ i + (j - (i + 1)) = j - 1
      BY <1>0, <2>0, <2>3
    <3>2. back[j - (i + 1)] = s[j - 1]
      BY <1>2, <3>1
    <3>3. ~(j <= i + 1) /\ ~(j < i + 1) /\ j # i + 1
      BY <1>0, <2>0, <2>3
    <3>4. whole[j] = s[j - 1]
      BY <1>6, <2>0, <3>2, <3>3
    <3> QED
      BY <3>3, <3>4
  <2> QED
    BY <1>0, <2>0, <2>1, <2>2, <2>3
<1> QED
  BY <1>4, <1>6, <1>7, SeqEqual

LEMMA Removed ==
    ASSUME NEW S, NEW s \in Seq(S), NEW i \in 1..Len(s), NEW t \in Seq(S),
           Len(t) = Len(s) - 1,
           \A j \in 1..Len(t) : t[j] = IF j < i THEN s[j] ELSE s[j + 1]
    PROVE  t = L!Removed(s, i)
<1> DEFINE front == SubSeq(s, 1, i - 1)
           back == SubSeq(s, i + 1, Len(s))
           whole == front \o back
<1>0. Len(s) \in Nat /\ i \in Nat /\ 1 <= i /\ i <= Len(s)
  BY LenProperties
<1>1. front \in Seq(S) /\ Len(front) = i - 1 /\ \A j \in 1..(i - 1) : front[j] = s[j]
  BY <1>0, SubSeqProperties
<1>2. /\ back \in Seq(S) /\ Len(back) = Len(s) - i
      /\ \A j \in 1..(Len(s) - i) : back[j] = s[i + j]
  BY <1>0, SubSeqProperties
<1>3. L!Removed(s, i) = whole
  BY DEF L!Removed
<1> HIDE DEF front, back
<1>4. /\ whole \in Seq(S) /\ Len(whole) = Len(s) - 1
      /\ \A j \in 1..(Len(s) - 1) : whole[j] = IF j <= i - 1 THEN front[j] ELSE back[j - (i - 1)]
  <2>1. /\ whole \in Seq(S) /\ Len(whole) = Len(front) + Len(back)
        /\ \A j \in 1..(Len(front) + Len(back)) :
              whole[j] = IF j <= Len(front) THEN front[j] ELSE back[j - Len(front)]
    BY <1>1, <1>2, ConcatProperties
  <2> QED
    BY <1>0, <1>1, <1>2, <2>1
<1> HIDE DEF whole
<1>5. ASSUME NEW j \in 1..Len(t) PROVE t[j] = whole[j]
  <2>0. j \in 1..(Len(s) - 1) /\ j \in Int
    BY <1>0
  <2>1. CASE j < i
    <3>1. j \in 1..(i - 1) /\ j <= i - 1
      BY <1>0, <2>0, <2>1
    <3>2. whole[j] = s[j]
      BY <1>1, <1>4, <2>0, <3>1
    <3> QED
      BY <2>1, <3>2
  <2>2. CASE j >= i
    <3>1. j - (i - 1) \in 1..(Len(s) - i) /\ i + (j - (i - 1)) = j + 1
      BY <1>0, <2>0, <2>2
    <3>2. back[j - (i - 1)] = s[j + 1]
      BY <1>2, <3>1
    <3>3. ~(j <= i - 1) /\ ~(j < i)
      BY <1>0, <2>0, <2>2
    <3>4. whole[j] = s[j + 1]
      BY <1>4, <2>0, <3>2, <3>3
    <3> QED
      BY <3>3, <3>4
  <2> QED
    BY <1>0, <2>0, <2>1, <2>2
<1> QED
  BY <1>3, <1>4, <1>5, SeqEqual

\* A step as ImplementsList has it
ListStep ==
    /\ dense => UNCHANGED Container!List \/ L!Next
    /\ Container!OthersKept

\* The lists before and after a step on an array
LEMMA ArrayLists ==
    ASSUME ArrayInv, type # "object",
           DOMAIN map' \subseteq Indexes, \A k \in DOMAIN map' : map'[k] \in Container!Contents
    PROVE  /\ Container!List = ListOf(map) /\ ListOf(map) \in Seq(Container!Contents)
           /\ Len(ListOf(map)) = Container!SizeOf(map)
           /\ DOMAIN ListOf(map) = 1..Container!SizeOf(map)
           /\ \A j \in 1..Container!SizeOf(map) : ListOf(map)[j] = Container!At(map, j - 1)
           /\ ListOf(map') \in Seq(Container!Contents)
           /\ Len(ListOf(map')) = Container!SizeOf(map')
           /\ DOMAIN ListOf(map') = 1..Container!SizeOf(map')
           /\ \A j \in 1..Container!SizeOf(map') : ListOf(map')[j] = Container!At(map', j - 1)
<1>1. /\ DOMAIN map \subseteq Indexes
      /\ \A k \in DOMAIN map : map[k] \in Container!Contents
      /\ Container!List = ListOf(map)
  BY ArrayMap
<1>2. /\ ListOf(map) \in Seq(Container!Contents)
      /\ Len(ListOf(map)) = Container!SizeOf(map)
      /\ DOMAIN ListOf(map) = 1..Container!SizeOf(map)
      /\ \A j \in 1..Container!SizeOf(map) : ListOf(map)[j] = Container!At(map, j - 1)
  BY <1>1, ListIsSeq
<1>3. /\ ListOf(map') \in Seq(Container!Contents)
      /\ Len(ListOf(map')) = Container!SizeOf(map')
      /\ DOMAIN ListOf(map') = 1..Container!SizeOf(map')
      /\ \A j \in 1..Container!SizeOf(map') : ListOf(map')[j] = Container!At(map', j - 1)
  BY ListIsSeq
<1> QED
  BY <1>1, <1>2, <1>3

\* Where the array has no hole, so that size() is the number of its elements
LEMMA DenseMap ==
    ASSUME ArrayInv, type # "object", dense
    PROVE  /\ Container!SizeOf(map) \in 0..MaxSize /\ Container!SizeOf(map) \in Nat
           /\ DOMAIN map = 0..(Container!SizeOf(map) - 1)
<1>1. DOMAIN map \subseteq Indexes
  BY ArrayMap
<1>2. Container!SizeOf(map) \in 0..MaxSize
  BY <1>1, SizeOfMap
<1> QED
  BY <1>2, ArraysAssumption DEF ArrayInv

\* (*this)[i] = v
LEMMA SetElementStep ==
    ASSUME ArrayInv, Container!SetElement PROVE ArrayInv' /\ ListStep
<1>0. type # "object" /\ dense \in BOOLEAN /\ MaxSize \in Nat
  BY ArraysAssumption
     DEF Container!SetElement, Container!Requires, ArrayInv, Container!TypeOK
<1>1. PICK i \in Indexes, v \in Container!Contents :
         /\ dense => i <= Container!Size
         /\ type' = "array" /\ map' = Container!With(map, i, v) /\ live' = TRUE
         /\ call' = [op |-> "set", key |-> i] /\ dense' = dense
  BY DEF Container!SetElement, Container!Becomes, Container!Called, Indexes
<1>2. /\ DOMAIN map \subseteq Indexes /\ Container!Size = Container!SizeOf(map)
      /\ \A k \in DOMAIN map : map[k] \in Container!Contents
  BY <1>0, ArrayMap
<1>3. /\ DOMAIN map' = DOMAIN map \cup {i} /\ map'[i] = v
      /\ \A k \in DOMAIN map \ {i} : map'[k] = map[k]
  BY <1>1 DEF Container!With
<1>4. DOMAIN map' \subseteq Indexes /\ \A k \in DOMAIN map' : map'[k] \in Container!Contents
  BY <1>2, <1>3
<1> DEFINE n == Container!SizeOf(map)
           top == IF n >= i + 1 THEN n ELSE i + 1
<1>5. dense => /\ n \in 0..MaxSize /\ n \in Nat /\ DOMAIN map = 0..(n - 1)
               /\ i <= n /\ i \in Nat /\ i < MaxSize
  BY <1>0, <1>1, <1>2, DenseMap DEF Indexes
<1> HIDE DEF n
<1>6. dense => top \in 0..MaxSize /\ DOMAIN map' = 0..(top - 1)
  BY <1>0, <1>3, <1>5
<1> HIDE DEF top
<1>7. ArrayInv' /\ Container!List' = ListOf(map')
  <2>1. dense => \E t \in 0..MaxSize : DOMAIN map' = 0..(t - 1)
    BY <1>6
  <2>2. call'.op # "resize" /\ live' \in BOOLEAN
    BY <1>1
  <2> QED
    BY <1>0, <1>1, <1>4, <2>1, <2>2, ArrayKept
<1>8. ASSUME dense PROVE L!Put
  <2>1. Container!SizeOf(map') = top
    BY <1>6, <1>8, SizeOfWhole
  <2>2. /\ Container!List = ListOf(map)
        /\ Len(ListOf(map)) = n /\ DOMAIN ListOf(map) = 1..n
        /\ \A j \in 1..n : ListOf(map)[j] = Container!At(map, j - 1)
        /\ DOMAIN ListOf(map') = 1..top
        /\ \A j \in 1..top : ListOf(map')[j] = Container!At(map', j - 1)
    BY <1>0, <1>4, <2>1, ArrayLists DEF n
  <2> DEFINE s == ListOf(map)
             padded == [j \in 1..top |-> IF j \in 1..n THEN s[j] ELSE NullValue]
  <2>3. L!Padded(L!Larger(Len(s), i + 1)) = padded
    BY <2>2 DEF L!Padded, L!Larger, top
  <2>4. /\ i + 1 \in 1..top /\ top \in Nat
    BY <1>5, <1>6, <1>8 DEF top
  <2>5. DOMAIN [padded EXCEPT ![i + 1] = v] = 1..top
    OBVIOUS
  <2>6. ASSUME NEW j \in 1..top PROVE ListOf(map')[j] = [padded EXCEPT ![i + 1] = v][j]
    <3>1. ListOf(map')[j] = Container!At(map', j - 1)
      BY <2>2
    <3>2. j - 1 \in DOMAIN map' /\ j \in Int
      BY <1>6, <1>8, <2>4
    <3>3. ListOf(map')[j] = map'[j - 1]
      BY <3>1, <3>2 DEF Container!At
    <3>4. CASE j = i + 1
      <4>1. j - 1 = i
        BY <1>5, <1>8, <3>4
      <4> QED
        BY <1>3, <2>4, <3>3, <3>4, <4>1
    <3>5. CASE j # i + 1
      <4>1. j - 1 # i /\ j - 1 \in DOMAIN map
        BY <1>3, <1>5, <1>8, <3>2, <3>5
      <4>2. j \in 1..n
        BY <1>5, <1>8, <3>2, <4>1
      <4>3. ListOf(map')[j] = map[j - 1] /\ s[j] = map[j - 1]
        BY <1>3, <2>2, <3>3, <4>1, <4>2 DEF Container!At
      <4> QED
        BY <2>4, <3>5, <4>2, <4>3
    <3> QED
      BY <3>4, <3>5
  <2>7. ListOf(map') = [padded EXCEPT ![i + 1] = v]
    <3>1. ListOf(map') = [j \in 1..top |-> ListOf(map')[j]]
      BY <2>1 DEF ListOf
    <3>2. [padded EXCEPT ![i + 1] = v] = [j \in 1..top |-> [padded EXCEPT ![i + 1] = v][j]]
      OBVIOUS
    <3> HIDE DEF padded
    <3> QED
      BY <2>6, <3>1, <3>2
  <2>8. Container!List' = [L!Padded(L!Larger(Len(Container!List), i + 1)) EXCEPT ![i + 1] = v]
    BY <1>7, <2>2, <2>3, <2>7
  <2> QED
    BY <1>1, <2>8 DEF L!Put, Indexes, Container!Contents
<1> QED
  BY <1>0, <1>7, <1>8 DEF ListStep, L!Next, Container!OthersKept

\* append
LEMMA AddStep ==
    ASSUME ArrayInv, Container!Add PROVE ArrayInv' /\ ListStep
<1>0. type # "object" /\ dense \in BOOLEAN /\ MaxSize \in Nat
  BY ArraysAssumption DEF Container!Add, Container!Requires, ArrayInv, Container!TypeOK
<1>1. /\ DOMAIN map \subseteq Indexes /\ Container!Size = Container!SizeOf(map)
      /\ \A k \in DOMAIN map : map[k] \in Container!Contents
  BY <1>0, ArrayMap
<1> DEFINE n == Container!SizeOf(map)
<1>2. PICK v \in Container!Contents :
         /\ type' = "array" /\ map' = Container!With(map, n, v) /\ live' = TRUE
         /\ call' = [op |-> "append", key |-> n] /\ dense' = dense
  BY <1>1 DEF Container!Add, Container!Becomes, Container!Called
<1>3. n \in 0..MaxSize /\ n < MaxSize /\ n \in Indexes /\ n \in Nat /\ n \notin DOMAIN map
  <2>1. n < MaxSize
    BY <1>1 DEF Container!Add
  <2>2. n \in 0..MaxSize /\ \A k \in DOMAIN map : k < n
    BY <1>1, SizeOfMap
  <2> QED
    BY <1>0, <2>1, <2>2 DEF Indexes
<1> HIDE DEF n
<1>4. /\ DOMAIN map' = DOMAIN map \cup {n} /\ map'[n] = v
      /\ \A k \in DOMAIN map : map'[k] = map[k]
  BY <1>2, <1>3 DEF Container!With
<1>5. DOMAIN map' \subseteq Indexes /\ \A k \in DOMAIN map' : map'[k] \in Container!Contents
  BY <1>1, <1>3, <1>4
<1>6. dense => DOMAIN map = 0..(n - 1)
  BY <1>0, DenseMap DEF n
<1>7. dense => n + 1 \in 0..MaxSize /\ DOMAIN map' = 0..((n + 1) - 1)
  BY <1>0, <1>3, <1>4, <1>6
<1>8. ArrayInv' /\ Container!List' = ListOf(map')
  <2>1. dense => \E t \in 0..MaxSize : DOMAIN map' = 0..(t - 1)
    BY <1>7
  <2>2. call'.op # "resize" /\ live' \in BOOLEAN
    BY <1>2
  <2> QED
    BY <1>0, <1>2, <1>5, <2>1, <2>2, ArrayKept
<1>9. ASSUME dense PROVE L!Add
  <2> DEFINE s == ListOf(map)
             t == ListOf(map')
  <2>1. Container!SizeOf(map') = n + 1
    BY <1>7, <1>9, SizeOfWhole
  <2>2. /\ Container!List = s /\ s \in Seq(Container!Contents) /\ Len(s) = n
        /\ \A j \in 1..n : s[j] = Container!At(map, j - 1)
        /\ t \in Seq(Container!Contents) /\ Len(t) = n + 1
        /\ \A j \in 1..(n + 1) : t[j] = Container!At(map', j - 1)
    BY <1>0, <1>5, <2>1, ArrayLists DEF n
  <2> HIDE DEF s, t
  <2>3. /\ Append(s, v) \in Seq(Container!Contents) /\ Len(Append(s, v)) = n + 1
        /\ \A j \in 1..n : Append(s, v)[j] = s[j]
        /\ Append(s, v)[n + 1] = v
    BY <2>2, AppendProperties
  <2>4. ASSUME NEW j \in 1..(n + 1) PROVE t[j] = Append(s, v)[j]
    <3>1. CASE j = n + 1
      <4>1. j - 1 = n
        BY <1>3, <3>1
      <4> QED
        BY <1>4, <2>2, <2>3, <3>1, <4>1 DEF Container!At
    <3>2. CASE j # n + 1
      <4>1. j \in 1..n /\ j - 1 \in DOMAIN map
        BY <1>3, <1>6, <1>9, <3>2
      <4> QED
        BY <1>4, <2>2, <2>3, <4>1 DEF Container!At
    <3> QED
      BY <3>1, <3>2
  <2>5. t = Append(s, v)
    BY <2>2, <2>3, <2>4, SeqEqual
  <2>6. Container!List' = Append(Container!List, v) /\ Len(Container!List) < MaxSize
    BY <1>3, <1>8, <2>2, <2>5 DEF t
  <2> QED
    BY <1>2, <2>6 DEF L!Add, Container!Contents
<1> QED
  BY <1>0, <1>8, <1>9 DEF ListStep, L!Next, Container!OthersKept

\* A call that leaves the Value as it is, or ends the program
LEMMA IdleStep ==
    ASSUME ArrayInv, type' = type, map' = map, dense' = dense, live' \in {live, FALSE},
           call'.op # "resize"
    PROVE  ArrayInv' /\ ListStep
<1>1. Container!TypeOK'
  BY DEF ArrayInv, Container!TypeOK
<1>2. ArrayInv'
  BY <1>1 DEF ArrayInv
<1>3. Container!List' = Container!List
  BY DEF Container!List
<1>4. Container!OthersKept
  BY DEF Container!OthersKept
<1> QED
  BY <1>2, <1>3, <1>4 DEF ListStep

\* insert
LEMMA InsertStep ==
    ASSUME ArrayInv, Container!Insert PROVE ArrayInv' /\ ListStep
<1>0. type # "object" /\ dense \in BOOLEAN /\ MaxSize \in Nat
  BY ArraysAssumption DEF Container!Insert, Container!Requires, ArrayInv, Container!TypeOK
<1>1. /\ DOMAIN map \subseteq Indexes /\ Container!Size = Container!SizeOf(map)
      /\ \A k \in DOMAIN map : map[k] \in Container!Contents
  BY <1>0, ArrayMap
<1> DEFINE n == Container!SizeOf(map)
<1>2. PICK i \in 0..MaxSize, v \in Container!Contents :
         /\ IF i > n THEN UNCHANGED <<type, map, live>>
            ELSE type' = "array" /\ map' = Container!Shifted(i, v) /\ live' = TRUE
         /\ call' = [op |-> "insert", key |-> i] /\ dense' = dense
  BY <1>1 DEF Container!Insert, Container!Becomes, Container!Called
<1>3. n \in 0..MaxSize /\ n < MaxSize /\ n \in Nat /\ \A k \in DOMAIN map : k < n
  <2>1. n < MaxSize
    BY <1>1 DEF Container!Insert
  <2>2. n \in 0..MaxSize /\ \A k \in DOMAIN map : k < n
    BY <1>1, SizeOfMap
  <2> QED
    BY <1>0, <2>1, <2>2
<1>4. CASE i > n
  <2>1. type' = type /\ map' = map /\ live' = live /\ dense' = dense /\ call'.op # "resize"
    BY <1>2, <1>4
  <2> QED
    BY <2>1, IdleStep
<1>5. CASE ~(i > n)
  <2>1. map' = [k \in DOMAIN map \cup i..n |->
                  IF k < i THEN map[k] ELSE IF k = i THEN v ELSE Container!At(map, k - 1)]
    BY <1>2, <1>5 DEF Container!Shifted
  <2> HIDE DEF n
  <2>2. i \in Nat /\ i <= n
    BY <1>0, <1>3, <1>5
  <2>3. DOMAIN map' \subseteq Indexes
    <3>1. i..n \subseteq Indexes
      BY <1>0, <1>3, <2>2 DEF Indexes
    <3> QED
      BY <1>1, <2>1, <3>1
  <2>4. ASSUME NEW k \in DOMAIN map' PROVE map'[k] \in Container!Contents
    <3>1. Container!At(map, k - 1) \in Container!Contents
      BY <1>1 DEF Container!At, Container!Contents
    <3>2. k < i => k \in DOMAIN map
      BY <1>3, <2>1, <2>2, <2>3 DEF Indexes
    <3> QED
      BY <1>1, <2>1, <3>1, <3>2
  <2>5. dense => DOMAIN map = 0..(n - 1)
    BY <1>0, DenseMap DEF n
  <2>6. dense => n + 1 \in 0..MaxSize /\ DOMAIN map' = 0..((n + 1) - 1)
    <3>1. DOMAIN map' = DOMAIN map \cup i..n
      BY <2>1
    <3> QED
      BY <1>0, <1>3, <2>2, <2>5, <3>1
  <2>7. type' = "array" /\ live' = TRUE /\ dense' = dense /\ call'.op # "resize"
    BY <1>2, <1>5 DEF n
  <2>8. ArrayInv' /\ Container!List' = ListOf(map')
    <3>1. dense => \E t \in 0..MaxSize : DOMAIN map' = 0..(t - 1)
      BY <2>6
    <3> QED
      BY <1>0, <2>3, <2>4, <2>7, <3>1, ArrayKept
  <2>9. ASSUME dense PROVE L!Insert
    <3> DEFINE s == ListOf(map)
               t == ListOf(map')
    <3>1. Container!SizeOf(map') = n + 1
      BY <2>6, <2>9, SizeOfWhole
    <3>2. /\ Container!List = s /\ s \in Seq(Container!Contents) /\ Len(s) = n
          /\ \A j \in 1..n : s[j] = Container!At(map, j - 1)
          /\ t \in Seq(Container!Contents) /\ Len(t) = n + 1
          /\ \A j \in 1..(n + 1) : t[j] = Container!At(map', j - 1)
      BY <1>0, <2>3, <2>4, <3>1, ArrayLists DEF n
    <3> HIDE DEF s, t
    <3>3. ASSUME NEW j \in 1..(n + 1)
          PROVE  t[j] = IF j < i + 1 THEN s[j] ELSE IF j = i + 1 THEN v ELSE s[j - 1]
      <4>1. j \in Int /\ j - 1 \in DOMAIN map' /\ t[j] = map'[j - 1]
        BY <1>3, <2>6, <2>9, <3>2 DEF Container!At
      <4>2. t[j] = IF j - 1 < i THEN map[j - 1]
                   ELSE IF j - 1 = i THEN v ELSE Container!At(map, (j - 1) - 1)
        BY <2>1, <4>1
      <4>3. CASE j < i + 1
        <5>1. j - 1 < i /\ j - 1 \in DOMAIN map /\ j \in 1..n
          BY <1>3, <2>2, <2>5, <2>9, <4>1, <4>3
        <5> QED
          BY <3>2, <4>2, <4>3, <5>1 DEF Container!At
      <4>4. CASE j = i + 1
        <5>1. ~(j < i + 1) /\ ~(j - 1 < i) /\ j - 1 = i
          BY <2>2, <4>4
        <5> QED
          BY <4>2, <4>4, <5>1
      <4>5. CASE j > i + 1
        <5>1. ~(j < i + 1) /\ j # i + 1 /\ ~(j - 1 < i) /\ j - 1 # i /\ j - 1 \in 1..n
          BY <1>3, <2>2, <4>1, <4>5
        <5> QED
          BY <3>2, <4>2, <5>1
      <4> QED
        BY <2>2, <4>1, <4>3, <4>4, <4>5
    <3>4. i \in 0..Len(s) /\ Len(t) = Len(s) + 1
      BY <1>3, <2>2, <3>2
    <3>5. t = L!Inserted(s, i, v)
      <4>1. /\ s \in Seq(Container!Contents) /\ t \in Seq(Container!Contents)
            /\ v \in Container!Contents
        BY <1>3, <3>2 DEF Container!Contents
      <4>2. Len(t) = n + 1
        BY <3>2
      <4>3. \A j \in 1..Len(t) :
               t[j] = IF j < i + 1 THEN s[j] ELSE IF j = i + 1 THEN v ELSE s[j - 1]
        BY <3>3, <4>2
      <4> QED
        BY <3>4, <4>1, <4>3, Inserted
    <3>6. /\ Len(Container!List) < MaxSize /\ i \in 0..Len(Container!List)
          /\ Container!List' = L!Inserted(Container!List, i, v)
      BY <1>3, <2>8, <3>2, <3>4, <3>5 DEF t
    <3> QED
      BY <1>2, <3>6 DEF L!Insert, Container!Contents
  <2> QED
    BY <1>0, <2>8, <2>9 DEF ListStep, L!Next, Container!OthersKept
<1> QED
  BY <1>4, <1>5

\* removeIndex
LEMMA RemoveIndexStep ==
    ASSUME ArrayInv, Container!RemoveIndex PROVE ArrayInv' /\ ListStep
<1>0. dense \in BOOLEAN /\ MaxSize \in Nat
  BY ArraysAssumption DEF ArrayInv, Container!TypeOK
<1>1. PICK i \in Indexes :
         /\ IF type # "array" \/ i \notin DOMAIN map THEN UNCHANGED <<type, map, live>>
            ELSE type' = "array" /\ map' = Container!Closed(i) /\ live' = TRUE
         /\ call' = [op |-> "removeIndex", key |-> i] /\ dense' = dense
  BY DEF Container!RemoveIndex, Container!Becomes, Container!Called, Indexes
<1>2. CASE type # "array" \/ i \notin DOMAIN map
  <2>1. type' = type /\ map' = map /\ live' = live /\ dense' = dense /\ call'.op # "resize"
    BY <1>1, <1>2
  <2> QED
    BY <2>1, IdleStep
<1>3. CASE type = "array" /\ i \in DOMAIN map
  <2>0. /\ DOMAIN map \subseteq Indexes /\ type # "object"
        /\ \A k \in DOMAIN map : map[k] \in Container!Contents
    BY <1>3, ArrayMap
  <2> DEFINE n == Container!SizeOf(map)
  <2>1. map' = [k \in (DOMAIN map \cup i..(n - 2)) \ {n - 1} |->
                  IF k < i THEN map[k] ELSE Container!At(map, k + 1)]
    BY <1>1, <1>3 DEF Container!Closed
  <2>2. n \in 0..MaxSize /\ n \in Nat /\ i \in Nat /\ i < n /\ \A k \in DOMAIN map : k < n
    BY <1>0, <1>3, <2>0, SizeOfMap DEF Indexes
  <2> HIDE DEF n
  <2>3. DOMAIN map' \subseteq Indexes
    <3>1. i..(n - 2) \subseteq Indexes
      BY <1>0, <2>2 DEF Indexes
    <3> QED
      BY <2>0, <2>1, <3>1
  <2>4. ASSUME NEW k \in DOMAIN map' PROVE map'[k] \in Container!Contents
    <3>1. Container!At(map, k + 1) \in Container!Contents
      BY <2>0 DEF Container!At, Container!Contents
    <3>2. k < i => k \in DOMAIN map
      BY <2>1, <2>2, <2>3 DEF Indexes
    <3> QED
      BY <2>0, <2>1, <3>1, <3>2
  <2>5. dense => DOMAIN map = 0..(n - 1)
    BY <2>0, DenseMap DEF n
  <2>6. dense => n - 1 \in 0..MaxSize /\ DOMAIN map' = 0..((n - 1) - 1)
    <3>1. DOMAIN map' = (DOMAIN map \cup i..(n - 2)) \ {n - 1}
      BY <2>1
    <3> QED
      BY <1>0, <2>2, <2>5, <3>1
  <2>7. type' = "array" /\ live' = TRUE /\ dense' = dense /\ call'.op # "resize"
    BY <1>1, <1>3
  <2>8. ArrayInv' /\ Container!List' = ListOf(map')
    <3>1. dense => \E t \in 0..MaxSize : DOMAIN map' = 0..(t - 1)
      BY <2>6
    <3> QED
      BY <1>0, <2>3, <2>4, <2>7, <3>1, ArrayKept
  <2>9. ASSUME dense PROVE L!Erase
    <3> DEFINE s == ListOf(map)
               t == ListOf(map')
    <3>1. Container!SizeOf(map') = n - 1
      BY <2>6, <2>9, SizeOfWhole
    <3>2. /\ Container!List = s /\ s \in Seq(Container!Contents) /\ Len(s) = n
          /\ \A j \in 1..n : s[j] = Container!At(map, j - 1)
          /\ t \in Seq(Container!Contents) /\ Len(t) = n - 1
          /\ \A j \in 1..(n - 1) : t[j] = Container!At(map', j - 1)
      BY <2>0, <2>3, <2>4, <3>1, ArrayLists DEF n
    <3> HIDE DEF s, t
    <3>3. ASSUME NEW j \in 1..(n - 1) PROVE t[j] = IF j < i + 1 THEN s[j] ELSE s[j + 1]
      <4>1. j \in Int /\ j - 1 \in DOMAIN map' /\ t[j] = map'[j - 1]
        BY <2>2, <2>6, <2>9, <3>2 DEF Container!At
      <4>2. t[j] = IF j - 1 < i THEN map[j - 1] ELSE Container!At(map, (j - 1) + 1)
        BY <2>1, <4>1
      <4>3. CASE j < i + 1
        <5>1. j - 1 < i /\ j - 1 \in DOMAIN map /\ j \in 1..n
          BY <2>2, <2>5, <2>9, <4>1, <4>3
        <5> QED
          BY <3>2, <4>2, <4>3, <5>1 DEF Container!At
      <4>4. CASE ~(j < i + 1)
        <5>1. ~(j - 1 < i) /\ j + 1 \in 1..n /\ (j + 1) - 1 = (j - 1) + 1
          BY <2>2, <4>1, <4>4
        <5> QED
          BY <3>2, <4>2, <4>4, <5>1
      <4> QED
        BY <4>3, <4>4
    <3>4. i + 1 \in 1..Len(s) /\ Len(t) = Len(s) - 1
      BY <2>2, <3>2
    <3>5. t = L!Removed(s, i + 1)
      BY <3>2, <3>3, <3>4, Removed
    <3>6. /\ i + 1 \in 1..Len(Container!List)
          /\ Container!List' = L!Removed(Container!List, i + 1)
      BY <2>8, <3>2, <3>4, <3>5 DEF t
    <3> QED
      BY <3>6 DEF L!Erase
  <2> QED
    BY <2>0, <2>8, <2>9 DEF ListStep, L!Next, Container!OthersKept
<1> QED
  BY <1>2, <1>3

\* The list of a map that was cut or grown to n entries
LEMMA Resized ==
    ASSUME ArrayInv, type # "object", dense, NEW n \in 0..MaxSize,
           DOMAIN map' = 0..(n - 1),
           \A k \in 0..(n - 1) : map'[k] = IF k \in DOMAIN map THEN map[k] ELSE NullValue,
           Container!List' = ListOf(map')
    PROVE  L!Resize
<1>1. DOMAIN map' \subseteq Indexes /\ Container!SizeOf(map') = n
  BY SizeOfWhole
<1>2. \A k \in DOMAIN map' : map'[k] \in Container!Contents
  BY ArrayMap DEF Container!Contents
<1> DEFINE m == Container!SizeOf(map)
           s == ListOf(map)
<1>3. m \in Nat /\ n \in Nat /\ DOMAIN map = 0..(m - 1)
  BY DenseMap, ArraysAssumption
<1>4. /\ Container!List = s /\ DOMAIN s = 1..m
      /\ \A j \in 1..m : s[j] = Container!At(map, j - 1)
      /\ \A j \in 1..n : ListOf(map')[j] = Container!At(map', j - 1)
  BY <1>1, <1>2, ArrayLists
<1> HIDE DEF m, s
<1>5. ASSUME NEW j \in 1..n
      PROVE  ListOf(map')[j] = IF j \in 1..m THEN s[j] ELSE NullValue
  <2>1. j \in Int /\ j - 1 \in 0..(n - 1) /\ (j - 1 \in DOMAIN map <=> j \in 1..m)
    BY <1>3
  <2>2. ListOf(map')[j] = IF j - 1 \in DOMAIN map THEN map[j - 1] ELSE NullValue
    BY <1>4, <2>1 DEF Container!At
  <2>3. j \in 1..m => s[j] = map[j - 1]
    BY <1>4, <2>1 DEF Container!At
  <2> QED
    BY <2>1, <2>2, <2>3
<1>6. ListOf(map') = [j \in 1..n |-> ListOf(map')[j]]
  BY <1>1 DEF ListOf
<1>7. ListOf(map') = [j \in 1..n |-> IF j \in 1..m THEN s[j] ELSE NullValue]
  BY <1>5, <1>6
<1>8. Container!List' = L!Padded(n)
  BY <1>4, <1>7 DEF L!Padded
<1> QED
  BY <1>8 DEF L!Resize

\* resize
LEMMA ResizeStep ==
    ASSUME ArrayInv, Container!Resize PROVE ArrayInv' /\ ListStep
<1>0. type # "object" /\ dense \in BOOLEAN /\ MaxSize \in Nat
  BY ArraysAssumption DEF Container!Resize, Container!Requires, ArrayInv, Container!TypeOK
<1>1. /\ DOMAIN map \subseteq Indexes /\ Container!Size = Container!SizeOf(map)
      /\ \A k \in DOMAIN map : map[k] \in Container!Contents
  BY <1>0, ArrayMap
<1> DEFINE size == Container!SizeOf(map)
<1>2. size \in 0..MaxSize /\ size \in Nat /\ \A k \in DOMAIN map : k < size
  BY <1>0, <1>1, SizeOfMap
<1>3. PICK n \in 0..MaxSize :
         /\ type' = "array"
         /\ map' = IF n = 0 THEN Container!Empty
                   ELSE IF n > size THEN Container!Grown(n) ELSE Container!Cut(n)
         /\ live' = (n = 0 \/ n > size \/ Container!SizeOf(Container!Cut(n)) = n)
         /\ call' = [op |-> "resize", key |-> n] /\ dense' = dense
  BY <1>1 DEF Container!Resize, Container!Called
<1>4. n \in Nat /\ n <= MaxSize
  BY <1>0
<1>5. dense => DOMAIN map = 0..(size - 1)
  BY <1>0, DenseMap
<1>6. /\ DOMAIN Container!Cut(n) = {k \in DOMAIN map : k < n}
      /\ \A k \in DOMAIN Container!Cut(n) : Container!Cut(n)[k] = map[k]
  BY DEF Container!Cut
<1>7. /\ DOMAIN Container!Grown(n) = DOMAIN map \cup size..(n - 1)
      /\ \A k \in DOMAIN Container!Grown(n) :
            Container!Grown(n)[k] = IF k \in DOMAIN map THEN map[k] ELSE NullValue
  BY <1>1 DEF Container!Grown, Container!At
<1>8. DOMAIN Container!Empty = {}
  BY DEF Container!Empty
<1> HIDE DEF size
<1>9. /\ DOMAIN map' \subseteq Indexes
      /\ \A k \in DOMAIN map' : map'[k] = IF k \in DOMAIN map THEN map[k] ELSE NullValue
  <2>1. CASE n = 0
    BY <1>3, <1>8, <2>1
  <2>2. CASE n # 0 /\ n > size
    <3>1. map' = Container!Grown(n)
      BY <1>3, <2>2
    <3>2. size..(n - 1) \subseteq Indexes
      BY <1>0, <1>2, <1>4 DEF Indexes
    <3> QED
      BY <1>1, <1>7, <3>1, <3>2
  <2>3. CASE n # 0 /\ ~(n > size)
    <3>1. map' = Container!Cut(n)
      BY <1>3, <2>3
    <3> QED
      BY <1>1, <1>6, <3>1
  <2> QED
    BY <2>1, <2>2, <2>3
<1>10. dense => DOMAIN map' = 0..(n - 1)
  <2>1. CASE n = 0
    BY <1>3, <1>8, <2>1
  <2>2. CASE n # 0 /\ n > size
    BY <1>2, <1>3, <1>4, <1>5, <1>7, <2>2
  <2>3. CASE n # 0 /\ ~(n > size)
    BY <1>2, <1>3, <1>4, <1>5, <1>6, <2>3
  <2> QED
    BY <2>1, <2>2, <2>3
<1>11. dense => live'
  <2>1. CASE n # 0 /\ ~(n > size) /\ dense
    <3>1. map' = Container!Cut(n) /\ DOMAIN map' = 0..(n - 1)
      BY <1>3, <1>10, <2>1
    <3>2. Container!SizeOf(Container!Cut(n)) = n
      BY <3>1, SizeOfWhole
    <3> QED
      BY <1>3, <3>2
  <2> QED
    BY <1>3, <2>1
<1>12. ArrayInv' /\ Container!List' = ListOf(map')
  <2>1. dense => \E t \in 0..MaxSize : DOMAIN map' = 0..(t - 1)
    BY <1>10
  <2>2. live' \in BOOLEAN
    BY <1>3
  <2>3. \A k \in DOMAIN map' : map'[k] \in Container!Contents
    BY <1>1, <1>9 DEF Container!Contents
  <2> QED
    BY <1>0, <1>3, <1>9, <1>11, <2>1, <2>2, <2>3, ArrayKept
<1>13. ASSUME dense PROVE L!Resize
  BY <1>0, <1>9, <1>10, <1>12, <1>13, Resized
<1> QED
  BY <1>0, <1>12, <1>13 DEF ListStep, L!Next, Container!OthersKept

\* The empty map is the empty list.
LEMMA EmptyMap ==
    /\ DOMAIN Container!Empty = {} /\ 0..(0 - 1) = {}
    /\ Container!SizeOf(Container!Empty) = 0
    /\ ListOf(Container!Empty) = <<>>
<1>1. DOMAIN Container!Empty = {} /\ 0..(0 - 1) = {} /\ 1..0 = {}
  BY DEF Container!Empty
<1>2. Container!SizeOf(Container!Empty) = 0
  BY <1>1 DEF Container!SizeOf
<1>3. ListOf(Container!Empty) \in Seq(Container!Contents) /\ Len(ListOf(Container!Empty)) = 0
  BY <1>1, <1>2, ListIsSeq
<1> QED
  BY <1>1, <1>2, <1>3, EmptySeq

\* clear
LEMMA ClearStep ==
    ASSUME ArrayInv, Container!Clear PROVE ArrayInv' /\ ListStep
<1>0. dense \in BOOLEAN /\ MaxSize \in Nat /\ 0 \in 0..MaxSize
  BY ArraysAssumption DEF ArrayInv, Container!TypeOK
<1>1. /\ type' = type /\ map' = Container!Empty /\ live' = TRUE
      /\ call'.op = "clear" /\ dense' = dense
  BY DEF Container!Clear, Container!Becomes, Container!Called
<1>2. DOMAIN map' = {} /\ 0..(0 - 1) = {} /\ Container!SizeOf(map') = 0
  BY <1>1, EmptyMap
<1>3. Container!TypeOK'
  BY <1>0, <1>1, <1>2 DEF ArrayInv, Container!TypeOK
<1>4. ArrayInv'
  BY <1>1, <1>2, <1>3 DEF ArrayInv
<1>5. ASSUME dense PROVE UNCHANGED Container!List \/ L!Next
  <2>1. CASE type = "object"
    BY <1>1, <2>1 DEF Container!List
  <2>2. CASE type # "object"
    <3>1. Container!List' = ListOf(map')
      BY <1>1, <2>2 DEF Container!List, ListOf
    <3>2. /\ DOMAIN map' = 0..(0 - 1)
          /\ \A k \in 0..(0 - 1) : map'[k] = IF k \in DOMAIN map THEN map[k] ELSE NullValue
      BY <1>2
    <3>3. L!Resize
      BY <1>0, <1>5, <2>2, <3>1, <3>2, Resized
    <3> QED
      BY <3>3 DEF L!Next
  <2> QED
    BY <2>1, <2>2
<1> QED
  BY <1>1, <1>4, <1>5 DEF ListStep, Container!OthersKept

\* A step that makes or changes an object
LEMMA ObjectKept ==
    ASSUME ArrayInv, type \in {"null", "object"}, type' = "object", live' = TRUE,
           dense' = dense, DOMAIN map' \subseteq Container!Names,
           \A k \in DOMAIN map' : map'[k] \in Container!Contents
    PROVE  ArrayInv' /\ UNCHANGED Container!List
<1>1. Container!TypeOK'
  BY DEF ArrayInv, Container!TypeOK
<1>2. ArrayInv'
  BY <1>1 DEF ArrayInv
<1>3. Container!List' = <<>>
  BY DEF Container!List
<1>4. Container!List = <<>>
  <2>1. CASE type = "null"
    <3>1. map = Container!Empty /\ Container!List = ListOf(map)
      BY <2>1, ArrayMap DEF ArrayInv, Container!TypeOK
    <3> QED
      BY <3>1, EmptyMap
  <2>2. CASE type = "object"
    BY <2>2 DEF Container!List
  <2> QED
    BY <2>1, <2>2
<1> QED
  BY <1>2, <1>3, <1>4

\* What is in the map of an object, or of a null
LEMMA ObjectMap ==
    ASSUME ArrayInv, type \in {"null", "object"}
    PROVE  /\ DOMAIN map \subseteq Container!Names
           /\ \A k \in DOMAIN map : map[k] \in Container!Contents
<1>1. type = "null" => DOMAIN map = {}
  BY EmptyMap DEF ArrayInv, Container!TypeOK
<1> QED
  BY <1>1 DEF ArrayInv, Container!TypeOK

\* (*this)[name] = v
LEMMA ObjectSetStep ==
    ASSUME ArrayInv, Container!SetMember PROVE ArrayInv' /\ ListStep
<1>0. type \in {"null", "object"}
  BY DEF Container!SetMember, Container!Requires
<1>1. PICK n \in Container!Names, v \in Container!Contents :
         /\ type' = "object" /\ map' = Container!With(map, n, v) /\ live' = TRUE
         /\ call' = [op |-> "member", key |-> n] /\ dense' = dense
  BY DEF Container!SetMember, Container!Becomes, Container!Called
<1>2. /\ DOMAIN map' = DOMAIN map \cup {n}
      /\ \A k \in DOMAIN map' : map'[k] = IF k = n THEN v ELSE map[k]
  BY <1>1 DEF Container!With
<1>3. /\ DOMAIN map' \subseteq Container!Names
      /\ \A k \in DOMAIN map' : map'[k] \in Container!Contents
  BY <1>0, <1>2, ObjectMap
<1>4. ArrayInv' /\ UNCHANGED Container!List
  BY <1>0, <1>1, <1>3, ObjectKept
<1>5. \A k : k # n => Container!At(map', k) = Container!At(map, k)
  BY <1>2 DEF Container!At
<1>6. call'.key = n
  BY <1>1
<1> QED
  BY <1>4, <1>5, <1>6 DEF ListStep, Container!OthersKept

\* removeMember with the end of the name
LEMMA ObjectRemoveStep ==
    ASSUME ArrayInv, Container!RemoveMember PROVE ArrayInv' /\ ListStep
<1>1. PICK n \in Container!Names :
         /\ IF type # "object" THEN UNCHANGED <<type, map, live>>
            ELSE type' = "object" /\ map' = Container!Without(n) /\ live' = TRUE
         /\ call' = [op |-> "removeMember", key |-> n] /\ dense' = dense
  BY DEF Container!RemoveMember, Container!Becomes, Container!Called
<1>2. CASE type # "object"
  <2>1. type' = type /\ map' = map /\ live' = live /\ dense' = dense /\ call'.op # "resize"
    BY <1>1, <1>2
  <2> QED
    BY <2>1, IdleStep
<1>3. CASE type = "object"
  <2>1. /\ DOMAIN map' = DOMAIN map \ {n}
        /\ \A k \in DOMAIN map' : map'[k] = map[k]
    BY <1>1, <1>3 DEF Container!Without
  <2>2. /\ DOMAIN map' \subseteq Container!Names
        /\ \A k \in DOMAIN map' : map'[k] \in Container!Contents
    BY <1>3, <2>1, ObjectMap
  <2>3. ArrayInv' /\ UNCHANGED Container!List
    BY <1>1, <1>3, <2>2, ObjectKept
  <2>4. \A k : k # n => Container!At(map', k) = Container!At(map, k)
    BY <2>1 DEF Container!At
  <2>5. call'.key = n
    BY <1>1
  <2> QED
    BY <2>3, <2>4, <2>5 DEF ListStep, Container!OthersKept
<1> QED
  BY <1>2, <1>3

\* removeMember with a String: a null stays null
LEMMA ObjectRemoveStringStep ==
    ASSUME ArrayInv, Container!RemoveMemberString PROVE ArrayInv' /\ ListStep
<1>0. type \in {"null", "object"} /\ live
  BY DEF Container!RemoveMemberString, Container!Requires
<1>1. PICK n \in Container!Names :
         /\ type' = type /\ map' = Container!Without(Container!CString(n)) /\ live' = TRUE
         /\ call' = [op |-> "removeMember(String)", key |-> n] /\ dense' = dense
  BY DEF Container!RemoveMemberString, Container!Becomes, Container!Called
<1>2. /\ DOMAIN map' \subseteq DOMAIN map
      /\ \A k \in DOMAIN map' : map'[k] = map[k]
      /\ map' = [k \in DOMAIN map' |-> map'[k]]
  BY <1>1 DEF Container!Without
<1>3. call'.op = "removeMember(String)"
  BY <1>1
<1>4. CASE type = "null"
  <2>1. map = Container!Empty
    BY <1>4 DEF ArrayInv, Container!TypeOK
  <2>2. DOMAIN map = {} /\ map = [k \in DOMAIN map |-> map[k]]
    BY <2>1 DEF Container!Empty
  <2>3. map' = map
    BY <1>2, <2>2
  <2> QED
    BY <1>0, <1>1, <1>3, <2>3, IdleStep
<1>5. CASE type = "object"
  <2>1. /\ DOMAIN map' \subseteq Container!Names
        /\ \A k \in DOMAIN map' : map'[k] \in Container!Contents
    BY <1>0, <1>2, ObjectMap
  <2>2. ArrayInv' /\ UNCHANGED Container!List
    BY <1>0, <1>1, <1>5, <2>1, ObjectKept
  <2> QED
    BY <1>3, <2>2 DEF ListStep, Container!OthersKept
<1> QED
  BY <1>0, <1>4, <1>5

\* Every call of a Value that is an array or an object
LEMMA ContainerStep ==
    ASSUME ArrayInv, [Container!Next]_(Container!vars)
    PROVE  ArrayInv' /\ (Container!vars' # Container!vars => ListStep)
<1>1. CASE Container!Next
  <2>1. CASE Container!WrongType
    <3>1. type' = type /\ map' = map /\ live' = FALSE /\ dense' = dense /\ call'.op # "resize"
      BY <2>1 DEF Container!WrongType, Container!Called
    <3> QED
      BY <3>1, IdleStep
  <2> QED
    BY <1>1, <2>1, SetElementStep, AddStep, InsertStep, RemoveIndexStep, ResizeStep,
       ClearStep, ObjectSetStep, ObjectRemoveStep, ObjectRemoveStringStep
       DEF Container!Next
<1>2. CASE UNCHANGED Container!vars
  BY <1>2 DEF Container!vars, ArrayInv, Container!TypeOK
<1> QED
  BY <1>1, <1>2

LEMMA ContainerInit ==
    ASSUME Container!Init PROVE ArrayInv /\ Container!List = <<>>
<1>1. type = "null" /\ map = Container!Empty /\ live = TRUE /\ dense \in BOOLEAN
  BY DEF Container!Init
<1>2. DOMAIN map = 0..(Container!SizeOf(map) - 1) /\ DOMAIN map = {}
  BY <1>1, EmptyMap
<1>3. ArrayInv
  BY <1>1, <1>2 DEF ArrayInv, Container!TypeOK
<1>4. Container!List = ListOf(map)
  BY <1>1, <1>3, ArrayMap
<1> QED
  BY <1>1, <1>3, <1>4, EmptyMap

\* An array keeps the indexes of an array, and one that is indexed at its end or before it has
\* no hole: then resize ends with size() == newSize, which it asserts, and get(index, default)
\* returns its default exactly from size() on.  For every set of element values and every
\* bound on the size.
THEOREM ArraysKept == Container!Spec => []ArraysWhole
<1>1. ASSUME ArrayInv PROVE ArraysWhole
  <2>1. Container!TypeOK /\ (dense => Container!ResizeAssert)
    BY <1>1 DEF ArrayInv, Container!ResizeAssert
  <2>2. ASSUME dense, type = "array" PROVE Container!GetWithinSize
    <3>1. /\ DOMAIN map = 0..(Container!SizeOf(map) - 1) /\ Container!SizeOf(map) \in Nat
          /\ Container!Size = Container!SizeOf(map)
      BY <1>1, <2>2, DenseMap, ArrayMap
    <3>2. ASSUME NEW i \in 0..(MaxSize - 1), NEW d \in Payloads
          PROVE  Container!Get(i, d) =
                    IF i < Container!Size THEN Container!At(map, i) ELSE d
      <4>1. i \in DOMAIN map <=> i < Container!Size
        BY <3>1
      <4> QED
        BY <4>1 DEF Container!Get, Container!At
    <3> QED
      BY <3>2 DEF Container!GetWithinSize
  <2> QED
    BY <2>1, <2>2 DEF ArraysWhole, Container!GetWithinSize
<1>2. Container!Init => ArrayInv
  BY ContainerInit
<1>3. ArrayInv /\ [Container!Next]_(Container!vars) => ArrayInv'
  BY ContainerStep
<1> QED
  BY <1>1, <1>2, <1>3, PTL DEF Container!Spec

\* insert, removeIndex, append, resize, clear and operator[] on an array without holes do to
\* the map what insertion, deletion, padding and assignment do to a list: no element is lost,
\* duplicated or reordered.  And a call that is given a name with its length changes no other
\* member of an object.
THEOREM ListImplemented == Container!Spec => ImplementsList
<1>1. Container!Init => ArrayInv /\ (dense => L!Init)
  BY ContainerInit DEF L!Init
<1>2. ArrayInv /\ [Container!Next]_(Container!vars) => ArrayInv'
  BY ContainerStep
<1>3. ArrayInv /\ [Container!Next]_(Container!vars) =>
        [/\ dense => UNCHANGED Container!List \/ L!Next
         /\ Container!OthersKept]_(Container!vars)
  BY ContainerStep DEF ListStep
<1> QED
  BY <1>1, <1>2, <1>3, PTL DEF Container!Spec, ImplementsList
==============================================================================
