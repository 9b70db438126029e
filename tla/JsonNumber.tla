------------------------------ MODULE JsonNumber ------------------------------
(***************************************************************************)
(* readNumber and decodeNumber of Json::Reader and Json::OurReader: the     *)
(* extent of a number token, and its value as an integer of a fixed width   *)
(* or as a double.  The widths are constants.  Characters are their codes.  *)
(***************************************************************************)
EXTENDS Integers, Sequences

CONSTANTS
    MaxInt, MaxLargestInt,      \* Value::maxInt, Value::maxLargestInt
    Digits,                     \* bound: the digits that occur
    MaxLength                   \* bound: length of a token

MaxLargestUInt == 2 * MaxLargestInt + 1

Minus == 45
Plus == 43
Point == 46
Exponent == 101
Zero == 48
DigitChars == {Zero + d : d \in Digits}
Chars == DigitChars \cup {Minus, Plus, Point, Exponent}
IsDigit(c) == Zero <= c /\ c <= Zero + 9

VARIABLES
    pc,         \* phase of readNumber, then "decode" and "done"
    text,       \* the token
    ours,       \* is it OurReader?
    negative,   \* isNegative
    pos,        \* characters decoded
    value,      \* value, an unsigned integer
    kind,       \* type of the decoded Value, or "error"
    decoded,    \* the integer in it
    exact       \* observer: what value would be without a width

vars == <<pc, text, ours, negative, pos, value, kind, decoded, exact>>

Init ==
    /\ pc = "integral" /\ text \in {<<c>> : c \in DigitChars \cup {Minus}}
    /\ ours \in BOOLEAN /\ negative = FALSE
    /\ pos = 0 /\ value = 0 /\ kind = "none" /\ decoded = 0 /\ exact = 0

------------------------------------------------------------------------------
(* readNumber *)

Phases == {"integral", "fraction", "sign", "exponent"}

\* A character that belongs to the token in a phase, and the phase after it.
Follows(phase, c, next) ==
    \/ IsDigit(c) /\ next = IF phase = "sign" THEN "exponent" ELSE phase
    \/ c = Point /\ phase = "integral" /\ next = "fraction"
    \/ c = Exponent /\ phase \in {"integral", "fraction"} /\ next = "sign"
    \/ c \in {Plus, Minus} /\ phase = "sign" /\ next = "exponent"

ReadChar ==
    /\ pc \in Phases /\ Len(text) < MaxLength
    /\ \E c \in Chars, next \in Phases :
          Follows(pc, c, next) /\ pc' = next /\ text' = Append(text, c)
    /\ UNCHANGED <<ours, negative, pos, value, kind, decoded, exact>>

SignLength == IF text[1] = Minus THEN 1 ELSE 0

\* Any other character, or the end of the document; decodeNumber looks at the sign.
EndToken ==
    /\ pc \in Phases
    /\ pc' = "decode"
    /\ negative' = (text[1] = Minus)
    /\ pos' = SignLength
    /\ UNCHANGED <<text, ours, value, kind, decoded, exact>>

------------------------------------------------------------------------------
(* decodeNumber *)

\* Division of C: towards zero.
Quotient(a, b) == IF a >= 0 THEN a \div b ELSE -((-a) \div b)
Remainder(a, b) == a - b * Quotient(a, b)

MinLargestInt == -MaxLargestInt - 1

\* maxIntegerValue of Reader
MaxIntegerValue == IF negative THEN MaxLargestInt + 1 ELSE MaxLargestUInt

\* threshold of both readers, and max_last_digit of OurReader
Threshold == IF ours /\ negative THEN -Quotient(MinLargestInt, 10) ELSE MaxIntegerValue \div 10
LastDigit == IF ours /\ negative THEN -Remainder(MinLargestInt, 10) ELSE MaxIntegerValue % 10

\* operator>> of the standard library, external: the whole token must be a number.
IsDouble(s) ==
    /\ \E i \in DOMAIN s : IsDigit(s[i]) /\ \A j \in 1..i : s[j] # Exponent
    /\ (\E i \in DOMAIN s : s[i] = Exponent) => IsDigit(s[Len(s)])

DecodeDouble ==
    /\ kind' = IF IsDouble(text) THEN "double" ELSE "error"
    /\ pc' = "done"
    /\ UNCHANGED <<pos, value, decoded, exact>>

\* "to avoid overflow": the digit does not fit.
TooLarge(digit) ==
    value >= Threshold /\ (value > Threshold \/ pos + 1 # Len(text) \/ digit > LastDigit)

DecodeDigit ==
    /\ pc = "decode" /\ pos < Len(text)
    /\ LET digit == text[pos + 1] - Zero
       IN  IF ~IsDigit(text[pos + 1]) \/ TooLarge(digit) THEN DecodeDouble
           ELSE /\ pos' = pos + 1
                /\ value' = (value * 10 + digit) % (MaxLargestUInt + 1)
                /\ exact' = exact * 10 + digit
                /\ UNCHANGED <<pc, kind, decoded>>
    /\ UNCHANGED <<text, ours, negative>>

\* LargestInt(v): two's complement.
AsLargestInt(v) == IF v <= MaxLargestInt THEN v ELSE v - MaxLargestUInt - 1

\* -LargestInt(value), where the smallest integer cannot be negated
Negated_Plain == -AsLargestInt(value)

Negated ==
    IF ours THEN -AsLargestInt(value \div 10) * 10 - (value % 10)
    ELSE IF value = MaxIntegerValue THEN MinLargestInt ELSE -AsLargestInt(value)

DecodeInteger ==
    /\ pc = "decode" /\ pos = Len(text)
    /\ pc' = "done"
    /\ IF negative THEN kind' = "int" /\ decoded' = Negated
       ELSE /\ kind' = IF value <= (IF ours THEN MaxLargestInt ELSE MaxInt) THEN "int" ELSE "uint"
            /\ decoded' = value
    /\ UNCHANGED <<text, ours, negative, pos, value, exact>>

Next == ReadChar \/ EndToken \/ DecodeDigit \/ DecodeInteger

Spec == Init /\ [][Next]_vars

------------------------------------------------------------------------------
(* Reference: the number that a token stands for *)

Unsigned(s) == IF s[1] = Minus THEN Tail(s) ELSE s

\* The numbers that the first characters of s stand for.
Prefixes(s) ==
    LET f[i \in 0..Len(s)] == IF i = 0 THEN 0 ELSE f[i - 1] * 10 + (s[i] - Zero) IN f

Magnitude(s) == Prefixes(s)[Len(s)]

Integral(s) == \A i \in DOMAIN Unsigned(s) : IsDigit(Unsigned(s)[i])

Number(s) == IF s[1] = Minus THEN -Magnitude(Unsigned(s)) ELSE Magnitude(s)

------------------------------------------------------------------------------
(* Properties *)

TypeOK ==
    /\ pc \in Phases \cup {"decode", "done"}
    /\ text \in Seq(Chars) /\ text # <<>>
    /\ ours \in BOOLEAN /\ negative \in BOOLEAN
    /\ pos \in 0..Len(text)
    /\ value \in 0..MaxLargestUInt
    /\ kind \in {"none", "int", "uint", "double", "error"}
    /\ decoded \in Int /\ exact \in Nat

\* The multiplication and the addition of the loop never wrap, nor does a value leave
\* the range of the type it will be given: "treat this number as a double to avoid
\* overflow" is decided in time, for each sign and each reader.
NoWrap == value = exact /\ (pc = "decode" => value <= MaxIntegerValue)

\* "If the number is larger than the maximum supported value of an integer then we
\* decode the number as a double": every integral token of either reader that fits
\* becomes exactly its integer, the smallest one included, and no other one does.
IntegerIfItFits ==
    pc = "done" /\ Integral(text) =>
        IF MinLargestInt <= Number(text) /\ Number(text) <= MaxLargestUInt
        THEN kind \in {"int", "uint"} /\ decoded = Number(text)
        ELSE kind = "double"
==============================================================================
