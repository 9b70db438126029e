------------------------------ MODULE JsonString ------------------------------
(***************************************************************************)
(* The strings of jsoncpp, byte by byte: valueToQuotedStringN, which        *)
(* escapes a string for a document (json_writer.cpp), and readString and    *)
(* decodeString, which find the end of a string in a document and undo the  *)
(* escapes (json_reader.cpp).  What is read is written again, once.         *)
(***************************************************************************)
EXTENDS Integers, Sequences, SequencesExt

CONSTANTS
    CodePoints, MaxPoints,  \* strings of valid UTF-8: code points, bound on their number
    Bytes, MaxBytes,        \* any bytes, bound on their number
    Fragments, MaxFragments \* text of a document: fragments, bound on their number

VARIABLES
    pc,
    emitUTF8,
    value,      \* the string written
    c,          \* how much of it has been written
    text,       \* the document from the opening quote on
    current, end,
    decoded,
    ok,
    origin      \* observer: "valid", "any" or "text", and "again" in the second round

vars == <<pc, emitUTF8, value, c, text, current, end, decoded, ok, origin>>

Quote == 34
Backslash == 92
LetterU == 117
NoEscape == 0

\* A byte that is written as a backslash and a letter, and the letter
Escapes == <<<<34, 34>>, <<92, 92>>, <<8, 98>>, <<12, 102>>, <<10, 110>>, <<13, 114>>, <<9, 116>>>>
ShortEscape(b) ==
    IF \E i \in DOMAIN Escapes : Escapes[i][1] = b
    THEN Escapes[CHOOSE i \in DOMAIN Escapes : Escapes[i][1] = b][2] ELSE NoEscape

\* The byte of a letter after a backslash; there is one more of them, the slash.
Unescaped(l) ==
    IF l = 47 THEN 47
    ELSE IF \E i \in DOMAIN Escapes : Escapes[i][2] = l
    THEN Escapes[CHOOSE i \in DOMAIN Escapes : Escapes[i][2] = l][1] ELSE NoEscape

\* codePointToUTF8
Continuation(x) == 128 + (x % 64)

UTF8(cp) ==
    IF cp <= 127 THEN <<cp>>
    ELSE IF cp <= 2047 THEN <<192 + (cp \div 64), Continuation(cp)>>
    ELSE IF cp <= 65535
    THEN <<224 + (cp \div 4096), Continuation(cp \div 64), Continuation(cp)>>
    ELSE IF cp <= 1114111
    THEN <<240 + (cp \div 262144), Continuation(cp \div 4096), Continuation(cp \div 64),
           Continuation(cp)>>
    ELSE <<>>

\* A fragment of a document
FragmentOf(f) ==
    CASE f = "a" -> <<97>>
      [] f = "quote" -> <<34>>
      [] f = "backslash" -> <<92>>
      [] f = "u" -> <<92, 117>>
      [] f = "D8" -> <<68, 56>>
      [] f = "dc" -> <<100, 99>>
      [] f = "n" -> <<92, 110>>

SeqsUpTo(S, n) == UNION {[1..m -> S] : m \in 0..n}

Init ==
    /\ c = 0 /\ current = 0 /\ end = 0 /\ decoded = <<>> /\ ok = TRUE
    /\ \/ /\ origin = "valid" /\ pc = "write" /\ text = <<>> /\ emitUTF8 \in BOOLEAN
          /\ \E points \in SeqsUpTo(CodePoints, MaxPoints) :
                value = FlattenSeq([i \in DOMAIN points |-> UTF8(points[i])])
       \/ /\ origin = "any" /\ pc = "write" /\ text = <<>> /\ emitUTF8 \in BOOLEAN
          /\ value \in SeqsUpTo(Bytes, MaxBytes)
       \/ /\ origin = "text" /\ pc = "scan" /\ value = <<>> /\ emitUTF8 = FALSE
          /\ \E fs \in SeqsUpTo(Fragments, MaxFragments) :
                text = <<Quote>> \o FlattenSeq([i \in DOMAIN fs |-> FragmentOf(fs[i])]) \o <<Quote>>

------------------------------------------------------------------------------
(* Writing *)

\* doesAnyCharRequireEscaping
RequiresEscaping(s) ==
    \E i \in 1..Len(s) : s[i] \in {Backslash, Quote} \/ s[i] < 32 \/ s[i] > 127

\* A string without such a byte is copied.
BeginWrite ==
    /\ pc = "write" /\ c = 0 /\ text = <<>>
    /\ IF RequiresEscaping(value) THEN text' = <<Quote>> /\ UNCHANGED <<pc, c>>
       ELSE text' = <<Quote>> \o value \o <<Quote>> /\ pc' = "scan" /\ c' = Len(value)
    /\ UNCHANGED <<emitUTF8, value, current, end, decoded, ok, origin>>

\* utf8ToCodepoint: the code point at byte i, and how many bytes it takes.  A sequence that
\* is cut takes one, a surrogate or an overlong one takes all of its bytes, and both are the
\* replacement character.
Replacement == 65533

Sequence(i, n, bits, low) ==
    LET cp == FoldLeft(LAMBDA acc, b : acc * 64 + (b % 64), bits, SubSeq(value, i + 1, i + n - 1))
    IN  IF Len(value) - i + 1 < n THEN <<Replacement, 1>>
        ELSE <<IF cp < low THEN Replacement ELSE cp, n>>

Surrogate_Kept(point) == point

Surrogate(point) == IF point[1] \in 55296..57343 THEN <<Replacement, point[2]>> ELSE point

CodePointAt(i) ==
    LET b == value[i]
    IN  IF b < 128 THEN <<b, 1>>
        ELSE IF b < 224 THEN Sequence(i, 2, b % 32, 128)
        ELSE IF b < 240 THEN Surrogate(Sequence(i, 3, b % 16, 2048))
        ELSE IF b < 248 THEN Sequence(i, 4, b % 8, 65536)
        ELSE <<Replacement, 1>>

HexDigit(d) == IF d < 10 THEN 48 + d ELSE 87 + d

\* appendHex
Hex(x) == <<Backslash, LetterU>> \o [k \in 1..4 |-> HexDigit((x \div 16^(4 - k)) % 16)]

\* Two times 10 bits as surrogates, and a code point beyond 16 bits
Halves(x) == Hex(55296 + ((x \div 1024) % 1024)) \o Hex(56320 + (x % 1024))

Pair(cp) == Halves(cp - 65536)

Written(cp) ==
    IF cp < 32 THEN Hex(cp) ELSE IF cp < 128 THEN <<cp>>
    ELSE IF cp < 65536 THEN Hex(cp) ELSE Pair(cp)

\* A round of the loop of valueToQuotedStringN
WriteChar ==
    /\ pc = "write" /\ text # <<>> /\ c < Len(value)
    /\ LET b == value[c + 1]
       IN  \/ /\ ShortEscape(b) # NoEscape
              /\ text' = text \o <<Backslash, ShortEscape(b)>> /\ c' = c + 1
           \/ /\ ShortEscape(b) = NoEscape /\ emitUTF8
              /\ text' = text \o (IF b < 32 THEN Hex(b) ELSE <<b>>) /\ c' = c + 1
           \/ /\ ShortEscape(b) = NoEscape /\ ~emitUTF8
              /\ text' = text \o Written(CodePointAt(c + 1)[1]) /\ c' = c + CodePointAt(c + 1)[2]
    /\ UNCHANGED <<pc, emitUTF8, value, current, end, decoded, ok, origin>>

EndWrite ==
    /\ pc = "write" /\ text # <<>> /\ c = Len(value)
    /\ text' = Append(text, Quote) /\ pc' = "scan"
    /\ UNCHANGED <<emitUTF8, value, c, current, end, decoded, ok, origin>>

------------------------------------------------------------------------------
(* Reading *)

Fail == ok' = FALSE /\ pc' = "done"

\* Reader::readString, from the opening quote: a backslash takes the next character with it.
\* end is the closing quote.
Taken(i) == IF text[i] = Backslash /\ i < Len(text) THEN 2 ELSE 1

ReadString ==
    /\ pc = "scan"
    /\ LET i == current + 2     \* the next character
       IN  IF i > Len(text) THEN Fail /\ UNCHANGED <<current, end>>
           ELSE IF text[i] = Quote
           THEN end' = i - 1 /\ current' = 1 /\ pc' = "decode" /\ UNCHANGED ok
           ELSE current' = current + Taken(i) /\ UNCHANGED <<pc, end, ok>>
    /\ UNCHANGED <<emitUTF8, value, c, text, decoded, origin>>

\* The character current points to; current counts those before it, the opening quote included.
At(i) == text[i + 1]

HexValue(d) ==
    IF d \in 48..57 THEN d - 48 ELSE IF d \in 97..102 THEN d - 87
    ELSE IF d \in 65..70 THEN d - 55 ELSE -1

\* decodeUnicodeEscapeSequence: four digits from i on, -1 when there are none
Digits(i) ==
    IF end - i < 4 \/ \E k \in 0..3 : HexValue(At(i + k)) = -1 THEN -1
    ELSE FoldLeft(LAMBDA acc, d : acc * 16 + HexValue(d), 0, SubSeq(text, i + 1, i + 4))

IsHigh(u) == u \in 55296..56319

\* decodeUnicodeCodePoint after \u: a code point and how many characters it takes, 0 for an
\* error.  The second half is not required to be a low surrogate.
CodePoint(i) ==
    LET u == Digits(i)
        low == Digits(i + 6)
    IN  IF u = -1 THEN <<0, 0>>
        ELSE IF ~IsHigh(u) THEN <<u, 4>>
        ELSE IF end - (i + 4) < 6 \/ At(i + 4) # Backslash \/ At(i + 5) # LetterU \/ low = -1 THEN <<0, 0>>
        ELSE <<65536 + ((u % 1024) * 1024) + (low % 1024), 10>>

\* A quote would end the loop.
DecodePlain ==
    /\ pc = "decode" /\ current # end /\ At(current) # Backslash
    /\ current' = current + 1
    /\ IF At(current) = Quote THEN pc' = "done" /\ UNCHANGED decoded
       ELSE decoded' = Append(decoded, At(current)) /\ UNCHANGED pc
    /\ UNCHANGED <<emitUTF8, value, c, text, end, ok, origin>>

DecodeEscape ==
    /\ pc = "decode" /\ current # end /\ At(current) = Backslash
    /\ LET letter == IF current + 1 = end THEN NoEscape ELSE At(current + 1)
           point == CodePoint(current + 2)
       IN  IF Unescaped(letter) # NoEscape
           THEN /\ decoded' = Append(decoded, Unescaped(letter)) /\ current' = current + 2
                /\ UNCHANGED <<pc, ok>>
           ELSE IF letter = LetterU /\ point[2] # 0
           THEN /\ decoded' = decoded \o UTF8(point[1]) /\ current' = current + 2 + point[2]
                /\ UNCHANGED <<pc, ok>>
           ELSE Fail /\ UNCHANGED <<decoded, current>>
    /\ UNCHANGED <<emitUTF8, value, c, text, end, origin>>

DecodeEnd ==
    /\ pc = "decode" /\ current = end /\ pc' = "done"
    /\ UNCHANGED <<emitUTF8, value, c, text, current, end, decoded, ok, origin>>

\* What was read of any bytes is written and read once more.
Again ==
    /\ pc = "done" /\ ok /\ origin = "any"
    /\ pc' = "write" /\ origin' = "again"
    /\ value' = decoded /\ c' = 0 /\ text' = <<>>
    /\ current' = 0 /\ end' = 0 /\ decoded' = <<>>
    /\ UNCHANGED <<emitUTF8, ok>>

Next ==
    \/ BeginWrite \/ WriteChar \/ EndWrite \/ ReadString
    \/ DecodePlain \/ DecodeEscape \/ DecodeEnd \/ Again

Spec == Init /\ [][Next]_vars

------------------------------------------------------------------------------
(* Properties *)

\* A string of valid UTF-8 is read as it was written, with and without emitUTF8: controls,
\* quotes, backslashes and every length of a code point, surrogate pairs included.
RoundTrip ==
    pc = "done" /\ (origin = "valid" \/ (origin # "text" /\ emitUTF8)) =>
        ok /\ decoded = value

\* Whatever bytes a string has, the document that is written is accepted, and what is read
\* from it is then read and written without a change: invalid bytes are replaced once.
Normalises == pc = "done" /\ origin # "text" => ok /\ (origin = "again" => decoded = value)

\* The decoder of a string that readString has delimited stays before its closing quote and,
\* without an error, has used it up: both agree on where the string ends.
DecodesWhole ==
    pc = "decode" \/ (pc = "done" /\ ok) => current <= end /\ (pc = "done" => current = end)
==============================================================================
