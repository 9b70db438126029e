------------------------------ MODULE JsonLexer ------------------------------
(***************************************************************************)
(* OurReader::readToken of jsoncpp (json_reader.cpp), character by          *)
(* character: how a text becomes the tokens that the parser of JsonDescent  *)
(* reads, and the line and column that an error is reported at.             *)
(***************************************************************************)
EXTENDS Integers, Sequences, FiniteSets, SequencesExt

CONSTANTS
    Fragments, MaxFragments,    \* what the text is made of, bound on its length
    Features                    \* the features that may be on or off

VARIABLES
    text, features,
    begin, current,     \* offsets from the start of the text: characters before begin_, current_
    token               \* the last token: type, start, end

vars == <<text, features, begin, current, token>>

\* A fragment is a character or one of a few words.
FragmentOf(f) ==
    CASE f = "BOM" -> <<"EF", "BB", "BF">>
      [] f = "quote" -> <<"\"">>
      [] f = "backslash" -> <<"\\">>
      [] f = "nfinity" -> <<"n", "f", "i", "n", "i", "t", "y">>
      [] f = "aN" -> <<"a", "N">>
      [] f = "rue" -> <<"r", "u", "e">>
      [] OTHER -> <<f>>

Token(t, s, e) == [type |-> t, start |-> s, end |-> e]

Init ==
    /\ features \in SUBSET Features
    /\ \E n \in 0..MaxFragments : \E fs \in [1..n -> Fragments] :
          text = FlattenSeq([i \in 1..n |-> FragmentOf(fs[i])])
    /\ begin = 0 /\ current = 0 /\ token = Token("none", 0, 0)

------------------------------------------------------------------------------

End == Len(text)
At(i) == IF i < End THEN text[i + 1] ELSE "NUL"

\* A text from i to j, j excluded
Text(i, j) == SubSeq(text, i + 1, j)

\* The first offset from i on whose character is not in S
SkipWhile(i, S) == CHOOSE j \in i..End : At(j) \notin S /\ \A k \in i..(j - 1) : At(k) \in S

\* getNextChar at i leaves current_ here.
After(i) == IF i < End THEN i + 1 ELSE i

Spaces == {" ", "TAB", "CR", "LF"}
Digit == {"0", "1"}

\* What is read: where current_ is then, and whether it is in order
Read(e, ok) == [end |-> e, ok |-> ok]

match_Advances(i, word) ==
    Read(i + Len(word), End - i >= Len(word) /\ Text(i, i + Len(word)) = word)

match(i, word) ==
    IF End - i >= Len(word) /\ Text(i, i + Len(word)) = word THEN Read(i + Len(word), TRUE)
    ELSE Read(i, FALSE)

\* readString and readStringSingleQuote
readString(i, quote) ==
    LET scan[j \in i..End] ==
            IF j = End THEN Read(j, FALSE)
            ELSE IF At(j) = "\\" THEN scan[After(j + 1)]
            ELSE IF At(j) = quote THEN Read(j + 1, TRUE) ELSE scan[j + 1]
    IN  scan[i]

\* The loop ends before the last character: at the end of the text, any slash will do.
readCStyleComment(i) ==
    LET scan[j \in i..End] ==
            IF j + 1 < End /\ ~(At(j) = "*" /\ At(j + 1) = "/") THEN scan[j + 1]
            ELSE IF j + 1 < End THEN j + 1 ELSE j
    IN  Read(After(scan[i]), At(scan[i]) = "/")

\* A line ends with LF, CR or CR LF.
AfterEol(i) == IF At(i) = "CR" /\ At(i + 1) = "LF" THEN i + 2 ELSE After(i)

readCppStyleComment(i) ==
    LET eol == CHOOSE j \in i..End : /\ At(j) \in {"CR", "LF", "NUL"}
                                     /\ \A k \in i..(j - 1) : At(k) \notin {"CR", "LF"}
    IN  Read(AfterEol(eol), TRUE)

readComment(i) ==
    IF At(i) = "*" THEN readCStyleComment(i + 1)
    ELSE IF At(i) = "/" THEN readCppStyleComment(i + 1) ELSE Read(After(i), FALSE)

\* From i on: a fraction, and an exponent
Fraction(i) == IF At(i) = "." THEN SkipWhile(i + 1, Digit) ELSE i

Exponent_Unsigned(i) == IF At(i) \in {"e", "E"} THEN SkipWhile(i + 1, Digit) ELSE i

Exponent(i) ==
    IF At(i) \notin {"e", "E"} THEN i
    ELSE SkipWhile(IF At(i + 1) \in {"+", "-"} THEN i + 2 ELSE i + 1, Digit)

\* readNumber; with a sign, infinity is not a number.
readNumber(i, checkInf) ==
    IF checkInf /\ At(i) = "I" THEN Read(i + 1, FALSE)
    ELSE Read(Exponent(Fraction(SkipWhile(i, Digit))), TRUE)

------------------------------------------------------------------------------
(* readToken, one action for each kind of token *)

Start == SkipWhile(current, Spaces)
First == At(Start)

Emit(type, r) ==
    /\ token' = Token(IF r.ok THEN type ELSE "error", Start, r.end)
    /\ current' = r.end
    /\ UNCHANGED <<text, features, begin>>

\* skipBom, before the first token
Marked ==
    "skipBom" \in features /\ End >= 3 /\ Text(0, 3) = FragmentOf("BOM")

SkipBom ==
    /\ token.type = "none"
    /\ begin' = (IF Marked THEN 3 ELSE 0) /\ current' = begin'
    /\ token' = Token("begin", begin', begin')
    /\ UNCHANGED <<text, features>>

MayRead == token.type \notin {"none", "end"}

Punctuation == {"{", "}", "[", "]", ",", ":"}

ReadPunctuation ==
    /\ MayRead /\ First \in Punctuation
    /\ Emit(First, Read(Start + 1, TRUE))

ReadString ==
    /\ MayRead /\ First \in {"\"", "'"}
    /\ IF First = "\"" \/ "singleQuotes" \in features
       THEN Emit("string", readString(Start + 1, First))
       ELSE Emit("error", Read(Start + 1, FALSE))

ReadComment ==
    /\ MayRead /\ First = "/"
    /\ Emit("comment", readComment(Start + 1))

ReadNumber ==
    /\ MayRead /\ First \in Digit
    /\ Emit("number", readNumber(Start + 1, FALSE))

Infinity(i) ==
    IF "specialFloats" \in features THEN match(i, FragmentOf("nfinity")) ELSE Read(i, FALSE)

ReadSigned ==
    /\ MayRead /\ First \in {"-", "+"}
    /\ LET number == readNumber(Start + 1, TRUE)
       IN  IF number.ok THEN Emit("number", number)
           ELSE Emit("inf", Infinity(number.end))

\* true stands for false and null as well.
ReadWord ==
    /\ MayRead /\ First \in {"t", "N", "I"}
    /\ CASE First = "t" -> Emit("true", match(Start + 1, FragmentOf("rue")))
         [] First = "I" -> Emit("inf", Infinity(Start + 1))
         [] OTHER -> Emit("NaN", IF "specialFloats" \in features
                                 THEN match(Start + 1, FragmentOf("aN")) ELSE Read(Start + 1, FALSE))

ReadEnd ==
    /\ MayRead /\ First = "NUL"
    /\ Emit("end", Read(Start, TRUE))

Known == Punctuation \cup Digit \cup {"\"", "'", "/", "-", "+", "t", "N", "I", "NUL"}

ReadUnknown ==
    /\ MayRead /\ First \notin Known
    /\ Emit("error", Read(Start + 1, FALSE))

Next ==
    \/ SkipBom \/ ReadPunctuation \/ ReadString \/ ReadComment \/ ReadNumber
    \/ ReadSigned \/ ReadWord \/ ReadEnd \/ ReadUnknown

Spec == Init /\ [][Next]_vars

------------------------------------------------------------------------------
(* getLocationLineAndColumn *)

LineStart(i) == AfterEol(i)

\* The loop: the line before location and where it starts
Located(location) ==
    LET walk[i \in begin..End + 1, from \in 0..End + 1, line \in 0..End + 1] ==
            IF i >= location \/ i = End THEN <<line + 1, location - from + 1>>
            ELSE IF At(i) = "CR" THEN walk[LineStart(i), LineStart(i), line + 1]
            ELSE IF At(i) = "LF" THEN walk[i + 1, i + 1, line + 1]
            ELSE walk[i + 1, from, line]
    IN  walk[begin, begin, 0]

------------------------------------------------------------------------------
(* Properties *)

\* A call of readToken leaves nothing but white space between the token before and its own,
\* which has a character at least; only at the end of the text there is an end of stream.
FollowsToken ==
    /\ \A i \in token.end..(token'.start - 1) : At(i) \in Spaces
    /\ token'.start >= token.end /\ token'.end <= End /\ current' = token'.end
    /\ IF token'.type = "end" THEN token'.start = End ELSE token'.end > token'.start

\* The backslashes right before i, back to the opening quote at s
Escapes(s, i) == CHOOSE n \in 0..(i - s - 1) :
    /\ \A k \in 1..n : At(i - k) = "\\"
    /\ n = i - s - 1 \/ At(i - n - 1) # "\\"

Closes(s, i) == At(i) = At(s) /\ Escapes(s, i) % 2 = 0

\* readString ends a string at the first quote of its kind that an even number of backslashes
\* precedes, whatever is escaped before; without one there is an error at the end of the text.
StringEnds ==
    LET s == token.start
        first == At(s) = "\"" \/ (At(s) = "'" /\ "singleQuotes" \in features)
    IN  first /\ token.type \in {"string", "error"} =>
            /\ token.type = "string" => Closes(s, token.end - 1)
            /\ token.type = "error" => token.end = End
            /\ \A i \in (s + 1)..(token.end - (IF token.type = "string" THEN 2 ELSE 1)) : ~Closes(s, i)

IsDigits(s) == \A i \in DOMAIN s : s[i] \in Digit

\* The lenient grammar of a number: every part but the first character may be missing.
IsNumber(s) ==
    \E a \in 0..Len(s), b \in 0..Len(s) :
       /\ a <= b
       /\ IsDigits(SubSeq(s, 2, a)) /\ s[1] \in Digit \cup {"-", "+"}
       /\ a = b \/ (s[a + 1] = "." /\ IsDigits(SubSeq(s, a + 2, b)))
       /\ \/ b = Len(s)
          \/ /\ s[b + 1] \in {"e", "E"}
             /\ \/ IsDigits(SubSeq(s, b + 2, Len(s)))
                \/ s[b + 2] \in {"+", "-"} /\ IsDigits(SubSeq(s, b + 3, Len(s)))

\* readNumber takes the longest text that is a number: 1.5e-7 is never cut into two tokens.
NumberLongest ==
    token.type = "number" =>
        /\ IsNumber(Text(token.start, token.end))
        /\ \A e \in (token.end + 1)..End : ~IsNumber(Text(token.start, e))

ClosesComment(s, i) == i >= s + 2 /\ At(i) = "*" /\ At(i + 1) = "/"

\* readComment ends a C comment at the first "*/" after the opening, or with a slash that is
\* the last character of the text; the star of the opening does not close it.
CommentEnds ==
    LET s == token.start
    IN  token.type = "comment" /\ At(s + 1) = "*" =>
            /\ ClosesComment(s, token.end - 2) \/ (token.end = End /\ At(End - 1) = "/")
            /\ \A i \in s..(token.end - 3) : ~ClosesComment(s, i)

\* Offsets right after a line break, CR LF being one
LineStarts ==
    {begin} \cup {i \in (begin + 1)..End : \/ At(i - 1) = "LF"
                                           \/ At(i - 1) = "CR" /\ At(i) # "LF"}

\* The line that getLocationLineAndColumn reports for a token counts the line breaks before it
\* and the column the characters since the last one, both from 1.
LineAndColumn ==
    token.type # "none" =>
        LET before == {i \in LineStarts : i <= token.start}
            last == CHOOSE i \in before : \A j \in before : j <= i
        IN  Located(token.start) = <<Cardinality(before), token.start - last + 1>>

==============================================================================
