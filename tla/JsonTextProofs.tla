---------------------------- MODULE JsonTextProofs ----------------------------
(***************************************************************************)
(* What Reader and OurReader of jsoncpp accept, for every choice of their   *)
(* features and documents of every length and depth.                        *)
(***************************************************************************)
EXTENDS JsonReadingProofs

------------------------------------------------------------------------------
(* The grammar *)

Symbols == {"value", "elements or ]", ", or ]", "members or }", "member", ":", ", or }"}

\* A symbol before others.
Cons(x, r) == <<x>> \o r

LEMMA ConsParts ==
    ASSUME NEW S, NEW x \in S, NEW r \in Seq(S)
    PROVE  /\ Cons(x, r) \in Seq(S) /\ Cons(x, r) # <<>>
           /\ Head(Cons(x, r)) = x /\ Tail(Cons(x, r)) = r
           /\ Cons(x, r)[1] = x
<1>1. /\ <<x>> \in Seq(S) /\ Len(<<x>>) = 1 /\ <<x>>[1] = x
  OBVIOUS
<1>2. Len(r) \in Nat
  OBVIOUS
<1> DEFINE h == <<x>>
           c == h \o r
<1> HIDE DEF h
<1>3. /\ h \in Seq(S) /\ Len(h) = 1 /\ h[1] = x
  BY <1>1 DEF h
<1>4. /\ c \in Seq(S) /\ Len(c) = Len(h) + Len(r)
      /\ \A i \in 1..(Len(h) + Len(r)) : c[i] = IF i <= Len(h) THEN h[i] ELSE r[i - Len(h)]
  BY <1>3, ConcatProperties
<1> HIDE DEF c
<1>5. c[1] = x /\ \A i \in 1..Len(r) : c[i + 1] = r[i]
  BY <1>2, <1>3, <1>4
<1>6. Len(c) = 1 + Len(r) /\ c \in Seq(S)
  BY <1>3, <1>4
<1>7. c # <<>> /\ Head(c) = x
  BY <1>2, <1>5, <1>6
<1>8. Tail(c) \in Seq(S) /\ Len(Tail(c)) = Len(r) /\ \A i \in 1..Len(r) : Tail(c)[i] = r[i]
  <2>1. /\ Tail(c) \in Seq(S) /\ Len(Tail(c)) = Len(c) - 1
        /\ \A i \in 1..Len(Tail(c)) : Tail(c)[i] = c[i + 1]
    BY <1>6, <1>7, HeadTailProperties
  <2> QED BY <1>2, <1>5, <1>6, <2>1
<1>9. Tail(c) = r
  BY <1>8, SeqEqual
<1> QED BY <1>5, <1>6, <1>7, <1>9 DEF c, h, Cons

LEMMA PairConcat ==
    ASSUME NEW S, NEW x \in S, NEW y \in S
    PROVE  <<x, y>> = <<x>> \o <<y>>
<1> DEFINE a == <<x>>
           b == <<y>>
           c == <<x, y>>
<1>1. a \in Seq(S) /\ Len(a) = 1 /\ a[1] = x
  OBVIOUS
<1>2. b \in Seq(S) /\ Len(b) = 1 /\ b[1] = y
  OBVIOUS
<1>3. c \in Seq(S) /\ Len(c) = 2 /\ c[1] = x /\ c[2] = y
  OBVIOUS
<1> HIDE DEF a, b, c
<1>4. /\ a \o b \in Seq(S) /\ Len(a \o b) = Len(a) + Len(b)
      /\ \A i \in 1..(Len(a) + Len(b)) :
            (a \o b)[i] = IF i <= Len(a) THEN a[i] ELSE b[i - Len(a)]
  BY <1>1, <1>2, ConcatProperties
<1>5. (a \o b)[1] = x /\ (a \o b)[2] = y /\ Len(a \o b) = 2
  BY <1>1, <1>2, <1>4
<1>6. \A i \in 1..Len(c) : c[i] = (a \o b)[i]
  BY <1>3, <1>5
<1>7. c = a \o b
  BY <1>3, <1>4, <1>5, <1>6, SeqEqual
<1> QED BY <1>7 DEF a, b, c

LEMMA OneSymbol ==
    ASSUME NEW S, NEW x \in S
    PROVE  <<x>> \in Seq(S)
OBVIOUS

\* Is one of the symbols b?
Has(s, b) == \E i \in DOMAIN s : s[i] = b

LEMMA HasNot ==
    ASSUME NEW b
    PROVE  ~Has(<<>>, b)
BY DEF Has

LEMMA HasNotOne ==
    ASSUME NEW b, NEW x, x # b
    PROVE  ~Has(<<x>>, b)
BY DEF Has

LEMMA HasNotTwo ==
    ASSUME NEW b, NEW x, NEW y, x # b, y # b
    PROVE  ~Has(<<x, y>>, b)
BY DEF Has

LEMMA HasNotThree ==
    ASSUME NEW b, NEW x, NEW y, NEW z, x # b, y # b, z # b
    PROVE  ~Has(<<x, y, z>>, b)
BY DEF Has

LEMMA HasFirst ==
    ASSUME NEW b, NEW x
    PROVE  Has(<<b>>, b) /\ Has(<<b, x>>, b)
BY DEF Has

\* Sequences of symbols in front of others.
LEMMA ConsTwo ==
    ASSUME NEW S, NEW r \in Seq(S), NEW x \in S, NEW y \in S
    PROVE  <<x, y>> \o r = Cons(x, Cons(y, r))
<1>1. <<x>> \in Seq(S) /\ <<y>> \in Seq(S)
  OBVIOUS
<1>2. <<x, y>> = <<x>> \o <<y>>
  BY PairConcat
<1>3. (<<x>> \o <<y>>) \o r = <<x>> \o (<<y>> \o r)
  BY <1>1, ConcatAssociative
<1> QED BY <1>2, <1>3, Zenon DEF Cons

LEMMA ConsThree ==
    ASSUME NEW S, NEW r \in Seq(S), NEW x \in S, NEW y \in S, NEW z \in S
    PROVE  <<x, y, z>> \o r = Cons(x, Cons(y, Cons(z, r)))
<1>3. /\ <<x>> \in Seq(S) /\ <<y>> \in Seq(S) /\ <<z>> \in Seq(S)
      /\ <<y, z>> \in Seq(S)
  OBVIOUS
<1>5. <<x, y, z>> = <<x>> \o <<y, z>>
  OBVIOUS
<1>8. (<<x>> \o <<y, z>>) \o r = <<x>> \o (<<y, z>> \o r)
  BY <1>3, ConcatAssociative
<1>10. <<y, z>> \o r = Cons(y, Cons(z, r))
  BY ConsTwo
<1> QED BY <1>5, <1>8, <1>10, Zenon DEF Cons

\* The next token, when more symbols are expected.
LEMMA ExpectedHead ==
    ASSUME NEW x \in Symbols, NEW r \in Seq(Symbols), NEW t, t.type # "comment"
    PROVE  Expected(Cons(x, r), t) =
              IF Has(Expand(x, t.type), "reject")
              THEN Reject ELSE Expand(x, t.type) \o r
<1>1. /\ Cons(x, r) # <<>> /\ Cons(x, r)[1] = x
      /\ Head(Cons(x, r)) = x /\ Tail(Cons(x, r)) = r
  BY ConsParts
<1>2. Reject[1] = "reject" /\ x # "reject"
  BY DEF Reject, Symbols
<1>3. Cons(x, r) \notin {<<>>, Reject}
  BY <1>1, <1>2
<1> QED BY <1>1, <1>2, <1>3, Zenon DEF Expected, Has

\* The next token is a value, or is refused.
AfterValue(y, r) ==
    IF y = "{" THEN Cons("members or }", r)
    ELSE IF y = "[" THEN Cons("elements or ]", r)
    ELSE IF y \in Scalars THEN r ELSE Reject

AfterMember(r) == Cons(":", Cons("value", Cons(", or }", r)))

LEMMA ExpectedValue ==
    ASSUME NEW r \in Seq(Symbols), NEW t, t.type # "comment"
    PROVE  Expected(Cons("value", r), t) = AfterValue(t.type, r)
<1> DEFINE y == t.type
           e == Expand("value", y)
<1>1. "value" \in Symbols /\ "members or }" \in Symbols /\ "elements or ]" \in Symbols
  BY DEF Symbols
<1>2. Expected(Cons("value", r), t) =
        IF Has(e, "reject") THEN Reject ELSE e \o r
  BY <1>1, ExpectedHead
<1>3. e = CASE y = "{" -> <<"members or }">>
            [] y = "[" -> <<"elements or ]">>
            [] y \in Scalars -> <<>>
            [] OTHER -> Reject
  BY DEF Expand
<1>4. "{" \notin Scalars /\ "[" \notin Scalars
  BY DEF Scalars
<1> HIDE DEF y, e
<1>5. CASE y = "{"
  <2>1. e = <<"members or }">>
    BY <1>3, <1>4, <1>5
  <2>2. ~Has(e, "reject")
    BY <2>1, HasNotOne, Zenon
  <2>3. e \o r = Cons("members or }", r)
    BY <2>1, Zenon DEF Cons
  <2> QED BY <1>2, <1>5, <2>2, <2>3 DEF AfterValue, y
<1>6. CASE y = "["
  <2>1. e = <<"elements or ]">>
    BY <1>3, <1>4, <1>6
  <2>2. ~Has(e, "reject")
    BY <2>1, HasNotOne, Zenon
  <2>3. e \o r = Cons("elements or ]", r)
    BY <2>1, Zenon DEF Cons
  <2> QED BY <1>2, <1>6, <2>2, <2>3 DEF AfterValue, y
<1>7. CASE y \in Scalars
  <2>1. e = <<>>
    BY <1>3, <1>4, <1>7
  <2>2. ~Has(e, "reject")
    BY <2>1, HasNot, Zenon
  <2>3. e \o r = r
    BY <2>1, ConcatEmptySeq, Zenon
  <2> QED BY <1>2, <1>4, <1>7, <2>2, <2>3 DEF AfterValue, y
<1>8. CASE y \notin {"{", "["} \cup Scalars
  <2>1. e = Reject
    BY <1>3, <1>8
  <2>2. Has(e, "reject")
    BY <2>1, HasFirst, Zenon DEF Reject
  <2> QED BY <1>2, <1>8, <2>2 DEF AfterValue, y
<1> QED BY <1>5, <1>6, <1>7, <1>8

LEMMA ExpectedElements ==
    ASSUME NEW r \in Seq(Symbols), NEW t, t.type # "comment"
    PROVE  Expected(Cons("elements or ]", r), t) =
              IF t.type = "]" THEN r ELSE AfterValue(t.type, Cons(", or ]", r))
<1> DEFINE y == t.type
           e == Expand("elements or ]", y)
<1>1. /\ "elements or ]" \in Symbols /\ "members or }" \in Symbols /\ ", or ]" \in Symbols
  BY DEF Symbols
<1>2. Expected(Cons("elements or ]", r), t) =
        IF Has(e, "reject") THEN Reject ELSE e \o r
  BY <1>1, ExpectedHead
<1>3. e = IF y = "]" THEN <<>>
          ELSE (CASE y = "{" -> <<"members or }">>
                  [] y = "[" -> <<"elements or ]">>
                  [] y \in Scalars -> <<>>
                  [] OTHER -> Reject) \o <<", or ]">>
  BY DEF Expand
<1>4. "{" \notin Scalars /\ "[" \notin Scalars /\ "]" \notin Scalars
  BY DEF Scalars
<1> HIDE DEF y, e
<1>5. CASE y = "{"
  <2>1. e = <<"members or }">> \o <<", or ]">>
    BY <1>3, <1>4, <1>5
  <2>2. e = <<"members or }", ", or ]">>
    BY <1>1, <2>1, PairConcat, Zenon
  <2>3. ~Has(e, "reject")
    BY <2>2, HasNotTwo, Zenon
  <2>4. e \o r = Cons("members or }", Cons(", or ]", r))
    BY <1>1, <2>2, ConsTwo, Zenon
  <2> QED BY <1>2, <1>5, <2>3, <2>4 DEF AfterValue, y
<1>6. CASE y = "["
  <2>1. e = <<"elements or ]">> \o <<", or ]">>
    BY <1>3, <1>4, <1>6
  <2>2. e = <<"elements or ]", ", or ]">>
    BY <1>1, <2>1, PairConcat, Zenon
  <2>3. ~Has(e, "reject")
    BY <2>2, HasNotTwo, Zenon
  <2>4. e \o r = Cons("elements or ]", Cons(", or ]", r))
    BY <1>1, <2>2, ConsTwo, Zenon
  <2> QED BY <1>2, <1>6, <2>3, <2>4 DEF AfterValue, y
<1>7. CASE y \in Scalars
  <2>1. e = <<>> \o <<", or ]">>
    BY <1>3, <1>4, <1>7
  <2>2. e = <<", or ]">>
    <3>1. <<", or ]">> \in Seq(Symbols)
      BY <1>1, OneSymbol, Zenon
    <3> QED BY <2>1, <3>1, ConcatEmptySeq, Zenon
  <2>3. ~Has(e, "reject")
    BY <2>2, HasNotOne, Zenon
  <2>4. e \o r = Cons(", or ]", r)
    BY <2>2, Zenon DEF Cons
  <2> QED BY <1>2, <1>4, <1>7, <2>3, <2>4 DEF AfterValue, y
<1>8. CASE y = "]"
  <2>1. e = <<>>
    BY <1>3, <1>8
  <2>2. ~Has(e, "reject")
    BY <2>1, HasNot, Zenon
  <2>3. e \o r = r
    BY <2>1, ConcatEmptySeq, Zenon
  <2> QED BY <1>2, <1>8, <2>2, <2>3 DEF y
<1>9. CASE y \notin {"{", "[", "]"} \cup Scalars
  <2>1. e = Reject \o <<", or ]">>
    BY <1>3, <1>9
  <2>2. e = <<"reject", ", or ]">>
    <3>1. "reject" \in {"reject", ", or ]"} /\ ", or ]" \in {"reject", ", or ]"}
      OBVIOUS
    <3> QED BY <2>1, <3>1, PairConcat, Zenon DEF Reject
  <2>3. Has(e, "reject")
    BY <2>2, HasFirst, Zenon
  <2> QED BY <1>2, <1>9, <2>3 DEF AfterValue, y
<1> QED BY <1>5, <1>6, <1>7, <1>8, <1>9

LEMMA ExpectedOthers ==
    ASSUME NEW r \in Seq(Symbols), NEW t, t.type # "comment"
    PROVE  /\ Expected(Cons(", or ]", r), t) =
                 IF t.type = "," THEN Cons("value", Cons(", or ]", r))
                 ELSE IF t.type = "]" THEN r ELSE Reject
           /\ Expected(Cons(", or }", r), t) =
                 IF t.type = "," THEN Cons("member", r)
                 ELSE IF t.type = "}" THEN r ELSE Reject
           /\ Expected(Cons(":", r), t) = IF t.type = ":" THEN r ELSE Reject
           /\ Expected(Cons("member", r), t) =
                 IF t.type = "string" THEN AfterMember(r) ELSE Reject
           /\ Expected(Cons("members or }", r), t) =
                 IF t.type = "}" THEN r
                 ELSE IF t.type = "string" THEN AfterMember(r) ELSE Reject
<1> DEFINE y == t.type
           Next1(e) == IF Has(e, "reject") THEN Reject ELSE e \o r
<1>1. Symbols = {"value", "elements or ]", ", or ]", "members or }", "member", ":", ", or }"}
  BY DEF Symbols
<1>2. \A x \in Symbols : Expected(Cons(x, r), t) = Next1(Expand(x, y))
  BY ExpectedHead
<1>3. Next1(<<>>) = r
  <2>1. <<>> \o r = r
    BY ConcatEmptySeq
  <2> QED BY <2>1, HasNot, Zenon
<1>4. Next1(Reject) = Reject
  BY HasFirst, Zenon DEF Reject
<1>5. Next1(<<"member">>) = Cons("member", r)
  BY HasNotOne, Zenon DEF Cons
<1>6. Next1(<<"value", ", or ]">>) = Cons("value", Cons(", or ]", r))
  <2>1. <<"value", ", or ]">> \o r = Cons("value", Cons(", or ]", r))
    <3>1. "value" \in Symbols /\ ", or ]" \in Symbols
      BY <1>1
    <3> QED BY <3>1, ConsTwo, Zenon
  <2>2. ~Has(<<"value", ", or ]">>, "reject")
    BY HasNotTwo, Zenon
  <2> QED BY <2>1, <2>2, Zenon
<1>7. Next1(<<":", "value", ", or }">>) = AfterMember(r)
  <2>1. <<":", "value", ", or }">> \o r = AfterMember(r)
    <3>1. ":" \in Symbols /\ "value" \in Symbols /\ ", or }" \in Symbols
      BY <1>1
    <3>2. \A x, y1, z \in Symbols : <<x, y1, z>> \o r = Cons(x, Cons(y1, Cons(z, r)))
      BY ConsThree
    <3> QED BY <3>1, <3>2, Zenon DEF AfterMember
  <2>2. ~Has(<<":", "value", ", or }">>, "reject")
    BY HasNotThree, Zenon
  <2> QED BY <2>1, <2>2, Zenon
<1>8. /\ Expand(", or ]", y) =
            IF y = "," THEN <<"value", ", or ]">> ELSE IF y = "]" THEN <<>> ELSE Reject
      /\ Expand(", or }", y) =
            IF y = "," THEN <<"member">> ELSE IF y = "}" THEN <<>> ELSE Reject
      /\ Expand(":", y) = IF y = ":" THEN <<>> ELSE Reject
      /\ Expand("member", y) = IF y = "string" THEN <<":", "value", ", or }">> ELSE Reject
      /\ Expand("members or }", y) =
            IF y = "}" THEN <<>> ELSE IF y = "string" THEN <<":", "value", ", or }">> ELSE Reject
  BY DEF Expand
<1> HIDE DEF Next1, y
<1>9. /\ Expected(Cons(", or ]", r), t) = Next1(Expand(", or ]", y))
      /\ Expected(Cons(", or }", r), t) = Next1(Expand(", or }", y))
      /\ Expected(Cons(":", r), t) = Next1(Expand(":", y))
      /\ Expected(Cons("member", r), t) = Next1(Expand("member", y))
      /\ Expected(Cons("members or }", r), t) = Next1(Expand("members or }", y))
  BY <1>1, <1>2
<1>10. /\ Expected(Cons(", or ]", r), t) =
              IF y = "," THEN Cons("value", Cons(", or ]", r))
              ELSE IF y = "]" THEN r ELSE Reject
       /\ Expected(Cons(", or }", r), t) =
              IF y = "," THEN Cons("member", r) ELSE IF y = "}" THEN r ELSE Reject
  BY <1>3, <1>4, <1>5, <1>6, <1>8, <1>9
<1>11. /\ Expected(Cons(":", r), t) = IF y = ":" THEN r ELSE Reject
       /\ Expected(Cons("member", r), t) = IF y = "string" THEN AfterMember(r) ELSE Reject
       /\ Expected(Cons("members or }", r), t) =
              IF y = "}" THEN r ELSE IF y = "string" THEN AfterMember(r) ELSE Reject
  BY <1>3, <1>4, <1>7, <1>8, <1>9
<1> QED BY <1>10, <1>11 DEF y

------------------------------------------------------------------------------
(* What is expected when the functions fs are active *)

Closer(f) == IF f.kind = "object" THEN ", or }" ELSE ", or ]"

\* What the containers around still expect, the innermost first.
Rest(fs) == [i \in 1..Len(fs) |-> Closer(fs[Len(fs) + 1 - i])]

LEMMA RestSymbols ==
    ASSUME NEW fs \in Seq(FrameSet)
    PROVE  Rest(fs) \in Seq(Symbols) /\ Len(Rest(fs)) = Len(fs)
<1>1. Len(fs) \in Nat
  OBVIOUS
<1>2. \A f : Closer(f) \in Symbols
  BY DEF Closer, Symbols
<1> DEFINE n == Len(fs)
<1> HIDE DEF n
<1>3. Rest(fs) = [i \in 1..n |-> Closer(fs[n + 1 - i])]
  BY DEF Rest, n
<1>4. Rest(fs) \in [1..n -> Symbols]
  BY <1>2, <1>3
<1>5. n \in Nat
  BY <1>1 DEF n
<1>6. Rest(fs) \in Seq(Symbols) /\ Len(Rest(fs)) = n
  BY <1>3, <1>4, <1>5
<1> QED BY <1>6 DEF n

LEMMA RestEmpty ==
    Rest(<<>>) = <<>>
<1>1. <<>> \in Seq(FrameSet) /\ Len(<<>>) = 0
  BY EmptySeq
<1>2. Rest(<<>>) \in Seq(Symbols) /\ Len(Rest(<<>>)) = 0
  BY <1>1, RestSymbols
<1> QED BY <1>2, EmptySeq

\* The innermost container, then those around it.
LEMMA RestFirst ==
    ASSUME NEW fs \in Seq(FrameSet), fs # <<>>
    PROVE  Rest(fs) = Cons(Closer(fs[Len(fs)]), Rest(Outer(fs)))
<1>1. /\ Outer(fs) \in Seq(FrameSet) /\ Len(Outer(fs)) = Len(fs) - 1
      /\ Len(fs) \in Nat /\ Len(fs) > 0
      /\ \A i \in 1..(Len(fs) - 1) : Outer(fs)[i] = fs[i]
  BY OuterFrames
<1> DEFINE x == Closer(fs[Len(fs)])
           r == Rest(Outer(fs))
           a == <<x>>
<1>2. x \in Symbols
  BY DEF Closer, Symbols
<1>3. r \in Seq(Symbols) /\ Len(r) = Len(fs) - 1 /\ Rest(fs) \in Seq(Symbols)
      /\ Len(Rest(fs)) = Len(fs)
  BY <1>1, RestSymbols
<1>4. ASSUME NEW i \in 1..(Len(fs) - 1) PROVE r[i] = Rest(fs)[i + 1]
  <2>1. i \in 1..Len(Outer(fs)) /\ i + 1 \in 1..Len(fs) /\ Len(fs) - i \in 1..(Len(fs) - 1)
        /\ Len(Outer(fs)) + 1 - i = Len(fs) - i /\ Len(fs) + 1 - (i + 1) = Len(fs) - i
    BY <1>1
  <2>2. r[i] = Closer(Outer(fs)[Len(fs) - i])
    BY <2>1 DEF Rest
  <2>3. Rest(fs)[i + 1] = Closer(fs[Len(fs) - i])
    BY <2>1 DEF Rest
  <2>4. Outer(fs)[Len(fs) - i] = fs[Len(fs) - i]
    BY <1>1, <2>1
  <2> QED BY <2>2, <2>3, <2>4
<1>5. Rest(fs)[1] = x
  <2>1. 1 \in 1..Len(fs) /\ Len(fs) + 1 - 1 = Len(fs)
    BY <1>1
  <2> QED BY <2>1 DEF Rest
<1> HIDE DEF x, r
<1>6. /\ a \in Seq(Symbols) /\ Len(a) = 1 /\ a[1] = x
  BY <1>2
<1> HIDE DEF a
<1>7. /\ a \o r \in Seq(Symbols) /\ Len(a \o r) = Len(a) + Len(r)
      /\ \A i \in 1..(Len(a) + Len(r)) : (a \o r)[i] = IF i <= Len(a) THEN a[i] ELSE r[i - Len(a)]
  <2>1. a \in Seq(Symbols) /\ r \in Seq(Symbols)
    BY <1>3, <1>6
  <2> QED BY <2>1, ConcatProperties
<1>8. Len(a \o r) = Len(Rest(fs))
  BY <1>1, <1>3, <1>6, <1>7
<1>9. ASSUME NEW i \in 1..Len(Rest(fs)) PROVE Rest(fs)[i] = (a \o r)[i]
  <2>1. CASE i = 1
    BY <1>1, <1>3, <1>5, <1>6, <1>7, <2>1
  <2>2. CASE i # 1
    <3>1. i - 1 \in 1..(Len(fs) - 1) /\ i - 1 + 1 = i /\ i \in 1..(Len(a) + Len(r)) /\ ~(i <= 1)
      BY <1>1, <1>3, <1>6, <2>2
    <3>2. (a \o r)[i] = r[i - 1]
      BY <1>6, <1>7, <3>1
    <3>3. r[i - 1] = Rest(fs)[i]
      BY <1>4, <3>1
    <3> QED BY <3>2, <3>3
  <2> QED BY <2>1, <2>2
<1>10. Rest(fs) = a \o r
  BY <1>3, <1>7, <1>8, <1>9, SeqEqual
<1> QED BY <1>10 DEF a, x, r, Cons

LEMMA OuterAppended ==
    ASSUME NEW fs \in Seq(FrameSet), NEW f \in FrameSet
    PROVE  Outer(Append(fs, f)) = fs
<1> DEFINE gs == Append(fs, f)
<1>1. /\ gs \in Seq(FrameSet) /\ gs # <<>> /\ Len(gs) = Len(fs) + 1 /\ Len(fs) \in Nat
      /\ \A i \in 1..Len(fs) : gs[i] = fs[i]
  BY Appended
<1> HIDE DEF gs
<1>2. /\ Outer(gs) \in Seq(FrameSet) /\ Len(Outer(gs)) = Len(gs) - 1
      /\ \A i \in 1..(Len(gs) - 1) : Outer(gs)[i] = gs[i]
  BY <1>1, OuterFrames
<1>3. Len(Outer(gs)) = Len(fs) /\ \A i \in 1..Len(fs) : Outer(gs)[i] = fs[i]
  BY <1>1, <1>2
<1>4. Outer(gs) = fs
  BY <1>2, <1>3, SeqEqual
<1> QED BY <1>4 DEF gs

LEMMA RestAppended ==
    ASSUME NEW fs \in Seq(FrameSet), NEW f \in FrameSet
    PROVE  Rest(Append(fs, f)) = Cons(Closer(f), Rest(fs))
<1>1. /\ Append(fs, f) \in Seq(FrameSet) /\ Append(fs, f) # <<>>
      /\ Append(fs, f)[Len(Append(fs, f))] = f
  BY Appended
<1>2. Outer(Append(fs, f)) = fs
  BY OuterAppended
<1> QED BY <1>1, <1>2, RestFirst

\* A name or an index changes nothing of it.
LEMMA RestSame ==
    ASSUME NEW fs \in Seq(FrameSet), fs # <<>>, NEW gs, SameTop(fs, gs)
    PROVE  Outer(gs) = Outer(fs) /\ Rest(gs) = Rest(fs) /\ gs # <<>>
<1>1. /\ gs \in Seq(FrameSet) /\ Len(gs) = Len(fs) /\ Len(fs) \in Nat /\ Len(fs) > 0
      /\ \A i \in 1..Len(fs) : gs[i].kind = fs[i].kind
      /\ \A i \in 1..Len(fs) : i # Len(fs) => gs[i] = fs[i]
  BY DEF SameTop
<1>2. gs # <<>>
  BY <1>1
<1>3. Outer(gs) = Outer(fs)
  <2>1. /\ Outer(fs) \in Seq(FrameSet) /\ Len(Outer(fs)) = Len(fs) - 1
        /\ \A i \in 1..(Len(fs) - 1) : Outer(fs)[i] = fs[i]
    BY OuterFrames
  <2>2. /\ Outer(gs) \in Seq(FrameSet) /\ Len(Outer(gs)) = Len(gs) - 1
        /\ \A i \in 1..(Len(gs) - 1) : Outer(gs)[i] = gs[i]
    BY <1>1, <1>2, OuterFrames
  <2>3. Len(Outer(gs)) = Len(Outer(fs))
    BY <1>1, <2>1, <2>2
  <2>4. ASSUME NEW i \in 1..Len(Outer(gs)) PROVE Outer(gs)[i] = Outer(fs)[i]
    <3>1. i \in 1..(Len(fs) - 1) /\ i \in 1..(Len(gs) - 1) /\ i \in 1..Len(fs) /\ i # Len(fs)
      BY <1>1, <2>2
    <3> QED BY <1>1, <2>1, <2>2, <3>1
  <2> QED BY <2>1, <2>2, <2>3, <2>4, SeqEqual
<1>4. Closer(gs[Len(gs)]) = Closer(fs[Len(fs)])
  <2>1. Len(fs) \in 1..Len(fs)
    BY <1>1
  <2>2. gs[Len(gs)].kind = fs[Len(fs)].kind
    BY <1>1, <2>1
  <2> QED BY <2>2 DEF Closer
<1>5. /\ Rest(fs) = Cons(Closer(fs[Len(fs)]), Rest(Outer(fs)))
      /\ Rest(gs) = Cons(Closer(gs[Len(gs)]), Rest(Outer(gs)))
  BY <1>1, <1>2, RestFirst
<1> QED BY <1>2, <1>3, <1>4, <1>5

------------------------------------------------------------------------------
(* What the reader accepts *)

\* The documents of which AcceptsJson speaks.
Clean ==
    /\ heard = 0 /\ ~emptyName
    /\ ~features.allowDroppedNull /\ ~features.allowNumericKeys
    /\ Ours => ~features.allowTrailingCommas

\* The symbols that RFC 8259 still expects where a function is that has not failed.
AwaitedIn(p, fs) ==
    LET top == fs[Len(fs)]
    IN  CASE p = "value" ->
                IF fs # <<>> /\ top.kind = "array" /\ top.index = 1
                THEN Cons("elements or ]", Rest(Outer(fs))) ELSE Cons("value", Rest(fs))
          [] p = "name" ->
                Cons(IF top.name = "" THEN "members or }" ELSE "member", Rest(Outer(fs)))
          [] p = "colon" -> AfterMember(Rest(Outer(fs)))
          [] p = "first" -> Cons("elements or ]", Rest(Outer(fs)))
          [] p = "element" ->
                IF top.index = 0 THEN Cons("elements or ]", Rest(Outer(fs)))
                ELSE Cons("value", Rest(fs))
          [] p \in {"comma", "separator", "finish"} -> Rest(fs)

Awaited == AwaitedIn(pc, frames)

Plain == {"value", "name", "colon", "first", "element", "comma", "separator"}

\* At the first element, the token ahead is known not to be a "]".
Ahead ==
    Clean /\ (\/ pc = "element" /\ Top.index = 0
              \/ pc = "value" /\ frames # <<>> /\ Top.kind = "array" /\ Top.index = 1)
    => unread.type # "]" /\ (unread # NoToken \/ left = 0)

Follows ==
    /\ Clean /\ (pc \in Plain \/ (pc = "finish" /\ errors = 0)) => rfc = Awaited
    /\ pc = "after comment" => heard # 0

\* Reader: the text was refused where the grammar refuses it.
Refused == Clean /\ ~Ours /\ errors > 0 /\ pc \in {"recover", "finish"} => rfc = Reject

Judged == pc = "done" => IF Ours THEN OneText ELSE AcceptsText

\* A document stays clean only while no comment is read.
LEMMA CleanBefore ==
    ASSUME NEW t, Typed, UNCHANGED settings, Clean', emptyName => emptyName',
           Hear(t)
    PROVE  Clean /\ t.type # "comment"
<1>1. features' = features /\ Ours' = Ours
  BY DEF settings, Ours
<1>2. heard \in Nat /\ heard' = 0
  BY DEF Typed, Marked, Clean
<1>3. t.type # "comment" /\ heard = 0
  BY <1>2 DEF Hear
<1>4. ~emptyName
  BY DEF Clean
<1> QED BY <1>1, <1>3, <1>4 DEF Clean

LEMMA CleanSame ==
    ASSUME UNCHANGED settings, UNCHANGED <<heard, emptyName>>
    PROVE  Clean' <=> Clean
BY DEF Clean, settings, Ours

Grammar == Ahead /\ Follows /\ Refused /\ Judged

LEMMA AwaitedAt ==
    ASSUME NEW p, NEW fs
    PROVE  /\ p = "value" =>
                 AwaitedIn(p, fs) =
                    IF fs # <<>> /\ fs[Len(fs)].kind = "array" /\ fs[Len(fs)].index = 1
                    THEN Cons("elements or ]", Rest(Outer(fs))) ELSE Cons("value", Rest(fs))
           /\ p = "name" =>
                 AwaitedIn(p, fs) =
                    Cons(IF fs[Len(fs)].name = "" THEN "members or }" ELSE "member",
                         Rest(Outer(fs)))
           /\ p = "colon" => AwaitedIn(p, fs) = AfterMember(Rest(Outer(fs)))
           /\ p = "first" => AwaitedIn(p, fs) = Cons("elements or ]", Rest(Outer(fs)))
           /\ p = "element" =>
                 AwaitedIn(p, fs) =
                    IF fs[Len(fs)].index = 0 THEN Cons("elements or ]", Rest(Outer(fs)))
                    ELSE Cons("value", Rest(fs))
           /\ p \in {"comma", "separator", "finish"} => AwaitedIn(p, fs) = Rest(fs)
BY DEF AwaitedIn

\* Nothing is said of a document that is not clean, before the end.
LEMMA GrammarLost ==
    ASSUME ~Clean', pc' # "done", pc' = "after comment" => heard' # 0
    PROVE  Grammar'
BY DEF Grammar, Ahead, Follows, Refused, Judged

\* readValue returns, and what it read was a value.
LEMMA GrammarReturns ==
    ASSUME NEW fs, Return(fs, TRUE), errors' = 0, Clean' => rfc' = Rest(fs)
    PROVE  Grammar'
<1>1. frames' = fs /\ pc' \in {"finish", "comma", "separator"}
  BY ReturnPlace
<1>2. Awaited' = Rest(fs)
  BY <1>1, AwaitedAt DEF Awaited
<1>3. pc' # "done" /\ pc' # "after comment" /\ pc' # "value" /\ pc' # "element"
  BY <1>1
<1>4. Follows'
  BY <1>2, <1>3 DEF Follows
<1>5. Ahead' /\ Judged'
  BY <1>3 DEF Ahead, Judged
<1>6. Refused'
  BY DEF Refused
<1> QED BY <1>4, <1>5, <1>6 DEF Grammar

\* It fails, or a function around it does.
LEMMA GrammarFails ==
    ASSUME pc' \in {"recover", "finish"}, errors' \in Nat, errors' # 0,
           Clean' /\ ~Ours' => rfc' = Reject
    PROVE  Grammar'
BY DEF Grammar, Ahead, Follows, Refused, Judged, Plain

\* A function goes on, with the symbols that are awaited there.
LEMMA GrammarGoesOn ==
    ASSUME pc' \in Plain, errors' = 0, Clean' => rfc' = Awaited',
           pc' \notin {"element", "value"}
    PROVE  Grammar'
BY DEF Grammar, Ahead, Follows, Refused, Judged, Plain

\* A value is expected, and the token t is the next one.
LEMMA ValueAwaited ==
    ASSUME NEW t, Shape, Ahead, Follows, Clean, pc = "value", Take(t), t.type # "comment"
    PROVE  Expected(rfc, t) = AfterValue(t.type, Rest(frames))
<1>1. frames \in Seq(FrameSet)
  BY AtValue
<1>2. rfc = Awaited
  BY DEF Follows, Plain
<1>3. CASE frames # <<>> /\ Top.kind = "array" /\ Top.index = 1
  <2>1. rfc = Cons("elements or ]", Rest(Outer(frames)))
    BY <1>2, <1>3, AwaitedAt DEF Awaited, Top
  <2>2. unread.type # "]" /\ (unread # NoToken \/ left = 0)
    BY <1>3 DEF Ahead
  <2>3. t.type # "]"
    <3>1. CASE unread # NoToken
      BY <2>2, <3>1 DEF Take
    <3>2. CASE unread = NoToken
      <4>1. t = EndOfStream
        BY <2>2, <3>2 DEF Take
      <4> QED BY <4>1 DEF EndOfStream, Item
    <3> QED BY <3>1, <3>2
  <2>4. Outer(frames) \in Seq(FrameSet)
    BY <1>1, <1>3, OuterFrames
  <2>5. Rest(Outer(frames)) \in Seq(Symbols)
    BY <2>4, RestSymbols
  <2>6. Expected(rfc, t) = AfterValue(t.type, Cons(", or ]", Rest(Outer(frames))))
    BY <2>1, <2>3, <2>5, ExpectedElements
  <2>7. Rest(frames) = Cons(Closer(frames[Len(frames)]), Rest(Outer(frames)))
    BY <1>1, <1>3, RestFirst
  <2>8. Closer(frames[Len(frames)]) = ", or ]"
    BY <1>3 DEF Top, Closer
  <2> QED BY <2>6, <2>7, <2>8
<1>4. CASE ~(frames # <<>> /\ Top.kind = "array" /\ Top.index = 1)
  <2>1. rfc = Cons("value", Rest(frames))
    BY <1>2, <1>4, AwaitedAt DEF Awaited, Top
  <2>2. Rest(frames) \in Seq(Symbols)
    BY <1>1, RestSymbols
  <2> QED BY <2>1, <2>2, ExpectedValue
<1> QED BY <1>3, <1>4

LEMMA GrammarValue ==
    ASSUME NEW t, Shape, Typed, Counted, Grammar, UNCHANGED settings, ValueStep(t)
    PROVE  Grammar'
<1>1. /\ pc = "value" /\ emptyName' = emptyName /\ errors = 0
      /\ \/ BeginContainer(t) \/ DecodeScalar(t) \/ UndecodedScalar(t) \/ DroppedNull(t)
         \/ ValueExpected(t) \/ SkipComment(t)
  BY DEF ValueStep, InValue, Counted
<1>2. frames \in Seq(FrameSet)
  BY <1>1, AtValue
<1>3. ASSUME Read(t), Clean'
      PROVE  Clean /\ t.type # "comment" /\ rfc' = AfterValue(t.type, Rest(frames))
  <2>1. Take(t) /\ Hear(t) /\ rfc' = Expected(rfc, t)
    BY <1>3 DEF Read
  <2>2. Clean /\ t.type # "comment"
    BY <1>1, <1>3, <2>1, CleanBefore
  <2> QED BY <1>1, <2>1, <2>2, ValueAwaited DEF Grammar
<1>4. CASE BeginContainer(t)
  <2> DEFINE f == [kind |-> IF t.type = "{" THEN "object" ELSE "array", name |-> "", index |-> 0]
  <2>1. /\ frames' = Append(frames, f) /\ Read(t) /\ errors' = errors /\ t.type \in {"{", "["}
        /\ pc' = IF t.type = "{" THEN "name" ELSE "first"
    BY <1>4 DEF BeginContainer
  <2>2. f \in FrameSet /\ f.name = ""
    BY DEF FrameSet, Labels
  <2> HIDE DEF f
  <2>3. Outer(frames') = frames
    BY <1>2, <2>1, <2>2, OuterAppended
  <2>4. Top' = f
    <3>1. /\ Append(frames, f)[Len(frames) + 1] = f
          /\ Len(Append(frames, f)) = Len(frames) + 1
      BY <1>2, <2>2, Appended
    <3> QED BY <2>1, <3>1 DEF Top
  <2>5. ASSUME Clean' PROVE rfc' = Awaited'
    <3>1. rfc' = AfterValue(t.type, Rest(frames))
      BY <1>3, <2>1, <2>5
    <3>2. CASE t.type = "{"
      <4>1. rfc' = Cons("members or }", Rest(frames))
        BY <3>1, <3>2 DEF AfterValue
      <4>2. Awaited' = Cons("members or }", Rest(frames))
        <5>1. pc' = "name" /\ frames'[Len(frames')].name = ""
          BY <2>1, <2>2, <2>4, <3>2 DEF Top
        <5> QED BY <2>3, <5>1, AwaitedAt DEF Awaited
      <4> QED BY <4>1, <4>2
    <3>3. CASE t.type = "["
      <4>1. rfc' = Cons("elements or ]", Rest(frames))
        BY <3>1, <3>3 DEF AfterValue
      <4>2. Awaited' = Cons("elements or ]", Rest(frames))
        <5>1. pc' = "first"
          BY <2>1, <3>3
        <5> QED BY <2>3, <5>1, AwaitedAt DEF Awaited
      <4> QED BY <4>1, <4>2
    <3> QED BY <2>1, <3>2, <3>3
  <2>6. pc' \in Plain /\ pc' \notin {"element", "value"}
    BY <2>1 DEF Plain
  <2> QED BY <1>1, <2>1, <2>5, <2>6, GrammarGoesOn
<1>5. CASE DecodeScalar(t)
  <2>1. Return(frames, TRUE) /\ errors' = errors /\ Read(t) /\ t.type \in Scalars
    BY <1>5 DEF DecodeScalar
  <2>2. ASSUME Clean' PROVE rfc' = Rest(frames)
    <3>1. rfc' = AfterValue(t.type, Rest(frames))
      BY <1>3, <2>1, <2>2
    <3>2. t.type \notin {"{", "["}
      BY <2>1 DEF Scalars
    <3> QED BY <2>1, <3>1, <3>2 DEF AfterValue
  <2> QED BY <1>1, <2>1, <2>2, GrammarReturns
<1>6. CASE DroppedNull(t)
  <2>1. Return(frames, TRUE) /\ errors' = errors /\ features.allowDroppedNull
    BY <1>6 DEF DroppedNull
  <2>2. ~Clean'
    BY <2>1 DEF Clean, settings
  <2> QED BY <1>1, <2>1, <2>2, GrammarReturns
<1>7. CASE UndecodedScalar(t) \/ ValueExpected(t)
  <2>1. Return(frames, FALSE)
    BY <1>7, Zenon DEF UndecodedScalar, ValueExpected
  <2>2. errors' = errors + 1 /\ Read(t)
    BY <1>7 DEF UndecodedScalar, ValueExpected
  <2>3. t.type \in {"badString", "badNumber", ":", "error", "end", "comment"} \cup Separators
    BY <1>7 DEF UndecodedScalar, ValueExpected
  <2>4. t.type \notin {"{", "["} \cup Scalars
    BY <2>3 DEF Scalars, Separators
  <2>5. pc' \in {"recover", "finish"}
    BY <2>1, ReturnPlace, Zenon
  <2>6. ASSUME Clean' PROVE rfc' = Reject
    <3>1. rfc' = AfterValue(t.type, Rest(frames))
      BY <1>3, <2>2, <2>6
    <3> QED BY <2>4, <3>1 DEF AfterValue
  <2>7. errors' \in Nat /\ errors' # 0
    BY <1>1, <2>2
  <2> QED BY <2>5, <2>6, <2>7, GrammarFails
<1>8. CASE SkipComment(t)
  <2>1. Read(t) /\ t.type = "comment" /\ pc' = pc
    BY <1>1, <1>8 DEF SkipComment
  <2>2. ~Clean'
    BY <1>3, <2>1
  <2> QED BY <1>1, <2>1, <2>2, GrammarLost
<1> QED BY <1>1, <1>4, <1>5, <1>6, <1>7, <1>8

\* What the tokens that go on leave expected.
LEMMA ExpectedCloses ==
    ASSUME NEW r \in Seq(Symbols), NEW t
    PROVE  /\ t.type = "}" => Expected(Cons(", or }", r), t) = r
           /\ t.type = "]" => Expected(Cons(", or ]", r), t) = r
           /\ t.type = "," => Expected(Cons(", or }", r), t) = Cons("member", r)
           /\ t.type = "," => Expected(Cons(", or ]", r), t) = Cons("value", Cons(", or ]", r))
<1>1. ASSUME t.type = "}" PROVE Expected(Cons(", or }", r), t) = r
  <2>1. t.type # "comment" /\ t.type # ","
    BY <1>1
  <2>2. Expected(Cons(", or }", r), t) =
           IF t.type = "," THEN Cons("member", r) ELSE IF t.type = "}" THEN r ELSE Reject
    BY <2>1, ExpectedOthers, Zenon
  <2> QED BY <1>1, <2>1, <2>2
<1>2. ASSUME t.type = "]" PROVE Expected(Cons(", or ]", r), t) = r
  <2>1. t.type # "comment" /\ t.type # ","
    BY <1>2
  <2>2. Expected(Cons(", or ]", r), t) =
           IF t.type = "," THEN Cons("value", Cons(", or ]", r))
           ELSE IF t.type = "]" THEN r ELSE Reject
    BY <2>1, ExpectedOthers, Zenon
  <2> QED BY <1>2, <2>1, <2>2
<1>3. ASSUME t.type = "," PROVE Expected(Cons(", or }", r), t) = Cons("member", r)
  BY <1>3, ExpectedOthers
<1>4. ASSUME t.type = "," PROVE Expected(Cons(", or ]", r), t) = Cons("value", Cons(", or ]", r))
  BY <1>4, ExpectedOthers
<1> QED BY <1>1, <1>2, <1>3, <1>4

LEMMA ExpectedNamed ==
    ASSUME NEW r \in Seq(Symbols), NEW t, t.type = "string"
    PROVE  /\ Expected(Cons("members or }", r), t) = AfterMember(r)
           /\ Expected(Cons("member", r), t) = AfterMember(r)
<1>1. Expected(Cons("members or }", r), t) = AfterMember(r)
  <2>1. t.type # "comment" /\ t.type # "}"
    OBVIOUS
  <2>2. Expected(Cons("members or }", r), t) =
           IF t.type = "}" THEN r ELSE IF t.type = "string" THEN AfterMember(r) ELSE Reject
    BY <2>1, ExpectedOthers, Zenon
  <2> QED BY <2>1, <2>2
<1>2. Expected(Cons("member", r), t) = AfterMember(r)
  BY ExpectedOthers
<1> QED BY <1>1, <1>2

\* Within a container that has not failed: the symbols are those of the innermost function.
LEMMA ContainerAwaited ==
    ASSUME Shape, Follows, Clean, pc \in InObject \cup InArray
    PROVE  /\ rfc = AwaitedIn(pc, frames) /\ pc # "after comment"
           /\ Rest(Outer(frames)) \in Seq(Symbols)
           /\ pc \in InObject => Rest(frames) = Cons(", or }", Rest(Outer(frames)))
           /\ pc \in InArray => Rest(frames) = Cons(", or ]", Rest(Outer(frames)))
<1>1. frames \in Seq(FrameSet) /\ frames # <<>>
      /\ (pc \in InObject => Top.kind = "object") /\ (pc \in InArray => Top.kind = "array")
  BY InContainer
<1>2. pc # "after comment"
  BY DEF Follows, Clean
<1>3. rfc = AwaitedIn(pc, frames)
  BY <1>2 DEF Follows, Plain, InObject, InArray, Awaited
<1>4. Outer(frames) \in Seq(FrameSet)
  BY <1>1, OuterFrames
<1>5. Rest(Outer(frames)) \in Seq(Symbols)
  BY <1>4, RestSymbols
<1>6. Rest(frames) = Cons(Closer(frames[Len(frames)]), Rest(Outer(frames)))
  BY <1>1, RestFirst
<1>7. /\ pc \in InObject => Closer(frames[Len(frames)]) = ", or }"
      /\ pc \in InArray => Closer(frames[Len(frames)]) = ", or ]"
  BY <1>1 DEF Closer, Top
<1> QED BY <1>2, <1>3, <1>5, <1>6, <1>7

LEMMA GrammarClosing ==
    ASSUME NEW t, Shape, Typed, Counted, Grammar, UNCHANGED settings, Closing(t),
           emptyName' = emptyName
    PROVE  Grammar'
<1>1. /\ pc \in InObject \cup InArray /\ Read(t) /\ EndContainer(TRUE) /\ t.type \in {"}", "]"}
      /\ errors = 0
  BY DEF Closing, ClosesEither, OurCloses, Closes, InObject, InArray, Counted
<1>2. Return(Outer(frames), TRUE) /\ errors' = 0
  BY <1>1 DEF EndContainer, Outer
<1>3. ASSUME Clean' PROVE rfc' = Rest(Outer(frames))
  <2>1. Take(t) /\ Hear(t) /\ rfc' = Expected(rfc, t)
    BY <1>1 DEF Read
  <2>2. Clean /\ t.type # "comment"
    BY <1>3, <2>1, CleanBefore
  <2>3. /\ rfc = AwaitedIn(pc, frames) /\ pc # "after comment"
        /\ Rest(Outer(frames)) \in Seq(Symbols)
        /\ pc \in InObject => Rest(frames) = Cons(", or }", Rest(Outer(frames)))
        /\ pc \in InArray => Rest(frames) = Cons(", or ]", Rest(Outer(frames)))
    BY <1>1, <2>2, ContainerAwaited DEF Grammar
  <2>4. CASE pc = "name"
    <3>1. ClosesEither(t)
      BY <2>4 DEF Closing
    <3>2. t.type = "}" /\ Top.name = ""
      <4>1. CASE Ours
        <5>1. ~features.allowTrailingCommas
          BY <2>2, <4>1 DEF Clean
        <5> QED BY <3>1, <4>1, <5>1 DEF ClosesEither, OurCloses
      <4>2. CASE ~Ours
        BY <3>1, <4>2 DEF ClosesEither, Closes
      <4> QED BY <4>1, <4>2
    <3>3. rfc = Cons("members or }", Rest(Outer(frames)))
      BY <2>3, <2>4, <3>2, AwaitedAt DEF Top
    <3> QED BY <2>1, <2>2, <2>3, <3>2, <3>3, ExpectedOthers
  <2>5. CASE pc = "comma"
    <3>1. t.type = "}" /\ pc \in InObject
      BY <2>5 DEF Closing, InObject
    <3>2. rfc = Cons(", or }", Rest(Outer(frames)))
      BY <2>3, <2>5, <3>1, AwaitedAt
    <3>3. Expected(Cons(", or }", Rest(Outer(frames))), t) = Rest(Outer(frames))
      BY <2>3, <3>1, ExpectedCloses
    <3> QED BY <2>1, <3>2, <3>3
  <2>6. CASE pc = "first"
    <3>1. t.type = "]"
      BY <2>6 DEF Closing
    <3>2. rfc = Cons("elements or ]", Rest(Outer(frames)))
      BY <2>3, <2>6, AwaitedAt
    <3> QED BY <2>1, <2>2, <2>3, <3>1, <3>2, ExpectedElements
  <2>7. CASE pc = "separator"
    <3>1. t.type = "]" /\ pc \in InArray
      BY <2>7 DEF Closing, InArray
    <3>2. rfc = Cons(", or ]", Rest(Outer(frames)))
      BY <2>3, <2>7, <3>1, AwaitedAt
    <3>3. Expected(Cons(", or ]", Rest(Outer(frames))), t) = Rest(Outer(frames))
      BY <2>3, <3>1, ExpectedCloses
    <3> QED BY <2>1, <3>2, <3>3
  <2>8. CASE pc = "element"
    <3>1. Ours /\ unread = NoToken /\ MayEnd /\ t.type = "]"
      BY <2>8 DEF Closing
    <3>2. Top.index = 0
      BY <2>2, <3>1 DEF Clean, MayEnd
    <3>3. left = 0
      BY <2>2, <2>8, <3>1, <3>2 DEF Grammar, Ahead
    <3>4. t = EndOfStream
      BY <2>1, <3>1, <3>3 DEF Take
    <3>5. EndOfStream.type = "end"
      BY DEF EndOfStream, Item
    <3> QED BY <3>1, <3>4, <3>5
  <2>9. pc \in {"name", "comma", "after comment", "first", "separator", "element"}
    BY DEF Closing
  <2> QED BY <2>3, <2>4, <2>5, <2>6, <2>7, <2>8, <2>9
<1> QED BY <1>2, <1>3, GrammarReturns

LEMMA GrammarFailing ==
    ASSUME NEW t, Shape, Typed, Counted, Begun, Grammar, UNCHANGED settings, Failing(t),
           emptyName' = emptyName
    PROVE  Grammar'
<1>1. /\ Read(t) /\ pc' = "recover" /\ errors' = errors + 1
      /\ pc \in {"name", "colon", "comma", "separator"}
  BY DEF Failing, Fail
<1>2. errors' \in Nat /\ errors' # 0
  BY <1>1 DEF Typed
<1>3. ASSUME Clean', ~Ours' PROVE rfc' = Reject
  <2>1. Take(t) /\ Hear(t) /\ rfc' = Expected(rfc, t) /\ ~Ours
    BY <1>1, <1>3 DEF Read, settings, Ours
  <2>2. Clean /\ t.type # "comment"
    BY <1>3, <2>1, CleanBefore
  <2>3. pc \in InObject \cup InArray
    BY <1>1 DEF InObject, InArray
  <2>4. /\ rfc = AwaitedIn(pc, frames)
        /\ Rest(Outer(frames)) \in Seq(Symbols)
        /\ pc \in InObject => Rest(frames) = Cons(", or }", Rest(Outer(frames)))
        /\ pc \in InArray => Rest(frames) = Cons(", or ]", Rest(Outer(frames)))
    BY <2>2, <2>3, ContainerAwaited DEF Grammar
  <2>5. CASE pc = "name"
    <3>1. ~IsName(t) /\ ~Closes(t)
      BY <2>1, <2>5 DEF Failing, ClosesEither
    <3>2. t.type # "string" /\ ~(t.type = "}" /\ Top.name = "")
      BY <3>1 DEF IsName, Closes
    <3>3. rfc = Cons(IF Top.name = "" THEN "members or }" ELSE "member", Rest(Outer(frames)))
      BY <2>4, <2>5, AwaitedAt DEF Top
    <3>4. CASE Top.name = ""
      <4>1. rfc = Cons("members or }", Rest(Outer(frames)))
        BY <3>3, <3>4
      <4> QED BY <2>1, <2>2, <2>4, <3>2, <3>4, <4>1, ExpectedOthers
    <3>5. CASE Top.name # ""
      <4>1. rfc = Cons("member", Rest(Outer(frames)))
        BY <3>3, <3>5
      <4> QED BY <2>1, <2>2, <2>4, <3>2, <4>1, ExpectedOthers
    <3> QED BY <3>4, <3>5
  <2>6. CASE pc = "colon"
    <3>1. t.type # ":"
      BY <2>6 DEF Failing
    <3>2. rfc = AfterMember(Rest(Outer(frames)))
      BY <2>4, <2>6, AwaitedAt
    <3>3. Cons("value", Cons(", or }", Rest(Outer(frames)))) \in Seq(Symbols)
      <4>1. "value" \in Symbols /\ ", or }" \in Symbols
        BY DEF Symbols
      <4> QED BY <2>4, <4>1, ConsParts
    <3> QED BY <2>1, <2>2, <3>1, <3>2, <3>3, ExpectedOthers DEF AfterMember
  <2>7. CASE pc = "comma"
    <3>1. t.type \notin {",", "}"} /\ pc \in InObject
      BY <2>7 DEF Failing, InObject
    <3>2. rfc = Cons(", or }", Rest(Outer(frames)))
      BY <2>4, <2>7, <3>1, AwaitedAt
    <3> QED BY <2>1, <2>2, <2>4, <3>1, <3>2, ExpectedOthers
  <2>8. CASE pc = "separator"
    <3>1. t.type \notin {",", "]"} /\ pc \in InArray
      BY <2>8 DEF Failing, InArray
    <3>2. rfc = Cons(", or ]", Rest(Outer(frames)))
      BY <2>4, <2>8, <3>1, AwaitedAt
    <3> QED BY <2>1, <2>2, <2>4, <3>1, <3>2, ExpectedOthers
  <2> QED BY <1>1, <2>5, <2>6, <2>7, <2>8
<1> QED BY <1>1, <1>2, <1>3, GrammarFails

LEMMA GrammarNaming ==
    ASSUME NEW t \in AllTokens, Shape, Typed, Counted, Grammar, UNCHANGED settings, Naming(t)
    PROVE  Grammar'
<1>1. /\ SameTop(frames, frames') /\ frames \in Seq(FrameSet) /\ frames # <<>>
      /\ pc = "name" /\ pc' = "colon"
  BY NamingFrames
<1>2. Read(t) /\ IsName(t) /\ errors' = errors /\ errors = 0 /\ (emptyName => emptyName')
  BY <1>1 DEF Naming, Named, Counted
<1>3. Outer(frames') = Outer(frames)
  BY <1>1, RestSame
<1>4. ASSUME Clean' PROVE rfc' = Awaited'
  <2>1. Take(t) /\ Hear(t) /\ rfc' = Expected(rfc, t)
    BY <1>2 DEF Read
  <2>2. Clean /\ t.type # "comment"
    BY <1>2, <1>4, <2>1, CleanBefore
  <2>3. rfc = AwaitedIn(pc, frames) /\ Rest(Outer(frames)) \in Seq(Symbols)
    BY <1>1, <2>2, ContainerAwaited DEF Grammar, InObject
  <2>4. t.type = "string"
    BY <1>2, <2>2 DEF IsName, Clean
  <2>5. \/ rfc = Cons("members or }", Rest(Outer(frames)))
        \/ rfc = Cons("member", Rest(Outer(frames)))
    BY <1>1, <2>3, AwaitedAt
  <2>6. rfc' = AfterMember(Rest(Outer(frames)))
    <3>1. /\ Expected(Cons("members or }", Rest(Outer(frames))), t) =
                AfterMember(Rest(Outer(frames)))
          /\ Expected(Cons("member", Rest(Outer(frames))), t) = AfterMember(Rest(Outer(frames)))
      BY <2>3, <2>4, ExpectedNamed
    <3> QED BY <2>1, <2>5, <3>1
  <2>7. Awaited' = AfterMember(Rest(Outer(frames')))
    BY <1>1, AwaitedAt DEF Awaited
  <2> QED BY <1>3, <2>6, <2>7
<1>5. pc' \in Plain /\ pc' \notin {"element", "value"}
  BY <1>1 DEF Plain
<1> QED BY <1>2, <1>4, <1>5, GrammarGoesOn

\* A function goes on where the token ahead matters.
LEMMA GrammarLooks ==
    ASSUME pc' \in {"element", "value"}, errors' = 0, Clean' => rfc' = Awaited', Ahead'
    PROVE  Grammar'
BY DEF Grammar, Follows, Refused, Judged, Plain

LEMMA GrammarMember ==
    ASSUME NEW t, Shape, Typed, Counted, Begun, Grammar, UNCHANGED settings, NextMember(t),
           emptyName' = emptyName
    PROVE  Grammar'
<1>1. /\ pc \in InObject /\ pc' = "name" /\ frames' = frames /\ errors' = errors /\ errors = 0
      /\ Read(t) /\ (pc = "comma" => t.type = ",")
  BY DEF NextMember, Goto, InObject, Counted
<1>2. ASSUME Clean' PROVE rfc' = Awaited'
  <2>1. Hear(t) /\ rfc' = Expected(rfc, t)
    BY <1>1 DEF Read
  <2>2. Clean
    BY <1>2, <2>1, CleanBefore
  <2>3. /\ rfc = AwaitedIn(pc, frames) /\ pc # "after comment"
        /\ Rest(Outer(frames)) \in Seq(Symbols)
        /\ Rest(frames) = Cons(", or }", Rest(Outer(frames)))
    BY <1>1, <2>2, ContainerAwaited DEF Grammar
  <2>4. pc = "comma" /\ t.type = ","
    BY <1>1, <2>3 DEF NextMember
  <2>5. rfc = Cons(", or }", Rest(Outer(frames)))
    BY <2>3, <2>4, AwaitedAt
  <2>6. Expected(Cons(", or }", Rest(Outer(frames))), t) = Cons("member", Rest(Outer(frames)))
    BY <2>3, <2>4, ExpectedCloses
  <2>7. frames[Len(frames)].name # ""
    <3>1. Len(frames) \in Nat /\ Len(frames) > 0 /\ Top.kind = "object"
      BY <1>1, InContainer
    <3>2. Len(frames) \in 1..Len(frames)
      BY <3>1
    <3>3. HasBegun(frames[Len(frames)], emptyName)
      <4>1. pc \notin Starting
        BY <2>4 DEF Starting
      <4> QED BY <3>2, <4>1, Zenon DEF Begun
    <3> QED BY <2>2, <3>1, <3>3 DEF HasBegun, Top, Clean
  <2>8. AwaitedIn("name", frames) = Cons("member", Rest(Outer(frames)))
    BY <2>7, AwaitedAt
  <2>9. Awaited' = AwaitedIn("name", frames)
    BY <1>1 DEF Awaited
  <2> QED BY <2>1, <2>5, <2>6, <2>8, <2>9
<1> QED BY <1>1, <1>2, GrammarGoesOn DEF Plain

LEMMA GrammarRound ==
    ASSUME NEW t, Shape, Typed, Counted, Begun, Grammar, UNCHANGED settings, NextRound(t),
           emptyName' = emptyName
    PROVE  Grammar'
<1>1. /\ pc = "separator" /\ pc' = "element" /\ frames' = frames /\ errors' = errors /\ errors = 0
      /\ Read(t) /\ t.type = ","
  BY DEF NextRound, Goto, Counted
<1>2. frames[Len(frames)].index # 0
  <2>1. Len(frames) \in Nat /\ Len(frames) > 0 /\ Top.kind = "array"
    BY <1>1, InContainer DEF InArray
  <2>2. Len(frames) \in 1..Len(frames)
    BY <2>1
  <2>3. HasBegun(frames[Len(frames)], emptyName)
    <3>1. pc \notin Starting
      BY <1>1 DEF Starting
    <3> QED BY <2>2, <3>1, Zenon DEF Begun
  <2> QED BY <2>1, <2>3 DEF HasBegun, Top
<1>3. Ahead'
  BY <1>1, <1>2 DEF Ahead, Top
<1>4. ASSUME Clean' PROVE rfc' = Awaited'
  <2>1. Hear(t) /\ rfc' = Expected(rfc, t)
    BY <1>1 DEF Read
  <2>2. Clean
    BY <1>4, <2>1, CleanBefore
  <2>3. /\ rfc = AwaitedIn(pc, frames)
        /\ Rest(Outer(frames)) \in Seq(Symbols)
        /\ Rest(frames) = Cons(", or ]", Rest(Outer(frames)))
    BY <1>1, <2>2, ContainerAwaited DEF Grammar, InArray
  <2>4. rfc = Cons(", or ]", Rest(Outer(frames)))
    BY <1>1, <2>3, AwaitedAt
  <2>5. Expected(Cons(", or ]", Rest(Outer(frames))), t) =
           Cons("value", Cons(", or ]", Rest(Outer(frames))))
    BY <1>1, <2>3, ExpectedCloses
  <2>6. AwaitedIn("element", frames) = Cons("value", Rest(frames))
    BY <1>2, AwaitedAt
  <2>7. Awaited' = AwaitedIn("element", frames)
    BY <1>1 DEF Awaited
  <2> QED BY <2>1, <2>3, <2>4, <2>5, <2>6, <2>7
<1> QED BY <1>1, <1>3, <1>4, GrammarLooks

LEMMA GrammarPeeking ==
    ASSUME NEW t, Shape, Typed, Counted, Begun, Grammar, UNCHANGED settings, Peeking(t),
           emptyName' = emptyName
    PROVE  Grammar'
<1>1. /\ pc \in {"first", "element"} /\ t.type # "]" /\ Peek(t)
      /\ pc' = "element" /\ frames' = frames /\ errors' = errors /\ errors = 0
      /\ rfc' = rfc /\ heard' = heard
  BY DEF Peeking, Goto, seen, Counted
<1>2. Clean' <=> Clean
  BY <1>1, CleanSame
<1>3. Ahead'
  <2>1. NoToken.type # "]"
    BY DEF NoToken, Item
  <2>2. \A u \in alphabet : u # NoToken
    BY RealTokens DEF Shape, Setting
  <2>3. unread'.type # "]" /\ (unread' # NoToken \/ left' = 0)
    BY <1>1, <2>1, <2>2 DEF Peek
  <2> QED BY <2>3 DEF Ahead
<1>4. ASSUME Clean' PROVE rfc' = Awaited'
  <2>1. rfc = AwaitedIn(pc, frames)
    BY <1>1, <1>2, <1>4, ContainerAwaited DEF Grammar, InArray
  <2>2. Awaited' = AwaitedIn("element", frames)
    BY <1>1 DEF Awaited
  <2>3. CASE pc = "element"
    BY <1>1, <2>1, <2>2, <2>3
  <2>4. CASE pc = "first"
    <3>1. frames[Len(frames)].index = 0
      BY <2>4 DEF Begun, Top
    <3>2. AwaitedIn("element", frames) = Cons("elements or ]", Rest(Outer(frames)))
      BY <3>1, AwaitedAt
    <3>3. AwaitedIn(pc, frames) = Cons("elements or ]", Rest(Outer(frames)))
      BY <2>4, AwaitedAt
    <3> QED BY <1>1, <2>1, <2>2, <3>2, <3>3
  <2> QED BY <1>1, <2>3, <2>4
<1> QED BY <1>1, <1>3, <1>4, GrammarLooks

LEMMA GrammarColon ==
    ASSUME NEW t, Shape, Typed, Counted, Grammar, UNCHANGED settings, MemberEntered(t),
           emptyName' = emptyName
    PROVE  Grammar'
<1>1. /\ pc = "colon" /\ t.type = ":" /\ Read(t) /\ pc' = "value" /\ frames' = frames
      /\ errors' = errors /\ errors = 0
  BY DEF MemberEntered, Enter, Counted
<1>2. frames[Len(frames)].kind = "object"
  BY <1>1, InContainer DEF InObject, Top
<1>3. Ahead'
  BY <1>1, <1>2 DEF Ahead, Top
<1>4. ASSUME Clean' PROVE rfc' = Awaited'
  <2>1. Hear(t) /\ rfc' = Expected(rfc, t)
    BY <1>1 DEF Read
  <2>2. Clean /\ t.type # "comment"
    BY <1>4, <2>1, CleanBefore
  <2>3. /\ rfc = AwaitedIn(pc, frames)
        /\ Rest(Outer(frames)) \in Seq(Symbols)
        /\ Rest(frames) = Cons(", or }", Rest(Outer(frames)))
    BY <1>1, <2>2, ContainerAwaited DEF Grammar, InObject
  <2>4. rfc = Cons(":", Cons("value", Rest(frames)))
    BY <1>1, <2>3, AwaitedAt DEF AfterMember
  <2>5. Cons("value", Rest(frames)) \in Seq(Symbols)
    <3>1. "value" \in Symbols /\ ", or }" \in Symbols
      BY DEF Symbols
    <3> QED BY <2>3, <3>1, ConsParts
  <2>6. Expected(Cons(":", Cons("value", Rest(frames))), t) = Cons("value", Rest(frames))
    BY <1>1, <2>2, <2>5, ExpectedOthers
  <2>7. AwaitedIn("value", frames) = Cons("value", Rest(frames))
    BY <1>2, AwaitedAt
  <2>8. Awaited' = AwaitedIn("value", frames)
    BY <1>1 DEF Awaited
  <2> QED BY <2>1, <2>4, <2>6, <2>7, <2>8
<1> QED BY <1>1, <1>3, <1>4, GrammarLooks

LEMMA GrammarElement ==
    ASSUME Shape, Typed, Counted, Grammar, UNCHANGED settings, ElementEntered
    PROVE  Grammar'
<1>1. /\ SameTop(frames, frames') /\ frames \in Seq(FrameSet) /\ frames # <<>>
      /\ frames'[Len(frames)].index = Top.index + 1
      /\ frames'[Len(frames)].kind = "array"
      /\ Top.index \in Nat /\ pc = "element" /\ pc' = "value"
  BY ElementFrames
<1>2. /\ UNCHANGED <<left, unread, rfc, heard, emptyName, errors>> /\ errors = 0
  BY DEF ElementEntered, EnterElement, Enter, seen, Counted
<1>3. /\ Outer(frames') = Outer(frames) /\ Rest(frames') = Rest(frames)
      /\ frames' # <<>> /\ Len(frames') = Len(frames)
  BY <1>1, RestSame DEF SameTop
<1>4. Clean' <=> Clean
  BY <1>2, CleanSame
<1>5. Ahead'
  <2>1. Top' = frames'[Len(frames)]
    BY <1>3 DEF Top
  <2>2. Top'.index = Top.index + 1 /\ Top.index \in Nat
    BY <1>1, <2>1
  <2>3. SUFFICES ASSUME Clean', Top'.index = 1
                 PROVE  (unread.type # "]" /\ (unread # NoToken \/ left = 0))'
    BY <1>1 DEF Ahead
  <2>4. Clean /\ pc = "element" /\ Top.index = 0
    BY <1>1, <1>4, <2>2, <2>3
  <2>5. unread.type # "]" /\ (unread # NoToken \/ left = 0)
    BY <2>4 DEF Ahead, Grammar
  <2> QED BY <1>2, <2>5
<1>6. ASSUME Clean' PROVE rfc' = Awaited'
  <2>1. rfc = AwaitedIn("element", frames)
    BY <1>1, <1>4, <1>6, ContainerAwaited DEF Grammar, InArray
  <2>2. AwaitedIn("element", frames) =
           IF Top.index = 0 THEN Cons("elements or ]", Rest(Outer(frames)))
           ELSE Cons("value", Rest(frames))
    BY AwaitedAt DEF Top
  <2>3. AwaitedIn("value", frames') =
           IF frames'[Len(frames')].index = 1
           THEN Cons("elements or ]", Rest(Outer(frames'))) ELSE Cons("value", Rest(frames'))
    BY <1>1, <1>3, AwaitedAt
  <2>4. Awaited' = AwaitedIn("value", frames')
    BY <1>1 DEF Awaited
  <2>5. frames'[Len(frames')].index = 1 <=> Top.index = 0
    BY <1>1, <1>3
  <2>6. AwaitedIn("value", frames') = AwaitedIn("element", frames)
    <3>1. CASE Top.index = 0
      BY <1>3, <2>2, <2>3, <2>5, <3>1, Zenon
    <3>2. CASE Top.index # 0
      BY <1>3, <2>2, <2>3, <2>5, <3>2, Zenon
    <3> QED BY <3>1, <3>2
  <2> QED BY <1>2, <2>1, <2>4, <2>6
<1> QED BY <1>1, <1>2, <1>5, <1>6, GrammarLooks

\* What is refused stays refused.
LEMMA GrammarRecovers ==
    ASSUME NEW t, Shape, Typed, Counted, Grammar, UNCHANGED settings,
           Recovering(t) \/ GivingUp(t), emptyName' = emptyName
    PROVE  Grammar'
<1>1. pc = "recover" /\ Read(t)
  BY DEF Recovering, GivingUp
<1>2. errors' = errors /\ pc' \in {"recover", "finish"}
  <2>1. CASE Recovering(t)
    BY <2>1 DEF Recovering, calls
  <2>2. CASE GivingUp(t)
    <3>1. EndContainer(FALSE)
      BY <2>2, Zenon DEF GivingUp
    <3>2. Return(Outer(frames), FALSE) /\ errors' = errors
      BY <3>1, Zenon DEF EndContainer, Outer
    <3>3. pc' \in {"recover", "finish"}
      BY <3>2, ReturnPlace
    <3> QED BY <3>2, <3>3
  <2> QED BY <2>1, <2>2
<1>3. errors' \in Nat /\ errors' # 0 /\ errors > 0
  BY <1>1, <1>2 DEF Typed, Counted
<1>4. ASSUME Clean', ~Ours' PROVE rfc' = Reject
  <2>1. Hear(t) /\ rfc' = Expected(rfc, t) /\ ~Ours
    BY <1>1, <1>4 DEF Read, settings, Ours
  <2>2. Clean
    BY <1>4, <2>1, CleanBefore
  <2>3. rfc = Reject
    BY <1>1, <1>3, <2>1, <2>2 DEF Grammar, Refused
  <2> QED BY <2>1, <2>3 DEF Expected
<1> QED BY <1>2, <1>3, <1>4, GrammarFails

\* A comment is read.
LEMMA GrammarComment ==
    ASSUME NEW t, Typed, UNCHANGED settings, t.type = "comment", Hear(t), pc' # "done"
    PROVE  Grammar'
<1>1. heard' # 0
  BY DEF Hear, Typed, Marked
<1> QED BY <1>1, GrammarLost DEF Clean

LEMMA GrammarEnding ==
    ASSUME NEW t, Shape, Typed, Counted, Grammar, UNCHANGED settings, Ending(t),
           emptyName' = emptyName
    PROVE  Grammar'
<1>1. /\ pc = "finish" /\ pc' = "done" /\ Hear(t) /\ frames = <<>> /\ tree' = tree
      /\ features' = features /\ (Ours' <=> Ours)
  BY DEF Ending, Shape, Where, settings, Ours
<1>2. /\ result <=> errors = 0
      /\ result' <=> result /\ ~(Ours /\ Extra(t)) /\ ~Bare
  BY <1>1 DEF Ending, Counted, Typed
<1>3. ASSUME Clean' PROVE Clean /\ (errors = 0 => rfc = <<>>)
  <2>1. Clean
    BY <1>1, <1>3, CleanBefore
  <2>2. ASSUME errors = 0 PROVE rfc = <<>>
    <3>1. rfc = Awaited
      BY <1>1, <2>1, <2>2 DEF Grammar, Follows
    <3>2. Awaited = Rest(<<>>)
      BY <1>1, AwaitedAt DEF Awaited
    <3> QED BY <3>1, <3>2, RestEmpty
  <2> QED BY <2>1, <2>2
<1>4. CASE Ours
  <2>1. ASSUME Clean', result' PROVE rfc' = <<>>
    <3>1. rfc = <<>> /\ ~Extra(t)
      BY <1>2, <1>3, <1>4, <2>1
    <3>2. rfc' = rfc
      BY <3>1 DEF Ending, Extra
    <3> QED BY <3>1, <3>2
  <2>2. OneText'
    BY <1>1, <1>4, <2>1 DEF OneText, Clean
  <2> QED BY <1>1, <1>4, <2>2 DEF Grammar, Ahead, Follows, Refused, Judged, Plain
<1>5. CASE ~Ours
  <2>1. rfc' = rfc
    BY <1>5 DEF Ending
  <2>2. ASSUME Clean' PROVE result' <=> rfc' = <<>> /\ ~Bare
    <3>1. ASSUME errors # 0 PROVE rfc # <<>>
      <4>1. errors > 0
        BY <3>1 DEF Typed
      <4>2. rfc = Reject
        BY <1>1, <1>3, <1>5, <2>2, <4>1 DEF Grammar, Refused
      <4> QED BY <4>2 DEF Reject
    <3> QED BY <1>2, <1>3, <1>5, <2>1, <2>2, <3>1
  <2>3. Bare' <=> Bare
    BY <1>1 DEF Bare
  <2>4. AcceptsText'
    BY <1>1, <1>5, <2>2, <2>3 DEF AcceptsText, Clean, Bare
  <2> QED BY <1>1, <1>5, <2>4 DEF Grammar, Ahead, Follows, Refused, Judged, Plain
<1> QED BY <1>4, <1>5

LEMMA GrammarParse ==
    ASSUME Parse
    PROVE  Grammar'
<1>1. pc' = "value" /\ frames' = <<>> /\ errors' = 0 /\ rfc' = <<"value">>
  BY DEF Parse
<1>2. Ahead'
  BY <1>1 DEF Ahead
<1>3. Awaited' = Cons("value", Rest(<<>>))
  BY <1>1, AwaitedAt DEF Awaited
<1>4. Cons("value", <<>>) = <<"value">>
  BY ConcatEmptySeq DEF Cons
<1> QED BY <1>1, <1>2, <1>3, <1>4, RestEmpty, GrammarLooks

LEMMA GrammarNext ==
    ASSUME Shape, Typed, Counted, Begun, Grammar, [AnyNext]_vars
    PROVE  Grammar'
<1>1. CASE UNCHANGED vars
  <2>1. /\ UNCHANGED <<features, pc, frames, tree, left, unread, errors, result>>
        /\ UNCHANGED <<rfc, heard, emptyName>>
    BY <1>1 DEF vars, calls, seen, settings
  <2>2. (Clean' <=> Clean) /\ Awaited' = Awaited /\ Top' = Top /\ (Ours' <=> Ours)
    BY <2>1 DEF Clean, Awaited, Top, Ours
  <2>3. (OneText' <=> OneText) /\ (AcceptsText' <=> AcceptsText)
    BY <2>1 DEF OneText, AcceptsText
  <2> QED BY <2>1, <2>2, <2>3 DEF Grammar, Ahead, Follows, Refused, Judged
<1>2. CASE AnyNext
  <2>1. /\ UNCHANGED settings
        /\ \/ Parse \/ ExceededStackLimit \/ ElementEntered
           \/ \E t \in alphabet : ValueStep(t) \/ PlainStep(t) \/ Naming(t)
    BY <1>2, StepCases
  <2>2. CASE Parse
    BY <2>2, GrammarParse
  <2>3. CASE ExceededStackLimit
    <3>1. pc' = "aborted"
      BY <2>3 DEF ExceededStackLimit
    <3> QED BY <3>1 DEF Grammar, Ahead, Follows, Refused, Judged, Plain
  <2>4. CASE ElementEntered
    BY <2>1, <2>4, GrammarElement
  <2>5. ASSUME NEW t \in alphabet, PlainStep(t) PROVE Grammar'
    <3>0. emptyName' = emptyName
      BY <2>5 DEF PlainStep
    <3>1. CASE Skipping(t)
      <4>1. t.type = "comment" /\ Hear(t) /\ pc' # "done"
        BY <3>1 DEF Skipping, SkipComment, Read
      <4> QED BY <2>1, <4>1, GrammarComment
    <3>2. CASE Closing(t)
      BY <2>1, <3>0, <3>2, GrammarClosing
    <3>3. CASE Failing(t)
      BY <2>1, <3>0, <3>3, GrammarFailing
    <3>4. CASE NextMember(t)
      BY <2>1, <3>0, <3>4, GrammarMember
    <3>5. CASE NextRound(t)
      BY <2>1, <3>0, <3>5, GrammarRound
    <3>6. CASE Peeking(t)
      BY <2>1, <3>0, <3>6, GrammarPeeking
    <3>7. CASE MemberEntered(t)
      BY <2>1, <3>0, <3>7, GrammarColon
    <3>8. CASE Recovering(t) \/ GivingUp(t)
      BY <2>1, <3>0, <3>8, GrammarRecovers
    <3>9. CASE Remarking(t)
      <4>1. t.type = "comment" /\ Hear(t) /\ pc' # "done"
        BY <3>9 DEF Remarking
      <4> QED BY <2>1, <4>1, GrammarComment
    <3>10. CASE Ending(t)
      BY <2>1, <3>0, <3>10, GrammarEnding
    <3> QED BY <2>5, <3>1, <3>2, <3>3, <3>4, <3>5, <3>6, <3>7, <3>8, <3>9, <3>10 DEF PlainStep
  <2>6. ASSUME NEW t \in alphabet, ValueStep(t) PROVE Grammar'
    BY <2>1, <2>6, GrammarValue
  <2>7. ASSUME NEW t \in alphabet, Naming(t) PROVE Grammar'
    <3>1. t \in AllTokens
      BY <2>7 DEF Shape, Setting
    <3> QED BY <2>1, <2>7, <3>1, GrammarNaming
  <2> QED BY <2>1, <2>2, <2>3, <2>4, <2>5, <2>6, <2>7
<1> QED BY <1>1, <1>2

\* Along every behaviour: the errors agree with the place, every function around has
\* begun, and the grammar expects what the functions do.
LEMMA GrammarKept ==
    AnySpec => [](Shape /\ Typed /\ Counted /\ Begun /\ Grammar)
<1> DEFINE J == Counted /\ Begun /\ Grammar
<1>1. Init => J
  <2> SUFFICES ASSUME Init PROVE J
    OBVIOUS
  <2>1. pc = "idle" /\ frames = <<>> /\ errors = 0
    BY DEF Init
  <2>2. Len(frames) = 0
    BY <2>1
  <2>3. Begun
    BY <2>1, <2>2 DEF Begun
  <2> QED BY <2>1, <2>3 DEF Counted, Grammar, Ahead, Follows, Refused, Judged, Plain
<1>2. Shape /\ Typed /\ J /\ [AnyNext]_vars => J'
  <2> SUFFICES ASSUME Shape, Typed, J, [AnyNext]_vars PROVE J'
    OBVIOUS
  <2>1. Counted /\ Begun /\ Grammar
    OBVIOUS
  <2>2. Counted'
    BY <2>1, CountedNext
  <2>3. Begun'
    BY <2>1, BegunNext
  <2>4. Grammar'
    BY <2>1, GrammarNext
  <2> QED BY <2>2, <2>3, <2>4
<1>3. AnySpec => [](Shape /\ Typed)
  BY ShapeKept
<1> HIDE DEF J
<1>4. AnySpec => []J
  BY <1>1, <1>2, <1>3, PTL DEF AnySpec
<1>5. J => Counted /\ Begun /\ Grammar
  BY DEF J
<1> QED BY <1>3, <1>4, <1>5, PTL

\* Of every document without comments and empty names, Reader without its lenient features
\* accepts those that begin with a JSON text of RFC 8259 and no others, and OurReader in
\* strict mode only those that are one; and parse returns false exactly when an error is
\* recorded (Reader::parse, readValue, readObject, readArray, recoverFromError).
THEOREM TextsAccepted ==
    Spec \/ OurSpec => []AcceptsJson
<1>1. Counted /\ Grammar => AcceptsJson
  BY DEF Counted, Grammar, Judged, AcceptsJson, Reported, OneText, AcceptsText
<1> QED BY <1>1, GrammarKept, EitherReader, PTL
==============================================================================
