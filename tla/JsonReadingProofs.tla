-------------------------- MODULE JsonReadingProofs ---------------------------
(***************************************************************************)
(* Reader and OurReader of jsoncpp, for every choice of their features,     *)
(* every depth of nesting, every stack limit and documents of every length. *)
(***************************************************************************)
EXTENDS JsonReading, SequenceTheorems, WellFoundedInduction, TLAPS

\* A set of naturals that is not empty has a least element.
LEMMA Least ==
    ASSUME NEW S \in SUBSET Nat, S # {}
    PROVE  \E n \in S : \A m \in S : n <= m
<1>1. PICK n \in S : \A m \in S : <<m, n>> \notin OpToRel(<, Nat)
  BY NatLessThanWellFounded, WFMin
<1>2. \A m \in S : ~(m < n)
  BY <1>1 DEF OpToRel
<1> QED
  BY <1>2

\* The first elements of a sequence.
LEMMA Prefix ==
    ASSUME NEW S, NEW s \in Seq(S), NEW n \in 0..Len(s)
    PROVE  /\ SubSeq(s, 1, n) \in Seq(S) /\ Len(SubSeq(s, 1, n)) = n
           /\ \A i \in 1..n : SubSeq(s, 1, n)[i] = s[i]
<1>1. Len(s) \in Nat /\ n \in Int /\ 1 \in Int /\ \A i \in 1..n : s[i] \in S
  OBVIOUS
<1>2. /\ SubSeq(s, 1, n) \in Seq(S)
      /\ Len(SubSeq(s, 1, n)) = IF 1 <= n THEN n - 1 + 1 ELSE 0
      /\ \A i \in 1..(n - 1 + 1) : SubSeq(s, 1, n)[i] = s[1 + i - 1]
  BY <1>1, SubSeqProperties
<1> QED BY <1>1, <1>2

------------------------------------------------------------------------------
(* Paths *)

Labels == {t.text : t \in AllTokens} \cup {""}
Steps == {<<"m", n>> : n \in Labels} \cup {<<"e", i>> : i \in Nat}
Paths == Seq(Steps)

\* A step is to a member or to an element.
LEMMA StepForms ==
    /\ \A n \in Labels : <<"m", n>> \in Steps /\ <<"m", n>>[1] = "m"
    /\ \A i \in Nat : <<"e", i>> \in Steps /\ <<"e", i>>[1] = "e" /\ <<"e", i>>[2] = i
    /\ \A s \in Steps : s[1] \in {"m", "e"} /\ (s[1] = "e" => s[2] \in Nat /\ s = <<"e", s[2]>>)
BY DEF Steps

\* The path to a member or an element of the Value at p.
LEMMA ChildPath ==
    ASSUME NEW p \in Paths, NEW s \in Steps
    PROVE  /\ Append(p, s) \in Paths /\ Append(p, s) # Root
           /\ Len(Append(p, s)) = Len(p) + 1
           /\ Parent(Append(p, s)) = p /\ StepTo(Append(p, s)) = s
<1>1. Append(p, s) \in Paths /\ Len(Append(p, s)) = Len(p) + 1
  BY DEF Paths
<1>2. Len(p) \in Nat
  BY DEF Paths
<1>3. Append(p, s) # Root
  BY <1>1, <1>2 DEF Root
<1>4. StepTo(Append(p, s)) = s
  BY <1>1, <1>2 DEF StepTo, Paths
<1>5. Parent(Append(p, s)) = p
  <2>1. Parent(Append(p, s)) = SubSeq(Append(p, s), 1, Len(p))
    BY <1>1, <1>2 DEF Parent
  <2>2. Len(SubSeq(Append(p, s), 1, Len(p))) = Len(p)
    BY <1>1, <1>2 DEF Paths
  <2>3. \A i \in 1..Len(p) : SubSeq(Append(p, s), 1, Len(p))[i] = p[i]
    BY <1>1, <1>2 DEF Paths
  <2>4. SubSeq(Append(p, s), 1, Len(p)) \in Seq(Steps) /\ p \in Seq(Steps)
    BY <1>1, <1>2 DEF Paths
  <2> QED BY <2>1, <2>2, <2>3, <2>4, SeqEqual
<1> QED BY <1>1, <1>3, <1>4, <1>5

\* Every path but the root's is that of a member or an element.
LEMMA ParentPath ==
    ASSUME NEW q \in Paths, q # Root
    PROVE  /\ Parent(q) \in Paths /\ StepTo(q) \in Steps
           /\ Len(Parent(q)) = Len(q) - 1 /\ Len(q) \in Nat \ {0}
           /\ Append(Parent(q), StepTo(q)) = q
<1>1. Len(q) \in Nat \ {0}
  BY DEF Paths, Root
<1>2. Parent(q) \in Paths /\ Len(Parent(q)) = Len(q) - 1
  <2>1. Len(q) - 1 \in 0..Len(q) /\ q \in Seq(Steps)
    BY <1>1 DEF Paths
  <2> QED BY <2>1, Prefix DEF Parent, Paths
<1>3. StepTo(q) \in Steps
  BY <1>1 DEF StepTo, Paths
<1>4. Append(Parent(q), StepTo(q)) = q
  <2> DEFINE r == Append(Parent(q), StepTo(q))
  <2>1. r \in Seq(Steps) /\ q \in Seq(Steps) /\ Len(r) = Len(q)
    BY <1>1, <1>2, <1>3 DEF Paths
  <2>2. \A i \in 1..Len(q) : r[i] = q[i]
    BY <1>1, <1>2, <1>3 DEF Paths, Parent, StepTo
  <2> HIDE DEF r
  <2>3. r = q
    BY <2>1, <2>2, SeqEqual
  <2> QED BY <2>3 DEF r
<1> QED BY <1>1, <1>2, <1>3, <1>4

\* What is below p is its children and what is below them.
LEMMA BelowParent ==
    ASSUME NEW p \in Paths, NEW q \in Paths, q # Root
    PROVE  Below(p, q) <=> p = Parent(q) \/ Below(p, Parent(q))
<1>1. /\ Parent(q) \in Paths /\ Len(Parent(q)) = Len(q) - 1 /\ Len(q) \in Nat \ {0}
      /\ Len(p) \in Nat
  BY ParentPath DEF Paths
<1>2. \A n \in 0..(Len(q) - 1) : SubSeq(Parent(q), 1, n) = SubSeq(q, 1, n)
  <2> TAKE n \in 0..(Len(q) - 1)
  <2>1. SubSeq(Parent(q), 1, n) \in Seq(Steps) /\ SubSeq(q, 1, n) \in Seq(Steps)
    BY <1>1 DEF Paths
  <2>2. Len(SubSeq(Parent(q), 1, n)) = n /\ Len(SubSeq(q, 1, n)) = n
    BY <1>1 DEF Paths
  <2>3. \A i \in 1..n : SubSeq(Parent(q), 1, n)[i] = SubSeq(q, 1, n)[i]
    BY <1>1 DEF Paths, Parent
  <2> QED BY <2>1, <2>2, <2>3, SeqEqual
<1>3. CASE Len(p) < Len(q) - 1
  <2>1. p # Parent(q)
    BY <1>1, <1>3
  <2> QED BY <1>1, <1>2, <1>3, <2>1 DEF Below
<1>4. CASE Len(p) = Len(q) - 1
  BY <1>1, <1>4 DEF Below, Parent
<1>5. CASE Len(p) > Len(q) - 1
  <2>1. p # Parent(q)
    BY <1>1, <1>5
  <2> QED BY <1>1, <1>5, <2>1 DEF Below
<1> QED BY <1>1, <1>3, <1>4, <1>5

\* A path is not below itself, nor a longer one.
LEMMA BelowLonger ==
    ASSUME NEW p \in Paths, NEW q \in Paths, Below(p, q)
    PROVE  Len(p) < Len(q) /\ p # q /\ q # Root
BY DEF Below, Paths, Root

------------------------------------------------------------------------------
(* Trees *)

IsTree(T) == DOMAIN T \subseteq Paths /\ WellFormed(T)

\* What is in the tree after swapPayload.
LEMMA SwappedValues ==
    ASSUME NEW T, NEW p, NEW v
    PROVE  /\ \A q : q \in DOMAIN Swapped(T, p, v) <=> q \in DOMAIN T /\ ~Below(p, q)
           /\ \A q \in DOMAIN Swapped(T, p, v) :
                 Swapped(T, p, v)[q] = IF q = p THEN v ELSE T[q]
BY DEF Swapped

\* swapPayload leaves a tree.
LEMMA SwappedTree ==
    ASSUME NEW T, IsTree(T), NEW p \in DOMAIN T, NEW v
    PROVE  IsTree(Swapped(T, p, v))
<1> DEFINE U == Swapped(T, p, v)
<1>1. /\ \A q : q \in DOMAIN U <=> q \in DOMAIN T /\ ~Below(p, q)
      /\ \A q \in DOMAIN U : U[q] = IF q = p THEN v ELSE T[q]
  BY SwappedValues
<1>2. DOMAIN T \subseteq Paths /\ p \in Paths /\ Root \in Paths
  BY DEF IsTree, Paths, Root
<1> HIDE DEF U
<1>3. Root \in DOMAIN U
  BY <1>1, <1>2, BelowLonger DEF IsTree, WellFormed
<1>4. ASSUME NEW q \in DOMAIN U \ {Root}
      PROVE  /\ Parent(q) \in DOMAIN U
             /\ U[Parent(q)] = IF StepTo(q)[1] = "m" THEN Object ELSE Array
             /\ StepTo(q)[1] = "e" =>
                  \A i \in 0..StepTo(q)[2] : Append(Parent(q), <<"e", i>>) \in DOMAIN U
  <2>1. q \in DOMAIN T /\ q # Root /\ q \in Paths /\ ~Below(p, q)
    BY <1>1, <1>2, <1>4
  <2>2. p # Parent(q) /\ ~Below(p, Parent(q)) /\ Parent(q) \in Paths /\ StepTo(q) \in Steps
    BY <1>2, <2>1, BelowParent, ParentPath
  <2>3. /\ Parent(q) \in DOMAIN T
        /\ T[Parent(q)] = IF StepTo(q)[1] = "m" THEN Object ELSE Array
        /\ StepTo(q)[1] = "e" =>
             \A i \in 0..StepTo(q)[2] : Append(Parent(q), <<"e", i>>) \in DOMAIN T
    BY <2>1 DEF IsTree, WellFormed
  <2>4. Parent(q) \in DOMAIN U /\ U[Parent(q)] = T[Parent(q)]
    BY <1>1, <2>2, <2>3
  <2>5. ASSUME StepTo(q)[1] = "e", NEW i \in 0..StepTo(q)[2]
        PROVE  Append(Parent(q), <<"e", i>>) \in DOMAIN U
    <3>1. i \in Nat
      BY <2>2, <2>5, StepForms
    <3>2. <<"e", i>> \in Steps
      BY <3>1, StepForms
    <3> DEFINE r == Append(Parent(q), <<"e", i>>)
    <3>3. r \in Paths /\ r # Root /\ Parent(r) = Parent(q)
      BY <2>2, <3>2, ChildPath
    <3>4. r \in DOMAIN T
      BY <2>3, <2>5
    <3> HIDE DEF r
    <3>5. ~Below(p, r)
      BY <1>2, <2>2, <3>3, BelowParent
    <3>6. r \in DOMAIN U
      BY <1>1, <3>4, <3>5
    <3> QED BY <3>6 DEF r
  <2> QED BY <2>3, <2>4, <2>5
<1>5. IsTree(U)
  BY <1>1, <1>2, <1>3, <1>4 DEF IsTree, WellFormed
<1> QED BY <1>5 DEF U

\* What is in the tree after operator[].
LEMMA ResolvedValues ==
    ASSUME NEW T, NEW p
    PROVE  /\ \A q : q \in DOMAIN Resolved(T, p) <=> q \in DOMAIN T \/ q = p
           /\ \A q \in DOMAIN T : Resolved(T, p)[q] = T[q]
           /\ p \notin DOMAIN T => Resolved(T, p)[p] = Null
BY DEF Resolved

\* operator[] of an object or, with the next index at most, of an array leaves a tree.
LEMMA ResolvedTree ==
    ASSUME NEW T, IsTree(T), NEW p \in DOMAIN T, NEW s \in Steps,
           T[p] = (IF s[1] = "m" THEN Object ELSE Array),
           s[1] = "e" => \A i \in Nat : i < s[2] => Append(p, <<"e", i>>) \in DOMAIN T
    PROVE  IsTree(Resolved(T, Append(p, s)))
<1> DEFINE c == Append(p, s)
<1>2. DOMAIN T \subseteq Paths /\ p \in Paths
  BY DEF IsTree
<1>3. c \in Paths /\ c # Root /\ Parent(c) = p /\ StepTo(c) = s
  BY <1>2, ChildPath
<1> HIDE DEF c
<1> DEFINE U == Resolved(T, c)
<1>1. /\ \A q : q \in DOMAIN U <=> q \in DOMAIN T \/ q = c
      /\ \A q \in DOMAIN T : U[q] = T[q]
  BY ResolvedValues
<1> HIDE DEF U
<1>4. s[1] = "e" => \A i \in 0..s[2] : Append(p, <<"e", i>>) \in DOMAIN U
  <2> SUFFICES ASSUME s[1] = "e", NEW i \in 0..s[2]
               PROVE  Append(p, <<"e", i>>) \in DOMAIN U
    OBVIOUS
  <2>1. s[2] \in Nat /\ s = <<"e", s[2]>> /\ i \in Nat
    BY StepForms
  <2>2. CASE i < s[2]
    BY <1>1, <2>1, <2>2
  <2>3. CASE i = s[2]
    BY <1>1, <2>1, <2>3 DEF c
  <2> QED BY <2>1, <2>2, <2>3
<1>5. Root \in DOMAIN U
  BY <1>1 DEF IsTree, WellFormed
<1>6. ASSUME NEW q \in DOMAIN U \ {Root}
      PROVE  /\ Parent(q) \in DOMAIN U
             /\ U[Parent(q)] = IF StepTo(q)[1] = "m" THEN Object ELSE Array
             /\ StepTo(q)[1] = "e" =>
                  \A i \in 0..StepTo(q)[2] : Append(Parent(q), <<"e", i>>) \in DOMAIN U
  <2>1. CASE q = c
    BY <1>1, <1>3, <1>4, <2>1
  <2>2. CASE q \in DOMAIN T
    <3>1. /\ Parent(q) \in DOMAIN T
          /\ T[Parent(q)] = IF StepTo(q)[1] = "m" THEN Object ELSE Array
          /\ StepTo(q)[1] = "e" =>
               \A i \in 0..StepTo(q)[2] : Append(Parent(q), <<"e", i>>) \in DOMAIN T
      BY <1>6, <2>2 DEF IsTree, WellFormed
    <3> QED BY <1>1, <3>1
  <2> QED BY <1>1, <1>6, <2>1, <2>2
<1>7. IsTree(U)
  BY <1>1, <1>2, <1>3, <1>5, <1>6 DEF IsTree, WellFormed
<1> QED BY <1>7 DEF U, c

\* Nothing is below a path that is not in the tree.
LEMMA NothingBelow ==
    ASSUME NEW T, IsTree(T), NEW p \in Paths, p \notin DOMAIN T, NEW q \in DOMAIN T
    PROVE  ~Below(p, q)
<1> SUFFICES ASSUME Below(p, q) PROVE FALSE
  OBVIOUS
<1> DEFINE Lengths == {n \in Nat : \E r \in DOMAIN T : Below(p, r) /\ Len(r) = n}
<1>1. DOMAIN T \subseteq Paths
  BY DEF IsTree
<1>2. Lengths \in SUBSET Nat /\ Lengths # {}
  <2>1. Len(q) \in Nat
    BY <1>1 DEF Paths
  <2>2. Len(q) \in Lengths
    BY <2>1
  <2> QED BY <2>2
<1>3. PICK n \in Lengths : \A m \in Lengths : n <= m
  BY <1>2, Least
<1>4. PICK r \in DOMAIN T : Below(p, r) /\ Len(r) = n
  BY <1>3
<1>5. r \in Paths /\ r # Root
  BY <1>1, <1>4, BelowLonger
<1>6. Parent(r) \in DOMAIN T /\ Len(Parent(r)) = n - 1 /\ n \in Nat
  BY <1>4, <1>5, ParentPath DEF IsTree, WellFormed
<1>7. Below(p, Parent(r))
  BY <1>4, <1>5, <1>6, BelowParent
<1>8. n - 1 \in Lengths
  BY <1>6, <1>7
<1> QED BY <1>3, <1>6, <1>8

------------------------------------------------------------------------------
(* The steps of both readers *)

\* A step of the reader that it is.
AnyNext == IF Ours THEN OurNext ELSE Next

InValue == pc = "value" /\ Len(nodes) <= features.stackLimit
ClosesEither(t) == IF Ours THEN OurCloses(t) ELSE Closes(t)

Skipping(t) == pc \in {"name", "comma", "after comment", "separator"} /\ SkipComment(t)

Closing(t) ==
    /\ \/ pc = "name" /\ ClosesEither(t)
       \/ pc \in {"comma", "after comment"} /\ t.type = "}"
       \/ pc \in {"first", "separator"} /\ t.type = "]"
       \/ Ours /\ pc = "element" /\ unread = NoToken /\ MayEnd /\ t.type = "]"
    /\ Read(t) /\ EndContainer(TRUE)

Naming(t) == pc = "name" /\ IsName(t) /\ (Ours => ~Repeated(t)) /\ Read(t) /\ Named(t)

Failing(t) ==
    /\ \/ /\ pc = "name" /\ t.type # "comment" /\ ~ClosesEither(t)
          /\ IsName(t) => Ours /\ Repeated(t)
       \/ pc = "colon" /\ t.type # ":"
       \/ pc = "comma" /\ t.type \notin {",", "}", "comment"}
       \/ pc = "separator" /\ t.type \notin {",", "]", "comment"}
    /\ Read(t) /\ Fail(t)

NextMember(t) ==
    /\ pc \in {"comma", "after comment"} /\ t.type # "comment"
    /\ pc = "comma" => t.type = ","
    /\ Read(t) /\ Goto("name")

NextRound(t) == pc = "separator" /\ t.type = "," /\ Read(t) /\ Goto("element")

Peeking(t) ==
    /\ pc \in {"first", "element"} /\ t.type # "]"
    /\ pc = "element" => Ours /\ unread = NoToken
    /\ Peek(t) /\ Goto("element") /\ UNCHANGED seen

MemberEntered(t) ==
    pc = "colon" /\ t.type = ":" /\ Read(t) /\ Enter(<<"m", Top.name>>) /\ UNCHANGED frames

ElementEntered == pc = "element" /\ EnterElement /\ UNCHANGED emptyName

Recovering(t) ==
    /\ pc = "recover" /\ ~Stops(t) /\ Read(t) /\ AddComment(t)
    /\ UNCHANGED <<calls, tree, errors, result, lastValue>>

GivingUp(t) == pc = "recover" /\ Stops(t) /\ Read(t) /\ EndContainer(FALSE)

Remarking(t) ==
    /\ pc = "finish" /\ t.type = "comment" /\ features.allowComments
    /\ Take(t) /\ Hear(t) /\ AddComment(t)
    /\ UNCHANGED <<pc, errors, result, frames, nodes, tree, lastValue, docs, rfc>>

Ending(t) ==
    /\ pc = "finish" /\ ~(t.type = "comment" /\ features.allowComments)
    /\ Take(t) /\ Hear(t)
    /\ pc' = "done"
    /\ errors' = IF (Ours /\ Extra(t)) \/ Bare THEN errors + 1 ELSE errors
    /\ result' = (result /\ ~(Ours /\ Extra(t)) /\ ~Bare)
    /\ notes' = IF Collect /\ ~(Ours /\ Extra(t)) /\ pending # {}
                THEN Comment(Root, "after", pending) ELSE notes
    /\ rfc' = IF Ours /\ features.failIfExtra /\ t.type \notin {"comment", "end"}
              THEN Reject ELSE rfc
    /\ UNCHANGED <<pending, lastHasComment, frames, nodes, tree, lastValue, docs>>

ValueStep(t) ==
    /\ InValue
    /\ \/ BeginContainer(t) \/ DecodeScalar(t) \/ UndecodedScalar(t) \/ DroppedNull(t)
       \/ ValueExpected(t) \/ (features.allowComments /\ SkipComment(t))
    /\ UNCHANGED emptyName

PlainStep(t) ==
    /\ \/ Skipping(t) \/ Closing(t) \/ Failing(t) \/ NextMember(t) \/ NextRound(t)
       \/ Peeking(t) \/ MemberEntered(t) \/ Recovering(t) \/ GivingUp(t)
       \/ Remarking(t) \/ Ending(t)
    /\ UNCHANGED emptyName

\* Every step of either reader is one of these.
LEMMA StepCases ==
    ASSUME AnyNext
    PROVE  /\ UNCHANGED settings
           /\ \/ Parse \/ ExceededStackLimit \/ ElementEntered
              \/ \E t \in alphabet : ValueStep(t) \/ PlainStep(t) \/ Naming(t)
<1>1. UNCHANGED settings
  BY DEF AnyNext, Next, OurNext
<1>2. CASE Parse \/ ExceededStackLimit
  BY <1>1, <1>2
<1>3. CASE ReadValue
  <2>1. \E t \in alphabet : ValueStep(t)
    BY <1>3, Zenon DEF ReadValue, ValueStep, InValue
  <2> QED BY <1>1, <2>1
<1>4. CASE ReadColon
  BY <1>1, <1>4 DEF ReadColon, PlainStep, MemberEntered, Failing
<1>5. CASE ReadComma
  <2>1. UNCHANGED emptyName /\ pc \in {"comma", "after comment"}
    BY <1>5 DEF ReadComma
  <2>2. PICK t \in alphabet :
          \/ SkipComment(t)
          \/ t.type = "}" /\ Read(t) /\ EndContainer(TRUE)
          \/ /\ t.type = "," \/ (pc = "after comment" /\ t.type \notin {"}", "comment"})
             /\ Read(t) /\ Goto("name")
          \/ pc = "comma" /\ t.type \notin {",", "}", "comment"} /\ Read(t) /\ Fail(t)
    BY <1>5 DEF ReadComma
  <2>3. Skipping(t) \/ Closing(t) \/ NextMember(t) \/ Failing(t)
    BY <2>1, <2>2 DEF Skipping, Closing, NextMember, Failing
  <2> QED BY <1>1, <2>1, <2>3 DEF PlainStep
<1>6. CASE ReadSeparator
  BY <1>1, <1>6 DEF ReadSeparator, PlainStep, Skipping, Closing, NextRound, Failing
<1>7. CASE Recover
  BY <1>1, <1>7 DEF Recover, PlainStep, Recovering, GivingUp
<1>8. CASE ~Ours /\ ReadName
  BY <1>1, <1>8 DEF ReadName, PlainStep, Skipping, Closing, ClosesEither, Naming, Failing
<1>9. CASE ~Ours /\ FirstElement
  BY <1>1, <1>9 DEF FirstElement, PlainStep, Closing, Peeking
<1>10. CASE ~Ours /\ NextElement
  BY <1>1, <1>10 DEF NextElement, ElementEntered
<1>11. CASE ~Ours /\ Finish
  <2>1. PICK t \in alphabet :
          /\ Take(t) /\ Hear(t)
          /\ IF t.type = "comment" /\ features.allowComments
             THEN AddComment(t) /\ UNCHANGED <<pc, errors, result>>
             ELSE /\ pc' = "done"
                  /\ errors' = IF Bare THEN errors + 1 ELSE errors
                  /\ result' = (result /\ ~Bare)
                  /\ notes' = IF Collect /\ pending # {} THEN Comment(Root, "after", pending)
                              ELSE notes
                  /\ UNCHANGED <<pending, lastHasComment>>
    BY <1>11 DEF Finish
  <2>2. pc = "finish" /\ UNCHANGED <<frames, nodes, tree, lastValue, docs, rfc, emptyName>>
    BY <1>11 DEF Finish
  <2>3. CASE t.type = "comment" /\ features.allowComments
    BY <1>1, <2>1, <2>2, <2>3 DEF PlainStep, Remarking
  <2>4. CASE ~(t.type = "comment" /\ features.allowComments)
    BY <1>1, <1>11, <2>1, <2>2, <2>4 DEF PlainStep, Ending
  <2> QED BY <2>3, <2>4
<1>12. CASE Ours /\ OurReadName
  BY <1>1, <1>12 DEF OurReadName, PlainStep, Skipping, Closing, ClosesEither, Naming, Failing
<1>13. CASE Ours /\ ReadElement
  BY <1>1, <1>13 DEF ReadElement, PlainStep, Closing, Peeking, ElementEntered
<1>14. CASE Ours /\ OurFinish
  <2>1. PICK t \in alphabet :
          /\ Take(t) /\ Hear(t)
          /\ IF t.type = "comment" /\ features.allowComments
             THEN AddComment(t) /\ UNCHANGED <<pc, errors, result>>
             ELSE /\ pc' = "done"
                  /\ errors' = IF Extra(t) \/ Bare THEN errors + 1 ELSE errors
                  /\ result' = (result /\ ~Extra(t) /\ ~Bare)
                  /\ notes' = IF Collect /\ ~Extra(t) /\ pending # {}
                              THEN Comment(Root, "after", pending) ELSE notes
                  /\ UNCHANGED <<pending, lastHasComment>>
          /\ rfc' = IF features.failIfExtra /\ t.type \notin {"comment", "end"} THEN Reject ELSE rfc
    BY <1>14 DEF OurFinish
  <2>2. pc = "finish" /\ UNCHANGED <<frames, nodes, tree, lastValue, docs, emptyName>>
    BY <1>14 DEF OurFinish
  <2>3. CASE t.type = "comment" /\ features.allowComments
    BY <1>1, <2>1, <2>2, <2>3 DEF PlainStep, Remarking
  <2>4. CASE ~(t.type = "comment" /\ features.allowComments)
    BY <1>1, <1>14, <2>1, <2>2, <2>4 DEF PlainStep, Ending
  <2> QED BY <2>3, <2>4
<1>15. CASE ~Ours
  BY <1>2, <1>3, <1>4, <1>5, <1>6, <1>7, <1>8, <1>9, <1>10, <1>11, <1>15 DEF AnyNext, Next, Step
<1>16. CASE Ours
  BY <1>2, <1>3, <1>4, <1>5, <1>6, <1>7, <1>12, <1>13, <1>14, <1>16
     DEF AnyNext, OurNext, Begin, ReadAnyValue, ReadMember, ReadArrayRest, RecoverFromError
<1> QED BY <1>15, <1>16

------------------------------------------------------------------------------
(* The stack and the tree *)

FrameSet == [kind : {"object", "array"}, name : Labels, index : Nat]

\* nodes_ and the active functions, in the tree: each function reads the Value at its
\* height, and an array has exactly the elements that its readArray has counted.
ChainOf(fs, ns, T) ==
    /\ fs \in Seq(FrameSet) /\ ns \in Seq(Paths) /\ IsTree(T)
    /\ Len(fs) <= Len(ns)
    /\ \A i \in 1..Len(ns) : ns[i] \in DOMAIN T /\ Len(ns[i]) = i - 1
    /\ \A i \in 1..(Len(ns) - 1) : Parent(ns[i + 1]) = ns[i]
    /\ \A i \in 1..Len(fs) : T[ns[i]] = Item(fs[i].kind, "")
    /\ \A i \in 1..Len(fs) : fs[i].kind = "array" =>
          \A k \in Nat : Append(ns[i], <<"e", k>>) \in DOMAIN T <=> k < fs[i].index

Chain == ChainOf(frames, nodes, tree)

LEMMA ChainLengths ==
    ASSUME NEW fs, NEW ns, NEW T, ChainOf(fs, ns, T)
    PROVE  /\ fs \in Seq(FrameSet) /\ ns \in Seq(Paths)
           /\ Len(fs) \in Nat /\ Len(ns) \in Nat /\ Len(fs) <= Len(ns)
<1>1. fs \in Seq(FrameSet) /\ ns \in Seq(Paths) /\ Len(fs) <= Len(ns)
  BY DEF ChainOf
<1> QED BY <1>1

\* The Value being read is in the tree, below every container around it.
LEMMA CurrentValue ==
    ASSUME NEW fs, NEW ns, NEW T, ChainOf(fs, ns, T), Len(ns) > 0
    PROVE  /\ Len(ns) \in 1..Len(ns)
           /\ ns[Len(ns)] \in DOMAIN T /\ ns[Len(ns)] \in Paths
           /\ Len(ns[Len(ns)]) = Len(ns) - 1
           /\ \A i \in 1..(Len(ns) - 1) :
                 ns[i] # ns[Len(ns)] /\ ~Below(ns[Len(ns)], ns[i])
<1>1. Len(ns) \in Nat /\ Len(ns) \in 1..Len(ns)
  BY ChainLengths
<1>2. ns[Len(ns)] \in DOMAIN T /\ Len(ns[Len(ns)]) = Len(ns) - 1
  BY <1>1 DEF ChainOf
<1>3. ns[Len(ns)] \in Paths
  BY <1>2 DEF ChainOf, IsTree
<1>4. ASSUME NEW i \in 1..(Len(ns) - 1)
      PROVE  ns[i] # ns[Len(ns)] /\ ~Below(ns[Len(ns)], ns[i])
  <2>1. i \in 1..Len(ns) /\ i \in Nat
    BY <1>1
  <2>2. Len(ns[i]) = i - 1
    BY <2>1 DEF ChainOf
  <2> QED BY <1>1, <1>2, <2>1, <2>2 DEF Below
<1> QED BY <1>1, <1>2, <1>3, <1>4

\* A new document.
LEMMA ChainOfParse ==
    ASSUME NEW U, U = [p \in {Root} |-> Null]
    PROVE  ChainOf(<<>>, <<Root>>, U) /\ ChainOf(<<>>, <<>>, U)
<1>1. Root \in Paths /\ Len(Root) = 0
  BY DEF Root, Paths
<1>2. DOMAIN U = {Root}
  OBVIOUS
<1>3. IsTree(U)
  BY <1>1, <1>2 DEF IsTree, WellFormed
<1>4. <<Root>> \in Seq(Paths) /\ Len(<<Root>>) = 1 /\ <<Root>>[1] = Root
  BY <1>1
<1>5. <<>> \in Seq(FrameSet) /\ <<>> \in Seq(Paths) /\ Len(<<>>) = 0
  OBVIOUS
<1> QED BY <1>1, <1>2, <1>3, <1>4, <1>5 DEF ChainOf

\* swapPayload at the Value being read, around which the functions fs are active.
SwapAt(fs, ns, T, v, U) ==
    ChainOf(fs, ns, T) /\ Len(ns) = Len(fs) + 1 /\ U = Swapped(T, ns[Len(ns)], v)

Around(fs, ns, T, v, U) ==
    /\ IsTree(U) /\ U[ns[Len(ns)]] = v
    /\ \A q : q \in DOMAIN U <=> q \in DOMAIN T /\ ~Below(ns[Len(ns)], q)
    /\ \A q \in DOMAIN U : q # ns[Len(ns)] => U[q] = T[q]
    /\ \A i \in 1..Len(ns) : ns[i] \in DOMAIN U
    /\ \A i \in 1..Len(fs) :
          /\ U[ns[i]] = T[ns[i]]
          /\ \A k \in Nat : Append(ns[i], <<"e", k>>) \in DOMAIN U
                            <=> Append(ns[i], <<"e", k>>) \in DOMAIN T

\* What it leaves of the Values around it.
LEMMA AroundCurrent ==
    ASSUME NEW fs, NEW ns, NEW T, NEW v, NEW U, SwapAt(fs, ns, T, v, U)
    PROVE  Around(fs, ns, T, v, U)
<1> DEFINE c == ns[Len(ns)]
<1>0. ChainOf(fs, ns, T) /\ Len(ns) = Len(fs) + 1 /\ U = Swapped(T, c, v) /\ IsTree(T)
  BY DEF SwapAt, ChainOf
<1>1. Len(fs) \in Nat /\ Len(ns) \in Nat /\ Len(ns) > 0
  BY <1>0, ChainLengths
<1>2. /\ c \in DOMAIN T /\ c \in Paths
      /\ \A i \in 1..(Len(ns) - 1) : ns[i] # c /\ ~Below(c, ns[i])
  BY <1>0, <1>1, CurrentValue
<1> HIDE DEF c
<1>4. /\ \A q : q \in DOMAIN U <=> q \in DOMAIN T /\ ~Below(c, q)
      /\ \A q \in DOMAIN U : U[q] = IF q = c THEN v ELSE T[q]
  BY <1>0, SwappedValues
<1>5. IsTree(U)
  BY <1>0, <1>2, SwappedTree
<1>6. c \in DOMAIN U /\ U[c] = v
  BY <1>2, <1>4, BelowLonger
<1>7. ASSUME NEW i \in 1..Len(ns) PROVE ns[i] \in DOMAIN U
  <2>1. CASE i = Len(ns)
    BY <1>6, <2>1 DEF c
  <2>2. CASE i # Len(ns)
    <3>1. i \in 1..(Len(ns) - 1) /\ i \in 1..Len(ns)
      BY <1>1, <2>2
    <3>2. ns[i] \in DOMAIN T
      BY <1>0, <3>1 DEF ChainOf
    <3> QED BY <1>2, <1>4, <3>1, <3>2
  <2> QED BY <2>1, <2>2
<1>8. ASSUME NEW i \in 1..Len(fs)
      PROVE  /\ U[ns[i]] = T[ns[i]]
             /\ \A k \in Nat : Append(ns[i], <<"e", k>>) \in DOMAIN U
                               <=> Append(ns[i], <<"e", k>>) \in DOMAIN T
  <2>1. i \in 1..(Len(ns) - 1) /\ i \in 1..Len(ns)
    BY <1>0, <1>1
  <2>2. ns[i] # c /\ ~Below(c, ns[i]) /\ ns[i] \in DOMAIN U
    BY <1>2, <1>7, <2>1
  <2>3. ns[i] \in Paths
    BY <1>0, <2>1 DEF ChainOf, IsTree
  <2>4. ASSUME NEW k \in Nat PROVE ~Below(c, Append(ns[i], <<"e", k>>))
    <3>1. <<"e", k>> \in Steps
      BY StepForms
    <3> DEFINE r == Append(ns[i], <<"e", k>>)
    <3>2. r \in Paths /\ r # Root /\ Parent(r) = ns[i]
      BY <2>3, <3>1, ChildPath
    <3> HIDE DEF r
    <3>3. ~Below(c, r)
      BY <1>2, <2>2, <3>2, BelowParent
    <3> QED BY <3>3 DEF r
  <2> QED BY <1>4, <2>2, <2>4
<1> QED BY <1>4, <1>5, <1>6, <1>7, <1>8 DEF Around, c

\* swapPayload at the Value being read.
LEMMA ChainOfSwap ==
    ASSUME NEW fs, NEW ns, NEW T, NEW v, NEW U, SwapAt(fs, ns, T, v, U)
    PROVE  ChainOf(fs, ns, U)
<1>1. Around(fs, ns, T, v, U)
  BY AroundCurrent
<1>2. ChainOf(fs, ns, T)
  BY DEF SwapAt
<1> QED BY <1>1, <1>2 DEF Around, ChainOf

NewFrame(f, v) == f \in FrameSet /\ f.index = 0 /\ v = Item(f.kind, "")

\* A readObject or readArray begins on the Value being read.
LEMMA ChainOfBegin ==
    ASSUME NEW fs, NEW ns, NEW T, NEW v, NEW U, SwapAt(fs, ns, T, v, U),
           NEW f, NewFrame(f, v)
    PROVE  ChainOf(Append(fs, f), ns, U)
<1> DEFINE c == ns[Len(ns)]
           gs == Append(fs, f)
<1>0. ChainOf(fs, ns, T) /\ Len(ns) = Len(fs) + 1
  BY DEF SwapAt
<1>1. /\ fs \in Seq(FrameSet) /\ Len(fs) \in Nat /\ Len(ns) \in Nat /\ Len(ns) > 0
      /\ ns \in Seq(Paths)
  BY <1>0, ChainLengths
<1>2. /\ gs \in Seq(FrameSet) /\ Len(gs) = Len(fs) + 1
      /\ gs[Len(fs) + 1] = f /\ \A i \in 1..Len(fs) : gs[i] = fs[i]
  <2>1. f \in FrameSet
    BY DEF NewFrame
  <2> QED BY <1>1, <2>1
<1> HIDE DEF gs
<1>3. c \in DOMAIN T /\ c \in Paths
  BY <1>0, <1>1, CurrentValue
<1>4. /\ IsTree(U) /\ U[c] = v
      /\ \A q : q \in DOMAIN U <=> q \in DOMAIN T /\ ~Below(c, q)
      /\ \A i \in 1..Len(ns) : ns[i] \in DOMAIN U
      /\ \A i \in 1..Len(fs) :
            /\ U[ns[i]] = T[ns[i]]
            /\ \A k \in Nat : Append(ns[i], <<"e", k>>) \in DOMAIN U
                              <=> Append(ns[i], <<"e", k>>) \in DOMAIN T
  BY AroundCurrent DEF Around
<1>5. ASSUME NEW i \in 1..Len(gs)
      PROVE  /\ U[ns[i]] = Item(gs[i].kind, "")
             /\ gs[i].kind = "array" =>
                  \A j \in Nat : Append(ns[i], <<"e", j>>) \in DOMAIN U <=> j < gs[i].index
  <2>1. CASE i = Len(fs) + 1
    <3>1. ns[i] = c /\ gs[i] = f
      BY <1>0, <1>2, <2>1
    <3> HIDE DEF c
    <3>2. ASSUME NEW j \in Nat PROVE Append(c, <<"e", j>>) \notin DOMAIN U /\ ~(j < f.index)
      <4>1. <<"e", j>> \in Steps
        BY StepForms
      <4> DEFINE r == Append(c, <<"e", j>>)
      <4>2. r \in Paths /\ r # Root /\ Parent(r) = c
        BY <1>3, <4>1, ChildPath
      <4> HIDE DEF r
      <4>3. Below(c, r)
        BY <1>3, <4>2, BelowParent
      <4>4. r \notin DOMAIN U
        BY <1>4, <4>3
      <4>5. f.index = 0
        BY DEF NewFrame
      <4>6. ~(j < f.index)
        BY <4>5
      <4> QED BY <4>4, <4>6 DEF r
    <3> QED BY <1>4, <3>1, <3>2 DEF NewFrame
  <2>2. CASE i # Len(fs) + 1
    <3>1. i \in 1..Len(fs)
      BY <1>1, <1>2, <2>2
    <3>2. T[ns[i]] = Item(fs[i].kind, "")
      BY <1>0, <3>1 DEF ChainOf
    <3>3. fs[i].kind = "array" =>
            \A j \in Nat : Append(ns[i], <<"e", j>>) \in DOMAIN T <=> j < fs[i].index
      BY <1>0, <3>1 DEF ChainOf
    <3> QED BY <1>2, <1>4, <3>1, <3>2, <3>3
  <2> QED BY <2>1, <2>2
<1>6. Len(gs) <= Len(ns)
  BY <1>0, <1>1, <1>2
<1>7. ChainOf(gs, ns, U)
  BY <1>0, <1>1, <1>2, <1>4, <1>5, <1>6 DEF ChainOf
<1> QED BY <1>7 DEF gs

\* Functions return, and nodes_ is popped.
LEMMA ChainOfShorter ==
    ASSUME NEW fs, NEW ns, NEW T, ChainOf(fs, ns, T),
           NEW m \in 0..Len(fs), NEW n \in 0..Len(ns), m <= n
    PROVE  ChainOf(SubSeq(fs, 1, m), SubSeq(ns, 1, n), T)
<1>1. /\ Len(fs) \in Nat /\ Len(ns) \in Nat /\ fs \in Seq(FrameSet) /\ ns \in Seq(Paths)
      /\ m \in Nat /\ n \in Nat
  BY ChainLengths
<1> DEFINE gs == SubSeq(fs, 1, m)
           ms == SubSeq(ns, 1, n)
<1>2. gs \in Seq(FrameSet) /\ Len(gs) = m /\ \A i \in 1..m : gs[i] = fs[i]
  BY <1>1, Prefix
<1>3. ms \in Seq(Paths) /\ Len(ms) = n /\ \A i \in 1..n : ms[i] = ns[i]
  BY <1>1, Prefix
<1> HIDE DEF gs, ms
<1>4. \A i \in 1..n : ms[i] \in DOMAIN T /\ Len(ms[i]) = i - 1
  <2> TAKE i \in 1..n
  <2>1. i \in 1..Len(ns)
    BY <1>1
  <2> QED BY <1>3, <2>1 DEF ChainOf
<1>5. \A i \in 1..(n - 1) : Parent(ms[i + 1]) = ms[i]
  <2> TAKE i \in 1..(n - 1)
  <2>1. i \in 1..(Len(ns) - 1) /\ i + 1 \in 1..n /\ i \in 1..n
    BY <1>1
  <2>2. Parent(ns[i + 1]) = ns[i]
    BY <2>1 DEF ChainOf
  <2> QED BY <1>3, <2>1, <2>2
<1>6. ASSUME NEW i \in 1..m
      PROVE  /\ T[ms[i]] = Item(gs[i].kind, "")
             /\ gs[i].kind = "array" =>
                  \A k \in Nat : Append(ms[i], <<"e", k>>) \in DOMAIN T <=> k < gs[i].index
  <2>1. i \in 1..Len(fs) /\ i \in 1..n
    BY <1>1
  <2>2. ms[i] = ns[i] /\ gs[i] = fs[i]
    BY <1>2, <1>3, <2>1
  <2> QED BY <2>1, <2>2 DEF ChainOf
<1>7. ChainOf(gs, ms, T)
  BY <1>2, <1>3, <1>4, <1>5, <1>6 DEF ChainOf
<1> QED BY <1>7 DEF gs, ms

\* All of a sequence.
LEMMA WholePrefix ==
    ASSUME NEW S, NEW s \in Seq(S)
    PROVE  SubSeq(s, 1, Len(s)) = s
<1>1. Len(s) \in 0..Len(s)
  OBVIOUS
<1>2. /\ SubSeq(s, 1, Len(s)) \in Seq(S) /\ Len(SubSeq(s, 1, Len(s))) = Len(s)
      /\ \A i \in 1..Len(s) : SubSeq(s, 1, Len(s))[i] = s[i]
  BY <1>1, Prefix
<1> QED BY <1>2, SeqEqual

\* A sequence with one more at its end.
LEMMA Appended ==
    ASSUME NEW S, NEW s \in Seq(S), NEW e \in S
    PROVE  /\ Append(s, e) \in Seq(S) /\ Append(s, e) # <<>>
           /\ Len(Append(s, e)) = Len(s) + 1 /\ Append(s, e)[Len(s) + 1] = e
           /\ \A i \in 1..Len(s) : Append(s, e)[i] = s[i]
OBVIOUS

\* The frame of the innermost function is changed, and not the kind of its container.
SameTop(fs, gs) ==
    /\ gs \in Seq(FrameSet) /\ Len(gs) = Len(fs)
    /\ \A i \in 1..Len(fs) : gs[i].kind = fs[i].kind
    /\ \A i \in 1..Len(fs) : i # Len(fs) => gs[i] = fs[i]

EnterAt(fs, ns, T, s, gs, U) ==
    /\ ChainOf(fs, ns, T) /\ Len(ns) = Len(fs) /\ fs # <<>> /\ s \in Steps
    /\ T[ns[Len(ns)]] = IF s[1] = "m" THEN Object ELSE Array
    /\ U = Resolved(T, Append(ns[Len(ns)], s))
    /\ SameTop(fs, gs)
    /\ IF s[1] = "m" THEN gs = fs
       ELSE s[2] = fs[Len(fs)].index /\ gs[Len(fs)].index = fs[Len(fs)].index + 1

\* A member or an element of the container being read is entered.
LEMMA ChainOfEnter ==
    ASSUME NEW fs, NEW ns, NEW T, NEW s, NEW gs, NEW U, EnterAt(fs, ns, T, s, gs, U)
    PROVE  ChainOf(gs, Append(ns, Append(ns[Len(ns)], s)), U)
<1> DEFINE c == ns[Len(ns)]
           d == Append(c, s)
           ms == Append(ns, d)
<1>1. /\ ChainOf(fs, ns, T) /\ Len(ns) = Len(fs) /\ fs # <<>> /\ s \in Steps /\ IsTree(T)
      /\ gs \in Seq(FrameSet) /\ Len(gs) = Len(fs)
      /\ T[c] = IF s[1] = "m" THEN Object ELSE Array
  BY DEF EnterAt, SameTop, ChainOf
<1>2. /\ Len(fs) \in Nat /\ Len(ns) \in Nat /\ ns \in Seq(Paths) /\ Len(ns) > 0
      /\ Len(fs) \in 1..Len(fs)
  <2>1. fs \in Seq(FrameSet) /\ Len(fs) \in Nat /\ Len(ns) \in Nat /\ ns \in Seq(Paths)
    BY <1>1, ChainLengths
  <2>2. Len(fs) # 0
    BY <1>1, <2>1
  <2> QED BY <1>1, <2>1, <2>2
<1>3. c \in DOMAIN T /\ c \in Paths /\ Len(c) = Len(ns) - 1
  BY <1>1, <1>2, CurrentValue
<1>4. d \in Paths /\ d # Root /\ Len(d) = Len(c) + 1 /\ Parent(d) = c /\ StepTo(d) = s
  BY <1>1, <1>3, ChildPath
<1>5. s[1] = "e" => s[2] \in Nat /\ s = <<"e", s[2]>> /\ s[2] = fs[Len(fs)].index
  BY <1>1, StepForms DEF EnterAt
<1>6. s[1] = "e" => fs[Len(fs)].kind = "array"
  <2>1. T[c] = Item(fs[Len(fs)].kind, "")
    BY <1>1, <1>2 DEF ChainOf
  <2> SUFFICES ASSUME s[1] = "e" PROVE fs[Len(fs)].kind = "array"
    OBVIOUS
  <2>2. Item(fs[Len(fs)].kind, "") = Array
    BY <1>1, <2>1
  <2>3. Item(fs[Len(fs)].kind, "").type = Array.type
    BY <2>2
  <2> QED BY <2>3 DEF Item, Array
<1>7. s[1] = "e" => \A i \in Nat : i < s[2] => Append(c, <<"e", i>>) \in DOMAIN T
  BY <1>1, <1>2, <1>5, <1>6 DEF ChainOf
<1>8. U = Resolved(T, d)
  BY DEF EnterAt
<1>9. IsTree(U)
  <2>1. IsTree(Resolved(T, Append(c, s)))
    BY <1>1, <1>3, <1>7, ResolvedTree
  <2> QED BY <1>8, <2>1
<1> HIDE DEF d
<1>10. /\ \A q : q \in DOMAIN U <=> q \in DOMAIN T \/ q = d
       /\ \A q \in DOMAIN T : U[q] = T[q]
  BY <1>8, ResolvedValues
<1>11. /\ ms \in Seq(Paths) /\ Len(ms) = Len(ns) + 1 /\ ms[Len(ns) + 1] = d
       /\ \A i \in 1..Len(ns) : ms[i] = ns[i]
  BY <1>2, <1>4
<1> HIDE DEF c, ms
<1>12. ASSUME NEW i \in 1..Len(ms) PROVE ms[i] \in DOMAIN U /\ Len(ms[i]) = i - 1
  <2>1. CASE i = Len(ns) + 1
    BY <1>2, <1>3, <1>4, <1>10, <1>11, <2>1
  <2>2. CASE i # Len(ns) + 1
    <3>1. i \in 1..Len(ns)
      BY <1>2, <1>11, <2>2
    <3>2. ns[i] \in DOMAIN T /\ Len(ns[i]) = i - 1
      BY <1>1, <3>1 DEF ChainOf
    <3> QED BY <1>10, <1>11, <3>1, <3>2
  <2> QED BY <2>1, <2>2
<1>13. ASSUME NEW i \in 1..(Len(ms) - 1) PROVE Parent(ms[i + 1]) = ms[i]
  <2>1. CASE i = Len(ns)
    <3>1. ms[i + 1] = d /\ ms[i] = c
      BY <1>2, <1>11, <2>1 DEF c
    <3> QED BY <1>4, <3>1
  <2>2. CASE i # Len(ns)
    <3>1. i \in 1..(Len(ns) - 1) /\ i \in 1..Len(ns) /\ i + 1 \in 1..Len(ns)
      BY <1>2, <1>11, <2>2
    <3>2. Parent(ns[i + 1]) = ns[i]
      BY <1>1, <3>1 DEF ChainOf
    <3> QED BY <1>11, <3>1, <3>2
  <2> QED BY <2>1, <2>2
<1>14. ASSUME NEW i \in 1..Len(gs)
       PROVE  /\ ms[i] = ns[i] /\ ns[i] \in DOMAIN T /\ ns[i] \in Paths
              /\ i \in 1..Len(fs) /\ i \in 1..Len(ns)
              /\ U[ms[i]] = Item(gs[i].kind, "")
  <2>1. i \in 1..Len(fs) /\ i \in 1..Len(ns)
    BY <1>1
  <2>2. ms[i] = ns[i] /\ ns[i] \in DOMAIN T /\ T[ns[i]] = Item(fs[i].kind, "")
    BY <1>1, <1>11, <2>1 DEF ChainOf
  <2>3. gs[i].kind = fs[i].kind
    BY <2>1 DEF EnterAt, SameTop
  <2>4. ns[i] \in Paths
    BY <1>1, <2>2 DEF IsTree
  <2> QED BY <1>10, <2>1, <2>2, <2>3, <2>4
<1>15. ASSUME NEW i \in 1..Len(gs), gs[i].kind = "array", NEW k \in Nat
       PROVE  Append(ms[i], <<"e", k>>) \in DOMAIN U <=> k < gs[i].index
  <2> DEFINE r == Append(ns[i], <<"e", k>>)
  <2>1. <<"e", k>> \in Steps /\ <<"e", k>>[2] = k
    BY StepForms
  <2>2. r \in Paths /\ Parent(r) = ns[i] /\ StepTo(r) = <<"e", k>>
    BY <1>14, <2>1, ChildPath
  <2>3. r \in DOMAIN T <=> k < fs[i].index
    <3>1. fs[i].kind = "array" /\ i \in 1..Len(fs)
      BY <1>1, <1>14, <1>15 DEF EnterAt, SameTop
    <3> QED BY <1>1, <3>1 DEF ChainOf
  <2>0. Append(ms[i], <<"e", k>>) = r
    BY <1>14
  <2> HIDE DEF r
  <2>4. CASE i # Len(fs)
    <3>1. ns[i] # c
      <4>1. i \in 1..(Len(ns) - 1)
        BY <1>1, <1>2, <2>4
      <4> QED BY <1>1, <1>2, <4>1, CurrentValue DEF c
    <3>2. r # d
      BY <1>4, <2>2, <3>1
    <3>3. gs[i] = fs[i]
      BY <1>14, <2>4 DEF EnterAt, SameTop
    <3> QED BY <1>10, <2>0, <2>3, <3>2, <3>3
  <2>5. CASE i = Len(fs) /\ s[1] = "m"
    <3>1. r # d
      <4>1. <<"e", k>>[1] = "e"
        BY StepForms
      <4> QED BY <1>4, <2>2, <2>5, <4>1
    <3>2. gs = fs
      BY <2>5 DEF EnterAt
    <3> QED BY <1>10, <2>0, <2>3, <3>1, <3>2
  <2>6. CASE i = Len(fs) /\ s[1] # "m"
    <3>1. s[1] = "e"
      BY <1>1, <2>6, StepForms
    <3>2. s = <<"e", s[2]>> /\ s[2] \in Nat /\ s[2] = fs[i].index /\ gs[i].index = fs[i].index + 1
      BY <1>5, <2>6, <3>1 DEF EnterAt
    <3>3. ns[i] = c
      BY <1>1, <2>6 DEF c
    <3>4. r = d <=> k = s[2]
      <4>1. r = d => k = s[2]
        BY <1>4, <2>1, <2>2, <3>2
      <4>2. k = s[2] => r = d
        BY <3>2, <3>3 DEF r, d
      <4> QED BY <4>1, <4>2
    <3>5. k < gs[i].index <=> k < fs[i].index \/ k = s[2]
      BY <3>2
    <3> QED BY <1>10, <2>0, <2>3, <3>4, <3>5
  <2> QED BY <2>4, <2>5, <2>6
<1>16. Len(gs) <= Len(ms)
  BY <1>1, <1>2, <1>11
<1>17. ChainOf(gs, ms, U)
  BY <1>1, <1>9, <1>11, <1>12, <1>13, <1>14, <1>15, <1>16 DEF ChainOf
<1> QED BY <1>17 DEF ms, d, c

\* readObject remembers the name of the member.
LEMMA ChainOfName ==
    ASSUME NEW fs, NEW ns, NEW T, NEW gs, ChainOf(fs, ns, T), SameTop(fs, gs),
           \A i \in 1..Len(fs) : gs[i].index = fs[i].index
    PROVE  ChainOf(gs, ns, T)
<1>1. /\ gs \in Seq(FrameSet) /\ Len(gs) = Len(fs)
      /\ \A i \in 1..Len(fs) : gs[i].kind = fs[i].kind
  BY DEF SameTop
<1> QED BY <1>1 DEF ChainOf

InObject == {"name", "colon", "comma", "after comment"}
InArray == {"first", "element", "separator"}

\* Where the innermost function is, and which one it is.
Where ==
    /\ pc \in Places /\ features.stackLimit \in Nat
    /\ pc = "idle" => frames = <<>> /\ nodes = <<>>
    /\ pc # "idle" =>
          Len(nodes) = IF pc \in Holding THEN Len(frames) + 1 ELSE Len(frames)
    /\ pc \in {"finish", "done"} => frames = <<>>
    /\ pc = "recover" => frames # <<>>
    /\ pc \in InObject => frames # <<>> /\ Top.kind = "object"
    /\ pc \in InArray => frames # <<>> /\ Top.kind = "array"
    /\ Len(frames) <= features.stackLimit

Setting == features \in AllFeatures /\ alphabet \subseteq AllTokens

Shape == Setting /\ Chain /\ Where

\* At a place within a container, its readObject or readArray is the innermost function.
LEMMA InContainer ==
    ASSUME Shape, pc \in InObject \cup InArray \cup {"recover"}
    PROVE  /\ frames # <<>> /\ Len(frames) \in Nat /\ Len(frames) > 0
           /\ Len(nodes) = Len(frames) /\ Len(frames) <= features.stackLimit
           /\ frames \in Seq(FrameSet) /\ Top \in FrameSet
           /\ pc \in InObject => Top.kind = "object"
           /\ pc \in InArray => Top.kind = "array"
<1>1. /\ frames # <<>> /\ Len(nodes) = Len(frames) /\ Len(frames) <= features.stackLimit
      /\ pc \in InObject => Top.kind = "object"
      /\ pc \in InArray => Top.kind = "array"
  BY DEF Shape, Where, InObject, InArray, Holding
<1>2. frames \in Seq(FrameSet) /\ Len(frames) \in Nat
  BY ChainLengths DEF Shape, Chain
<1>3. Len(frames) > 0
  BY <1>1, <1>2
<1>4. Top \in FrameSet
  BY <1>2, <1>3 DEF Top
<1> QED BY <1>1, <1>2, <1>3, <1>4

\* The Value that it fills is a container of its kind.
LEMMA ContainerValue ==
    ASSUME Shape, pc \in InObject \cup InArray \cup {"recover"}
    PROVE  /\ tree[Current] = Item(Top.kind, "")
           /\ Current \in DOMAIN tree /\ Current \in Paths /\ Len(Current) = Len(frames) - 1
<1>1. /\ Len(frames) \in Nat /\ Len(frames) > 0 /\ Len(nodes) = Len(frames)
  BY InContainer
<1>2. ChainOf(frames, nodes, tree)
  BY DEF Shape, Chain
<1>3. Len(frames) \in 1..Len(frames)
  BY <1>1
<1>4. tree[nodes[Len(frames)]] = Item(frames[Len(frames)].kind, "")
  BY <1>2, <1>3 DEF ChainOf
<1>5. /\ nodes[Len(nodes)] \in DOMAIN tree /\ nodes[Len(nodes)] \in Paths
      /\ Len(nodes[Len(nodes)]) = Len(nodes) - 1
  BY <1>1, <1>2, CurrentValue
<1> QED BY <1>1, <1>4, <1>5 DEF Current, Top

\* The calls and the Values are left as they are.
LEMMA StaysThere ==
    ASSUME Shape, UNCHANGED <<settings, frames, nodes, tree>>,
           pc \in InObject \cup InArray \cup {"recover"},
           \/ pc' = pc \/ pc' = "recover"
           \/ pc \in InObject /\ pc' \in InObject
           \/ pc \in InArray /\ pc' \in InArray
    PROVE  Shape'
<1>1. features' = features /\ alphabet' = alphabet
  BY DEF settings
<1>2. Setting' /\ Chain'
  BY <1>1 DEF Shape, Setting, Chain
<1>3. Top' = Top /\ Ours' = Ours
  BY <1>1 DEF Top, Ours
<1>4. /\ features.stackLimit \in Nat /\ Len(frames) <= features.stackLimit
      /\ frames # <<>> /\ Len(nodes) = Len(frames)
      /\ pc \in InObject => Top.kind = "object"
      /\ pc \in InArray => Top.kind = "array"
  BY InContainer DEF Shape, Where
<1>5. pc' \in InObject \cup InArray \cup {"recover"}
  OBVIOUS
<1>6. pc' \in InObject => Top.kind = "object"
  BY <1>4 DEF InObject, InArray
<1>7. pc' \in InArray => Top.kind = "array"
  BY <1>4 DEF InObject, InArray
<1>8. pc' \in Places /\ pc' # "idle" /\ pc' \notin Holding' /\ pc' \notin {"finish", "done"}
  BY <1>5 DEF InObject, InArray, Places, Holding
<1> QED BY <1>1, <1>2, <1>3, <1>4, <1>6, <1>7, <1>8 DEF Shape, Where

\* readValue returns to fs.
LEMMA Returns ==
    ASSUME NEW fs, NEW ok, Setting, UNCHANGED settings,
           ChainOf(fs, nodes, tree'), Len(nodes) = Len(fs) + 1,
           Len(fs) <= features.stackLimit, Return(fs, ok)
    PROVE  Shape'
<1>1. features' = features /\ alphabet' = alphabet
  BY DEF settings
<1>2. Setting' /\ Ours' = Ours /\ features.stackLimit \in Nat
  BY <1>1 DEF Setting, Ours, AllFeatures
<1>3. /\ frames' = fs /\ nodes' = Popped(fs) /\ pc' = Continue(fs, ok)
      /\ Top' = fs[Len(fs)]
  BY DEF Return, Top
<1>4. fs \in Seq(FrameSet) /\ nodes \in Seq(Paths) /\ Len(fs) \in Nat /\ Len(nodes) \in Nat
  BY ChainLengths
<1>5. CASE fs = <<>>
  <2>1. pc' = "finish"
    BY <1>3, <1>5 DEF Continue
  <2>2. CASE Ours
    <3>1. nodes' = SubSeq(nodes, 1, Len(nodes) - 1)
      BY <1>3, <2>2 DEF Popped
    <3>2. ChainOf(SubSeq(fs, 1, Len(fs)), SubSeq(nodes, 1, Len(nodes) - 1), tree')
      BY <1>4, ChainOfShorter
    <3>3. ChainOf(fs, SubSeq(nodes, 1, Len(nodes) - 1), tree')
      BY <1>4, <3>2, WholePrefix
    <3>4. Len(nodes') = Len(fs)
      BY <1>4, <3>1, Prefix
    <3>5. Chain'
      BY <1>3, <3>1, <3>3 DEF Chain
    <3>6. pc' \notin Holding'
      BY <1>2, <2>1, <2>2 DEF Holding
    <3>7. Where'
      BY <1>1, <1>2, <1>3, <1>5, <2>1, <3>4, <3>6 DEF Where, Places, InObject, InArray
    <3> QED BY <1>2, <3>5, <3>7 DEF Shape
  <2>3. CASE ~Ours
    <3>1. nodes' = nodes
      BY <1>3, <1>5, <2>3 DEF Popped
    <3>2. Chain'
      BY <1>3, <3>1 DEF Chain
    <3>3. pc' \in Holding'
      BY <1>2, <2>1, <2>3 DEF Holding
    <3>4. Where'
      BY <1>1, <1>2, <1>3, <1>5, <2>1, <3>1, <3>3 DEF Where, Places, InObject, InArray
    <3> QED BY <1>2, <3>2, <3>4 DEF Shape
  <2> QED BY <2>2, <2>3
<1>6. CASE fs # <<>>
  <2>1. nodes' = SubSeq(nodes, 1, Len(nodes) - 1)
    BY <1>3, <1>6 DEF Popped
  <2>2. ChainOf(SubSeq(fs, 1, Len(fs)), SubSeq(nodes, 1, Len(nodes) - 1), tree')
    BY <1>4, ChainOfShorter
  <2>3. ChainOf(fs, SubSeq(nodes, 1, Len(nodes) - 1), tree')
    BY <1>4, <2>2, WholePrefix
  <2>4. Len(nodes') = Len(fs)
    BY <1>4, <2>1, Prefix
  <2>5. Chain'
    BY <1>3, <2>1, <2>3 DEF Chain
  <2>6. fs[Len(fs)] \in FrameSet
    BY <1>4, <1>6
  <2>7. fs[Len(fs)].kind \in {"object", "array"}
    BY <2>6 DEF FrameSet
  <2>8. \/ pc' = "recover"
        \/ pc' = "comma" /\ fs[Len(fs)].kind = "object"
        \/ pc' = "separator" /\ fs[Len(fs)].kind = "array"
    BY <1>3, <1>6, <2>7 DEF Continue
  <2>9. pc' \notin Holding'
    BY <2>8 DEF Holding
  <2>10. Where'
    BY <1>1, <1>2, <1>3, <1>6, <2>4, <2>8, <2>9 DEF Where, Places, InObject, InArray
  <2> QED BY <1>2, <2>5, <2>10 DEF Shape
<1> QED BY <1>5, <1>6

\* readObject or readArray returns, and readValue with it.
LEMMA ContainerReturns ==
    ASSUME NEW ok, Shape, UNCHANGED settings, pc \in InObject \cup InArray \cup {"recover"},
           EndContainer(ok)
    PROVE  Shape'
<1>1. /\ Len(frames) \in Nat /\ Len(frames) > 0 /\ Len(nodes) = Len(frames)
      /\ Len(frames) <= features.stackLimit /\ frames \in Seq(FrameSet)
  BY InContainer
<1> DEFINE fs == SubSeq(frames, 1, Len(frames) - 1)
<1>2. Return(fs, ok) /\ tree' = tree
  BY DEF EndContainer
<1>3. Len(fs) = Len(frames) - 1
  BY <1>1, Prefix
<1>4. ChainOf(frames, nodes, tree) /\ nodes \in Seq(Paths)
  BY ChainLengths DEF Shape, Chain
<1>5. ChainOf(fs, SubSeq(nodes, 1, Len(nodes)), tree)
  <2>1. Len(frames) - 1 \in 0..Len(frames) /\ Len(nodes) \in 0..Len(nodes)
        /\ Len(frames) - 1 <= Len(nodes)
    BY <1>1
  <2> QED BY <1>4, <2>1, ChainOfShorter
<1>6. ChainOf(fs, nodes, tree')
  BY <1>2, <1>4, <1>5, WholePrefix
<1> HIDE DEF fs
<1>7. features.stackLimit \in Nat /\ Setting
  BY DEF Shape, Where
<1>8. Len(nodes) = Len(fs) + 1 /\ Len(fs) <= features.stackLimit
  BY <1>1, <1>3, <1>7
<1> QED BY <1>2, <1>6, <1>7, <1>8, Returns

\* readValue is about to read the Value at the top of nodes_.
LEMMA AtValue ==
    ASSUME Shape, pc = "value"
    PROVE  /\ Chain /\ Len(nodes) = Len(frames) + 1 /\ Len(frames) <= features.stackLimit
           /\ Len(frames) \in Nat /\ frames \in Seq(FrameSet) /\ features.stackLimit \in Nat
           /\ Setting
<1>1. /\ Chain /\ Len(nodes) = Len(frames) + 1 /\ Len(frames) <= features.stackLimit
      /\ Setting /\ features.stackLimit \in Nat
  BY DEF Shape, Where, Holding
<1> QED BY <1>1, ChainLengths DEF Chain

\* The tokens of a document.
LEMMA TokenTypes ==
    ASSUME NEW t \in AllTokens
    PROVE  t.text \in Labels
BY DEF Labels

\* A value is read, or refused.
LEMMA ValueShape ==
    ASSUME NEW t, Shape, UNCHANGED settings, ValueStep(t)
    PROVE  Shape'
<1>1. /\ pc = "value" /\ Len(nodes) <= features.stackLimit
      /\ \/ BeginContainer(t) \/ DecodeScalar(t) \/ UndecodedScalar(t) \/ DroppedNull(t)
         \/ ValueExpected(t) \/ SkipComment(t)
  BY DEF ValueStep, InValue
<1>2. /\ ChainOf(frames, nodes, tree) /\ Len(nodes) = Len(frames) + 1
      /\ Len(frames) <= features.stackLimit /\ Len(frames) \in Nat
      /\ frames \in Seq(FrameSet) /\ features.stackLimit \in Nat /\ Setting
  BY <1>1, AtValue DEF Chain
<1>3. CASE BeginContainer(t)
  <2> DEFINE v == IF t.type = "{" THEN Object ELSE Array
             f == [kind |-> IF t.type = "{" THEN "object" ELSE "array", name |-> "", index |-> 0]
  <2>1. /\ tree' = Swapped(tree, Current, v) /\ frames' = Append(frames, f) /\ nodes' = nodes
        /\ pc' = IF t.type = "{" THEN "name" ELSE "first"
    BY <1>3 DEF BeginContainer
  <2>2. NewFrame(f, v)
    <3>1. f \in FrameSet
      BY DEF FrameSet, Labels
    <3>2. f.index = 0 /\ v = Item(f.kind, "")
      BY DEF Object, Array
    <3> QED BY <3>1, <3>2 DEF NewFrame
  <2>3. f \in FrameSet /\ f.kind = IF t.type = "{" THEN "object" ELSE "array"
    BY <2>2 DEF NewFrame
  <2> HIDE DEF f, v
  <2>4. SwapAt(frames, nodes, tree, v, tree')
    BY <1>2, <2>1 DEF SwapAt, Current
  <2>5. ChainOf(Append(frames, f), nodes, tree')
    BY <2>2, <2>4, ChainOfBegin
  <2>6. Chain'
    BY <2>1, <2>5 DEF Chain
  <2>7. Len(frames') = Len(frames) + 1 /\ frames' # <<>> /\ Top' = f
    <3>1. /\ Len(Append(frames, f)) = Len(frames) + 1 /\ Append(frames, f) # <<>>
          /\ Append(frames, f)[Len(frames) + 1] = f
      BY <1>2, <2>3, Appended
    <3> QED BY <2>1, <3>1 DEF Top
  <2>8. features' = features /\ alphabet' = alphabet
    BY DEF settings
  <2>9. Len(frames') <= features.stackLimit /\ Len(nodes') = Len(frames')
    BY <1>1, <1>2, <2>1, <2>7
  <2>10. pc' \notin Holding'
    BY <2>1 DEF Holding
  <2>11. Where'
    BY <1>2, <2>1, <2>3, <2>7, <2>8, <2>9, <2>10 DEF Where, Places, InObject, InArray
  <2>12. Setting'
    BY <1>2, <2>8 DEF Setting
  <2> QED BY <2>6, <2>11, <2>12 DEF Shape
<1>4. CASE DecodeScalar(t) \/ DroppedNull(t)
  <2>1. PICK v : tree' = Swapped(tree, Current, v)
    BY <1>4 DEF DecodeScalar, DroppedNull
  <2>2. Return(frames, TRUE)
    BY <1>4 DEF DecodeScalar, DroppedNull
  <2>3. SwapAt(frames, nodes, tree, v, tree')
    BY <1>2, <2>1 DEF SwapAt, Current
  <2>4. ChainOf(frames, nodes, tree')
    BY <2>3, ChainOfSwap
  <2> QED BY <1>2, <2>2, <2>4, Returns
<1>5. CASE UndecodedScalar(t) \/ ValueExpected(t)
  <2>1. tree' = tree /\ Return(frames, FALSE)
    BY <1>5 DEF UndecodedScalar, ValueExpected
  <2> QED BY <1>2, <2>1, Returns
<1>6. CASE SkipComment(t)
  <2>1. /\ frames' = frames /\ nodes' = nodes /\ tree' = tree /\ pc' = pc
        /\ features' = features /\ alphabet' = alphabet
    BY <1>1, <1>6 DEF SkipComment, settings
  <2>2. Top' = Top /\ Holding' = Holding
    BY <2>1 DEF Top, Holding, Ours
  <2> QED BY <2>1, <2>2 DEF Shape, Setting, Chain, Where
<1> QED BY <1>1, <1>3, <1>4, <1>5, <1>6

\* The name of a member is read.
LEMMA NamingShape ==
    ASSUME NEW t \in AllTokens, Shape, UNCHANGED settings, Naming(t)
    PROVE  Shape'
<1>1. /\ pc = "name" /\ pc' = "colon" /\ nodes' = nodes /\ tree' = tree
      /\ frames' = [frames EXCEPT ![Len(frames)].name = t.text]
      /\ features' = features /\ alphabet' = alphabet
  BY DEF Naming, Named, settings
<1>2. pc \in InObject \cup InArray \cup {"recover"}
  BY <1>1 DEF InObject
<1>3. /\ frames # <<>> /\ Len(frames) \in Nat /\ Len(frames) > 0
      /\ Len(nodes) = Len(frames) /\ Len(frames) <= features.stackLimit
      /\ frames \in Seq(FrameSet) /\ Top \in FrameSet /\ Top.kind = "object"
  BY <1>1, <1>2, InContainer DEF InObject
<1>4. t.text \in Labels
  BY TokenTypes
<1>5. [Top EXCEPT !.name = t.text] \in FrameSet
  BY <1>3, <1>4 DEF FrameSet
<1>6. frames' = [frames EXCEPT ![Len(frames)] = [Top EXCEPT !.name = t.text]]
  BY <1>1 DEF Top
<1>7. frames' \in Seq(FrameSet) /\ Len(frames') = Len(frames)
  BY <1>3, <1>5, <1>6
<1>8. /\ \A i \in 1..Len(frames) : i # Len(frames) => frames'[i] = frames[i]
      /\ frames'[Len(frames)] = [Top EXCEPT !.name = t.text]
  BY <1>3, <1>6
<1>9. /\ [Top EXCEPT !.name = t.text].kind = Top.kind
      /\ [Top EXCEPT !.name = t.text].index = Top.index
  BY <1>3 DEF FrameSet
<1>10. \A i \in 1..Len(frames) : /\ frames'[i].kind = frames[i].kind
                                 /\ frames'[i].index = frames[i].index
  BY <1>8, <1>9 DEF Top
<1>11. SameTop(frames, frames')
  BY <1>7, <1>8, <1>10 DEF SameTop
<1>12. Chain'
  BY <1>1, <1>10, <1>11, ChainOfName DEF Shape, Chain
<1>13. Top'.kind = "object"
  BY <1>3, <1>7, <1>8, <1>9 DEF Top
<1>14. pc' \notin Holding' /\ frames' # <<>> /\ features.stackLimit \in Nat
  BY <1>1, <1>3, <1>7 DEF Holding, Shape, Where
<1>15. Where'
  BY <1>1, <1>3, <1>7, <1>13, <1>14 DEF Where, Places, InObject, InArray
<1> QED BY <1>1, <1>12, <1>15 DEF Shape, Setting

\* A Value is entered: the frames are as before but for the index of an element.
LEMMA EnterShape ==
    ASSUME NEW s, Shape, UNCHANGED settings, Enter(s),
           pc \in InObject \cup InArray \cup {"recover"},
           EnterAt(frames, nodes, tree, s, frames', Resolved(tree, Append(Current, s)))
    PROVE  Shape'
<1>1. /\ tree' = Resolved(tree, Append(Current, s)) /\ pc' = "value"
      /\ nodes' = Append(nodes, Append(Current, s))
      /\ features' = features /\ alphabet' = alphabet
  BY DEF Enter, settings
<1>2. /\ Len(frames) \in Nat /\ Len(nodes) = Len(frames) /\ Len(frames) <= features.stackLimit
  BY InContainer
<1>3. ChainOf(frames', Append(nodes, Append(nodes[Len(nodes)], s)), tree')
  BY <1>1, ChainOfEnter
<1>4. Chain'
  BY <1>1, <1>3 DEF Chain, Current
<1>5. Len(frames') = Len(frames)
  BY DEF EnterAt, SameTop
<1>6. nodes \in Seq(Paths)
  BY ChainLengths DEF Shape, Chain
<1>7. Len(nodes') = Len(frames') + 1
  <2>1. nodes' \in Seq(Paths)
    BY <1>4, ChainLengths DEF Chain
  <2>2. Len(Append(nodes, Append(Current, s))) = Len(nodes) + 1
    BY <1>6
  <2> QED BY <1>1, <1>2, <1>5, <2>2
<1>8. pc' \in Holding' /\ features.stackLimit \in Nat
  BY <1>1 DEF Holding, Shape, Where
<1>9. Where'
  BY <1>1, <1>2, <1>5, <1>7, <1>8 DEF Where, Places, InObject, InArray
<1> QED BY <1>1, <1>4, <1>9 DEF Shape, Setting

\* operator[] with the name of a member.
LEMMA MemberShape ==
    ASSUME NEW t, Shape, UNCHANGED settings, MemberEntered(t)
    PROVE  Shape'
<1>1. pc = "colon" /\ Enter(<<"m", Top.name>>) /\ frames' = frames
  BY DEF MemberEntered
<1>2. pc \in InObject \cup InArray \cup {"recover"}
  BY <1>1 DEF InObject
<1>3. /\ frames # <<>> /\ Len(frames) \in Nat /\ Len(frames) > 0
      /\ Len(nodes) = Len(frames) /\ frames \in Seq(FrameSet)
      /\ Top \in FrameSet /\ Top.kind = "object" /\ Chain
  BY <1>1, <1>2, InContainer DEF InObject, Shape
<1> DEFINE s == <<"m", Top.name>>
<1>4. s \in Steps /\ s[1] = "m"
  BY <1>3 DEF FrameSet, Steps
<1>5. tree[nodes[Len(nodes)]] = Item(Top.kind, "")
  BY <1>2, ContainerValue DEF Current
<1>6. SameTop(frames, frames)
  BY <1>3 DEF SameTop
<1>7. Item("object", "") = Object
  BY DEF Object
<1> HIDE DEF s
<1>8. EnterAt(frames, nodes, tree, s, frames', Resolved(tree, Append(Current, s)))
  BY <1>1, <1>3, <1>4, <1>5, <1>6, <1>7 DEF EnterAt, Chain, Current
<1>9. Enter(s)
  BY <1>1 DEF s
<1> QED BY <1>2, <1>8, <1>9, EnterShape

\* operator[] with the index of an element.
LEMMA ElementShape ==
    ASSUME Shape, UNCHANGED settings, ElementEntered
    PROVE  Shape'
<1>1. /\ pc = "element" /\ Enter(<<"e", Top.index>>)
      /\ frames' = [frames EXCEPT ![Len(frames)].index = @ + 1]
  BY DEF ElementEntered, EnterElement, NextIndex
<1>2. pc \in InObject \cup InArray \cup {"recover"}
  BY <1>1 DEF InArray
<1>3. /\ frames # <<>> /\ Len(frames) \in Nat /\ Len(frames) > 0
      /\ Len(nodes) = Len(frames) /\ frames \in Seq(FrameSet)
      /\ Top \in FrameSet /\ Top.kind = "array" /\ Chain
  BY <1>1, <1>2, InContainer DEF InArray, Shape
<1> DEFINE s == <<"e", Top.index>>
           g == [Top EXCEPT !.index = @ + 1]
<1>4. Top.index \in Nat
  BY <1>3 DEF FrameSet
<1>5. s \in Steps /\ s[1] = "e" /\ s[2] = Top.index
  BY <1>4, StepForms
<1>6. g \in FrameSet /\ g.kind = Top.kind /\ g.index = Top.index + 1
  BY <1>3, <1>4 DEF FrameSet
<1>7. frames' = [frames EXCEPT ![Len(frames)] = g]
  BY <1>1 DEF Top
<1> HIDE DEF g
<1>8. /\ frames' \in Seq(FrameSet) /\ Len(frames') = Len(frames)
      /\ \A i \in 1..Len(frames) : i # Len(frames) => frames'[i] = frames[i]
      /\ frames'[Len(frames)] = g
  BY <1>3, <1>6, <1>7
<1>9. \A i \in 1..Len(frames) : frames'[i].kind = frames[i].kind
  BY <1>6, <1>8 DEF Top
<1>10. SameTop(frames, frames')
  BY <1>8, <1>9 DEF SameTop
<1>11. tree[nodes[Len(nodes)]] = Item(Top.kind, "")
  BY <1>2, ContainerValue DEF Current
<1>12. Item("array", "") = Array
  BY DEF Array
<1> HIDE DEF s
<1>13. /\ s[2] = frames[Len(frames)].index
       /\ frames'[Len(frames)].index = frames[Len(frames)].index + 1
  BY <1>5, <1>6, <1>8 DEF Top
<1>14. tree[nodes[Len(nodes)]] = Array /\ s[1] # "m"
  BY <1>3, <1>5, <1>11, <1>12
<1>15. EnterAt(frames, nodes, tree, s, frames', Resolved(tree, Append(Current, s)))
  BY <1>3, <1>5, <1>10, <1>13, <1>14 DEF EnterAt, Chain, Current
<1>16. Enter(s)
  BY <1>1 DEF s
<1> QED BY <1>2, <1>15, <1>16, EnterShape

\* The other steps of the functions.
LEMMA PlainShape ==
    ASSUME NEW t, Shape, UNCHANGED settings, PlainStep(t)
    PROVE  Shape'
<1>1. CASE Skipping(t)
  <2>1. /\ UNCHANGED <<frames, nodes, tree>> /\ pc \in InObject \cup InArray
        /\ \/ pc' = pc \/ (pc \in InObject /\ pc' \in InObject)
    BY <1>1 DEF Skipping, SkipComment, InObject, InArray
  <2> QED BY <2>1, StaysThere
<1>2. CASE Closing(t)
  <2>1. pc \in InObject \cup InArray /\ EndContainer(TRUE)
    BY <1>2 DEF Closing, InObject, InArray
  <2> QED BY <2>1, ContainerReturns
<1>3. CASE Failing(t)
  <2>1. pc \in InObject \cup InArray /\ UNCHANGED <<frames, nodes, tree>> /\ pc' = "recover"
    BY <1>3 DEF Failing, Fail, InObject, InArray
  <2> QED BY <2>1, StaysThere
<1>4. CASE NextMember(t)
  <2>1. pc \in InObject /\ UNCHANGED <<frames, nodes, tree>> /\ pc' \in InObject
    BY <1>4 DEF NextMember, Goto, InObject
  <2> QED BY <2>1, StaysThere
<1>5. CASE NextRound(t) \/ Peeking(t)
  <2>1. pc \in InArray /\ UNCHANGED <<frames, nodes, tree>> /\ pc' \in InArray
    BY <1>5 DEF NextRound, Peeking, Goto, InArray
  <2> QED BY <2>1, StaysThere
<1>6. CASE MemberEntered(t)
  BY <1>6, MemberShape
<1>7. CASE Recovering(t)
  <2>1. pc = "recover" /\ UNCHANGED <<frames, nodes, tree>> /\ pc' = pc
    BY <1>7 DEF Recovering, calls
  <2> QED BY <2>1, StaysThere
<1>8. CASE GivingUp(t)
  <2>1. pc = "recover" /\ EndContainer(FALSE)
    BY <1>8 DEF GivingUp
  <2> QED BY <2>1, ContainerReturns
<1>9. CASE Remarking(t) \/ Ending(t)
  <2>1. /\ pc = "finish" /\ pc' \in {"finish", "done"}
        /\ frames' = frames /\ nodes' = nodes /\ tree' = tree
        /\ features' = features /\ alphabet' = alphabet
    BY <1>9 DEF Remarking, Ending, settings
  <2>2. Top' = Top /\ Holding' = Holding /\ (pc' \in Holding <=> pc \in Holding)
    BY <2>1 DEF Top, Holding, Ours
  <2>3. Setting' /\ Chain'
    BY <2>1 DEF Shape, Setting, Chain
  <2>4. Where'
    BY <2>1, <2>2 DEF Shape, Where, Places, InObject, InArray
  <2> QED BY <2>3, <2>4 DEF Shape
<1> QED BY <1>1, <1>2, <1>3, <1>4, <1>5, <1>6, <1>7, <1>8, <1>9 DEF PlainStep

LEMMA ShapeInit ==
    ASSUME Init
    PROVE  Shape
<1>1. ChainOf(<<>>, <<>>, tree)
  BY ChainOfParse DEF Init
<1>2. Chain
  BY <1>1 DEF Init, Chain
<1>3. Setting /\ features.stackLimit \in Nat
  BY DEF Init, Setting, AllFeatures
<1>4. Where
  BY <1>3 DEF Init, Where, Places, InObject, InArray
<1> QED BY <1>2, <1>3, <1>4 DEF Shape

LEMMA ShapeNext ==
    ASSUME Shape, [AnyNext]_vars
    PROVE  Shape'
<1>1. CASE UNCHANGED vars
  <2>1. UNCHANGED <<features, alphabet, pc, frames, nodes, tree>>
    BY <1>1 DEF vars, settings, calls
  <2>2. Setting' /\ Chain'
    BY <2>1 DEF Shape, Setting, Chain
  <2>3. Top' = Top /\ Holding' = Holding
    BY <2>1 DEF Top, Holding, Ours
  <2>4. Where'
    BY <2>1, <2>3 DEF Shape, Where
  <2> QED BY <2>2, <2>4 DEF Shape
<1>2. CASE AnyNext
  <2>1. /\ UNCHANGED settings
        /\ \/ Parse \/ ExceededStackLimit \/ ElementEntered
           \/ \E t \in alphabet : ValueStep(t) \/ PlainStep(t) \/ Naming(t)
    BY <1>2, StepCases
  <2>2. features' = features /\ alphabet' = alphabet /\ Setting' /\ features.stackLimit \in Nat
    BY <2>1 DEF settings, Shape, Setting, AllFeatures
  <2>3. CASE Parse
    <3>1. ChainOf(<<>>, <<Root>>, tree')
      BY <2>3, ChainOfParse DEF Parse
    <3>2. Chain'
      BY <2>3, <3>1 DEF Parse, Chain
    <3>3. pc' = "value" /\ frames' = <<>> /\ nodes' = <<Root>> /\ pc' \in Holding'
      BY <2>3 DEF Parse, Holding
    <3>4. Where'
      BY <2>2, <3>3 DEF Where, Places, InObject, InArray
    <3> QED BY <2>2, <3>2, <3>4 DEF Shape
  <2>4. CASE ExceededStackLimit
    <3>1. pc = "value" /\ pc' = "aborted" /\ UNCHANGED <<frames, nodes, tree>>
      BY <2>4 DEF ExceededStackLimit
    <3>2. /\ Len(nodes) = Len(frames) + 1 /\ Len(frames) <= features.stackLimit /\ Chain
      BY <3>1, AtValue
    <3>3. Chain' /\ pc' \in Holding'
      BY <3>1, <3>2 DEF Chain, Holding
    <3>4. Where'
      BY <2>2, <3>1, <3>2, <3>3 DEF Where, Places, InObject, InArray
    <3> QED BY <2>2, <3>3, <3>4 DEF Shape
  <2>5. CASE ElementEntered
    BY <2>1, <2>5, ElementShape
  <2>6. ASSUME NEW t \in alphabet, ValueStep(t) \/ PlainStep(t) \/ Naming(t) PROVE Shape'
    <3>1. t \in AllTokens
      BY DEF Shape, Setting
    <3> QED BY <2>1, <2>6, <3>1, ValueShape, PlainShape, NamingShape
  <2> QED BY <2>1, <2>3, <2>4, <2>5, <2>6
<1> QED BY <1>1, <1>2

------------------------------------------------------------------------------
(* The other variables *)

\* The comments that were kept are comments that were read.
Marked ==
    /\ heard \in Nat /\ pending \subseteq 1..heard
    /\ \A n \in notes : n.id \in 1..heard
    /\ ~Collect => pending = {} /\ notes = {}

Tokens == left \in 0..MaxTokens /\ unread \in alphabet \cup {NoToken}

Typed == Tokens /\ Marked /\ errors \in Nat /\ result \in BOOLEAN

LEMMA TokensRead ==
    ASSUME NEW t, Tokens, UNCHANGED settings, Take(t)
    PROVE  Tokens' /\ (t \in alphabet \/ t = EndOfStream)
<1>1. left \in 0..MaxTokens /\ unread \in alphabet \cup {NoToken} /\ alphabet' = alphabet
      /\ MaxTokens \in Nat
  BY DescentAssumption DEF Tokens, settings
<1>2. left' \in 0..MaxTokens
  BY <1>1 DEF Take
<1>3. unread' \in alphabet \cup {NoToken} /\ (t \in alphabet \/ t = EndOfStream)
  BY <1>1 DEF Take
<1> QED BY <1>1, <1>2, <1>3 DEF Tokens

LEMMA TokensPeeked ==
    ASSUME NEW t, Tokens, UNCHANGED settings, Peek(t)
    PROVE  Tokens'
<1>1. left \in 0..MaxTokens /\ unread \in alphabet \cup {NoToken} /\ alphabet' = alphabet
      /\ MaxTokens \in Nat
  BY DescentAssumption DEF Tokens, settings
<1>2. left' \in 0..MaxTokens
  BY <1>1 DEF Peek
<1>3. unread' \in alphabet \cup {NoToken}
  BY <1>1 DEF Peek
<1> QED BY <1>1, <1>2, <1>3 DEF Tokens

\* setComment, of comments that were read.
LEMMA CommentIds ==
    ASSUME NEW a, NEW s, NEW ids, NEW n \in Comment(a, s, ids)
    PROVE  n \in notes \/ (n.id \in ids /\ n.at = a /\ n.slot = s)
BY DEF Comment

\* A token is read, and noted if it is a comment.
LEMMA MarkedAdded ==
    ASSUME NEW t, Marked, UNCHANGED settings, Hear(t), AddComment(t)
    PROVE  Marked'
<1>1. Collect' = Collect
  BY DEF Collect, settings
<1>2. heard \in Nat /\ heard' \in Nat /\ (Collect => heard <= heard')
  BY DEF Marked, Hear
<1>3. pending \subseteq 1..heard /\ \A n \in notes : n.id \in 1..heard
  BY DEF Marked
<1>4. CASE ~Collect
  <2>1. pending = {} /\ notes = {} /\ pending' = pending /\ notes' = notes
    BY <1>4 DEF Marked, AddComment
  <2> QED BY <1>1, <1>2, <2>1 DEF Marked
<1>5. CASE Collect /\ t.type # "comment"
  <2>1. pending' = pending /\ notes' = notes /\ heard' = heard
    BY <1>5 DEF AddComment, Hear
  <2> QED BY <1>1, <1>2, <1>3, <1>5, <2>1 DEF Marked
<1>6. CASE Collect /\ t.type = "comment"
  <2>1. heard' = heard + 1 /\ heard + 1 \in 1..heard'
    BY <1>2, <1>6 DEF Hear
  <2>2. pending' \subseteq 1..heard'
    <3>1. pending' = pending \/ pending' = pending \cup {heard + 1}
      BY <1>6 DEF AddComment
    <3>2. 1..heard \subseteq 1..heard'
      BY <1>2, <2>1
    <3> QED BY <1>3, <2>1, <3>1, <3>2, Zenon
  <2>3. ASSUME NEW n \in notes' PROVE n.id \in 1..heard'
    <3>1. notes' = notes \/ notes' = Comment(lastValue, "same line", {heard + 1})
      BY <1>6 DEF AddComment
    <3>2. n \in notes \/ n.id \in {heard + 1}
      <4>1. CASE notes' = notes
        BY <2>3, <4>1
      <4>2. CASE notes' = Comment(lastValue, "same line", {heard + 1})
        <5>1. n \in Comment(lastValue, "same line", {heard + 1})
          BY <2>3, <4>2
        <5> QED BY <5>1, CommentIds
      <4> QED BY <3>1, <4>1, <4>2
    <3> QED BY <1>2, <1>3, <2>1, <3>2
  <2> QED BY <1>1, <1>2, <1>6, <2>2, <2>3 DEF Marked
<1> QED BY <1>4, <1>5, <1>6

\* A token that is no comment, and leaves the comments alone.
LEMMA MarkedKept ==
    ASSUME NEW t, Marked, UNCHANGED settings, Hear(t), ~(Collect /\ t.type = "comment"),
           UNCHANGED <<pending, notes>>
    PROVE  Marked'
<1>1. Collect' = Collect
  BY DEF Collect, settings
<1>2. heard \in Nat /\ heard' \in Nat /\ (Collect => heard' = heard)
  BY DEF Marked, Hear
<1> QED BY <1>1, <1>2 DEF Marked

\* The comments before a value become its own.
LEMMA MarkedAttached ==
    ASSUME NEW t, Marked, UNCHANGED settings, Hear(t) \/ UNCHANGED heard,
           ~(Collect /\ t.type = "comment"), AttachBefore
    PROVE  Marked'
<1>1. Collect' = Collect
  BY DEF Collect, settings
<1>2. heard \in Nat /\ heard' \in Nat /\ (Collect => heard' = heard)
  BY DEF Marked, Hear
<1>3. pending \subseteq 1..heard /\ \A n \in notes : n.id \in 1..heard
  BY DEF Marked
<1>4. pending' = (IF Collect THEN {} ELSE pending)
  BY DEF AttachBefore
<1>5. ASSUME NEW n \in notes'
      PROVE  n \in notes \/ (Collect /\ n \in Comment(Current, "before", pending))
  BY <1>5 DEF AttachBefore
<1>6. \A n \in notes' : n \in notes \/ (Collect /\ n.id \in pending)
  BY <1>5, CommentIds
<1>7. CASE Collect
  BY <1>1, <1>2, <1>3, <1>4, <1>6, <1>7 DEF Marked
<1>8. CASE ~Collect
  <2>1. pending = {} /\ notes = {}
    BY <1>8 DEF Marked
  <2>2. notes' = {}
    BY <1>6, <1>8, <2>1
  <2> QED BY <1>1, <1>2, <1>4, <1>8, <2>1, <2>2 DEF Marked
<1> QED BY <1>7, <1>8

\* Comments are not collected where the reader takes them for errors.
LEMMA CommentsAllowed ==
    ASSUME Collect
    PROVE  features.allowComments
BY DEF Collect

\* How a step treats the token t: it is read and noted, or read and no comment to be kept,
\* or looked at; and no token is touched.
Noting(t) == Take(t) /\ Hear(t) /\ AddComment(t)
Passing(t) ==
    Take(t) /\ Hear(t) /\ ~(Collect /\ t.type = "comment") /\ UNCHANGED <<pending, notes>>
Attaching(t) ==
    /\ (Take(t) /\ Hear(t)) \/ (Peek(t) /\ UNCHANGED heard)
    /\ ~(Collect /\ t.type = "comment") /\ AttachBefore
Looking(t) == Peek(t) /\ UNCHANGED <<heard, pending, notes>>
Closed(t) ==
    /\ pc = "finish" /\ Take(t) /\ Hear(t) /\ ~(Collect /\ t.type = "comment")
    /\ UNCHANGED pending
    /\ notes' = notes \/ (Collect /\ notes' = Comment(Root, "after", pending))

LEMMA TokenUses ==
    ASSUME NEW t, ValueStep(t) \/ PlainStep(t) \/ Naming(t)
    PROVE  /\ Noting(t) \/ Passing(t) \/ Attaching(t) \/ Looking(t) \/ Closed(t)
           /\ errors' = errors \/ errors' = errors + 1
           /\ result' = result \/ result' = TRUE \/ result' = FALSE
<1>1. CASE ValueStep(t)
  <2>1. CASE BeginContainer(t)
    <3>1. t.type # "comment"
      BY <2>1 DEF BeginContainer
    <3> QED BY <2>1, <3>1 DEF BeginContainer, Read, Attaching
  <2>2. CASE DecodeScalar(t)
    <3>1. t.type # "comment"
      BY <2>2 DEF DecodeScalar, Scalars
    <3> QED BY <2>2, <3>1 DEF DecodeScalar, Read, Attaching, Return
  <2>3. CASE UndecodedScalar(t)
    <3>1. t.type # "comment"
      BY <2>3 DEF UndecodedScalar
    <3> QED BY <2>3, <3>1 DEF UndecodedScalar, Read, Attaching, Return
  <2>4. CASE DroppedNull(t)
    <3>1. t.type # "comment"
      BY <2>4 DEF DroppedNull, Separators
    <3> QED BY <2>4, <3>1 DEF DroppedNull, Attaching, Return, seen
  <2>5. CASE ValueExpected(t)
    <3>1. ~(Collect /\ t.type = "comment")
      BY <2>5 DEF ValueExpected, Separators, Collect
    <3> QED BY <2>5, <3>1 DEF ValueExpected, Read, Attaching, Return
  <2>6. CASE SkipComment(t)
    BY <2>6 DEF SkipComment, Read, Noting
  <2> QED BY <1>1, <2>1, <2>2, <2>3, <2>4, <2>5, <2>6 DEF ValueStep
<1>2. CASE Naming(t)
  <2>1. t.type # "comment"
    BY <1>2 DEF Naming, IsName
  <2> QED BY <1>2, <2>1 DEF Naming, Named, Read, Passing, comments
<1>3. CASE Closing(t) \/ GivingUp(t)
  <2>1. t.type # "comment"
    BY <1>3 DEF Closing, ClosesEither, OurCloses, Closes, GivingUp, Stops
  <2>2. Read(t) /\ (EndContainer(TRUE) \/ EndContainer(FALSE))
    BY <1>3 DEF Closing, GivingUp
  <2> QED BY <2>1, <2>2 DEF Read, Passing, EndContainer, Return
<1>4. CASE NextMember(t) \/ NextRound(t)
  <2>1. t.type # "comment" /\ Read(t) /\ (Goto("name") \/ Goto("element"))
    BY <1>4 DEF NextMember, NextRound
  <2> QED BY <2>1 DEF Read, Passing, Goto, comments
<1>5. CASE MemberEntered(t)
  <2>1. t.type # "comment"
    BY <1>5 DEF MemberEntered
  <2> QED BY <1>5, <2>1 DEF MemberEntered, Enter, Read, Passing, comments
<1>6. CASE Peeking(t)
  BY <1>6 DEF Peeking, Goto, Looking, comments, seen
<1>7. CASE Skipping(t)
  BY <1>7 DEF Skipping, SkipComment, Read, Noting
<1>8. CASE Failing(t)
  BY <1>8 DEF Failing, Fail, Read, Noting
<1>9. CASE Recovering(t)
  BY <1>9 DEF Recovering, Read, Noting
<1>10. CASE Remarking(t)
  BY <1>10 DEF Remarking, Noting
<1>11. CASE Ending(t)
  <2>1. ~(Collect /\ t.type = "comment")
    BY <1>11 DEF Ending, Collect
  <2>2. Closed(t)
    BY <1>11, <2>1 DEF Ending, Closed
  <2>3. errors' = errors \/ errors' = errors + 1
    BY <1>11 DEF Ending
  <2>4. result' = result \/ result' = FALSE
    <3>1. result' = (result /\ ~(Ours /\ Extra(t)) /\ ~Bare)
      BY <1>11 DEF Ending
    <3> QED BY <3>1
  <2> QED BY <2>2, <2>3, <2>4
<1> QED BY <1>1, <1>2, <1>3, <1>4, <1>5, <1>6, <1>7, <1>8, <1>9, <1>10, <1>11 DEF PlainStep

LEMMA MarkedNext ==
    ASSUME NEW t, Marked, UNCHANGED settings,
           Noting(t) \/ Passing(t) \/ Attaching(t) \/ Looking(t) \/ Closed(t)
    PROVE  Marked'
<1>1. CASE Noting(t)
  BY <1>1, MarkedAdded DEF Noting
<1>2. CASE Passing(t)
  BY <1>2, MarkedKept DEF Passing
<1>3. CASE Attaching(t)
  <2>1. (Hear(t) \/ UNCHANGED heard) /\ ~(Collect /\ t.type = "comment") /\ AttachBefore
    BY <1>3 DEF Attaching
  <2> QED BY <2>1, MarkedAttached
<1>4. CASE Looking(t)
  BY <1>4 DEF Looking, Marked, Collect, settings
<1>5. CASE Closed(t)
  <2>1. Hear(t) /\ ~(Collect /\ t.type = "comment") /\ pending' = pending
        /\ (notes' = notes \/ (Collect /\ notes' = Comment(Root, "after", pending)))
    BY <1>5 DEF Closed
  <2>2. CASE notes' = notes
    BY <2>1, <2>2, MarkedKept
  <2>3. CASE Collect /\ notes' = Comment(Root, "after", pending)
    <3>1. heard' = heard /\ Collect'
      BY <2>1, <2>3 DEF Hear, Collect, settings
    <3>2. heard \in Nat /\ pending \subseteq 1..heard /\ \A n \in notes : n.id \in 1..heard
      BY DEF Marked
    <3>3. ASSUME NEW n \in notes' PROVE n.id \in 1..heard
      <4>1. n \in Comment(Root, "after", pending)
        BY <2>3, <3>3
      <4>2. n \in notes \/ n.id \in pending
        BY <4>1, CommentIds
      <4> QED BY <3>2, <4>2
    <3> QED BY <2>1, <3>1, <3>2, <3>3 DEF Marked
  <2> QED BY <2>1, <2>2, <2>3
<1> QED BY <1>1, <1>2, <1>3, <1>4, <1>5

LEMMA TypedNext ==
    ASSUME Typed, [AnyNext]_vars
    PROVE  Typed'
<1>1. CASE UNCHANGED vars
  BY <1>1 DEF vars, Typed, Tokens, Marked, Collect, settings, comments, seen
<1>2. CASE AnyNext
  <2>1. /\ UNCHANGED settings
        /\ \/ Parse \/ ExceededStackLimit \/ ElementEntered
           \/ \E t \in alphabet : ValueStep(t) \/ PlainStep(t) \/ Naming(t)
    BY <1>2, StepCases
  <2>2. CASE Parse
    <3>1. Tokens'
      BY <2>2, DescentAssumption DEF Parse, Tokens
    <3>2. Marked'
      BY <2>2 DEF Parse, Marked
    <3>3. errors' \in Nat /\ result' \in BOOLEAN
      BY <2>2 DEF Parse, Typed
    <3> QED BY <3>1, <3>2, <3>3 DEF Typed
  <2>3. CASE ExceededStackLimit \/ ElementEntered
    <3>1. UNCHANGED <<left, unread, errors, result, pending, notes, heard>>
      BY <2>3 DEF ExceededStackLimit, ElementEntered, EnterElement, Enter, comments, seen
    <3> QED BY <2>1, <3>1 DEF Typed, Tokens, Marked, Collect, settings
  <2>4. ASSUME NEW t \in alphabet, ValueStep(t) \/ PlainStep(t) \/ Naming(t) PROVE Typed'
    <3>1. /\ Noting(t) \/ Passing(t) \/ Attaching(t) \/ Looking(t) \/ Closed(t)
          /\ errors' = errors \/ errors' = errors + 1
          /\ result' = result \/ result' = TRUE \/ result' = FALSE
      BY <2>4, TokenUses
    <3>2. Take(t) \/ Peek(t)
      BY <3>1 DEF Noting, Passing, Attaching, Looking, Closed
    <3>3. Tokens'
      BY <2>1, <3>2, TokensRead, TokensPeeked DEF Typed
    <3>4. Marked'
      BY <2>1, <3>1, MarkedNext DEF Typed
    <3>5. errors' \in Nat
      <4>1. errors \in Nat
        BY DEF Typed
      <4> QED BY <3>1, <4>1
    <3>6. result' \in BOOLEAN
      <4>1. result \in BOOLEAN
        BY DEF Typed
      <4> QED BY <3>1, <4>1, Zenon
    <3> QED BY <3>3, <3>4, <3>5, <3>6 DEF Typed
  <2> QED BY <2>1, <2>2, <2>3, <2>4
<1> QED BY <1>1, <1>2

LEMMA TypedInit ==
    ASSUME Init
    PROVE  Typed
<1>1. Tokens
  BY DescentAssumption DEF Init, Tokens
<1>2. Marked
  BY DEF Init, Marked
<1> QED BY <1>1, <1>2 DEF Init, Typed

------------------------------------------------------------------------------
(* Both readers *)

\* Either reader keeps to its own steps.
AnySpec == Init /\ [][AnyNext]_vars

LEMMA EitherReader ==
    Spec \/ OurSpec => AnySpec
<1>1. ~Ours /\ [Next]_vars => ~Ours' /\ [AnyNext]_vars
  BY DEF Ours, Next, AnyNext, vars, settings
<1>2. Ours /\ [OurNext]_vars => Ours' /\ [AnyNext]_vars
  BY DEF Ours, OurNext, AnyNext, vars, settings
<1>3. Spec => AnySpec
  BY <1>1, PTL DEF Spec, AnySpec
<1>4. OurSpec => AnySpec
  BY <1>2, PTL DEF OurSpec, AnySpec
<1> QED BY <1>3, <1>4

LEMMA ShapeKept ==
    AnySpec => [](Shape /\ Typed)
<1>1. Init => Shape /\ Typed
  BY ShapeInit, TypedInit
<1>2. Shape /\ Typed /\ [AnyNext]_vars => (Shape /\ Typed)'
  BY ShapeNext, TypedNext
<1> QED BY <1>1, <1>2, PTL DEF AnySpec

LEMMA ShapeIsPath ==
    ASSUME Shape, Typed
    PROVE  OnThePath
<1>1. /\ frames \in Seq(FrameSet) /\ nodes \in Seq(Paths) /\ IsTree(tree)
      /\ Len(frames) <= Len(nodes) /\ Len(frames) \in Nat /\ Len(nodes) \in Nat
  BY ChainLengths DEF Shape, Chain, ChainOf
<1>2. /\ \A i \in 1..Len(nodes) : nodes[i] \in DOMAIN tree /\ Len(nodes[i]) = i - 1
      /\ \A i \in 1..(Len(nodes) - 1) : Parent(nodes[i + 1]) = nodes[i]
      /\ \A i \in 1..Len(frames) : tree[nodes[i]] = Item(frames[i].kind, "")
  BY DEF Shape, Chain, ChainOf
<1>3. TypeOK
  <2>1. \A i \in DOMAIN frames : frames[i] \in FrameSet
    BY <1>1
  <2>2. \A i \in DOMAIN frames : /\ frames[i].kind \in {"object", "array"}
                                 /\ frames[i].index \in Nat
    BY <2>1 DEF FrameSet
  <2>3. \A i \in DOMAIN nodes : nodes[i] \in DOMAIN tree
    <3>1. DOMAIN nodes = 1..Len(nodes)
      BY <1>1
    <3> QED BY <1>2, <3>1
  <2>4. pending \subseteq 1..heard /\ {n.id : n \in notes} \subseteq 1..heard
    BY DEF Typed, Marked
  <2> QED BY <2>2, <2>3, <2>4 DEF TypeOK, Shape, Where, Typed, Tokens
<1>4. StackIsPath
  <2> SUFFICES ASSUME pc # "idle" PROVE StackIsPath
    BY DEF StackIsPath
  <2>1. /\ Len(nodes) = IF pc \in Holding THEN Len(frames) + 1 ELSE Len(frames)
        /\ Len(frames) <= features.stackLimit /\ features.stackLimit \in Nat
    BY DEF Shape, Where
  <2>2. Len(nodes) <= features.stackLimit + 1
    BY <1>1, <2>1
  <2>3. Len(nodes) > 0 => nodes[1] = Root
    <3> HAVE Len(nodes) > 0
    <3>1. 1 \in 1..Len(nodes)
      BY <1>1
    <3>2. nodes[1] \in Paths /\ Len(nodes[1]) = 0
      <4>1. nodes[1] \in Paths
        BY <1>1, <3>1
      <4>2. Len(nodes[1]) = 1 - 1
        BY <1>2, <3>1
      <4> QED BY <4>1, <4>2
    <3> QED BY <3>2 DEF Paths, Root
  <2> QED BY <1>2, <2>1, <2>2, <2>3 DEF StackIsPath
<1> QED BY <1>1, <1>3, <1>4 DEF OnThePath, IsTree

\* The stack nodes_ of Reader and of OurReader is at every moment the path from the root to
\* the Value being read, through the containers whose readObject or readArray is active,
\* and is bounded by the stack limit; and the Value given to parse is a tree at every
\* moment, whatever tokens were read and wherever an error stopped it: for every choice of
\* features, of documents and of their lengths.
THEOREM PathKept ==
    Spec \/ OurSpec => []OnThePath
<1>1. Shape /\ Typed => OnThePath
  BY ShapeIsPath
<1> QED BY <1>1, EitherReader, ShapeKept, PTL

------------------------------------------------------------------------------
(* Errors *)

\* errors_ is empty until a function fails, and then every function around it fails.
Counted ==
    /\ pc \notin {"recover", "finish", "done"} => errors = 0
    /\ pc = "recover" => errors > 0
    /\ pc \in {"finish", "done"} => (result <=> errors = 0)

LEMMA ReturnPlace ==
    ASSUME NEW fs, NEW ok \in BOOLEAN, Return(fs, ok)
    PROVE  /\ frames' = fs /\ (result' <=> ok)
           /\ fs = <<>> => pc' = "finish"
           /\ fs # <<>> /\ ok => pc' \in {"comma", "separator"}
           /\ fs # <<>> /\ ~ok => pc' = "recover"
<1>1. frames' = fs /\ result' = ok /\ pc' = Continue(fs, ok)
  BY DEF Return
<1>2. /\ fs = <<>> => pc' = "finish"
      /\ fs # <<>> /\ ok => pc' \in {"comma", "separator"}
      /\ fs # <<>> /\ ~ok => pc' = "recover"
  BY <1>1 DEF Continue
<1> QED BY <1>1, <1>2

LEMMA ReturnCounted ==
    ASSUME NEW fs, NEW ok \in BOOLEAN, Return(fs, ok), errors' \in Nat, ok <=> errors' = 0
    PROVE  Counted'
<1>1. /\ (result' <=> ok)
      /\ fs = <<>> => pc' = "finish"
      /\ fs # <<>> /\ ok => pc' \in {"comma", "separator"}
      /\ fs # <<>> /\ ~ok => pc' = "recover"
  BY ReturnPlace
<1>2. CASE fs = <<>>
  BY <1>1, <1>2 DEF Counted
<1>3. CASE fs # <<>> /\ ok
  BY <1>1, <1>3 DEF Counted
<1>4. CASE fs # <<>> /\ ~ok
  <2>1. errors' > 0
    BY <1>4
  <2> QED BY <1>1, <1>4, <2>1 DEF Counted
<1> QED BY <1>2, <1>3, <1>4

\* A step that stays within the function.
LEMMA StepCounted ==
    ASSUME Counted, errors' = errors, pc \notin {"recover", "finish", "done"},
           pc' \notin {"recover", "finish", "done"}
    PROVE  Counted'
BY DEF Counted

LEMMA CountedNext ==
    ASSUME Typed, Counted, [AnyNext]_vars
    PROVE  Counted'
<1>0. errors \in Nat
  BY DEF Typed
<1>1. CASE UNCHANGED vars
  BY <1>1 DEF vars, calls, Counted
<1>2. CASE AnyNext
  <2>1. \/ Parse \/ ExceededStackLimit \/ ElementEntered
        \/ \E t \in alphabet : ValueStep(t) \/ PlainStep(t) \/ Naming(t)
    BY <1>2, StepCases
  <2>2. CASE Parse
    BY <2>2 DEF Parse, Counted
  <2>3. CASE ExceededStackLimit \/ ElementEntered
    <3>1. pc \in {"value", "element"} /\ pc' \in {"aborted", "value"} /\ errors' = errors
      BY <2>3 DEF ExceededStackLimit, ElementEntered, EnterElement, Enter
    <3> QED BY <3>1, StepCounted
  <2>4. ASSUME NEW t \in alphabet, ValueStep(t) PROVE Counted'
    <3>1. pc = "value" /\ errors = 0
      BY <2>4 DEF ValueStep, InValue, Counted
    <3>2. CASE BeginContainer(t) \/ SkipComment(t)
      <4>1. pc' \in {"name", "first", "value"} /\ errors' = errors
        BY <3>1, <3>2 DEF BeginContainer, SkipComment
      <4> QED BY <3>1, <4>1, StepCounted
    <3>3. CASE DecodeScalar(t) \/ DroppedNull(t)
      <4>1. Return(frames, TRUE) /\ errors' = 0
        BY <3>1, <3>3 DEF DecodeScalar, DroppedNull
      <4> QED BY <4>1, ReturnCounted
    <3>4. CASE UndecodedScalar(t) \/ ValueExpected(t)
      <4>1. Return(frames, FALSE)
        BY <3>4, Zenon DEF UndecodedScalar, ValueExpected
      <4>2. errors' = errors + 1
        BY <3>4, Zenon DEF UndecodedScalar, ValueExpected
      <4>3. errors' \in Nat /\ ~(errors' = 0)
        BY <3>1, <4>2
      <4> QED BY <4>1, <4>3, ReturnCounted, Zenon
    <3> QED BY <2>4, <3>2, <3>3, <3>4 DEF ValueStep
  <2>5. ASSUME NEW t \in alphabet, Naming(t) PROVE Counted'
    <3>1. pc = "name" /\ pc' = "colon" /\ errors' = errors
      BY <2>5 DEF Naming, Named
    <3> QED BY <3>1, StepCounted
  <2>6. ASSUME NEW t \in alphabet, PlainStep(t) PROVE Counted'
    <3>1. CASE Skipping(t)
      <4>1. /\ pc \in {"name", "comma", "after comment", "separator"} /\ errors' = errors
            /\ pc' \in {"name", "comma", "after comment", "separator"}
        BY <3>1 DEF Skipping, SkipComment
      <4> QED BY <4>1, StepCounted
    <3>2. CASE Closing(t)
      <4>1. /\ pc \in {"name", "comma", "after comment", "first", "separator", "element"}
            /\ EndContainer(TRUE)
        BY <3>2 DEF Closing
      <4>2. Return(SubSeq(frames, 1, Len(frames) - 1), TRUE) /\ errors' = 0
        BY <4>1 DEF EndContainer, Counted
      <4> QED BY <4>2, ReturnCounted
    <3>3. CASE Failing(t)
      <4>1. errors' = errors + 1 /\ pc' = "recover"
        BY <3>3 DEF Failing, Fail
      <4> QED BY <1>0, <4>1 DEF Counted
    <3>4. CASE NextMember(t) \/ NextRound(t) \/ Peeking(t) \/ MemberEntered(t)
      <4>1. /\ pc \in {"comma", "after comment", "separator", "first", "element", "colon"}
            /\ pc' \in {"name", "element", "value"} /\ errors' = errors
        BY <3>4 DEF NextMember, NextRound, Peeking, Goto, MemberEntered, Enter
      <4> QED BY <4>1, StepCounted
    <3>5. CASE Recovering(t)
      <4>1. pc = "recover" /\ pc' = pc /\ errors' = errors
        BY <3>5 DEF Recovering, calls
      <4> QED BY <4>1 DEF Counted
    <3>6. CASE GivingUp(t)
      <4>1. pc = "recover" /\ EndContainer(FALSE)
        BY <3>6 DEF GivingUp
      <4>2. Return(SubSeq(frames, 1, Len(frames) - 1), FALSE) /\ errors' = errors
        BY <4>1, Zenon DEF EndContainer
      <4>3. errors > 0
        BY <4>1 DEF Counted
      <4>4. errors' \in Nat /\ ~(errors' = 0)
        BY <1>0, <4>2, <4>3
      <4> QED BY <4>2, <4>4, ReturnCounted, Zenon
    <3>7. CASE Remarking(t)
      BY <3>7 DEF Remarking, Counted
    <3>8. CASE Ending(t)
      <4>1. /\ pc = "finish" /\ pc' = "done"
            /\ errors' = IF (Ours /\ Extra(t)) \/ Bare THEN errors + 1 ELSE errors
            /\ result' = (result /\ ~(Ours /\ Extra(t)) /\ ~Bare)
        BY <3>8 DEF Ending
      <4>2. result <=> errors = 0
        BY <4>1 DEF Counted
      <4>3. result' <=> errors' = 0
        <5>1. CASE (Ours /\ Extra(t)) \/ Bare
          <6>1. errors' # 0
            BY <1>0, <4>1, <5>1
          <6>2. ~result'
            BY <4>1, <5>1, Zenon
          <6> QED BY <6>1, <6>2
        <5>2. CASE ~((Ours /\ Extra(t)) \/ Bare)
          <6>1. errors' = errors
            BY <4>1, <5>2
          <6>2. result' <=> result
            BY <4>1, <5>2, Zenon
          <6> QED BY <4>2, <6>1, <6>2
        <5> QED BY <5>1, <5>2
      <4> QED BY <4>1, <4>3 DEF Counted
    <3> QED BY <2>6, <3>1, <3>2, <3>3, <3>4, <3>5, <3>6, <3>7, <3>8 DEF PlainStep
  <2> QED BY <2>1, <2>2, <2>3, <2>4, <2>5, <2>6
<1> QED BY <1>1, <1>2


------------------------------------------------------------------------------
(* The last value *)

\* The Value at l is not deeper in the one at c than its members and elements are.
Near(c, l) == l = NoValue \/ ~Below(c, l) \/ Len(l) = Len(c) + 1

\* lastValue_ is in the tree; within a container, it is not deeper than a member of it, so
\* that the next member, repeated or not, can be destroyed.
LastPlace ==
    /\ lastValue \in DOMAIN tree \cup {NoValue}
    /\ ~Collect => lastValue = NoValue
    /\ pc = "value" /\ frames = <<>> => lastValue = NoValue
    /\ frames # <<>> => Near(nodes[Len(frames)], lastValue)

\* What is below a Value is deeper in its container than the Value.
LEMMA Deeper ==
    ASSUME NEW c \in Paths, c # Root, NEW l \in Paths, Below(c, l)
    PROVE  Below(Parent(c), l) /\ Len(l) # Len(Parent(c)) + 1
<1>1. /\ Parent(c) \in Paths /\ Len(Parent(c)) = Len(c) - 1 /\ Len(c) \in Nat \ {0}
      /\ Len(l) \in Nat /\ Len(c) < Len(l)
  <2>1. Len(l) \in Nat /\ Len(c) < Len(l)
    BY DEF Paths, Below
  <2> QED BY <2>1, ParentPath
<1>2. SubSeq(l, 1, Len(c)) = c
  BY DEF Below
<1>3. \A i \in 1..Len(c) : l[i] = c[i]
  <2>1. Len(c) \in 0..Len(l) /\ l \in Seq(Steps)
    BY <1>1 DEF Paths
  <2> QED BY <1>2, <2>1, Prefix
<1>4. \A i \in 1..Len(Parent(c)) : Parent(c)[i] = c[i]
  <2>1. Len(c) - 1 \in 0..Len(c) /\ c \in Seq(Steps)
    BY <1>1 DEF Paths
  <2> QED BY <1>1, <2>1, Prefix DEF Parent
<1> DEFINE s == SubSeq(l, 1, Len(Parent(c)))
<1>5. s \in Seq(Steps) /\ Len(s) = Len(Parent(c)) /\ \A i \in 1..Len(Parent(c)) : s[i] = l[i]
  <2>1. Len(Parent(c)) \in 0..Len(l) /\ l \in Seq(Steps)
    BY <1>1 DEF Paths
  <2> QED BY <2>1, Prefix
<1>6. \A i \in 1..Len(Parent(c)) : s[i] = Parent(c)[i]
  BY <1>1, <1>3, <1>4, <1>5
<1> HIDE DEF s
<1>7. s = Parent(c)
  BY <1>1, <1>5, <1>6, SeqEqual DEF Paths
<1> QED BY <1>1, <1>7 DEF Below, s

\* No path is that of NoValue.
LEMMA NoValuePath == NoValue \notin Paths
<1>1. ASSUME NEW v \in Paths, NEW s, v = <<s>>, s = <<"none", "">> PROVE FALSE
  <2>1. s \in Steps
    <3>1. Len(v) = 1 /\ v[1] = s
      BY <1>1
    <3>2. \A i \in 1..Len(v) : v[i] \in Steps
      BY DEF Paths
    <3> QED BY <3>1, <3>2
  <2>2. s[1] = "none"
    BY <1>1
  <2> QED BY <2>1, <2>2, StepForms
<1> QED BY <1>1 DEF NoValue

\* The Values around the one being read.
LEMMA AroundValue ==
    ASSUME Shape, pc = "value"
    PROVE  /\ Current \in DOMAIN tree /\ Current \in Paths /\ Len(Current) = Len(frames)
           /\ frames # <<>> => /\ Current # Root /\ Parent(Current) = nodes[Len(frames)]
                               /\ Len(nodes[Len(frames)]) = Len(frames) - 1
           /\ DOMAIN tree \subseteq Paths
<1>1. /\ ChainOf(frames, nodes, tree) /\ Len(nodes) = Len(frames) + 1 /\ Len(frames) \in Nat
      /\ frames \in Seq(FrameSet)
  BY AtValue DEF Chain
<1>2. Current \in DOMAIN tree /\ Current \in Paths /\ Len(Current) = Len(frames)
  <2>1. Len(nodes) > 0
    BY <1>1
  <2>2. /\ nodes[Len(nodes)] \in DOMAIN tree /\ nodes[Len(nodes)] \in Paths
        /\ Len(nodes[Len(nodes)]) = Len(nodes) - 1
    BY <1>1, <2>1, CurrentValue
  <2> QED BY <1>1, <2>2 DEF Current
<1>3. ASSUME frames # <<>>
      PROVE  /\ Current # Root /\ Parent(Current) = nodes[Len(frames)]
             /\ Len(nodes[Len(frames)]) = Len(frames) - 1
  <2>1. Len(frames) > 0
    BY <1>1, <1>3
  <2>2. Len(frames) \in 1..(Len(nodes) - 1) /\ Len(frames) \in 1..Len(nodes)
    BY <1>1, <2>1
  <2>3. Parent(nodes[Len(frames) + 1]) = nodes[Len(frames)]
        /\ Len(nodes[Len(frames)]) = Len(frames) - 1
    BY <1>1, <2>2 DEF ChainOf
  <2>4. Current # Root
    BY <1>1, <1>2, <2>1 DEF Root
  <2> QED BY <1>1, <2>3, <2>4 DEF Current
<1>4. DOMAIN tree \subseteq Paths
  BY <1>1 DEF ChainOf, IsTree
<1> QED BY <1>2, <1>3, <1>4

\* swapPayload, of the Value being read, does not destroy the last value.
LEMMA LastAway ==
    ASSUME Shape, LastPlace, pc = "value", lastValue # NoValue
    PROVE  ~Below(Current, lastValue) /\ lastValue \in DOMAIN tree
<1>1. /\ Current \in Paths /\ DOMAIN tree \subseteq Paths
      /\ frames # <<>> => Current # Root /\ Parent(Current) = nodes[Len(frames)]
  BY AroundValue
<1>2. lastValue \in DOMAIN tree /\ frames # <<>> /\ Near(nodes[Len(frames)], lastValue)
  BY DEF LastPlace
<1>3. ASSUME Below(Current, lastValue) PROVE FALSE
  BY <1>1, <1>2, <1>3, Deeper DEF Near
<1> QED BY <1>2, <1>3

\* What Popped leaves.
LEMMA PoppedNodes ==
    ASSUME Shape, pc # "idle", NEW fs, Len(nodes) = Len(fs) + 1, Len(fs) \in Nat
    PROVE  \A i \in 1..Len(fs) : Popped(fs)[i] = nodes[i]
<1>1. nodes \in Seq(Paths)
  BY ChainLengths DEF Shape, Chain
<1>2. \A i \in 1..Len(fs) : SubSeq(nodes, 1, Len(nodes) - 1)[i] = nodes[i]
  <2>1. Len(nodes) - 1 \in 0..Len(nodes) /\ Len(nodes) - 1 = Len(fs)
    OBVIOUS
  <2> QED BY <1>1, <2>1, Prefix
<1> QED BY <1>2 DEF Popped

\* readValue returns to fs, and the last value is the one it has read or the one before.
LEMMA LastReturn ==
    ASSUME NEW fs \in Seq(FrameSet), NEW ok, Shape, pc # "idle", UNCHANGED settings,
           Return(fs, ok), Len(nodes) = Len(fs) + 1,
           Current \in DOMAIN tree', Len(Current) = Len(fs),
           fs # <<>> => Len(nodes[Len(fs)]) = Len(fs) - 1,
           ~Collect => lastValue' = NoValue,
           \/ lastValue' = Current
           \/ lastValue' \in DOMAIN tree' \cup {NoValue}
              /\ (fs # <<>> => Near(nodes[Len(fs)], lastValue'))
    PROVE  LastPlace'
<1>1. frames' = fs /\ nodes' = Popped(fs) /\ Collect' = Collect
  BY DEF Return, Collect, settings
<1>2. pc' # "value"
  BY DEF Return, Continue
<1>3. ASSUME fs # <<>> PROVE Near(nodes'[Len(fs)], lastValue')
  <2>1. \A i \in 1..Len(fs) : Popped(fs)[i] = nodes[i]
    BY PoppedNodes
  <2>2. Len(fs) \in 1..Len(fs)
    BY <1>3
  <2>3. nodes'[Len(fs)] = nodes[Len(fs)]
    BY <1>1, <2>1, <2>2
  <2>4. lastValue' = Current => Len(lastValue') = Len(nodes[Len(fs)]) + 1
    BY <1>3
  <2> QED BY <1>3, <2>3, <2>4 DEF Near
<1> QED BY <1>1, <1>2, <1>3 DEF LastPlace

\* Where the last value is, after a value was read or refused.
LEMMA LastValueStep ==
    ASSUME NEW t, Shape, LastPlace, UNCHANGED settings, ValueStep(t)
    PROVE  LastPlace'
<1>1. /\ pc = "value"
      /\ \/ BeginContainer(t) \/ DecodeScalar(t) \/ UndecodedScalar(t) \/ DroppedNull(t)
         \/ ValueExpected(t) \/ SkipComment(t)
  BY DEF ValueStep, InValue
<1>2. /\ ChainOf(frames, nodes, tree) /\ Len(nodes) = Len(frames) + 1 /\ Len(frames) \in Nat
      /\ frames \in Seq(FrameSet) /\ pc # "idle" /\ nodes \in Seq(Paths)
  BY <1>1, AtValue, ChainLengths DEF Chain
<1>3. /\ Current \in DOMAIN tree /\ Current \in Paths /\ Len(Current) = Len(frames)
      /\ frames # <<>> => Len(nodes[Len(frames)]) = Len(frames) - 1
      /\ DOMAIN tree \subseteq Paths
  BY <1>1, AroundValue
<1>4. /\ lastValue # NoValue => ~Below(Current, lastValue) /\ lastValue \in DOMAIN tree
  BY <1>1, LastAway
<1>5. Collect' = Collect
  BY DEF Collect, settings
<1>6. ASSUME NEW v, tree' = Swapped(tree, Current, v)
      PROVE  Current \in DOMAIN tree' /\ lastValue \in DOMAIN tree' \cup {NoValue}
  <2>1. \A q : q \in DOMAIN Swapped(tree, Current, v) <=> q \in DOMAIN tree /\ ~Below(Current, q)
    BY SwappedValues
  <2>2. ~Below(Current, Current)
    BY <1>3, BelowLonger
  <2> QED BY <1>3, <1>4, <1>6, <2>1, <2>2
<1>7. CASE BeginContainer(t)
  <2>1. PICK f : frames' = Append(frames, f)
    BY <1>7 DEF BeginContainer
  <2>2. /\ nodes' = nodes /\ lastValue' = lastValue /\ pc' \in {"name", "first"}
        /\ \E v : tree' = Swapped(tree, Current, v)
    BY <1>7 DEF BeginContainer
  <2>3. lastValue' \in DOMAIN tree' \cup {NoValue}
    BY <1>6, <2>2
  <2>4. Len(frames') = Len(nodes)
    BY <1>2, <2>1
  <2>5. Near(nodes'[Len(frames')], lastValue')
    BY <1>4, <2>2, <2>4 DEF Near, Current
  <2> QED BY <1>5, <2>2, <2>3, <2>5 DEF LastPlace
<1>8. CASE SkipComment(t)
  <2>1. UNCHANGED <<frames, nodes, tree, lastValue>> /\ pc' = pc
    BY <1>1, <1>8 DEF SkipComment
  <2> QED BY <1>5, <2>1 DEF LastPlace
<1>9. CASE DecodeScalar(t) \/ UndecodedScalar(t) \/ DroppedNull(t) \/ ValueExpected(t)
  <2>1. /\ Return(frames, TRUE) \/ Return(frames, FALSE)
        /\ SetLast \/ lastValue' = lastValue
        /\ tree' = tree \/ \E v : tree' = Swapped(tree, Current, v)
    BY <1>9 DEF DecodeScalar, UndecodedScalar, DroppedNull, ValueExpected
  <2>2. Current \in DOMAIN tree' /\ lastValue \in DOMAIN tree' \cup {NoValue}
    BY <1>3, <1>4, <1>6, <2>1
  <2>3. /\ lastValue' = lastValue \/ lastValue' = Current
        /\ ~Collect => lastValue' = NoValue
    BY <2>1 DEF SetLast, LastPlace
  <2>4. frames # <<>> => Near(nodes[Len(frames)], lastValue)
    BY DEF LastPlace
  <2> QED BY <1>2, <1>3, <2>1, <2>2, <2>3, <2>4, LastReturn
<1> QED BY <1>1, <1>7, <1>8, <1>9

\* A container is complete, or given up.
LEMMA LastEnd ==
    ASSUME NEW ok, Shape, LastPlace, UNCHANGED settings,
           pc \in InObject \cup InArray \cup {"recover"}, EndContainer(ok)
    PROVE  LastPlace'
<1>1. /\ Len(frames) \in Nat /\ Len(frames) > 0 /\ Len(nodes) = Len(frames)
      /\ frames \in Seq(FrameSet)
  BY InContainer
<1>2. Current \in DOMAIN tree /\ Len(Current) = Len(frames) - 1
  BY ContainerValue
<1> DEFINE fs == SubSeq(frames, 1, Len(frames) - 1)
<1>3. Return(fs, ok) /\ tree' = tree /\ SetLast
  BY DEF EndContainer
<1>4. Len(fs) = Len(frames) - 1 /\ fs \in Seq(FrameSet)
  <2>1. Len(frames) - 1 \in 0..Len(frames)
    BY <1>1
  <2> QED BY <1>1, <2>1, Prefix
<1> HIDE DEF fs
<1>5. fs # <<>> => Len(nodes[Len(fs)]) = Len(fs) - 1
  <2>1. fs # <<>> => Len(fs) \in 1..Len(nodes)
    BY <1>1, <1>4
  <2> QED BY <2>1 DEF Shape, Chain, ChainOf
<1>6. lastValue' = Current \/ (lastValue' = NoValue /\ ~Collect)
  BY <1>3 DEF SetLast, LastPlace
<1>7. ~Collect => lastValue' = NoValue
  BY <1>3 DEF SetLast, LastPlace
<1>8. pc # "idle"
  BY DEF InObject, InArray
<1>9. Current \in DOMAIN tree' /\ Len(Current) = Len(fs) /\ Len(nodes) = Len(fs) + 1
  BY <1>1, <1>2, <1>3, <1>4
<1> QED BY <1>3, <1>4, <1>5, <1>6, <1>7, <1>8, <1>9, LastReturn DEF Near

\* A member or an element is entered.
LEMMA LastEnter ==
    ASSUME NEW s, Shape, LastPlace, UNCHANGED settings, Enter(s), Len(frames') = Len(frames),
           pc \in InObject \cup InArray \cup {"recover"}
    PROVE  LastPlace'
<1>1. /\ tree' = Resolved(tree, Append(Current, s)) /\ pc' = "value"
      /\ nodes' = Append(nodes, Append(Current, s)) /\ lastValue' = lastValue
      /\ Collect' = Collect
  BY DEF Enter, comments, Collect, settings
<1>2. /\ Len(frames) \in Nat /\ Len(nodes) = Len(frames) /\ Len(frames) > 0 /\ frames # <<>>
  BY InContainer
<1>3. frames' # <<>>
  BY <1>2
<1>4. nodes'[Len(frames')] = nodes[Len(frames)]
  <2>1. nodes \in Seq(Paths)
    BY ChainLengths DEF Shape, Chain
  <2> QED BY <1>1, <1>2, <2>1
<1>5. \A q \in DOMAIN tree : q \in DOMAIN tree'
  BY <1>1, ResolvedValues
<1> QED BY <1>1, <1>2, <1>3, <1>4, <1>5 DEF LastPlace

\* The other steps.
LEMMA LastPlain ==
    ASSUME NEW t, Shape, LastPlace, UNCHANGED settings, PlainStep(t)
    PROVE  LastPlace'
<1>0. Collect' = Collect
  BY DEF Collect, settings
<1>1. CASE Skipping(t) \/ Failing(t) \/ NextMember(t) \/ NextRound(t) \/ Peeking(t)
           \/ Recovering(t) \/ Remarking(t) \/ Ending(t)
  <2>1. UNCHANGED <<frames, nodes, tree, lastValue>> /\ pc' # "value"
    BY <1>1 DEF Skipping, SkipComment, Failing, Fail, NextMember, NextRound, Peeking, Goto,
                Recovering, Remarking, Ending, calls, comments
  <2> QED BY <1>0, <2>1 DEF LastPlace
<1>2. CASE Closing(t) \/ GivingUp(t)
  <2>1. /\ pc \in InObject \cup InArray \cup {"recover"}
        /\ EndContainer(TRUE) \/ EndContainer(FALSE)
    BY <1>2 DEF Closing, GivingUp, InObject, InArray
  <2> QED BY <2>1, LastEnd
<1>3. CASE MemberEntered(t)
  <2>1. pc \in InObject /\ Enter(<<"m", Top.name>>) /\ frames' = frames
    BY <1>3 DEF MemberEntered, InObject
  <2> QED BY <2>1, LastEnter
<1> QED BY <1>1, <1>2, <1>3 DEF PlainStep

LEMMA LastNext ==
    ASSUME Shape, LastPlace, [AnyNext]_vars
    PROVE  LastPlace'
<1>1. CASE UNCHANGED vars
  BY <1>1 DEF vars, settings, calls, comments, LastPlace, Collect
<1>2. CASE AnyNext
  <2>1. /\ UNCHANGED settings
        /\ \/ Parse \/ ExceededStackLimit \/ ElementEntered
           \/ \E t \in alphabet : ValueStep(t) \/ PlainStep(t) \/ Naming(t)
    BY <1>2, StepCases
  <2>2. Collect' = Collect
    BY <2>1 DEF Collect, settings
  <2>3. CASE Parse
    BY <2>3 DEF Parse, LastPlace
  <2>4. CASE ExceededStackLimit
    <3>1. UNCHANGED <<frames, nodes, tree, lastValue>> /\ pc' # "value"
      BY <2>4 DEF ExceededStackLimit, comments
    <3> QED BY <2>2, <3>1 DEF LastPlace
  <2>5. CASE ElementEntered
    <3>1. /\ pc \in InArray /\ Enter(<<"e", Top.index>>)
          /\ frames' = [frames EXCEPT ![Len(frames)].index = @ + 1]
      BY <2>5 DEF ElementEntered, EnterElement, NextIndex, InArray
    <3>2. frames \in Seq(FrameSet)
      BY ChainLengths DEF Shape, Chain
    <3>3. Len(frames') = Len(frames)
      BY <3>1, <3>2
    <3> QED BY <2>1, <3>1, <3>3, LastEnter
  <2>6. ASSUME NEW t \in alphabet, Naming(t) PROVE LastPlace'
    <3>1. /\ UNCHANGED <<nodes, tree, lastValue>> /\ pc' # "value" /\ pc \in InObject
          /\ frames' = [frames EXCEPT ![Len(frames)].name = t.text]
      BY <2>6 DEF Naming, Named, comments, InObject
    <3>2. frames \in Seq(FrameSet) /\ frames # <<>>
      BY <3>1, InContainer
    <3>3. Len(frames') = Len(frames) /\ frames' # <<>>
      BY <3>1, <3>2
    <3> QED BY <2>2, <3>1, <3>2, <3>3 DEF LastPlace
  <2> QED BY <2>1, <2>3, <2>4, <2>5, <2>6, LastValueStep, LastPlain
<1> QED BY <1>1, <1>2

------------------------------------------------------------------------------
(* Members that are not repeated *)

NoRepeats == Ours /\ features.rejectDupKeys

\* The Value at p is null, and has neither members nor elements.
Empty(T, p) == p \in DOMAIN T /\ T[p] = Null /\ \A q \in DOMAIN T : ~Below(p, q)

\* With rejectDupKeys_, a Value that is about to be read is new.
Fresh ==
    NoRepeats => /\ pc = "idle" => tree = [p \in {Root} |-> Null]
                 /\ pc = "value" => Empty(tree, Current)
                 /\ pc = "colon" => Append(Current, <<"m", Top.name>>) \notin DOMAIN tree

\* What operator[] has made is empty.
LEMMA NewIsEmpty ==
    ASSUME NEW T, IsTree(T), NEW c \in Paths, c \notin DOMAIN T
    PROVE  Empty(Resolved(T, c), c)
<1>1. /\ \A q : q \in DOMAIN Resolved(T, c) <=> q \in DOMAIN T \/ q = c
      /\ Resolved(T, c)[c] = Null
  BY ResolvedValues
<1>2. ~Below(c, c)
  BY BelowLonger
<1>3. \A q \in DOMAIN T : ~Below(c, q)
  BY NothingBelow
<1> QED BY <1>1, <1>2, <1>3 DEF Empty

\* The next element of an array is not there yet.
LEMMA ElementNew ==
    ASSUME Shape, pc = "element"
    PROVE  Append(Current, <<"e", Top.index>>) \notin DOMAIN tree
<1>1. /\ Len(frames) \in Nat /\ Len(frames) > 0 /\ Len(nodes) = Len(frames)
      /\ Top \in FrameSet /\ Top.kind = "array"
  BY InContainer DEF InArray
<1>2. Len(frames) \in 1..Len(frames) /\ frames[Len(frames)].kind = "array"
  BY <1>1 DEF Top
<1>3. \A k \in Nat : Append(nodes[Len(frames)], <<"e", k>>) \in DOMAIN tree
                     <=> k < frames[Len(frames)].index
  BY <1>2 DEF Shape, Chain, ChainOf
<1>4. Top.index \in Nat /\ ~(Top.index < Top.index)
  BY <1>1 DEF FrameSet
<1> QED BY <1>1, <1>3, <1>4 DEF Current, Top

LEMMA FreshEnter ==
    ASSUME NEW s \in Steps, Shape, Enter(s), pc \in InObject \cup InArray,
           NoRepeats => Append(Current, s) \notin DOMAIN tree, UNCHANGED settings
    PROVE  Fresh'
<1>1. NoRepeats' = NoRepeats
  BY DEF NoRepeats, Ours, settings
<1>2. /\ pc' = "value" /\ tree' = Resolved(tree, Append(Current, s))
      /\ nodes' = Append(nodes, Append(Current, s))
  BY DEF Enter
<1>3. nodes \in Seq(Paths) /\ IsTree(tree)
  BY ChainLengths DEF Shape, Chain, ChainOf
<1>4. Current' = Append(Current, s)
  <2>1. Current' = nodes'[Len(nodes')]
    BY DEF Current
  <2> QED BY <1>2, <1>3, <2>1
<1>5. Append(Current, s) \in Paths
  BY ContainerValue, ChildPath
<1>6. NoRepeats => Empty(tree', Current')
  BY <1>2, <1>3, <1>4, <1>5, NewIsEmpty
<1> QED BY <1>1, <1>2, <1>6 DEF Fresh

LEMMA FreshNext ==
    ASSUME Shape, Fresh, [AnyNext]_vars
    PROVE  Fresh'
<1>1. CASE UNCHANGED vars
  BY <1>1 DEF vars, settings, calls, Fresh, NoRepeats, Ours, Current, Top
<1>2. CASE AnyNext
  <2>1. /\ UNCHANGED settings
        /\ \/ Parse \/ ExceededStackLimit \/ ElementEntered
           \/ \E t \in alphabet : ValueStep(t) \/ PlainStep(t) \/ Naming(t)
    BY <1>2, StepCases
  <2>2. NoRepeats' = NoRepeats
    BY <2>1 DEF NoRepeats, Ours, settings
  <2>3. CASE Parse
    <3>1. /\ pc' = "value" /\ nodes' = <<Root>> /\ tree' = [p \in {Root} |-> Null]
      BY <2>3 DEF Parse
    <3>2. Current' = Root
      <4>1. Current' = nodes'[Len(nodes')]
        BY DEF Current
      <4> QED BY <3>1, <4>1
    <3>3. ~Below(Root, Root)
      BY DEF Below, Root
    <3> QED BY <3>1, <3>2, <3>3 DEF Fresh, Empty
  <2>4. CASE ExceededStackLimit
    BY <2>4 DEF ExceededStackLimit, Fresh
  <2>5. CASE ElementEntered
    <3>1. pc = "element" /\ Enter(<<"e", Top.index>>)
      BY <2>5 DEF ElementEntered, EnterElement, NextIndex
    <3>2. /\ pc \in InArray /\ Len(frames) \in Nat /\ Len(frames) > 0
          /\ Len(nodes) = Len(frames) /\ Top \in FrameSet /\ Top.kind = "array"
      BY <3>1, InContainer DEF InArray
    <3>3. Top.index \in Nat
      BY <3>2 DEF FrameSet
    <3>4. <<"e", Top.index>> \in Steps
      BY <3>3, StepForms
    <3>5. Append(Current, <<"e", Top.index>>) \notin DOMAIN tree
      BY <3>1, ElementNew
    <3> QED BY <2>1, <3>1, <3>2, <3>4, <3>5, FreshEnter
  <2>6. ASSUME NEW t \in alphabet, ValueStep(t) PROVE Fresh'
    <3>1. CASE SkipComment(t)
      <4>1. pc = "value" /\ pc' = pc /\ UNCHANGED <<nodes, tree>>
        BY <2>6, <3>1 DEF ValueStep, InValue, SkipComment
      <4> QED BY <2>2, <4>1 DEF Fresh, Current
    <3>2. CASE ~SkipComment(t)
      <4>1. pc' \notin {"idle", "value", "colon"}
        BY <2>6, <3>2 DEF ValueStep, BeginContainer, DecodeScalar, UndecodedScalar,
             DroppedNull, ValueExpected, Return, Continue
      <4> QED BY <4>1 DEF Fresh
    <3> QED BY <3>1, <3>2
  <2>7. ASSUME NEW t \in alphabet, Naming(t) PROVE Fresh'
    <3>1. /\ pc = "name" /\ pc' = "colon" /\ UNCHANGED <<nodes, tree>>
          /\ frames' = [frames EXCEPT ![Len(frames)].name = t.text]
          /\ Ours => ~Repeated(t)
      BY <2>7 DEF Naming, Named
    <3>2. /\ frames \in Seq(FrameSet) /\ Len(frames) \in Nat /\ Len(frames) > 0
      BY <3>1, InContainer DEF InObject
    <3>3. Top'.name = t.text
      <4>1. Top' = frames'[Len(frames')] /\ Len(frames') = Len(frames)
            /\ frames[Len(frames)] \in FrameSet
        BY <3>1, <3>2 DEF Top
      <4>2. frames'[Len(frames)] = [frames[Len(frames)] EXCEPT !.name = t.text]
        BY <3>1, <3>2
      <4> QED BY <4>1, <4>2 DEF FrameSet
    <3>4. NoRepeats => Append(Current, <<"m", t.text>>) \notin DOMAIN tree
      BY <3>1 DEF NoRepeats, Repeated
    <3>5. Current' = Current
      BY <3>1 DEF Current
    <3> QED BY <2>2, <3>1, <3>3, <3>4, <3>5 DEF Fresh
  <2>8. ASSUME NEW t \in alphabet, PlainStep(t) PROVE Fresh'
    <3>1. CASE MemberEntered(t)
      <4>1. pc = "colon" /\ Enter(<<"m", Top.name>>)
        BY <3>1 DEF MemberEntered
      <4>2. pc \in InObject /\ Top \in FrameSet
        BY <4>1, InContainer DEF InObject
      <4>3. <<"m", Top.name>> \in Steps
        BY <4>2, StepForms DEF FrameSet
      <4> QED BY <2>1, <4>1, <4>2, <4>3, FreshEnter DEF Fresh
    <3>2. CASE ~MemberEntered(t)
      <4>1. pc' \notin {"idle", "value", "colon"}
        BY <2>8, <3>2 DEF PlainStep, Skipping, SkipComment, Closing, Failing, Fail, NextMember,
             NextRound, Peeking, Goto, Recovering, GivingUp, Remarking, Ending, EndContainer,
             Return, Continue, calls
      <4> QED BY <4>1 DEF Fresh
    <3> QED BY <3>1, <3>2
  <2> QED BY <2>1, <2>3, <2>4, <2>5, <2>6, <2>7, <2>8
<1> QED BY <1>1, <1>2

------------------------------------------------------------------------------
(* Members and elements that have begun *)

\* The functions around the innermost one.
Outer(fs) == SubSeq(fs, 1, Len(fs) - 1)

LEMMA OuterFrames ==
    ASSUME NEW fs \in Seq(FrameSet), fs # <<>>
    PROVE  /\ Outer(fs) \in Seq(FrameSet) /\ Len(Outer(fs)) = Len(fs) - 1
           /\ Len(fs) \in Nat /\ Len(fs) > 0
           /\ \A i \in 1..(Len(fs) - 1) : Outer(fs)[i] = fs[i]
<1>1. Len(fs) \in Nat /\ Len(fs) > 0
  OBVIOUS
<1>2. Len(fs) - 1 \in 0..Len(fs)
  BY <1>1
<1> QED BY <1>1, <1>2, Prefix DEF Outer

Starting == {"name", "recover", "first", "element"}

HasBegun(f, empty) == IF f.kind = "object" THEN empty \/ f.name # "" ELSE f.index # 0

\* Around the Value being read, every readObject has read a name and every readArray has
\* counted an element.
Begun ==
    /\ \A i \in 1..Len(frames) :
          i # Len(frames) \/ pc \notin Starting => HasBegun(frames[i], emptyName)
    /\ pc = "first" => Top.index = 0

LEMMA BegunStays ==
    ASSUME Begun, UNCHANGED <<frames, emptyName>>, pc' \in Starting \/ pc \notin Starting,
           pc' # "first" \/ pc = "first"
    PROVE  Begun'
BY DEF Begun, Top

LEMMA BegunReturns ==
    ASSUME NEW fs, NEW ok \in BOOLEAN, Return(fs, ok), emptyName' = emptyName,
           \A i \in 1..Len(fs) : HasBegun(fs[i], emptyName)
    PROVE  Begun'
<1>1. frames' = fs /\ pc' # "first"
  <2>1. frames' = fs
    BY ReturnPlace
  <2>2. pc' # "first"
    <3>1. pc' = Continue(fs, ok)
      BY DEF Return
    <3> QED BY <3>1, Zenon DEF Continue
  <2> QED BY <2>1, <2>2
<1> QED BY <1>1 DEF Begun

LEMMA BegunEnds ==
    ASSUME NEW ok \in BOOLEAN, Shape, Begun, pc \in InObject \cup InArray \cup {"recover"},
           EndContainer(ok), emptyName' = emptyName
    PROVE  Begun'
<1>1. frames \in Seq(FrameSet) /\ frames # <<>>
  BY InContainer
<1>2. /\ Len(Outer(frames)) = Len(frames) - 1 /\ Len(frames) \in Nat
      /\ \A i \in 1..(Len(frames) - 1) : Outer(frames)[i] = frames[i]
  BY <1>1, OuterFrames
<1>3. Return(Outer(frames), ok)
  BY DEF EndContainer, Outer
<1>4. ASSUME NEW i \in 1..Len(Outer(frames)) PROVE HasBegun(Outer(frames)[i], emptyName)
  <2>1. i \in 1..(Len(frames) - 1) /\ i \in 1..Len(frames) /\ i # Len(frames)
    BY <1>2
  <2>2. HasBegun(frames[i], emptyName)
    BY <2>1 DEF Begun
  <2> QED BY <1>2, <2>1, <2>2
<1> QED BY <1>3, <1>4, BegunReturns

LEMMA BegunValue ==
    ASSUME NEW t, Shape, Begun, ValueStep(t)
    PROVE  Begun'
<1>1. /\ pc = "value" /\ emptyName' = emptyName
      /\ \/ BeginContainer(t) \/ DecodeScalar(t) \/ UndecodedScalar(t) \/ DroppedNull(t)
         \/ ValueExpected(t) \/ SkipComment(t)
  BY DEF ValueStep, InValue
<1>2. \A i \in 1..Len(frames) : HasBegun(frames[i], emptyName)
  BY <1>1 DEF Begun, Starting
<1>3. frames \in Seq(FrameSet) /\ Len(frames) \in Nat
  BY <1>1, AtValue
<1>4. CASE BeginContainer(t)
  <2> DEFINE f == [kind |-> IF t.type = "{" THEN "object" ELSE "array", name |-> "", index |-> 0]
  <2>1. frames' = Append(frames, f) /\ pc' \in {"name", "first"}
    BY <1>4 DEF BeginContainer
  <2>2. f \in FrameSet /\ f.index = 0
    BY DEF FrameSet, Labels
  <2> HIDE DEF f
  <2>3. /\ Len(frames') = Len(frames) + 1 /\ frames'[Len(frames) + 1] = f
        /\ \A i \in 1..Len(frames) : frames'[i] = frames[i]
    BY <1>3, <2>1, <2>2, Appended
  <2>4. Top'.index = 0
    BY <2>2, <2>3 DEF Top
  <2>5. ASSUME NEW i \in 1..Len(frames'), i # Len(frames') PROVE HasBegun(frames'[i], emptyName)
    <3>1. i \in 1..Len(frames)
      BY <1>3, <2>3, <2>5
    <3> QED BY <1>2, <2>3, <3>1
  <2>6. pc' \in Starting
    BY <2>1 DEF Starting
  <2> QED BY <1>1, <2>4, <2>5, <2>6 DEF Begun
<1>5. CASE DecodeScalar(t) \/ DroppedNull(t)
  <2>1. Return(frames, TRUE)
    BY <1>5 DEF DecodeScalar, DroppedNull
  <2> QED BY <1>1, <1>2, <2>1, BegunReturns
<1>6. CASE UndecodedScalar(t) \/ ValueExpected(t)
  <2>1. Return(frames, FALSE)
    BY <1>6, Zenon DEF UndecodedScalar, ValueExpected
  <2> QED BY <1>1, <1>2, <2>1, BegunReturns, Zenon
<1>7. CASE SkipComment(t)
  <2>1. frames' = frames /\ pc' = pc
    BY <1>1, <1>7 DEF SkipComment
  <2> QED BY <1>1, <2>1, BegunStays
<1> QED BY <1>1, <1>4, <1>5, <1>6, <1>7

\* The frame of the innermost function is replaced by g.
LEMMA TopReplaced ==
    ASSUME NEW fs \in Seq(FrameSet), fs # <<>>, NEW g \in FrameSet,
           g.kind = fs[Len(fs)].kind
    PROVE  /\ SameTop(fs, [fs EXCEPT ![Len(fs)] = g])
           /\ [fs EXCEPT ![Len(fs)] = g][Len(fs)] = g
<1>1. Len(fs) \in 1..Len(fs) /\ Len(fs) \in Nat
  OBVIOUS
<1> DEFINE gs == [fs EXCEPT ![Len(fs)] = g]
<1>2. /\ gs \in Seq(FrameSet) /\ Len(gs) = Len(fs)
      /\ \A j \in 1..Len(fs) : gs[j] = IF j = Len(fs) THEN g ELSE fs[j]
  BY <1>1, ExceptSeq
<1> HIDE DEF gs
<1>3. SameTop(fs, gs) /\ gs[Len(fs)] = g
  BY <1>1, <1>2 DEF SameTop
<1> QED BY <1>3 DEF gs

\* readObject sets the name of its frame.
LEMMA NamingFrames ==
    ASSUME NEW t \in AllTokens, Shape, Naming(t)
    PROVE  /\ SameTop(frames, frames') /\ frames \in Seq(FrameSet) /\ frames # <<>>
           /\ frames'[Len(frames)].name = t.text /\ frames'[Len(frames)].kind = "object"
           /\ pc = "name" /\ pc' = "colon"
<1>1. /\ pc = "name" /\ pc' = "colon"
      /\ frames' = [frames EXCEPT ![Len(frames)].name = t.text]
  BY DEF Naming, Named
<1>2. frames # <<>> /\ frames \in Seq(FrameSet) /\ Top \in FrameSet /\ Top.kind = "object"
  BY <1>1, InContainer DEF InObject
<1> DEFINE g == [Top EXCEPT !.name = t.text]
<1>3. t.text \in Labels
  BY TokenTypes
<1>4. g \in FrameSet /\ g.kind = Top.kind /\ g.name = t.text
  BY <1>2, <1>3 DEF FrameSet
<1>5. frames' = [frames EXCEPT ![Len(frames)] = g]
  BY <1>1 DEF Top
<1> HIDE DEF g
<1>6. SameTop(frames, frames') /\ frames'[Len(frames)] = g
  BY <1>2, <1>4, <1>5, TopReplaced DEF Top
<1> QED BY <1>1, <1>2, <1>4, <1>6

\* readArray counts the element.
LEMMA ElementFrames ==
    ASSUME Shape, ElementEntered
    PROVE  /\ SameTop(frames, frames') /\ frames \in Seq(FrameSet) /\ frames # <<>>
           /\ frames'[Len(frames)].index = Top.index + 1
           /\ frames'[Len(frames)].kind = "array"
           /\ Top.index \in Nat /\ pc = "element" /\ pc' = "value"
<1>1. /\ pc = "element" /\ pc' = "value"
      /\ frames' = [frames EXCEPT ![Len(frames)].index = @ + 1]
  BY DEF ElementEntered, EnterElement, Enter
<1>2. frames # <<>> /\ frames \in Seq(FrameSet) /\ Top \in FrameSet /\ Top.kind = "array"
  BY <1>1, InContainer DEF InArray
<1> DEFINE g == [Top EXCEPT !.index = @ + 1]
<1>3. Top.index \in Nat
  BY <1>2 DEF FrameSet
<1>4. g \in FrameSet /\ g.kind = Top.kind /\ g.index = Top.index + 1
  BY <1>2, <1>3 DEF FrameSet
<1>5. frames' = [frames EXCEPT ![Len(frames)] = g]
  BY <1>1 DEF Top
<1> HIDE DEF g
<1>6. SameTop(frames, frames') /\ frames'[Len(frames)] = g
  BY <1>2, <1>4, <1>5, TopReplaced DEF Top
<1> QED BY <1>1, <1>2, <1>3, <1>4, <1>6

LEMMA BegunNaming ==
    ASSUME NEW t \in AllTokens, Shape, Begun, Naming(t)
    PROVE  Begun'
<1>1. /\ SameTop(frames, frames') /\ frames \in Seq(FrameSet) /\ frames # <<>>
      /\ frames'[Len(frames)].name = t.text /\ frames'[Len(frames)].kind = "object"
      /\ pc = "name" /\ pc' = "colon"
  BY NamingFrames
<1>2. emptyName' <=> emptyName \/ t.text = ""
  BY DEF Naming, Named
<1>3. /\ Len(frames') = Len(frames)
      /\ \A i \in 1..Len(frames) : i # Len(frames) => frames'[i] = frames[i]
  BY <1>1 DEF SameTop
<1>4. ASSUME NEW i \in 1..Len(frames') PROVE HasBegun(frames'[i], emptyName')
  <2>1. CASE i = Len(frames)
    <3>1. emptyName' \/ frames'[i].name # ""
      BY <1>1, <1>2, <2>1, Zenon
    <3> QED BY <1>1, <2>1, <3>1, Zenon DEF HasBegun
  <2>2. CASE i # Len(frames)
    <3>1. HasBegun(frames[i], emptyName) /\ frames'[i] = frames[i]
      BY <1>3, <2>2 DEF Begun
    <3> QED BY <1>2, <3>1, Zenon DEF HasBegun
  <2> QED BY <2>1, <2>2
<1> QED BY <1>1, <1>4 DEF Begun

LEMMA BegunElement ==
    ASSUME Shape, Begun, ElementEntered
    PROVE  Begun'
<1>1. /\ SameTop(frames, frames') /\ frames \in Seq(FrameSet) /\ frames # <<>>
      /\ frames'[Len(frames)].index = Top.index + 1
      /\ frames'[Len(frames)].kind = "array"
      /\ Top.index \in Nat /\ pc = "element" /\ pc' = "value"
  BY ElementFrames
<1>2. emptyName' = emptyName
  BY DEF ElementEntered
<1>3. /\ Len(frames') = Len(frames)
      /\ \A i \in 1..Len(frames) : i # Len(frames) => frames'[i] = frames[i]
  BY <1>1 DEF SameTop
<1>4. ASSUME NEW i \in 1..Len(frames') PROVE HasBegun(frames'[i], emptyName')
  <2>1. CASE i = Len(frames)
    <3>1. frames'[i].index # 0
      BY <1>1, <2>1
    <3> QED BY <1>1, <2>1, <3>1 DEF HasBegun
  <2>2. CASE i # Len(frames)
    <3>1. HasBegun(frames[i], emptyName) /\ frames'[i] = frames[i]
      BY <1>3, <2>2 DEF Begun
    <3> QED BY <1>2, <3>1
  <2> QED BY <2>1, <2>2
<1> QED BY <1>1, <1>4 DEF Begun

LEMMA BegunNext ==
    ASSUME Shape, Begun, [AnyNext]_vars
    PROVE  Begun'
<1>1. CASE UNCHANGED vars
  BY <1>1 DEF vars, calls, Begun, Top
<1>2. CASE AnyNext
  <2>1. \/ Parse \/ ExceededStackLimit \/ ElementEntered
        \/ \E t \in alphabet : ValueStep(t) \/ PlainStep(t) \/ Naming(t)
    BY <1>2, StepCases
  <2>2. CASE Parse
    BY <2>2 DEF Parse, Begun
  <2>3. CASE ExceededStackLimit
    BY <2>3, BegunStays DEF ExceededStackLimit, Starting
  <2>4. CASE ElementEntered
    BY <2>4, BegunElement
  <2>5. ASSUME NEW t \in alphabet, PlainStep(t) PROVE Begun'
    <3>0. emptyName' = emptyName
      BY <2>5 DEF PlainStep
    <3>1. CASE Skipping(t)
      <4>1. /\ frames' = frames
            /\ pc' = pc \/ (pc = "comma" /\ pc' = "after comment")
        BY <3>1 DEF Skipping, SkipComment
      <4> QED BY <3>0, <4>1, BegunStays DEF Starting
    <3>2. CASE Closing(t)
      <4>1. pc \in InObject \cup InArray /\ EndContainer(TRUE)
        BY <3>2 DEF Closing, InObject, InArray
      <4> QED BY <3>0, <4>1, BegunEnds
    <3>3. CASE Failing(t) \/ NextMember(t) \/ NextRound(t) \/ Peeking(t)
      <4>1. frames' = frames /\ pc' \in {"recover", "name", "element"}
        BY <3>3 DEF Failing, Fail, NextMember, NextRound, Peeking, Goto
      <4> QED BY <3>0, <4>1, BegunStays DEF Starting
    <3>4. CASE MemberEntered(t)
      <4>1. frames' = frames /\ pc = "colon" /\ pc' = "value"
        BY <3>4 DEF MemberEntered, Enter
      <4> QED BY <3>0, <4>1, BegunStays DEF Starting
    <3>5. CASE Recovering(t)
      <4>1. frames' = frames /\ pc = "recover" /\ pc' = pc
        BY <3>5 DEF Recovering, calls
      <4> QED BY <3>0, <4>1, BegunStays DEF Starting
    <3>6. CASE GivingUp(t)
      <4>1. pc = "recover" /\ EndContainer(FALSE)
        BY <3>6, Zenon DEF GivingUp
      <4> QED BY <3>0, <4>1, BegunEnds, Zenon
    <3>7. CASE Remarking(t) \/ Ending(t)
      <4>1. frames' = frames /\ pc = "finish" /\ pc' \in {"finish", "done"}
        BY <3>7 DEF Remarking, Ending
      <4> QED BY <3>0, <4>1, BegunStays DEF Starting
    <3> QED BY <2>5, <3>1, <3>2, <3>3, <3>4, <3>5, <3>6, <3>7 DEF PlainStep
  <2>6. ASSUME NEW t \in alphabet, ValueStep(t) \/ Naming(t) PROVE Begun'
    <3>1. t \in AllTokens
      BY DEF Shape, Setting
    <3> QED BY <2>6, <3>1, BegunValue, BegunNaming
  <2> QED BY <2>1, <2>2, <2>3, <2>4, <2>5, <2>6
<1> QED BY <1>1, <1>2

\* No token of a document is the mark of an empty place.
LEMMA RealTokens ==
    ASSUME NEW u \in AllTokens
    PROVE  u # NoToken
<1>1. \A p, x : Item(p, x).type = p
  BY DEF Item
<1>2. NoToken.type = "none"
  BY <1>1 DEF NoToken
<1>3. CASE u \in {Item(p, "") : p \in {"{", "}", "[", "]", ",", ":", "badString", "badNumber",
                                       "error", "end"}}
  <2>1. PICK p \in {"{", "}", "[", "]", ",", ":", "badString", "badNumber", "error", "end"} :
          u = Item(p, "")
    BY <1>3
  <2>2. u.type = p
    BY <1>1, <2>1
  <2>3. p # "none"
    OBVIOUS
  <2> QED BY <1>2, <2>2, <2>3
<1>4. CASE u \in {Item("string", n) : n \in Names}
  <2>1. u.type = "string"
    BY <1>1, <1>4
  <2> QED BY <1>2, <2>1
<1>5. CASE u \in {Item("number", "7"), Item("literal", "true")}
  <2>1. u.type \in {"number", "literal"}
    BY <1>1, <1>5
  <2> QED BY <1>2, <2>1
<1>6. CASE u \in {Item("comment", place) : place \in {"same line", "own line"}}
  <2>1. u.type = "comment"
    BY <1>1, <1>6
  <2> QED BY <1>2, <2>1
<1> QED BY <1>3, <1>4, <1>5, <1>6 DEF AllTokens
==============================================================================
