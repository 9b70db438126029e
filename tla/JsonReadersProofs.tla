--------------------------- MODULE JsonReadersProofs ---------------------------
(***************************************************************************)
(* What Reader and OurReader of jsoncpp keep of what they have read, and    *)
(* that OurReader takes the steps of Reader, for every choice of their      *)
(* features and documents of every length and depth.                        *)
(***************************************************************************)
EXTENDS JsonReaders, JsonReadingProofs

------------------------------------------------------------------------------
(* Comments *)

Notes(a, s, D) == {[at |-> a, slot |-> s, id |-> i] : i \in D}

\* Of the comments in H, those in P are pending and each of the others is kept once, in N.
Sound(N, P, H) ==
    /\ \A n \in N : n.id \in H /\ n.id \notin P
    /\ \A i \in H : i \in P \/ \E n \in N : n.id = i
    /\ \A n, m \in N : n.id = m.id => n = m

\* Comments D are added, of which some were pending.
LEMMA SoundAdded ==
    ASSUME NEW N, NEW P, NEW H, Sound(N, P, H), NEW D, NEW P2, NEW H2, NEW a, NEW s,
           H \subseteq H2, D \subseteq H2, H2 \subseteq H \cup D \cup P2, P \subseteq P2 \cup D,
           \A n \in N : n.id \notin D /\ n.id \notin P2, \A i \in D : i \notin P2
    PROVE  Sound(N \cup Notes(a, s, D), P2, H2)
<1>1. \A n \in Notes(a, s, D) : n.id \in D /\ n = [at |-> a, slot |-> s, id |-> n.id]
  BY DEF Notes
<1>2. ASSUME NEW i \in D PROVE \E n \in Notes(a, s, D) : n.id = i
  <2>1. [at |-> a, slot |-> s, id |-> i] \in Notes(a, s, D)
    BY DEF Notes
  <2>2. [at |-> a, slot |-> s, id |-> i].id = i
    OBVIOUS
  <2> QED BY <2>1, <2>2
<1>3. \A n, m \in Notes(a, s, D) : n.id = m.id => n = m
  BY <1>1
<1> QED BY <1>1, <1>2, <1>3 DEF Sound

\* setComment, when the Value has no comment of the kind.
LEMMA CommentAdds ==
    ASSUME NEW a, NEW s, NEW D, \A n \in notes : ~(n.at = a /\ n.slot = s)
    PROVE  Comment(a, s, D) = notes \cup Notes(a, s, D)
BY DEF Comment, Notes

LEMMA NotesAt ==
    ASSUME NEW a, NEW s, NEW D, NEW n \in Notes(a, s, D)
    PROVE  n.at = a /\ n.slot = s
BY DEF Notes

\* The comments N are at Values of T, none is after the root yet, and the Values being read
\* have none on their line, nor is the last one, l, among them.
Placed(ns, T, N, l) ==
    /\ \A n \in N : n.at \in DOMAIN T /\ n.slot # "after"
    /\ \A i \in 1..Len(ns) : ns[i] # l /\ \A n \in N : n.at = ns[i] => n.slot # "same line"

Uncommented(N, l) == \A n \in N : n.at = l => n.slot # "same line"

Keeping == NoRepeats /\ Collect /\ errors = 0

SoundNow == Sound(notes, pending, 1..heard)

\* Before the end of a document with repeated names refused and no error.
Midway ==
    /\ SoundNow /\ Placed(nodes, tree, notes, lastValue)
    /\ lastHasComment \/ Uncommented(notes, lastValue)
    /\ pc = "value" => \A n \in notes : n.at # Current

Kept ==
    Keeping => /\ pc # "done" => Midway
               /\ pc = "done" => Sound(notes, {}, 1..heard)

LEMMA PlacedAdded ==
    ASSUME NEW ns, NEW T, NEW N, NEW l, Placed(ns, T, N, l), NEW a \in DOMAIN T, NEW s, NEW D,
           s # "after", s = "same line" => \A i \in 1..Len(ns) : a # ns[i]
    PROVE  Placed(ns, T, N \cup Notes(a, s, D), l)
<1>1. \A n \in Notes(a, s, D) : n.at = a /\ n.slot = s
  BY NotesAt
<1>2. \A n \in N \cup Notes(a, s, D) : n.at \in DOMAIN T /\ n.slot # "after"
  BY <1>1 DEF Placed
<1>3. ASSUME NEW i \in 1..Len(ns), NEW n \in N \cup Notes(a, s, D), n.at = ns[i]
      PROVE  n.slot # "same line"
  BY <1>1, <1>3 DEF Placed
<1> QED BY <1>2, <1>3 DEF Placed

\* Nothing is read, kept or entered.
LEMMA MidwayStill ==
    ASSUME Midway, UNCHANGED <<nodes, tree, comments, heard>>, pc' # "value"
    PROVE  Midway'
BY DEF Midway, SoundNow, comments

\* A token is read and, when it is a comment, noted.
LEMMA MidwayNoted ==
    ASSUME NEW t, Shape, Marked, LastPlace, Keeping, Midway, Hear(t), AddComment(t),
           UNCHANGED <<nodes, tree, lastValue>>, pc' = "value" => pc = "value",
           pc # "idle", Len(nodes) > 0 \/ pc # "value"
    PROVE  Midway'
<1>1. Collect /\ Ours /\ Current' = Current
  BY DEF Keeping, NoRepeats, Current
<1>2. /\ Sound(notes, pending, 1..heard) /\ Placed(nodes, tree, notes, lastValue)
      /\ lastHasComment \/ Uncommented(notes, lastValue)
      /\ pc = "value" => \A n \in notes : n.at # Current
  BY DEF Midway, SoundNow
<1>3. heard \in Nat /\ pending \subseteq 1..heard /\ \A n \in notes : n.id \in 1..heard
  BY DEF Marked
<1>4. CASE t.type # "comment"
  <2>1. UNCHANGED <<pending, notes, lastHasComment, heard>>
    BY <1>4 DEF AddComment, Hear
  <2> QED BY <1>1, <1>2, <2>1 DEF Midway, SoundNow
<1>5. CASE t.type = "comment"
  <2>1. heard' = heard + 1
    BY <1>1, <1>5 DEF Hear
  <2>2. /\ 1..heard \subseteq 1..heard' /\ heard + 1 \in 1..heard' /\ heard + 1 \notin 1..heard
        /\ 1..heard' \subseteq (1..heard) \cup {heard + 1}
    BY <1>3, <2>1
  <2>3. CASE OnItsLine(t)
    <3>1. /\ notes' = Comment(lastValue, "same line", {heard + 1})
          /\ lastHasComment' = Ours /\ pending' = pending
      BY <1>1, <1>5, <2>3 DEF AddComment
    <3>2. lastValue # NoValue /\ Uncommented(notes, lastValue)
      BY <1>2, <2>3 DEF OnItsLine
    <3>3. notes' = notes \cup Notes(lastValue, "same line", {heard + 1})
      BY <3>1, <3>2, CommentAdds DEF Uncommented
    <3>4. Sound(notes', pending', 1..heard')
      <4>1. /\ {heard + 1} \subseteq 1..heard'
            /\ 1..heard' \subseteq (1..heard) \cup {heard + 1} \cup pending
            /\ \A n \in notes : n.id \notin {heard + 1} /\ n.id \notin pending
            /\ \A i \in {heard + 1} : i \notin pending
        BY <1>2, <1>3, <2>2 DEF Sound
      <4>2. Sound(notes \cup Notes(lastValue, "same line", {heard + 1}), pending, 1..heard')
        BY <1>2, <2>2, <4>1, SoundAdded
      <4> QED BY <3>1, <3>3, <4>2
    <3>5. lastValue \in DOMAIN tree /\ \A i \in 1..Len(nodes) : lastValue # nodes[i]
      BY <1>2, <3>2 DEF LastPlace, Placed
    <3>6. Placed(nodes', tree', notes', lastValue')
      <4>1. Placed(nodes, tree, notes \cup Notes(lastValue, "same line", {heard + 1}), lastValue)
        BY <1>2, <3>5, PlacedAdded
      <4> QED BY <3>3, <4>1
    <3>7. \A D : \A n \in Notes(lastValue, "same line", D) : n.at = lastValue
      BY NotesAt
    <3>8. ASSUME pc' = "value", NEW n \in notes' PROVE n.at # Current'
      <4>1. Len(nodes) \in 1..Len(nodes)
        <5>1. Len(nodes) \in Nat
          BY ChainLengths DEF Shape, Chain
        <5> QED BY <3>8, <5>1
      <4>2. lastValue # Current
        BY <3>5, <4>1 DEF Current
      <4>3. CASE n \in notes
        BY <1>1, <1>2, <3>8, <4>3
      <4>4. CASE n \in Notes(lastValue, "same line", {heard + 1})
        BY <1>1, <3>7, <4>2, <4>4, Zenon
      <4> QED BY <3>3, <3>8, <4>3, <4>4
    <3> QED BY <1>1, <3>1, <3>4, <3>6, <3>8 DEF Midway, SoundNow
  <2>4. CASE ~OnItsLine(t)
    <3>1. pending' = pending \cup {heard + 1} /\ UNCHANGED <<notes, lastHasComment>>
      BY <1>1, <1>5, <2>4 DEF AddComment
    <3>2. Sound(notes', pending', 1..heard')
      BY <1>2, <1>3, <2>2, <3>1 DEF Sound
    <3> QED BY <1>1, <1>2, <3>1, <3>2 DEF Midway, SoundNow
  <2> QED BY <2>3, <2>4
<1> QED BY <1>4, <1>5

\* A member or an element that was not there is entered.
LEMMA MidwayEntered ==
    ASSUME NEW s \in Steps, Shape, LastPlace, Midway, Enter(s), UNCHANGED heard,
           Append(Current, s) \notin DOMAIN tree, pc \in InObject \cup InArray
    PROVE  Midway'
<1> DEFINE c == Append(Current, s)
<1>1. /\ tree' = Resolved(tree, c) /\ nodes' = Append(nodes, c)
      /\ UNCHANGED <<pending, lastValue, lastHasComment, notes>>
  BY DEF Enter, comments
<1>2. /\ Sound(notes, pending, 1..heard) /\ Placed(nodes, tree, notes, lastValue)
      /\ lastHasComment \/ Uncommented(notes, lastValue)
  BY DEF Midway, SoundNow
<1>3. c \in Paths /\ c \notin DOMAIN tree
  BY ContainerValue, ChildPath
<1> HIDE DEF c
<1>4. nodes \in Seq(Paths)
  BY ChainLengths DEF Shape, Chain
<1>5. /\ Len(nodes') = Len(nodes) + 1 /\ nodes'[Len(nodes) + 1] = c /\ Len(nodes) \in Nat
      /\ \A i \in 1..Len(nodes) : nodes'[i] = nodes[i]
  BY <1>1, <1>3, <1>4, Appended
<1>6. c # lastValue
  BY <1>3, NoValuePath DEF LastPlace
<1>7. \A n \in notes : n.at # c
  BY <1>2, <1>3 DEF Placed
<1>8. \A n \in notes : n.at \in DOMAIN tree' /\ n.slot # "after"
  BY <1>1, <1>2, ResolvedValues DEF Placed
<1>9. ASSUME NEW i \in 1..Len(nodes')
      PROVE  nodes'[i] # lastValue /\ \A n \in notes : n.at = nodes'[i] => n.slot # "same line"
  <2>1. CASE i = Len(nodes) + 1
    BY <1>5, <1>6, <1>7, <2>1
  <2>2. CASE i # Len(nodes) + 1
    <3>1. i \in 1..Len(nodes)
      BY <1>5, <2>2
    <3> QED BY <1>2, <1>5, <3>1 DEF Placed
  <2> QED BY <2>1, <2>2
<1>10. Current' = c
  <2>1. Current' = nodes'[Len(nodes')]
    BY DEF Current
  <2> QED BY <1>5, <2>1
<1>11. Placed(nodes', tree', notes', lastValue')
  BY <1>1, <1>8, <1>9 DEF Placed
<1> QED BY <1>1, <1>2, <1>7, <1>10, <1>11 DEF Midway, SoundNow

\* The comments before a new Value become its own.
LEMMA MidwayAttached ==
    ASSUME NEW v, Shape, Marked, Fresh, Keeping, Midway, pc = "value", UNCHANGED heard,
           AttachBefore, tree' = Swapped(tree, Current, v)
    PROVE  /\ SoundNow' /\ Placed(nodes, tree', notes', lastValue)
           /\ Uncommented(notes', Current)
           /\ lastHasComment \/ Uncommented(notes', lastValue)
<1> DEFINE M == notes \cup Notes(Current, "before", pending)
<1>1. Collect /\ NoRepeats /\ Empty(tree, Current)
  BY DEF Keeping, Fresh
<1>2. /\ Sound(notes, pending, 1..heard) /\ Placed(nodes, tree, notes, lastValue)
      /\ lastHasComment \/ Uncommented(notes, lastValue)
      /\ \A n \in notes : n.at # Current
  BY DEF Midway, SoundNow
<1>3. DOMAIN tree' = DOMAIN tree
  <2>1. \A q : q \in DOMAIN Swapped(tree, Current, v) <=> q \in DOMAIN tree /\ ~Below(Current, q)
    BY SwappedValues
  <2> QED BY <1>1, <2>1 DEF Empty, Swapped
<1>4. (IF Collect /\ pending # {} THEN Comment(Current, "before", pending) ELSE notes) = M
  <2>1. Comment(Current, "before", pending) = M
    BY <1>2, CommentAdds
  <2>2. pending = {} => M = notes
    BY DEF Notes
  <2> QED BY <1>1, <2>1, <2>2
<1>5. \A n \in Notes(Current, "before", pending) : n.at = Current /\ n.slot = "before"
  BY NotesAt
<1>6. Placed(nodes, tree, M, lastValue)
  BY <1>1, <1>2, PlacedAdded DEF Empty
<1>7. notes' = {n \in M : n.at \in DOMAIN tree'} /\ pending' = {}
  BY <1>1, <1>4 DEF AttachBefore
<1>8. notes' = M
  BY <1>3, <1>6, <1>7 DEF Placed
<1>9. SoundNow'
  <2>1. /\ pending \subseteq 1..heard
        /\ \A n \in notes : n.id \notin pending
    BY <1>2 DEF Marked, Sound
  <2>2. /\ 1..heard \subseteq 1..heard /\ 1..heard \subseteq (1..heard) \cup pending \cup {}
        /\ pending \subseteq {} \cup pending
        /\ \A n \in notes : n.id \notin pending /\ n.id \notin {}
        /\ \A i \in pending : i \notin {}
    BY <2>1
  <2>3. Sound(M, {}, 1..heard)
    BY <1>2, <2>1, <2>2, SoundAdded
  <2> QED BY <1>7, <1>8, <2>3 DEF SoundNow
<1>10. Placed(nodes, tree', notes', lastValue)
  BY <1>3, <1>6, <1>8 DEF Placed
<1>11. Uncommented(notes', Current)
  BY <1>2, <1>5, <1>8 DEF Uncommented
<1>12. Uncommented(notes, lastValue) => Uncommented(notes', lastValue)
  BY <1>5, <1>8 DEF Uncommented
<1> QED BY <1>2, <1>9, <1>10, <1>11, <1>12

\* readValue returns: the Value is the last one, and none that is still being read.
LEMMA MidwayReturned ==
    ASSUME NEW fs \in Seq(FrameSet), NEW ok, Shape, pc # "idle", Return(fs, ok), SetLast,
           Collect, Ours, Len(fs) \in Nat, Len(nodes) = Len(fs) + 1,
           SoundNow', Placed(nodes, tree', notes', lastValue), Uncommented(notes', Current)
    PROVE  Midway'
<1>1. nodes' = Popped(fs) /\ lastValue' = Current /\ lastHasComment' = FALSE /\ pc' # "value"
  BY DEF Return, SetLast, Continue
<1>2. Uncommented(notes', lastValue')
  BY <1>1
<1>3. Len(nodes) \in Nat /\ Len(nodes) > 0 /\ ChainOf(frames, nodes, tree)
  <2>1. ChainOf(frames, nodes, tree)
    BY Zenon DEF Shape, Chain
  <2> QED BY <2>1
<1>4. \A i \in 1..(Len(nodes) - 1) : nodes[i] # Current
  BY <1>3, CurrentValue DEF Current
<1>5. /\ Len(nodes') = Len(nodes) - 1 /\ \A i \in 1..(Len(nodes) - 1) : nodes'[i] = nodes[i]
  <2>1. nodes' = SubSeq(nodes, 1, Len(nodes) - 1) /\ nodes \in Seq(Paths)
    BY <1>1, ChainLengths DEF Popped, Shape, Chain
  <2>2. Len(nodes) - 1 \in 0..Len(nodes)
    BY <1>3
  <2> QED BY <2>1, <2>2, Prefix
<1>6. ASSUME NEW i \in 1..Len(nodes')
      PROVE  nodes'[i] # lastValue' /\ \A n \in notes' : n.at = nodes'[i] => n.slot # "same line"
  <2>1. i \in 1..(Len(nodes) - 1) /\ i \in 1..Len(nodes)
    BY <1>3, <1>5
  <2> QED BY <1>1, <1>4, <1>5, <2>1 DEF Placed
<1>7. Placed(nodes', tree', notes', lastValue')
  BY <1>6 DEF Placed
<1> QED BY <1>1, <1>2, <1>7 DEF Midway

LEMMA KeptValueStep ==
    ASSUME NEW t, Shape, Typed, LastPlace, Fresh, Kept, UNCHANGED settings, ValueStep(t)
    PROVE  Kept'
<1> SUFFICES ASSUME Keeping' PROVE Midway'
  <2>1. pc' # "done"
    BY DEF ValueStep, InValue, BeginContainer, DecodeScalar, UndecodedScalar, DroppedNull,
           ValueExpected, SkipComment, Return, Continue
  <2> QED BY <2>1 DEF Kept
<1>1. /\ pc = "value"
      /\ \/ BeginContainer(t) \/ DecodeScalar(t) \/ UndecodedScalar(t) \/ DroppedNull(t)
         \/ ValueExpected(t) \/ SkipComment(t)
  BY DEF ValueStep, InValue
<1>2. errors' = 0 /\ errors \in Nat /\ Collect /\ NoRepeats /\ Ours /\ Marked
  BY DEF Keeping, NoRepeats, Collect, Ours, settings, Typed
<1>3. errors' = errors /\ ~UndecodedScalar(t) /\ ~ValueExpected(t)
  <2>1. errors' # errors + 1
    BY <1>2
  <2>2. ~UndecodedScalar(t) /\ ~ValueExpected(t)
    BY <2>1 DEF UndecodedScalar, ValueExpected
  <2> QED BY <1>1, <2>2 DEF BeginContainer, DecodeScalar, DroppedNull, SkipComment
<1>4. Keeping /\ Midway
  BY <1>1, <1>2, <1>3 DEF Keeping, Kept
<1>5. /\ Len(nodes) = Len(frames) + 1 /\ frames \in Seq(FrameSet) /\ Len(frames) \in Nat
      /\ pc # "idle" /\ Len(nodes) > 0
  BY <1>1, AtValue
<1>6. CASE SkipComment(t)
  BY <1>1, <1>2, <1>4, <1>5, <1>6, MidwayNoted DEF SkipComment, Read
<1>7. ASSUME BeginContainer(t) \/ DecodeScalar(t) \/ DroppedNull(t)
      PROVE  /\ SoundNow' /\ Placed(nodes, tree', notes', lastValue)
             /\ Uncommented(notes', Current)
             /\ lastHasComment \/ Uncommented(notes', lastValue)
  <2>1. /\ AttachBefore /\ \E v : tree' = Swapped(tree, Current, v)
    BY <1>7 DEF BeginContainer, DecodeScalar, DroppedNull
  <2>2. heard' = heard
    BY <1>7 DEF BeginContainer, DecodeScalar, DroppedNull, Read, Hear, Scalars, seen
  <2> QED BY <1>1, <1>2, <1>4, <2>1, <2>2, MidwayAttached
<1>8. CASE BeginContainer(t)
  <2>1. UNCHANGED <<nodes, lastValue, lastHasComment>> /\ pc' # "value"
    BY <1>8 DEF BeginContainer
  <2> QED BY <1>7, <1>8, <2>1 DEF Midway
<1>9. CASE DecodeScalar(t) \/ DroppedNull(t)
  <2>1. Return(frames, TRUE) /\ SetLast
    BY <1>9 DEF DecodeScalar, DroppedNull
  <2> QED BY <1>2, <1>5, <1>7, <1>9, <2>1, MidwayReturned
<1> QED BY <1>1, <1>3, <1>6, <1>8, <1>9

LEMMA KeptPlain ==
    ASSUME NEW t, Shape, Typed, LastPlace, Fresh, Counted, Kept, UNCHANGED settings, PlainStep(t)
    PROVE  Kept'
<1> SUFFICES ASSUME Keeping' PROVE Kept'
  BY DEF Kept
<1>1. errors' = 0 /\ errors \in Nat /\ Collect /\ NoRepeats /\ Ours /\ Marked
  BY DEF Keeping, NoRepeats, Collect, Ours, settings, Typed
<1>2. errors' = errors /\ Keeping
  <2>1. errors' = errors \/ errors' = errors + 1
    BY TokenUses
  <2>2. errors' = errors
    BY <1>1, <2>1
  <2> QED BY <1>1, <2>2 DEF Keeping
<1>3. pc # "done" /\ pc # "idle" /\ pc # "value" /\ Midway
  <2>1. pc # "done" /\ pc # "idle" /\ pc # "value"
    BY DEF PlainStep, Skipping, Closing, Failing, NextMember, NextRound, Peeking,
           MemberEntered, Recovering, GivingUp, Remarking, Ending
  <2> QED BY <1>2, <2>1 DEF Kept
<1>4. CASE Skipping(t) \/ Recovering(t) \/ Remarking(t)
  <2>1. /\ Hear(t) /\ AddComment(t) /\ UNCHANGED <<nodes, tree, lastValue>>
        /\ pc' # "value" /\ pc' # "done"
    BY <1>3, <1>4 DEF Skipping, SkipComment, Recovering, Remarking, Read, calls
  <2>2. Midway'
    BY <1>1, <1>2, <1>3, <2>1, MidwayNoted
  <2> QED BY <2>1, <2>2 DEF Kept
<1>5. CASE NextMember(t) \/ NextRound(t) \/ Peeking(t)
  <2>1. Goto("name") \/ Goto("element")
    BY <1>5 DEF NextMember, NextRound, Peeking
  <2>2. UNCHANGED <<nodes, tree, comments>> /\ pc' \in {"name", "element"}
    BY <2>1 DEF Goto
  <2>3. heard' = heard
    BY <1>5 DEF NextMember, NextRound, Peeking, Read, Hear, seen
  <2>4. Midway'
    BY <1>3, <2>2, <2>3, MidwayStill
  <2> QED BY <2>2, <2>4 DEF Kept
<1>6. CASE MemberEntered(t)
  <2>1. pc = "colon" /\ Enter(<<"m", Top.name>>)
    BY <1>6 DEF MemberEntered
  <2>2. heard' = heard
    BY <1>6 DEF MemberEntered, Read, Hear
  <2>3. pc \in InObject /\ Top \in FrameSet
    BY <2>1, InContainer DEF InObject
  <2>4. <<"m", Top.name>> \in Steps
    BY <2>3, StepForms DEF FrameSet
  <2>5. Append(Current, <<"m", Top.name>>) \notin DOMAIN tree
    BY <1>1, <2>1 DEF Fresh
  <2>6. Midway'
    BY <1>3, <2>1, <2>2, <2>3, <2>4, <2>5, MidwayEntered
  <2> QED BY <2>1, <2>6 DEF Kept, Enter
<1>7. CASE Closing(t)
  <2>1. /\ pc \in InObject \cup InArray /\ EndContainer(TRUE)
    BY <1>7 DEF Closing, InObject, InArray
  <2>2. t.type # "comment" /\ Hear(t)
    BY <1>7 DEF Closing, ClosesEither, OurCloses, Closes, Read
  <2>3. heard' = heard
    BY <2>2 DEF Hear
  <2>4. /\ Len(frames) \in Nat /\ Len(frames) > 0 /\ Len(nodes) = Len(frames)
        /\ frames \in Seq(FrameSet)
    BY <2>1, InContainer
  <2> DEFINE fs == SubSeq(frames, 1, Len(frames) - 1)
  <2>5. /\ Return(fs, TRUE) /\ SetLast /\ UNCHANGED <<tree, pending, notes>>
    BY <2>1 DEF EndContainer
  <2>6. Len(fs) = Len(frames) - 1 /\ fs \in Seq(FrameSet)
    <3>1. Len(frames) - 1 \in 0..Len(frames)
      BY <2>4
    <3> QED BY <2>4, <3>1, Prefix
  <2> HIDE DEF fs
  <2>7. /\ SoundNow' /\ Placed(nodes, tree', notes', lastValue)
    BY <1>3, <2>3, <2>5 DEF Midway, SoundNow
  <2>8. Uncommented(notes', Current)
    <3>1. Len(nodes) \in 1..Len(nodes)
      BY <2>4
    <3> QED BY <1>3, <2>5, <3>1 DEF Midway, Placed, Current, Uncommented
  <2>9. Len(nodes) = Len(fs) + 1 /\ Len(fs) \in Nat
    BY <2>4, <2>6
  <2>10. Midway'
    BY <1>1, <1>3, <2>5, <2>6, <2>7, <2>8, <2>9, MidwayReturned
  <2>11. pc' # "done"
    BY <2>5 DEF Return, Continue
  <2> QED BY <2>10, <2>11 DEF Kept
<1>8. CASE GivingUp(t)
  <2>1. errors > 0
    BY <1>8 DEF GivingUp, Counted
  <2> QED BY <1>1, <1>2, <2>1
<1>9. CASE Failing(t)
  <2>1. errors' = errors + 1
    BY <1>9 DEF Failing, Fail
  <2> QED BY <1>1, <1>2, <2>1
<1>10. CASE Ending(t)
  <2>1. /\ pc' = "done" /\ Hear(t) /\ ~(t.type = "comment" /\ features.allowComments)
        /\ errors' = IF (Ours /\ Extra(t)) \/ Bare THEN errors + 1 ELSE errors
        /\ notes' = IF Collect /\ ~(Ours /\ Extra(t)) /\ pending # {}
                    THEN Comment(Root, "after", pending) ELSE notes
    BY <1>10 DEF Ending
  <2>2. heard' = heard
    BY <1>1, <2>1 DEF Hear, Collect
  <2>3. ~(Ours /\ Extra(t))
    BY <1>1, <1>2, <2>1
  <2>4. Comment(Root, "after", pending) = notes \cup Notes(Root, "after", pending)
    BY <1>3, CommentAdds DEF Midway, Placed
  <2>5. pending = {} => Notes(Root, "after", pending) = {}
    BY DEF Notes
  <2>6. notes' = notes \cup Notes(Root, "after", pending)
    BY <1>1, <2>1, <2>3, <2>4, <2>5
  <2>7. /\ Sound(notes, pending, 1..heard) /\ pending \subseteq 1..heard
        /\ \A n \in notes : n.id \notin pending
    BY <1>1, <1>3 DEF Midway, SoundNow, Sound, Marked
  <2>8. /\ 1..heard \subseteq 1..heard /\ 1..heard \subseteq (1..heard) \cup pending \cup {}
        /\ pending \subseteq {} \cup pending
        /\ \A n \in notes : n.id \notin pending /\ n.id \notin {}
        /\ \A i \in pending : i \notin {}
    BY <2>7
  <2>9. Sound(notes \cup Notes(Root, "after", pending), {}, 1..heard)
    BY <2>7, <2>8, SoundAdded
  <2> QED BY <2>1, <2>2, <2>6, <2>9 DEF Kept
<1> QED BY <1>4, <1>5, <1>6, <1>7, <1>8, <1>9, <1>10 DEF PlainStep

LEMMA KeptNext ==
    ASSUME Shape, Typed, LastPlace, Fresh, Counted, Kept, [AnyNext]_vars
    PROVE  Kept'
<1>1. CASE UNCHANGED vars
  <2>1. UNCHANGED <<features, pc, nodes, tree, errors, comments, heard>>
    BY <1>1 DEF vars, settings, calls, seen
  <2>2. Keeping' = Keeping /\ Current' = Current
    BY <2>1 DEF Keeping, NoRepeats, Collect, Ours, Current
  <2>3. Midway' = Midway
    BY <2>1, <2>2 DEF Midway, SoundNow, comments
  <2> QED BY <2>1, <2>2, <2>3 DEF Kept, comments
<1>2. CASE AnyNext
  <2>1. /\ UNCHANGED settings
        /\ \/ Parse \/ ExceededStackLimit \/ ElementEntered
           \/ \E t \in alphabet : ValueStep(t) \/ PlainStep(t) \/ Naming(t)
    BY <1>2, StepCases
  <2>2. NoRepeats' = NoRepeats /\ Collect' = Collect
    BY <2>1 DEF NoRepeats, Ours, Collect, settings
  <2>3. CASE Parse
    <3>1. /\ notes' = {} /\ pending' = {} /\ heard' = 0 /\ lastValue' = NoValue
          /\ nodes' = <<Root>> /\ pc' = "value"
      BY <2>3 DEF Parse
    <3>2. SoundNow' /\ Uncommented(notes', lastValue')
      BY <3>1 DEF SoundNow, Sound, Uncommented
    <3>3. Root # NoValue
      <4>1. Root \in Paths
        BY DEF Root, Paths
      <4> QED BY <4>1, NoValuePath
    <3>4. Placed(nodes', tree', notes', lastValue')
      <4>1. \A i \in 1..Len(<<Root>>) : <<Root>>[i] = Root
        OBVIOUS
      <4> QED BY <3>1, <3>3, <4>1 DEF Placed
    <3> QED BY <3>1, <3>2, <3>4 DEF Kept, Midway
  <2>4. CASE ExceededStackLimit
    <3>1. /\ UNCHANGED <<nodes, tree, comments, errors, heard>> /\ pc' = "aborted" /\ pc = "value"
      BY <2>4 DEF ExceededStackLimit, seen
    <3>2. Midway => Midway'
      BY <3>1, MidwayStill
    <3> QED BY <2>2, <3>1, <3>2 DEF Kept, Keeping
  <2>5. CASE ElementEntered
    <3>1. pc = "element" /\ Enter(<<"e", Top.index>>) /\ heard' = heard
      BY <2>5 DEF ElementEntered, EnterElement, NextIndex, seen
    <3>2. pc \in InArray /\ Top \in FrameSet
      BY <3>1, InContainer DEF InArray
    <3>3. <<"e", Top.index>> \in Steps
      BY <3>2, StepForms DEF FrameSet
    <3>4. Append(Current, <<"e", Top.index>>) \notin DOMAIN tree
      BY <3>1, ElementNew
    <3>5. Midway => Midway'
      BY <3>1, <3>2, <3>3, <3>4, MidwayEntered
    <3>6. errors' = errors /\ pc' = "value"
      BY <3>1 DEF Enter
    <3> QED BY <2>2, <3>1, <3>5, <3>6 DEF Kept, Keeping
  <2>6. ASSUME NEW t \in alphabet, Naming(t) PROVE Kept'
    <3>1. /\ UNCHANGED <<nodes, tree, comments, errors>> /\ pc' = "colon" /\ pc = "name"
      BY <2>6 DEF Naming, Named
    <3>2. heard' = heard
      BY <2>6 DEF Naming, IsName, Read, Hear
    <3>3. Midway => Midway'
      BY <3>1, <3>2, MidwayStill
    <3> QED BY <2>2, <3>1, <3>3 DEF Kept, Keeping
  <2> QED BY <2>1, <2>3, <2>4, <2>5, <2>6, KeptValueStep, KeptPlain
<1> QED BY <1>1, <1>2

\* What holds of the comments at every moment.
CommentsInv == Shape /\ Typed /\ LastPlace /\ Fresh /\ Counted /\ Kept

LEMMA CommentsInit ==
    ASSUME Init
    PROVE  CommentsInv
<1>1. LastPlace
  BY DEF Init, LastPlace
<1>2. Fresh /\ Counted
  BY DEF Init, Fresh, Counted
<1>3. Sound({}, {}, 1..0) /\ Uncommented({}, NoValue)
  BY DEF Sound, Uncommented
<1>4. Placed(<<>>, tree, {}, NoValue)
  BY DEF Placed
<1>5. SoundNow
  BY <1>3 DEF Init, SoundNow
<1>6. Kept
  BY <1>3, <1>4, <1>5 DEF Init, Kept, Midway
<1> QED BY <1>1, <1>2, <1>6, ShapeInit, TypedInit DEF CommentsInv

LEMMA CommentsStep ==
    ASSUME CommentsInv, [AnyNext]_vars
    PROVE  CommentsInv'
BY ShapeNext, TypedNext, LastNext, FreshNext, CountedNext, KeptNext DEF CommentsInv

LEMMA CommentsImplied ==
    ASSUME CommentsInv
    PROVE  CommentsPlaced
<1>1. LastValueAlive
  BY DEF CommentsInv, LastPlace, LastValueAlive
<1>2. ASSUME Ours, pc = "done", result, Collect, features.rejectDupKeys
      PROVE  /\ {n.id : n \in notes} = 1..heard
             /\ \A n, m \in notes : n.id = m.id => n = m
  <2>1. errors = 0
    BY <1>2 DEF CommentsInv, Counted
  <2>2. Sound(notes, {}, 1..heard)
    BY <1>2, <2>1 DEF CommentsInv, Kept, Keeping, NoRepeats
  <2> QED BY <2>2 DEF Sound
<1> QED BY <1>1, <1>2 DEF CommentsPlaced, CommentsCollected

\* lastValue_, through which readers store a comment on the line of a value, is never a
\* Value that a repeated member name has destroyed; and with rejectDupKeys_ OurReader keeps
\* every comment of an accepted document, each at one Value: for every choice of the other
\* features, and documents of every length and depth.
THEOREM CommentsKept ==
    Spec \/ OurSpec => []CommentsPlaced
<1>1. Init => CommentsInv
  BY CommentsInit
<1>2. CommentsInv /\ [AnyNext]_vars => CommentsInv'
  BY CommentsStep
<1>3. CommentsInv => CommentsPlaced
  BY CommentsImplied
<1>4. AnySpec => []CommentsPlaced
  BY <1>1, <1>2, <1>3, PTL DEF AnySpec
<1> QED BY <1>4, EitherReader

------------------------------------------------------------------------------
(* OurReader beside Reader *)

\* The token ahead of the first element has been looked at.
Looked == pc = "element" /\ Top.index = 0 => unread # NoToken \/ left = 0

\* What the two readers have in common when nothing is added.
LEMMA AlikeFeatures ==
    ASSUME Setting
    PROVE  /\ [features EXCEPT !.ours = FALSE] \in AllFeatures
           /\ ~R!Ours
           /\ R!Collect <=> Collect
           /\ [features EXCEPT !.ours = FALSE].allowComments <=> features.allowComments
           /\ [features EXCEPT !.ours = FALSE].strictRoot <=> features.strictRoot
           /\ [features EXCEPT !.ours = FALSE].allowDroppedNull <=> features.allowDroppedNull
           /\ [features EXCEPT !.ours = FALSE].allowNumericKeys <=> features.allowNumericKeys
           /\ [features EXCEPT !.ours = FALSE].stackLimit = features.stackLimit
BY DEF Setting, AllFeatures, R!Ours, R!Collect, Collect

LEMMA AlikeTokens ==
    /\ R!NoToken = NoToken /\ R!EndOfStream = EndOfStream
    /\ R!AllTokens = AllTokens /\ R!AllFeatures = AllFeatures
    /\ R!Root = Root
    /\ R!Null = Null /\ R!Object = Object /\ R!Array = Array
    /\ R!NoValue = NoValue /\ R!Reject = Reject
    /\ R!Scalars = Scalars /\ R!Separators = Separators
BY DEF R!NoToken, NoToken, R!EndOfStream, EndOfStream, R!AllTokens,
       AllTokens, R!AllFeatures, AllFeatures, R!Root, Root,
       R!Null, Null, R!Object, Object, R!Array, Array,
       R!NoValue, NoValue, R!Reject, Reject, R!Scalars, Scalars,
       R!Separators, Separators, R!Item, Item

LEMMA AlikeValues ==
    /\ \A T, p, v : R!Swapped(T, p, v) = Swapped(T, p, v)
    /\ \A T, p : R!Resolved(T, p) = Resolved(T, p)
    /\ \A r, t : R!Expected(r, t) = Expected(r, t)
BY AlikeTokens DEF R!Swapped, Swapped, R!Below, Below, R!Resolved, Resolved,
       R!Expected, Expected, R!Expand, Expand, R!Reject, Reject, R!Scalars, Scalars

Alike == Setting /\ NothingAdded

LEMMA AlikeOff ==
    ASSUME Alike
    PROVE  /\ Ours /\ ~Collect /\ ~R!Collect /\ ~R!Ours
           /\ ~features.allowTrailingCommas /\ ~features.rejectDupKeys /\ ~features.failIfExtra
<1>1. Setting /\ Ours /\ ~Collect
      /\ ~features.allowTrailingCommas /\ ~features.rejectDupKeys /\ ~features.failIfExtra
  BY DEF Alike, NothingAdded
<1> QED BY <1>1, AlikeFeatures

LEMMA AlikeReading ==
    ASSUME Alike, NEW t
    PROVE  /\ Take(t) => R!Take(t)
           /\ Peek(t) => R!Peek(t)
           /\ Hear(t) => R!Hear(t)
           /\ Read(t) => R!Read(t)
           /\ AddComment(t) => R!AddComment(t)
           /\ UNCHANGED seen => UNCHANGED R!seen
           /\ UNCHANGED comments => UNCHANGED R!comments
           /\ IsName(t) <=> R!IsName(t)
           /\ Stops(t) <=> R!Stops(t)
<1>1. Take(t) => R!Take(t)
  BY AlikeTokens DEF Take, R!Take
<1>2. Peek(t) => R!Peek(t)
  BY AlikeTokens DEF Peek, R!Peek
<1>3. Hear(t) => R!Hear(t)
  BY AlikeOff DEF Hear, R!Hear
<1>4. Read(t) => R!Read(t)
  BY <1>1, <1>3, AlikeValues DEF Read, R!Read
<1>5. AddComment(t) => R!AddComment(t)
  BY AlikeOff DEF AddComment, R!AddComment
<1>6. UNCHANGED seen => UNCHANGED R!seen
  BY DEF seen, R!seen
<1>7. UNCHANGED comments => UNCHANGED R!comments
  BY DEF comments, R!comments
<1>8. IsName(t) <=> R!IsName(t)
  BY AlikeFeatures DEF IsName, R!IsName, Alike
<1>9. Stops(t) <=> R!Stops(t)
  BY DEF Stops, R!Stops, Top, R!Top
<1> QED BY <1>1, <1>2, <1>3, <1>4, <1>5, <1>6, <1>7, <1>8, <1>9

\* nodes_ as Reader has it.
Stack == IF pc \in {"finish", "done"} THEN <<Root>> ELSE nodes

LEMMA AlikeWithin ==
    ASSUME pc \notin {"finish", "done"}
    PROVE  Stack = nodes /\ R!Current = Current
BY DEF Stack, R!Current, Current

\* readValue returns.
LEMMA AlikeReturn ==
    ASSUME Alike, Shape, NEW fs \in Seq(FrameSet), NEW ok, pc \notin {"idle", "finish", "done"},
           Len(nodes) = Len(fs) + 1, Return(fs, ok)
    PROVE  R!Return(fs, ok)
<1>1. frames' = fs /\ result' = ok /\ nodes' = Popped(fs) /\ pc' = Continue(fs, ok)
  BY DEF Return
<1>2. R!Continue(fs, ok) = Continue(fs, ok)
  BY DEF Continue, R!Continue
<1>3. Stack = nodes
  BY AlikeWithin
<1>4. Ours /\ ~R!Ours
  BY AlikeOff
<1>5. Stack' = R!Popped(fs)
  <2>1. CASE fs = <<>>
    <3>1. pc' = "finish"
      BY <1>1, <2>1 DEF Continue
    <3>2. Stack' = <<Root>>
      BY <3>1, AlikeTokens DEF Stack
    <3>3. R!Popped(fs) = Stack
      BY <1>4, <2>1 DEF R!Popped, Stack
    <3>4. nodes = <<Root>>
      <4>1. nodes \in Seq(Paths) /\ Len(nodes) = 1
        BY <2>1, ChainLengths DEF Shape, Chain
      <4>2. nodes[1] \in Paths /\ Len(nodes[1]) = 0
        <5>1. 1 \in 1..Len(nodes)
          BY <4>1
        <5>2. nodes[1] \in Paths
          BY <4>1, <5>1
        <5>3. Len(nodes[1]) = 1 - 1
          BY <5>1 DEF Shape, Chain, ChainOf
        <5> QED BY <5>2, <5>3
      <4>3. nodes[1] = Root
        BY <4>2 DEF Paths, Root
      <4> QED BY <4>1, <4>3
    <3> QED BY <1>3, <3>2, <3>3, <3>4
  <2>2. CASE fs # <<>>
    <3>1. pc' \notin {"finish", "done"}
      BY <1>1, <2>2 DEF Continue
    <3>2. Stack' = nodes' /\ nodes' = SubSeq(nodes, 1, Len(nodes) - 1)
      BY <1>1, <2>2, <3>1 DEF Stack, Popped
    <3>3. R!Popped(fs) = SubSeq(Stack, 1, Len(Stack) - 1)
      BY <2>2 DEF R!Popped, Stack
    <3> QED BY <1>3, <3>2, <3>3
  <2> QED BY <2>1, <2>2
<1> QED BY <1>1, <1>2, <1>5 DEF R!Return, Stack

\* Within readValue, what is done with the calls, the Values and the comments.
LEMMA AlikeStack ==
    ASSUME pc \notin {"finish", "done"}, pc' \notin {"finish", "done"}
    PROVE  Stack = nodes /\ Stack' = nodes' /\ R!Current = Current
BY DEF Stack, R!Current, Current

LEMMA AlikeComments ==
    ASSUME Alike
    PROVE  /\ SetLast => R!SetLast
           /\ AttachBefore => R!AttachBefore
<1>1. ~Collect /\ ~R!Collect
  BY AlikeOff
<1>2. SetLast => R!SetLast
  BY <1>1 DEF SetLast, R!SetLast
<1>3. AttachBefore => R!AttachBefore
  BY <1>1 DEF AttachBefore, R!AttachBefore
<1> QED BY <1>2, <1>3

LEMMA AlikeCalls ==
    ASSUME Alike, NEW t, pc \notin {"finish", "done"}
    PROVE  /\ Fail(t) => R!Fail(t)
           /\ \A p : Goto(p) => p \in {"finish", "done"} \/ R!Goto(p)
           /\ \A s : Enter(s) => R!Enter(s)
           /\ Named(t) => R!Named(t)
           /\ SkipComment(t) => R!SkipComment(t)
<1>1. /\ AddComment(t) => R!AddComment(t)
      /\ Read(t) => R!Read(t)
  BY AlikeReading
<1>2. Fail(t) => R!Fail(t)
  BY <1>1, AlikeStack DEF Fail, R!Fail, Stack
<1>3. ASSUME NEW p, Goto(p), p \notin {"finish", "done"}
      PROVE  R!Goto(p)
  BY <1>3, AlikeStack DEF Goto, R!Goto, Stack, comments, R!comments
<1>4. ASSUME NEW s, Enter(s)
      PROVE  R!Enter(s)
  <2>1. /\ tree' = Resolved(tree, Append(Current, s))
        /\ nodes' = Append(nodes, Append(Current, s)) /\ pc' = "value"
        /\ UNCHANGED <<errors, result, comments>>
    BY <1>4 DEF Enter
  <2>2. Stack = nodes /\ Stack' = nodes' /\ R!Current = Current
    BY <2>1, AlikeStack
  <2>3. tree' = R!Resolved(tree, Append(R!Current, s))
    BY <2>1, <2>2, AlikeValues
  <2>4. Stack' = Append(Stack, Append(R!Current, s))
    BY <2>1, <2>2
  <2>5. UNCHANGED R!comments
    BY <2>1 DEF comments, R!comments
  <2> QED BY <2>1, <2>3, <2>4, <2>5 DEF R!Enter, Stack
<1>5. Named(t) => R!Named(t)
  BY AlikeStack DEF Named, R!Named, Stack, comments, R!comments
<1>6. SkipComment(t) => R!SkipComment(t)
  BY <1>1, AlikeStack DEF SkipComment, R!SkipComment, Stack
<1> QED BY <1>2, <1>3, <1>4, <1>5, <1>6

\* The end of a container.
LEMMA AlikeEnd ==
    ASSUME Alike, Shape, NEW ok, pc \in InObject \cup InArray \cup {"recover"}, EndContainer(ok)
    PROVE  R!EndContainer(ok)
<1> DEFINE fs == SubSeq(frames, 1, Len(frames) - 1)
<1>1. /\ Return(fs, ok) /\ SetLast /\ UNCHANGED <<tree, errors, pending, notes>>
  BY DEF EndContainer
<1>2. /\ Len(frames) \in Nat /\ Len(frames) > 0 /\ Len(nodes) = Len(frames)
      /\ frames \in Seq(FrameSet)
  BY InContainer
<1>3. fs \in Seq(FrameSet) /\ Len(fs) = Len(frames) - 1
  BY <1>2, Prefix
<1>4. pc \notin {"idle", "finish", "done"}
  BY DEF InObject, InArray
<1>5. Len(nodes) = Len(fs) + 1
  BY <1>2, <1>3
<1> HIDE DEF fs
<1>6. R!Return(fs, ok)
  BY <1>1, <1>3, <1>4, <1>5, AlikeReturn
<1>7. R!SetLast
  BY <1>1, AlikeComments
<1> QED BY <1>1, <1>6, <1>7 DEF R!EndContainer, fs

\* Every way in which readValue goes on.
LEMMA AlikeValue ==
    ASSUME Alike, Shape, ReadValue
    PROVE  R!ReadValue
<1>1. PICK t \in alphabet :
         \/ BeginContainer(t) \/ DecodeScalar(t) \/ UndecodedScalar(t)
         \/ DroppedNull(t) \/ ValueExpected(t)
         \/ features.allowComments /\ SkipComment(t)
  BY DEF ReadValue
<1>2. pc = "value" /\ Len(nodes) <= features.stackLimit /\ UNCHANGED emptyName
  BY DEF ReadValue
<1>3. /\ frames \in Seq(FrameSet) /\ Len(nodes) = Len(frames) + 1
  BY <1>2, ChainLengths DEF Shape, Chain, Where, Holding
<1>4. Stack = nodes /\ R!Current = Current
  BY <1>2, AlikeWithin
<1>5. /\ Read(t) => R!Read(t)
      /\ Peek(t) => R!Peek(t)
      /\ UNCHANGED seen => UNCHANGED R!seen
  BY AlikeReading
<1>6. \A ok : Return(frames, ok) => R!Return(frames, ok)
  BY <1>2, <1>3, AlikeReturn
<1>7. SetLast => R!SetLast
  BY AlikeComments
<1>8. AttachBefore => R!AttachBefore
  BY AlikeComments
<1>9. /\ [features EXCEPT !.ours = FALSE].allowComments <=> features.allowComments
      /\ [features EXCEPT !.ours = FALSE].allowDroppedNull <=> features.allowDroppedNull
      /\ [features EXCEPT !.ours = FALSE].stackLimit = features.stackLimit
  BY AlikeFeatures DEF Alike
<1>10. /\ R!Scalars = Scalars /\ R!Separators = Separators
       /\ R!Null = Null /\ R!Object = Object /\ R!Array = Array
       /\ \A T, p, v : R!Swapped(T, p, v) = Swapped(T, p, v)
  BY AlikeTokens, AlikeValues
<1>11. CASE BeginContainer(t)
  <2>1. pc' \notin {"finish", "done"} /\ nodes' = nodes
    BY <1>11 DEF BeginContainer
  <2>2. Stack' = Stack
    BY <1>2, <2>1, AlikeStack
  <2>3. R!BeginContainer(t)
    BY <1>4, <1>5, <1>8, <1>10, <1>11, <2>2 DEF BeginContainer, R!BeginContainer, Stack
  <2> QED BY <1>2, <1>4, <1>9, <2>3 DEF R!ReadValue, Stack
<1>12. CASE DecodeScalar(t)
  <2>1. R!DecodeScalar(t)
    BY <1>4, <1>5, <1>6, <1>7, <1>8, <1>10, <1>12 DEF DecodeScalar, R!DecodeScalar
  <2> QED BY <1>2, <1>4, <1>9, <2>1 DEF R!ReadValue, Stack
<1>13. CASE UndecodedScalar(t)
  <2>1. R!UndecodedScalar(t)
    BY <1>5, <1>6, <1>7, <1>8, <1>13 DEF UndecodedScalar, R!UndecodedScalar
  <2> QED BY <1>2, <1>4, <1>9, <2>1 DEF R!ReadValue, Stack
<1>14. CASE DroppedNull(t)
  <2>1. R!DroppedNull(t)
    BY <1>4, <1>5, <1>6, <1>7, <1>8, <1>9, <1>10, <1>14 DEF DroppedNull, R!DroppedNull
  <2> QED BY <1>2, <1>4, <1>9, <2>1 DEF R!ReadValue, Stack
<1>15. CASE ValueExpected(t)
  <2>1. R!ValueExpected(t)
    BY <1>5, <1>6, <1>8, <1>9, <1>10, <1>15 DEF ValueExpected, R!ValueExpected
  <2> QED BY <1>2, <1>4, <1>9, <2>1 DEF R!ReadValue, Stack
<1>16. CASE features.allowComments /\ SkipComment(t)
  <2>1. R!SkipComment(t)
    BY <1>2, <1>16, AlikeCalls
  <2> QED BY <1>2, <1>4, <1>9, <1>16, <2>1 DEF R!ReadValue, Stack
<1> QED BY <1>1, <1>11, <1>12, <1>13, <1>14, <1>15, <1>16

\* readObject: the name of a member, the colon and what follows the member.
LEMMA AlikeName ==
    ASSUME Alike, Shape, OurReadName
    PROVE  R!ReadName
<1>1. pc = "name"
  BY DEF OurReadName
<1>2. PICK t \in alphabet :
          \/ SkipComment(t) /\ UNCHANGED emptyName
          \/ OurCloses(t) /\ Read(t) /\ EndContainer(TRUE) /\ UNCHANGED emptyName
          \/ IsName(t) /\ ~Repeated(t) /\ Read(t) /\ Named(t)
          \/ /\ ~OurCloses(t) /\ t.type # "comment" /\ (IsName(t) => Repeated(t))
             /\ Read(t) /\ Fail(t) /\ UNCHANGED emptyName
  BY DEF OurReadName
<1>3. OurCloses(t) <=> R!Closes(t)
  BY AlikeOff DEF OurCloses, R!Closes, Top, R!Top
<1>4. ~Repeated(t)
  BY AlikeOff DEF Repeated
<1>5. /\ Read(t) => R!Read(t)
      /\ IsName(t) <=> R!IsName(t)
  BY AlikeReading
<1>6. /\ Fail(t) => R!Fail(t)
      /\ Named(t) => R!Named(t)
      /\ SkipComment(t) => R!SkipComment(t)
  BY <1>1, AlikeCalls
<1>7. EndContainer(TRUE) => R!EndContainer(TRUE)
  BY <1>1, AlikeEnd DEF InObject
<1> QED BY <1>1, <1>2, <1>3, <1>4, <1>5, <1>6, <1>7, Zenon DEF R!ReadName

LEMMA AlikeColon ==
    ASSUME Alike, Shape, ReadColon
    PROVE  R!ReadColon
<1>1. pc = "colon" /\ UNCHANGED emptyName
  BY DEF ReadColon
<1>2. PICK t \in alphabet :
          /\ Read(t)
          /\ IF t.type = ":" THEN Enter(<<"m", Top.name>>) /\ UNCHANGED frames ELSE Fail(t)
  BY DEF ReadColon
<1>3. R!Read(t)
  BY <1>2, AlikeReading
<1>4. /\ Fail(t) => R!Fail(t)
      /\ Enter(<<"m", Top.name>>) => R!Enter(<<"m", Top.name>>)
  BY <1>1, AlikeCalls
<1>5. R!Top = Top
  BY DEF Top, R!Top
<1> QED BY <1>1, <1>2, <1>3, <1>4, <1>5 DEF R!ReadColon

LEMMA AlikeComma ==
    ASSUME Alike, Shape, ReadComma
    PROVE  R!ReadComma
<1>1. pc \in {"comma", "after comment"} /\ UNCHANGED emptyName
  BY DEF ReadComma
<1>2. PICK t \in alphabet :
          \/ SkipComment(t)
          \/ t.type = "}" /\ Read(t) /\ EndContainer(TRUE)
          \/ /\ t.type = "," \/ (pc = "after comment" /\ t.type \notin {"}", "comment"})
             /\ Read(t) /\ Goto("name")
          \/ pc = "comma" /\ t.type \notin {",", "}", "comment"} /\ Read(t) /\ Fail(t)
  BY DEF ReadComma
<1>3. Read(t) => R!Read(t)
  BY AlikeReading
<1>4. /\ Fail(t) => R!Fail(t)
      /\ Goto("name") => R!Goto("name")
      /\ SkipComment(t) => R!SkipComment(t)
  BY <1>1, AlikeCalls
<1>5. EndContainer(TRUE) => R!EndContainer(TRUE)
  BY <1>1, AlikeEnd DEF InObject
<1> QED BY <1>1, <1>2, <1>3, <1>4, <1>5, Zenon DEF R!ReadComma

\* readArray: what follows an element, and the head of its loop.  OurReader tests for "]"
\* again where Reader does not, at the end of the document, and goes on as it was.
LEMMA AlikeSeparator ==
    ASSUME Alike, Shape, ReadSeparator
    PROVE  R!ReadSeparator
<1>1. pc = "separator" /\ UNCHANGED emptyName
  BY DEF ReadSeparator
<1>2. PICK t \in alphabet :
          \/ SkipComment(t)
          \/ t.type = "]" /\ Read(t) /\ EndContainer(TRUE)
          \/ t.type = "," /\ Read(t) /\ Goto("element")
          \/ t.type \notin {",", "]", "comment"} /\ Read(t) /\ Fail(t)
  BY DEF ReadSeparator
<1>3. Read(t) => R!Read(t)
  BY AlikeReading
<1>4. /\ Fail(t) => R!Fail(t)
      /\ Goto("element") => R!Goto("element")
      /\ SkipComment(t) => R!SkipComment(t)
  BY <1>1, AlikeCalls
<1>5. EndContainer(TRUE) => R!EndContainer(TRUE)
  BY <1>1, AlikeEnd DEF InArray
<1> QED BY <1>1, <1>2, <1>3, <1>4, <1>5, Zenon DEF R!ReadSeparator

LEMMA AlikeElement ==
    ASSUME Alike, Shape, Looked, ReadElement, UNCHANGED settings
    PROVE  R!FirstElement \/ R!NextElement \/ UNCHANGED vars
<1>1. UNCHANGED emptyName
  BY DEF ReadElement
<1>2. CASE pc = "first"
  <2>1. PICK t \in alphabet :
          \/ t.type = "]" /\ Read(t) /\ EndContainer(TRUE)
          \/ t.type # "]" /\ Peek(t) /\ Goto("element") /\ UNCHANGED seen
    BY <1>2 DEF ReadElement
  <2>2. /\ Read(t) => R!Read(t)
        /\ Peek(t) => R!Peek(t)
        /\ UNCHANGED seen => UNCHANGED R!seen
    BY AlikeReading
  <2>3. Goto("element") => R!Goto("element")
    BY <1>2, AlikeCalls
  <2>4. EndContainer(TRUE) => R!EndContainer(TRUE)
    BY <1>2, AlikeEnd DEF InArray
  <2>5. R!FirstElement
    BY <1>1, <1>2, <2>1, <2>2, <2>3, <2>4, Zenon DEF R!FirstElement
  <2> QED BY <2>5
<1>3. CASE pc = "element" /\ unread = NoToken /\ MayEnd
           /\ \E t \in alphabet :
                \/ t.type = "]" /\ Read(t) /\ EndContainer(TRUE)
                \/ t.type # "]" /\ Peek(t) /\ Goto("element") /\ UNCHANGED seen
  <2>1. PICK t \in alphabet :
          \/ t.type = "]" /\ Read(t) /\ EndContainer(TRUE)
          \/ t.type # "]" /\ Peek(t) /\ Goto("element") /\ UNCHANGED seen
    BY <1>3
  <2>2. Top.index = 0
    BY <1>3, AlikeOff DEF MayEnd
  <2>3. left = 0
    BY <1>3, <2>2 DEF Looked
  <2>4. EndOfStream.type # "]"
    BY DEF EndOfStream, Item
  <2>5. ~(t.type = "]" /\ Read(t))
    BY <1>3, <2>3, <2>4 DEF Read, Take
  <2>6. Peek(t) /\ Goto("element") /\ UNCHANGED seen
    BY <2>1, <2>5
  <2>7. UNCHANGED <<unread, left>>
    BY <1>3, <2>3, <2>6 DEF Peek
  <2>8. UNCHANGED <<pc, frames, nodes, tree, errors, result, comments>>
    BY <1>3, <2>6 DEF Goto
  <2> QED BY <1>1, <2>6, <2>7, <2>8 DEF vars, calls
<1>4. CASE pc = "element" /\ EnterElement
  <2>1. Enter(<<"e", NextIndex>>) /\ UNCHANGED <<left, unread, seen>>
        /\ frames' = [frames EXCEPT ![Len(frames)].index = @ + 1]
    BY <1>4 DEF EnterElement
  <2>2. R!NextIndex = NextIndex
    BY DEF R!NextIndex, NextIndex, R!Top, Top
  <2>3. R!Enter(<<"e", NextIndex>>)
    BY <1>4, <2>1, AlikeCalls
  <2>4. UNCHANGED R!seen
    BY <2>1 DEF seen, R!seen
  <2>5. R!EnterElement
    BY <2>1, <2>2, <2>3, <2>4 DEF R!EnterElement
  <2> QED BY <1>1, <1>4, <2>5 DEF R!NextElement
<1> QED BY <1>2, <1>3, <1>4 DEF ReadElement

\* recoverFromError, and both ends of parse.
LEMMA AlikeRecover ==
    ASSUME Alike, Shape, Recover
    PROVE  R!Recover
<1>1. pc = "recover" /\ UNCHANGED emptyName
  BY DEF Recover
<1>2. PICK t \in alphabet :
          /\ Read(t)
          /\ IF Stops(t) THEN EndContainer(FALSE)
             ELSE AddComment(t) /\ UNCHANGED <<calls, tree, errors, result, lastValue>>
  BY Zenon DEF Recover
<1>3. R!Read(t) /\ (Stops(t) <=> R!Stops(t)) /\ (AddComment(t) => R!AddComment(t))
  BY <1>2, AlikeReading, Zenon
<1>4. EndContainer(FALSE) => R!EndContainer(FALSE)
  BY <1>1, AlikeEnd, Zenon
<1>5. UNCHANGED calls => UNCHANGED R!calls
  BY <1>1, AlikeStack DEF calls, R!calls, Stack
<1> QED BY <1>1, <1>2, <1>3, <1>4, <1>5, Zenon DEF R!Recover

LEMMA AlikeFinish ==
    ASSUME Alike, Shape, OurFinish
    PROVE  R!Finish
<1>1. pc = "finish" /\ UNCHANGED <<frames, nodes, tree, lastValue, docs, emptyName>>
  BY DEF OurFinish
<1>2. PICK t \in alphabet :
          /\ Take(t) /\ Hear(t)
          /\ IF t.type = "comment" /\ features.allowComments
             THEN AddComment(t) /\ UNCHANGED <<pc, errors, result>>
             ELSE /\ pc' = "done"
                  /\ errors' = IF Extra(t) \/ Bare THEN errors + 1 ELSE errors
                  /\ result' = (result /\ ~Extra(t) /\ ~Bare)
                  /\ notes' = IF Collect /\ ~Extra(t) /\ pending # {}
                              THEN Comment(Root, "after", pending) ELSE notes
                  /\ UNCHANGED <<pending, lastHasComment>>
          /\ rfc' = IF features.failIfExtra /\ t.type \notin {"comment", "end"} THEN Reject ELSE rfc
  BY Zenon DEF OurFinish
<1>3. ~Extra(t) /\ ~Collect /\ ~R!Collect /\ rfc' = rfc
  BY <1>2, AlikeOff, Zenon DEF Extra
<1>4. R!Take(t) /\ R!Hear(t) /\ (AddComment(t) => R!AddComment(t))
  BY <1>2, AlikeReading, Zenon
<1>5. Bare <=> R!Bare
  BY AlikeFeatures, AlikeTokens, Zenon DEF Bare, R!Bare, Alike
<1>6. [features EXCEPT !.ours = FALSE].allowComments <=> features.allowComments
  BY AlikeFeatures, Zenon DEF Alike
<1>7. Stack' = Stack
  <2>1. pc' \in {"finish", "done"}
    BY <1>1, <1>2, Zenon
  <2> QED BY <1>1, <2>1 DEF Stack
<1>8. CASE t.type = "comment" /\ features.allowComments
  BY <1>1, <1>2, <1>3, <1>4, <1>6, <1>7, <1>8, Zenon DEF R!Finish, Stack
<1>9. CASE ~(t.type = "comment" /\ features.allowComments)
  <2>1. /\ pc' = "done" /\ errors' = IF R!Bare THEN errors + 1 ELSE errors
        /\ result' = (result /\ ~R!Bare) /\ UNCHANGED <<pending, lastHasComment>>
        /\ notes' = IF R!Collect /\ pending # {} THEN R!Comment(R!Root, "after", pending)
                    ELSE notes
    BY <1>2, <1>3, <1>5, <1>9, Zenon
  <2> QED BY <1>1, <1>3, <1>4, <1>6, <1>7, <1>9, <2>1, Zenon DEF R!Finish, Stack
<1> QED BY <1>8, <1>9

LEMMA AlikeParse ==
    /\ NothingAdded /\ Init => R!Init
    /\ Parse => R!Parse
<1>1. ASSUME Init PROVE R!Init
  <2>1. Setting /\ Stack = <<>> /\ alphabet \in SUBSET AllTokens /\ EndOfStream \in alphabet
    BY <1>1 DEF Init, Setting, Stack
  <2>2. [features EXCEPT !.ours = FALSE] \in R!AllFeatures
    BY <2>1, AlikeFeatures, AlikeTokens, Zenon
  <2>3. /\ alphabet \in SUBSET R!AllTokens /\ R!EndOfStream \in alphabet
        /\ tree = [p \in {R!Root} |-> R!Null] /\ unread = R!NoToken
        /\ lastValue = R!NoValue /\ rfc = R!Reject
    BY <1>1, <2>1, AlikeTokens DEF Init
  <2> QED BY <1>1, <2>1, <2>2, <2>3, Zenon DEF Init, R!Init, Stack
<1>2. ASSUME Parse PROVE R!Parse
  <2>1. Stack' = <<Root>>
    BY <1>2 DEF Parse, Stack
  <2>2. /\ tree' = [p \in {R!Root} |-> R!Null] /\ unread' = R!NoToken
        /\ lastValue' = R!NoValue /\ Stack' = <<R!Root>>
    BY <1>2, <2>1, AlikeTokens DEF Parse
  <2> QED BY <1>2, <2>2, Zenon DEF Parse, R!Parse, Stack
<1> QED BY <1>1, <1>2

LEMMA AlikeExceeded ==
    ASSUME Alike, ExceededStackLimit
    PROVE  R!ExceededStackLimit
<1>1. /\ pc = "value" /\ Len(nodes) > features.stackLimit /\ pc' = "aborted" /\ nodes' = nodes
  BY DEF ExceededStackLimit
<1>2. Stack = nodes /\ Stack' = Stack
  BY <1>1, AlikeStack
<1>3. [features EXCEPT !.ours = FALSE].stackLimit = features.stackLimit
  BY AlikeFeatures DEF Alike
<1> QED BY <1>1, <1>2, <1>3, Zenon
  DEF ExceededStackLimit, R!ExceededStackLimit, Stack, comments, R!comments, seen, R!seen

\* A step of OurReader is one of Reader.
LEMMA AlikeNext ==
    ASSUME Shape, Looked, NothingAdded, [OurNext]_vars
    PROVE  R!Next \/ UNCHANGED R!vars
<1>1. UNCHANGED vars => UNCHANGED R!vars
  BY DEF vars, R!vars, settings, R!settings, calls, R!calls, comments, R!comments, seen, R!seen
<1>2. Alike
  BY DEF Alike, Shape
<1>3. CASE OurNext
  <2>1. UNCHANGED settings /\ UNCHANGED R!settings
    BY <1>3 DEF OurNext, settings, R!settings
  <2>2. \/ Parse \/ ExceededStackLimit \/ ReadValue \/ OurReadName \/ ReadColon \/ ReadComma
        \/ ReadElement \/ ReadSeparator \/ Recover \/ OurFinish
    BY <1>3, Zenon DEF OurNext, Begin, ReadAnyValue, ReadMember, ReadArrayRest, RecoverFromError
  <2>3. R!Parse \/ R!Step \/ UNCHANGED vars
    BY <1>2, <2>1, <2>2, AlikeParse, AlikeExceeded, AlikeValue, AlikeName, AlikeColon,
       AlikeComma, AlikeElement, AlikeSeparator, AlikeRecover, AlikeFinish, Zenon DEF R!Step
  <2> QED BY <1>1, <2>1, <2>3, Zenon DEF R!Next
<1> QED BY <1>1, <1>3

LEMMA LookedNext ==
    ASSUME Shape, Begun, Looked, [AnyNext]_vars
    PROVE  Looked'
<1>1. CASE UNCHANGED vars
  BY <1>1 DEF vars, calls, Looked, Top
<1>2. CASE AnyNext
  <2>1. \/ Parse \/ ExceededStackLimit \/ ElementEntered
        \/ \E t \in alphabet : ValueStep(t) \/ PlainStep(t) \/ Naming(t)
    BY <1>2, StepCases
  <2>2. CASE Parse \/ ExceededStackLimit \/ ElementEntered
    <3>1. pc' \in {"value", "aborted"}
      BY <2>2 DEF Parse, ExceededStackLimit, ElementEntered, EnterElement, Enter
    <3> QED BY <3>1 DEF Looked
  <2>3. ASSUME NEW t \in alphabet, ValueStep(t) \/ Naming(t) PROVE Looked'
    <3>1. pc' # "element"
      BY <2>3 DEF ValueStep, InValue, BeginContainer, DecodeScalar, UndecodedScalar,
           DroppedNull, ValueExpected, SkipComment, Return, Continue, Naming, Named
    <3> QED BY <3>1 DEF Looked
  <2>4. ASSUME NEW t \in alphabet, PlainStep(t) PROVE Looked'
    <3>1. CASE NextRound(t)
      <4>1. pc = "separator" /\ frames' = frames
        BY <3>1 DEF NextRound, Goto
      <4>2. Len(frames) \in 1..Len(frames) /\ Top.kind = "array"
        BY <4>1, InContainer DEF InArray
      <4>3. HasBegun(frames[Len(frames)], emptyName)
        BY <4>1, <4>2 DEF Begun, Starting
      <4>4. Top'.index # 0
        BY <4>1, <4>2, <4>3 DEF HasBegun, Top
      <4> QED BY <4>4 DEF Looked
    <3>2. CASE Peeking(t)
      <4>1. Peek(t)
        BY <3>2 DEF Peeking
      <4>2. \A u \in alphabet : u # NoToken
        BY RealTokens DEF Shape, Setting
      <4>3. unread' # NoToken \/ left' = 0
        BY <4>1, <4>2 DEF Peek
      <4> QED BY <4>3 DEF Looked
    <3>3. CASE ~NextRound(t) /\ ~Peeking(t)
      <4>1. pc' # "element"
        BY <2>4, <3>3 DEF PlainStep, Skipping, SkipComment, Closing, Failing, Fail, NextMember,
             Goto, MemberEntered, Enter, Recovering, GivingUp, Remarking, Ending, EndContainer,
             Return, Continue, calls
      <4> QED BY <4>1 DEF Looked
    <3> QED BY <3>1, <3>2, <3>3
  <2> QED BY <2>1, <2>2, <2>3, <2>4
<1> QED BY <1>1, <1>2

\* With rejectDupKeys_, a Value is given its payload once.
Lasting == \A p \in DOMAIN tree : tree[p] # Null => p \in DOMAIN tree' /\ tree'[p] = tree[p]

LEMMA SwapLasts ==
    ASSUME NEW v, Empty(tree, Current), tree' = Swapped(tree, Current, v)
    PROVE  Lasting
<1>1. /\ \A q : q \in DOMAIN tree' <=> q \in DOMAIN tree /\ ~Below(Current, q)
      /\ \A q \in DOMAIN tree' : tree'[q] = IF q = Current THEN v ELSE tree[q]
  <2> DEFINE c == Current
  <2> DEFINE U == Swapped(tree, c, v)
  <2>1. /\ \A q : q \in DOMAIN U <=> q \in DOMAIN tree /\ ~Below(c, q)
        /\ \A q \in DOMAIN U : U[q] = IF q = c THEN v ELSE tree[q]
    BY SwappedValues
  <2>2. tree' = U
    OBVIOUS
  <2> HIDE DEF U
  <2> QED BY <2>1, <2>2
<1>2. tree[Current] = Null /\ \A q \in DOMAIN tree : ~Below(Current, q)
  BY DEF Empty
<1> QED BY <1>1, <1>2, Zenon DEF Lasting

LEMMA EntryLasts ==
    ASSUME NEW s, Enter(s)
    PROVE  Lasting
<1>1. tree' = Resolved(tree, Append(Current, s))
  BY DEF Enter
<1> DEFINE U == Resolved(tree, Append(Current, s))
<1>2. \A q \in DOMAIN tree : q \in DOMAIN U /\ U[q] = tree[q]
  BY ResolvedValues
<1>3. tree' = U
  BY <1>1
<1> HIDE DEF U
<1> QED BY <1>2, <1>3, Zenon DEF Lasting

LEMMA ValuesLast ==
    ASSUME Fresh, NoRepeats, pc # "done", [AnyNext]_vars
    PROVE  Lasting
<1>0. tree' = tree => Lasting
  BY Zenon DEF Lasting
<1>1. CASE UNCHANGED vars
  BY <1>0, <1>1 DEF vars
<1>2. CASE AnyNext
  <2>1. \/ Parse \/ ExceededStackLimit \/ ElementEntered
        \/ \E t \in alphabet : ValueStep(t) \/ PlainStep(t) \/ Naming(t)
    BY <1>2, StepCases
  <2>2. CASE Parse
    <3>1. tree = [p \in {Root} |-> Null]
      BY <2>2 DEF Parse, Fresh
    <3>2. \A p \in DOMAIN tree : tree[p] = Null
      BY <3>1, Zenon
    <3> QED BY <3>2, Zenon DEF Lasting
  <2>3. CASE ExceededStackLimit
    BY <1>0, <2>3 DEF ExceededStackLimit
  <2>4. CASE ElementEntered
    BY <2>4, EntryLasts DEF ElementEntered, EnterElement
  <2>5. ASSUME NEW t \in alphabet, ValueStep(t) PROVE Lasting
    <3>1. Empty(tree, Current)
      BY <2>5 DEF ValueStep, InValue, Fresh
    <3>2. CASE tree' = tree
      BY <1>0, <3>2
    <3>3. CASE tree' # tree
      <4>1. \E v : tree' = Swapped(tree, Current, v)
        BY <2>5, <3>3, Zenon DEF ValueStep, BeginContainer, DecodeScalar, UndecodedScalar,
             DroppedNull, ValueExpected, SkipComment
      <4> QED BY <3>1, <4>1, SwapLasts, Zenon
    <3> QED BY <3>2, <3>3
  <2>6. ASSUME NEW t \in alphabet, PlainStep(t) \/ Naming(t) PROVE Lasting
    <3>1. CASE MemberEntered(t)
      BY <3>1, EntryLasts, Zenon DEF MemberEntered
    <3>2. CASE ~MemberEntered(t)
      <4>1. tree' = tree
        BY <2>6, <3>2, Zenon DEF PlainStep, Skipping, SkipComment, Closing, Failing, Fail,
             NextMember, NextRound, Peeking, Goto, Recovering, GivingUp, Remarking, Ending,
             EndContainer, Naming, Named
      <4> QED BY <1>0, <4>1
    <3> QED BY <3>1, <3>2
  <2> QED BY <2>1, <2>2, <2>3, <2>4, <2>5, <2>6
<1> QED BY <1>1, <1>2

\* What a step of OurReader is, and leaves.
LEMMA StepAgrees ==
    ASSUME Shape, Looked, Fresh, [AnyNext]_vars
    PROVE  [/\ NothingAdded => R!Next \/ UNCHANGED R!vars
            /\ Ours /\ features.rejectDupKeys /\ pc # "done" =>
                  \A p \in DOMAIN tree :
                     tree[p] # Null => p \in DOMAIN tree' /\ tree'[p] = tree[p]]_vars
<1>1. NothingAdded => R!Next \/ UNCHANGED R!vars
  BY AlikeNext, Zenon DEF NothingAdded, AnyNext
<1>2. Ours /\ features.rejectDupKeys /\ pc # "done" =>
         \A p \in DOMAIN tree : tree[p] # Null => p \in DOMAIN tree' /\ tree'[p] = tree[p]
  BY ValuesLast, Zenon DEF NoRepeats, Lasting
<1> QED BY <1>1, <1>2, Zenon

\* While the features that OurReader adds are off it takes the steps of Reader, although it
\* tests for "]" before every element and pops the root; and with rejectDupKeys_ no step of
\* it changes or destroys a Value that has been read: for every choice of the other features
\* and documents of every length and depth.
THEOREM ReadersAgree ==
    Spec \/ OurSpec => ImplementsReader
<1> DEFINE J == Begun /\ Looked /\ Fresh
<1>1. Init => J /\ (NothingAdded => R!Init)
  <2> SUFFICES ASSUME Init PROVE J /\ (NothingAdded => R!Init)
    OBVIOUS
  <2>1. pc = "idle" /\ frames = <<>> /\ tree = [p \in {Root} |-> Null]
    BY DEF Init
  <2>2. Len(frames) = 0
    BY <2>1
  <2>3. Begun
    BY <2>1, <2>2 DEF Begun
  <2>4. Looked /\ Fresh
    BY <2>1 DEF Looked, Fresh
  <2>5. NothingAdded => R!Init
    BY AlikeParse
  <2> QED BY <2>3, <2>4, <2>5
<1>2. Shape /\ Typed /\ J /\ [AnyNext]_vars => J'
  BY BegunNext, LookedNext, FreshNext
<1>3. Shape /\ Typed /\ J /\ [AnyNext]_vars =>
         [/\ NothingAdded => R!Next \/ UNCHANGED R!vars
          /\ Ours /\ features.rejectDupKeys /\ pc # "done" =>
                \A p \in DOMAIN tree :
                   tree[p] # Null => p \in DOMAIN tree' /\ tree'[p] = tree[p]]_vars
  BY StepAgrees
<1>4. AnySpec => [](Shape /\ Typed)
  BY ShapeKept
<1> HIDE DEF J
<1>5. AnySpec => ImplementsReader
  BY <1>1, <1>2, <1>3, <1>4, PTL DEF AnySpec, ImplementsReader
<1> QED BY <1>5, EitherReader
==============================================================================
