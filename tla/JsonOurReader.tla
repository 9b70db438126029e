---------------------------- MODULE JsonOurReader -----------------------------
(***************************************************************************)
(* Json::OurReader, the reader behind CharReaderBuilder: trailing commas, a *)
(* ban on repeated names and a ban on text after the value.  With these off *)
(* and comments not collected it is to do what Reader does.                 *)
(***************************************************************************)
EXTENDS JsonDescent

\* isMember(name)
Repeated(t) == features.rejectDupKeys /\ Append(Current, <<"m", t.text>>) \in DOMAIN tree

\* The } of an empty object, or after a trailing comma.
OurCloses_AfterComma(t) == t.type = "}"

OurCloses(t) == t.type = "}" /\ (Top.name = "" \/ features.allowTrailingCommas)

OurReadName ==
    /\ pc = "name"
    /\ \E t \in alphabet :
          \/ SkipComment(t) /\ UNCHANGED emptyName
          \/ OurCloses(t) /\ Read(t) /\ EndContainer(TRUE) /\ UNCHANGED emptyName
          \/ IsName(t) /\ ~Repeated(t) /\ Read(t) /\ Named(t)
          \/ /\ ~OurCloses(t) /\ t.type # "comment" /\ (IsName(t) => Repeated(t))
             /\ Read(t) /\ Fail(t) /\ UNCHANGED emptyName

\* May a "]" stand where an element is expected?
MayEnd == Top.index = 0 \/ (features.allowTrailingCommas /\ ~features.allowDroppedNull)

\* The head of the loop of readArray: each round begins with the test for "]".
ReadElement ==
    /\ \/ /\ pc = "first" \/ (pc = "element" /\ unread = NoToken /\ MayEnd)
          /\ \E t \in alphabet :
                \/ t.type = "]" /\ Read(t) /\ EndContainer(TRUE)
                \/ t.type # "]" /\ Peek(t) /\ Goto("element") /\ UNCHANGED seen
       \/ pc = "element" /\ (unread # NoToken \/ left = 0 \/ ~MayEnd) /\ EnterElement
    /\ UNCHANGED emptyName

\* failIfExtra_: the token after the value is not the end of the document.
Extra(t) == features.failIfExtra /\ t.type # "end"

\* parse after readValue.
OurFinish ==
    /\ pc = "finish"
    /\ \E t \in alphabet :
          /\ Take(t) /\ Hear(t)
          /\ IF t.type = "comment" /\ features.allowComments
             THEN AddComment(t) /\ UNCHANGED <<pc, errors, result>>
             ELSE /\ pc' = "done"
                  /\ errors' = IF Extra(t) \/ Bare THEN errors + 1 ELSE errors
                  /\ result' = (result /\ ~Extra(t) /\ ~Bare)
                  /\ notes' = IF Collect /\ ~Extra(t) /\ pending # {}
                              THEN Comment(Root, "after", pending) ELSE notes
                  /\ UNCHANGED <<pending, lastHasComment>>
          /\ rfc' = IF features.failIfExtra /\ t.type \notin {"comment", "end"} THEN Reject ELSE rfc
    /\ UNCHANGED <<frames, nodes, tree, lastValue, docs, emptyName>>

\* The functions that read as those of Reader do.
Begin == Parse
ReadAnyValue == ExceededStackLimit \/ ReadValue
ReadMember == ReadColon \/ ReadComma
ReadArrayRest == ReadSeparator
RecoverFromError == Recover

OurNext ==
    /\ \/ Begin \/ ReadAnyValue \/ OurReadName \/ ReadMember \/ ReadElement
       \/ ReadArrayRest \/ RecoverFromError \/ OurFinish
    /\ UNCHANGED settings

OurSpec == Init /\ Ours /\ [][OurNext]_vars

------------------------------------------------------------------------------
(* Properties *)

\* An accepted document, comments and empty names aside, is one JSON text unless a feature
\* allows more: what OurFeatures::strictMode is for.
OneText ==
    /\ pc = "done" /\ result /\ heard = 0 /\ ~emptyName
    /\ ~features.allowDroppedNull /\ ~features.allowNumericKeys
    /\ ~features.allowTrailingCommas
    => rfc = <<>>

\* Every comment of an accepted document is kept, at one place, for the writer.
CommentsCollected ==
    pc = "done" /\ result /\ Collect /\ features.rejectDupKeys =>
        /\ {n.id : n \in notes} = 1..heard
        /\ \A n, m \in notes : n.id = m.id => n = m
==============================================================================
