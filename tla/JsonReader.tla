------------------------------ MODULE JsonReader ------------------------------
(***************************************************************************)
(* Json::Reader, with which the Firebase client reads every response: the   *)
(* functions shared with OurReader, and its own readObject, readArray and   *)
(* end of parse.                                                            *)
(***************************************************************************)
EXTENDS JsonDescent

\* The } of an empty object: the name of the member before is empty.
Closes_AfterComma(t) == t.type = "}"

Closes(t) == t.type = "}" /\ Top.name = ""

\* A member name, or the } of an empty object.
ReadName ==
    /\ pc = "name"
    /\ \E t \in alphabet :
          \/ SkipComment(t) /\ UNCHANGED emptyName
          \/ Closes(t) /\ Read(t) /\ EndContainer(TRUE) /\ UNCHANGED emptyName
          \/ IsName(t) /\ Read(t) /\ Named(t)
          \/ /\ ~Closes(t) /\ ~IsName(t) /\ t.type # "comment"
             /\ Read(t) /\ Fail(t) /\ UNCHANGED emptyName

\* skipSpaces and the test for an empty array, once.
FirstElement ==
    /\ pc = "first"
    /\ \E t \in alphabet :
          \/ t.type = "]" /\ Read(t) /\ EndContainer(TRUE)
          \/ t.type # "]" /\ Peek(t) /\ Goto("element") /\ UNCHANGED seen
    /\ UNCHANGED emptyName

NextElement == pc = "element" /\ EnterElement /\ UNCHANGED emptyName

\* parse after readValue.
Finish ==
    /\ pc = "finish"
    /\ \E t \in alphabet :
          /\ Take(t) /\ Hear(t)
          /\ IF t.type = "comment" /\ features.allowComments
             THEN AddComment(t) /\ UNCHANGED <<pc, errors, result>>
             ELSE /\ pc' = "done"
                  /\ errors' = IF Bare THEN errors + 1 ELSE errors
                  /\ result' = (result /\ ~Bare)
                  /\ notes' = IF Collect /\ pending # {} THEN Comment(Root, "after", pending)
                              ELSE notes
                  /\ UNCHANGED <<pending, lastHasComment>>
    /\ UNCHANGED <<frames, nodes, tree, lastValue, docs, rfc, emptyName>>

Step == \/ ExceededStackLimit \/ ReadValue \/ ReadName \/ ReadColon \/ ReadComma
        \/ FirstElement \/ NextElement \/ ReadSeparator \/ Recover \/ Finish

Next == (Parse \/ Step) /\ UNCHANGED settings

Spec == Init /\ ~Ours /\ [][Next]_vars

------------------------------------------------------------------------------
(* Properties *)

\* Of the documents without comments and without empty member names, parse accepts
\* those that begin with a JSON text of RFC 8259, and no others.
AcceptsText ==
    /\ pc = "done" /\ heard = 0 /\ ~emptyName
    /\ ~features.allowDroppedNull /\ ~features.allowNumericKeys
    => (result <=> rfc = <<>> /\ (features.strictRoot => tree[Root] \in {Object, Array}))

\* Every parse ends: recovery stops at the end of the document, in every container.
DocumentEnds == pc = "value" ~> pc \in {"done", "aborted"}
==============================================================================
