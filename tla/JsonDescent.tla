----------------------------- MODULE JsonDescent ------------------------------
(***************************************************************************)
(* The functions that Json::Reader and Json::OurReader have in common, word *)
(* for word or up to one flag (json_reader.cpp): a recursive descent over   *)
(* tokens that fills a tree of Values through the stack nodes_ and, after   *)
(* an error, skips to the end of each container it is in.  The document is  *)
(* any sequence of tokens, chosen as it is read.                            *)
(***************************************************************************)
EXTENDS JsonGrammar

CONSTANTS
    MaxTokens,          \* bound: tokens of a document
    MaxDocs             \* bound: documents read with one reader

ASSUME DescentAssumption == MaxTokens \in Nat /\ MaxDocs \in Nat

VARIABLES
    (* how the reader was made; no step changes these *)
    features,   \* its class, features_ and the arguments of parse
    alphabet,   \* tokens that the documents may hold
    (* the reader *)
    pc,         \* where the innermost active function is
    frames,     \* the call stack: every readObject and readArray that is active
    nodes,      \* nodes_
    tree,       \* the Values under root
    left,       \* tokens between current_ and end_
    unread,     \* a token that was looked at or put back
    errors,     \* size of errors_
    result,     \* what readValue and then parse return
    pending,    \* commentsBefore_, a set of comments
    lastValue,  \* lastValue_ (lastValueEnd_ is set with it)
    lastHasComment,     \* lastValueHasAComment_, of OurReader
    notes,      \* the comments of the Values
    (* observers, read by the properties only *)
    docs,       \* documents begun
    rfc,        \* what RFC 8259 still expects
    heard,      \* comments read
    emptyName   \* was there a member with an empty name

calls == <<pc, frames, nodes>>
comments == <<pending, lastValue, lastHasComment, notes>>
seen == <<docs, rfc, heard>>
settings == <<features, alphabet>>
vars == <<settings, calls, tree, left, unread, errors, result, comments, seen, emptyName>>

\* Features and OurFeatures; allowTrailingCommas, rejectDupKeys and failIfExtra are those
\* of OurReader alone, and Reader has the constant stackLimit_g for stackLimit_.
AllFeatures ==
    [ours : BOOLEAN, collectComments : BOOLEAN, allowComments : BOOLEAN, strictRoot : BOOLEAN,
     allowDroppedNull : BOOLEAN, allowNumericKeys : BOOLEAN, allowTrailingCommas : BOOLEAN,
     rejectDupKeys : BOOLEAN, failIfExtra : BOOLEAN, stackLimit : Nat]

Ours == features.ours
Collect == features.collectComments /\ features.allowComments
Top == frames[Len(frames)]
Current == nodes[Len(nodes)]

Init ==
    /\ features \in AllFeatures /\ alphabet \in SUBSET AllTokens /\ EndOfStream \in alphabet
    /\ pc = "idle" /\ frames = <<>> /\ nodes = <<>>
    /\ tree = [p \in {Root} |-> Null]
    /\ left = 0 /\ unread = NoToken /\ errors = 0 /\ result = FALSE
    /\ pending = {} /\ lastValue = NoValue /\ lastHasComment = FALSE /\ notes = {}
    /\ docs = 0 /\ rfc = Reject /\ heard = 0 /\ emptyName = FALSE

\* parse up to readValue, into a new Value.
Parse ==
    /\ pc \in {"idle", "done"} /\ docs < MaxDocs
    /\ pc' = "value" /\ frames' = <<>> /\ nodes' = <<Root>>
    /\ tree' = [p \in {Root} |-> Null]
    /\ left' \in 0..MaxTokens /\ unread' = NoToken /\ errors' = 0
    /\ pending' = {} /\ lastValue' = NoValue /\ notes' = {}
    /\ docs' = docs + 1 /\ rfc' = <<"value">> /\ heard' = 0 /\ emptyName' = FALSE
    /\ UNCHANGED <<result, lastHasComment>>

------------------------------------------------------------------------------
(* Tokens and comments *)

\* readToken: the token that was put back, or the next one of the document.
Take(t) ==
    IF unread # NoToken THEN t = unread /\ unread' = NoToken /\ UNCHANGED left
    ELSE /\ UNCHANGED unread
         /\ IF left = 0 THEN t = EndOfStream /\ UNCHANGED left
            ELSE t \in alphabet /\ left' = left - 1

\* A token that is looked at and left in the document.
Peek(t) ==
    IF unread # NoToken THEN t = unread /\ UNCHANGED <<unread, left>>
    ELSE IF left = 0 THEN t = EndOfStream /\ UNCHANGED <<unread, left>>
    ELSE t \in alphabet /\ unread' = t /\ left' = left - 1

Hear(t) ==
    heard' = IF t.type # "comment" THEN heard ELSE IF Collect THEN heard + 1 ELSE 1

Read(t) == Take(t) /\ Hear(t) /\ rfc' = Expected(rfc, t) /\ UNCHANGED docs

\* setComment
Comment(at, slot, ids) ==
    {n \in notes : ~(n.at = at /\ n.slot = slot)}
        \cup {[at |-> at, slot |-> slot, id |-> i] : i \in ids}

\* Does a comment belong to the last value?  For OurReader, only the first one does.
OnItsLine(t) == t.text = "same line" /\ lastValue # NoValue /\ ~lastHasComment

\* readComment and addComment, when the token is a comment.
AddComment(t) ==
    IF ~Collect \/ t.type # "comment" THEN UNCHANGED <<pending, notes, lastHasComment>>
    ELSE IF OnItsLine(t)
    THEN /\ notes' = Comment(lastValue, "same line", {heard + 1})
         /\ lastHasComment' = Ours /\ UNCHANGED pending
    ELSE pending' = pending \cup {heard + 1} /\ UNCHANGED <<notes, lastHasComment>>

------------------------------------------------------------------------------
(* readValue *)

\* nodes_.pop() after a readValue, with fs active around it: Reader keeps the root.
Popped_Never(fs) == nodes

Popped(fs) == IF fs = <<>> /\ ~Ours THEN nodes ELSE SubSeq(nodes, 1, Len(nodes) - 1)

\* Where the caller goes on.
Continue(fs, ok) ==
    IF fs = <<>> THEN "finish"
    ELSE IF ~ok THEN "recover"
    ELSE IF fs[Len(fs)].kind = "object" THEN "comma" ELSE "separator"

Return(fs, ok) ==
    frames' = fs /\ result' = ok /\ nodes' = Popped(fs) /\ pc' = Continue(fs, ok)

\* The end of readValue: the value is the one that takes a comment on its line.
SetLast ==
    IF Collect THEN lastValue' = Current /\ lastHasComment' = FALSE
    ELSE UNCHANGED <<lastValue, lastHasComment>>

\* The comments before a value become its own; those of Values that the payload held
\* are destroyed with it.
AttachBefore ==
    LET ns == IF Collect /\ pending # {} THEN Comment(Current, "before", pending) ELSE notes
    IN  /\ notes' = {n \in ns : n.at \in DOMAIN tree'}
        /\ pending' = IF Collect THEN {} ELSE pending

Separators == {",", "}", "]"}

\* throwRuntimeError, which aborts in a build without exceptions.
ExceededStackLimit ==
    /\ pc = "value" /\ Len(nodes) > features.stackLimit
    /\ pc' = "aborted"
    /\ UNCHANGED <<frames, nodes, tree, left, unread, errors, result, comments, seen, emptyName>>

BeginContainer(t) ==
    /\ t.type \in {"{", "["} /\ Read(t)
    /\ tree' = Swapped(tree, Current, IF t.type = "{" THEN Object ELSE Array)
    /\ frames' = Append(frames, [kind |-> IF t.type = "{" THEN "object" ELSE "array",
                                 name |-> "", index |-> 0])
    /\ pc' = IF t.type = "{" THEN "name" ELSE "first"
    /\ AttachBefore
    /\ UNCHANGED <<nodes, errors, result, lastValue, lastHasComment>>

DecodeScalar(t) ==
    /\ t.type \in Scalars /\ Read(t)
    /\ tree' = Swapped(tree, Current, t)
    /\ Return(frames, TRUE) /\ AttachBefore /\ SetLast /\ UNCHANGED errors

\* decodeString or decodeNumber has added an error.
UndecodedScalar(t) ==
    /\ t.type \in {"badString", "badNumber"} /\ Read(t)
    /\ tree' = tree /\ errors' = errors + 1
    /\ Return(frames, FALSE) /\ AttachBefore /\ SetLast

\* "Un-read" the separator; the value is null.
DroppedNull(t) ==
    /\ t.type \in Separators /\ features.allowDroppedNull /\ Peek(t) /\ UNCHANGED seen
    /\ tree' = Swapped(tree, Current, Null)
    /\ Return(frames, TRUE) /\ AttachBefore /\ SetLast /\ UNCHANGED errors

\* The default case, which leaves lastValue_ as it is.
ValueExpected(t) ==
    /\ \/ t.type \in {":", "error", "end"}
       \/ t.type \in Separators /\ ~features.allowDroppedNull
       \/ t.type = "comment" /\ ~features.allowComments
    /\ Read(t)
    /\ tree' = tree /\ errors' = errors + 1
    /\ Return(frames, FALSE) /\ AttachBefore
    /\ UNCHANGED <<lastValue, lastHasComment>>

\* A comment token is passed over; "after comment" remembers that one was.
SkipComment(t) ==
    /\ t.type = "comment" /\ Read(t) /\ AddComment(t)
    /\ pc' = IF pc = "comma" THEN "after comment" ELSE pc
    /\ UNCHANGED <<frames, nodes, tree, errors, result, lastValue>>

ReadValue ==
    /\ pc = "value" /\ Len(nodes) <= features.stackLimit
    /\ \E t \in alphabet :
          \/ BeginContainer(t) \/ DecodeScalar(t) \/ UndecodedScalar(t)
          \/ DroppedNull(t) \/ ValueExpected(t)
          \/ features.allowComments /\ SkipComment(t)
    /\ UNCHANGED emptyName

------------------------------------------------------------------------------
(* readObject, readArray and recoverFromError *)

\* The container is complete, or given up: readValue returns for it.
EndContainer_KeepsLast(ok) ==
    /\ Return(SubSeq(frames, 1, Len(frames) - 1), ok)
    /\ UNCHANGED <<tree, errors, comments>>

EndContainer(ok) ==
    /\ Return(SubSeq(frames, 1, Len(frames) - 1), ok) /\ SetLast
    /\ UNCHANGED <<tree, errors, pending, notes>>

\* addErrorAndRecover
Fail(t) ==
    /\ errors' = errors + 1 /\ pc' = "recover"
    /\ AddComment(t)
    /\ UNCHANGED <<frames, nodes, tree, result, lastValue>>

Goto(p) ==
    pc' = p /\ UNCHANGED <<frames, nodes, tree, errors, result, comments>>

\* currentValue()[step], pushed for the readValue that follows.
Enter(step) ==
    /\ tree' = Resolved(tree, Append(Current, step))
    /\ nodes' = Append(nodes, Append(Current, step))
    /\ pc' = "value"
    /\ UNCHANGED <<errors, result, comments>>

IsName(t) == t.type = "string" \/ (t.type = "number" /\ features.allowNumericKeys)

Named(t) ==
    /\ frames' = [frames EXCEPT ![Len(frames)].name = t.text]
    /\ pc' = "colon"
    /\ emptyName' = (emptyName \/ t.text = "")
    /\ UNCHANGED <<nodes, tree, errors, result, comments>>

ReadColon ==
    /\ pc = "colon"
    /\ \E t \in alphabet :
          /\ Read(t)
          /\ IF t.type = ":" THEN Enter(<<"m", Top.name>>) /\ UNCHANGED frames ELSE Fail(t)
    /\ UNCHANGED emptyName

\* After a member; once a comment has followed it, only "}" is told from other tokens.
ReadComma ==
    /\ pc \in {"comma", "after comment"}
    /\ \E t \in alphabet :
          \/ SkipComment(t)
          \/ t.type = "}" /\ Read(t) /\ EndContainer(TRUE)
          \/ /\ t.type = "," \/ (pc = "after comment" /\ t.type \notin {"}", "comment"})
             /\ Read(t) /\ Goto("name")
          \/ pc = "comma" /\ t.type \notin {",", "}", "comment"} /\ Read(t) /\ Fail(t)
    /\ UNCHANGED emptyName

NextIndex == Top.index

EnterElement ==
    /\ Enter(<<"e", NextIndex>>)
    /\ frames' = [frames EXCEPT ![Len(frames)].index = @ + 1]
    /\ UNCHANGED <<left, unread, seen>>

ReadSeparator ==
    /\ pc = "separator"
    /\ \E t \in alphabet :
          \/ SkipComment(t)
          \/ t.type = "]" /\ Read(t) /\ EndContainer(TRUE)
          \/ t.type = "," /\ Read(t) /\ Goto("element")
          \/ t.type \notin {",", "]", "comment"} /\ Read(t) /\ Fail(t)
    /\ UNCHANGED emptyName

\* Where recovery stops: at the end of the container or of the document.
Stops_AtClosing(t) == t.type = IF Top.kind = "object" THEN "}" ELSE "]"

Stops(t) == t.type \in {"end", IF Top.kind = "object" THEN "}" ELSE "]"}

\* recoverFromError, one token; errors of the tokens themselves are discarded.
Recover ==
    /\ pc = "recover"
    /\ \E t \in alphabet :
          /\ Read(t)
          /\ IF Stops(t) THEN EndContainer(FALSE)
             ELSE AddComment(t) /\ UNCHANGED <<calls, tree, errors, result, lastValue>>
    /\ UNCHANGED emptyName

Bare == features.strictRoot /\ tree[Root] \notin {Object, Array}

------------------------------------------------------------------------------
(* Properties of both readers *)

Places == {"idle", "value", "name", "colon", "comma", "after comment", "first", "element",
           "separator", "recover", "finish", "done", "aborted"}

TypeOK ==
    /\ pc \in Places
    /\ \A i \in DOMAIN frames : /\ frames[i].kind \in {"object", "array"}
                                /\ frames[i].index \in Nat
    /\ \A i \in DOMAIN nodes : nodes[i] \in DOMAIN tree
    /\ left \in 0..MaxTokens /\ unread \in alphabet \cup {NoToken}
    /\ errors \in Nat /\ result \in BOOLEAN
    /\ pending \subseteq 1..heard /\ {n.id : n \in notes} \subseteq 1..heard

\* The places at which nodes_ has a Value whose readValue has not returned, or the root
\* that Reader leaves on it.
Holding == {"value", "aborted"} \cup IF Ours THEN {} ELSE {"finish", "done"}

\* nodes_ is the path from the root to the Value being read, through exactly the
\* containers whose readObject or readArray is active, each still of its kind; the
\* stack is never longer than the stack limit + 1, and parse returns with the root on
\* it, or with nothing in OurReader (comment of readValue: "nodes_.push() just before
\* and nodes_.pop)() just after").
StackIsPath ==
    pc # "idle" =>
        /\ Len(nodes) = IF pc \in Holding THEN Len(frames) + 1 ELSE Len(frames)
        /\ Len(nodes) <= features.stackLimit + 1
        /\ Len(nodes) > 0 => nodes[1] = Root
        /\ \A i \in 1..(Len(nodes) - 1) : Parent(nodes[i + 1]) = nodes[i]
        /\ \A i \in 1..Len(frames) : tree[nodes[i]] = Item(frames[i].kind, "")

\* The stack nodes_ of either reader is the path to the Value being read.  Whatever was
\* read, and wherever an error stopped it, the Value given to parse is a tree whose
\* members are in objects and whose elements are numbered without gaps: the client uses
\* it without asking what parse returned.
OnThePath == TypeOK /\ StackIsPath /\ WellFormed(tree)

\* parse returns false exactly when an error is recorded: recovery discards only its
\* own errors, and no caller of a failed readValue goes on as if it had succeeded.
Reported == pc = "done" => (result <=> errors = 0)

\* lastValue_, through which a comment on the same line is stored, points to a Value
\* that still exists, although a repeated member name destroys what it held before.
LastValueAlive == lastValue \in DOMAIN tree \cup {NoValue}
==============================================================================
