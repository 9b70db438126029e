------------------------------ MODULE JsonWriter ------------------------------
(***************************************************************************)
(* The writers of jsoncpp (json_writer.cpp): FastWriter, and the three that *)
(* indent and write comments, StyledWriter, StyledStreamWriter and          *)
(* BuiltStyledStreamWriter.  A document is a sequence of tokens, in which   *)
(* "nl" is a newline, "sp" blanks, "line" and "block" the two comments, and *)
(* "lineb" a line comment whose last character is a blank.  The recursion   *)
(* of writeValue is a list of what is still to be done.                     *)
(***************************************************************************)
EXTENDS Integers, Sequences, SequencesExt

CONSTANTS
    Writer,         \* "StyledWriter", "StyledStreamWriter" or "BuiltStyledStreamWriter"
    Indents,        \* BuiltStyledStreamWriter: is indentation_ not empty?
    AllComments,    \* BuiltStyledStreamWriter: commentStyle is All, not None
    Comments,       \* the comments values have: "line", "lineb", "block" or "lines", two lines
    RightMargin,    \* rightMargin_
    MaxKids         \* bound on the size of a container

VARIABLES
    value,      \* the Value written
    w,          \* the writer: document_, indentString_ (its depth), indented_, childValues_
    todo        \* what is still to be done, in order

vars == <<value, w, todo>>

Styled == Writer = "StyledWriter"
Built == Writer = "BuiltStyledStreamWriter"

------------------------------------------------------------------------------
(* Values and their comments *)

None == <<>>
TextOf(c) == IF c = "lines" THEN <<"line", "nl", "line">> ELSE <<c>>
NoComments == [before |-> None, same |-> None, after |-> None]

\* At most one comment on a value
Commented == {NoComments} \cup {[NoComments EXCEPT ![p] = c] : p \in {"before", "same", "after"}, c \in {TextOf(c) : c \in Comments}}

Node(type, kids, comments) == [type |-> type, kids |-> kids, comments |-> comments]

Leaves == {Node(t, <<>>, c) : t \in {"text", "array", "object"}, c \in Commented}

Containers(kids, commented) ==
    {Node(t, ks, c) : t \in {"array", "object"}, c \in commented,
                      ks \in UNION {[1..n -> kids] : n \in 1..MaxKids}}

Plain == {v \in Leaves : v.comments = NoComments}

Flat == Containers(Leaves, {NoComments}) \cup Containers(Plain, Commented)

\* A container within a container, with a comment on one value at most, and what follows or
\* precedes it
Inner == Plain \cup Containers(Plain, {NoComments}) \cup {v \in Flat : Len(v.kids) = 1}
Beside == Plain \cup {v \in Containers(Plain, {NoComments}) : Len(v.kids) = 1}

Nested ==
    {Node(t, ks, NoComments) :
        t \in {"array", "object"},
        ks \in {<<v>> : v \in Inner} \cup {<<v, u>> : v \in Inner, u \in Beside}
                   \cup {<<u, v>> : u \in Beside, v \in Inner}}

Values == Leaves \cup Flat \cup Nested

\* FastWriter::writeValue: no blanks, no comments
RECURSIVE FastWrite(_)
FastWrite(v) ==
    LET kid(i) == (IF i > 1 THEN <<",">> ELSE <<>>) \o
                  (IF v.type = "object" THEN <<"name", ":">> ELSE <<>>) \o FastWrite(v.kids[i])
        kids == FlattenSeq([i \in 1..Len(v.kids) |-> kid(i)])
    IN  CASE v.type = "text" -> <<"text">>
          [] v.type = "array" -> <<"[">> \o kids \o <<"]">>
          [] v.type = "object" -> <<"{">> \o kids \o <<"}">>

------------------------------------------------------------------------------
(* Writing, as functions from a writer to a writer *)

Emit(x, tokens) == [x EXCEPT !.doc = @ \o tokens]

IndentString(x) == IF x.depth > 0 THEN <<"sp">> ELSE <<>>

\* The last character of a document
EndsInBlank(doc) == doc # <<>> /\ Last(doc) \in {"sp", "lineb"}
EndsInNewline(doc) == doc = <<>> \/ Last(doc) = "nl"

\* StyledWriter::writeIndent looks at what was written
StyledIndent(x) ==
    IF EndsInBlank(x.doc) THEN x
    ELSE Emit(x, (IF EndsInNewline(x.doc) THEN <<>> ELSE <<"nl">>) \o IndentString(x))

StreamIndent(x) == Emit(x, <<"nl">> \o IndentString(x))

\* "In this case, drop newlines too."
BuiltIndent(x) == IF Indents THEN Emit(x, <<"nl">> \o IndentString(x)) ELSE x

WriteIndent(x) == IF Styled THEN StyledIndent(x) ELSE IF Built THEN BuiltIndent(x) ELSE StreamIndent(x)

\* The stream writers rely on indented_, which StyledWriter does not have
IndentUnlessDone(x) == IF ~Styled /\ x.indented THEN x ELSE WriteIndent(x)

WriteWithIndent(x, tokens) == [Emit(IndentUnlessDone(x), tokens) EXCEPT !.indented = FALSE]

\* A comment, its further lines indented
Lines(x, comment) ==
    FlattenSeq([i \in 1..Len(comment) |->
        IF comment[i] = "nl" /\ i < Len(comment) THEN <<"nl">> \o IndentString(x) ELSE <<comment[i]>>])

\* writeCommentBeforeValue
StyledCommentBefore(x, c) == Emit(StyledIndent(Emit(x, <<"nl">>)), Lines(x, c) \o <<"nl">>)
StreamCommentBefore(x, c) == [Emit(IndentUnlessDone(x), Lines(x, c)) EXCEPT !.indented = FALSE]
BuiltCommentBefore(x, c) == IF AllComments THEN StreamCommentBefore(x, c) ELSE x

CommentBefore(x, v) ==
    LET c == v.comments.before
    IN  IF c = None THEN x
        ELSE IF Styled THEN StyledCommentBefore(x, c)
        ELSE IF Built THEN BuiltCommentBefore(x, c) ELSE StreamCommentBefore(x, c)

\* writeCommentAfterValueOnSameLine
Same(c) == IF c = None THEN <<>> ELSE <<"sp">> \o c

StyledCommentAfter(x, c) ==
    Emit(x, Same(c.same) \o (IF c.after = None THEN <<>> ELSE <<"nl">> \o c.after \o <<"nl">>))

StreamCommentAfter(x, c) ==
    LET y == Emit(x, Same(c.same))
    IN  [IF c.after = None THEN y ELSE Emit(WriteIndent(y), c.after) EXCEPT !.indented = FALSE]

BuiltCommentAfter(x, c) ==
    LET y == Emit(x, Same(c.same))
    IN  IF ~AllComments THEN x ELSE IF c.after = None THEN y ELSE Emit(WriteIndent(y), c.after)

CommentAfter(x, v) ==
    IF Styled THEN StyledCommentAfter(x, v.comments)
    ELSE IF Built THEN BuiltCommentAfter(x, v.comments) ELSE StreamCommentAfter(x, v.comments)

------------------------------------------------------------------------------
(* isMultilineArray *)

HasComment(v) == v.comments # NoComments
IsLeaf(v) == v.kids = <<>>

\* What pushValue adds for a scalar or an empty container
Text(v) == FastWrite(v)
TextLengths(v) == FoldLeft(LAMBDA n, k : n + Len(Text(k)), 0, v.kids)

\* Are the kids written into childValues_?  Not if the array is already known to be long.
Measures(v) ==
    /\ Len(v.kids) * 3 < RightMargin
    /\ \A i \in 1..Len(v.kids) : IsLeaf(v.kids[i])

\* With commentStyle All the built writer asks nothing and leaves childValues_ as it is.
Asks == ~(Built /\ AllComments)

IsMultiline_IgnoresComments(v) ==
    \/ ~Measures(v)
    \/ 4 + (Len(v.kids) - 1) * 2 + TextLengths(v) >= RightMargin

IsMultiline(v) ==
    \/ ~Measures(v)
    \/ \E i \in 1..Len(v.kids) : HasComment(v.kids[i])
    \/ 4 + (Len(v.kids) - 1) * 2 + TextLengths(v) >= RightMargin

ChildValues(v) ==
    IF ~Asks THEN w.children
    ELSE IF Measures(v) THEN [i \in 1..Len(v.kids) |-> Text(v.kids[i])] ELSE <<>>

------------------------------------------------------------------------------
(* Actions *)

Task(op, v, text, last) == [op |-> op, v |-> v, text |-> text, last |-> last]

Init ==
    /\ value \in Values
    /\ w = [doc |-> <<>>, depth |-> 0, indented |-> TRUE, children |-> <<>>]
    /\ todo = <<Task("write", value, <<>>, TRUE)>>

Now(op) == todo # <<>> /\ Head(todo).op = op
Task0 == Head(todo)
Then(tasks) == todo' = tasks \o Tail(todo)

\* write: comments around the value
Write ==
    /\ Now("write")
    /\ LET x == CommentBefore(w, value)
       IN  w' = IF Styled THEN x ELSE [IF x.indented THEN x ELSE WriteIndent(x) EXCEPT !.indented = TRUE]
    /\ Then(<<Task("value", value, <<>>, TRUE), Task("end", value, <<>>, TRUE)>>)
    /\ UNCHANGED value

End == Now("end") /\ w' = CommentAfter(w, value) /\ Then(<<>>) /\ UNCHANGED value

Kids(v, per(_)) == FlattenSeq([i \in 1..Len(v.kids) |-> per(i)])

Opened(tokens) == [WriteWithIndent(w, tokens) EXCEPT !.depth = @ + 1]

\* writeValue of anything but an array with elements
WriteValue ==
    LET v == Task0.v
        kid(i) == <<Task("name", v.kids[i], <<>>, FALSE), Task("value", v.kids[i], <<>>, FALSE),
                    Task("after", v.kids[i], <<>>, i = Len(v.kids))>>
    IN  /\ Now("value") /\ (IsLeaf(v) \/ v.type = "object")
        /\ IF IsLeaf(v) THEN w' = Emit(w, Text(v)) /\ Then(<<>>)
           ELSE w' = Opened(<<"{">>) /\ Then(Kids(v, kid) \o <<Task("close", v, <<"}">>, FALSE)>>)
        /\ UNCHANGED value

Name ==
    /\ Now("name")
    /\ w' = Emit(WriteWithIndent(CommentBefore(w, Task0.v), <<"name">>), <<"sp", ":", "sp">>)
    /\ Then(<<>>) /\ UNCHANGED value

After ==
    /\ Now("after")
    /\ w' = CommentAfter(IF Task0.last THEN w ELSE Emit(w, <<",">>), Task0.v)
    /\ Then(<<>>) /\ UNCHANGED value

Close ==
    /\ Now("close")
    /\ w' = WriteWithIndent([w EXCEPT !.depth = @ - 1], Task0.text)
    /\ Then(<<>>) /\ UNCHANGED value

\* writeArrayValue: on one line, or an element to a line
WriteArrayValue ==
    LET v == Task0.v
        children == ChildValues(v)
        kid(i) == IF children # <<>>
                  THEN <<Task("element", v.kids[i], children[i], FALSE),
                         Task("after", v.kids[i], <<>>, i = Len(v.kids))>>
                  ELSE <<Task("element", v.kids[i], <<>>, FALSE), Task("value", v.kids[i], <<>>, FALSE),
                         Task("settle", v.kids[i], <<>>, FALSE), Task("after", v.kids[i], <<>>, i = Len(v.kids))>>
        inline(i) == (IF i > 1 THEN <<",", "sp">> ELSE <<>>) \o children[i]
    IN  /\ Now("value") /\ ~IsLeaf(v) /\ v.type = "array"
        /\ IF ~Asks \/ IsMultiline(v)
           THEN /\ w' = [Opened(<<"[">>) EXCEPT !.children = children]
                /\ Then(Kids(v, kid) \o <<Task("close", v, <<"]">>, FALSE)>>)
           ELSE /\ w' = [Emit(w, <<"[", "sp">> \o Kids(v, inline) \o <<"sp", "]">>) EXCEPT !.children = children]
                /\ Then(<<>>)
        /\ UNCHANGED value

Element ==
    /\ Now("element")
    /\ LET x == CommentBefore(w, Task0.v)
       IN  w' = IF Task0.text # <<>> THEN WriteWithIndent(x, Task0.text)
                ELSE [IndentUnlessDone(x) EXCEPT !.indented = TRUE]
    /\ Then(<<>>) /\ UNCHANGED value

\* indented_ = false after the value of an element
Settle == Now("settle") /\ w' = [w EXCEPT !.indented = FALSE] /\ Then(<<>>) /\ UNCHANGED value

StyledWrite == Styled /\ (Write \/ End)
StyledWriteValue == Styled /\ (WriteValue \/ Name \/ After \/ Close)
StyledWriteArrayValue == Styled /\ (WriteArrayValue \/ Element \/ Settle)
StreamWrite == ~Styled /\ ~Built /\ (Write \/ End)
StreamWriteValue == ~Styled /\ ~Built /\ (WriteValue \/ Name \/ After \/ Close)
StreamWriteArrayValue == ~Styled /\ ~Built /\ (WriteArrayValue \/ Element \/ Settle)
BuiltWrite == Built /\ (Write \/ End)
BuiltWriteValue == Built /\ (WriteValue \/ Name \/ After \/ Close)
BuiltWriteArrayValue == Built /\ (WriteArrayValue \/ Element \/ Settle)

Next ==
    \/ StyledWrite \/ StyledWriteValue \/ StyledWriteArrayValue
    \/ StreamWrite \/ StreamWriteValue \/ StreamWriteArrayValue
    \/ BuiltWrite \/ BuiltWriteValue \/ BuiltWriteArrayValue

Spec == Init /\ [][Next]_vars

------------------------------------------------------------------------------
(* Properties *)

Done == todo = <<>>

\* What a reader that skips blanks and comments finds: a line comment ends at the newline.
ReadBack(doc) ==
    FoldLeft(LAMBDA r, t :
                CASE t = "nl" -> [r EXCEPT !.commented = FALSE]
                  [] r.commented \/ t \in {"sp", "block"} -> r
                  [] t \in {"line", "lineb"} -> [r EXCEPT !.commented = TRUE]
                  [] OTHER -> [r EXCEPT !.tokens = Append(@, t)],
             [commented |-> FALSE, tokens |-> <<>>], doc).tokens

\* Whatever the layout, a document reads back as the value: no comment hides a token.
ReadsBack == Done => ReadBack(w.doc) = FastWrite(value)

IsComment(t) == t \in {"line", "lineb", "block"}

RECURSIVE CommentsOf(_)
CommentsOf(v) ==
    LET own(p) == Len(SelectSeq(v.comments[p], IsComment))
    IN  own("before") + own("same") + own("after")
            + FoldLeft(LAMBDA n, k : n + CommentsOf(k), 0, v.kids)

\* Every comment of a value is written, once.
CommentsKept == Done => Len(SelectSeq(w.doc, IsComment)) = CommentsOf(value)
==============================================================================
