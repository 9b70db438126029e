----------------------------- MODULE JsonGrammar ------------------------------
(***************************************************************************)
(* What the two JSON readers have in common: their tokens, the tree of      *)
(* Values they fill, and the grammar of RFC 8259 as the reference they are  *)
(* compared with.                                                           *)
(*                                                                          *)
(* A path of the tree is a sequence of steps, <<"m", name>> to a member and *)
(* <<"e", index>> to an element; the tree maps every path to its Value.     *)
(***************************************************************************)
EXTENDS Integers, Sequences

CONSTANT Names      \* texts of the strings, the empty one among them

Item(type, text) == [type |-> type, text |-> text]

\* What readToken returns.  "badString" and "badNumber" are tokens that decodeString
\* and decodeNumber refuse; a comment is on the line of the value before it or on
\* its own; "end" is the end of the document and a zero byte within it.
AllTokens ==
    {Item(p, "") : p \in {"{", "}", "[", "]", ",", ":", "badString", "badNumber",
                          "error", "end"}}
    \cup {Item("string", n) : n \in Names}
    \cup {Item("number", "7"), Item("literal", "true")}
    \cup {Item("comment", place) : place \in {"same line", "own line"}}

NoToken == Item("none", "")
EndOfStream == Item("end", "")
Scalars == {"string", "number", "literal"}

------------------------------------------------------------------------------
(* The tree of Values *)

Root == <<>>
NoValue == << <<"none", "">> >>
Null == Item("null", "")
Object == Item("object", "")
Array == Item("array", "")

\* The path of the container of a Value, and the step from there to the Value.
Parent(p) == SubSeq(p, 1, Len(p) - 1)
StepTo(p) == p[Len(p)]

Below(p, q) == Len(p) < Len(q) /\ SubSeq(q, 1, Len(p)) = p

\* swapPayload of the Value at p with a new one; the old payload is destroyed.
Swapped(tree, p, v) ==
    [q \in {q \in DOMAIN tree : ~Below(p, q)} |-> IF q = p THEN v ELSE tree[q]]

\* operator[] with a name or an index: a null Value unless there is one already.
Resolved(tree, p) ==
    [q \in DOMAIN tree \cup {p} |-> IF q \in DOMAIN tree THEN tree[q] ELSE Null]

\* Every Value but the root is a member of an object or an element of an array,
\* and the elements of an array are numbered from 0 without a gap.
WellFormed(tree) ==
    /\ Root \in DOMAIN tree
    /\ \A p \in DOMAIN tree \ {Root} :
          /\ Parent(p) \in DOMAIN tree
          /\ tree[Parent(p)] = IF StepTo(p)[1] = "m" THEN Object ELSE Array
          /\ StepTo(p)[1] = "e" =>
                \A i \in 0..StepTo(p)[2] : Append(Parent(p), <<"e", i>>) \in DOMAIN tree

------------------------------------------------------------------------------
(* RFC 8259: the symbols that are still to come, the next one first *)

Reject == <<"reject">>

Expand(symbol, t) ==
    LET value == CASE t = "{" -> <<"members or }">>
                   [] t = "[" -> <<"elements or ]">>
                   [] t \in Scalars -> <<>>
                   [] OTHER -> Reject
        member == <<":", "value", ", or }">>
    IN  CASE symbol = "value" -> value
          [] symbol = "elements or ]" ->
                IF t = "]" THEN <<>> ELSE value \o <<", or ]">>
          [] symbol = ", or ]" ->
                IF t = "," THEN <<"value", ", or ]">> ELSE IF t = "]" THEN <<>> ELSE Reject
          [] symbol = "members or }" ->
                IF t = "}" THEN <<>> ELSE IF t = "string" THEN member ELSE Reject
          [] symbol = "member" -> IF t = "string" THEN member ELSE Reject
          [] symbol = ":" -> IF t = ":" THEN <<>> ELSE Reject
          [] symbol = ", or }" ->
                IF t = "," THEN <<"member">> ELSE IF t = "}" THEN <<>> ELSE Reject

\* The symbols after one more token; comments are not part of the grammar.
Expected(symbols, t) ==
    IF symbols \in {<<>>, Reject} \/ t.type = "comment" THEN symbols
    ELSE LET s == Expand(Head(symbols), t.type)
         IN  IF \E i \in DOMAIN s : s[i] = Reject[1] THEN Reject ELSE s \o Tail(symbols)
==============================================================================
