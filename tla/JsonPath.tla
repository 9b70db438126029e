------------------------------- MODULE JsonPath -------------------------------
(***************************************************************************)
(* Json::Path of jsoncpp (json_value.cpp): makePath takes a path apart into *)
(* arguments, make creates the node it names in a document and resolve      *)
(* finds it.  A document is the set of its nodes, each under the sequence   *)
(* of arguments that leads to it, with the kind of its value.               *)
(***************************************************************************)
EXTENDS Integers, Sequences, FiniteSets, FiniteSetsExt, SequencesExt

CONSTANTS
    Keys,       \* member names, characters
    Indices,    \* array indices, digits
    MaxArgs,    \* bound: elements of a path
    MaxChars    \* bound: characters of a path that need not be well formed

VARIABLES
    pc,
    meant,      \* observer: the elements that were written, <<"?">> for a malformed path
    path, current,
    in,         \* the parameters that are left
    args,       \* args_
    nodes,      \* the document
    node, i     \* the walk of make and of resolve

vars == <<pc, meant, path, current, in, args, nodes, node, i>>

Elements == {<<"key", k>> : k \in Keys} \cup {<<"index", n>> : n \in Indices}
Malformed == <<<<"?", "?">>>>

\* How an element is written: in the path, or as a parameter
Written(e, given) ==
    IF e[1] = "key" THEN <<".", IF given THEN "%" ELSE e[2]>>
    ELSE <<"[", IF given THEN "%" ELSE e[2], "]">>

IndexOf(d) == CASE d = "0" -> 0 [] d = "1" -> 1 [] d = "2" -> 2

SeqsUpTo(S, n) == UNION {[1..m -> S] : m \in 0..n}

\* The document that making the elements es leaves behind
Kind(e) == IF e[1] = "key" THEN "object" ELSE "array"
DocOf(es) ==
    [p \in {SubSeq(es, 1, n) : n \in 0..Len(es)} |->
        IF Len(p) < Len(es) THEN Kind(es[Len(p) + 1]) ELSE "null"]

Init ==
    /\ pc = "parse" /\ current = 1 /\ args = <<>> /\ node = <<>> /\ i = 1
    /\ \E es \in SeqsUpTo(Elements, MaxArgs) : nodes = DocOf(es)
    /\ \/ \E es \in SeqsUpTo(Elements, MaxArgs) : \E given \in SUBSET (1..Len(es)) :
             /\ meant = es
             /\ path = (IF es = <<>> \/ es[1][1] = "index" THEN <<".">> ELSE <<>>) \o
                       FlattenSeq([n \in 1..Len(es) |-> Written(es[n], n \in given)])
             /\ in = SelectSeq([n \in 1..Len(es) |-> IF n \in given THEN es[n] ELSE <<"none">>],
                               LAMBDA a : a # <<"none">>)
       \/ /\ meant = Malformed /\ in = <<>>
          /\ path \in SeqsUpTo({".", "[", "]", "%"} \cup Keys \cup Indices, MaxChars)

------------------------------------------------------------------------------
(* makePath *)

AtEnd(n) == n > Len(path)

AfterTaken == Tail(in)

\* addPathInArg: a parameter that is missing or of the other kind is passed over.
WithArg(kind) ==
    IF in # <<>> /\ Head(in)[1] = kind
    THEN args' = Append(args, Head(in)) /\ in' = AfterTaken ELSE UNCHANGED <<args, in>>

\* From n on, while the characters are in S: the position of the first that is not
SkipWhile(n, S) == Min({m \in n..Len(path) + 1 : m = Len(path) + 1 \/ path[m] \notin S})

\* After the index: a bracket that is missing is not an error.
PastBracket(n) == IF AtEnd(n) THEN n ELSE n + 1

\* The text from..to-1 as an element: a longer one occurs in malformed paths only.
Text(from, to) == IF to = from + 1 THEN path[from] ELSE "long"
IndexArg(from, to) == <<"index", IF from = to THEN "0" ELSE Text(from, to)>>

ParseBracket ==
    /\ pc = "parse" /\ ~AtEnd(current) /\ path[current] = "["
    /\ LET n == current + 1
       IN  IF ~AtEnd(n) /\ path[n] = "%"
           THEN WithArg("index") /\ current' = PastBracket(n)
           ELSE LET m == SkipWhile(n, Indices)
                IN  /\ args' = Append(args, IndexArg(n, m))
                    /\ current' = PastBracket(m) /\ UNCHANGED in
    /\ UNCHANGED <<pc, meant, path, nodes, node, i>>

ParseParameter ==
    /\ pc = "parse" /\ ~AtEnd(current) /\ path[current] = "%"
    /\ WithArg("key") /\ current' = current + 1
    /\ UNCHANGED <<pc, meant, path, nodes, node, i>>

ParseDot ==
    /\ pc = "parse" /\ ~AtEnd(current) /\ path[current] \in {".", "]"}
    /\ current' = current + 1
    /\ UNCHANGED <<pc, meant, path, in, args, nodes, node, i>>

ParseName ==
    /\ pc = "parse" /\ ~AtEnd(current) /\ path[current] \notin {"[", "%", ".", "]"}
    /\ current' = SkipWhile(current, (Keys \cup Indices \cup {"]", "%"}))
    /\ args' = Append(args, <<"key", Text(current, current')>>)
    /\ UNCHANGED <<pc, meant, path, in, nodes, node, i>>

EndParse ==
    /\ pc = "parse" /\ AtEnd(current)
    /\ pc' = IF meant = Malformed THEN "done" ELSE "make"
    /\ UNCHANGED <<meant, path, current, in, args, nodes, node, i>>

------------------------------------------------------------------------------
(* make and resolve *)

\* (*node)[arg] of a node that may be changed: null becomes a container, the child is
\* created, and a value of another kind fails the assertion of operator[].
Child == Append(node, args[i])

Entered == IF nodes[node] = "null" THEN [nodes EXCEPT ![node] = Kind(args[i])] ELSE nodes

Make ==
    /\ pc = "make" /\ i <= Len(args)
    /\ IF nodes[node] \in {"null", Kind(args[i])}
       THEN /\ nodes' = [p \in DOMAIN nodes \cup {Child} |->
                            IF p \in DOMAIN nodes THEN Entered[p] ELSE "null"]
            /\ node' = Child /\ i' = i + 1 /\ UNCHANGED pc
       ELSE pc' = "asserted" /\ UNCHANGED <<nodes, node, i>>
    /\ UNCHANGED <<meant, path, current, in, args>>

Made ==
    /\ pc = "make" /\ i > Len(args)
    /\ pc' = "resolve" /\ node' = <<>> /\ i' = 1
    /\ UNCHANGED <<meant, path, current, in, args, nodes>>

Children(p) == {q \in DOMAIN nodes : Len(q) = Len(p) + 1 /\ SubSeq(q, 1, Len(p)) = p}

\* isValidIndex: an array is as long as its last element tells.
IsValidIndex_Inside(p, n) ==
    \E q \in Children(p) : q[Len(q)][1] = "index" /\ n < IndexOf(q[Len(q)][2])

IsValidIndex(p, n) ==
    \E q \in Children(p) : q[Len(q)][1] = "index" /\ n <= IndexOf(q[Len(q)][2])

\* An element that the array leaves out reads as null.
KindAt(p) == IF p \in DOMAIN nodes THEN nodes[p] ELSE "null"

\* A step of resolve: the default is returned when a node is missing.
Resolve ==
    /\ pc = "resolve" /\ i <= Len(args)
    /\ IF /\ KindAt(node) = Kind(args[i])
          /\ IF args[i][1] = "index" THEN IsValidIndex(node, IndexOf(args[i][2]))
             ELSE Child \in DOMAIN nodes
       THEN node' = Child /\ i' = i + 1 /\ UNCHANGED pc
       ELSE pc' = "default" /\ UNCHANGED <<node, i>>
    /\ UNCHANGED <<meant, path, current, in, args, nodes>>

Resolved ==
    /\ pc = "resolve" /\ i > Len(args) /\ pc' = "done"
    /\ UNCHANGED <<meant, path, current, in, args, nodes, node, i>>

Next ==
    \/ ParseBracket \/ ParseParameter \/ ParseDot \/ ParseName \/ EndParse
    \/ Make \/ Made \/ Resolve \/ Resolved

Spec == Init /\ [][Next]_vars

------------------------------------------------------------------------------
(* Properties *)

\* No path, however malformed, makes makePath read beyond the terminator of its text.
ParseInBounds == current <= Len(path) + 1

\* A path in the syntax of value.h:709-716 is taken apart into the elements it was written
\* from, in the path or as parameters, in order.
PathElements == pc \in {"make", "resolve"} => args = meant

\* The node that make has created in a document, be it empty or made by another path, is the
\* one that resolve finds: the default is not returned.
MakeResolves == pc # "default" /\ (pc = "done" /\ meant # Malformed => node = meant)
==============================================================================
