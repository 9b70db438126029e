--------------------------------- MODULE City ---------------------------------
(***************************************************************************)
(* The name of the city: modem_unwiredlabs_city_state asks for the address  *)
(* of the cell up to five times and picks two strings out of an answer      *)
(* (main/modem_ppp.c), app_main joins them and replaces separators          *)
(* (main/main.c), and sensors.c keeps the result for the first payload.     *)
(* A body is the sequence of its members; it may be cut by ul_http_evt or   *)
(* by the connection, within a member as well.                              *)
(***************************************************************************)
EXTENDS Integers, Sequences

CONSTANTS
    Names,          \* values of a member: texts, sequences of characters
    Size,           \* of the buffers for the names, 64
    MaxMembers,     \* bound: members of a body after its status
    Attempts        \* MAX_ATTEMPTS

VARIABLES
    pc,
    attempt,
    body,           \* ul_body
    city, state,    \* the two buffers of app_main
    g_city_state    \* in sensors.c

vars == <<pc, attempt, body, city, state, g_city_state>>

Dashes == <<"-", "-", "-", "-">>
Separators == {",", ";", "|"}

\* Members in any order; "address" stands for "address_detail" as well.  One that is not whole
\* has lost its closing quote.
Bodies(n) == [1..n -> [key : {"address", "city", "state"}, name : Names, whole : {TRUE}]]

\* A body without its last members, or cut in the middle of one
Cut(b) == {SubSeq(b, 1, n) : n \in 0..Len(b)}
             \cup {[SubSeq(b, 1, n) EXCEPT ![n].whole = FALSE] : n \in 1..Len(b)}

Answers == [ok : BOOLEAN, members : UNION {Cut(b) : b \in Bodies(MaxMembers)}]

NoAnswer == [ok |-> FALSE, members |-> <<>>]

Init ==
    /\ pc = "ask" /\ attempt = 1 /\ body = NoAnswer
    /\ city = <<>> /\ state = <<>> /\ g_city_state = Dashes

\* A copy to a buffer of that size, with its terminator
Clip(text, size) == SubSeq(text, 1, IF Len(text) < size THEN Len(text) ELSE size - 1)

------------------------------------------------------------------------------
\* Members from the first "address" on, all of them when there is none
FromAddress(m) ==
    LET at == {i \in 1..Len(m) : m[i].key = "address"}
    IN  IF at = {} THEN m ELSE SubSeq(m, CHOOSE i \in at : \A j \in at : i <= j, Len(m))

\* json_get_string: the first member of that name, when its value is neither empty nor cut;
\* otherwise the buffer stays as it is.
GetString(m, key, old) ==
    LET at == {i \in 1..Len(m) : m[i].key = key}
        i == CHOOSE x \in at : \A j \in at : x <= j
    IN  IF at = {} \/ ~m[i].whole \/ m[i].name = <<>> THEN old
        ELSE Clip(m[i].name, Size)

\* Is the answer good enough?
Found_Both == city' # <<>> /\ state' # <<>>
Found == city' # <<>> \/ state' # <<>>

\* An attempt of modem_unwiredlabs_city_state: no answer, one that is not "ok", or one whose
\* strings are taken.  The body is cleared for the next attempt.
Ask ==
    /\ pc = "ask"
    /\ \E a \in Answers \cup {NoAnswer} :
          /\ IF a.ok
             THEN /\ city' = GetString(FromAddress(a.members), "city", city)
                  /\ state' = GetString(FromAddress(a.members), "state", state)
             ELSE UNCHANGED <<city, state>>
          /\ IF a.ok /\ Found THEN pc' = "join" /\ body' = a /\ UNCHANGED attempt
             ELSE /\ attempt' = attempt + 1 /\ body' = NoAnswer
                  /\ pc' = IF attempt < Attempts THEN "ask" ELSE "unknown"
    /\ UNCHANGED g_city_state

Sanitized(text) ==
    [i \in 1..Len(text) |-> IF text[i] \in Separators THEN "-" ELSE text[i]]

\* build_city_hyphen
Joined ==
    LET c == IF city # <<>> THEN city ELSE Dashes
    IN  Sanitized(Clip(IF state # <<>> THEN c \o <<"-">> \o state ELSE c, Size))

\* sensors_set_city_state
Join ==
    /\ pc = "join" /\ pc' = "done"
    /\ g_city_state' = Clip(Joined, Size)
    /\ UNCHANGED <<attempt, body, city, state>>

Unknown ==
    /\ pc = "unknown" /\ pc' = "done"
    /\ g_city_state' = Dashes
    /\ UNCHANGED <<attempt, body, city, state>>

Next == Ask \/ Join \/ Unknown

Spec == Init /\ [][Next]_vars

------------------------------------------------------------------------------
(* Properties *)

\* "Ciudad-Estado sin comas (para CSV)" (main.c:63): the name has no separator, whatever the
\* service answered and wherever it was cut to the buffer.
NoSeparator == \A i \in 1..Len(g_city_state) : g_city_state[i] \notin Separators

Given(a, key) == {a.members[i].name : i \in {j \in 1..Len(a.members) : a.members[j].key = key}}

\* The city and the state in use were given together, in one answer that was "ok", the last one:
\* no attempt leaves a name behind for the next.
OneAnswer ==
    pc = "join" =>
        /\ body.ok
        /\ city # <<>> => \E t \in Given(body, "city") : city = Clip(t, Size)
        /\ state # <<>> => \E t \in Given(body, "state") : state = Clip(t, Size)

\* The name that is kept is never empty and fits the buffer of sensors.c with its terminator,
\* however long the two strings of an answer are.
NameFits == Len(g_city_state) \in 1..Size - 1
==============================================================================
