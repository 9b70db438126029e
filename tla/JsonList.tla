------------------------------- MODULE JsonList -------------------------------
(***************************************************************************)
(* What the array interface of Json::Value promises (value.h): a list whose *)
(* positions 0..size()-1 all hold a value, null where none was given.       *)
(***************************************************************************)
EXTENDS Integers, Sequences

CONSTANTS Payloads, NullValue, MaxSize     \* MaxSize bounds the list

VARIABLE list

Init == list = <<>>

Padded(n) == [i \in 1..n |-> IF i \in DOMAIN list THEN list[i] ELSE NullValue]

Larger(a, b) == IF a >= b THEN a ELSE b

\* list[i] = v: "null value are inserted in the array so that its size is index+1".
Put == \E i \in 0..(MaxSize - 1), v \in Payloads \cup {NullValue} :
          list' = [Padded(Larger(Len(list), i + 1)) EXCEPT ![i + 1] = v]

Add == Len(list) < MaxSize /\ \E v \in Payloads \cup {NullValue} : list' = Append(list, v)

Inserted(s, i, v) == SubSeq(s, 1, i) \o <<v>> \o SubSeq(s, i + 1, Len(s))

Insert == /\ Len(list) < MaxSize
          /\ \E i \in 0..Len(list), v \in Payloads \cup {NullValue} : list' = Inserted(list, i, v)

Removed(s, i) == SubSeq(s, 1, i - 1) \o SubSeq(s, i + 1, Len(s))

Erase == \E i \in 1..Len(list) : list' = Removed(list, i)

Resize == \E n \in 0..MaxSize : list' = Padded(n)

Next == Put \/ Add \/ Insert \/ Erase \/ Resize

Spec == Init /\ [][Next]_list
==============================================================================
