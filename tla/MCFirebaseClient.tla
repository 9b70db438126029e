--------------------------- MODULE MCFirebaseClient ---------------------------
(* Instance of FirebaseClient for TLC: three keys, one value. *)
EXTENDS FirebaseClient

Keys == 1..3

\* The calls of the C interface and of RTDB on this instance.
AllCalls ==
    {[op |-> "init"], [op |-> "refresh"], [op |-> "get"],
     [op |-> "post", keys |-> Keys, val |-> "v"], [op |-> "delete", keys |-> Keys]}
    \cup {[op |-> o, key |-> k, val |-> "v"] : o \in {"put", "patch"}, k \in Keys}
    \cup {[op |-> o, n |-> n] : o \in {"trimOldest", "trimDays"}, n \in {0, 1, 2}}
==============================================================================
