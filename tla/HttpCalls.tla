------------------------------ MODULE HttpCalls ------------------------------
(***************************************************************************)
(* performRequest of FirebaseApp, which HttpClient models, with its state   *)
(* named apart from that of the parts it is put beside.                     *)
(***************************************************************************)
EXTENDS Integers

CONSTANTS MaxAttempts, BufSize, Statuses, MaxBody, MaxRequests

ASSUME HttpAssumption ==
    /\ MaxAttempts \in Nat \ {0} /\ BufSize \in Nat \ {0} /\ Statuses \subseteq Nat
    /\ MaxBody \in Nat /\ MaxRequests \in Nat

VARIABLES
    h_pc, h_attempt, conn, serial, h_body, h_buf, output_len, rstatus, err, status, applied,
    requests

http == <<h_pc, h_attempt, conn, serial, h_body, h_buf, output_len, rstatus, err, status, applied,
          requests>>

Http == INSTANCE HttpClient WITH pc <- h_pc, attempt <- h_attempt, body <- h_body, buf <- h_buf

------------------------------------------------------------------------------
(* Properties *)

\* What the caller finds in local_response_buffer after performRequest is a C string, and
\* after a success the body of the last response and no other.
BufferSound == Http!BufferSound

\* performRequest implements the promise of HttpRequest: a reported success was executed by
\* the server in this call, at most MaxAttempts times.
ImplementsRequest == Http!ImplementsRequest
==============================================================================
