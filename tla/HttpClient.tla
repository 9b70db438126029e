------------------------------ MODULE HttpClient ------------------------------
(***************************************************************************)
(* FirebaseApp::performRequest and http_event_handler                       *)
(* (components/esp_firebase/app.cpp): a request is tried up to MaxAttempts  *)
(* times on one shared client handle, and the event handler collects the    *)
(* body of each response in local_response_buffer through the file-static   *)
(* output_len.                                                              *)
(*                                                                          *)
(* The esp_http_client library is external and modelled by what the code    *)
(* relies on: a perform() either opens a connection (ON_CONNECTED) or       *)
(* reuses the one the previous response left open; it delivers the body in  *)
(* chunks (ON_DATA) and, when it reports no error, ends with ON_FINISH; a   *)
(* perform() that reports an error leaves no connection to reuse.           *)
(***************************************************************************)
EXTENDS Integers

CONSTANTS
    MaxAttempts,   \* MAX_ATTEMPTS
    BufSize,       \* HTTP_RECV_BUFFER_SIZE
    Statuses,      \* the HTTP statuses the server answers with
    MaxBody,       \* bound: longest body of a response
    MaxRequests    \* bound: calls of performRequest

VARIABLES
    pc,           \* where performRequest is: "idle" outside of a call
    attempt,      \* the loop variable of performRequest
    conn,         \* the library's connection: "open" or "closed"
    serial,       \* how many responses have started; tells their bytes apart
    body,         \* the current response: its length and the bytes delivered
    buf,          \* local_response_buffer
    output_len,   \* the static write position of http_event_handler
    rstatus,      \* the status code stored in the client handle
    err, status,  \* what performRequest returns
    applied,      \* how often the server has executed this call's request
    requests      \* how many calls have been made

vars == <<pc, attempt, conn, serial, body, buf, output_len, rstatus, err,
          status, applied, requests>>

Capacity == BufSize - 1

\* A byte is the serial number of its response and its offset in the body.
NUL == <<0, 0>>
Junk == <<0, 1>>   \* what the heap held before the first memset
ByteOf(r, i) == <<r, i>>

Zeroed == [i \in 0..Capacity |-> NUL]

Is2xx(s) == s >= 200 /\ s < 300

Success == err = "OK" /\ Is2xx(status)

\* FirebaseApp::FirebaseApp allocates the buffer with new char[], so its bytes
\* are uninitialized until the first ON_CONNECTED or clearHTTPBuffer.
Init ==
    /\ pc = "idle" /\ attempt = 0 /\ conn = "closed" /\ serial = 0
    /\ body = [len |-> 0, got |-> 0]
    /\ buf \in {[i \in 0..Capacity |-> Junk], Zeroed}
    /\ output_len = 0 /\ rstatus = 0
    /\ err = "FAIL" /\ status = -1
    /\ applied = 0 /\ requests = 0

------------------------------------------------------------------------------
(* performRequest: entry and set_url, which drops a connection to another host *)

PerformRequest ==
    /\ pc = "idle" /\ requests < MaxRequests
    /\ pc' = "attempt" /\ attempt' = 1
    /\ err' = "FAIL" /\ status' = -1
    /\ applied' = 0 /\ requests' = requests + 1
    /\ conn' \in {conn, "closed"}
    /\ UNCHANGED <<serial, body, buf, output_len, rstatus>>

(* esp_http_client_perform *)

\* ON_CONNECTED clears the buffer and the write position.
OnConnected_KeepsOffset ==
    /\ buf' = Zeroed
    /\ output_len' = output_len

OnConnected ==
    /\ buf' = Zeroed
    /\ output_len' = 0

Open ==
    /\ pc = "attempt" /\ conn = "closed"
    /\ pc' = "sent" /\ conn' = "open"
    /\ OnConnected
    /\ UNCHANGED <<attempt, serial, body, rstatus, err, status, applied, requests>>

\* The connection the previous response left open: no ON_CONNECTED.
Reuse ==
    /\ pc = "attempt" /\ conn = "open"
    /\ pc' = "sent"
    /\ UNCHANGED <<attempt, conn, serial, body, buf, output_len, rstatus, err,
                   status, applied, requests>>

\* No connection: the handle still has the status of an earlier response.
ConnectFails ==
    /\ pc = "attempt" /\ conn = "closed"
    /\ pc' = "judge" /\ err' = "FAIL" /\ status' = rstatus
    /\ UNCHANGED <<attempt, conn, serial, body, buf, output_len, rstatus,
                   applied, requests>>

\* The request or its response is lost; the server may have executed it.
NoResponse ==
    /\ pc = "sent"
    /\ pc' = "judge" /\ conn' = "closed"
    /\ err' = "FAIL" /\ rstatus' = -1 /\ status' = -1
    /\ applied' \in {applied, applied + 1}
    /\ UNCHANGED <<attempt, serial, body, buf, output_len, requests>>

\* The server answers: a 2xx executes the request, a 5xx may have.
Respond ==
    /\ pc = "sent"
    /\ \E s \in Statuses, n \in 0..MaxBody :
          /\ rstatus' = s
          /\ body' = [len |-> n, got |-> 0]
          /\ applied' \in IF Is2xx(s) THEN {applied + 1}
                          ELSE IF s >= 500 THEN {applied, applied + 1}
                          ELSE {applied}
    /\ pc' = "body" /\ serial' = serial + 1
    /\ UNCHANGED <<attempt, conn, buf, output_len, err, status, requests>>

\* ON_DATA with n bytes of the body that start at offset from: copy what fits
\* before the last cell, which is kept for the terminator.
OnData(from, n) ==
    LET space   == Capacity - output_len
        to_copy == IF n < space THEN n ELSE space
    IN  IF space > 0
        THEN /\ buf' = [i \in 0..Capacity |->
                           IF i >= output_len /\ i < output_len + to_copy
                           THEN ByteOf(serial, from + i - output_len)
                           ELSE IF i = output_len + to_copy THEN NUL ELSE buf[i]]
             /\ output_len' = output_len + to_copy
        ELSE UNCHANGED <<buf, output_len>>

Chunk ==
    /\ pc = "body" /\ body.got < body.len
    /\ \E n \in 1..(body.len - body.got) :
          /\ OnData(body.got, n)
          /\ body' = [body EXCEPT !.got = @ + n]
    /\ UNCHANGED <<pc, attempt, conn, serial, rstatus, err, status, applied,
                   requests>>

\* ON_FINISH rewinds the write position: the next body on this connection
\* overwrites this one.
OnFinish == output_len' = 0

Finish ==
    /\ pc = "body" /\ body.got = body.len
    /\ OnFinish
    /\ pc' = "judge" /\ err' = "OK" /\ status' = rstatus
    /\ conn' \in {"open", "closed"}
    /\ UNCHANGED <<attempt, serial, body, buf, rstatus, applied, requests>>

\* The connection breaks inside the body: the library reports the short body
\* as complete or as an error.
Cut ==
    /\ pc = "body" /\ body.got < body.len
    /\ \/ OnFinish /\ err' = "OK"
       \/ UNCHANGED output_len /\ err' = "FAIL"
    /\ pc' = "judge" /\ status' = rstatus /\ conn' = "closed"
    /\ UNCHANGED <<attempt, serial, body, buf, rstatus, applied, requests>>

(* performRequest: the loop body after perform() *)

Succeed_StatusOnly ==
    /\ pc = "judge" /\ Is2xx(status)
    /\ pc' = "idle" /\ conn' = "closed" /\ err' = "OK"
    /\ UNCHANGED <<attempt, serial, body, buf, output_len, rstatus,
                   status, applied, requests>>

Succeed ==
    /\ pc = "judge" /\ Success
    /\ pc' = "idle" /\ conn' = "closed"
    /\ UNCHANGED <<attempt, serial, body, buf, output_len, rstatus, err,
                   status, applied, requests>>

Retry_Unbounded ==
    /\ pc = "judge" /\ ~Success
    /\ pc' = "attempt" /\ attempt' = attempt
    /\ UNCHANGED <<conn, serial, body, buf, output_len, rstatus, err, status,
                   applied, requests>>

Retry ==
    /\ pc = "judge" /\ ~Success /\ attempt < MaxAttempts
    /\ pc' = "attempt" /\ attempt' = attempt + 1
    /\ UNCHANGED <<conn, serial, body, buf, output_len, rstatus, err, status,
                   applied, requests>>

GiveUp ==
    /\ pc = "judge" /\ ~Success /\ attempt = MaxAttempts
    /\ pc' = "idle"
    /\ UNCHANGED <<attempt, conn, serial, body, buf, output_len, rstatus, err,
                   status, applied, requests>>

\* Called by the callers of performRequest, not by all of them on every path.
ClearHTTPBuffer ==
    /\ pc = "idle"
    /\ buf' = Zeroed /\ output_len' = 0
    /\ UNCHANGED <<pc, attempt, conn, serial, body, rstatus, err, status,
                   applied, requests>>

------------------------------------------------------------------------------
Perform == Open \/ Reuse \/ ConnectFails \/ NoResponse \/ Respond \/ Chunk
              \/ Finish \/ Cut
Loop == Succeed \/ Retry \/ GiveUp

Next == PerformRequest \/ Perform \/ Loop \/ ClearHTTPBuffer

\* perform() always comes back, its socket operations have a timeout, and the
\* calling task is never blocked by another one: WF on the steps of a call.
Spec == Init /\ [][Next]_vars
FairSpec == Spec /\ WF_vars(Perform \/ Loop)

------------------------------------------------------------------------------
(* Properties *)

Bytes == {NUL, Junk} \cup {ByteOf(r, i) : r \in 1..serial, i \in 0..MaxBody}

\* Type invariant; output_len never leaves the buffer (http_event_handler).
TypeOK ==
    /\ pc \in {"idle", "attempt", "sent", "body", "judge"}
    /\ attempt \in 0..MaxAttempts
    /\ conn \in {"open", "closed"}
    /\ serial \in Nat
    /\ body \in [len : 0..MaxBody, got : 0..MaxBody]
    /\ buf \in [0..Capacity -> Bytes]
    /\ output_len \in 0..Capacity
    /\ rstatus \in Statuses \cup {-1, 0}
    /\ err \in {"OK", "FAIL"}
    /\ status \in Statuses \cup {-1, 0}
    /\ applied \in 0..MaxAttempts
    /\ requests \in 0..MaxRequests

\* The last cell of local_response_buffer is a terminator from the first
\* response on: what the JSON reader is given is a C string inside the buffer.
Terminated == serial > 0 => buf[Capacity] = NUL

\* The buffer holds exactly the given number of bytes of the latest response.
HoldsBody(n) ==
    /\ \A i \in 0..(n - 1) : buf[i] = ByteOf(serial, i)
    /\ buf[n] = NUL

Shorter(m, n) == IF m < n THEN m ELSE n

\* A successful performRequest whose response had a body leaves in the buffer,
\* until it is cleared, that body alone, cut to the capacity: nothing of an
\* earlier attempt or of an earlier request is left in front of it or after it.
BodyIntact ==
    pc = "idle" /\ Success /\ body.got > 0 =>
        buf = Zeroed \/ HoldsBody(Shorter(body.got, Capacity))

\* What the caller finds in local_response_buffer after performRequest is a C string, and
\* after a success the body of the last response and no other.
BufferSound == Terminated /\ BodyIntact

\* performRequest implements the promise of HttpRequest: a reported success was
\* executed by the server in this call, at most MaxAttempts times.
Request == INSTANCE HttpRequest WITH
    phase   <- IF pc = "idle" THEN "idle" ELSE "busy",
    result  <- IF pc # "idle" THEN "none" ELSE IF Success THEN "ok" ELSE "fail"

ImplementsRequest == Request!ReqSpec

\* Every call of performRequest returns: the retry loop is finite.
CallReturns == pc # "idle" ~> pc = "idle"

\* performRequest logs local_response_buffer as a C string after every failed
\* attempt (app.cpp:158), so the terminator the handler reserves a byte for
\* (app.cpp:59) has to be there whenever an attempt is judged.
LoggedStringTerminated ==
    pc = "judge" /\ ~Success => \E i \in 0..Capacity : buf[i] = NUL
==============================================================================
