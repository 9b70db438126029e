----------------------------- MODULE TokenRefresh -----------------------------
(***************************************************************************)
(* The token of sensor_task over time (main/main.c): renewed by a timer     *)
(* that is looked at once per iteration of the loop, and by a PUT that is   *)
(* answered with 401; a trim renews nothing.  Time is the monotonic one of  *)
(* esp_timer_get_time.  What forceRefreshAuth does is FirebaseClient's.     *)
(***************************************************************************)
EXTENDS Integers

CONSTANTS
    Refresh,    \* REFRESH_US
    Period,     \* SAMPLE_DELAY_TICKS
    Lifetime,   \* of a token, set by the server
    MaxSetup,   \* bound: from the login to the first look at the timer
    MaxWork,    \* bound: a call, and a renewal
    MaxTime     \* bound: time

\* Nothing is assumed of how long the calls take.
ASSUME TimeAssumption ==
    /\ Refresh \in Nat \ {0} /\ Period \in Nat /\ Lifetime \in Nat
    /\ MaxSetup \in Nat /\ MaxWork \in Nat /\ MaxTime \in Nat

VARIABLES
    pc,             \* where the task is
    now,            \* esp_timer_get_time
    next_refresh,   \* next_refresh_us
    expiry,         \* external: from when the server refuses the token
    good,           \* observer: did the last renewal give a token?
    looked,         \* observer: when the timer was looked at or set last
    late            \* observer: how long after the login the timer was set, until it has renewed

vars == <<pc, now, next_refresh, expiry, good, looked, late>>

\* firebase_init has logged in.
Init ==
    /\ pc = "setup" /\ now = 0 /\ next_refresh = 0 /\ looked = 0 /\ late = 0
    /\ expiry = Lifetime /\ good = TRUE

Passes(most) == \E d \in 0..most : now' = now + d

\* forceRefreshAuth: a token issued at some time of the call; an answer that was cut, which
\* leaves an empty token and is taken for a success; or a failure, which leaves the old one.
Renew ==
    \/ good' = TRUE /\ \E issued \in now..now' : expiry' = issued + Lifetime
    \/ good' = FALSE /\ expiry' \in {now', expiry}

\* putData and deleteData renew the token after a 401, which an expired token gets when the
\* server is reached, and which the client still reports when a later connection fails.
RenewIfRefused == UNCHANGED <<expiry, good>> \/ Renew

\* firebase_delete, and the first next_refresh_us
Setup ==
    /\ pc = "setup" /\ pc' = "sample"
    /\ Passes(MaxSetup) /\ RenewIfRefused
    /\ next_refresh' = now' + Refresh /\ looked' = now' /\ late' = now'

Works == Passes(MaxWork) /\ UNCHANGED <<next_refresh, looked, late>>

\* sensors_read, and the PUT when the batch is full
Sample ==
    /\ pc = "sample" /\ pc' \in {"put", "check"}
    /\ Works /\ UNCHANGED <<expiry, good>>

Put ==
    /\ pc = "put" /\ pc' \in {"trim", "check"}
    /\ Works /\ RenewIfRefused

\* firebase_trim_oldest_batch, which renews nothing
Trim ==
    /\ pc = "trim" /\ pc' = "check"
    /\ Works /\ UNCHANGED <<expiry, good>>

\* next_refresh_us = now_us + REFRESH_US, the time before the renewal
Schedule_AfterRenewal == now' + Refresh
Schedule == now + Refresh

CheckTimer ==
    /\ pc = "check" /\ pc' = "sleep" /\ looked' = now
    /\ IF now >= next_refresh
       THEN Passes(MaxWork) /\ Renew /\ next_refresh' = Schedule /\ late' = 0
       ELSE UNCHANGED <<now, expiry, good, next_refresh, late>>

\* vTaskDelay
Sleep ==
    /\ pc = "sleep" /\ now < MaxTime
    /\ pc' = "sample" /\ now' = now + Period
    /\ UNCHANGED <<next_refresh, expiry, good, looked, late>>

Next == Setup \/ Sample \/ Put \/ Trim \/ CheckTimer \/ Sleep

Spec == Init /\ [][Next]_vars

------------------------------------------------------------------------------
(* Properties *)

\* Type invariant of the timer and of the token.
TypeOK ==
    /\ pc \in {"setup", "sample", "put", "trim", "check", "sleep"}
    /\ now \in Nat /\ next_refresh \in Nat /\ expiry \in Nat
    /\ looked \in Nat /\ late \in Nat /\ good \in BOOLEAN

\* The timer of main.c:231 leaves Lifetime - Refresh, ten minutes of the hour, for what it does
\* not see.  A PUT or a trim that comes no later than that after the last look at the timer, the
\* first hour's delay between login and timer (firebase_delete, main.c:99) included, is sent
\* with a token that has not expired, however often it was renewed, by the timer or by a PUT,
\* and however long a renewal took.  When the calls take longer, or after a renewal that
\* failed, it may have expired.
TokenFresh ==
    pc \in {"put", "trim"} /\ good /\ late + (now - looked) <= Lifetime - Refresh
        => now < expiry
==============================================================================
