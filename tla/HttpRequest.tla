----------------------------- MODULE HttpRequest -----------------------------
(***************************************************************************)
(* What FirebaseApp::performRequest promises its callers, whatever the      *)
(* network does: the server may execute the request any number of times up  *)
(* to the number of attempts, and a success is only reported for a request  *)
(* the server has executed in this call.  A failure promises nothing: the   *)
(* request may have been executed or not.                                   *)
(***************************************************************************)
EXTENDS Naturals

CONSTANT MaxAttempts   \* MAX_ATTEMPTS, the attempts of one call

VARIABLES
    phase,     \* "idle" or "busy": is a call of performRequest in progress
    applied,   \* how often the server has executed the request of this call
    result     \* what the last call returned: "ok", "fail", or "none" while busy

reqVars == <<phase, applied, result>>

ReqInit ==
    /\ phase = "idle"
    /\ applied = 0
    /\ result = "fail"

Begin ==
    /\ phase = "idle"
    /\ phase' = "busy"
    /\ applied' = 0
    /\ result' = "none"

Execute ==
    /\ phase = "busy"
    /\ applied < MaxAttempts
    /\ applied' = applied + 1
    /\ UNCHANGED <<phase, result>>

End ==
    /\ phase = "busy"
    /\ phase' = "idle"
    /\ result' \in {"ok", "fail"}
    /\ result' = "ok" => applied > 0
    /\ UNCHANGED applied

ReqNext == Begin \/ Execute \/ End

ReqSpec == ReqInit /\ [][ReqNext]_reqVars
==============================================================================
