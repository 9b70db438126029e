----------------------------- MODULE FirebaseStore -----------------------------
(***************************************************************************)
(* What the C interface of esp_firebase (firebase_c_shim.cpp) promises the  *)
(* task that calls it: one call at a time; while it runs the tree goes      *)
(* through states its outcomes allow; and the value it returns and the tree *)
(* it leaves form an outcome of RtdbTree.  SensorTask takes its calls from  *)
(* the same outcomes.                                                       *)
(***************************************************************************)
EXTENDS RtdbTree

CONSTANTS Calls, NoCall

VARIABLES
    db,     \* the tree on the server
    call,   \* the call in progress, or NoCall
    old,    \* the tree when that call began
    ret     \* what the last call returned

storeVars == <<db, call, old, ret>>

\* The results of POSTing v: every execution adds a key.
PostOutcomes(tree, keys, v) ==
    LET Posted(S) == [j \in DOMAIN tree \cup S |-> IF j \in S THEN v ELSE tree[j]]
        Sets == SUBSET (keys \ DOMAIN tree)
    IN  {Outcome(-1, Posted(S)) : S \in Sets}
        \cup {Outcome(0, Posted(S)) : S \in Sets \ {{}}}

\* firebase_init, firebase_refresh_token and getData leave the tree alone.
Outcomes(c, tree) ==
    CASE c.op \in {"put", "patch"} -> PutOutcomes(tree, c.key, c.val)
      [] c.op = "post"   -> PostOutcomes(tree, c.keys, c.val)
      [] c.op = "delete" -> DeleteOutcomes(tree, c.keys)
      [] c.op = "trimOldest" -> TrimOutcomes(tree, c.n)
      [] c.op = "trimDays"   -> TrimDaysOutcomes(tree, c.n)
      [] OTHER -> {Outcome(r, tree) : r \in {0, -1, -2}}

StoreInit ==
    /\ db = EmptyTree /\ old = EmptyTree
    /\ call = NoCall /\ ret = 0

Invoke ==
    /\ call = NoCall
    /\ call' \in Calls
    /\ old' = db
    /\ UNCHANGED <<db, ret>>

Progress ==
    /\ call # NoCall
    /\ \E o \in Outcomes(call, old) : db' = o.tree
    /\ UNCHANGED <<call, old, ret>>

Return ==
    /\ call # NoCall
    /\ Outcome(ret', db') \in Outcomes(call, old)
    /\ call' = NoCall
    /\ UNCHANGED old

\* The device restarts: the call never returns, the tree stays as it is.
Crash ==
    /\ call' = NoCall
    /\ UNCHANGED <<db, old, ret>>

StoreNext == Invoke \/ Progress \/ Return \/ Crash

StoreSpec == StoreInit /\ [][StoreNext]_storeVars
==============================================================================
