------------------------------- MODULE RtdbTree -------------------------------
(***************************************************************************)
(* The node of the Realtime Database that the device writes, as a function  *)
(* from its keys to the stored values, and what each call of the client may *)
(* leave there.  Keys are integers ordered as the server orders key strings *)
(* (orderBy="$key").  An outcome is the pair of the value a call of         *)
(* firebase_c_shim.cpp returns and the tree after it; a call that fails may *)
(* have been executed all the same, because the answer can be lost.         *)
(***************************************************************************)
EXTENDS Integers, FiniteSets

EmptyTree == [k \in {} |-> {}]

Put(tree, k, v) == [j \in DOMAIN tree \cup {k} |-> IF j = k THEN v ELSE tree[j]]

Without(tree, S) == [j \in DOMAIN tree \ S |-> tree[j]]

\* The first n keys in key order: limitToFirst=n of the server.
Oldest_LimitToLast(K, n) == {k \in K : Cardinality({j \in K : k < j}) < n}

Oldest(K, n) == {k \in K : Cardinality({j \in K : j < k}) < n}

\* The last n keys in key order: the days trimDays keeps.
Newest(K, n) == {k \in K : Cardinality({j \in K : k < j}) < n}

Outcome(r, tree) == [ret |-> r, tree |-> tree]

\* firebase_putData: 0 only when the value is stored.
PutOutcomes(tree, k, v) ==
    {Outcome(0, Put(tree, k, v)), Outcome(-1, Put(tree, k, v)), Outcome(-1, tree)}

\* firebase_delete of the keys S (of all keys, for the node itself).
DeleteOutcomes(tree, S) ==
    {Outcome(0, Without(tree, S)), Outcome(-1, Without(tree, S)), Outcome(-1, tree)}

\* firebase_trim_oldest_batch: -1 no listing, 0 nothing in the listing, -2 the
\* PATCH failed, otherwise the number of keys removed.  A listing whose body is
\* cut short still yields the keys read so far, so it is any part of the first
\* n keys.
TrimOutcomes(tree, n) ==
    {Outcome(-1, tree), Outcome(0, tree)}
    \cup UNION {{Outcome(Cardinality(L), Without(tree, L)),
                 Outcome(-2, Without(tree, L)), Outcome(-2, tree)}
                : L \in (SUBSET Oldest(DOMAIN tree, n)) \ {{}}}

\* firebase_trim_days: the deletions are tried one by one and their results are
\* ignored, so any of the keys beyond the newest n may be left.
TrimDaysOutcomes(tree, n) ==
    {Outcome(-1, tree)}
    \cup {Outcome(0, Without(tree, S)) :
             S \in SUBSET (DOMAIN tree \ Newest(DOMAIN tree, n))}
==============================================================================
