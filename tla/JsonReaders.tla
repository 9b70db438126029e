------------------------------ MODULE JsonReaders -----------------------------
(***************************************************************************)
(* OurReader beside Reader: what the one has of the other.                  *)
(***************************************************************************)
EXTENDS JsonReading

\* Reader, in the same state: only the root is popped from nodes_ at the end.
R == INSTANCE JsonReader WITH
        features <- [features EXCEPT !.ours = FALSE],
        nodes <- IF pc \in {"finish", "done"} THEN <<Root>> ELSE nodes

\* The features that Reader does not have are off, and comments are skipped.
NothingAdded ==
    /\ Ours /\ ~Collect
    /\ ~features.allowTrailingCommas /\ ~features.rejectDupKeys /\ ~features.failIfExtra

------------------------------------------------------------------------------
(* Properties *)

\* OurReader takes the steps of Reader while the features that it adds are off; with
\* rejectDupKeys_ no step of it changes or destroys a Value that has been read.
ImplementsReader ==
    /\ NothingAdded => R!Init
    /\ [][/\ NothingAdded => R!Next \/ UNCHANGED R!vars
          /\ Ours /\ features.rejectDupKeys /\ pc # "done" =>
                \A p \in DOMAIN tree :
                   tree[p] # Null => p \in DOMAIN tree' /\ tree'[p] = tree[p]]_vars
==============================================================================
