------------------------------ MODULE JsonReading -----------------------------
(***************************************************************************)
(* The two parsers of jsoncpp, Reader and OurReader, over tokens: what is   *)
(* stated of either, for every choice of its features and its documents.    *)
(***************************************************************************)
EXTENDS JsonReader, JsonOurReader

------------------------------------------------------------------------------
(* Properties *)

\* parse returns false exactly when an error is recorded, after recovery too.  Of the
\* documents without comments and empty names, Reader accepts those that begin with a JSON
\* text of RFC 8259 and no others, and OurReader in strict mode only those that are one.
AcceptsJson == Reported /\ (IF Ours THEN OneText ELSE AcceptsText)

\* lastValue_, through which a comment is stored, points to a Value that still exists,
\* although a repeated member name destroys what it held before; and OurReader keeps every
\* comment of an accepted document, at one place.
CommentsPlaced == LastValueAlive /\ (Ours => CommentsCollected)
==============================================================================
