------------------------------ MODULE JsonArrays ------------------------------
(***************************************************************************)
(* The containers of Json::Value (JsonValue), whose arrays are to be the    *)
(* lists of JsonList.                                                       *)
(***************************************************************************)
EXTENDS Integers

CONSTANTS Payloads, NullValue, Letters, NUL, MaxSize

VARIABLES type, map, dense, live, call

ASSUME ArraysAssumption == MaxSize \in Nat /\ NUL \notin Letters

Container == INSTANCE JsonValue

------------------------------------------------------------------------------
(* Properties *)

\* The map of an array has the indexes of an array, with holes and without.  While there are
\* none, resize, insert and removeIndex make none: the assertion that ends resize holds, and
\* get returns its default exactly beyond the end.
ArraysWhole ==
    /\ Container!TypeOK
    /\ dense => Container!ResizeAssert /\ Container!GetWithinSize

L == INSTANCE JsonList WITH list <- Container!List

\* An array that is indexed at its end or before it is a list: insert, removeIndex and resize
\* neither lose nor duplicate an element of the map it is kept in.  A call of resolveReference
\* or removeMember with the length of a name changes no other member, although names may hold
\* zero characters.
ImplementsList ==
    /\ dense => L!Init
    /\ [][/\ dense => UNCHANGED Container!List \/ L!Next
          /\ Container!OthersKept]_(Container!vars)
==============================================================================
