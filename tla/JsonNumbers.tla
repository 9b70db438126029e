------------------------------ MODULE JsonNumbers -----------------------------
(***************************************************************************)
(* The number tokens that both readers of jsoncpp decode, for integer types *)
(* of every width and tokens of every length.                               *)
(***************************************************************************)
EXTENDS Integers

CONSTANTS MaxInt, MaxLargestInt, Digits, MaxLength

\* LargestInt holds numbers of two digits at least.
ASSUME NumbersAssumption ==
    /\ MaxInt \in Nat /\ MaxLargestInt \in Nat /\ MaxInt <= MaxLargestInt
    /\ MaxLargestInt >= 9
    /\ Digits \subseteq 0..9
    /\ MaxLength \in Nat

VARIABLES n_pc, text, ours, negative, pos, value, kind, decoded, exact

Number == INSTANCE JsonNumber WITH pc <- n_pc

------------------------------------------------------------------------------
(* Properties *)

\* Every integral token of either reader that fits becomes exactly its integer, the
\* smallest one included, and every other one a double: "treat this number as a double to
\* avoid overflow" (decodeNumber).
IntegerIfItFits == Number!IntegerIfItFits
==============================================================================
