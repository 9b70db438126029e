------------------------------ MODULE JsonValues ------------------------------
(***************************************************************************)
(* Json::Value of jsoncpp: its memory (JsonMemory) and its order            *)
(* (JsonCompare).                                                           *)
(***************************************************************************)
EXTENDS Integers

CONSTANTS
    (* JsonMemory *)
    Variables, MaxBuffers,
    (* JsonCompare *)
    Bytes, MaxLength, MaxIndex

VARIABLES
    (* JsonMemory *)
    m_value, heap,
    (* JsonCompare *)
    c_x, c_y, c_z, c_result

ASSUME ValuesAssumption ==
    /\ MaxBuffers \in Nat
    /\ Bytes \subseteq Nat /\ MaxLength \in Nat /\ MaxIndex \in Nat

Memory == INSTANCE JsonMemory WITH value <- m_value

Comparison == INSTANCE JsonCompare WITH x <- c_x, y <- c_y, z <- c_z, result <- c_result

------------------------------------------------------------------------------
(* Properties *)

\* What is allocated is what the Values that exist will free, each buffer once: nothing leaks,
\* and a copy never shares a buffer.
OwnedOnce == Memory!OneOwner /\ Memory!NothingLeaks

\* compare and operator< are a total order that agrees with operator==.
TotalOrder == Comparison!TotalOrder
==============================================================================
