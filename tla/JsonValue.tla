------------------------------ MODULE JsonValue -------------------------------
(***************************************************************************)
(* The container operations of Json::Value (json_value.cpp).  An array is a *)
(* map from indexes to Values, which may have holes; an object is a map     *)
(* from names.  A name is a sequence of characters that may hold NUL.       *)
(* JSON_ASSERT aborts: the build has no exceptions.                         *)
(***************************************************************************)
EXTENDS Integers, Sequences, FiniteSets, FiniteSetsExt

CONSTANTS
    Payloads, NullValue,    \* contents
    Letters, NUL,           \* characters of the names, and the zero character
    MaxSize                 \* bound: size of an array

VARIABLES
    type,       \* type()
    map,        \* *value_.map_
    dense,      \* does the caller index at most one past the end, as the reader does?
    live,       \* FALSE once an assertion has failed
    call        \* observer: the last call, and the key it named

vars == <<type, map, dense, live, call>>

\* Member names: some are what another one is before its NUL.
Names == {<<c>> : c \in Letters} \cup {<<c, NUL, d>> : c, d \in Letters}

Contents == Payloads \cup {NullValue}
Empty == [k \in {} |-> NullValue]
NoCall == [op |-> "none", key |-> 0]

Init ==
    /\ type = "null" /\ map = Empty /\ live = TRUE /\ call = NoCall
    /\ dense \in BOOLEAN

\* size of an array: highest index + 1
SizeOf(m) == IF DOMAIN m = {} THEN 0 ELSE Max(DOMAIN m) + 1

Size == IF type = "object" THEN Cardinality(DOMAIN map) ELSE SizeOf(map)

\* What (*this)[i] refers to, null if it was just created.
At(m, k) == IF k \in DOMAIN m THEN m[k] ELSE NullValue

\* The map with the entry of k set, or made
With(m, k, v) == [j \in DOMAIN m \cup {k} |-> IF j = k THEN v ELSE m[j]]

Called(op, key) == call' = [op |-> op, key |-> key] /\ UNCHANGED dense

\* JSON_ASSERT_MESSAGE(type() == nullValue || type() == t, ...)
Requires(t) == live /\ type \in {"null", t}

------------------------------------------------------------------------------
(* Arrays *)

Becomes(t, m) == type' = t /\ map' = m /\ live' = TRUE

\* (*this)[i] = v
SetElement ==
    /\ Requires("array")
    /\ \E i \in 0..(MaxSize - 1), v \in Contents :
          /\ dense => i <= Size
          /\ Becomes("array", With(map, i, v)) /\ Called("set", i)

\* emplace(size(), value)
Add ==
    /\ Requires("array") /\ Size < MaxSize
    /\ \E v \in Contents : Becomes("array", With(map, Size, v))
    /\ Called("append", Size)

\* Elements index..length-1 move up by one; holes between them become null.
Shifted(i, v) ==
    [k \in DOMAIN map \cup i..SizeOf(map) |->
        IF k < i THEN map[k] ELSE IF k = i THEN v ELSE At(map, k - 1)]

Insert ==
    /\ Requires("array") /\ Size < MaxSize
    /\ \E i \in 0..MaxSize, v \in Contents :
          /\ IF i > Size THEN UNCHANGED <<type, map, live>> ELSE Becomes("array", Shifted(i, v))
          /\ Called("insert", i)

\* Elements after index move down, and the last one is erased.
Closed_KeepsLast(i) ==
    [k \in DOMAIN map \cup i..(SizeOf(map) - 2) |->
        IF k < i \/ k = SizeOf(map) - 1 THEN map[k] ELSE At(map, k + 1)]

Closed(i) ==
    [k \in (DOMAIN map \cup i..(SizeOf(map) - 2)) \ {SizeOf(map) - 1} |->
        IF k < i THEN map[k] ELSE At(map, k + 1)]

RemoveIndex ==
    /\ live
    /\ \E i \in 0..(MaxSize - 1) :
          /\ IF type # "array" \/ i \notin DOMAIN map THEN UNCHANGED <<type, map, live>>
             ELSE Becomes("array", Closed(i))
          /\ Called("removeIndex", i)

\* erase from newSize on
Cut(n) == [k \in {k \in DOMAIN map : k < n} |-> map[k]]

Grown_LastOnly(n) == With(map, n - 1, NullValue)

\* (*this)[i] for every index from the old size on
Grown(n) == [k \in DOMAIN map \cup Size..(n - 1) |-> At(map, k)]

\* The last line of resize is JSON_ASSERT(size() == newSize).
Resize ==
    /\ Requires("array")
    /\ \E n \in 0..MaxSize :
          /\ type' = "array"
          /\ map' = IF n = 0 THEN Empty ELSE IF n > Size THEN Grown(n) ELSE Cut(n)
          /\ live' = (n = 0 \/ n > Size \/ SizeOf(Cut(n)) = n)
          /\ Called("resize", n)

Clear ==
    /\ live
    /\ Becomes(type, Empty) /\ Called("clear", 0)

------------------------------------------------------------------------------
(* Objects *)

\* (*this)[name] = v, by way of resolveReference
SetMember ==
    /\ Requires("object")
    /\ \E n \in Names, v \in Contents :
          Becomes("object", With(map, n, v)) /\ Called("member", n)

Without(n) == [k \in DOMAIN map \ {n} |-> map[k]]

\* removeMember(begin, end, removed), and with a String and removed
RemoveMember ==
    /\ live
    /\ \E n \in Names :
          /\ IF type # "object" THEN UNCHANGED <<type, map, live>>
             ELSE Becomes("object", Without(n))
          /\ Called("removeMember", n)

\* What strlen sees of a name.
CString(n) ==
    LET nuls == {i \in 1..Len(n) : n[i] = NUL}
    IN  IF nuls = {} THEN n ELSE SubSeq(n, 1, Min(nuls) - 1)

\* removeMember(const String&): by way of c_str()
RemoveMemberString ==
    /\ Requires("object")
    /\ \E n \in Names : Becomes(type, Without(CString(n))) /\ Called("removeMember(String)", n)

\* A call for the other kind of container: the assertion at its head fails.
WrongType ==
    /\ live /\ type # "null"
    /\ live' = FALSE /\ Called("wrong type", 0)
    /\ UNCHANGED <<type, map>>

Next == \/ SetElement \/ Add \/ Insert \/ RemoveIndex \/ Resize \/ Clear
        \/ SetMember \/ RemoveMember \/ RemoveMemberString \/ WrongType

Spec == Init /\ [][Next]_vars

------------------------------------------------------------------------------
(* Reading *)

\* get(index, default) and get(name, default)
Get(k, default) == IF k \in DOMAIN map THEN map[k] ELSE default

------------------------------------------------------------------------------
(* Properties *)

TypeOK ==
    /\ type \in {"null", "array", "object"}
    /\ DOMAIN map \subseteq IF type = "object" THEN Names ELSE 0..(MaxSize - 1)
    /\ type = "null" => map = Empty
    /\ \A k \in DOMAIN map : map[k] \in Contents
    /\ dense \in BOOLEAN /\ live \in BOOLEAN

\* The list that an array without holes is kept for, empty for an object
List == IF type = "object" THEN <<>> ELSE [i \in 1..SizeOf(map) |-> At(map, i - 1)]

\* JSON_ASSERT(size() == newSize), at the end of resize.
ResizeAssert == call.op = "resize" => live

\* get: "If the array contains at least index+1 elements, returns the element value,
\* otherwise returns defaultValue."  There is no hole for the default to fill.
GetWithinSize ==
    type = "array" => \A i \in 0..(MaxSize - 1), d \in Payloads :
                          Get(i, d) = IF i < Size THEN At(map, i) ELSE d

\* "key may contain embedded nulls": a call that is given a name with its length changes
\* no other member.
OthersKept ==
    type = "object" /\ call'.op \in {"member", "removeMember"} =>
        \A n \in Names \ {call'.key} : At(map', n) = At(map, n)
==============================================================================
