------------------------------ MODULE JsonMemory ------------------------------
(***************************************************************************)
(* Who owns the heap in Json::Value (json_value.cpp): the string of a Value *)
(* and the key of a map entry are either a buffer they allocated and free,  *)
(* or a pointer to static storage.  A Value is null, a string or an object  *)
(* with at most one member, whose value is null or a string.                *)
(***************************************************************************)
EXTENDS Integers, FiniteSets, FiniteSetsExt

CONSTANTS
    Variables,  \* the Value variables of a program
    MaxBuffers  \* bound on the heap

VARIABLES
    value,  \* variable -> its Value, or Gone
    heap    \* the allocated buffers

vars == <<value, heap>>

Static == 0     \* a StaticString, or the empty string of Value(stringValue)
Buffers == 1..MaxBuffers

\* A key of an entry is a CZString with policy noDuplication or duplicate: duplicateOnCopy
\* is met in temporaries only.
NoKey == [cstr |-> Static, policy |-> "none"]

NullScalar == [type |-> "null", str |-> Static, allocated |-> FALSE]

Value(type, scalar, key, member) ==
    [type |-> type, str |-> scalar.str, allocated |-> scalar.allocated, key |-> key, member |-> member]

Null == Value("null", NullScalar, NoKey, NullScalar)
EmptyObject == Value("object", NullScalar, NoKey, NullScalar)
String(s) == Value("string", s, NoKey, NullScalar)
Gone == Value("gone", NullScalar, NoKey, NullScalar)

HasMember(v) == v.key # NoKey

\* The buffers the destructors of a key, of a string and of a Value free
KeyFrees(k) == IF k.policy = "duplicate" THEN {k.cstr} ELSE {}
ScalarFrees(s) == IF s.type = "string" /\ s.allocated THEN {s.str} ELSE {}

releasePayload(v) ==
    IF v.type = "object" THEN KeyFrees(v.key) \cup ScalarFrees(v.member)
    ELSE IF v.type = "string" /\ v.allocated THEN {v.str} ELSE {}

\* The buffers a Value points to
Pointers(v) == {v.str, v.key.cstr, v.member.str} \ {Static}

\* malloc
Fresh(used) == Min(Buffers \ used)
CanAllocate(n) == Cardinality(Buffers \ heap) >= n

\* CZString(const CZString&): a key that is not static is duplicated
CopyKey(k, used) ==
    IF k.policy = "duplicate" THEN [cstr |-> Fresh(used), policy |-> "duplicate"] ELSE k

CopyScalar(s, used) ==
    IF s.type = "string" /\ s.allocated THEN [s EXCEPT !.str = Fresh(used)] ELSE s

\* dupPayload
dupPayload(v) ==
    IF v.type = "object"
    THEN LET k == CopyKey(v.key, heap)
         IN  Value("object", NullScalar, k, CopyScalar(v.member, heap \cup KeyFrees(k)))
    ELSE IF v.type = "string" /\ v.allocated THEN [v EXCEPT !.str = Fresh(heap)] ELSE v

------------------------------------------------------------------------------

Init == value = [x \in Variables |-> Gone] /\ heap = {}

Live(x) == value[x] # Gone

\* Value(...): null, static string, string, object
Construct(x) ==
    /\ ~Live(x) /\ CanAllocate(1)
    /\ \E v \in {Null, EmptyObject,
                 String([str |-> Static, allocated |-> FALSE]),
                 String([str |-> Fresh(heap), allocated |-> TRUE])} :
          /\ value' = [value EXCEPT ![x] = v]
          /\ heap' = heap \cup Pointers(v)

\* Value(const Value&)
CopyConstruct(x, y) ==
    /\ ~Live(x) /\ Live(y) /\ CanAllocate(2)
    /\ value' = [value EXCEPT ![x] = dupPayload(value[y])]
    /\ heap' = heap \cup Pointers(value'[x])

\* Value(Value&&): a null that is swapped
MovedFrom_Kept(v) == v
MovedFrom(v) == Null

MoveConstruct(x, y) ==
    /\ ~Live(x) /\ Live(y)
    /\ value' = [value EXCEPT ![x] = value[y], ![y] = MovedFrom(value[y])]
    /\ UNCHANGED heap

\* operator=(const Value&): a copy is swapped in, and its destructor frees what was there
Assign(x, y) ==
    /\ Live(x) /\ Live(y) /\ CanAllocate(2)
    /\ value' = [value EXCEPT ![x] = dupPayload(value[y])]
    /\ heap' = (heap \cup Pointers(value'[x])) \ releasePayload(value[x])

\* swap and operator=(Value&&)
Swap(x, y) ==
    /\ Live(x) /\ Live(y)
    /\ value' = [value EXCEPT ![x] = value[y], ![y] = value[x]]
    /\ UNCHANGED heap

\* copy and copyPayload, from another Value: what was there is freed before the copy is made
Copy(x, y) ==
    /\ x # y /\ Live(x) /\ Live(y) /\ CanAllocate(2)
    /\ value' = [value EXCEPT ![x] = dupPayload(value[y])]
    /\ heap' = (heap \ releasePayload(value[x])) \cup Pointers(value'[x])

Destroy(x) ==
    /\ Live(x)
    /\ value' = [value EXCEPT ![x] = Gone]
    /\ heap' = heap \ releasePayload(value[x])

\* x[key] = y, through resolveReference and operator=(const Value&): the key of a new
\* entry is the pointer of a StaticString, or else a copy of a copy, and the first is freed.
SetMember(x, y) ==
    /\ value[x].type \in {"null", "object"} /\ value[y].type \in {"null", "string"} /\ x # y
    /\ CanAllocate(3)
    /\ \E policy \in {"noDuplication", "duplicate"} :
          LET k == IF HasMember(value[x]) THEN value[x].key
                   ELSE [cstr |-> IF policy = "duplicate" THEN Fresh(heap) ELSE Static, policy |-> policy]
              m == CopyScalar([type |-> value[y].type, str |-> value[y].str,
                               allocated |-> value[y].allocated], heap \cup KeyFrees(k))
          IN  /\ value' = [value EXCEPT ![x] = Value("object", NullScalar, k, m)]
              /\ heap' = (heap \ ScalarFrees(value[x].member)) \cup Pointers(value'[x])

\* removeMember(key, &y): the member is moved out and its entry erased
RemoveMember(x, y) ==
    /\ x # y /\ HasMember(value[x]) /\ Live(y)
    /\ value' = [value EXCEPT ![x] = EmptyObject,
                              ![y] = [String(value[x].member) EXCEPT !.type = value[x].member.type]]
    /\ heap' = heap \ (KeyFrees(value[x].key) \cup releasePayload(value[y]))

\* ValueIteratorBase::key: a static string for a static key, else a copy
IteratorKey(x, y) ==
    /\ ~Live(x) /\ Live(y) /\ HasMember(value[y]) /\ CanAllocate(2)
    /\ LET static == value[y].key.policy = "noDuplication"
       IN  value' = [value EXCEPT ![x] =
                String([str |-> IF static THEN Static ELSE Fresh(heap), allocated |-> ~static])]
    /\ heap' = heap \cup Pointers(value'[x])

Next ==
    \E x \in Variables :
        \/ Construct(x)
        \/ Destroy(x)
        \/ \E y \in Variables :
              \/ CopyConstruct(x, y)
              \/ MoveConstruct(x, y)
              \/ Assign(x, y)
              \/ Swap(x, y)
              \/ Copy(x, y)
              \/ SetMember(x, y)
              \/ RemoveMember(x, y)
              \/ IteratorKey(x, y)

Spec == Init /\ [][Next]_vars

------------------------------------------------------------------------------
(* Properties *)

\* Every buffer a Value or a key will free is allocated, and every allocated buffer will
\* be freed: nothing dangles and nothing leaks, whatever was copied, moved, swapped or
\* removed.  With no Value alive the heap is empty.
NothingLeaks == heap = UNION {releasePayload(value[x]) : x \in Variables}

\* No two owners free the same buffer: a copy never shares one.
OneOwner ==
    /\ \A x, y \in Variables : x # y => releasePayload(value[x]) \cap releasePayload(value[y]) = {}
    /\ \A x \in Variables : KeyFrees(value[x].key) \cap ScalarFrees(value[x].member) = {}
==============================================================================
