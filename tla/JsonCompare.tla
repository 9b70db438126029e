----------------------------- MODULE JsonCompare ------------------------------
(***************************************************************************)
(* The order of Json::Value and of the keys of its maps: operator<,         *)
(* operator== and compare (json_value.cpp).  A value is its type and what   *)
(* is stored: a number, the bytes of a string, or the entries of a map in   *)
(* the order of their keys.  The elements of a container are scalars.       *)
(***************************************************************************)
EXTENDS Integers, Sequences

CONSTANTS
    Bytes,      \* the bytes strings are made of
    MaxLength,  \* bound on the length of strings and containers
    MaxIndex    \* bound on the indexes of an array: it may have holes

\* ValueType (value.h)
nullValue == 0
intValue == 1
realValue == 3
stringValue == 4
booleanValue == 5
arrayValue == 6
objectValue == 7

SeqUpTo(S, n) == UNION {[1..k -> S] : k \in 0..n}

------------------------------------------------------------------------------
(* Comparisons *)

\* std::lexicographical_compare with the order Lt: also memcmp of the shorter length,
\* then the lengths.
Agree(s, t, n, Lt(_, _)) == \A j \in 1..n : ~Lt(s[j], t[j]) /\ ~Lt(t[j], s[j])

Lexicographic(s, t, Lt(_, _)) ==
    \/ \E i \in 1..Len(s) : i <= Len(t) /\ Agree(s, t, i - 1, Lt) /\ Lt(s[i], t[i])
    \/ Len(s) < Len(t) /\ Agree(s, t, Len(s), Lt)

Below(m, n) == m < n

BytesLess(s, t) == Lexicographic(s, t, Below)

\* CZString::operator<: the keys of one map are all indexes or all names
KeyLess_CommonLength(k, l) ==
    IF k.name = <<>> /\ l.name = <<>> THEN k.index < l.index
    ELSE \E i \in 1..Len(k.name) :
            i <= Len(l.name) /\ Agree(k.name, l.name, i - 1, Below) /\ k.name[i] < l.name[i]

KeyLess(k, l) == IF k.name = <<>> /\ l.name = <<>> THEN k.index < l.index ELSE BytesLess(k.name, l.name)

\* operator< of two scalars
ScalarLess(v, w) ==
    \/ v.type < w.type
    \/ v.type = w.type /\ BytesLess(v.data, w.data)

\* std::pair's operator<: the key, then the value
EntryLess(e, f) == KeyLess(e.key, f.key) \/ (~KeyLess(f.key, e.key) /\ ScalarLess(e.val, f.val))

Less(v, w) ==
    \/ v.type < w.type
    \/ /\ v.type = w.type
       /\ IF v.type \in {arrayValue, objectValue}
          THEN IF Len(v.data) # Len(w.data)
               THEN Len(v.data) < Len(w.data)
               ELSE Lexicographic(v.data, w.data, EntryLess)
          ELSE ScalarLess(v, w)

Equal(v, w) == v.type = w.type /\ Len(v.data) = Len(w.data) /\ v.data = w.data

Compare(v, w) == IF Less(v, w) THEN -1 ELSE IF Less(w, v) THEN 1 ELSE 0

------------------------------------------------------------------------------
(* The values compared *)

Scalars ==
    {[type |-> nullValue, data |-> <<>>]}
        \cup {[type |-> t, data |-> <<n>>] : t \in {intValue, realValue, booleanValue}, n \in 0..1}
        \cup {[type |-> stringValue, data |-> s] : s \in SeqUpTo(Bytes, MaxLength)}

\* Elements of containers: of two types, two of them of one type
Elements == {v \in Scalars : v.type = intValue \/ (v.type = stringValue /\ v.data = <<>>)}

\* Member names, one of them the beginning of another
Names == {<<0>>, <<0, 1>>, <<1>>}

Entries(type) ==
    {[key |-> k, val |-> v] :
        k \in IF type = arrayValue THEN {[name |-> <<>>, index |-> i] : i \in 0..MaxIndex}
                              ELSE {[name |-> n, index |-> 0] : n \in Names},
        v \in Elements}

Containers(type) ==
    {[type |-> type, data |-> es] :
        es \in {es \in SeqUpTo(Entries(type), 2) :
                    \A i \in 1..Len(es) - 1 : KeyLess(es[i].key, es[i + 1].key)}}

AllValues == Scalars \cup Containers(arrayValue) \cup Containers(objectValue)

VARIABLES x, y, z, result

vars == <<x, y, z, result>>

Unset == 2

Init == x \in AllValues /\ y \in AllValues /\ z = x /\ result = Unset

\* x.compare(y), beside a third value
CompareXY == result = Unset /\ result' = Compare(x, y) /\ z' \in AllValues /\ UNCHANGED <<x, y>>

Next == CompareXY

Spec == Init /\ [][Next]_vars

------------------------------------------------------------------------------
(* Properties *)

\* compare is a total order that agrees with operator==: nothing else keeps the maps and
\* a sort by operator< well defined.  It is antisymmetric, zero for equal values only,
\* and transitive.
TotalOrder ==
    result # Unset =>
        /\ Compare(y, x) = -result
        /\ result = 0 <=> Equal(x, y)
        /\ result <= 0 /\ Compare(y, z) <= 0 => Compare(x, z) <= 0
==============================================================================
