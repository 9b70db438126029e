--------------------------- MODULE JsonValuesProofs ---------------------------
(***************************************************************************)
(* The memory of Json::Value, for a heap of every size and every set of     *)
(* Values: each buffer has one owner.  The order of Json::Value, for        *)
(* strings of all bytes and lengths: it is total.                           *)
(***************************************************************************)
EXTENDS JsonValues, FiniteSets, FiniteSetTheorems, SequenceTheorems, WellFoundedInduction, TLAPS

------------------------------------------------------------------------------
(* Numbers *)

\* A set of naturals that is not empty has a least element.
LEMMA Least ==
    ASSUME NEW S \in SUBSET Nat, S # {}
    PROVE  \E n \in S : \A m \in S : n <= m
<1>1. PICK n \in S : \A m \in S : <<m, n>> \notin OpToRel(<, Nat)
  BY NatLessThanWellFounded, WFMin
<1>2. \A m \in S : ~(m < n)
  BY <1>1 DEF OpToRel
<1> QED
  BY <1>2

------------------------------------------------------------------------------
(* The memory of Json::Value *)

Buffers == 1..MaxBuffers

\* The keys and the strings that a Value may hold: each has a buffer of its own or none
IsKey(k) ==
    \/ k = Memory!NoKey
    \/ k = [cstr |-> 0, policy |-> "noDuplication"]
    \/ \E b \in Buffers : k = [cstr |-> b, policy |-> "duplicate"]

IsString(s) ==
    \/ s = [type |-> "string", str |-> 0, allocated |-> FALSE]
    \/ \E b \in Buffers : s = [type |-> "string", str |-> b, allocated |-> TRUE]

IsScalar(s) == s = Memory!NullScalar \/ IsString(s)

IsObject(v) ==
    \E k, m : /\ IsKey(k) /\ IsScalar(m)
              /\ v = Memory!Value("object", Memory!NullScalar, k, m)
              /\ k = Memory!NoKey => m = Memory!NullScalar
              /\ Memory!KeyFrees(k) \cap Memory!ScalarFrees(m) = {}

IsValue(v) ==
    \/ v \in {Memory!Null, Memory!Gone}
    \/ \E s : IsString(s) /\ v = Memory!String(s)
    \/ IsObject(v)

\* What the destructor of each Value frees
Frees(f) == [p \in Variables |-> Memory!releasePayload(f[p])]

Apart(f) == \A p, q \in Variables : p # q => f[p] \cap f[q] = {}

Owns(f, h) == Apart(f) /\ h = UNION {f[p] : p \in Variables}

\* The inductive invariant: OwnedOnce, of Values that the operations can leave behind
MemoryInv ==
    /\ DOMAIN m_value = Variables
    /\ \A p \in Variables : IsValue(m_value[p])
    /\ heap \subseteq Buffers
    /\ Owns(Frees(m_value), heap)

\* malloc returns a buffer that is not in use.
LEMMA Allocated ==
    ASSUME NEW used, Buffers \ used # {}
    PROVE  Memory!Fresh(used) \in Buffers \ used
<1> DEFINE free == Buffers \ used
<1>1. free \in SUBSET Nat
  BY DEF Buffers
<1>2. \E n \in free : \A m \in free : n <= m
  BY <1>1, Least
<1>3. Memory!Fresh(used) = Memory!Min(free)
  BY DEF Memory!Fresh, Memory!Buffers, Buffers
<1> QED
  BY <1>2, <1>3 DEF Memory!Min

LEMMA SameCount == \A T : Memory!Cardinality(T) = Cardinality(T)
BY DEF Memory!Cardinality, Cardinality

\* Where one buffer is free there is one, where two are, there is another one.
LEMMA Room ==
    /\ Memory!CanAllocate(1) => Buffers \ heap # {}
    /\ Memory!CanAllocate(2) \/ Memory!CanAllocate(3) =>
          /\ Buffers \ heap # {}
          /\ \A b : Buffers \ (heap \cup {b}) # {}
<1> DEFINE free == Buffers \ heap
<1>1. IsFiniteSet(free) /\ Cardinality(free) \in Nat
  <2>1. IsFiniteSet(Buffers)
    BY ValuesAssumption, FS_Interval DEF Buffers
  <2> QED
    BY <2>1, FS_Subset, FS_CardinalityType
<1>2. ASSUME NEW n \in 1..3, Memory!CanAllocate(n) PROVE Cardinality(free) >= n
  BY <1>2, SameCount DEF Memory!CanAllocate, Memory!Buffers, Buffers
<1> HIDE DEF free
<1>3. free = {} => Cardinality(free) = 0
  BY FS_EmptySet
<1>4. ASSUME NEW b, free \subseteq {b} PROVE Cardinality(free) <= 1
  <2>1. IsFiniteSet({b}) /\ Cardinality({b}) = 1
    BY FS_Singleton
  <2> QED
    BY <1>4, <2>1, FS_Subset
<1>5. \A b : Buffers \ (heap \cup {b}) = {} => free \subseteq {b}
  BY DEF free
<1>6. Memory!CanAllocate(1) => free # {}
  BY <1>1, <1>2, <1>3
<1>7. Memory!CanAllocate(2) \/ Memory!CanAllocate(3) => Cardinality(free) >= 2
  BY <1>1, <1>2
<1>8. Memory!CanAllocate(2) \/ Memory!CanAllocate(3) => \A b : ~(free \subseteq {b})
  BY <1>1, <1>4, <1>7
<1>9. Memory!CanAllocate(2) \/ Memory!CanAllocate(3) => free # {}
  BY <1>8
<1>10. Memory!CanAllocate(2) \/ Memory!CanAllocate(3) =>
          \A b : Buffers \ (heap \cup {b}) # {}
  BY <1>5, <1>8
<1> QED
  BY <1>6, <1>9, <1>10 DEF free

\* A key points to the buffer that it frees, if it has one, and so does a string.
LEMMA KeyOwns ==
    ASSUME NEW k, IsKey(k)
    PROVE  {k.cstr} \ {0} = Memory!KeyFrees(k) /\ Memory!KeyFrees(k) \subseteq Buffers
BY DEF IsKey, Buffers, Memory!NoKey, Memory!Static, Memory!KeyFrees

LEMMA ScalarOwns ==
    ASSUME NEW s, IsScalar(s)
    PROVE  {s.str} \ {0} = Memory!ScalarFrees(s) /\ Memory!ScalarFrees(s) \subseteq Buffers
BY DEF IsScalar, IsString, Buffers, Memory!NullScalar, Memory!Static, Memory!ScalarFrees

\* The destructor of a string frees what the string has, that of an object what its key and
\* its member have; others free nothing.
LEMMA StringRelease ==
    ASSUME NEW s, IsString(s)
    PROVE  /\ IsValue(Memory!String(s)) /\ IsScalar(s)
           /\ Memory!releasePayload(Memory!String(s)) = Memory!ScalarFrees(s)
           /\ Memory!Pointers(Memory!String(s)) = Memory!ScalarFrees(s)
<1>1. IsScalar(s) /\ IsValue(Memory!String(s))
  BY DEF IsScalar, IsValue
<1> DEFINE v == Memory!String(s)
<1>2. /\ v.type = "string" /\ v.str = s.str /\ v.allocated = s.allocated
      /\ v.key = Memory!NoKey /\ v.member = Memory!NullScalar
  BY DEF Memory!String, Memory!Value
<1>3. s.type = "string"
  BY DEF IsString
<1> HIDE DEF v
<1>4. Memory!releasePayload(v) = Memory!ScalarFrees(s)
  BY <1>2, <1>3 DEF Memory!releasePayload, Memory!ScalarFrees
<1>5. Memory!Pointers(v) = {s.str} \ {0}
  BY <1>2 DEF Memory!Pointers, Memory!Static, Memory!NoKey, Memory!NullScalar
<1> QED
  BY <1>1, <1>4, <1>5, ScalarOwns DEF v

LEMMA ObjectRelease ==
    ASSUME NEW k, NEW m, IsKey(k), IsScalar(m)
    PROVE  LET v == Memory!Value("object", Memory!NullScalar, k, m)
           IN  /\ Memory!releasePayload(v) = Memory!KeyFrees(k) \cup Memory!ScalarFrees(m)
               /\ Memory!Pointers(v) = Memory!releasePayload(v)
               /\ v.type = "object" /\ v.key = k /\ v.member = m
<1> DEFINE v == Memory!Value("object", Memory!NullScalar, k, m)
<1>1. v.type = "object" /\ v.str = 0 /\ v.key = k /\ v.member = m
  BY DEF Memory!Value, Memory!NullScalar, Memory!Static
<1> HIDE DEF v
<1>2. Memory!releasePayload(v) = Memory!KeyFrees(k) \cup Memory!ScalarFrees(m)
  BY <1>1 DEF Memory!releasePayload
<1>3. Memory!Pointers(v) = ({k.cstr} \ {0}) \cup ({m.str} \ {0})
  BY <1>1 DEF Memory!Pointers, Memory!Static
<1>4. Memory!Pointers(v) = Memory!releasePayload(v)
  BY <1>2, <1>3, KeyOwns, ScalarOwns
<1> QED
  BY <1>1, <1>2, <1>4 DEF v

LEMMA EmptyRelease ==
    ASSUME NEW v \in {Memory!Null, Memory!Gone, Memory!EmptyObject}
    PROVE  IsValue(v) /\ Memory!releasePayload(v) = {} /\ Memory!Pointers(v) = {}
<1>1. CASE v = Memory!EmptyObject
  <2>1. IsKey(Memory!NoKey) /\ IsScalar(Memory!NullScalar)
    BY DEF IsKey, IsScalar
  <2>2. Memory!KeyFrees(Memory!NoKey) = {} /\ Memory!ScalarFrees(Memory!NullScalar) = {}
    BY DEF Memory!KeyFrees, Memory!ScalarFrees, Memory!NoKey, Memory!NullScalar
  <2>3. v = Memory!Value("object", Memory!NullScalar, Memory!NoKey, Memory!NullScalar)
    BY <1>1 DEF Memory!EmptyObject
  <2>4. IsObject(v)
    BY <2>1, <2>2, <2>3 DEF IsObject
  <2> QED
    BY <2>1, <2>2, <2>3, <2>4, ObjectRelease DEF IsValue
<1>2. CASE v \in {Memory!Null, Memory!Gone}
  <2>1. IsValue(v)
    BY <1>2 DEF IsValue
  <2>2. v.type \in {"null", "gone"} /\ v.str = 0 /\ v.key = Memory!NoKey /\ v.member = Memory!NullScalar
    <3>1. PICK t \in {"null", "gone"} :
              v = Memory!Value(t, Memory!NullScalar, Memory!NoKey, Memory!NullScalar)
      BY <1>2 DEF Memory!Null, Memory!Gone
    <3>2. Memory!NullScalar.str = 0
      BY DEF Memory!NullScalar, Memory!Static
    <3> QED
      BY <3>1, <3>2 DEF Memory!Value
  <2>3. Memory!releasePayload(v) = {}
    BY <2>2 DEF Memory!releasePayload
  <2>4. Memory!Pointers(v) = {}
    BY <2>2 DEF Memory!Pointers, Memory!NoKey, Memory!NullScalar, Memory!Static
  <2> QED
    BY <2>1, <2>3, <2>4
<1> QED
  BY <1>1, <1>2

\* The buffers a Value points to are those its destructor frees.
LEMMA ValueOwns ==
    ASSUME NEW v, IsValue(v)
    PROVE  /\ Memory!Pointers(v) = Memory!releasePayload(v)
           /\ Memory!releasePayload(v) \subseteq Buffers
<1>1. CASE v \in {Memory!Null, Memory!Gone}
  BY <1>1, EmptyRelease
<1>2. CASE \E s : IsString(s) /\ v = Memory!String(s)
  BY <1>2, StringRelease, ScalarOwns
<1>3. CASE IsObject(v)
  <2>1. PICK k, m : IsKey(k) /\ IsScalar(m) /\ v = Memory!Value("object", Memory!NullScalar, k, m)
    BY <1>3 DEF IsObject
  <2> QED
    BY <2>1, ObjectRelease, KeyOwns, ScalarOwns
<1> QED
  BY <1>1, <1>2, <1>3 DEF IsValue

\* One or two Values exchange what they own for what nobody owns: from f and the heap h to g
\* and the heap i
Exchanges(f, h, g, i, a, b) ==
    /\ a \in Variables /\ b \in Variables
    /\ \A p \in Variables \ {a, b} : g[p] = f[p]
    /\ a # b => g[a] \cap g[b] = {}
    /\ (g[a] \cup g[b]) \cap (h \ (f[a] \cup f[b])) = {}
    /\ i = (h \ (f[a] \cup f[b])) \cup (g[a] \cup g[b])

\* An exchange keeps the Values apart, and their buffers the whole heap.
LEMMA Exchange ==
    ASSUME NEW f, NEW h, NEW g, NEW i, NEW a, NEW b, Owns(f, h), Exchanges(f, h, g, i, a, b)
    PROVE  Owns(g, i)
<1> USE DEF Owns, Exchanges
<1>1. ASSUME NEW p \in Variables \ {a, b} PROVE f[p] \subseteq h \ (f[a] \cup f[b])
  <2>1. f[p] \cap f[a] = {} /\ f[p] \cap f[b] = {}
    BY DEF Apart
  <2>2. f[p] \subseteq h
    OBVIOUS
  <2> QED
    BY <2>1, <2>2
<1>2. ASSUME NEW p \in Variables \ {a, b} PROVE g[p] \cap (g[a] \cup g[b]) = {}
  BY <1>1
<1>3. Apart(g)
  <2> SUFFICES ASSUME NEW p \in Variables, NEW q \in Variables, p # q PROVE g[p] \cap g[q] = {}
    BY DEF Apart
  <2>1. CASE p \in {a, b} /\ q \in {a, b}
    BY <2>1
  <2>2. CASE p \in {a, b} /\ q \notin {a, b}
    BY <1>2, <2>2
  <2>3. CASE p \notin {a, b} /\ q \in {a, b}
    BY <1>2, <2>3
  <2>4. CASE p \notin {a, b} /\ q \notin {a, b}
    BY <2>4 DEF Apart
  <2> QED
    BY <2>1, <2>2, <2>3, <2>4
<1>4. ASSUME NEW e PROVE (e \in h \ (f[a] \cup f[b])) => \E p \in Variables : e \in g[p]
  <2> SUFFICES ASSUME e \in h, e \notin f[a], e \notin f[b] PROVE \E p \in Variables : e \in g[p]
    OBVIOUS
  <2>1. PICK p \in Variables : e \in f[p]
    OBVIOUS
  <2>2. p \in Variables \ {a, b}
    BY <2>1
  <2> QED
    BY <2>1, <2>2
<1>5. ASSUME NEW p \in Variables
      PROVE  g[p] \subseteq (h \ (f[a] \cup f[b])) \cup (g[a] \cup g[b])
  BY <1>1
<1> QED
  BY <1>3, <1>4, <1>5

\* The shape of every operation: one or two Values change.
LEMMA MemoryStep ==
    ASSUME MemoryInv, NEW a \in Variables, NEW b \in Variables,
           DOMAIN m_value' = Variables,
           \A p \in Variables \ {a, b} : m_value'[p] = m_value[p],
           IsValue(m_value'[a]), IsValue(m_value'[b]),
           a # b => Memory!releasePayload(m_value'[a]) \cap Memory!releasePayload(m_value'[b]) = {},
           (Memory!releasePayload(m_value'[a]) \cup Memory!releasePayload(m_value'[b]))
             \cap (heap \ (Memory!releasePayload(m_value[a]) \cup Memory!releasePayload(m_value[b])))
               = {},
           heap' = (heap \ (Memory!releasePayload(m_value[a]) \cup Memory!releasePayload(m_value[b])))
                     \cup (Memory!releasePayload(m_value'[a]) \cup Memory!releasePayload(m_value'[b]))
    PROVE  MemoryInv'
<1> DEFINE f == Frees(m_value)
           g == Frees(m_value')
<1>1. \A p \in Variables : /\ f[p] = Memory!releasePayload(m_value[p])
                           /\ g[p] = Memory!releasePayload(m_value'[p])
  BY DEF Frees
<1>2. \A p \in Variables : IsValue(m_value'[p])
  BY DEF MemoryInv
<1>3. Owns(f, heap) /\ heap \subseteq Buffers
  BY DEF MemoryInv
<1>4. \A p \in Variables \ {a, b} : g[p] = f[p]
  BY <1>1
<1> HIDE DEF f, g
<1>5. /\ a # b => g[a] \cap g[b] = {}
      /\ (g[a] \cup g[b]) \cap (heap \ (f[a] \cup f[b])) = {}
      /\ heap' = (heap \ (f[a] \cup f[b])) \cup (g[a] \cup g[b])
  BY <1>1
<1>6. Owns(g, heap')
  <2>1. Exchanges(f, heap, g, heap', a, b)
    BY <1>4, <1>5 DEF Exchanges
  <2> QED
    BY <1>3, <2>1, Exchange
<1>7. g[a] \subseteq Buffers /\ g[b] \subseteq Buffers
  BY <1>1, ValueOwns
<1>8. heap' \subseteq Buffers
  BY <1>3, <1>5, <1>7
<1> QED
  BY <1>2, <1>6, <1>8 DEF MemoryInv, g

\* A copy of a key and of a string has a buffer that was free, or none.
LEMMA CopiedKey ==
    ASSUME NEW k, IsKey(k), NEW used, Buffers \ used # {}
    PROVE  /\ IsKey(Memory!CopyKey(k, used))
           /\ Memory!KeyFrees(Memory!CopyKey(k, used)) \cap used = {}
           /\ Memory!CopyKey(k, used) = Memory!NoKey => k = Memory!NoKey
<1> DEFINE b == Memory!Fresh(used)
<1>1. b \in Buffers \ used
  BY Allocated
<1> HIDE DEF b
<1>2. CASE k.policy = "duplicate"
  <2>1. Memory!CopyKey(k, used) = [cstr |-> b, policy |-> "duplicate"]
    BY <1>2 DEF Memory!CopyKey, b
  <2> QED
    BY <1>1, <2>1 DEF IsKey, Memory!KeyFrees, Memory!NoKey
<1>3. CASE k.policy # "duplicate"
  BY <1>3 DEF Memory!CopyKey, Memory!KeyFrees
<1> QED
  BY <1>2, <1>3

LEMMA CopiedScalar ==
    ASSUME NEW s, IsScalar(s), NEW used, Buffers \ used # {}
    PROVE  /\ IsScalar(Memory!CopyScalar(s, used))
           /\ Memory!ScalarFrees(Memory!CopyScalar(s, used)) \cap used = {}
           /\ s = Memory!NullScalar => Memory!CopyScalar(s, used) = s
           /\ IsString(s) => IsString(Memory!CopyScalar(s, used))
<1> DEFINE b == Memory!Fresh(used)
<1>1. b \in Buffers \ used
  BY Allocated
<1> HIDE DEF b
<1>2. CASE s.type = "string" /\ s.allocated
  <2>1. s.type = "string" /\ s # Memory!NullScalar
    BY <1>2 DEF Memory!NullScalar
  <2>2. PICK c \in Buffers : s = [type |-> "string", str |-> c, allocated |-> TRUE]
    BY <1>2, <2>1 DEF IsScalar, IsString
  <2>3. Memory!CopyScalar(s, used) = [s EXCEPT !.str = b]
    BY <1>2 DEF Memory!CopyScalar, b
  <2>4. Memory!CopyScalar(s, used) = [type |-> "string", str |-> b, allocated |-> TRUE]
    BY <2>2, <2>3
  <2>5. Memory!ScalarFrees(Memory!CopyScalar(s, used)) = {b}
    BY <2>4 DEF Memory!ScalarFrees
  <2>6. IsString(Memory!CopyScalar(s, used))
    BY <1>1, <2>4 DEF IsString
  <2> QED
    BY <1>1, <2>1, <2>5, <2>6 DEF IsScalar
<1>3. CASE ~(s.type = "string" /\ s.allocated)
  BY <1>3 DEF Memory!CopyScalar, Memory!ScalarFrees
<1> QED
  BY <1>2, <1>3

\* dupPayload shares no buffer with anything that exists.
LEMMA Duplicate ==
    ASSUME NEW v, IsValue(v), Memory!CanAllocate(2)
    PROVE  /\ IsValue(Memory!dupPayload(v))
           /\ Memory!releasePayload(Memory!dupPayload(v)) \cap heap = {}
<1>0. Buffers \ heap # {} /\ \A b : Buffers \ (heap \cup {b}) # {}
  BY Room
<1>1. CASE v \in {Memory!Null, Memory!Gone}
  <2>1. v.type \in {"null", "gone"}
    BY <1>1 DEF Memory!Null, Memory!Gone, Memory!Value
  <2>2. Memory!dupPayload(v) = v
    BY <2>1 DEF Memory!dupPayload
  <2> QED
    BY <1>1, <2>2, EmptyRelease
<1>2. ASSUME NEW s, IsString(s), v = Memory!String(s)
      PROVE  /\ IsValue(Memory!dupPayload(v))
             /\ Memory!releasePayload(Memory!dupPayload(v)) \cap heap = {}
  <2> DEFINE t == Memory!CopyScalar(s, heap)
  <2>1. IsString(t) /\ Memory!ScalarFrees(t) \cap heap = {}
    BY <1>0, <1>2, CopiedScalar DEF IsScalar
  <2>2. v.type = "string" /\ v.allocated = s.allocated
    BY <1>2 DEF Memory!String, Memory!Value
  <2>3. s.type = "string"
    BY <1>2 DEF IsString
  <2>4. Memory!dupPayload(v) = Memory!String(t)
    <3>1. CASE s.allocated
      <4>1. Memory!dupPayload(v) = [v EXCEPT !.str = Memory!Fresh(heap)]
        BY <2>2, <3>1 DEF Memory!dupPayload
      <4>2. t = [s EXCEPT !.str = Memory!Fresh(heap)]
        BY <2>3, <3>1 DEF Memory!CopyScalar
      <4>3. s = [type |-> s.type, str |-> s.str, allocated |-> s.allocated]
        BY <1>2 DEF IsString
      <4>4. t.str = Memory!Fresh(heap) /\ t.allocated = s.allocated
        BY <4>2, <4>3
      <4> HIDE DEF t
      <4> QED
        BY <1>2, <4>1, <4>4 DEF Memory!String, Memory!Value
    <3>2. CASE ~s.allocated
      BY <1>2, <2>2, <2>3, <3>2 DEF Memory!dupPayload, Memory!CopyScalar
    <3> QED
      BY <3>1, <3>2
  <2> HIDE DEF t
  <2> QED
    BY <2>1, <2>4, StringRelease
<1>3. CASE IsObject(v)
  <2>1. PICK k, m : /\ IsKey(k) /\ IsScalar(m)
                    /\ v = Memory!Value("object", Memory!NullScalar, k, m)
                    /\ k = Memory!NoKey => m = Memory!NullScalar
    BY <1>3 DEF IsObject
  <2> DEFINE l == Memory!CopyKey(k, heap)
             n == Memory!CopyScalar(m, heap \cup Memory!KeyFrees(l))
  <2>2. IsKey(l) /\ Memory!KeyFrees(l) \cap heap = {} /\ (l = Memory!NoKey => k = Memory!NoKey)
    BY <1>0, <2>1, CopiedKey
  <2>3. v.type = "object" /\ v.key = k /\ v.member = m
    BY <2>1, ObjectRelease
  <2>4. Memory!dupPayload(v) = Memory!Value("object", Memory!NullScalar, l, n)
    BY <2>3 DEF Memory!dupPayload
  <2> HIDE DEF l
  <2>5. Buffers \ (heap \cup Memory!KeyFrees(l)) # {}
    <3>1. Memory!KeyFrees(l) = {} \/ Memory!KeyFrees(l) = {l.cstr}
      BY DEF Memory!KeyFrees
    <3> QED
      BY <1>0, <3>1
  <2>6. /\ IsScalar(n) /\ Memory!ScalarFrees(n) \cap (heap \cup Memory!KeyFrees(l)) = {}
        /\ m = Memory!NullScalar => n = m
    BY <2>1, <2>5, CopiedScalar
  <2> HIDE DEF n
  <2>7. IsObject(Memory!dupPayload(v))
    BY <2>1, <2>2, <2>4, <2>6 DEF IsObject
  <2> QED
    BY <2>2, <2>4, <2>6, <2>7, ObjectRelease DEF IsValue
<1> QED
  BY <1>1, <1>2, <1>3 DEF IsValue

\* What a Value owns is in the heap, and what another one owns is something else.
LEMMA Owned ==
    ASSUME MemoryInv, NEW p \in Variables
    PROVE  /\ IsValue(m_value[p])
           /\ Memory!releasePayload(m_value[p]) \subseteq heap
           /\ Memory!Pointers(m_value[p]) = Memory!releasePayload(m_value[p])
           /\ \A q \in Variables : q # p =>
                 Memory!releasePayload(m_value[p]) \cap Memory!releasePayload(m_value[q]) = {}
<1> DEFINE f == Frees(m_value)
<1>1. \A q \in Variables : f[q] = Memory!releasePayload(m_value[q])
  BY DEF Frees
<1>2. Apart(f) /\ heap = UNION {f[q] : q \in Variables} /\ IsValue(m_value[p])
  BY DEF MemoryInv, Owns
<1> HIDE DEF f
<1>3. f[p] \subseteq heap /\ \A q \in Variables : q # p => f[p] \cap f[q] = {}
  BY <1>2 DEF Apart
<1> QED
  BY <1>1, <1>2, <1>3, ValueOwns

\* The shape of the operations on one Value
LEMMA OneChanges ==
    ASSUME MemoryInv, NEW a \in Variables, NEW v, IsValue(v),
           m_value' = [m_value EXCEPT ![a] = v],
           Memory!releasePayload(v) \cap (heap \ Memory!releasePayload(m_value[a])) = {},
           heap' = (heap \ Memory!releasePayload(m_value[a])) \cup Memory!releasePayload(v)
    PROVE  MemoryInv'
<1>1. DOMAIN m_value = Variables
  BY DEF MemoryInv
<1>2. /\ DOMAIN m_value' = Variables /\ m_value'[a] = v
      /\ \A p \in Variables \ {a, a} : m_value'[p] = m_value[p]
  BY <1>1
<1> QED
  BY <1>2, MemoryStep

\* and, if it owned nothing, of those that make a Value that owns what nobody did
LEMMA OneMade ==
    ASSUME MemoryInv, NEW a \in Variables, NEW v, IsValue(v),
           m_value' = [m_value EXCEPT ![a] = v],
           Memory!releasePayload(m_value[a]) = {},
           Memory!releasePayload(v) \cap heap = {},
           heap' = heap \cup Memory!Pointers(v)
    PROVE  MemoryInv'
<1>1. Memory!Pointers(v) = Memory!releasePayload(v)
  BY ValueOwns
<1>2. heap' = (heap \ Memory!releasePayload(m_value[a])) \cup Memory!releasePayload(v)
  BY <1>1
<1> QED
  BY <1>2, OneChanges

\* A string that is made in the heap, and a static one
LEMMA Made ==
    ASSUME NEW r, \/ r = [str |-> 0, allocated |-> FALSE]
                  \/ \E b \in Buffers \ heap : r = [str |-> b, allocated |-> TRUE]
    PROVE  /\ IsValue(Memory!String(r))
           /\ Memory!releasePayload(Memory!String(r)) \cap heap = {}
<1> DEFINE s == [type |-> "string", str |-> r.str, allocated |-> r.allocated]
<1>1. IsString(s)
  <2>1. CASE r = [str |-> 0, allocated |-> FALSE]
    <3>1. r.str = 0 /\ r.allocated = FALSE
      BY <2>1
    <3> QED
      BY <3>1, Zenon DEF IsString
  <2>2. CASE \E b \in Buffers \ heap : r = [str |-> b, allocated |-> TRUE]
    <3>1. r.str \in Buffers /\ r.allocated = TRUE
      BY <2>2
    <3> QED
      BY <3>1, Zenon DEF IsString
  <2> QED
    BY <2>1, <2>2
<1>2. Memory!String(r) = Memory!String(s)
  BY DEF Memory!String, Memory!Value
<1>3. Memory!ScalarFrees(s) \cap heap = {}
  BY DEF Memory!ScalarFrees
<1> HIDE DEF s
<1> QED
  BY <1>1, <1>2, <1>3, StringRelease

LEMMA GoneRelease ==
    ASSUME NEW p, ~Memory!Live(p) PROVE Memory!releasePayload(m_value[p]) = {}
BY EmptyRelease DEF Memory!Live

\* The operations that make a Value: Value(...), Value(const Value&) and key of an iterator
LEMMA ConstructStep ==
    ASSUME MemoryInv, NEW a \in Variables, Memory!Construct(a) PROVE MemoryInv'
<1>1. Memory!releasePayload(m_value[a]) = {} /\ Buffers \ heap # {}
  BY GoneRelease, Room DEF Memory!Construct
<1>2. Memory!Fresh(heap) \in Buffers \ heap
  BY <1>1, Allocated
<1>3. PICK v \in {Memory!Null, Memory!EmptyObject,
                  Memory!String([str |-> Memory!Static, allocated |-> FALSE]),
                  Memory!String([str |-> Memory!Fresh(heap), allocated |-> TRUE])} :
          m_value' = [m_value EXCEPT ![a] = v] /\ heap' = heap \cup Memory!Pointers(v)
  BY DEF Memory!Construct
<1>4. IsValue(v) /\ Memory!releasePayload(v) \cap heap = {}
  <2>1. CASE v \in {Memory!Null, Memory!EmptyObject}
    BY <2>1, EmptyRelease
  <2>2. CASE v = Memory!String([str |-> Memory!Static, allocated |-> FALSE])
    BY <2>2, Made DEF Memory!Static
  <2>3. CASE v = Memory!String([str |-> Memory!Fresh(heap), allocated |-> TRUE])
    BY <1>2, <2>3, Made
  <2> QED
    BY <2>1, <2>2, <2>3
<1> QED
  BY <1>1, <1>3, <1>4, OneMade

LEMMA CopyConstructStep ==
    ASSUME MemoryInv, NEW a \in Variables, NEW b \in Variables, Memory!CopyConstruct(a, b)
    PROVE  MemoryInv'
<1> DEFINE v == Memory!dupPayload(m_value[b])
<1>1. DOMAIN m_value = Variables /\ Memory!releasePayload(m_value[a]) = {}
  BY GoneRelease DEF MemoryInv, Memory!CopyConstruct
<1>2. IsValue(v) /\ Memory!releasePayload(v) \cap heap = {}
  BY Owned, Duplicate DEF Memory!CopyConstruct
<1>3. m_value' = [m_value EXCEPT ![a] = v] /\ heap' = heap \cup Memory!Pointers(m_value'[a])
  BY DEF Memory!CopyConstruct
<1> HIDE DEF v
<1>4. heap' = heap \cup Memory!Pointers(v)
  BY <1>1, <1>3
<1> QED
  BY <1>1, <1>2, <1>3, <1>4, OneMade

LEMMA IteratorKeyStep ==
    ASSUME MemoryInv, NEW a \in Variables, NEW b \in Variables, Memory!IteratorKey(a, b)
    PROVE  MemoryInv'
<1> DEFINE static == m_value[b].key.policy = "noDuplication"
           r == [str |-> IF static THEN Memory!Static ELSE Memory!Fresh(heap), allocated |-> ~static]
           v == Memory!String(r)
<1>1. /\ DOMAIN m_value = Variables /\ Memory!releasePayload(m_value[a]) = {}
      /\ Memory!Fresh(heap) \in Buffers \ heap
  BY GoneRelease, Room, Allocated DEF MemoryInv, Memory!IteratorKey
<1>2. IsValue(v) /\ Memory!releasePayload(v) \cap heap = {}
  <2>1. CASE static
    <3>1. r = [str |-> 0, allocated |-> FALSE]
      BY <2>1 DEF Memory!Static
    <3> QED
      BY <3>1, Made
  <2>2. CASE ~static
    <3>1. r = [str |-> Memory!Fresh(heap), allocated |-> TRUE]
      BY <2>2
    <3> QED
      BY <1>1, <3>1, Made
  <2> QED
    BY <2>1, <2>2
<1>3. m_value' = [m_value EXCEPT ![a] = v] /\ heap' = heap \cup Memory!Pointers(m_value'[a])
  BY DEF Memory!IteratorKey
<1> HIDE DEF v
<1>4. heap' = heap \cup Memory!Pointers(v)
  BY <1>1, <1>3
<1> QED
  BY <1>1, <1>2, <1>3, <1>4, OneMade

\* The operations that replace a Value by a copy of another, or destroy it
LEMMA AssignStep ==
    ASSUME MemoryInv, NEW a \in Variables, NEW b \in Variables,
           Memory!Assign(a, b) \/ Memory!Copy(a, b)
    PROVE  MemoryInv'
<1> DEFINE v == Memory!dupPayload(m_value[b])
           old == Memory!releasePayload(m_value[a])
<1>1. IsValue(v) /\ Memory!releasePayload(v) \cap heap = {}
  BY Owned, Duplicate DEF Memory!Assign, Memory!Copy
<1>2. old \subseteq heap /\ DOMAIN m_value = Variables
  BY Owned DEF MemoryInv
<1>3. /\ m_value' = [m_value EXCEPT ![a] = v]
      /\ \/ heap' = (heap \cup Memory!Pointers(m_value'[a])) \ old
         \/ heap' = (heap \ old) \cup Memory!Pointers(m_value'[a])
  BY DEF Memory!Assign, Memory!Copy
<1> HIDE DEF v, old
<1>4. m_value'[a] = v /\ Memory!Pointers(v) = Memory!releasePayload(v)
  BY <1>1, <1>2, <1>3, ValueOwns
<1>5. /\ Memory!releasePayload(v) \cap (heap \ old) = {}
      /\ heap' = (heap \ old) \cup Memory!releasePayload(v)
  BY <1>1, <1>2, <1>3, <1>4
<1> QED
  BY <1>1, <1>3, <1>5, OneChanges DEF old

LEMMA DestroyStep ==
    ASSUME MemoryInv, NEW a \in Variables, Memory!Destroy(a) PROVE MemoryInv'
<1>1. IsValue(Memory!Gone) /\ Memory!releasePayload(Memory!Gone) = {}
  BY EmptyRelease
<1>2. /\ m_value' = [m_value EXCEPT ![a] = Memory!Gone]
      /\ heap' = heap \ Memory!releasePayload(m_value[a])
  BY DEF Memory!Destroy
<1> QED
  BY <1>1, <1>2, OneChanges

\* x[key] = y: the key of an entry that was there stays, and its string is freed.
LEMMA SetMemberStep ==
    ASSUME MemoryInv, NEW a \in Variables, NEW b \in Variables, Memory!SetMember(a, b)
    PROVE  MemoryInv'
<1>0. Buffers \ heap # {} /\ \A e : Buffers \ (heap \cup {e}) # {}
  BY Room DEF Memory!SetMember
<1>1. PICK policy \in {"noDuplication", "duplicate"} :
        LET k == IF Memory!HasMember(m_value[a]) THEN m_value[a].key
                 ELSE [cstr |-> IF policy = "duplicate" THEN Memory!Fresh(heap) ELSE Memory!Static,
                       policy |-> policy]
            m == Memory!CopyScalar([type |-> m_value[b].type, str |-> m_value[b].str,
                                    allocated |-> m_value[b].allocated],
                                   heap \cup Memory!KeyFrees(k))
        IN  /\ m_value' = [m_value EXCEPT ![a] = Memory!Value("object", Memory!NullScalar, k, m)]
            /\ heap' = (heap \ Memory!ScalarFrees(m_value[a].member))
                          \cup Memory!Pointers(m_value'[a])
  BY DEF Memory!SetMember
<1> DEFINE k == IF Memory!HasMember(m_value[a]) THEN m_value[a].key
                ELSE [cstr |-> IF policy = "duplicate" THEN Memory!Fresh(heap) ELSE Memory!Static,
                      policy |-> policy]
           s == [type |-> m_value[b].type, str |-> m_value[b].str, allocated |-> m_value[b].allocated]
           m == Memory!CopyScalar(s, heap \cup Memory!KeyFrees(k))
           v == Memory!Value("object", Memory!NullScalar, k, m)
           key == m_value[a].key
           member == m_value[a].member
<1>2. /\ m_value' = [m_value EXCEPT ![a] = v]
      /\ heap' = (heap \ Memory!ScalarFrees(member)) \cup Memory!Pointers(m_value'[a])
  BY <1>1
<1>3. /\ IsKey(key) /\ IsScalar(member) /\ Memory!KeyFrees(key) \cap Memory!ScalarFrees(member) = {}
      /\ Memory!releasePayload(m_value[a]) = Memory!KeyFrees(key) \cup Memory!ScalarFrees(member)
      /\ ~Memory!HasMember(m_value[a]) => Memory!KeyFrees(key) = {}
  <2>0. IsValue(m_value[a]) /\ m_value[a].type \in {"null", "object"}
    BY Owned DEF Memory!SetMember
  <2>1. CASE m_value[a] \in {Memory!Null, Memory!Gone}
    <3>1. key = Memory!NoKey /\ member = Memory!NullScalar
      BY <2>1 DEF Memory!Null, Memory!Gone, Memory!Value
    <3>2. Memory!KeyFrees(key) = {} /\ Memory!ScalarFrees(member) = {}
      BY <3>1 DEF Memory!KeyFrees, Memory!ScalarFrees, Memory!NoKey, Memory!NullScalar
    <3>3. IsKey(key) /\ IsScalar(member)
      BY <3>1 DEF IsKey, IsScalar
    <3> QED
      BY <2>1, <3>2, <3>3, EmptyRelease
  <2>2. CASE \E t : IsString(t) /\ m_value[a] = Memory!String(t)
    BY <2>0, <2>2 DEF Memory!String, Memory!Value
  <2>3. CASE IsObject(m_value[a])
    <3>1. PICK l, n : /\ IsKey(l) /\ IsScalar(n)
                      /\ m_value[a] = Memory!Value("object", Memory!NullScalar, l, n)
                      /\ Memory!KeyFrees(l) \cap Memory!ScalarFrees(n) = {}
      BY <2>3 DEF IsObject
    <3>2. key = l /\ member = n /\ Memory!releasePayload(m_value[a]) =
                                      Memory!KeyFrees(l) \cup Memory!ScalarFrees(n)
      BY <3>1, ObjectRelease
    <3>3. ~Memory!HasMember(m_value[a]) => Memory!KeyFrees(key) = {}
      BY DEF Memory!HasMember, Memory!KeyFrees, Memory!NoKey
    <3> QED
      BY <3>1, <3>2, <3>3
  <2> QED
    BY <2>0, <2>1, <2>2, <2>3 DEF IsValue
<1>4. IsScalar(s)
  <2>0. IsValue(m_value[b]) /\ m_value[b].type \in {"null", "string"}
    BY Owned DEF Memory!SetMember
  <2>1. CASE m_value[b] \in {Memory!Null, Memory!Gone}
    <3>1. m_value[b] = Memory!Value("null", Memory!NullScalar, Memory!NoKey, Memory!NullScalar)
      BY <2>0, <2>1 DEF Memory!Null, Memory!Gone, Memory!Value
    <3> QED
      BY <3>1 DEF Memory!Value, Memory!NullScalar, IsScalar
  <2>2. CASE \E t : IsString(t) /\ m_value[b] = Memory!String(t)
    <3>1. PICK t : IsString(t) /\ m_value[b] = Memory!String(t)
      BY <2>2
    <3>2. t = [type |-> "string", str |-> t.str, allocated |-> t.allocated]
      BY <3>1 DEF IsString
    <3>3. s = [type |-> "string", str |-> t.str, allocated |-> t.allocated]
      BY <3>1 DEF Memory!String, Memory!Value
    <3> QED
      BY <3>1, <3>2, <3>3 DEF IsScalar
  <2>3. CASE IsObject(m_value[b])
    BY <2>0, <2>3, ObjectRelease DEF IsObject
  <2> QED
    BY <2>0, <2>1, <2>2, <2>3 DEF IsValue
<1>5. /\ IsKey(k) /\ k # Memory!NoKey
      /\ IF Memory!HasMember(m_value[a]) THEN k = key ELSE Memory!KeyFrees(k) \cap heap = {}
  <2>1. CASE Memory!HasMember(m_value[a])
    BY <1>3, <2>1 DEF Memory!HasMember
  <2>2. CASE ~Memory!HasMember(m_value[a])
    <3>1. Memory!Fresh(heap) \in Buffers \ heap
      BY <1>0, Allocated
    <3>2. CASE policy = "duplicate"
      <4>1. k = [cstr |-> Memory!Fresh(heap), policy |-> "duplicate"]
        BY <2>2, <3>2
      <4> HIDE DEF k
      <4> QED
        BY <2>2, <3>1, <4>1 DEF IsKey, Memory!KeyFrees, Memory!NoKey
    <3>3. CASE policy = "noDuplication"
      <4>1. k = [cstr |-> 0, policy |-> "noDuplication"]
        BY <2>2, <3>3 DEF Memory!Static
      <4> HIDE DEF k
      <4> QED
        BY <2>2, <4>1 DEF IsKey, Memory!KeyFrees, Memory!NoKey
    <3> QED
      BY <3>2, <3>3
  <2> QED
    BY <2>1, <2>2
<1> HIDE DEF k, s, key, member
<1>6. Buffers \ (heap \cup Memory!KeyFrees(k)) # {}
  <2>1. Memory!KeyFrees(k) = {} \/ Memory!KeyFrees(k) = {k.cstr}
    BY DEF Memory!KeyFrees
  <2> QED
    BY <1>0, <2>1
<1>7. IsScalar(m) /\ Memory!ScalarFrees(m) \cap (heap \cup Memory!KeyFrees(k)) = {}
  BY <1>4, <1>6, CopiedScalar
<1> HIDE DEF m
<1>8. /\ IsValue(v) /\ Memory!Pointers(v) = Memory!releasePayload(v)
      /\ Memory!releasePayload(v) = Memory!KeyFrees(k) \cup Memory!ScalarFrees(m)
  <2>1. Memory!KeyFrees(k) \cap Memory!ScalarFrees(m) = {}
    BY <1>7
  <2>2. IsObject(v)
    BY <1>5, <1>7, <2>1 DEF IsObject
  <2> QED
    BY <1>5, <1>7, <2>2, ObjectRelease DEF IsValue
<1> HIDE DEF v
<1>9. heap' = (heap \ Memory!ScalarFrees(member)) \cup Memory!releasePayload(v)
  <2>1. DOMAIN m_value = Variables
    BY DEF MemoryInv
  <2> QED
    BY <1>2, <1>8, <2>1
<1>10. Memory!releasePayload(m_value[a]) \subseteq heap
  BY Owned
<1>11. heap' = (heap \ Memory!releasePayload(m_value[a])) \cup Memory!releasePayload(v)
  <2>1. CASE Memory!HasMember(m_value[a])
    BY <1>3, <1>5, <1>8, <1>9, <2>1
  <2>2. CASE ~Memory!HasMember(m_value[a])
    BY <1>3, <1>9, <2>2
  <2> QED
    BY <2>1, <2>2
<1>12. Memory!releasePayload(v) \cap (heap \ Memory!releasePayload(m_value[a])) = {}
  <2>1. CASE Memory!HasMember(m_value[a])
    BY <1>3, <1>5, <1>7, <1>8, <2>1
  <2>2. CASE ~Memory!HasMember(m_value[a])
    BY <1>5, <1>7, <1>8, <2>2
  <2> QED
    BY <2>1, <2>2
<1> QED
  BY <1>2, <1>8, <1>11, <1>12, OneChanges

\* The operations on two Values: Value(Value&&), swap, and removeMember with a Value to move to
LEMMA MoveConstructStep ==
    ASSUME MemoryInv, NEW a \in Variables, NEW b \in Variables, Memory!MoveConstruct(a, b)
    PROVE  MemoryInv'
<1>1. DOMAIN m_value = Variables /\ a # b
  BY DEF MemoryInv, Memory!MoveConstruct
<1>2. Memory!releasePayload(m_value[a]) = {} /\ heap' = heap
  BY GoneRelease DEF Memory!MoveConstruct
<1>3. m_value' = [m_value EXCEPT ![a] = m_value[b], ![b] = Memory!Null]
  BY DEF Memory!MoveConstruct, Memory!MovedFrom
<1>4. /\ DOMAIN m_value' = Variables /\ m_value'[a] = m_value[b] /\ m_value'[b] = Memory!Null
      /\ \A p \in Variables \ {a, b} : m_value'[p] = m_value[p]
  BY <1>1, <1>3
<1>5. IsValue(Memory!Null) /\ Memory!releasePayload(Memory!Null) = {}
  BY EmptyRelease
<1>6. IsValue(m_value[b]) /\ Memory!releasePayload(m_value[b]) \subseteq heap
  BY Owned
<1>7. heap' = (heap \ (Memory!releasePayload(m_value[a]) \cup Memory!releasePayload(m_value[b])))
                  \cup (Memory!releasePayload(m_value'[a]) \cup Memory!releasePayload(m_value'[b]))
  BY <1>2, <1>4, <1>5, <1>6
<1>8. /\ Memory!releasePayload(m_value'[a]) \cap Memory!releasePayload(m_value'[b]) = {}
      /\ (Memory!releasePayload(m_value'[a]) \cup Memory!releasePayload(m_value'[b]))
           \cap (heap \ (Memory!releasePayload(m_value[a]) \cup Memory!releasePayload(m_value[b])))
             = {}
  BY <1>4, <1>5
<1> QED
  BY <1>4, <1>5, <1>6, <1>7, <1>8, MemoryStep

LEMMA SwapStep ==
    ASSUME MemoryInv, NEW a \in Variables, NEW b \in Variables, Memory!Swap(a, b)
    PROVE  MemoryInv'
<1>1. DOMAIN m_value = Variables /\ heap' = heap
  BY DEF MemoryInv, Memory!Swap
<1>2. m_value' = [m_value EXCEPT ![a] = m_value[b], ![b] = m_value[a]]
  BY DEF Memory!Swap
<1>3. /\ DOMAIN m_value' = Variables /\ m_value'[a] = m_value[b] /\ m_value'[b] = m_value[a]
      /\ \A p \in Variables \ {a, b} : m_value'[p] = m_value[p]
  BY <1>1, <1>2
<1>4. /\ IsValue(m_value[a]) /\ Memory!releasePayload(m_value[a]) \subseteq heap
      /\ IsValue(m_value[b]) /\ Memory!releasePayload(m_value[b]) \subseteq heap
      /\ a # b => Memory!releasePayload(m_value[a]) \cap Memory!releasePayload(m_value[b]) = {}
  BY Owned
<1>5. heap' = (heap \ (Memory!releasePayload(m_value[a]) \cup Memory!releasePayload(m_value[b])))
                  \cup (Memory!releasePayload(m_value'[a]) \cup Memory!releasePayload(m_value'[b]))
  BY <1>1, <1>3, <1>4
<1>6. /\ a # b => Memory!releasePayload(m_value'[a]) \cap Memory!releasePayload(m_value'[b]) = {}
      /\ (Memory!releasePayload(m_value'[a]) \cup Memory!releasePayload(m_value'[b]))
           \cap (heap \ (Memory!releasePayload(m_value[a]) \cup Memory!releasePayload(m_value[b])))
             = {}
  BY <1>3, <1>4
<1> QED
  BY <1>3, <1>4, <1>5, <1>6, MemoryStep

LEMMA MovedOut ==
    ASSUME NEW m, IsScalar(m)
    PROVE  LET w == [Memory!String(m) EXCEPT !.type = m.type]
           IN  IsValue(w) /\ Memory!releasePayload(w) = Memory!ScalarFrees(m)
<1> DEFINE w == [Memory!String(m) EXCEPT !.type = m.type]
<1>0. w = [type |-> m.type, str |-> m.str, allocated |-> m.allocated, key |-> Memory!NoKey,
           member |-> Memory!NullScalar]
  BY DEF Memory!String, Memory!Value
<1> HIDE DEF w
<1>1. CASE m = Memory!NullScalar
  <2>1. m.type = "null"
    BY <1>1 DEF Memory!NullScalar
  <2>2. w = Memory!Null
    BY <1>0, <1>1, <2>1 DEF Memory!Null, Memory!Value
  <2>3. Memory!ScalarFrees(m) = {}
    BY <2>1 DEF Memory!ScalarFrees
  <2> QED
    BY <2>2, <2>3, EmptyRelease DEF w
<1>2. CASE IsString(m)
  <2>1. m.type = "string"
    BY <1>2 DEF IsString
  <2>2. w = Memory!String(m)
    BY <1>0, <2>1 DEF Memory!String, Memory!Value
  <2> QED
    BY <1>2, <2>2, StringRelease DEF w
<1> QED
  BY <1>1, <1>2 DEF IsScalar

LEMMA RemoveMemberStep ==
    ASSUME MemoryInv, NEW a \in Variables, NEW b \in Variables, Memory!RemoveMember(a, b)
    PROVE  MemoryInv'
<1> DEFINE key == m_value[a].key
           member == m_value[a].member
           w == [Memory!String(member) EXCEPT !.type = member.type]
<1>1. DOMAIN m_value = Variables /\ a # b /\ key # Memory!NoKey
  BY DEF MemoryInv, Memory!RemoveMember, Memory!HasMember
<1>2. /\ m_value' = [m_value EXCEPT ![a] = Memory!EmptyObject, ![b] = w]
      /\ heap' = heap \ (Memory!KeyFrees(key) \cup Memory!releasePayload(m_value[b]))
  BY DEF Memory!RemoveMember
<1>3. /\ IsScalar(member) /\ Memory!KeyFrees(key) \cap Memory!ScalarFrees(member) = {}
      /\ Memory!releasePayload(m_value[a]) = Memory!KeyFrees(key) \cup Memory!ScalarFrees(member)
  <2>1. CASE m_value[a] \in {Memory!Null, Memory!Gone}
    BY <1>1, <2>1 DEF Memory!Null, Memory!Gone, Memory!Value
  <2>2. CASE \E t : IsString(t) /\ m_value[a] = Memory!String(t)
    BY <1>1, <2>2 DEF Memory!String, Memory!Value
  <2>3. CASE IsObject(m_value[a])
    <3>1. PICK l, n : /\ IsKey(l) /\ IsScalar(n)
                      /\ m_value[a] = Memory!Value("object", Memory!NullScalar, l, n)
                      /\ Memory!KeyFrees(l) \cap Memory!ScalarFrees(n) = {}
      BY <2>3 DEF IsObject
    <3> QED
      BY <3>1, ObjectRelease
  <2> QED
    BY <2>1, <2>2, <2>3, Owned DEF IsValue
<1> HIDE DEF key
<1>4. IsValue(w) /\ Memory!releasePayload(w) = Memory!ScalarFrees(member)
  BY <1>3, MovedOut
<1> HIDE DEF member, w
<1>5. /\ DOMAIN m_value' = Variables /\ m_value'[a] = Memory!EmptyObject /\ m_value'[b] = w
      /\ \A p \in Variables \ {a, b} : m_value'[p] = m_value[p]
  BY <1>1, <1>2
<1>6. IsValue(Memory!EmptyObject) /\ Memory!releasePayload(Memory!EmptyObject) = {}
  BY EmptyRelease
<1>7. /\ Memory!releasePayload(m_value[a]) \subseteq heap
      /\ Memory!releasePayload(m_value[b]) \subseteq heap
      /\ Memory!releasePayload(m_value[a]) \cap Memory!releasePayload(m_value[b]) = {}
  BY <1>1, Owned
<1>8. heap' = (heap \ (Memory!releasePayload(m_value[a]) \cup Memory!releasePayload(m_value[b])))
                  \cup (Memory!releasePayload(m_value'[a]) \cup Memory!releasePayload(m_value'[b]))
  BY <1>2, <1>3, <1>4, <1>5, <1>6, <1>7
<1>9. /\ Memory!releasePayload(m_value'[a]) \cap Memory!releasePayload(m_value'[b]) = {}
      /\ (Memory!releasePayload(m_value'[a]) \cup Memory!releasePayload(m_value'[b]))
           \cap (heap \ (Memory!releasePayload(m_value[a]) \cup Memory!releasePayload(m_value[b])))
             = {}
  BY <1>3, <1>4, <1>5, <1>6
<1> QED
  BY <1>4, <1>5, <1>6, <1>8, <1>9, MemoryStep

\* What OwnedOnce says follows from the invariant.
LEMMA MemoryOwned == MemoryInv => OwnedOnce
<1> SUFFICES ASSUME MemoryInv PROVE OwnedOnce
  OBVIOUS
<1>1. \A p, q \in Variables :
         p # q => Memory!releasePayload(m_value[p]) \cap Memory!releasePayload(m_value[q]) = {}
  BY Owned
<1>2. ASSUME NEW p \in Variables
      PROVE  Memory!KeyFrees(m_value[p].key) \cap Memory!ScalarFrees(m_value[p].member) = {}
  <2>1. CASE m_value[p] \in {Memory!Null, Memory!Gone}
    <3>1. m_value[p].key = Memory!NoKey
      BY <2>1 DEF Memory!Null, Memory!Gone, Memory!Value
    <3> QED
      BY <3>1 DEF Memory!KeyFrees, Memory!NoKey
  <2>2. CASE \E t : IsString(t) /\ m_value[p] = Memory!String(t)
    <3>1. m_value[p].key = Memory!NoKey
      BY <2>2 DEF Memory!String, Memory!Value
    <3> QED
      BY <3>1 DEF Memory!KeyFrees, Memory!NoKey
  <2>3. CASE IsObject(m_value[p])
    BY <2>3, ObjectRelease DEF IsObject
  <2> QED
    BY <2>1, <2>2, <2>3, Owned DEF IsValue
<1>3. heap = UNION {Memory!releasePayload(m_value[p]) : p \in Variables}
  <2>1. heap = UNION {Frees(m_value)[p] : p \in Variables}
    BY DEF MemoryInv, Owns
  <2>2. \A p \in Variables : Frees(m_value)[p] = Memory!releasePayload(m_value[p])
    BY DEF Frees
  <2> QED
    BY <2>1, <2>2
<1> QED
  BY <1>1, <1>2, <1>3 DEF OwnedOnce, Memory!OneOwner, Memory!NothingLeaks

\* Whatever a program constructs, copies, moves, swaps, assigns and destroys, in any order and
\* with any number of Values: each buffer of json_value.cpp is freed once, and none is lost.
THEOREM OwnershipKept == Memory!Spec => []OwnedOnce
<1>1. Memory!Init => MemoryInv
  <2> SUFFICES ASSUME Memory!Init PROVE MemoryInv
    OBVIOUS
  <2>1. m_value = [p \in Variables |-> Memory!Gone] /\ heap = {}
    BY DEF Memory!Init
  <2>2. \A p \in Variables : /\ IsValue(m_value[p]) /\ Memory!releasePayload(m_value[p]) = {}
                             /\ Frees(m_value)[p] = Memory!releasePayload(m_value[p])
    BY <2>1, EmptyRelease DEF Frees
  <2>3. Owns(Frees(m_value), heap)
    BY <2>1, <2>2 DEF Owns, Apart
  <2> QED
    BY <2>1, <2>2, <2>3 DEF MemoryInv
<1>2. MemoryInv /\ [Memory!Next]_(Memory!vars) => MemoryInv'
  <2> SUFFICES ASSUME MemoryInv, [Memory!Next]_(Memory!vars) PROVE MemoryInv'
    OBVIOUS
  <2>1. CASE UNCHANGED Memory!vars
    BY <2>1 DEF Memory!vars, MemoryInv
  <2>2. CASE Memory!Next
    BY <2>2, ConstructStep, DestroyStep, CopyConstructStep, MoveConstructStep, AssignStep,
       SwapStep, SetMemberStep, RemoveMemberStep, IteratorKeyStep DEF Memory!Next
  <2> QED
    BY <2>1, <2>2
<1> QED
  BY <1>1, <1>2, MemoryOwned, PTL DEF Memory!Spec

------------------------------------------------------------------------------
(* The order of Json::Value *)

\* R is a strict total order of S.
Strict(R, S) ==
    /\ \A a \in S : <<a, a>> \notin R
    /\ \A a, b \in S : a = b \/ <<a, b>> \in R \/ <<b, a>> \in R
    /\ \A a, b, c \in S : <<a, b>> \in R /\ <<b, c>> \in R => <<a, c>> \in R

\* Lexicographic, of a strict total order
Same(s, t, n) == \A j \in 1..n : s[j] = t[j]

Differs(s, t, i) == i \in 1..Len(s) /\ i \in 1..Len(t) /\ Same(s, t, i - 1) /\ s[i] # t[i]

Precedes(s, t, R) ==
    \/ \E i \in Nat : Differs(s, t, i) /\ <<s[i], t[i]>> \in R
    \/ Len(s) < Len(t) /\ Same(s, t, Len(s))

\* Two sequences differ at a first place, or one is the beginning of the other.
LEMMA FirstDifference ==
    ASSUME NEW S, NEW s \in Seq(S), NEW t \in Seq(S)
    PROVE  \/ s = t
           \/ \E i \in Nat : Differs(s, t, i)
           \/ Len(s) < Len(t) /\ Same(s, t, Len(s))
           \/ Len(t) < Len(s) /\ Same(t, s, Len(t))
<1>0. Len(s) \in Nat /\ Len(t) \in Nat
  BY LenProperties
<1> DEFINE D == {i \in Nat : i \in 1..Len(s) /\ i \in 1..Len(t) /\ s[i] # t[i]}
<1>1. CASE D # {}
  <2>1. PICK i \in D : \A j \in D : i <= j
    BY <1>1, Least
  <2>2. ASSUME NEW j \in 1..(i - 1) PROVE s[j] = t[j]
    <3>1. j \in Nat /\ j < i /\ j \in 1..Len(s) /\ j \in 1..Len(t)
      BY <1>0, <2>1
    <3> QED
      BY <2>1, <3>1
  <2>3. Differs(s, t, i)
    BY <2>1, <2>2 DEF Differs, Same
  <2> QED
    BY <2>3
<1>2. CASE D = {}
  <2>1. ASSUME NEW j \in Nat, j \in 1..Len(s), j \in 1..Len(t) PROVE s[j] = t[j]
    BY <1>2, <2>1
  <2> HIDE DEF D
  <2>2. CASE Len(s) = Len(t)
    <3>1. \A j \in 1..Len(s) : s[j] = t[j]
      BY <1>0, <2>1, <2>2
    <3> QED
      BY <2>2, <3>1, SeqEqual
  <2>3. CASE Len(s) < Len(t)
    <3>1. \A j \in 1..Len(s) : s[j] = t[j]
      BY <1>0, <2>1, <2>3
    <3> QED
      BY <2>3, <3>1 DEF Same
  <2>4. CASE Len(t) < Len(s)
    <3>1. \A j \in 1..Len(t) : t[j] = s[j]
      BY <1>0, <2>1, <2>4
    <3> QED
      BY <2>4, <3>1 DEF Same
  <2> QED
    BY <1>0, <2>2, <2>3, <2>4
<1> QED
  BY <1>1, <1>2

\* A first difference is one of both.
LEMMA DiffersBoth ==
    ASSUME NEW s, NEW t, NEW i PROVE Differs(s, t, i) => Differs(t, s, i)
BY DEF Differs, Same

LEMMA PrecedesTransitive ==
    ASSUME NEW S, NEW R, Strict(R, S), NEW s \in Seq(S), NEW t \in Seq(S), NEW u \in Seq(S),
           Precedes(s, t, R), Precedes(t, u, R)
    PROVE  Precedes(s, u, R)
<1>0. Len(s) \in Nat /\ Len(t) \in Nat /\ Len(u) \in Nat
  BY LenProperties
<1>1. ASSUME NEW i \in Nat, Differs(s, t, i), <<s[i], t[i]>> \in R,
             NEW k \in Nat, Differs(t, u, k), <<t[k], u[k]>> \in R
      PROVE  Precedes(s, u, R)
  <2>0. /\ i \in 1..Len(s) /\ i \in 1..Len(t) /\ (\A j \in 1..(i - 1) : s[j] = t[j])
        /\ k \in 1..Len(t) /\ k \in 1..Len(u) /\ (\A j \in 1..(k - 1) : t[j] = u[j])
    BY <1>1 DEF Differs, Same
  <2>1. CASE i < k
    <3>1. i \in 1..Len(u) /\ t[i] = u[i] /\ (\A j \in 1..(i - 1) : s[j] = u[j])
      BY <1>0, <2>0, <2>1
    <3>2. Differs(s, u, i) /\ <<s[i], u[i]>> \in R
      BY <1>1, <2>0, <3>1 DEF Differs, Same
    <3> QED
      BY <3>2 DEF Precedes
  <2>2. CASE k < i
    <3>1. k \in 1..Len(s) /\ s[k] = t[k] /\ (\A j \in 1..(k - 1) : s[j] = u[j])
      BY <1>0, <2>0, <2>2
    <3>2. Differs(s, u, k) /\ <<s[k], u[k]>> \in R
      BY <1>1, <2>0, <3>1 DEF Differs, Same
    <3> QED
      BY <3>2 DEF Precedes
  <2>3. CASE k = i
    <3>1. \A j \in 1..(i - 1) : s[j] = u[j]
      BY <2>0, <2>3
    <3>2. s[i] \in S /\ t[i] \in S /\ u[i] \in S
      BY <2>0, <2>3, ElementOfSeq
    <3>3. <<s[i], u[i]>> \in R /\ s[i] # u[i]
      BY <1>1, <2>3, <3>2 DEF Strict
    <3>4. Differs(s, u, i)
      BY <2>0, <2>3, <3>1, <3>3 DEF Differs, Same
    <3> QED
      BY <3>3, <3>4 DEF Precedes
  <2> QED
    BY <2>1, <2>2, <2>3
<1>2. ASSUME NEW i \in Nat, Differs(s, t, i), <<s[i], t[i]>> \in R,
             Len(t) < Len(u), Same(t, u, Len(t))
      PROVE  Precedes(s, u, R)
  <2>1. i \in 1..Len(s) /\ i \in 1..Len(t) /\ (\A j \in 1..(i - 1) : s[j] = t[j])
    BY <1>2 DEF Differs, Same
  <2>2. \A j \in 1..Len(t) : t[j] = u[j]
    BY <1>2 DEF Same
  <2>3. i \in 1..Len(u) /\ t[i] = u[i] /\ (\A j \in 1..(i - 1) : s[j] = u[j])
    BY <1>0, <1>2, <2>1, <2>2
  <2>4. Differs(s, u, i) /\ <<s[i], u[i]>> \in R
    BY <1>2, <2>1, <2>3 DEF Differs, Same
  <2> QED
    BY <2>4 DEF Precedes
<1>3. ASSUME Len(s) < Len(t), Same(s, t, Len(s)),
             NEW k \in Nat, Differs(t, u, k), <<t[k], u[k]>> \in R
      PROVE  Precedes(s, u, R)
  <2>1. k \in 1..Len(t) /\ k \in 1..Len(u) /\ (\A j \in 1..(k - 1) : t[j] = u[j])
    BY <1>3 DEF Differs, Same
  <2>2. \A j \in 1..Len(s) : s[j] = t[j]
    BY <1>3 DEF Same
  <2>3. CASE k <= Len(s)
    <3>1. k \in 1..Len(s) /\ s[k] = t[k] /\ (\A j \in 1..(k - 1) : s[j] = u[j])
      BY <1>0, <2>1, <2>2, <2>3
    <3>2. Differs(s, u, k) /\ <<s[k], u[k]>> \in R
      BY <1>3, <2>1, <3>1 DEF Differs, Same
    <3> QED
      BY <3>2 DEF Precedes
  <2>4. CASE Len(s) < k
    <3>1. Len(s) < Len(u) /\ \A j \in 1..Len(s) : s[j] = u[j]
      BY <1>0, <2>1, <2>2, <2>4
    <3> QED
      BY <3>1 DEF Precedes, Same
  <2> QED
    BY <1>0, <2>3, <2>4
<1>4. ASSUME Len(s) < Len(t), Same(s, t, Len(s)), Len(t) < Len(u), Same(t, u, Len(t))
      PROVE  Precedes(s, u, R)
  <2>1. Len(s) < Len(u) /\ \A j \in 1..Len(s) : s[j] = u[j]
    BY <1>0, <1>4 DEF Same
  <2> QED
    BY <2>1 DEF Precedes, Same
<1> QED
  BY <1>1, <1>2, <1>3, <1>4 DEF Precedes

\* std::lexicographical_compare makes a strict total order of sequences from one of elements.
LEMMA PrecedesStrict ==
    ASSUME NEW S, NEW R, Strict(R, S)
    PROVE  /\ \A s \in Seq(S) : ~Precedes(s, s, R)
           /\ \A s, t \in Seq(S) : s = t \/ Precedes(s, t, R) \/ Precedes(t, s, R)
           /\ \A s, t, u \in Seq(S) :
                 Precedes(s, t, R) /\ Precedes(t, u, R) => Precedes(s, u, R)
<1>1. ASSUME NEW s \in Seq(S) PROVE ~Precedes(s, s, R)
  <2>1. ~(Len(s) < Len(s))
    BY LenProperties
  <2> QED
    BY <2>1 DEF Precedes, Differs
<1>2. ASSUME NEW s \in Seq(S), NEW t \in Seq(S)
      PROVE  s = t \/ Precedes(s, t, R) \/ Precedes(t, s, R)
  <2>1. ASSUME NEW i \in Nat, Differs(s, t, i) PROVE Precedes(s, t, R) \/ Precedes(t, s, R)
    <3>1. s[i] \in S /\ t[i] \in S /\ s[i] # t[i]
      BY <2>1, ElementOfSeq DEF Differs
    <3>2. <<s[i], t[i]>> \in R \/ <<t[i], s[i]>> \in R
      BY <3>1 DEF Strict
    <3>3. Differs(t, s, i)
      BY <2>1, DiffersBoth
    <3> QED
      BY <2>1, <3>2, <3>3 DEF Precedes
  <2>2. \/ s = t
        \/ \E i \in Nat : Differs(s, t, i)
        \/ Len(s) < Len(t) /\ Same(s, t, Len(s))
        \/ Len(t) < Len(s) /\ Same(t, s, Len(t))
    BY FirstDifference
  <2> QED
    BY <2>1, <2>2 DEF Precedes
<1> QED
  BY <1>1, <1>2, PrecedesTransitive

\* The orders of json_value.cpp, as relations
IntLess == {p \in Int \X Int : p[1] < p[2]}
ScalarSet == [type : Int, data : Seq(Int)]
ScalarLess == {p \in ScalarSet \X ScalarSet : Comparison!ScalarLess(p[1], p[2])}
KeyLess(K) == {p \in K \X K : Comparison!KeyLess(p[1], p[2])}
EntrySet(K) == [key : K, val : ScalarSet]
EntryLess(K) ==
    {p \in EntrySet(K) \X EntrySet(K) : Comparison!EntryLess(p[1], p[2])}

ArrayKeys == {[name |-> <<>>, index |-> i] : i \in Int}
ObjectKeys == {[name |-> n, index |-> 0] : n \in Seq(Int) \ {<<>>}}

LEMMA IntStrict == Strict(IntLess, Int)
<1>1. \A a, b \in Int : <<a, b>> \in IntLess <=> a < b
  BY DEF IntLess
<1> QED
  BY <1>1 DEF Strict

\* memcmp of the common length, then the lengths
LEMMA BytesOrder ==
    ASSUME NEW s \in Seq(Int), NEW t \in Seq(Int)
    PROVE  Comparison!BytesLess(s, t) <=> Precedes(s, t, IntLess)
<1>0. Len(s) \in Nat /\ Len(t) \in Nat
  BY LenProperties
<1>1. ASSUME NEW j \in Nat, j \in 1..Len(s), j \in 1..Len(t)
      PROVE  /\ s[j] \in Int /\ t[j] \in Int
             /\ <<s[j], t[j]>> \in IntLess <=> s[j] < t[j]
             /\ (~(s[j] < t[j]) /\ ~(t[j] < s[j])) <=> s[j] = t[j]
  <2>1. s[j] \in Int /\ t[j] \in Int
    BY <1>1, ElementOfSeq
  <2> QED
    BY <2>1 DEF IntLess
<1>2. ASSUME NEW n \in Nat, n <= Len(s), n <= Len(t)
      PROVE  Comparison!Agree(s, t, n, Comparison!Below) <=> Same(s, t, n)
  <2>1. \A j \in 1..n : j \in Nat /\ j \in 1..Len(s) /\ j \in 1..Len(t)
    BY <1>0, <1>2
  <2>2. \A j \in 1..n : (~(s[j] < t[j]) /\ ~(t[j] < s[j])) <=> s[j] = t[j]
    BY <1>1, <2>1
  <2> QED
    BY <2>2 DEF Comparison!Agree, Comparison!Below, Same
<1>3. (\E i \in 1..Len(s) : /\ i <= Len(t) /\ Comparison!Agree(s, t, i - 1, Comparison!Below)
                            /\ s[i] < t[i])
      <=> \E i \in Nat : Differs(s, t, i) /\ <<s[i], t[i]>> \in IntLess
  <2>1. ASSUME NEW i \in 1..Len(s), i <= Len(t), s[i] < t[i],
               Comparison!Agree(s, t, i - 1, Comparison!Below)
        PROVE  i \in Nat /\ Differs(s, t, i) /\ <<s[i], t[i]>> \in IntLess
    <3>1. i \in Nat /\ i \in 1..Len(t) /\ i - 1 \in Nat /\ i - 1 <= Len(s) /\ i - 1 <= Len(t)
      BY <1>0, <2>1
    <3>2. s[i] # t[i] /\ <<s[i], t[i]>> \in IntLess
      BY <1>1, <2>1, <3>1
    <3>3. Same(s, t, i - 1)
      BY <1>2, <2>1, <3>1
    <3> QED
      BY <3>1, <3>2, <3>3 DEF Differs
  <2>2. ASSUME NEW i \in Nat, Differs(s, t, i), <<s[i], t[i]>> \in IntLess
        PROVE  /\ i \in 1..Len(s) /\ i <= Len(t) /\ s[i] < t[i]
               /\ Comparison!Agree(s, t, i - 1, Comparison!Below)
    <3>1. i \in 1..Len(s) /\ i \in 1..Len(t) /\ Same(s, t, i - 1)
      BY <2>2 DEF Differs
    <3>2. i <= Len(t) /\ i - 1 \in Nat /\ i - 1 <= Len(s) /\ i - 1 <= Len(t)
      BY <1>0, <3>1
    <3> QED
      BY <1>1, <1>2, <2>2, <3>1, <3>2
  <2> QED
    BY <2>1, <2>2
<1>4. (Len(s) < Len(t) /\ Comparison!Agree(s, t, Len(s), Comparison!Below))
      <=> Len(s) < Len(t) /\ Same(s, t, Len(s))
  BY <1>0, <1>2
<1> QED
  BY <1>3, <1>4
     DEF Comparison!BytesLess, Comparison!Lexicographic, Comparison!Below, Precedes

LEMMA BytesStrict ==
    /\ \A s \in Seq(Int) : ~Comparison!BytesLess(s, s)
    /\ \A s, t \in Seq(Int) : s = t \/ Comparison!BytesLess(s, t) \/ Comparison!BytesLess(t, s)
    /\ \A s, t, u \in Seq(Int) : Comparison!BytesLess(s, t) /\ Comparison!BytesLess(t, u) =>
          Comparison!BytesLess(s, u)
<1>1. /\ \A s \in Seq(Int) : ~Precedes(s, s, IntLess)
      /\ \A s, t \in Seq(Int) : s = t \/ Precedes(s, t, IntLess) \/ Precedes(t, s, IntLess)
      /\ \A s, t, u \in Seq(Int) :
            Precedes(s, t, IntLess) /\ Precedes(t, u, IntLess) => Precedes(s, u, IntLess)
  BY IntStrict, PrecedesStrict
<1> QED
  BY <1>1, BytesOrder

LEMMA ScalarStrict == Strict(ScalarLess, ScalarSet)
<1>1. \A v \in ScalarSet : /\ v.type \in Int /\ v.data \in Seq(Int)
                           /\ v = [type |-> v.type, data |-> v.data]
  BY DEF ScalarSet
<1>2. \A v, w \in ScalarSet : <<v, w>> \in ScalarLess <=>
         v.type < w.type \/ (v.type = w.type /\ Comparison!BytesLess(v.data, w.data))
  BY DEF ScalarLess, Comparison!ScalarLess
<1>3. \A v \in ScalarSet : <<v, v>> \notin ScalarLess
  BY <1>1, <1>2, BytesStrict
<1>4. ASSUME NEW v \in ScalarSet, NEW w \in ScalarSet
      PROVE  v = w \/ <<v, w>> \in ScalarLess \/ <<w, v>> \in ScalarLess
  <2>1. /\ v.type \in Int /\ w.type \in Int /\ v.data \in Seq(Int) /\ w.data \in Seq(Int)
        /\ v.type = w.type /\ v.data = w.data => v = w
    BY <1>1
  <2>2. v.data = w.data \/ Comparison!BytesLess(v.data, w.data)
                        \/ Comparison!BytesLess(w.data, v.data)
    BY <2>1, BytesStrict
  <2>3. v.type < w.type \/ v.type = w.type \/ w.type < v.type
    BY <2>1
  <2> QED
    BY <1>2, <2>1, <2>2, <2>3
<1>5. ASSUME NEW u \in ScalarSet, NEW v \in ScalarSet, NEW w \in ScalarSet,
             <<u, v>> \in ScalarLess, <<v, w>> \in ScalarLess
      PROVE  <<u, w>> \in ScalarLess
  <2>1. /\ u.type \in Int /\ v.type \in Int /\ w.type \in Int
        /\ u.data \in Seq(Int) /\ v.data \in Seq(Int) /\ w.data \in Seq(Int)
    BY <1>1
  <2>2. /\ u.type < v.type \/ (u.type = v.type /\ Comparison!BytesLess(u.data, v.data))
        /\ v.type < w.type \/ (v.type = w.type /\ Comparison!BytesLess(v.data, w.data))
    BY <1>2, <1>5
  <2>3. u.type < w.type \/ (u.type = w.type /\ Comparison!BytesLess(u.data, w.data))
    BY <2>1, <2>2, BytesStrict
  <2> QED
    BY <1>2, <2>3
<1> QED
  BY <1>3, <1>4, <1>5 DEF Strict

\* The keys of an array are ordered by their index, those of an object by their name.
LEMMA KeyStrict == Strict(KeyLess(ArrayKeys), ArrayKeys) /\ Strict(KeyLess(ObjectKeys), ObjectKeys)
<1>1. Strict(KeyLess(ArrayKeys), ArrayKeys)
  <2>1. \A k \in ArrayKeys : /\ k.index \in Int /\ k.name = <<>>
                             /\ k = [name |-> <<>>, index |-> k.index]
    BY DEF ArrayKeys
  <2>2. \A k, l \in ArrayKeys : <<k, l>> \in KeyLess(ArrayKeys) <=> k.index < l.index
    BY <2>1 DEF KeyLess, Comparison!KeyLess
  <2> QED
    BY <2>1, <2>2 DEF Strict
<1>2. Strict(KeyLess(ObjectKeys), ObjectKeys)
  <2>1. \A k \in ObjectKeys : /\ k.name \in Seq(Int) /\ k.name # <<>>
                              /\ k = [name |-> k.name, index |-> 0]
    BY DEF ObjectKeys
  <2>2. \A k, l \in ObjectKeys : <<k, l>> \in KeyLess(ObjectKeys) <=>
                                    Comparison!BytesLess(k.name, l.name)
    BY <2>1 DEF KeyLess, Comparison!KeyLess
  <2> QED
    BY <2>1, <2>2, BytesStrict DEF Strict
<1> QED
  BY <1>1, <1>2

\* std::pair's operator<
LEMMA EntryStrict ==
    ASSUME NEW K, Strict(KeyLess(K), K) PROVE Strict(EntryLess(K), EntrySet(K))
<1>1. \A e \in EntrySet(K) : /\ e.key \in K /\ e.val \in ScalarSet
                             /\ e = [key |-> e.key, val |-> e.val]
  BY DEF EntrySet
<1>2. \A e, f \in EntrySet(K) : <<e, f>> \in EntryLess(K) <=>
         \/ <<e.key, f.key>> \in KeyLess(K)
         \/ <<f.key, e.key>> \notin KeyLess(K) /\ <<e.val, f.val>> \in ScalarLess
  <2>1. ASSUME NEW e \in EntrySet(K), NEW f \in EntrySet(K)
        PROVE  /\ <<e, f>> \in EntryLess(K) <=> Comparison!EntryLess(e, f)
               /\ <<e.key, f.key>> \in KeyLess(K) <=> Comparison!KeyLess(e.key, f.key)
               /\ <<f.key, e.key>> \in KeyLess(K) <=> Comparison!KeyLess(f.key, e.key)
               /\ <<e.val, f.val>> \in ScalarLess <=> Comparison!ScalarLess(e.val, f.val)
    BY <1>1 DEF EntryLess, KeyLess, ScalarLess
  <2> QED
    BY <2>1 DEF Comparison!EntryLess
<1>3. \A e \in EntrySet(K) : <<e, e>> \notin EntryLess(K)
  BY <1>1, <1>2, ScalarStrict DEF Strict
<1>4. \A e, f \in EntrySet(K) : e = f \/ <<e, f>> \in EntryLess(K) \/ <<f, e>> \in EntryLess(K)
  BY <1>1, <1>2, ScalarStrict DEF Strict
<1>5. ASSUME NEW e \in EntrySet(K), NEW f \in EntrySet(K), NEW g \in EntrySet(K),
             <<e, f>> \in EntryLess(K), <<f, g>> \in EntryLess(K)
      PROVE  <<e, g>> \in EntryLess(K)
  <2>1. /\ e.key \in K /\ f.key \in K /\ g.key \in K
        /\ e.val \in ScalarSet /\ f.val \in ScalarSet /\ g.val \in ScalarSet
    BY <1>1
  <2>2. /\ <<e.key, f.key>> \in KeyLess(K) \/ (e.key = f.key /\ <<e.val, f.val>> \in ScalarLess)
        /\ <<f.key, g.key>> \in KeyLess(K) \/ (f.key = g.key /\ <<f.val, g.val>> \in ScalarLess)
    BY <1>2, <1>5, <2>1 DEF Strict
  <2>3. <<e.key, g.key>> \in KeyLess(K) \/ (e.key = g.key /\ <<e.val, g.val>> \in ScalarLess)
    BY <2>1, <2>2, ScalarStrict DEF Strict
  <2>4. e.key = g.key => <<g.key, e.key>> \notin KeyLess(K)
    BY <2>1 DEF Strict
  <2> QED
    BY <1>2, <2>3, <2>4
<1> QED
  BY <1>3, <1>4, <1>5 DEF Strict

\* The maps are compared entry by entry.
LEMMA EntriesOrder ==
    ASSUME NEW K, Strict(EntryLess(K), EntrySet(K)),
           NEW s \in Seq(EntrySet(K)), NEW t \in Seq(EntrySet(K))
    PROVE  Comparison!Lexicographic(s, t, Comparison!EntryLess) <=> Precedes(s, t, EntryLess(K))
<1>0. Len(s) \in Nat /\ Len(t) \in Nat
  BY LenProperties
<1>1. ASSUME NEW j \in Nat, j \in 1..Len(s), j \in 1..Len(t)
      PROVE  /\ <<s[j], t[j]>> \in EntryLess(K) <=> Comparison!EntryLess(s[j], t[j])
             /\ (~Comparison!EntryLess(s[j], t[j]) /\ ~Comparison!EntryLess(t[j], s[j]))
                   <=> s[j] = t[j]
             /\ Comparison!EntryLess(s[j], t[j]) => s[j] # t[j]
  <2>1. s[j] \in EntrySet(K) /\ t[j] \in EntrySet(K)
    BY <1>1, ElementOfSeq
  <2>2. /\ <<s[j], t[j]>> \in EntryLess(K) <=> Comparison!EntryLess(s[j], t[j])
        /\ <<t[j], s[j]>> \in EntryLess(K) <=> Comparison!EntryLess(t[j], s[j])
    BY <2>1 DEF EntryLess
  <2> QED
    BY <2>1, <2>2 DEF Strict
<1>2. ASSUME NEW n \in Nat, n <= Len(s), n <= Len(t)
      PROVE  Comparison!Agree(s, t, n, Comparison!EntryLess) <=> Same(s, t, n)
  <2>1. \A j \in 1..n : j \in Nat /\ j \in 1..Len(s) /\ j \in 1..Len(t)
    BY <1>0, <1>2
  <2>2. \A j \in 1..n :
          (~Comparison!EntryLess(s[j], t[j]) /\ ~Comparison!EntryLess(t[j], s[j])) <=> s[j] = t[j]
    BY <1>1, <2>1
  <2> QED
    BY <2>2 DEF Comparison!Agree, Same
<1>3. (\E i \in 1..Len(s) :
          /\ i <= Len(t) /\ Comparison!Agree(s, t, i - 1, Comparison!EntryLess)
          /\ Comparison!EntryLess(s[i], t[i]))
      <=> \E i \in Nat : Differs(s, t, i) /\ <<s[i], t[i]>> \in EntryLess(K)
  <2>1. ASSUME NEW i \in 1..Len(s), i <= Len(t), Comparison!EntryLess(s[i], t[i]),
               Comparison!Agree(s, t, i - 1, Comparison!EntryLess)
        PROVE  i \in Nat /\ Differs(s, t, i) /\ <<s[i], t[i]>> \in EntryLess(K)
    <3>1. i \in Nat /\ i \in 1..Len(t) /\ i - 1 \in Nat /\ i - 1 <= Len(s) /\ i - 1 <= Len(t)
      BY <1>0, <2>1
    <3>2. s[i] # t[i] /\ <<s[i], t[i]>> \in EntryLess(K)
      BY <1>1, <2>1, <3>1
    <3>3. Same(s, t, i - 1)
      BY <1>2, <2>1, <3>1
    <3> QED
      BY <3>1, <3>2, <3>3 DEF Differs
  <2>2. ASSUME NEW i \in Nat, Differs(s, t, i), <<s[i], t[i]>> \in EntryLess(K)
        PROVE  /\ i \in 1..Len(s) /\ i <= Len(t) /\ Comparison!EntryLess(s[i], t[i])
               /\ Comparison!Agree(s, t, i - 1, Comparison!EntryLess)
    <3>1. i \in 1..Len(s) /\ i \in 1..Len(t) /\ Same(s, t, i - 1)
      BY <2>2 DEF Differs
    <3>2. i <= Len(t) /\ i - 1 \in Nat /\ i - 1 <= Len(s) /\ i - 1 <= Len(t)
      BY <1>0, <3>1
    <3> QED
      BY <1>1, <1>2, <2>2, <3>1, <3>2
  <2> QED
    BY <2>1, <2>2
<1>4. (Len(s) < Len(t) /\ Comparison!Agree(s, t, Len(s), Comparison!EntryLess))
      <=> Len(s) < Len(t) /\ Same(s, t, Len(s))
  BY <1>0, <1>2
<1> QED
  BY <1>3, <1>4 DEF Comparison!Lexicographic, Precedes

\* operator< of two Values of one kind
ContainerSet(t, K) == [type : {t}, data : Seq(EntrySet(K))]

StrictLess(S) ==
    /\ \A v \in S : ~Comparison!Less(v, v)
    /\ \A v, w \in S : v.type = w.type => v = w \/ Comparison!Less(v, w) \/ Comparison!Less(w, v)
    /\ \A u, v, w \in S : u.type = v.type /\ v.type = w.type =>
          (Comparison!Less(u, v) /\ Comparison!Less(v, w) => Comparison!Less(u, w))

LEMMA ContainerStrict ==
    ASSUME NEW t \in {Comparison!arrayValue, Comparison!objectValue},
           NEW K, Strict(EntryLess(K), EntrySet(K))
    PROVE  StrictLess(ContainerSet(t, K))
<1> DEFINE S == ContainerSet(t, K)
           R == EntryLess(K)
<1>1. \A v \in S : /\ v.type = t /\ v.data \in Seq(EntrySet(K)) /\ Len(v.data) \in Nat
                   /\ v = [type |-> t, data |-> v.data]
  BY LenProperties DEF ContainerSet
<1>2. ASSUME NEW v \in S, NEW w \in S
      PROVE  Comparison!Less(v, w) <=>
                \/ Len(v.data) < Len(w.data)
                \/ Len(v.data) = Len(w.data) /\ Precedes(v.data, w.data, R)
  <2>1. /\ v.type = t /\ w.type = t /\ v.data \in Seq(EntrySet(K)) /\ w.data \in Seq(EntrySet(K))
        /\ Len(v.data) \in Nat /\ Len(w.data) \in Nat /\ t \in Int
    BY <1>1 DEF Comparison!arrayValue, Comparison!objectValue
  <2>2. Comparison!Lexicographic(v.data, w.data, Comparison!EntryLess) <=>
           Precedes(v.data, w.data, R)
    BY <2>1, EntriesOrder
  <2>3. Comparison!Less(v, w) <=>
           IF Len(v.data) # Len(w.data) THEN Len(v.data) < Len(w.data)
           ELSE Comparison!Lexicographic(v.data, w.data, Comparison!EntryLess)
    BY <2>1 DEF Comparison!Less
  <2> QED
    BY <2>1, <2>2, <2>3
<1>3. /\ \A a \in Seq(EntrySet(K)) : ~Precedes(a, a, R)
      /\ \A a, b \in Seq(EntrySet(K)) : a = b \/ Precedes(a, b, R) \/ Precedes(b, a, R)
      /\ \A a, b, c \in Seq(EntrySet(K)) : Precedes(a, b, R) /\ Precedes(b, c, R) => Precedes(a, c, R)
  BY PrecedesStrict
<1> HIDE DEF S, R
<1>4. \A v \in S : ~Comparison!Less(v, v)
  BY <1>1, <1>2, <1>3
<1>5. ASSUME NEW v \in S, NEW w \in S
      PROVE  v = w \/ Comparison!Less(v, w) \/ Comparison!Less(w, v)
  <2>1. /\ v.data \in Seq(EntrySet(K)) /\ w.data \in Seq(EntrySet(K))
        /\ Len(v.data) \in Nat /\ Len(w.data) \in Nat /\ (v.data = w.data => v = w)
    BY <1>1
  <2>2. v.data = w.data \/ Precedes(v.data, w.data, R) \/ Precedes(w.data, v.data, R)
    BY <1>3, <2>1
  <2> QED
    BY <1>2, <2>1, <2>2
<1>6. ASSUME NEW u \in S, NEW v \in S, NEW w \in S, Comparison!Less(u, v), Comparison!Less(v, w)
      PROVE  Comparison!Less(u, w)
  <2>1. /\ u.data \in Seq(EntrySet(K)) /\ v.data \in Seq(EntrySet(K))
        /\ w.data \in Seq(EntrySet(K))
        /\ Len(u.data) \in Nat /\ Len(v.data) \in Nat /\ Len(w.data) \in Nat
    BY <1>1
  <2>2. Precedes(u.data, v.data, R) /\ Precedes(v.data, w.data, R) => Precedes(u.data, w.data, R)
    BY <1>3, <2>1
  <2> QED
    BY <1>2, <1>6, <2>1, <2>2
<1> QED
  BY <1>4, <1>5, <1>6 DEF StrictLess, S

PlainSet == {v \in ScalarSet : v.type \notin {Comparison!arrayValue, Comparison!objectValue}}

LEMMA PlainStrict == StrictLess(PlainSet)
<1>1. ASSUME NEW v \in PlainSet, NEW w \in PlainSet
      PROVE  Comparison!Less(v, w) <=> <<v, w>> \in ScalarLess
  <2>1. /\ v \in ScalarSet /\ w \in ScalarSet /\ v.type \in Int /\ w.type \in Int
        /\ v.type \notin {Comparison!arrayValue, Comparison!objectValue}
    BY DEF PlainSet, ScalarSet
  <2>2. <<v, w>> \in ScalarLess <=> Comparison!ScalarLess(v, w)
    BY <2>1 DEF ScalarLess
  <2> QED
    BY <2>1, <2>2 DEF Comparison!Less, Comparison!ScalarLess
<1>2. PlainSet \subseteq ScalarSet
  BY DEF PlainSet
<1> QED
  BY <1>1, <1>2, ScalarStrict DEF StrictLess, Strict

ArraySet == ContainerSet(Comparison!arrayValue, ArrayKeys)
ObjectSet == ContainerSet(Comparison!objectValue, ObjectKeys)
ValueSet == PlainSet \cup ArraySet \cup ObjectSet

\* Values of different types are ordered by their types; those of one type are of one kind.
LEMMA LessStrict ==
    /\ \A v \in ValueSet : v.type \in Int /\ v = [type |-> v.type, data |-> v.data]
    /\ \A v, w \in ValueSet : /\ v.type < w.type => Comparison!Less(v, w)
                              /\ Comparison!Less(v, w) => v.type <= w.type
    /\ StrictLess(ValueSet)
<1>1. StrictLess(PlainSet) /\ StrictLess(ArraySet) /\ StrictLess(ObjectSet)
  BY PlainStrict, ContainerStrict, KeyStrict, EntryStrict DEF ArraySet, ObjectSet
<1>2. /\ \A v \in PlainSet : /\ v.type \in Int /\ v.type \notin {6, 7}
                             /\ v = [type |-> v.type, data |-> v.data]
      /\ \A v \in ArraySet : v.type = 6 /\ v = [type |-> v.type, data |-> v.data]
      /\ \A v \in ObjectSet : v.type = 7 /\ v = [type |-> v.type, data |-> v.data]
  BY DEF PlainSet, ScalarSet, ArraySet, ObjectSet, ContainerSet,
         Comparison!arrayValue, Comparison!objectValue
<1>3. \A v \in ValueSet : v.type \in Int /\ v = [type |-> v.type, data |-> v.data]
  BY <1>2 DEF ValueSet
<1>4. ASSUME NEW v \in ValueSet, NEW w \in ValueSet
      PROVE  /\ v.type < w.type => Comparison!Less(v, w)
             /\ Comparison!Less(v, w) => v.type <= w.type
  <2>1. v.type \in Int /\ w.type \in Int
    BY <1>3
  <2> QED
    BY <2>1 DEF Comparison!Less, Comparison!ScalarLess
<1>5. \A v, w \in ValueSet : v.type = w.type =>
         \/ v \in PlainSet /\ w \in PlainSet
         \/ v \in ArraySet /\ w \in ArraySet
         \/ v \in ObjectSet /\ w \in ObjectSet
  BY <1>2 DEF ValueSet
<1>6. \A v \in ValueSet : ~Comparison!Less(v, v)
  BY <1>1 DEF StrictLess, ValueSet
<1>7. \A v, w \in ValueSet :
         v.type = w.type => v = w \/ Comparison!Less(v, w) \/ Comparison!Less(w, v)
  BY <1>1, <1>5 DEF StrictLess
<1>8. ASSUME NEW u \in ValueSet, NEW v \in ValueSet, NEW w \in ValueSet,
             u.type = v.type, v.type = w.type, Comparison!Less(u, v), Comparison!Less(v, w)
      PROVE  Comparison!Less(u, w)
  <2>1. \/ u \in PlainSet /\ v \in PlainSet /\ w \in PlainSet
        \/ u \in ArraySet /\ v \in ArraySet /\ w \in ArraySet
        \/ u \in ObjectSet /\ v \in ObjectSet /\ w \in ObjectSet
    BY <1>2, <1>8 DEF ValueSet
  <2> QED
    BY <1>1, <1>8, <2>1 DEF StrictLess
<1> QED
  BY <1>3, <1>4, <1>6, <1>7, <1>8 DEF StrictLess

LEMMA LessTotal ==
    ASSUME NEW u \in ValueSet, NEW v \in ValueSet, NEW w \in ValueSet
    PROVE  /\ ~Comparison!Less(u, u)
           /\ u = v \/ Comparison!Less(u, v) \/ Comparison!Less(v, u)
           /\ Comparison!Less(u, v) /\ Comparison!Less(v, w) => Comparison!Less(u, w)
<1>1. u.type \in Int /\ v.type \in Int /\ w.type \in Int
  BY LessStrict
<1>2. /\ u.type < v.type => Comparison!Less(u, v)
      /\ v.type < u.type => Comparison!Less(v, u)
      /\ u.type < w.type => Comparison!Less(u, w)
      /\ Comparison!Less(u, v) => u.type <= v.type
      /\ Comparison!Less(v, w) => v.type <= w.type
  BY LessStrict
<1>3. /\ ~Comparison!Less(u, u)
      /\ u.type = v.type => u = v \/ Comparison!Less(u, v) \/ Comparison!Less(v, u)
      /\ u.type = v.type /\ v.type = w.type =>
            (Comparison!Less(u, v) /\ Comparison!Less(v, w) => Comparison!Less(u, w))
  BY LessStrict DEF StrictLess
<1> QED
  BY <1>1, <1>2, <1>3

\* The Values that are compared
LEMMA SequencesUpTo ==
    ASSUME NEW S, NEW n \in Nat PROVE Comparison!SeqUpTo(S, n) \subseteq Seq(S)
BY SeqDef DEF Comparison!SeqUpTo

LEMMA SeqMonotone ==
    ASSUME NEW S, NEW T, S \subseteq T PROVE Seq(S) \subseteq Seq(T)
OBVIOUS

LEMMA ScalarsCompared == Comparison!Scalars \subseteq PlainSet
<1>1. /\ <<>> \in Seq(Int) /\ <<0>> \in Seq(Int) /\ <<1>> \in Seq(Int)
  OBVIOUS
<1>2. Comparison!SeqUpTo(Bytes, MaxLength) \subseteq Seq(Int)
  <2>1. Comparison!SeqUpTo(Bytes, MaxLength) \subseteq Seq(Bytes)
    BY SequencesUpTo, ValuesAssumption
  <2>2. Bytes \subseteq Int
    BY ValuesAssumption
  <2> QED
    BY <2>1, <2>2, SeqMonotone
<1>3. ASSUME NEW v \in Comparison!Scalars PROVE v \in PlainSet
  <2>1. CASE v = [type |-> Comparison!nullValue, data |-> <<>>]
    BY <1>1, <2>1 DEF PlainSet, ScalarSet, Comparison!nullValue, Comparison!arrayValue,
                      Comparison!objectValue
  <2>2. ASSUME NEW t \in {Comparison!intValue, Comparison!realValue, Comparison!booleanValue},
               NEW n \in 0..1, v = [type |-> t, data |-> <<n>>]
        PROVE  v \in PlainSet
    <3>1. n = 0 \/ n = 1
      BY <2>2
    <3>2. t \in Int /\ t \notin {Comparison!arrayValue, Comparison!objectValue}
      BY DEF Comparison!intValue, Comparison!realValue, Comparison!booleanValue,
             Comparison!arrayValue, Comparison!objectValue
    <3>3. <<n>> \in Seq(Int)
      BY <1>1, <3>1
    <3> QED
      BY <2>2, <3>2, <3>3 DEF PlainSet, ScalarSet
  <2>3. ASSUME NEW s \in Comparison!SeqUpTo(Bytes, MaxLength),
               v = [type |-> Comparison!stringValue, data |-> s]
        PROVE  v \in PlainSet
    BY <1>2, <2>3 DEF PlainSet, ScalarSet, Comparison!stringValue, Comparison!arrayValue,
                      Comparison!objectValue
  <2> QED
    BY <2>1, <2>2, <2>3 DEF Comparison!Scalars
<1> QED
  BY <1>3

LEMMA ValuesCompared == Comparison!AllValues \subseteq ValueSet
<1>1. Comparison!Elements \subseteq ScalarSet
  BY ScalarsCompared DEF Comparison!Elements, PlainSet
<1>2. Comparison!Entries(Comparison!arrayValue) \subseteq EntrySet(ArrayKeys)
  BY <1>1, ValuesAssumption
     DEF Comparison!Entries, EntrySet, ArrayKeys, Comparison!arrayValue
<1>3. Comparison!Names \subseteq Seq(Int) \ {<<>>}
  BY DEF Comparison!Names
<1>4. Comparison!Entries(Comparison!objectValue) \subseteq EntrySet(ObjectKeys)
  BY <1>1, <1>3 DEF Comparison!Entries, EntrySet, ObjectKeys, Comparison!arrayValue,
                    Comparison!objectValue
<1>5. ASSUME NEW t, NEW K, Comparison!Entries(t) \subseteq EntrySet(K)
      PROVE  Comparison!Containers(t) \subseteq ContainerSet(t, K)
  <2>1. Comparison!SeqUpTo(Comparison!Entries(t), 2) \subseteq Seq(Comparison!Entries(t))
    BY SequencesUpTo
  <2>2. Seq(Comparison!Entries(t)) \subseteq Seq(EntrySet(K))
    BY <1>5, SeqMonotone
  <2> QED
    BY <2>1, <2>2 DEF Comparison!Containers, ContainerSet
<1>6. /\ Comparison!Containers(Comparison!arrayValue) \subseteq ArraySet
      /\ Comparison!Containers(Comparison!objectValue) \subseteq ObjectSet
  BY <1>2, <1>4, <1>5 DEF ArraySet, ObjectSet
<1> QED
  BY <1>6, ScalarsCompared DEF Comparison!AllValues, ValueSet

\* operator< and compare of Values are a total order that agrees with operator==: compare is
\* antisymmetric, 0 of equal Values only, and transitive, whatever bytes the strings hold and
\* however long they are, and for arrays with holes.
THEOREM OrderTotal == Comparison!Spec => []TotalOrder
<1> DEFINE Inv ==
       /\ {c_x, c_y, c_z} \subseteq ValueSet
       /\ c_result # Comparison!Unset => c_result = Comparison!Compare(c_x, c_y)
<1>1. Comparison!Init => Inv
  BY ValuesCompared DEF Comparison!Init
<1>2. Inv /\ [Comparison!Next]_(Comparison!vars) => Inv'
  <2>1. ASSUME Inv, Comparison!CompareXY PROVE Inv'
    BY <2>1, ValuesCompared DEF Comparison!CompareXY
  <2>2. ASSUME Inv, UNCHANGED Comparison!vars PROVE Inv'
    BY <2>2 DEF Comparison!vars
  <2> QED
    BY <2>1, <2>2 DEF Comparison!Next
<1>3. Inv => TotalOrder
  <2> SUFFICES ASSUME Inv, c_result # Comparison!Unset
               PROVE  /\ Comparison!Compare(c_y, c_x) = -c_result
                      /\ c_result = 0 <=> Comparison!Equal(c_x, c_y)
                      /\ c_result <= 0 /\ Comparison!Compare(c_y, c_z) <= 0 =>
                            Comparison!Compare(c_x, c_z) <= 0
    BY DEF TotalOrder, Comparison!TotalOrder
  <2>0. c_result = Comparison!Compare(c_x, c_y)
    OBVIOUS
  <2>1. /\ ~Comparison!Less(c_x, c_x) /\ ~Comparison!Less(c_y, c_y)
        /\ c_x = c_y \/ Comparison!Less(c_x, c_y) \/ Comparison!Less(c_y, c_x)
        /\ c_y = c_z \/ Comparison!Less(c_y, c_z) \/ Comparison!Less(c_z, c_y)
        /\ Comparison!Less(c_x, c_y) /\ Comparison!Less(c_y, c_x) => Comparison!Less(c_x, c_x)
        /\ Comparison!Less(c_y, c_z) /\ Comparison!Less(c_z, c_y) => Comparison!Less(c_y, c_y)
        /\ Comparison!Less(c_x, c_y) /\ Comparison!Less(c_y, c_z) => Comparison!Less(c_x, c_z)
    BY LessTotal
  <2>2. ~(Comparison!Less(c_x, c_y) /\ Comparison!Less(c_y, c_x))
    BY <2>1
  <2>3. Comparison!Equal(c_x, c_y) <=> c_x = c_y
    <3>1. /\ c_x = [type |-> c_x.type, data |-> c_x.data]
          /\ c_y = [type |-> c_y.type, data |-> c_y.data]
      BY LessStrict
    <3> QED
      BY <3>1 DEF Comparison!Equal
  <2>4. Comparison!Compare(c_y, c_x) = -c_result
    BY <2>0, <2>2 DEF Comparison!Compare
  <2>5. c_result = 0 <=> Comparison!Equal(c_x, c_y)
    BY <2>0, <2>1, <2>3 DEF Comparison!Compare
  <2>6. ASSUME c_result <= 0, Comparison!Compare(c_y, c_z) <= 0
        PROVE  Comparison!Compare(c_x, c_z) <= 0
    <3>1. (c_x = c_y \/ Comparison!Less(c_x, c_y)) /\ (c_y = c_z \/ Comparison!Less(c_y, c_z))
      BY <2>0, <2>1, <2>6 DEF Comparison!Compare
    <3>2. c_x = c_z \/ Comparison!Less(c_x, c_z)
      BY <2>1, <3>1
    <3> QED
      BY <2>1, <3>2 DEF Comparison!Compare
  <2> QED
    BY <2>4, <2>5, <2>6
<1> QED
  BY <1>1, <1>2, <1>3, PTL DEF Comparison!Spec
==============================================================================
