--------------------------- MODULE SensorTaskProofs ---------------------------
(***************************************************************************)
(* Proofs about SensorTask and PowerCycle, for every value of their         *)
(* constants: the type invariant, that approx_count never falls below the   *)
(* size of the history, and the bound on that size; then the records: which *)
(* samples they average, which of them carry a date, which of them a trim   *)
(* may remove, and when one may replace another on a device that loses its  *)
(* power.                                                                   *)
(***************************************************************************)
EXTENDS SensorTask, PowerCycle, FiniteSetTheorems, TLAPS

\* What a PUT leaves: one more key at most.
LEMMA PutTree ==
    ASSUME NEW t, NEW k, NEW v, IsFiniteSet(DOMAIN t)
    PROVE  /\ DOMAIN Put(t, k, v) = DOMAIN t \cup {k}
           /\ IsFiniteSet(DOMAIN Put(t, k, v))
           /\ Cardinality(DOMAIN Put(t, k, v)) <= Cardinality(DOMAIN t) + 1
  <1>1. DOMAIN Put(t, k, v) = DOMAIN t \cup {k}
    BY DEF Put
  <1>2. /\ IsFiniteSet(DOMAIN t \cup {k})
        /\ Cardinality(DOMAIN t \cup {k}) <= Cardinality(DOMAIN t) + 1
    <2>1. Cardinality(DOMAIN t) \in Nat
      BY FS_CardinalityType
    <2>2. /\ IsFiniteSet(DOMAIN t \cup {k})
          /\ Cardinality(DOMAIN t \cup {k}) =
                IF k \in DOMAIN t THEN Cardinality(DOMAIN t)
                ELSE Cardinality(DOMAIN t) + 1
      BY FS_AddElement
    <2>. QED  BY <2>1, <2>2
  <1>. QED  BY <1>1, <1>2

\* What a removal leaves: exactly the keys that were not removed.
LEMMA WithoutTree ==
    ASSUME NEW t, NEW L \in SUBSET DOMAIN t, IsFiniteSet(DOMAIN t)
    PROVE  /\ DOMAIN Without(t, L) = DOMAIN t \ L
           /\ IsFiniteSet(DOMAIN Without(t, L))
           /\ Cardinality(DOMAIN Without(t, L)) = Cardinality(DOMAIN t) - Cardinality(L)
           /\ Cardinality(L) \in Nat
           /\ L # {} => Cardinality(L) > 0
           /\ \A j \in DOMAIN t \ L : Without(t, L)[j] = t[j]
           /\ Without(t, L) = [j \in DOMAIN Without(t, L) |-> Without(t, L)[j]]
  <1>1. DOMAIN Without(t, L) = DOMAIN t \ L
    BY DEF Without
  <1>2. DOMAIN t \cap L = L
    OBVIOUS
  <1>3. /\ IsFiniteSet(DOMAIN t \ L)
        /\ Cardinality(DOMAIN t \ L) = Cardinality(DOMAIN t) - Cardinality(L)
    BY <1>2, FS_Difference
  <1>4. IsFiniteSet(L)
    BY FS_Subset
  <1>5. Cardinality(L) \in Nat /\ (L # {} => Cardinality(L) > 0)
    BY <1>4, FS_CardinalityType, FS_EmptySet
  <1>6. /\ \A j \in DOMAIN t \ L : Without(t, L)[j] = t[j]
        /\ Without(t, L) = [j \in DOMAIN Without(t, L) |-> Without(t, L)[j]]
    BY DEF Without
  <1>. QED  BY <1>1, <1>3, <1>5, <1>6

\* A trim either leaves the tree alone and returns no count, or removes a
\* nonempty set of its keys and returns their number or -2.
LEMMA TrimShape ==
    ASSUME NEW t, NEW n, NEW o \in TrimOutcomes(t, n)
    PROVE  \/ o.tree = t /\ o.ret \in {0, -1, -2}
           \/ \E L \in SUBSET DOMAIN t :
                 L # {} /\ o.tree = Without(t, L) /\ o.ret \in {-2, Cardinality(L)}
  <1>1. CASE o \in {Outcome(-1, t), Outcome(0, t)}
    BY <1>1 DEF Outcome
  <1>2. CASE \E L \in (SUBSET Oldest(DOMAIN t, n)) \ {{}} :
                o \in {Outcome(Cardinality(L), Without(t, L)),
                       Outcome(-2, Without(t, L)), Outcome(-2, t)}
    <2>1. PICK L \in (SUBSET Oldest(DOMAIN t, n)) \ {{}} :
                o \in {Outcome(Cardinality(L), Without(t, L)),
                       Outcome(-2, Without(t, L)), Outcome(-2, t)}
      BY <1>2
    <2>2. L \in SUBSET DOMAIN t /\ L # {}
      BY DEF Oldest
    <2>. QED  BY <2>1, <2>2 DEF Outcome
  <1>. QED  BY <1>1, <1>2 DEF TrimOutcomes

------------------------------------------------------------------------------
(* The type invariant *)

\* The tree part of TypeOK, for a tree t with n samples taken and b boots.
Typed(t, n, b) ==
    /\ DOMAIN t \subseteq Nat /\ IsFiniteSet(DOMAIN t)
    /\ \A k \in DOMAIN t :
          t[k] \in [samples : SUBSET (1..n), kind : {"full", "dated", "plain"},
                   fecha : Nat \X Nat, boot : 1..b]
    /\ t = [k \in DOMAIN t |-> t[k]]

\* Key and Fecha are what strftime makes of the clock: naturals.
LEMMA ClockTypes ==
    ASSUME TypeOK
    PROVE  Key \in Nat /\ Fecha \in Nat \X Nat
  <1>1. Year \in Nat /\ clock \in Nat /\ MaxClock \in Nat /\ DayLength \in Nat \ {0}
    BY TaskAssumption DEF TypeOK, Year
  <1>2. Year % 100 \in Nat
    BY <1>1
  <1>3. (Year % 100) * (MaxClock + 1) \in Nat
    BY <1>1, <1>2
  <1>4. clock \div DayLength \in Nat
    BY <1>1
  <1>. QED  BY <1>1, <1>3, <1>4 DEF Key, Fecha

\* The empty last_fecha_str of a boot.
LEMMA NoFechaType == NoFecha \in Nat \X Nat
  BY DEF NoFecha

\* Records stay records when samples are taken and boots are counted.
LEMMA TypedMonotone ==
    ASSUME NEW t, NEW n \in Nat, NEW m \in Nat, NEW b \in Nat, NEW c \in Nat,
           n <= m, b <= c, Typed(t, n, b)
    PROVE  Typed(t, m, c)
  BY DEF Typed

\* Removing keys keeps a tree typed.
LEMMA TypedWithout ==
    ASSUME NEW t, NEW n, NEW b, NEW L \in SUBSET DOMAIN t, Typed(t, n, b)
    PROVE  Typed(Without(t, L), n, b)
  <1>1. IsFiniteSet(DOMAIN t)
    BY DEF Typed
  <1>2. /\ DOMAIN Without(t, L) = DOMAIN t \ L
        /\ IsFiniteSet(DOMAIN Without(t, L))
        /\ \A j \in DOMAIN t \ L : Without(t, L)[j] = t[j]
        /\ Without(t, L) = [j \in DOMAIN Without(t, L) |-> Without(t, L)[j]]
    BY <1>1, WithoutTree
  <1>. QED  BY <1>2 DEF Typed

\* Storing a record keeps a tree typed.
LEMMA TypedPut ==
    ASSUME NEW t, NEW n, NEW b, NEW k \in Nat, Typed(t, n, b),
           NEW v \in [samples : SUBSET (1..n), kind : {"full", "dated", "plain"},
                      fecha : Nat \X Nat, boot : 1..b]
    PROVE  Typed(Put(t, k, v), n, b)
  <1>1. IsFiniteSet(DOMAIN t)
    BY DEF Typed
  <1>2. DOMAIN Put(t, k, v) = DOMAIN t \cup {k}
    BY DEF Put
  <1>3. IsFiniteSet(DOMAIN t \cup {k})
    BY <1>1, FS_AddElement
  <1>4. /\ Put(t, k, v)[k] = v
        /\ \A j \in DOMAIN t : j # k => Put(t, k, v)[j] = t[j]
        /\ Put(t, k, v) = [j \in DOMAIN Put(t, k, v) |-> Put(t, k, v)[j]]
    BY DEF Put
  <1>. QED  BY <1>2, <1>3, <1>4 DEF Typed

\* The record that SendBatch stores is one.
LEMMA AverageTyped ==
    ASSUME TypeOK
    PROVE  Average \in Records
  <1>1. Fecha \in Nat \X Nat
    BY ClockTypes
  <1>. QED  BY <1>1 DEF Average, Records, Kind, TypeOK

\* The scalar part of TypeOK; TypeOK is this and Typed(db, taken, boot).
Scalars ==
    /\ task \in {"init", "dead", "wipe", "sample", "send", "retain", "sleep"}
    /\ sample_count \in 0..SamplesPerBatch
    /\ taken \in Nat
    /\ acc \subseteq 1..taken
    /\ first_send \in BOOLEAN
    /\ last_fecha \in Nat \X Nat
    /\ approx_count \in Nat
    /\ clock \in 0..MaxClock
    /\ synced \in BOOLEAN
    /\ boot \in 1..MaxBoots
    /\ clean \in BOOLEAN
    /\ lost \in Nat /\ ghosts \in Nat /\ trimFails \in Nat

LEMMA TypeSplit == TypeOK <=> Scalars /\ Typed(db, taken, boot)
  BY DEF TypeOK, Scalars, Typed, Records

\* Outside of the two steps that dispose of a batch, the batch is not full.
Room == task \notin {"send", "retain"} => sample_count < SamplesPerBatch

\* The history changes in three ways only: not at all, by the record of a PUT,
\* or by the removal of some of its keys.
LEMMA DbStep ==
    ASSUME [Next]_vars
    PROVE  \/ db' = db
           \/ SendBatch /\ db' = Put(db, Key, Average)
           \/ \E L \in SUBSET DOMAIN db : db' = Without(db, L)
  <1>1. CASE DeleteHistory
    BY <1>1 DEF DeleteHistory, DeleteOutcomes, Outcome
  <1>2. CASE SendBatch
    BY <1>2 DEF SendBatch, PutOutcomes, Outcome
  <1>3. CASE RetainAndReset
    <2>1. db' = db \/ \E o \in TrimOutcomes(db, TrimBatch) : db' = o.tree
      BY <1>3 DEF RetainAndReset, Retention, Trim
    <2>. QED  BY <2>1, TrimShape
  <1>4. CASE FirebaseInit \/ ReadSensors \/ Sleep \/ SntpSync \/ Restart
    BY <1>4 DEF FirebaseInit, ReadSensors, Sleep, SntpSync, Restart
  <1>5. CASE UNCHANGED vars
    BY <1>5 DEF vars
  <1>. QED  BY <1>1, <1>2, <1>3, <1>4, <1>5 DEF Next, Step

\* The part of Trim that is not about the tree.
LEMMA TrimScalars ==
    ASSUME NEW count \in Nat, Trim(count), TypeOK
    PROVE  approx_count' \in Nat /\ ghosts' \in Nat /\ trimFails' \in Nat
  <1>1. PICK o \in TrimOutcomes(db, TrimBatch) :
           /\ approx_count' = IF o.ret <= 0 THEN count
                              ELSE IF count > o.ret THEN count - o.ret ELSE 0
           /\ ghosts' = IF o.ret = -2
                        THEN ghosts + Cardinality(DOMAIN db) - Cardinality(DOMAIN o.tree)
                        ELSE ghosts
           /\ trimFails' = IF o.tree = db THEN trimFails + 1 ELSE trimFails
    BY DEF Trim
  <1>2. IsFiniteSet(DOMAIN db) /\ ghosts \in Nat /\ trimFails \in Nat
    BY DEF TypeOK
  <1>3. Cardinality(DOMAIN db) \in Nat
    BY <1>2, FS_CardinalityType
  <1>4. CASE o.tree = db /\ o.ret \in {0, -1, -2}
    BY <1>1, <1>2, <1>3, <1>4
  <1>5. CASE \E L \in SUBSET DOMAIN db :
                L # {} /\ o.tree = Without(db, L) /\ o.ret \in {-2, Cardinality(L)}
    <2>1. PICK L \in SUBSET DOMAIN db :
                L # {} /\ o.tree = Without(db, L) /\ o.ret \in {-2, Cardinality(L)}
      BY <1>5
    <2>2. /\ Cardinality(DOMAIN Without(db, L)) = Cardinality(DOMAIN db) - Cardinality(L)
          /\ Cardinality(L) \in Nat
      BY <1>2, WithoutTree
    <2>. QED  BY <1>1, <1>2, <1>3, <2>1, <2>2
  <1>. QED  BY <1>4, <1>5, TrimShape

\* A typed tree stays typed at every step.
LEMMA TypedStep ==
    ASSUME TypeOK, [Next]_vars
    PROVE  Typed(db', taken', boot')
  <1>1. Typed(db, taken, boot) /\ taken \in Nat /\ boot \in Nat
    BY TypeSplit, TaskAssumption DEF Scalars
  <1>2. taken' \in Nat /\ boot' \in Nat /\ taken <= taken' /\ boot <= boot'
    BY <1>1 DEF Next, Step, FirebaseInit, DeleteHistory, ReadSensors, SendBatch,
                RetainAndReset, Sleep, SntpSync, Restart, observers, vars
  <1>3. CASE db' = db
    BY <1>1, <1>2, <1>3, TypedMonotone
  <1>4. CASE SendBatch /\ db' = Put(db, Key, Average)
    <2>1. Key \in Nat /\ Average \in Records
      BY ClockTypes, AverageTyped
    <2>2. Typed(Put(db, Key, Average), taken, boot)
      BY <1>1, <2>1, TypedPut DEF Records
    <2>. QED  BY <1>1, <1>2, <1>4, <2>2, TypedMonotone
  <1>5. CASE \E L \in SUBSET DOMAIN db : db' = Without(db, L)
    <2>1. PICK L \in SUBSET DOMAIN db : db' = Without(db, L)
      BY <1>5
    <2>2. Typed(Without(db, L), taken, boot)
      BY <1>1, TypedWithout
    <2>. QED  BY <1>1, <1>2, <2>1, <2>2, TypedMonotone
  <1>. QED  BY <1>3, <1>4, <1>5, DbStep

\* The scalars stay in range; Room is what keeps sample_count there.
LEMMA ScalarsStep ==
    ASSUME TypeOK, Room, [Next]_vars
    PROVE  Scalars' /\ Room'
  <1>. USE TaskAssumption
  <1>1. CASE FirebaseInit
    BY <1>1 DEF FirebaseInit, TypeOK, Scalars, Room, ram, observers
  <1>2. CASE DeleteHistory
    BY <1>2 DEF DeleteHistory, TypeOK, Scalars, Room, ram
  <1>3. CASE ReadSensors
    BY <1>3 DEF ReadSensors, TypeOK, Scalars, Room
  <1>4. CASE SendBatch
    <2>1. Fecha \in Nat \X Nat
      BY ClockTypes
    <2>2. lost' \in Nat
      BY <1>4 DEF SendBatch, TypeOK
    <2>3. /\ first_send' = FALSE /\ last_fecha' = Fecha /\ task' = "retain"
          /\ UNCHANGED <<sample_count, acc, approx_count, clock, synced, boot, taken,
                         clean, ghosts, trimFails>>
      BY <1>4 DEF SendBatch
    <2>. QED  BY <2>1, <2>2, <2>3 DEF TypeOK, Scalars, Room
  <1>5. CASE RetainAndReset
    <2>1. approx_count' \in Nat /\ ghosts' \in Nat /\ trimFails' \in Nat
      BY <1>5, TrimScalars DEF RetainAndReset, Retention, TypeOK
    <2>. QED  BY <1>5, <2>1 DEF RetainAndReset, Reset, TypeOK, Scalars, Room
  <1>6. CASE Sleep
    BY <1>6 DEF Sleep, TypeOK, Scalars, Room, ram, observers
  <1>7. CASE SntpSync
    BY <1>7 DEF SntpSync, TypeOK, Scalars, Room, ram, observers
  <1>8. CASE Restart
    <2>1. NoFecha \in Nat \X Nat
      BY NoFechaType
    <2>2. boot' \in 1..MaxBoots
      BY <1>8 DEF Restart, TypeOK
    <2>3. acc' \subseteq 1..taken'
      BY <1>8 DEF Restart
    <2>4. first_send' \in BOOLEAN /\ clean' \in BOOLEAN /\ last_fecha' \in Nat \X Nat
      BY <1>8, <2>1, Zenon DEF Restart
    <2>5. /\ task' = "init" /\ sample_count' = 0 /\ approx_count' = 0
          /\ lost' = 0 /\ ghosts' = 0 /\ trimFails' = 0
          /\ UNCHANGED <<clock, synced, taken>>
      BY <1>8 DEF Restart
    <2>. QED  BY <2>2, <2>3, <2>4, <2>5 DEF TypeOK, Scalars, Room
  <1>9. CASE UNCHANGED vars
    BY <1>9 DEF vars, TypeOK, Scalars, Room
  <1>. QED  BY <1>1, <1>2, <1>3, <1>4, <1>5, <1>6, <1>7, <1>8, <1>9 DEF Next, Step

\* sensor_task keeps its variables in range, sample_count never exceeds
\* SAMPLES_PER_BATCH, and the history holds well-formed records only.
THEOREM TypeCorrect == Spec => [](TypeOK /\ Room)
  <1>1. Init => TypeOK /\ Room
    <2>1. ASSUME Init PROVE Scalars /\ Room
      <3>1. NoFecha \in Nat \X Nat
        BY NoFechaType
      <3>2. acc \subseteq 1..taken /\ boot \in 1..MaxBoots
        BY <2>1, TaskAssumption DEF Init
      <3>3. /\ first_send \in BOOLEAN /\ clean \in BOOLEAN /\ synced \in BOOLEAN
            /\ last_fecha \in Nat \X Nat
        BY <2>1, <3>1, TaskAssumption, Zenon DEF Init
      <3>4. /\ task = "init" /\ sample_count = 0 /\ approx_count = 0 /\ clock = 0
            /\ taken = 0 /\ lost = 0 /\ ghosts = 0 /\ trimFails = 0
        BY <2>1 DEF Init
      <3>. QED  BY <3>2, <3>3, <3>4, TaskAssumption DEF Scalars, Room
    <2>2. ASSUME Init PROVE Typed(db, taken, boot)
      BY <2>2, FS_EmptySet DEF Init, EmptyTree, Typed
    <2>. QED  BY <2>1, <2>2, TypeSplit
  <1>2. TypeOK /\ Room /\ [Next]_vars => TypeOK' /\ Room'
    <2>1. ASSUME TypeOK, Room, [Next]_vars PROVE TypeOK'
      <3>1. Scalars' /\ Typed(db', taken', boot')
        BY <2>1, TypedStep, ScalarsStep
      <3>. QED  BY <3>1 DEF TypeOK, Scalars, Typed, Records
    <2>. QED  BY <2>1, ScalarsStep
  <1>. QED  BY <1>1, <1>2, PTL DEF Spec

------------------------------------------------------------------------------
(* The size of the history *)

\* The arithmetic of a trim that removed something.
LEMMA BudgetArithmetic ==
    ASSUME NEW i \in Nat, NEW b \in Nat
    PROVE  \A s, t, f, g \in Int :
              t <= s - 1 /\ f <= g /\ s <= i + b + f + 1 => t <= i + b + g
  OBVIOUS

\* A trim that removed nothing, and one that removed n records.
TrimFailed(count) ==
    /\ Size' = Size /\ approx_count' = count
    /\ trimFails' = trimFails + 1 /\ ghosts' = ghosts

TrimRemoved(count, n) ==
    /\ Size' = Size - n
    /\ trimFails' >= trimFails
    /\ \/ approx_count' = count /\ ghosts' = ghosts + n
       \/ approx_count' = (IF count > n THEN count - n ELSE 0) /\ ghosts' = ghosts

\* What the retention block does to the number of records and to its count.
LEMMA TrimSize ==
    ASSUME TypeOK, NEW count \in Nat, Trim(count)
    PROVE  TrimFailed(count) \/ \E n \in Nat \ {0} : TrimRemoved(count, n)
  <1>1. PICK o \in TrimOutcomes(db, TrimBatch) :
           /\ db' = o.tree
           /\ approx_count' = IF o.ret <= 0 THEN count
                              ELSE IF count > o.ret THEN count - o.ret ELSE 0
           /\ ghosts' = IF o.ret = -2
                        THEN ghosts + Cardinality(DOMAIN db) - Cardinality(DOMAIN o.tree)
                        ELSE ghosts
           /\ trimFails' = IF o.tree = db THEN trimFails + 1 ELSE trimFails
    BY DEF Trim
  <1>2. IsFiniteSet(DOMAIN db) /\ ghosts \in Nat /\ trimFails \in Nat
    BY DEF TypeOK
  <1>3. Cardinality(DOMAIN db) \in Nat
    BY <1>2, FS_CardinalityType
  <1>4. CASE o.tree = db /\ o.ret \in {0, -1, -2}
    BY <1>1, <1>2, <1>3, <1>4 DEF Size, TrimFailed
  <1>5. CASE \E L \in SUBSET DOMAIN db :
                L # {} /\ o.tree = Without(db, L) /\ o.ret \in {-2, Cardinality(L)}
    <2>1. PICK L \in SUBSET DOMAIN db :
                L # {} /\ o.tree = Without(db, L) /\ o.ret \in {-2, Cardinality(L)}
      BY <1>5
    <2>2. /\ Cardinality(DOMAIN Without(db, L)) = Cardinality(DOMAIN db) - Cardinality(L)
          /\ Cardinality(L) \in Nat /\ (L # {} => Cardinality(L) > 0)
      BY <1>2, WithoutTree
    <2>3. Cardinality(L) \in Nat \ {0} /\ Size' = Size - Cardinality(L)
      BY <1>1, <2>1, <2>2 DEF Size
    <2>4. trimFails' >= trimFails
      BY <1>1, <1>2
    <2>5. CASE o.ret = -2
      <3>1. approx_count' = count /\ ghosts' = ghosts + Cardinality(L)
        BY <1>1, <1>2, <1>3, <2>1, <2>2, <2>5
      <3>. QED  BY <2>3, <2>4, <3>1 DEF TrimRemoved
    <2>6. CASE o.ret = Cardinality(L)
      <3>1. ~(o.ret <= 0) /\ o.ret # -2
        BY <2>3, <2>6
      <3>2. /\ approx_count' = (IF count > Cardinality(L) THEN count - Cardinality(L) ELSE 0)
            /\ ghosts' = ghosts
        BY <1>1, <2>6, <3>1
      <3>. QED  BY <2>3, <2>4, <3>2 DEF TrimRemoved
    <2>. QED  BY <2>1, <2>5, <2>6
  <1>. QED  BY <1>4, <1>5, TrimShape

\* The inductive invariant of the two size bounds: RetentionBound needs
\* SizeTracked when the retention block decides not to trim.
Sized == SizeTracked /\ RetentionBound

LEMMA SizedStep ==
    ASSUME TypeOK, Sized, [Next]_vars
    PROVE  Sized'
  <1>1. /\ IsFiniteSet(DOMAIN db) /\ approx_count \in Nat /\ trimFails \in Nat
        /\ TrimBatch \in Nat /\ ItemsLow \in Nat /\ ItemsHigh \in Nat
    BY TaskAssumption DEF TypeOK
  <1>2. Size \in Nat
    BY <1>1, FS_CardinalityType DEF Size
  <1>3. CASE FirebaseInit \/ ReadSensors \/ Sleep \/ SntpSync \/ UNCHANGED vars
    BY <1>3 DEF FirebaseInit, ReadSensors, Sleep, SntpSync, vars, ram, observers,
                Sized, SizeTracked, RetentionBound, Size, Uncounted
  <1>4. CASE Restart
    BY <1>4 DEF Restart, Sized, SizeTracked, RetentionBound
  <1>5. CASE DeleteHistory
    <2>1. ASSUME clean' PROVE Size' = 0
      BY <1>5, <2>1, FS_EmptySet DEF DeleteHistory, EmptyTree, Size
    <2>2. UNCHANGED <<approx_count, trimFails>> /\ Uncounted' = 0
      BY <1>5 DEF DeleteHistory, ram, Uncounted
    <2>. QED  BY <1>1, <2>1, <2>2 DEF Sized, SizeTracked, RetentionBound
  <1>6. CASE SendBatch
    <2>1. db' = db \/ db' = Put(db, Key, Average)
      BY <1>6 DEF SendBatch, PutOutcomes, Outcome
    <2>2. Cardinality(DOMAIN Put(db, Key, Average)) <= Cardinality(DOMAIN db) + 1
      BY <1>1, PutTree
    <2>3. Size' <= Size + 1
      BY <1>2, <2>1, <2>2 DEF Size
    <2>4. /\ UNCHANGED <<approx_count, trimFails, clean>>
          /\ Uncounted = 0 /\ Uncounted' = 1
      BY <1>6 DEF SendBatch, Uncounted
    <2>5. Size' \in Int
      <3>1. IsFiniteSet(DOMAIN Put(db, Key, Average))
        BY <1>1, PutTree
      <3>2. Cardinality(DOMAIN Put(db, Key, Average)) \in Nat
        BY <3>1, FS_CardinalityType
      <3>. QED  BY <1>2, <2>1, <3>2 DEF Size
    <2>. QED  BY <1>1, <1>2, <2>3, <2>4, <2>5 DEF Sized, SizeTracked, RetentionBound
  <1>7. CASE RetainAndReset
    <2>1. Uncounted = 1 /\ Uncounted' = 0 /\ clean' = clean
      BY <1>7 DEF RetainAndReset, Uncounted
    <2>2. PICK max_items \in ItemsLow..ItemsHigh :
             IF approx_count + 1 > max_items + TrimBatch THEN Trim(approx_count + 1)
             ELSE approx_count' = approx_count + 1 /\ UNCHANGED <<db, ghosts, trimFails>>
      BY <1>7 DEF RetainAndReset, Retention
    <2>3. CASE Trim(approx_count + 1)
      <3>1. approx_count + 1 \in Nat
        BY <1>1
      <3>2. trimFails' \in Nat
        BY <2>3, <3>1, TrimScalars
      <3>3. CASE TrimFailed(approx_count + 1)
        BY <1>1, <1>2, <2>1, <3>3
        DEF TrimFailed, Sized, SizeTracked, RetentionBound
      <3>4. ASSUME NEW n \in Nat \ {0}, TrimRemoved(approx_count + 1, n)
            PROVE  Sized'
        <4>1. clean => /\ Size <= approx_count + 1
                       /\ Size <= ItemsHigh + TrimBatch + trimFails + 1
          BY <2>1 DEF Sized, SizeTracked, RetentionBound
        <4>2. Size' = Size - n /\ trimFails' >= trimFails
          BY <3>4 DEF TrimRemoved
        <4>3. clean => Size' <= approx_count'
          BY <1>1, <1>2, <3>4, <4>1 DEF TrimRemoved
        <4>4. clean => Size' <= ItemsHigh + TrimBatch + trimFails'
          <5>1. n >= 1 /\ Size \in Int /\ trimFails \in Int
            BY <1>1, <1>2
          <5>2. Size' \in Int /\ Size' <= Size - 1 /\ trimFails' \in Int
            BY <3>2, <4>2, <5>1
          <5>3. trimFails <= trimFails'
            BY <3>2, <4>2, <5>1
          <5>. QED  BY <1>1, <4>1, <5>1, <5>2, <5>3, BudgetArithmetic
        <4>5. approx_count' \in Nat
          BY <2>3, <3>1, TrimScalars
        <4>. QED  BY <1>1, <2>1, <3>2, <4>3, <4>4, <4>5
                  DEF Sized, SizeTracked, RetentionBound
      <3>. QED  BY <2>3, <3>1, <3>3, <3>4, TrimSize
    <2>4. CASE /\ ~(approx_count + 1 > max_items + TrimBatch)
               /\ approx_count' = approx_count + 1
               /\ UNCHANGED <<db, ghosts, trimFails>>
      BY <1>1, <1>2, <2>1, <2>4 DEF Sized, SizeTracked, RetentionBound, Size
    <2>. QED  BY <2>2, <2>3, <2>4
  <1>. QED  BY <1>3, <1>4, <1>5, <1>6, <1>7 DEF Next, Step

\* After a boot that emptied the history, approx_count never falls below the
\* number of records and that number stays within the retention budget
\* (main.c:205-221), whatever becomes of the PUTs and of the trims.
THEOREM HistoryBounded == Spec => []HistoryTracked
  <1>1. Init => Sized
    BY DEF Init, Sized, SizeTracked, RetentionBound
  <1>2. TypeOK /\ Sized /\ [Next]_vars => Sized'
    BY SizedStep
  <1>3. Sized => HistoryTracked
    BY DEF Sized, HistoryTracked
  <1>. QED  BY <1>1, <1>2, <1>3, TypeCorrect, PTL DEF Spec

------------------------------------------------------------------------------
(* The keys of the history *)

\* Key k was made at a minute up to m.
Stamped(k, m) == \E y \in 0..99, c \in 0..m : k = y * (MaxClock + 1) + c

\* The inductive invariant behind NeverOverwritten.  Keys are never ahead of
\* the clock, and as soon as a batch has its first sample and the task has slept
\* once, they are all behind it: a batch has two samples at least.
KeyTimes ==
    /\ task \in {"init", "dead", "wipe"} => sample_count = 0
    /\ \A k \in DOMAIN db : Stamped(k, clock)
    /\ task = "send" \/ (task = "sample" /\ sample_count > 0)
          => \A k \in DOMAIN db : Stamped(k, clock - 1)

\* Two keys with different minutes differ, whatever their years.
LEMMA KeysApart ==
    ASSUME NEW P \in Nat, NEW y \in Nat, NEW z \in Nat,
           NEW c \in 0..(P - 1), NEW d \in 0..(P - 1), y * P + c = z * P + d
    PROVE  c = d
  <1>1. ASSUME NEW a \in Nat, NEW b \in Nat, a < b
        PROVE  a * P + P <= b * P
    <2>1. PICK e \in Nat : b = a + 1 + e
      <3>1. b - a - 1 \in Nat /\ b = a + 1 + (b - a - 1)
        BY <1>1
      <3>. QED  BY <3>1
    <2>2. b * P = a * P + P + e * P
      BY <2>1
    <2>3. e * P \in Nat /\ a * P \in Nat
      OBVIOUS
    <2>. QED  BY <2>2, <2>3
  <1>2. y * P \in Nat /\ z * P \in Nat
    OBVIOUS
  <1>3. CASE y < z
    <2>1. y * P + P <= z * P
      BY <1>1, <1>3
    <2>. QED  BY <1>2, <2>1
  <1>4. CASE z < y
    <2>1. z * P + P <= y * P
      BY <1>1, <1>4
    <2>. QED  BY <1>2, <2>1
  <1>5. CASE y = z
    BY <1>2, <1>5
  <1>. QED  BY <1>3, <1>4, <1>5

\* The key of a PUT is stamped with the minute of the clock.
LEMMA KeyStamped ==
    ASSUME TypeOK
    PROVE  Year % 100 \in 0..99 /\ Key = (Year % 100) * (MaxClock + 1) + clock
  <1>1. Year \in Nat
    BY TaskAssumption DEF TypeOK, Year
  <1>. QED  BY <1>1 DEF Key

\* The key of a PUT is not in the history.
LEMMA KeyFresh ==
    ASSUME TypeOK, KeyTimes, task = "send"
    PROVE  Key \notin DOMAIN db
  <1>. SUFFICES ASSUME Key \in DOMAIN db PROVE FALSE
    OBVIOUS
  <1>. DEFINE P == MaxClock + 1
  <1>1. MaxClock \in Nat /\ clock \in 0..MaxClock
    BY TaskAssumption DEF TypeOK
  <1>2. PICK y \in 0..99, c \in 0..(clock - 1) : Key = y * (MaxClock + 1) + c
    BY DEF KeyTimes, Stamped
  <1>3. Year % 100 \in 0..99 /\ Key = (Year % 100) * (MaxClock + 1) + clock
    BY KeyStamped
  <1>4. /\ P \in Nat /\ y \in Nat /\ Year % 100 \in Nat
        /\ c \in 0..(P - 1) /\ clock \in 0..(P - 1)
    BY <1>1, <1>3
  <1>5. y * P + c = (Year % 100) * P + clock
    BY <1>2, <1>3
  <1>6. c = clock
    <2>. HIDE DEF P
    <2>. QED  BY <1>4, <1>5, KeysApart
  <1>. QED  BY <1>1, <1>6

\* A key made up to minute m was made up to any later one.
LEMMA StampedMonotone ==
    ASSUME NEW k, NEW m \in Int, NEW n \in Int, m <= n, Stamped(k, m)
    PROVE  Stamped(k, n)
  <1>1. 0..m \subseteq 0..n
    OBVIOUS
  <1>. QED  BY <1>1 DEF Stamped

LEMMA KeyTimesStep ==
    ASSUME TypeOK, KeyTimes, [Next]_vars
    PROVE  KeyTimes'
  <1>1. clock \in Nat /\ sample_count \in Nat /\ SamplesPerBatch >= 2
          /\ SamplesPerBatch \in Nat
    BY TaskAssumption DEF TypeOK
  <1>2. CASE FirebaseInit
    BY <1>2 DEF FirebaseInit, KeyTimes, ram
  <1>3. CASE DeleteHistory
    <2>1. db' = db \/ db' = Without(db, DOMAIN db)
      BY <1>3 DEF DeleteHistory, DeleteOutcomes, Outcome
    <2>2. DOMAIN db' \subseteq DOMAIN db
      BY <2>1 DEF Without
    <2>. QED  BY <1>3, <2>2 DEF DeleteHistory, KeyTimes, ram
  <1>4. CASE ReadSensors
    <2>1. task' = "send" => sample_count > 0
      BY <1>1, <1>4 DEF ReadSensors
    <2>. QED  BY <1>4, <2>1 DEF ReadSensors, KeyTimes
  <1>5. CASE SendBatch
    <2>1. DOMAIN db' \subseteq DOMAIN db \cup {Key}
      BY <1>5 DEF SendBatch, PutOutcomes, Outcome, Put
    <2>2. Stamped(Key, clock)
      <3>1. clock \in 0..clock
        BY <1>1
      <3>. QED  BY <3>1, KeyStamped DEF Stamped
    <2>. QED  BY <1>5, <2>1, <2>2 DEF SendBatch, KeyTimes
  <1>6. CASE RetainAndReset
    <2>1. db' = db \/ \E L \in SUBSET DOMAIN db : db' = Without(db, L)
      BY <1>6, DbStep DEF RetainAndReset, SendBatch
    <2>2. DOMAIN db' \subseteq DOMAIN db
      BY <2>1 DEF Without
    <2>. QED  BY <1>6, <2>2 DEF RetainAndReset, KeyTimes
  <1>7. CASE Sleep
    <2>1. clock' - 1 = clock /\ clock <= clock' /\ clock' \in Int /\ db' = db
      BY <1>1, <1>7 DEF Sleep
    <2>2. \A k \in DOMAIN db : Stamped(k, clock)
      BY DEF KeyTimes
    <2>3. \A k \in DOMAIN db : Stamped(k, clock')
      <3>. SUFFICES ASSUME NEW k \in DOMAIN db PROVE Stamped(k, clock')
        OBVIOUS
      <3>1. Stamped(k, clock) /\ clock \in Int /\ clock' \in Int /\ clock <= clock'
        BY <1>1, <2>1, <2>2
      <3>. QED  BY <3>1, StampedMonotone
    <2>4. \A k \in DOMAIN db : Stamped(k, clock' - 1)
      BY <2>1, <2>2
    <2>. QED  BY <1>7, <2>1, <2>3, <2>4 DEF Sleep, KeyTimes
  <1>8. CASE SntpSync \/ UNCHANGED vars
    BY <1>8 DEF SntpSync, vars, KeyTimes, ram
  <1>9. CASE Restart
    BY <1>9 DEF Restart, KeyTimes
  <1>. QED  BY <1>2, <1>3, <1>4, <1>5, <1>6, <1>7, <1>8, <1>9 DEF Next, Step

\* No PUT of sensor_task replaces a record: its key, made by strftime from the
\* clock (main.c:196), is not in the history, even when the device restarted
\* within the minute or the year jumped when SNTP answered.
THEOREM RecordsKept == Spec => NeverOverwritten
  <1>1. Init => KeyTimes
    BY DEF Init, EmptyTree, KeyTimes
  <1>2. TypeOK /\ KeyTimes /\ [Next]_vars => KeyTimes'
    BY KeyTimesStep
  <1>3. TypeOK /\ KeyTimes /\ [Next]_vars
           => [\A k \in DOMAIN db \cap DOMAIN db' : db'[k] = db[k]]_vars
    <2>. SUFFICES ASSUME TypeOK, KeyTimes, [Next]_vars,
                         NEW k \in DOMAIN db \cap DOMAIN db'
                  PROVE  db'[k] = db[k]
      OBVIOUS
    <2>1. CASE SendBatch /\ db' = Put(db, Key, Average)
      <3>1. k # Key
        BY <2>1, KeyFresh DEF SendBatch
      <3>. QED  BY <2>1, <3>1 DEF Put
    <2>2. CASE \E L \in SUBSET DOMAIN db : db' = Without(db, L)
      BY <2>2 DEF Without
    <2>. QED  BY <2>1, <2>2, DbStep
  <1>. QED  BY <1>1, <1>2, <1>3, TypeCorrect, PTL DEF Spec, NeverOverwritten

------------------------------------------------------------------------------
(* The drift of approx_count *)

\* The inductive invariant of CountDrift: the counters of a boot start at zero.
Drift ==
    /\ CountDrift
    /\ task \in {"init", "wipe"} => approx_count = 0 /\ lost = 0 /\ ghosts = 0

\* A PUT adds exactly one record or is one of the lost ones.
LEMMA SendCounts ==
    ASSUME TypeOK, KeyTimes, SendBatch
    PROVE  \/ Size' = Size + 1 /\ lost' = lost
           \/ Size' = Size /\ lost' = lost + 1
  <1>1. PICK o \in PutOutcomes(db, Key, Average) :
           db' = o.tree /\ lost' = IF o.tree = db THEN lost + 1 ELSE lost
    BY DEF SendBatch
  <1>2. o.tree = db \/ o.tree = Put(db, Key, Average)
    BY DEF PutOutcomes, Outcome
  <1>3. Key \notin DOMAIN db
    BY KeyFresh DEF SendBatch
  <1>4. DOMAIN Put(db, Key, Average) = DOMAIN db \cup {Key}
    BY DEF Put
  <1>5. IsFiniteSet(DOMAIN db)
    BY DEF TypeOK
  <1>6. Cardinality(DOMAIN db \cup {Key}) = Cardinality(DOMAIN db) + 1
    BY <1>3, <1>5, FS_AddElement
  <1>7. CASE o.tree = db
    BY <1>1, <1>7 DEF Size
  <1>8. CASE o.tree = Put(db, Key, Average)
    <2>1. o.tree # db
      BY <1>3, <1>4, <1>8
    <2>. QED  BY <1>1, <1>4, <1>6, <1>8, <2>1 DEF Size
  <1>. QED  BY <1>2, <1>7, <1>8

LEMMA DriftStep ==
    ASSUME TypeOK, KeyTimes, Drift, [Next]_vars
    PROVE  Drift'
  <1>1. /\ IsFiniteSet(DOMAIN db) /\ approx_count \in Nat
        /\ lost \in Nat /\ ghosts \in Nat
    BY DEF TypeOK
  <1>2. Size \in Nat
    BY <1>1, FS_CardinalityType DEF Size
  <1>3. CASE FirebaseInit \/ ReadSensors \/ Sleep \/ SntpSync \/ UNCHANGED vars
    <2>1. /\ UNCHANGED <<db, approx_count, clean, lost, ghosts>>
          /\ (task # "retain" /\ task' # "retain") \/ task' = task
      BY <1>3 DEF FirebaseInit, ReadSensors, Sleep, SntpSync, vars, ram, observers
    <2>2. Uncounted' = Uncounted /\ Size' = Size
      BY <2>1 DEF Uncounted, Size
    <2>. QED  BY <1>3, <2>1, <2>2 DEF FirebaseInit, ReadSensors, Sleep, SntpSync, vars, ram,
                                      observers, Drift, CountDrift
  <1>4. CASE Restart
    BY <1>4 DEF Restart, Drift, CountDrift
  <1>5. CASE DeleteHistory
    <2>1. ASSUME clean' PROVE Size' = 0
      BY <1>5, <2>1, FS_EmptySet DEF DeleteHistory, EmptyTree, Size
    <2>2. approx_count' = 0 /\ lost' = 0 /\ ghosts' = 0
      BY <1>5 DEF DeleteHistory, Drift, ram
    <2>3. Uncounted' = 0 /\ task' = "sample"
      BY <1>5 DEF DeleteHistory, Uncounted
    <2>. QED  BY <2>1, <2>2, <2>3 DEF Drift, CountDrift
  <1>6. CASE SendBatch
    <2>1. /\ UNCHANGED <<approx_count, ghosts, clean>>
          /\ Uncounted = 0 /\ Uncounted' = 1 /\ task' = "retain"
      BY <1>6 DEF SendBatch, Uncounted
    <2>2. \/ Size' = Size + 1 /\ lost' = lost
          \/ Size' = Size /\ lost' = lost + 1
      BY <1>6, SendCounts
    <2>. QED  BY <1>1, <1>2, <2>1, <2>2 DEF Drift, CountDrift
  <1>7. CASE RetainAndReset
    <2>1. /\ Uncounted = 1 /\ Uncounted' = 0 /\ task' = "sleep"
          /\ UNCHANGED <<clean, lost>>
      BY <1>7 DEF RetainAndReset, Uncounted
    <2>2. \/ Trim(approx_count + 1)
          \/ approx_count' = approx_count + 1 /\ UNCHANGED <<db, ghosts, trimFails>>
      BY <1>7 DEF RetainAndReset, Retention
    <2>3. clean => approx_count + 1 = Size + lost + ghosts
      BY <2>1 DEF Drift, CountDrift
    <2>4. CASE approx_count' = approx_count + 1 /\ UNCHANGED <<db, ghosts, trimFails>>
      BY <1>1, <2>1, <2>3, <2>4 DEF Drift, CountDrift, Size
    <2>5. CASE Trim(approx_count + 1)
      <3>1. approx_count + 1 \in Nat
        BY <1>1
      <3>2. CASE TrimFailed(approx_count + 1)
        BY <1>1, <1>2, <2>1, <2>3, <3>2 DEF TrimFailed, Drift, CountDrift
      <3>3. ASSUME NEW n \in Nat \ {0}, TrimRemoved(approx_count + 1, n)
            PROVE  Drift'
        <4>1. Size' = Size - n
          BY <3>3 DEF TrimRemoved
        <4>2. Size' \in Nat
          <5>1. IsFiniteSet(DOMAIN db')
            BY TypedStep DEF Typed
          <5>. QED  BY <5>1, FS_CardinalityType DEF Size
        <4>3. clean => approx_count + 1 >= n
          BY <1>1, <1>2, <2>3, <4>1, <4>2
        <4>4. clean => approx_count' = Size' + lost + ghosts'
          BY <1>1, <1>2, <2>3, <3>3, <4>1, <4>3 DEF TrimRemoved
        <4>5. approx_count' \in Nat
          BY <2>5, <3>1, TrimScalars
        <4>. QED  BY <2>1, <4>4, <4>5 DEF Drift, CountDrift
      <3>. QED  BY <2>5, <3>1, <3>2, <3>3, TrimSize
    <2>. QED  BY <2>2, <2>4, <2>5
  <1>. QED  BY <1>3, <1>4, <1>5, <1>6, <1>7 DEF Next, Step

\* approx_count (main.c:208-218) departs from the number of records by exactly
\* the PUTs of this boot that were not stored and the records removed by a PATCH
\* whose answer was lost: a PUT that was stored though it failed, a partial
\* listing or a failed trim leave the count right.
THEOREM DriftAccounted == Spec => []CountDrift
  <1>1. Init => KeyTimes /\ Drift
    BY DEF Init, EmptyTree, KeyTimes, Drift, CountDrift
  <1>2. TypeOK /\ KeyTimes /\ Drift /\ [Next]_vars => KeyTimes' /\ Drift'
    BY KeyTimesStep, DriftStep
  <1>3. Drift => CountDrift
    BY DEF Drift
  <1>. QED  BY <1>1, <1>2, <1>3, TypeCorrect, PTL DEF Spec

------------------------------------------------------------------------------
(* The records *)

\* The accumulators hold as many samples as sample_count says, the latest one among them.
Accumulated ==
    /\ IsFiniteSet(acc) /\ Cardinality(acc) = sample_count
    /\ acc # {} => taken \in acc

Full == task = "send" => sample_count = SamplesPerBatch

\* Until a batch is sent, its samples are younger than those of every record.
Younger ==
    task # "retain" =>
        \A k \in DOMAIN db : \A s \in db[k].samples, a \in acc : s < a

\* The samples of the next batch of this boot, as far as they are known
Pending == (IF task = "retain" THEN {} ELSE acc) \cup {taken + 1}

\* A record of this boot right before the next batch: sensor_task remembers its date.
Remembered ==
    \A k \in DOMAIN db :
       db[k].boot = boot /\ (\E i \in db[k].samples : i + 1 \in Pending) =>
           db[k].fecha = last_fecha /\ ~first_send

------------------------------------------------------------------------------

\* A record is there before a step, or the step is the PUT that stores it.
LEMMA RecordStep ==
    ASSUME [Next]_vars, NEW k \in DOMAIN db'
    PROVE  \/ k \in DOMAIN db /\ db'[k] = db[k]
           \/ SendBatch /\ k = Key /\ db'[k] = Average
<1>1. CASE db' = db
  BY <1>1
<1>2. CASE SendBatch /\ db' = Put(db, Key, Average)
  BY <1>2 DEF Put
<1>3. CASE \E L \in SUBSET DOMAIN db : db' = Without(db, L)
  BY <1>3 DEF Without
<1> QED
  BY <1>1, <1>2, <1>3, DbStep

\* What is known of a record from the type invariant
LEMMA RecordType ==
    ASSUME TypeOK, NEW k \in DOMAIN db
    PROVE  /\ db[k].samples \subseteq 1..taken /\ db[k].boot \in 1..boot
           /\ db[k].kind \in {"full", "dated", "plain"}
  BY DEF TypeOK, Records

\* What the steps do with the accumulators: a sample is read, they are emptied, or neither.
LEMMA AccStep ==
    ASSUME [Next]_vars
    PROVE  \/ /\ task = "sample" /\ acc' = acc \cup {taken + 1} /\ taken' = taken + 1
              /\ sample_count' = sample_count + 1 /\ task' # "retain"
              /\ UNCHANGED <<db, boot, first_send, last_fecha>>
           \/ /\ acc' = {} /\ sample_count' = 0 /\ taken' = taken /\ task' # "retain"
              /\ \/ task = "retain" /\ UNCHANGED <<boot, first_send, last_fecha>>
                 \/ boot' = boot + 1 /\ db' = db
           \/ UNCHANGED <<acc, sample_count, taken, boot>> /\ SendBatch
           \/ /\ UNCHANGED <<acc, sample_count, taken, boot, first_send, last_fecha>>
              /\ task' = "retain" <=> task = "retain"
<1> USE DEF ram, observers
<1>1. CASE ReadSensors
  BY <1>1 DEF ReadSensors
<1>2. CASE RetainAndReset
  BY <1>2 DEF RetainAndReset, Reset
<1>3. CASE Restart
  BY <1>3 DEF Restart
<1>4. CASE SendBatch
  BY <1>4 DEF SendBatch
<1>5. CASE FirebaseInit \/ DeleteHistory \/ Sleep \/ SntpSync
  BY <1>5 DEF FirebaseInit, DeleteHistory, Sleep, SntpSync
<1>6. CASE UNCHANGED vars
  BY <1>6 DEF vars
<1> QED
  BY <1>1, <1>2, <1>3, <1>4, <1>5, <1>6 DEF Next, Step

LEMMA AccumulatedStep == TypeOK /\ Accumulated /\ [Next]_vars => Accumulated'
<1> SUFFICES ASSUME TypeOK, Accumulated, [Next]_vars PROVE Accumulated'
  OBVIOUS
<1>1. taken \in Nat /\ acc \subseteq 1..taken
  BY DEF TypeOK
<1>2. CASE acc' = acc \cup {taken + 1} /\ taken' = taken + 1 /\ sample_count' = sample_count + 1
  <2>1. taken + 1 \notin acc
    BY <1>1
  <2>2. IsFiniteSet(acc \cup {taken + 1}) /\ Cardinality(acc \cup {taken + 1}) = Cardinality(acc) + 1
    BY <2>1, FS_AddElement DEF Accumulated
  <2> QED
    BY <1>2, <2>2 DEF Accumulated
<1>3. CASE acc' = {} /\ sample_count' = 0
  BY <1>3, FS_EmptySet DEF Accumulated
<1>4. CASE UNCHANGED <<acc, sample_count, taken>>
  BY <1>4 DEF Accumulated
<1> QED
  BY <1>2, <1>3, <1>4, AccStep

\* A batch is sent as soon as it is full.
LEMMA FullStep == TypeOK /\ Room /\ Full /\ [Next]_vars => Full'
<1> SUFFICES ASSUME TypeOK, Room, Full, [Next]_vars, task' = "send"
             PROVE  sample_count' = SamplesPerBatch
  BY DEF Full
<1>1. CASE ReadSensors
  BY <1>1, TaskAssumption DEF ReadSensors, TypeOK, Room
<1>2. CASE ~ReadSensors
  BY <1>2 DEF Next, Step, FirebaseInit, DeleteHistory, SendBatch, RetainAndReset, Sleep,
              SntpSync, Restart, ram, vars, Full
<1> QED
  BY <1>1, <1>2

LEMMA YoungerStep == TypeOK /\ Younger /\ [Next]_vars => Younger'
<1> SUFFICES ASSUME TypeOK, Younger, [Next]_vars, task' # "retain",
                    NEW k \in DOMAIN db', NEW s \in db'[k].samples, NEW a \in acc'
             PROVE  s < a
  BY DEF Younger
<1>1. k \in DOMAIN db /\ db'[k] = db[k]
  BY RecordStep DEF SendBatch
<1>2. s \in 1..taken /\ taken \in Nat
  BY <1>1, RecordType DEF TypeOK
<1>3. CASE task = "sample" /\ acc' = acc \cup {taken + 1}
  BY <1>1, <1>2, <1>3 DEF Younger
<1>4. CASE acc' = {}
  BY <1>4
<1>5. CASE acc' = acc /\ task # "retain"
  BY <1>1, <1>5 DEF Younger
<1> QED
  BY <1>3, <1>4, <1>5, AccStep DEF SendBatch

------------------------------------------------------------------------------

LEMMA RememberedStep ==
    TypeOK /\ Full /\ Accumulated /\ Younger /\ Remembered /\ [Next]_vars => Remembered'
<1> SUFFICES ASSUME TypeOK, Full, Accumulated, Younger, Remembered, [Next]_vars,
                    NEW k \in DOMAIN db', db'[k].boot = boot',
                    NEW i \in db'[k].samples, i + 1 \in Pending'
             PROVE  db'[k].fecha = last_fecha' /\ ~first_send'
  BY DEF Remembered
<1>1. taken \in Nat /\ boot \in Nat
  BY TaskAssumption DEF TypeOK
<1>2. CASE SendBatch
  <2>1. ~first_send' /\ last_fecha' = Fecha /\ Pending' = {taken + 1} /\ task = "send"
        /\ UNCHANGED <<taken, acc>>
    BY <1>2 DEF SendBatch, Pending
  <2>2. CASE k = Key /\ db'[k] = Average
    BY <2>1, <2>2 DEF Average
  <2>3. CASE k \in DOMAIN db /\ db'[k] = db[k]
    <3>1. i \in 1..taken
      BY <2>3, RecordType
    <3>2. i = taken
      BY <1>1, <2>1, <3>1
    <3>3. taken \in acc
      <4>1. Cardinality(acc) # 0
        BY <2>1, TaskAssumption DEF Full, Accumulated
      <4>2. acc # {}
        BY <4>1, FS_EmptySet
      <4> QED
        BY <4>2 DEF Accumulated
    <3>4. i < taken
      BY <2>1, <2>3, <3>3 DEF Younger
    <3> QED
      BY <1>1, <3>2, <3>4
  <2> QED
    BY <2>2, <2>3, RecordStep
<1>3. CASE ~SendBatch
  <2>1. k \in DOMAIN db /\ db'[k] = db[k]
    BY <1>3, RecordStep
  <2>2. i \in 1..taken /\ db[k].boot \in 1..boot
    BY <2>1, RecordType
  <2>3. CASE /\ task = "sample" /\ acc' = acc \cup {taken + 1} /\ taken' = taken + 1
             /\ task' # "retain" /\ UNCHANGED <<boot, first_send, last_fecha>>
    <3>1. i + 1 \in acc \cup {taken + 1, taken + 2}
      BY <1>1, <2>3 DEF Pending
    <3>2. i + 1 \in Pending
      BY <1>1, <2>2, <2>3, <3>1 DEF Pending
    <3> QED
      BY <2>1, <2>3, <3>2 DEF Remembered
  <2>4. CASE /\ acc' = {} /\ taken' = taken /\ task' # "retain" /\ task = "retain"
             /\ UNCHANGED <<boot, first_send, last_fecha>>
    <3>1. i + 1 \in Pending
      BY <2>4 DEF Pending
    <3> QED
      BY <2>1, <2>4, <3>1 DEF Remembered
  <2>5. CASE boot' = boot + 1
    BY <1>1, <2>1, <2>2, <2>5
  <2>6. CASE /\ UNCHANGED <<acc, taken, boot, first_send, last_fecha>>
             /\ task' = "retain" <=> task = "retain"
    <3>1. i + 1 \in Pending
      BY <2>6 DEF Pending
    <3> QED
      BY <2>1, <2>6, <3>1 DEF Remembered
  <2> QED
    BY <1>3, <2>3, <2>4, <2>5, <2>6, AccStep
<1> QED
  BY <1>2, <1>3

\* A record gets the samples of a full batch, and none that another record has.
LEMMA IntegrityStep ==
    Full /\ Accumulated /\ Younger /\ TypeOK /\ BatchIntegrity /\ [Next]_vars => BatchIntegrity'
<1> SUFFICES ASSUME Full, Accumulated, Younger, TypeOK, BatchIntegrity, [Next]_vars
             PROVE  BatchIntegrity'
  OBVIOUS
<1>1. ASSUME NEW k \in DOMAIN db' PROVE Cardinality(db'[k].samples) = SamplesPerBatch
  <2>1. CASE k \in DOMAIN db /\ db'[k] = db[k]
    BY <2>1 DEF BatchIntegrity
  <2>2. CASE SendBatch /\ db'[k] = Average
    BY <2>2 DEF SendBatch, Average, Full, Accumulated
  <2> QED
    BY <2>1, <2>2, RecordStep
<1>2. ASSUME SendBatch, NEW j \in DOMAIN db PROVE db[j].samples \cap acc = {}
  <2>1. \A s \in db[j].samples, a \in acc : s < a
    BY <1>2 DEF SendBatch, Younger
  <2>2. \A s \in db[j].samples : s \in Nat
    BY RecordType DEF TypeOK
  <2> QED
    BY <2>1, <2>2
<1>3. ASSUME NEW j \in DOMAIN db', NEW k \in DOMAIN db', j # k
      PROVE  db'[j].samples \cap db'[k].samples = {}
  <2>1. CASE j \in DOMAIN db /\ db'[j] = db[j] /\ k \in DOMAIN db /\ db'[k] = db[k]
    BY <1>3, <2>1 DEF BatchIntegrity
  <2>2. CASE SendBatch /\ db'[k] = Average /\ j \in DOMAIN db /\ db'[j] = db[j]
    BY <1>2, <2>2 DEF Average
  <2>3. CASE SendBatch /\ db'[j] = Average /\ k \in DOMAIN db /\ db'[k] = db[k]
    BY <1>2, <2>3 DEF Average
  <2> QED
    BY <1>3, <2>1, <2>2, <2>3, RecordStep
<1> QED
  BY <1>1, <1>3 DEF BatchIntegrity

\* The batch after a remembered record of another date is sent with its date.
LEMMA MarkedStep ==
    /\ TypeOK /\ Full /\ Accumulated /\ Younger /\ Remembered
    /\ DateChangeMarked /\ [Next]_vars
    => DateChangeMarked'
<1> SUFFICES ASSUME TypeOK, Younger, Remembered, DateChangeMarked, [Next]_vars,
                    NEW j \in DOMAIN db', NEW k \in DOMAIN db',
                    db'[j].boot = db'[k].boot, db'[j].fecha # db'[k].fecha,
                    NEW i \in db'[j].samples, i + 1 \in db'[k].samples
             PROVE  db'[k].kind # "plain"
  BY DEF DateChangeMarked
<1>1. CASE j \in DOMAIN db /\ db'[j] = db[j] /\ k \in DOMAIN db /\ db'[k] = db[k]
  BY <1>1 DEF DateChangeMarked
<1>2. CASE SendBatch /\ db'[k] = Average /\ j \in DOMAIN db /\ db'[j] = db[j]
  <2>1. i + 1 \in Pending /\ db[j].boot = boot
    BY <1>2 DEF SendBatch, Average, Pending
  <2>2. db[j].fecha = last_fecha /\ ~first_send
    BY <1>2, <2>1 DEF Remembered
  <2>3. db'[k].fecha = Fecha /\ db'[k].kind = Kind
    BY <1>2 DEF Average
  <2>4. last_fecha # Fecha
    BY <1>2, <2>2, <2>3
  <2> QED
    BY <2>2, <2>3, <2>4 DEF Kind
<1>3. CASE SendBatch /\ db'[j] = Average /\ k \in DOMAIN db /\ db'[k] = db[k]
  <2>1. i \in acc /\ i + 1 \in db[k].samples /\ task = "send"
    BY <1>3 DEF Average, SendBatch
  <2>2. i \in Nat
    BY <2>1 DEF TypeOK
  <2>3. i + 1 < i
    BY <1>3, <2>1 DEF Younger
  <2> QED
    BY <2>2, <2>3
<1>4. CASE db'[j] = Average /\ db'[k] = Average
  BY <1>4
<1> QED
  BY <1>1, <1>2, <1>3, <1>4, RecordStep

IInv ==
    /\ Full /\ Accumulated /\ Younger /\ Remembered
    /\ BatchIntegrity /\ DateChangeMarked

LEMMA Invariance == Spec => []IInv
<1>1. Init => IInv
  <2> SUFFICES ASSUME Init PROVE IInv
    OBVIOUS
  <2>1. DOMAIN db = {}
    BY DEF Init, EmptyTree
  <2>2. Younger /\ Remembered /\ BatchIntegrity /\ DateChangeMarked
    BY <2>1 DEF Younger, Remembered, BatchIntegrity, DateChangeMarked
  <2>3. Full /\ Accumulated
    BY FS_EmptySet DEF Init, Full, Accumulated
  <2> QED
    BY <2>2, <2>3 DEF IInv
<1>2. TypeOK /\ Room /\ IInv /\ [Next]_vars => IInv'
  BY FullStep, AccumulatedStep, YoungerStep, RememberedStep, IntegrityStep, MarkedStep DEF IInv
<1> QED
  BY <1>1, <1>2, TypeCorrect, PTL DEF Spec

\* Every record of the history averages SAMPLES_PER_BATCH samples that no other record has,
\* whatever PUTs and trims are lost or repeated and whenever the device restarts.
THEOREM Integrity == Spec => []BatchIntegrity
<1>1. IInv => BatchIntegrity
  BY DEF IInv
<1> QED
  BY <1>1, Invariance, PTL

\* Of two consecutive records of a boot with different dates, the second carries its date,
\* though first_send and last_fecha_str change before the PUT and whatever becomes of it.
THEOREM DatesMarked == Spec => []DateChangeMarked
<1>1. IInv => DateChangeMarked
  BY DEF IInv
<1> QED
  BY <1>1, Invariance, PTL

\* The records of sensor_task are averages of whole batches, and a new day is marked between
\* the stored records of two consecutive batches.
THEOREM RecordsReadable == Spec => []RecordsSound
  BY Integrity, DatesMarked, PTL DEF RecordsSound

------------------------------------------------------------------------------
(* The order of the keys *)

\* The key of a record is made of the year that its date states and of a minute up to now.
KeyOfYear ==
    \A k \in DOMAIN db :
       \E c \in 0..clock : k = (db[k].fecha[1] % 100) * (MaxClock + 1) + c

\* Of two records of one year, the one with the smaller key was sampled first.
KeyOrder ==
    \A j, k \in DOMAIN db :
       db[j].fecha[1] = db[k].fecha[1] /\ j < k => Before(db[j], db[k])

\* The key of a PUT is not below that of a record of its year.
LEMMA KeyIsLast ==
    ASSUME TypeOK, KeyOfYear, NEW j \in DOMAIN db, db[j].fecha[1] = Year
    PROVE  ~(Key < j)
<1>1. PICK c \in 0..clock : j = (Year % 100) * (MaxClock + 1) + c
  BY DEF KeyOfYear
<1>2. Year % 100 \in 0..99 /\ Key = (Year % 100) * (MaxClock + 1) + clock
  BY KeyStamped
<1>3. clock \in Nat /\ MaxClock \in Nat
  BY TaskAssumption DEF TypeOK
<1>4. (Year % 100) * (MaxClock + 1) \in Nat
  BY <1>2, <1>3
<1> QED
  BY <1>1, <1>2, <1>3, <1>4

LEMMA KeyOfYearStep == TypeOK /\ KeyOfYear /\ [Next]_vars => KeyOfYear'
<1> SUFFICES ASSUME TypeOK, KeyOfYear, [Next]_vars, NEW k \in DOMAIN db'
             PROVE  \E c \in 0..clock' : k = (db'[k].fecha[1] % 100) * (MaxClock + 1) + c
  BY DEF KeyOfYear
<1>1. clock \in Nat /\ clock' \in Nat /\ clock <= clock'
  <2>1. clock' = clock \/ clock' = clock + 1
    BY DEF Next, Step, FirebaseInit, DeleteHistory, ReadSensors, SendBatch, RetainAndReset,
           Sleep, SntpSync, Restart, vars
  <2>2. clock \in Nat
    BY DEF TypeOK
  <2> QED
    BY <2>1, <2>2
<1>2. CASE k \in DOMAIN db /\ db'[k] = db[k]
  <2>1. PICK c \in 0..clock : k = (db[k].fecha[1] % 100) * (MaxClock + 1) + c
    BY <1>2 DEF KeyOfYear
  <2>2. c \in 0..clock'
    BY <1>1
  <2> QED
    BY <1>2, <2>1, <2>2
<1>3. CASE SendBatch /\ k = Key /\ db'[k] = Average
  <2>1. clock' = clock
    BY <1>3 DEF SendBatch
  <2>2. db'[k].fecha[1] = Year
    <3>1. Average.fecha = Fecha
      BY DEF Average
    <3>2. Fecha[1] = Year
      BY DEF Fecha
    <3> QED
      BY <1>3, <3>1, <3>2
  <2>3. k = (db'[k].fecha[1] % 100) * (MaxClock + 1) + clock /\ clock \in 0..clock'
    BY <1>1, <1>3, <2>1, <2>2, KeyStamped
  <2> QED
    BY <2>3
<1> QED
  BY <1>2, <1>3, RecordStep

LEMMA KeyOrderStep == TypeOK /\ Younger /\ KeyOfYear /\ KeyOrder /\ [Next]_vars => KeyOrder'
<1> SUFFICES ASSUME TypeOK, Younger, KeyOfYear, KeyOrder, [Next]_vars,
                    NEW j \in DOMAIN db', NEW k \in DOMAIN db',
                    db'[j].fecha[1] = db'[k].fecha[1], j < k
             PROVE  Before(db'[j], db'[k])
  BY DEF KeyOrder
<1>1. CASE j \in DOMAIN db /\ db'[j] = db[j] /\ k \in DOMAIN db /\ db'[k] = db[k]
  BY <1>1 DEF KeyOrder
<1>2. CASE SendBatch /\ db'[k] = Average /\ j \in DOMAIN db /\ db'[j] = db[j]
  <2>1. \A s \in db[j].samples, a \in acc : s < a
    BY <1>2 DEF SendBatch, Younger
  <2> QED
    BY <1>2, <2>1 DEF Average, Before
<1>3. CASE SendBatch /\ j = Key /\ db'[j] = Average /\ k \in DOMAIN db /\ db'[k] = db[k]
  <2>1. db[k].fecha[1] = Year
    BY <1>3 DEF Average, Fecha
  <2> QED
    BY <1>3, <2>1, KeyIsLast
<1>4. CASE j = Key /\ k = Key
  <2>1. Key \in Nat
    BY ClockTypes
  <2> QED
    BY <1>4, <2>1
<1> QED
  BY <1>1, <1>2, <1>3, <1>4, RecordStep

\* A record that is before another one in its year has the smaller key.
LEMMA BeforeIsBelow ==
    ASSUME TypeOK, BatchIntegrity, KeyOrder, NEW j \in DOMAIN db, NEW k \in DOMAIN db,
           db[j].fecha[1] = db[k].fecha[1], Before(db[j], db[k])
    PROVE  j < k
<1>1. j \in Nat /\ k \in Nat
  BY DEF TypeOK
<1>2. ASSUME NEW i \in DOMAIN db PROVE \E s \in db[i].samples : s \in Nat
  <2>1. Cardinality(db[i].samples) # 0
    BY TaskAssumption DEF BatchIntegrity
  <2>2. db[i].samples # {}
    BY <2>1, FS_EmptySet
  <2>3. db[i].samples \subseteq 1..taken
    BY RecordType
  <2> QED
    BY <2>2, <2>3
<1>3. PICK s \in db[j].samples : s \in Nat
  BY <1>2
<1>4. PICK r \in db[k].samples : r \in Nat
  BY <1>2
<1>5. s < r
  BY <1>3, <1>4 DEF Before
<1>6. CASE j = k
  BY <1>3, <1>6 DEF Before
<1>7. CASE k < j
  <2>1. r < s
    BY <1>3, <1>4, <1>7 DEF KeyOrder, Before
  <2> QED
    BY <1>3, <1>4, <1>5, <2>1
<1> QED
  BY <1>1, <1>6, <1>7

\* What the retention block removes is among the first keys of the history.
LEMMA RemovesOldest ==
    ASSUME TypeOK, [Next]_vars, task = "retain", task' = "sleep",
           NEW k \in DOMAIN db, k \notin DOMAIN db'
    PROVE  Cardinality({j \in DOMAIN db : j < k}) < TrimBatch
<1>1. RetainAndReset
  BY DEF Next, Step, FirebaseInit, DeleteHistory, ReadSensors, SendBatch, Sleep, SntpSync,
         Restart, vars
<1>2. PICK o \in TrimOutcomes(db, TrimBatch) : db' = o.tree
  BY <1>1 DEF RetainAndReset, Retention, Trim
<1>3. PICK L \in SUBSET Oldest(DOMAIN db, TrimBatch) : o.tree = Without(db, L)
  <2>1. o.tree # db
    BY <1>2
  <2>2. o \notin {Outcome(-1, db), Outcome(0, db)}
    <3>1. \A r : Outcome(r, db).tree = db
      BY DEF Outcome
    <3> QED
      BY <2>1, <3>1
  <2>3. PICK L \in (SUBSET Oldest(DOMAIN db, TrimBatch)) \ {{}} :
           o \in {Outcome(Cardinality(L), Without(db, L)),
                  Outcome(-2, Without(db, L)), Outcome(-2, db)}
    BY <2>2 DEF TrimOutcomes
  <2>4. o.tree = Without(db, L)
    BY <2>1, <2>3 DEF Outcome
  <2> QED
    BY <2>4
<1>4. k \in L
  BY <1>2, <1>3 DEF Without
<1> QED
  BY <1>4 DEF Oldest

\* While the records are of one year, firebase_trim_oldest_batch removes none but those among
\* the 50 oldest: the order of the key strings of main.c:196 is the order of the samples,
\* across restarts, lost PUTs and listings that are cut short.
THEOREM OldestTrimmed == Spec => TrimsOldestOfYear
<1> DEFINE Inv == TypeOK /\ Younger /\ BatchIntegrity /\ KeyOfYear /\ KeyOrder
<1>1. Init => KeyOfYear /\ KeyOrder
  BY DEF Init, EmptyTree, KeyOfYear, KeyOrder
<1>2. TypeOK /\ IInv /\ KeyOfYear /\ KeyOrder /\ [Next]_vars => KeyOfYear' /\ KeyOrder'
  BY KeyOfYearStep, KeyOrderStep DEF IInv
<1>3. Spec => []Inv
  <2>1. IInv => Younger /\ BatchIntegrity
    BY DEF IInv
  <2> QED
    BY <1>1, <1>2, <2>1, TypeCorrect, Invariance, PTL DEF Spec
<1>4. Inv /\ [Next]_vars =>
        [task = "retain" /\ task' = "sleep" /\ (\A k \in DOMAIN db : db[k].fecha[1] = Year) =>
            \A k \in DOMAIN db \ DOMAIN db' :
               Cardinality({j \in DOMAIN db : Before(db[j], db[k])}) < TrimBatch]_vars
  <2> SUFFICES ASSUME Inv, [Next]_vars, task = "retain", task' = "sleep",
                      \A k \in DOMAIN db : db[k].fecha[1] = Year,
                      NEW k \in DOMAIN db, k \notin DOMAIN db'
               PROVE  Cardinality({j \in DOMAIN db : Before(db[j], db[k])}) < TrimBatch
    OBVIOUS
  <2> DEFINE B == {j \in DOMAIN db : Before(db[j], db[k])}
             S == {j \in DOMAIN db : j < k}
  <2>1. B \subseteq S
    BY BeforeIsBelow
  <2>2. IsFiniteSet(S)
    BY FS_Subset DEF TypeOK
  <2>3. Cardinality(S) < TrimBatch
    BY RemovesOldest
  <2> HIDE DEF B, S
  <2>4. Cardinality(B) <= Cardinality(S) /\ Cardinality(B) \in Nat /\ Cardinality(S) \in Nat
    BY <2>1, <2>2, FS_Subset, FS_CardinalityType
  <2>5. Cardinality(B) < TrimBatch
    BY <2>3, <2>4, TaskAssumption
  <2> QED
    BY <2>5 DEF B
<1> QED
  BY <1>3, <1>4, PTL DEF Spec, TrimsOldestOfYear

------------------------------------------------------------------------------
(* A device that loses its power *)

\* Minutes since the first boot
Elapsed == clock + lag

PTypes ==
    /\ clock \in Nat /\ lag \in Nat /\ Elapsed <= MaxClock
    /\ sample_count \in Nat /\ synced \in BOOLEAN
    /\ synced => lag = 0

\* The keys of K were made up to minute m.
AllStamped(K, m) == \A k \in K : Stamped(k, m)

\* Keys are never ahead of the time, nor of the clock after a boot that emptied the history;
\* and they are behind when a batch is sent.
PKeyTimes ==
    /\ task \in {"init", "dead", "wipe"} => sample_count = 0
    /\ AllStamped(DOMAIN db, Elapsed) /\ (clean => AllStamped(DOMAIN db, clock))
    /\ task = "send" \/ (task = "sample" /\ sample_count > 0)
          => /\ AllStamped(DOMAIN db, Elapsed - 1)
             /\ clean => AllStamped(DOMAIN db, clock - 1)

\* The key of a PUT is none that was made before this minute.
LEMMA KeyNotBefore ==
    ASSUME PTypes, NEW k, Stamped(k, clock - 1)
    PROVE  k # Key
<1> SUFFICES ASSUME k = Key PROVE FALSE
  OBVIOUS
<1> DEFINE P == MaxClock + 1
           y == Year % 100
<1>1. MaxClock \in Nat /\ clock \in 0..MaxClock /\ Year \in Nat
  BY TaskAssumption DEF PTypes, Elapsed, Year
<1>2. PICK z \in 0..99, c \in 0..(clock - 1) : Key = z * P + c
  BY DEF Stamped
<1>3. P \in Nat /\ y \in Nat /\ z \in Nat /\ c \in 0..(P - 1) /\ clock \in 0..(P - 1)
  BY <1>1
<1>4. z * P + c = y * P + clock
  BY <1>2 DEF Key
<1>5. c = clock
  <2> HIDE DEF P, y
  <2> QED
    BY <1>3, <1>4, KeysApart
<1> QED
  BY <1>1, <1>5

\* What the steps do with the time and with the clock
LEMMA ClockStep ==
    ASSUME PTypes, [PNext]_pvars
    PROVE  /\ PTypes'
           /\ \/ Sleep /\ Elapsed' = Elapsed + 1 /\ clock' = clock + 1
              \/ Elapsed' = Elapsed /\ clock <= clock'
              \/ PowerLoss /\ Elapsed' = Elapsed
<1> USE DEF Elapsed
<1>1. CASE Runs /\ Sleep
  BY <1>1, TaskAssumption DEF Runs, Sleep, ram, PTypes
<1>2. CASE Runs /\ ~Sleep
  <2>1. UNCHANGED <<clock, lag, synced>> /\ sample_count' \in Nat
    <3>1. UNCHANGED <<clock, lag, synced>>
      BY <1>2 DEF Runs, Step, FirebaseInit, DeleteHistory, ReadSensors, SendBatch,
                  RetainAndReset
    <3>2. sample_count' \in {0, sample_count, sample_count + 1}
      BY <1>2 DEF Runs, Step, FirebaseInit, DeleteHistory, ReadSensors, SendBatch,
                  RetainAndReset, Reset, ram
    <3> QED
      BY <3>1, <3>2 DEF PTypes
  <2> QED
    BY <2>1 DEF PTypes
<1>3. CASE Sync
  <2>1. clock' = clock + lag /\ lag' = 0 /\ synced' = TRUE /\ sample_count' = sample_count
    BY <1>3 DEF Sync, ram
  <2> QED
    BY <2>1, TaskAssumption DEF PTypes
<1>4. CASE SoftRestart
  BY <1>4 DEF SoftRestart, Restart, PTypes
<1>5. CASE PowerLoss
  <2>1. clock' = 0 /\ lag' = lag + clock /\ synced' = FALSE /\ sample_count' = 0
    BY <1>5 DEF PowerLoss
  <2>2. clock' + lag' = clock + lag /\ lag' \in Nat
    BY <2>1 DEF PTypes
  <2>3. PTypes'
    BY <2>1, <2>2 DEF PTypes
  <2> QED
    BY <1>5, <2>2, <2>3
<1>6. CASE UNCHANGED pvars
  BY <1>6 DEF pvars, vars, PTypes
<1> QED
  BY <1>1, <1>2, <1>3, <1>4, <1>5, <1>6 DEF PNext

\* Keys that were made up to some minute, or some of them, were made up to any later one.
LEMMA Later ==
    ASSUME NEW K, NEW D, D \subseteq K, NEW m \in Int, NEW n \in Int, m <= n, AllStamped(K, m)
    PROVE  AllStamped(D, n)
  BY StampedMonotone DEF AllStamped

LEMMA PKeyTimesStep == PTypes /\ PKeyTimes /\ [PNext]_pvars => PKeyTimes'
<1> SUFFICES ASSUME PTypes, PKeyTimes, [PNext]_pvars PROVE PKeyTimes'
  OBVIOUS
<1>1. /\ clock \in Nat /\ sample_count \in Nat /\ clock' \in Nat
      /\ Elapsed \in Nat /\ Elapsed' \in Nat
  BY ClockStep DEF PTypes, Elapsed
<1>2. CASE Runs /\ Sleep
  <2>1. Elapsed' = Elapsed + 1 /\ clock' = clock + 1 /\ UNCHANGED <<db, clean>> /\ task' = "sample"
    BY <1>2 DEF Runs, Sleep, Elapsed, observers, PTypes
  <2>2. AllStamped(DOMAIN db', Elapsed' - 1) /\ (clean' => AllStamped(DOMAIN db', clock' - 1))
    BY <1>1, <2>1 DEF PKeyTimes
  <2>3. AllStamped(DOMAIN db', Elapsed') /\ (clean' => AllStamped(DOMAIN db', clock'))
    BY <1>1, <2>2, Later
  <2> QED
    BY <2>1, <2>2, <2>3 DEF PKeyTimes
<1>3. CASE Runs /\ SendBatch
  <2>1. /\ DOMAIN db' \subseteq DOMAIN db \cup {Key} /\ task' = "retain"
        /\ UNCHANGED <<clean, clock, lag, sample_count>>
    BY <1>3 DEF Runs, SendBatch, PutOutcomes, Outcome, Put
  <2>2. Stamped(Key, clock) /\ Stamped(Key, Elapsed)
    <3>1. clock \in 0..clock /\ clock <= Elapsed
      BY <1>1 DEF PTypes, Elapsed
    <3>2. Year \in Nat
      BY TaskAssumption DEF PTypes, Year
    <3>3. Year % 100 \in 0..99 /\ Key = (Year % 100) * (MaxClock + 1) + clock
      BY <3>2 DEF Key
    <3>4. Stamped(Key, clock)
      BY <3>1, <3>3 DEF Stamped
    <3> QED
      BY <1>1, <3>1, <3>4, StampedMonotone
  <2>3. Elapsed' = Elapsed
    BY <2>1 DEF Elapsed
  <2> QED
    BY <2>1, <2>2, <2>3 DEF PKeyTimes, AllStamped
<1>4. CASE Runs /\ DeleteHistory
  <2>1. /\ DOMAIN db' \subseteq DOMAIN db /\ (clean' => DOMAIN db' = {})
        /\ task' = "sample" /\ sample_count' = 0 /\ Elapsed' = Elapsed
    <3>1. task = "wipe" /\ task' = "sample" /\ UNCHANGED <<sample_count, clock, lag>>
      BY <1>4 DEF Runs, DeleteHistory, ram
    <3>2. PICK o \in DeleteOutcomes(db, DOMAIN db) : db' = o.tree /\ clean' = (o.tree = EmptyTree)
      BY <1>4 DEF DeleteHistory
    <3>3. DOMAIN db' \subseteq DOMAIN db
      BY <3>2 DEF DeleteOutcomes, Outcome, Without
    <3>4. clean' => DOMAIN db' = {}
      BY <3>2 DEF EmptyTree
    <3> QED
      BY <3>1, <3>3, <3>4 DEF PKeyTimes, Elapsed
  <2> QED
    BY <2>1 DEF PKeyTimes, AllStamped
<1>5. CASE Runs /\ RetainAndReset
  <2>1. db' = db \/ \E L \in SUBSET DOMAIN db : db' = Without(db, L)
    BY <1>5, DbStep DEF RetainAndReset, SendBatch, Runs, Next
  <2>2. /\ DOMAIN db' \subseteq DOMAIN db /\ task' = "sleep"
        /\ UNCHANGED <<clean, clock, Elapsed>>
    BY <1>5, <2>1 DEF Without, Runs, RetainAndReset, Elapsed
  <2> QED
    BY <2>2 DEF PKeyTimes, AllStamped
<1>6. CASE Runs /\ ReadSensors
  <2>1. UNCHANGED <<db, clean, clock, Elapsed>> /\ task = "sample"
    BY <1>6 DEF Runs, ReadSensors, Elapsed
  <2>2. task' \in {"send", "sleep"} /\ (task' = "send" => sample_count > 0)
    BY <1>1, <1>6, TaskAssumption DEF Runs, ReadSensors
  <2> QED
    BY <2>1, <2>2 DEF PKeyTimes
<1>7. CASE Runs /\ FirebaseInit
  BY <1>7 DEF Runs, FirebaseInit, PKeyTimes, Elapsed, ram, observers
<1>8. CASE Sync
  <2>1. Elapsed' = Elapsed /\ clock <= clock' /\ UNCHANGED <<db, clean, task, sample_count>>
    BY <1>1, <1>8 DEF Sync, Elapsed, PTypes, ram, observers
  <2>2. clean /\ AllStamped(DOMAIN db, clock) => AllStamped(DOMAIN db, clock')
    BY <1>1, <2>1, Later
  <2>3. AllStamped(DOMAIN db, clock - 1) => AllStamped(DOMAIN db, clock' - 1)
    BY <1>1, <2>1, Later
  <2> QED
    BY <2>1, <2>2, <2>3 DEF PKeyTimes
<1>9. CASE SoftRestart \/ PowerLoss
  <2>1. /\ task' = "init" /\ sample_count' = 0 /\ clean' = FALSE /\ db' = db
        /\ Elapsed' = Elapsed
    BY <1>9 DEF SoftRestart, Restart, PowerLoss, Elapsed, PTypes
  <2> QED
    BY <2>1 DEF PKeyTimes
<1>10. CASE UNCHANGED pvars
  BY <1>10 DEF pvars, vars, PKeyTimes, Elapsed
<1> QED
  BY <1>2, <1>3, <1>4, <1>5, <1>6, <1>7, <1>8, <1>9, <1>10 DEF PNext, Runs, Step

\* A PUT of sensor_task replaces a record only in a boot whose firebase_delete failed, and only
\* until SNTP answers: however often the power is lost, either of the two keeps every record.
THEOREM ReplacedOnlyIn1970 == PSpec => OverwrittenOnlyIn1970
<1>1. PInit => PTypes /\ PKeyTimes
  BY TaskAssumption DEF PInit, Init, PTypes, PKeyTimes, AllStamped, EmptyTree, Elapsed
<1>2. PTypes /\ PKeyTimes /\ [PNext]_pvars => PTypes' /\ PKeyTimes'
  BY ClockStep, PKeyTimesStep
<1>3. PTypes /\ PKeyTimes /\ [PNext]_pvars =>
        [\A k \in DOMAIN db \cap DOMAIN db' : db'[k] # db[k] => ~clean /\ ~synced]_pvars
  <2> SUFFICES ASSUME PTypes, PKeyTimes, [PNext]_pvars,
                      NEW k \in DOMAIN db \cap DOMAIN db', db'[k] # db[k]
               PROVE  ~clean /\ ~synced
    OBVIOUS
  <2>1. SendBatch /\ db' = Put(db, Key, Average)
    <3>1. CASE [Next]_vars
      BY <3>1, DbStep DEF Without
    <3>2. CASE db' = db
      BY <3>2
    <3> QED
      BY <3>1, <3>2 DEF PNext, Runs, Next, Sync, SoftRestart, PowerLoss, pvars
  <2>2. k = Key
    BY <2>1 DEF Put
  <2>3. AllStamped(DOMAIN db, Elapsed - 1) /\ (clean => AllStamped(DOMAIN db, clock - 1))
    BY <2>1 DEF SendBatch, PKeyTimes
  <2>4. ~clean
    BY <2>2, <2>3, KeyNotBefore DEF AllStamped
  <2>5. ~synced
    <3>1. synced => Elapsed = clock
      BY DEF PTypes, Elapsed
    <3> QED
      BY <2>2, <2>3, <3>1, KeyNotBefore DEF AllStamped
  <2> QED
    BY <2>4, <2>5
<1> QED
  BY <1>1, <1>2, <1>3, PTL DEF PSpec, OverwrittenOnlyIn1970
==============================================================================
