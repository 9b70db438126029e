------------------------------ MODULE SensorTask ------------------------------
(***************************************************************************)
(* sensor_task of main/main.c: sample once a minute, send the average of    *)
(* SamplesPerBatch samples under a key made from the wall clock, keep the   *)
(* history near a size budget with a counter in RAM, for ever.  The device  *)
(* restarts at any moment (on_ip_event restarts it when PPP loses its IP),  *)
(* which loses the RAM and keeps the server's tree.                         *)
(***************************************************************************)
EXTENDS RtdbTree

CONSTANTS
    SamplesPerBatch,       \* SAMPLES_PER_BATCH
    TrimBatch,             \* the 50 of the retention block
    ItemsLow, ItemsHigh,   \* range of max_items: MAX_BYTES over the longest and
                           \* the shortest running average of the payload
    Synced,                \* has SNTP set the clock when the first boot samples
    SyncedYear,            \* the year after SNTP
    DayLength,             \* clock ticks of a day
    MaxClock, MaxBoots     \* bounds: clock ticks and restarts

ASSUME TaskAssumption ==
    /\ SamplesPerBatch \in Nat /\ SamplesPerBatch >= 2
    /\ TrimBatch \in Nat \ {0}
    /\ ItemsLow \in Nat /\ ItemsHigh \in Nat /\ ItemsLow <= ItemsHigh
    /\ Synced \in BOOLEAN
    /\ SyncedYear \in Nat
    /\ DayLength \in Nat \ {0}
    /\ MaxClock \in Nat /\ MaxBoots \in Nat \ {0}

VARIABLES
    task,           \* where sensor_task is
    sample_count,   \* samples in the accumulators
    acc,            \* the samples that the sums add up
    first_send, last_fecha,
    approx_count,   \* the static estimate of the number of records
    db,             \* /historial_mediciones on the server
    clock,          \* minutes of the wall clock
    synced,         \* has SNTP set the year
    (* observers, read by the properties only *)
    boot,           \* number of this boot
    taken,          \* samples read since the beginning
    clean,          \* did this boot's firebase_delete empty the history
    lost,           \* PUTs of this boot that were not stored
    ghosts,         \* records of this boot removed by a trim that said -2
    trimFails       \* trims of this boot that removed nothing

vars == <<task, sample_count, acc, first_send, last_fecha, approx_count, db,
          clock, synced, boot, taken, clean, lost, ghosts, trimFails>>

ram == <<sample_count, acc, first_send, last_fecha, approx_count>>
observers == <<boot, taken, clean, lost, ghosts, trimFails>>

Year == IF synced THEN SyncedYear ELSE 1970

\* strftime "%y-%m-%d_%H-%M-%S": the century is dropped, what follows the year
\* is ordered like the clock.
Key_DateOnly == (Year % 100) * (MaxClock + 1) + clock \div DayLength

Key == (Year % 100) * (MaxClock + 1) + clock

\* strftime "%d-%m-%Y".
Fecha == <<Year, clock \div DayLength>>
NoFecha == <<0, 0>>

Init ==
    /\ task = "init" /\ sample_count = 0 /\ acc = {}
    /\ first_send = TRUE /\ last_fecha = NoFecha /\ approx_count = 0
    /\ db = EmptyTree
    /\ clock = 0 /\ synced = Synced
    /\ boot = 1 /\ taken = 0 /\ clean = FALSE
    /\ lost = 0 /\ ghosts = 0 /\ trimFails = 0

------------------------------------------------------------------------------
\* firebase_init; the task deletes itself when it fails.
FirebaseInit ==
    /\ task = "init"
    /\ task' \in {"wipe", "dead"}
    /\ UNCHANGED <<ram, db, clock, synced, observers>>

\* firebase_delete("/historial_mediciones"), result ignored.
DeleteHistory ==
    /\ task = "wipe"
    /\ \E o \in DeleteOutcomes(db, DOMAIN db) :
          /\ db' = o.tree
          /\ clean' = (o.tree = EmptyTree)
    /\ task' = "sample"
    /\ UNCHANGED <<ram, clock, synced, boot, taken, lost, ghosts, trimFails>>

\* sensors_read, and the test for a full batch.
ReadSensors ==
    /\ task = "sample"
    /\ \/ /\ sample_count' = sample_count + 1
          /\ acc' = acc \cup {taken + 1}
          /\ taken' = taken + 1
       \/ UNCHANGED <<sample_count, acc, taken>>
    /\ task' = IF sample_count' >= SamplesPerBatch THEN "send" ELSE "sleep"
    /\ UNCHANGED <<first_send, last_fecha, approx_count, db, clock, synced, boot,
                   clean, lost, ghosts, trimFails>>

\* Which payload: with date and city, with the date, or with neither.
Kind_DateIgnored ==
    IF first_send THEN "full" ELSE "plain"

Kind ==
    IF first_send THEN "full" ELSE IF last_fecha # Fecha THEN "dated" ELSE "plain"

Average == [samples |-> acc, kind |-> Kind, fecha |-> Fecha, boot |-> boot]

\* The payload and firebase_putData, result ignored.  first_send and
\* last_fecha_str change before the PUT, whatever becomes of it.
SendBatch ==
    /\ task = "send"
    /\ first_send' = FALSE
    /\ last_fecha' = Fecha
    /\ \E o \in PutOutcomes(db, Key, Average) :
          /\ db' = o.tree
          /\ lost' = IF o.tree = db THEN lost + 1 ELSE lost
    /\ task' = "retain"
    /\ UNCHANGED <<sample_count, acc, approx_count, clock, synced, boot, taken,
                   clean, ghosts, trimFails>>

\* firebase_trim_oldest_batch and the correction of approx_count.
Trim_NotCorrected(count) ==
    \E o \in TrimOutcomes(db, TrimBatch) :
       /\ db' = o.tree
       /\ approx_count' = count
       /\ ghosts' = ghosts /\ trimFails' = trimFails

Trim(count) ==
    \E o \in TrimOutcomes(db, TrimBatch) :
       /\ db' = o.tree
       /\ approx_count' = IF o.ret <= 0 THEN count
                          ELSE IF count > o.ret THEN count - o.ret ELSE 0
       /\ ghosts' = IF o.ret = -2
                    THEN ghosts + Cardinality(DOMAIN db) - Cardinality(DOMAIN o.tree)
                    ELSE ghosts
       /\ trimFails' = IF o.tree = db THEN trimFails + 1 ELSE trimFails

Retention_Equal ==
    \E max_items \in ItemsLow..ItemsHigh :
       LET count == approx_count + 1
       IN  IF count = max_items + TrimBatch + 1 THEN Trim(count)
           ELSE /\ approx_count' = count
                /\ UNCHANGED <<db, ghosts, trimFails>>

Retention ==
    \E max_items \in ItemsLow..ItemsHigh :
       LET count == approx_count + 1
       IN  IF count > max_items + TrimBatch THEN Trim(count)
           ELSE /\ approx_count' = count
                /\ UNCHANGED <<db, ghosts, trimFails>>

\* Reset of the accumulators.
Reset_SumsOnly ==
    /\ sample_count' = sample_count
    /\ acc' = {}

Reset ==
    /\ sample_count' = 0
    /\ acc' = {}

RetainAndReset ==
    /\ task = "retain"
    /\ Retention
    /\ Reset
    /\ task' = "sleep"
    /\ UNCHANGED <<first_send, last_fecha, clock, synced, boot, taken, clean, lost>>

\* vTaskDelay.
Sleep ==
    /\ task = "sleep" /\ clock < MaxClock
    /\ clock' = clock + 1
    /\ task' = "sample"
    /\ UNCHANGED <<ram, db, synced, observers>>

\* SNTP sets the clock, in the wait of init_sntp_and_time or long after it.
SntpSync ==
    /\ ~synced
    /\ synced' = TRUE
    /\ UNCHANGED <<task, ram, db, clock, observers>>

\* esp_restart or a panic, at any moment.  The wall clock runs on.
Restart ==
    /\ boot < MaxBoots
    /\ task' = "init" /\ sample_count' = 0 /\ acc' = {}
    /\ first_send' = TRUE /\ last_fecha' = NoFecha /\ approx_count' = 0
    /\ boot' = boot + 1 /\ clean' = FALSE
    /\ lost' = 0 /\ ghosts' = 0 /\ trimFails' = 0
    /\ UNCHANGED <<db, clock, synced, taken>>

Step == FirebaseInit \/ DeleteHistory \/ ReadSensors \/ SendBatch
           \/ RetainAndReset \/ Sleep

Next == Step \/ SntpSync \/ Restart

Spec == Init /\ [][Next]_vars

\* Every call the task makes returns (FirebaseClient, CallReturns) and nothing
\* else keeps it from running.
FairSpec == Spec /\ WF_vars(Step)

------------------------------------------------------------------------------
(* Properties *)

Size == Cardinality(DOMAIN db)

\* Between the PUT and the retention block one record is not counted yet.
Uncounted == IF task = "retain" THEN 1 ELSE 0

Records == [samples : SUBSET (1..taken), kind : {"full", "dated", "plain"},
            fecha : Nat \X Nat, boot : 1..boot]

\* Type invariant of sensor_task's variables and of the history it writes.
TypeOK ==
    /\ task \in {"init", "dead", "wipe", "sample", "send", "retain", "sleep"}
    /\ sample_count \in 0..SamplesPerBatch
    /\ taken \in Nat
    /\ acc \subseteq 1..taken
    /\ first_send \in BOOLEAN
    /\ last_fecha \in Nat \X Nat
    /\ approx_count \in Nat
    /\ DOMAIN db \subseteq Nat /\ IsFiniteSet(DOMAIN db)
    /\ \A k \in DOMAIN db : db[k] \in Records
    /\ db = [k \in DOMAIN db |-> db[k]]
    /\ clock \in 0..MaxClock
    /\ synced \in BOOLEAN
    /\ boot \in 1..MaxBoots
    /\ clean \in BOOLEAN
    /\ lost \in Nat /\ ghosts \in Nat /\ trimFails \in Nat

\* When the boot's firebase_delete emptied the history, approx_count never
\* falls below the number of records on the server, whatever PUTs and trims are
\* lost, answered late or listed in part: the retention block (main.c:205-221)
\* does not overlook a record.
SizeTracked == clean => Size <= approx_count + Uncounted

\* The same count is exact but for the PUTs that were not stored and the records
\* removed by a PATCH whose answer was lost; nothing else makes it drift.
CountDrift == clean => approx_count + Uncounted = Size + lost + ghosts

\* After a boot that emptied the history its size stays within the budget of
\* the retention block plus one trim batch, and every trim that removes nothing
\* adds at most one record.
RetentionBound ==
    clean => Size <= ItemsHigh + TrimBatch + trimFails + Uncounted

\* The retention block neither overlooks a record nor lets the history outgrow its budget.
HistoryTracked == SizeTracked /\ RetentionBound

\* The budget of main.c:205 for every state, not only after a boot whose
\* firebase_delete worked.
RetentionBudget == Size <= ItemsHigh + TrimBatch + trimFails + 1

\* Every record is the average of exactly SamplesPerBatch samples of one boot
\* and no sample is part of two records: no PUT that was lost or repeated, and
\* no restart, makes the accumulators of sensor_task carry over.
BatchIntegrity ==
    /\ \A k \in DOMAIN db : Cardinality(db[k].samples) = SamplesPerBatch
    /\ \A j, k \in DOMAIN db : j # k => db[j].samples \cap db[k].samples = {}

\* A stored record is never replaced by another one: the key of a batch is new
\* even after a restart within the same minute ("PUT idempotente", main.c:194).
NeverOverwritten ==
    [][\A k \in DOMAIN db \cap DOMAIN db' : db'[k] = db[k]]_vars

\* r was sampled before s.
Before(r, s) == \A i \in r.samples, j \in s.samples : i < j

\* A trim removes nothing but records among the TrimBatch oldest ones (comment
\* of trimOldestBatch, rtdb.cpp:265).
TrimsOldest ==
    [][task = "retain" /\ task' = "sleep" =>
          \A k \in DOMAIN db \ DOMAIN db' :
             Cardinality({j \in DOMAIN db : Before(db[j], db[k])}) < TrimBatch]_vars

\* The same while all records are of one side of the year that SNTP sets: then the order of
\* the keys of main.c:196 is the order of the samples, after restarts as well.
TrimsOldestOfYear ==
    [][task = "retain" /\ task' = "sleep" /\ (\A k \in DOMAIN db : db[k].fecha[1] = Year) =>
          \A k \in DOMAIN db \ DOMAIN db' :
             Cardinality({j \in DOMAIN db : Before(db[j], db[k])}) < TrimBatch]_vars

\* Two stored records of consecutive batches of one boot with different dates:
\* the later one carries its date.  A reader of the history who has both does
\* not take the second for a record of the first one's day.
DateChangeMarked ==
    \A j, k \in DOMAIN db :
       /\ db[j].boot = db[k].boot /\ db[j].fecha # db[k].fecha
       /\ \E i \in db[j].samples : i + 1 \in db[k].samples
       => db[k].kind # "plain"

\* A stored record is the average of one batch and, after the stored record of the batch before
\* it, carries its date if that differs.  It does not say that the day of every record can be
\* told from the history: first_send and last_fecha_str change before the PUT, whose result
\* sensor_task ignores, so a lost PUT takes the date it carried with it.
RecordsSound == BatchIntegrity /\ DateChangeMarked

\* A full batch is always disposed of: sent or lost, the task goes back to
\* sampling with empty accumulators.
BatchFlushed == sample_count >= SamplesPerBatch ~> sample_count = 0
==============================================================================
