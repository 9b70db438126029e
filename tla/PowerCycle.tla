------------------------------ MODULE PowerCycle ------------------------------
(***************************************************************************)
(* sensor_task on a device that loses its power.  A restart of the software *)
(* keeps the wall clock; after a power cycle it counts from 1970 again,     *)
(* until SNTP answers, and init_sntp_and_time goes on without an answer.    *)
(* The keys of the history are made from that clock.                        *)
(***************************************************************************)
EXTENDS SensorTask

VARIABLE lag    \* what the wall clock is behind the time since the first boot

pvars == <<vars, lag>>

PInit == Init /\ lag = 0

\* Time is bounded, not the wall clock.
Runs == Step /\ (task = "sleep" => clock + lag < MaxClock) /\ UNCHANGED lag

Sync ==
    /\ ~synced /\ synced' = TRUE
    /\ clock' = clock + lag /\ lag' = 0
    /\ UNCHANGED <<task, ram, db, observers>>

SoftRestart == Restart /\ UNCHANGED lag

\* The state of a restart, and the clock as well.
PowerLoss ==
    /\ boot < MaxBoots
    /\ task' = "init" /\ sample_count' = 0 /\ acc' = {}
    /\ first_send' = TRUE /\ last_fecha' = NoFecha /\ approx_count' = 0
    /\ boot' = boot + 1 /\ clean' = FALSE
    /\ lost' = 0 /\ ghosts' = 0 /\ trimFails' = 0
    /\ clock' = 0 /\ synced' = FALSE /\ lag' = lag + clock
    /\ UNCHANGED <<db, taken>>

PNext == Runs \/ Sync \/ SoftRestart \/ PowerLoss

PSpec == PInit /\ [][PNext]_pvars

\* A record that is stored is replaced by another one in one case only: the boot's
\* firebase_delete failed and SNTP has not answered, so that the keys of main.c:196 are those
\* of 1970 again.  Either of the two is enough to keep every record.
OverwrittenOnlyIn1970 ==
    [][\A k \in DOMAIN db \cap DOMAIN db' : db'[k] # db[k] => ~clean /\ ~synced]_pvars
==============================================================================
