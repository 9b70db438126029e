------------------------------- MODULE Sensors --------------------------------
(***************************************************************************)
(* The two sensors on the I2C bus (main/sensors.c): sensors_init_all, which *)
(* app_main calls once, and sensors_read, which sensor_task calls every     *)
(* minute.  Every transfer may fail, and a word that arrives may have been  *)
(* corrupted; a checksum tells (SensorCrc).  The sensors are external: one  *)
(* that was not started has no data to give.                                *)
(***************************************************************************)
EXTENDS Integers, Sequences

CONSTANTS
    Polls,      \* the 30 of sensors_read
    Words,      \* words of a SEN5x measurement, 8; the last one is the temperature
    HalfWord,   \* half the values of a word, 2^15
    MaxReads    \* bound: calls of sensors_read

VARIABLES
    pc,         \* where the caller is; "failed" is an error from sensors_init_all
    scd_on, sen_on,     \* external: does the sensor measure?
    scd,        \* the words of the SCD4x
    data_ready, timeout,
    buf,        \* the words of the SEN5x
    actual,     \* external: the temperature measured
    out,        \* *out of sensors_read
    ok,         \* did the last call return ESP_OK?
    reads       \* number of the read

vars == <<pc, scd_on, sen_on, scd, data_ready, timeout, buf, actual, out, ok, reads>>
sensor == <<scd_on, sen_on>>

\* A word carries the value v and a checksum of it, which may not match.
Word(v, intact) == [v |-> v, intact |-> intact]
NoWord == Word(0, TRUE)

Temperatures == -HalfWord..HalfWord - 1

\* out of the read number r: what was read of each sensor
Reading(r, s, words, temp) == [scdRead |-> r, scd |-> s, senRead |-> r, sen |-> words, temp |-> temp]

Init ==
    /\ pc = "init" /\ scd_on = FALSE /\ sen_on = FALSE
    /\ scd = NoWord /\ data_ready = 0 /\ timeout = 0 /\ buf = <<>> /\ actual = 0
    /\ out = Reading(0, NoWord, <<>>, 0) /\ ok = FALSE /\ reads = 0

Return(good) == pc' = "idle" /\ ok' = good

------------------------------------------------------------------------------
(* sensors_init_all *)

\* The bus and its two devices; an error is returned at once, and there is no task.
AddDevices ==
    /\ pc = "init" /\ pc' \in {"start", "failed"}
    /\ UNCHANGED <<sensor, scd, data_ready, timeout, buf, actual, out, ok, reads>>

\* sen5x_device_reset, sen5x_start_measurement, scd4x_start_measurement: what they
\* return is ignored.
StartSensors ==
    /\ pc = "start"
    /\ sen_on' \in BOOLEAN /\ scd_on' \in BOOLEAN
    /\ Return(TRUE)
    /\ UNCHANGED <<scd, data_ready, timeout, buf, actual, out, reads>>

------------------------------------------------------------------------------
(* sensors_read *)

\* The caller's SensorData while the first sensor has been read
Partial_CO2(s) == [out EXCEPT !.scdRead = reads', !.scd = s]
Partial(s) == out

\* scd4x_read_measurement: the checksums are not looked at.
ReadScd ==
    /\ pc = "idle" /\ reads < MaxReads /\ reads' = reads + 1
    /\ data_ready' = 0 /\ timeout' = Polls
    /\ \/ /\ scd_on /\ pc' = "poll" /\ UNCHANGED ok
          /\ \E intact \in BOOLEAN : scd' = Word(reads', intact)
       \/ Return(FALSE) /\ UNCHANGED scd
    /\ out' = IF pc' = "poll" THEN Partial(scd') ELSE out
    /\ UNCHANGED <<sensor, buf, actual>>

\* --timeout > 0
Left_Rearmed == IF timeout = 1 THEN Polls ELSE timeout - 1
Left == timeout - 1

\* sen5x_read_data_ready in a loop of 30: an error or a bad checksum ends the read, and a
\* sensor that is not started is never ready.
PollReady ==
    /\ pc = "poll"
    /\ \/ Return(FALSE) /\ UNCHANGED <<data_ready, timeout>>
       \/ /\ data_ready' \in IF sen_on THEN {0, 1} ELSE {0}
          /\ IF data_ready' = 1 THEN pc' = "values" /\ UNCHANGED <<ok, timeout>>
             ELSE /\ timeout' = Left
                  /\ IF timeout' > 0 THEN UNCHANGED <<pc, ok>> ELSE Return(FALSE)
    /\ UNCHANGED <<sensor, scd, buf, actual, out, reads>>

\* sen5x_read_measured_values: any of the words may be corrupted.
ReadValues ==
    /\ pc = "values"
    /\ \/ Return(FALSE) /\ UNCHANGED <<buf, actual>>
       \/ /\ pc' = "decode" /\ UNCHANGED ok
          /\ actual' \in Temperatures
          /\ \E bad \in SUBSET (1..Words) :
                buf' = [i \in 1..Words |->
                           Word(IF i = Words THEN actual' % (2 * HalfWord) ELSE reads, i \notin bad)]
    /\ UNCHANGED <<sensor, scd, data_ready, timeout, out, reads>>

\* sen5x_crc8(data, 2) != data[2] for any of the words
BadChecksum == \E i \in 1..Words : ~buf[i].intact

\* values[5] / 200.0f with values[i] unsigned
Temp(word) == word.v

\* sen5x_decode_measurement, and *out is written
Decode ==
    /\ pc = "decode"
    /\ IF BadChecksum THEN Return(FALSE) /\ UNCHANGED out
       ELSE Return(TRUE) /\ out' = Reading(reads, scd, buf, Temp(buf[Words]))
    /\ UNCHANGED <<sensor, scd, data_ready, timeout, buf, actual, reads>>

Read == ReadScd \/ PollReady \/ ReadValues \/ Decode

Next == AddDevices \/ StartSensors \/ Read

Spec == Init /\ [][Next]_vars

\* The task runs, and every transfer has a timeout of a second.
FairSpec == Spec /\ WF_vars(Next)

------------------------------------------------------------------------------
(* Properties *)

\* Type invariant of sensors.c; the polls never go below the limit of the loop.
TypeOK ==
    /\ pc \in {"init", "start", "failed", "idle", "poll", "values", "decode"}
    /\ scd_on \in BOOLEAN /\ sen_on \in BOOLEAN /\ ok \in BOOLEAN
    /\ data_ready \in {0, 1} /\ timeout \in 0..Polls /\ (pc = "poll" => timeout > 0)
    /\ pc = "decode" => Len(buf) = Words
    /\ reads \in 0..MaxReads

\* What the caller has is of one read of both sensors, whatever failed in between: a
\* read that fails leaves *out as it was.
OneReading == out.scdRead = out.senRead /\ (pc = "idle" /\ ok /\ reads > 0 => out.senRead = reads)

\* No word of the SEN5x whose checksum was wrong is handed to the caller.
SenIntact == \A i \in 1..Len(out.sen) : out.sen[i].intact

\* A temperature that is not below zero is the one that was measured.
TemperatureRead == pc = "idle" /\ ok /\ out.senRead = reads /\ reads > 0 /\ actual >= 0 => out.temp = actual

\* Every read comes to an end, be the sensor started or not.
ReadReturns == pc \in {"poll", "values", "decode"} ~> pc = "idle"
==============================================================================
