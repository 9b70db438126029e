------------------------------- MODULE MCDevice -------------------------------
(***************************************************************************)
(* The parts of Device for TLC, the checksum of the sensors and the HTTP    *)
(* client.  They share no state, so a behaviour is one of one part and the  *)
(* others rest in an initial state.                                         *)
(***************************************************************************)
EXTENDS Device, HttpCalls

VARIABLES
    part,
    sent, received, i, crc      \* SensorCrc

checksum == <<sent, received, i, crc>>
mcvars == <<vars, part, sensors, checksum, cell, geo, boot, http>>

Crc == INSTANCE SensorCrc WITH Data <- {0, 48879, 65535}

\* Texts of a member: empty, plain, with separators, and longer than the buffer
Texts == {<<>>, <<"c", "d">>, <<"m", ",", "|", "d">>, <<"x", ";", "y", "z", "e">>}

MCInit ==
    /\ part \in {"token", "sensors", "checksum", "cell", "city", "boot", "http"}
    /\ Init /\ Sensor!Init /\ Cell!Init /\ Geo!Init /\ Start!Init /\ Http!Init
    /\ part # "http" => h_buf = Http!Zeroed
    /\ IF part = "checksum" THEN Crc!Init ELSE sent = 0 /\ received = 0 /\ i = 0 /\ crc = 255

TokenStep ==
    part = "token" /\ Next /\ UNCHANGED <<part, sensors, checksum, cell, geo, boot, http>>
SensorStep ==
    part = "sensors" /\ Sensor!Next /\ UNCHANGED <<vars, part, checksum, cell, geo, boot, http>>
CrcStep ==
    part = "checksum" /\ Crc!Next /\ UNCHANGED <<vars, part, sensors, cell, geo, boot, http>>
CellStep ==
    part = "cell" /\ Cell!Next /\ UNCHANGED <<vars, part, sensors, checksum, geo, boot, http>>
CityStep ==
    part = "city" /\ Geo!Next /\ UNCHANGED <<vars, part, sensors, checksum, cell, boot, http>>

BootAlone == part = "boot" /\ UNCHANGED <<vars, part, sensors, checksum, cell, geo, http>>
MainStep == BootAlone /\ Start!Main
LinkStep == BootAlone /\ (Start!LinkUp \/ Start!LinkLost)
EventStep == BootAlone /\ Start!OnIpEvent
RebootStep == BootAlone /\ Start!Reboot
BootStep == MainStep \/ LinkStep \/ EventStep \/ RebootStep

HttpAlone == part = "http" /\ UNCHANGED <<vars, part, sensors, checksum, cell, geo, boot>>
RequestStep == HttpAlone /\ (Http!Perform \/ Http!Loop)
CallerStep == HttpAlone /\ (Http!PerformRequest \/ Http!ClearHTTPBuffer)

MCNext == TokenStep \/ SensorStep \/ CrcStep \/ CellStep \/ CityStep \/ BootStep
            \/ RequestStep \/ CallerStep

\* The tasks run, every transfer on the bus has a timeout of a second, as has every wait of
\* app_main and every socket operation of a request, and a restart completes.  Nothing is
\* assumed of the link, nor that anyone makes a request.
MCSpec ==
    /\ MCInit /\ [][MCNext]_mcvars
    /\ WF_mcvars(SensorStep)
    /\ WF_mcvars(MainStep) /\ WF_mcvars(EventStep) /\ WF_mcvars(RebootStep)
    /\ WF_mcvars(RequestStep)

------------------------------------------------------------------------------
(* Properties *)

\* Every call of sensors_read comes to an end, be the sensor started or not.
ReadReturns == part = "sensors" => Sensor!ReadReturns

\* sen5x_crc8 accepts a word exactly when it arrived as it was sent, for every error of up to
\* three bits and every burst of up to eight.
AcceptsOnlyIntact == part = "checksum" => Crc!AcceptsOnlyIntact

\* Every boot ends: in a running device, in one that idles without sensors, or
\* in a restart.
BootSettles == part = "boot" => Start!BootSettles

\* A lost link restarts the device, whatever the main task is doing.
LossRestarts == part = "boot" => Start!LossRestarts

\* Every call of performRequest returns: the retry loop is finite.
CallReturns == part = "http" => Http!CallReturns
==============================================================================
