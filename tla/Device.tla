-------------------------------- MODULE Device --------------------------------
(***************************************************************************)
(* The parts of the device around the sensor task: the timer of the token   *)
(* (TokenRefresh), the sensors, the serving cell, the name of the city and  *)
(* the start of the device.  They share no state; each has its own          *)
(* specification here and what it must keep.                                *)
(***************************************************************************)
EXTENDS TokenRefresh, Sequences, FiniteSets

CONSTANTS
    Polls, Words, HalfWord, MaxReads,                   \* Sensors
    Systems, Plmns, Tacs, Cells, Bands, CpsiTries,      \* CellInfo
    Names, Size, MaxMembers, Attempts,                  \* City
    UseCmux, HasToken, CeregPolls                       \* Boot

ASSUME DeviceAssumption ==
    /\ Polls \in Nat \ {0} /\ Words \in Nat \ {0} /\ HalfWord \in Nat \ {0}
    /\ MaxReads \in Nat /\ CpsiTries \in Nat \ {0}
    /\ Size \in Nat /\ Size > 4 /\ MaxMembers \in Nat /\ Attempts \in Nat \ {0}
    /\ Names \subseteq Seq(STRING)
    /\ UseCmux \in BOOLEAN /\ HasToken \in BOOLEAN /\ CeregPolls \in Nat \ {0}

VARIABLES
    s_pc, scd_on, sen_on, scd, data_ready, timeout, buf, actual, out, ok, reads,    \* Sensors
    c_pc, tries, line, tokenId, tokens, info, ue,                                   \* CellInfo
    g_pc, attempt, body, city, state, g_city_state,                                 \* City
    mpc, b_tries, mode, link, events, handler, up_bit, ue_valid, dns, b_city, sensing   \* Boot

sensors == <<s_pc, scd_on, sen_on, scd, data_ready, timeout, buf, actual, out, ok, reads>>
cell == <<c_pc, tries, line, tokenId, tokens, info, ue>>
geo == <<g_pc, attempt, body, city, state, g_city_state>>
boot == <<mpc, b_tries, mode, link, events, handler, up_bit, ue_valid, dns, b_city, sensing>>

Sensor == INSTANCE Sensors WITH pc <- s_pc

Cell == INSTANCE CellInfo WITH pc <- c_pc, out <- info

Geo == INSTANCE City WITH pc <- g_pc

Start == INSTANCE Boot WITH tries <- b_tries, city <- b_city, GeoTries <- Attempts

------------------------------------------------------------------------------
(* Properties *)

\* What sensors_read hands to sensor_task is of one read of both sensors, whatever failed in
\* between; no word of it failed the checksum of the SEN5x; and a temperature that is not
\* below zero is the one that was measured.
ReadingSound ==
    Sensor!TypeOK /\ Sensor!OneReading /\ Sensor!SenIntact /\ Sensor!TemperatureRead

\* The number of fields among the first n that strtok_r does not pass over
Filled(s, n) == Cardinality({i \in 1..n : s[i] # Cell!NoText})

\* The network, the area and the cell that modem_ppp.c:468 keeps for the geolocation are the
\* numbers of the third, the fourth and the fifth field of the last line that is not empty,
\* wherever the line was cut and whichever fields are empty; one that the line does not have
\* is 0.  A line that states no service, a null network or a null band is never used.
CellOfLine ==
    ue.valid =>
        /\ \A i \in 1..Len(line) :
              /\ line[i] \notin {"NO SERVICE", "000-00", "EUTRAN-BAND0"}
              /\ line[i] # Cell!NoText =>
                    /\ Filled(line, i) = 3 => <<ue.mcc, ue.mnc>> = Cell!PlmnOf(line[i])
                    /\ Filled(line, i) = 4 => ue.tac = Cell!StrtoulOf(line[i])
                    /\ Filled(line, i) = 5 => ue.cell_id = Cell!StrtoulOf(line[i])
        /\ Filled(line, Len(line)) >= 3
        /\ Filled(line, Len(line)) < 4 => ue.tac = 0
        /\ Filled(line, Len(line)) < 5 => ue.cell_id = 0

\* The city and the state that app_main joins were given in one answer; build_city_hyphen
\* leaves no separator in the name, wherever it was cut to the buffer; and what
\* sensors_set_city_state keeps is never empty and fits.
CityNamed == Geo!OneAnswer /\ Geo!NoSeparator /\ Geo!NameFits

\* Once modem_ppp_start_blocking has returned ESP_OK the link is up, or the event
\* that restarts the device is already queued: the device never works on with a
\* dead link that nobody will notice.
OnlineOrDoomed == Start!OnlineOrDoomed

\* app_main has what the next step needs: AT commands meet the modem in command mode, clients
\* find name servers, and sensor_task finds a city that is of this boot.
BootOrdered == Start!BootOrdered
==============================================================================
