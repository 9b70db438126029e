--------------------------------- MODULE Boot ---------------------------------
(***************************************************************************)
(* From reset to a running sensor_task: app_main (main.c) and               *)
(* modem_ppp_start_blocking (modem_ppp.c) in the main task, concurrently    *)
(* with the event task that runs on_ip_event and with the PPP link, which   *)
(* comes up or breaks when it likes.  The device never repairs a broken     *)
(* link: it restarts.                                                       *)
(***************************************************************************)
EXTENDS Integers, Sequences

CONSTANTS
    UseCmux,      \* cfg.use_cmux; app_main passes false
    HasToken,     \* is UNWIREDLABS_TOKEN defined
    CeregPolls,   \* polls of esperar_cereg (15000 / 500)
    CpsiTries,    \* intentos of cpsi_con_reintentos
    GeoTries      \* MAX_ATTEMPTS of modem_unwiredlabs_city_state

VARIABLES
    mpc,      \* the main task; "reset" is esp_restart or a failed ESP_ERROR_CHECK
    tries,    \* iterations of the polling loop the main task is in
    mode,     \* mode of the modem: "undef", "command", "data", "cmux"
    link,     \* the PPP link: "down", "up", "lost"
    events,   \* IP events posted and not yet handled
    handler,  \* is on_ip_event registered
    up_bit,   \* PPP_UP_BIT
    ue_valid, \* s_ue_valid
    dns,      \* the interface's servers: "none", "peer", "public"
    city,     \* the city the JSON will carry: "unset", "----", "known"
    sensing   \* has sensor_task been created

vars == <<mpc, tries, mode, link, events, handler, up_bit, ue_valid, dns, city, sensing>>
net == <<link, events, handler, up_bit>>

Init ==
    /\ mpc = "start" /\ tries = 0 /\ mode = "undef"
    /\ link = "down" /\ events = <<>> /\ handler = FALSE /\ up_bit = FALSE
    /\ ue_valid = FALSE /\ dns = "none" /\ city = "unset" /\ sensing = FALSE

Goto(l) == mpc' = l /\ tries' = 0

\* Another round of a polling loop, or the way on when it is used up.
Again(limit, l) ==
    IF tries + 1 < limit THEN tries' = tries + 1 /\ UNCHANGED mpc ELSE Goto(l)

------------------------------------------------------------------------------
(* The main task up to a PPP connection *)

\* nvs, esp_netif and the event loop, each under ESP_ERROR_CHECK.
SystemInit ==
    /\ mpc = "start"
    /\ Goto("netif") \/ Goto("reset")
    /\ UNCHANGED <<mode, net, ue_valid, dns, city, sensing>>

\* esp_netif_new and the registration of on_ip_event.
CreateNetif ==
    /\ mpc = "netif"
    /\ \/ Goto("dce") /\ handler' = TRUE
       \/ (Goto("failed") \/ Goto("reset")) /\ UNCHANGED handler
    /\ UNCHANGED <<mode, link, events, up_bit, ue_valid, dns, city, sensing>>

\* hw_boot, esp_modem_new_dev, esp_modem_set_apn and COMMAND mode.
CreateDce_ModeUnset ==
    /\ mpc = "dce"
    /\ Goto("cereg") \/ Goto("failed") \/ Goto("reset")
    /\ UNCHANGED <<mode, net, ue_valid, dns, city, sensing>>

CreateDce ==
    /\ mpc = "dce"
    /\ \/ Goto("cereg") /\ mode' = "command"
       \/ (Goto("failed") \/ Goto("reset")) /\ UNCHANGED mode
    /\ UNCHANGED <<net, ue_valid, dns, city, sensing>>

\* esperar_cereg, whose result is ignored.
PollCereg ==
    /\ mpc = "cereg"
    /\ Goto("cpsi") \/ Again(CeregPolls, "cpsi")
    /\ UNCHANGED <<mode, net, ue_valid, dns, city, sensing>>

\* cpsi_con_reintentos and parse_cpsi_line.
PollCpsi ==
    /\ mpc = "cpsi"
    /\ \/ Goto("handshake") /\ ue_valid' \in BOOLEAN
       \/ Again(CpsiTries, "handshake") /\ UNCHANGED ue_valid
    /\ UNCHANGED <<mode, net, dns, city, sensing>>

Handshake ==
    /\ mpc = "handshake"
    /\ Goto("data") \/ Goto("failed")
    /\ UNCHANGED <<mode, net, ue_valid, dns, city, sensing>>

\* set_mode_if_needed; CMUX falls back to DATA, a failure of DATA aborts.
EnterData ==
    /\ mpc = "data"
    /\ \/ Goto("wait") /\ mode' \in IF UseCmux THEN {"cmux", "data"} ELSE {"data"}
       \/ Goto("reset") /\ UNCHANGED mode
    /\ UNCHANGED <<net, ue_valid, dns, city, sensing>>

\* xEventGroupWaitBits: the bit, or the timeout.
GotIp_Always ==
    /\ mpc = "wait"
    /\ Goto("dns")
    /\ UNCHANGED <<mode, net, ue_valid, dns, city, sensing>>

GotIp ==
    /\ mpc = "wait" /\ up_bit
    /\ Goto("dns")
    /\ UNCHANGED <<mode, net, ue_valid, dns, city, sensing>>

IpTimeout_MaxDelay == FALSE /\ UNCHANGED vars

IpTimeout ==
    /\ mpc = "wait" /\ ~up_bit
    /\ Goto("failed")
    /\ UNCHANGED <<mode, net, ue_valid, dns, city, sensing>>

\* app_main restarts the device when modem_ppp_start_blocking failed.
StartFailed ==
    /\ mpc = "failed"
    /\ Goto("reset")
    /\ UNCHANGED <<mode, net, ue_valid, dns, city, sensing>>

------------------------------------------------------------------------------
(* The main task with a PPP connection *)

DnsFallback == dns' = IF dns = "none" THEN "public" ELSE dns

CheckDns ==
    /\ mpc = "dns"
    /\ DnsFallback
    /\ Goto("sntp")
    /\ UNCHANGED <<mode, net, ue_valid, city, sensing>>

\* init_sntp_and_time goes on after ten seconds, synchronized or not.
WaitSntp ==
    /\ mpc = "sntp"
    /\ Goto("geo")
    /\ UNCHANGED <<mode, net, ue_valid, dns, city, sensing>>

\* Is there a token, and a cell to ask about.
CanGeolocate == HasToken /\ ue_valid

\* No request is made: no token, no cell, or a payload that does not fit.
SkipGeo ==
    /\ mpc = "geo" /\ tries = 0
    /\ city' = "----"
    /\ Goto("sensors")
    /\ UNCHANGED <<mode, net, ue_valid, dns, sensing>>

\* One attempt of modem_unwiredlabs_city_state, after force_public_dns.
TryGeo ==
    /\ mpc = "geo" /\ CanGeolocate
    /\ dns' = "public"
    /\ \/ Goto("sensors") /\ city' = "known"
       \/ /\ Again(GeoTries, "sensors")
          /\ city' = IF mpc' = "sensors" THEN "----" ELSE city
    /\ UNCHANGED <<mode, net, ue_valid, sensing>>

\* sensors_init_all; without sensors there is no task and the device idles.
StartSensing ==
    /\ mpc = "sensors"
    /\ \/ Goto("done") /\ sensing' = TRUE
       \/ Goto("halted") /\ UNCHANGED sensing
    /\ UNCHANGED <<mode, net, ue_valid, dns, city>>

Main == SystemInit \/ CreateNetif \/ CreateDce \/ PollCereg \/ PollCpsi
           \/ Handshake \/ EnterData \/ GotIp \/ IpTimeout \/ StartFailed
           \/ CheckDns \/ WaitSntp \/ SkipGeo \/ TryGeo \/ StartSensing

------------------------------------------------------------------------------
(* The PPP link, the event task and the restart *)

Alive == mpc # "reset"

LinkUp ==
    /\ Alive /\ mode \in {"data", "cmux"} /\ link = "down"
    /\ link' = "up" /\ events' = Append(events, "GOT_IP")
    /\ dns' \in {"none", "peer"}
    /\ UNCHANGED <<mpc, tries, mode, handler, up_bit, ue_valid, city, sensing>>

\* The peer ends the session, or it never gets as far as an address.
LinkLost ==
    /\ Alive /\ mode \in {"data", "cmux"} /\ link # "lost"
    /\ link' = "lost" /\ events' = Append(events, "LOST_IP")
    /\ UNCHANGED <<mpc, tries, mode, handler, up_bit, ue_valid, dns, city, sensing>>

\* on_ip_event in the event task.
OnIpEvent_LostIgnored ==
    /\ Alive /\ handler /\ events # <<>>
    /\ events' = Tail(events)
    /\ up_bit' = (Head(events) = "GOT_IP")
    /\ UNCHANGED <<mpc, tries, mode, link, handler, ue_valid, dns, city, sensing>>

OnIpEvent ==
    /\ Alive /\ handler /\ events # <<>>
    /\ events' = Tail(events)
    /\ IF Head(events) = "GOT_IP"
       THEN up_bit' = TRUE /\ UNCHANGED <<mpc, tries>>
       ELSE Goto("reset") /\ UNCHANGED up_bit
    /\ UNCHANGED <<mode, link, handler, ue_valid, dns, city, sensing>>

\* Everything in RAM starts again; the modem is power-cycled by hw_boot.
Reboot ==
    /\ mpc = "reset"
    /\ mpc' = "start" /\ tries' = 0 /\ mode' = "undef"
    /\ link' = "down" /\ events' = <<>> /\ handler' = FALSE /\ up_bit' = FALSE
    /\ ue_valid' = FALSE /\ dns' = "none" /\ city' = "unset" /\ sensing' = FALSE

Next == Main \/ LinkUp \/ LinkLost \/ OnIpEvent \/ Reboot

Spec == Init /\ [][Next]_vars

\* The two tasks are scheduled, every wait of the main task has a timeout, and
\* a restart completes.  Nothing is assumed of the link.
FairSpec == Spec /\ WF_vars(Main) /\ WF_vars(OnIpEvent) /\ WF_vars(Reboot)

------------------------------------------------------------------------------
(* Properties *)

Online == {"dns", "sntp", "geo", "sensors", "done", "halted"}

\* Type invariant; the polling loops of modem_ppp.c are bounded and at most two
\* IP events wait.
TypeOK ==
    /\ mpc \in {"start", "netif", "dce", "cereg", "cpsi", "handshake", "data",
                "wait", "failed", "reset"} \cup Online
    /\ tries \in 0..(CeregPolls + CpsiTries + GeoTries)
    /\ mode \in {"undef", "command", "data", "cmux"}
    /\ link \in {"down", "up", "lost"}
    /\ events \in Seq({"GOT_IP", "LOST_IP"}) /\ Len(events) <= 2
    /\ handler \in BOOLEAN /\ up_bit \in BOOLEAN /\ ue_valid \in BOOLEAN
    /\ dns \in {"none", "peer", "public"}
    /\ city \in {"unset", "----", "known"}
    /\ sensing \in BOOLEAN

\* Once modem_ppp_start_blocking has returned ESP_OK the link is up, or the event
\* that restarts the device is already queued: the device never works on with a
\* dead link that nobody will notice.
OnlineOrDoomed ==
    mpc \in Online =>
        \/ link = "up"
        \/ link = "lost" /\ \E i \in DOMAIN events : events[i] = "LOST_IP"

\* AT commands are only sent in COMMAND mode, before the PPP session exists.
AtInCommandMode ==
    mpc \in {"cereg", "cpsi", "handshake"} => mode = "command" /\ link = "down"

\* Name resolution is possible from the moment the first client (SNTP, Unwired
\* Labs, Firebase) starts, whether or not the peer announced servers.
DnsConfigured == mpc \in Online \ {"dns"} => dns # "none"

\* The city comes from a cell the modem reported in this boot, and is set
\* before sensor_task builds its first payload.
CityFromCell ==
    /\ city = "known" => ue_valid
    /\ sensing => city # "unset"

\* app_main has what the next step needs: AT commands meet the modem in command mode, clients
\* find name servers, and sensor_task finds a city that is of this boot.
BootOrdered == AtInCommandMode /\ DnsConfigured /\ CityFromCell

\* Every boot ends: in a running device, in one that idles without sensors, or
\* in a restart.
BootSettles == mpc = "start" ~> mpc \in {"done", "halted", "reset"}

\* A lost link restarts the device, whatever the main task is doing.
LossRestarts == link = "lost" ~> mpc = "reset"
==============================================================================
