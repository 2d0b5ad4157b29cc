----------------------------- MODULE Provisioning -----------------------------
(***************************************************************************)
(* Connectivity and onboarding of a speaker: NetworkManager with its       *)
(* monitor thread and its Wi-Fi joins (src/network), and                   *)
(* ProvisioningController (src/pairing), which runs the BLE channel and    *)
(* the setup hotspot according to the events NetworkManager publishes.     *)
(* wlan0 is either the hotspot's access point or a client, never both; the *)
(* hotspot is a oneshot systemd unit that stays active after its script,   *)
(* or has failed with it.                                                  *)
(* Threads: the monitor, the bus worker, main (which starts the            *)
(* controller), and one thread per caller of connectWifi.                  *)
(***************************************************************************)
EXTENDS Naturals, Sequences

CONSTANTS
  Joiners,        \* callers of connectWifi: the setup page, pairing, the streamer-AP join
  MaxJoins,       \* joins attempted
  MaxLinkChanges, \* times a cable or an association changes by itself
  MaxQueue        \* the monitor polls only while fewer events are queued

ASSUME ProvisioningConstants ==
  /\ Joiners \in SUBSET {"web", "pairing", "streamerAp"}
  /\ MaxJoins \in Nat /\ MaxLinkChanges \in Nat /\ MaxQueue \in Nat \ {0}

VARIABLES
  ethernet, wifi, \* the links that have an address
  ap,             \* the setup access point is on the air
  unit, job,      \* nexus-hotspot.service and its queued systemd job
  net,            \* NetworkManager::connected_ and mode_
  seen,           \* the status the monitor has read and not applied yet
  pc, got,        \* where each caller is in connectWifi, and the status it has read
  queue,          \* connectivity events on the bus: a mode, or "none" for the loss
  boot, initial,  \* ProvisioningController::start on the main thread, and what it read
  worker,         \* the event whose handler has set BLE and not the hotspot yet
  call,           \* the systemctl command each thread is about to run for the hotspot
  bleOn, hotspotOn,
  joins, linkChanges,
  raced           \* history: an event was handled during start() and no uplink was
                  \* announced since

links == <<ethernet, wifi, ap>>
hotspotUnit == <<unit, job>>
channels == <<bleOn, hotspotOn>>
booting == <<boot, initial>>
control == <<booting, worker, call, channels, raced>>
counters == <<joins, linkChanges>>
setupVars == <<links, hotspotUnit, net, seen, pc, got, queue, control, counters>>

Modes == {"none", "ethernet", "wifi"}

\* NmcliNetworkHal::status: the access point is no uplink, and the wire wins.
Uplink == IF ethernet THEN "ethernet" ELSE IF wifi THEN "wifi" ELSE "none"
----------------------------------------------------------------------------
(***************************************************************************)
(* NetworkManager, whose mutex_ makes each publication atomic.             *)
(***************************************************************************)
\* Mutant: a routine poll that finds nothing new publishes nothing.
publishConnectedEdge(m, periodic) ==
  /\ net' = m
  /\ queue' = IF m = net THEN queue ELSE Append(queue, m)

publishConnected(m, periodic) ==
  /\ net' = m
  /\ queue' = IF m = net /\ ~periodic THEN queue ELSE Append(queue, m)

\* Mutant: the loss of a link is announced and not recorded.
publishDisconnectedOnly(force) ==
  /\ net' = net
  /\ queue' = IF net = "none" /\ ~force THEN queue ELSE Append(queue, "none")

publishDisconnected(force) ==
  /\ net' = "none"
  /\ queue' = IF net = "none" /\ ~force THEN queue ELSE Append(queue, "none")

applyStatus(m, periodic) ==
  IF m = "none" THEN publishDisconnected(FALSE) ELSE publishConnected(m, periodic)

\* refresh() on the monitor thread: read the HAL, and only then lock and apply.
MonitorReads ==
  /\ seen = "idle" /\ Len(queue) < MaxQueue
  /\ seen' = Uplink
  /\ UNCHANGED <<links, hotspotUnit, net, pc, got, queue, control, counters>>

MonitorApplies ==
  /\ seen # "idle" /\ seen' = "idle"
  /\ applyStatus(seen, TRUE)
  /\ UNCHANGED <<links, hotspotUnit, pc, got, control, counters>>

\* The bus worker is in none of the controller's handlers.
WorkerFree == worker = "idle" /\ call.worker = "none"

(***************************************************************************)
(* connectWifi.  The HAL takes the access point down before it associates. *)
(* Pairing and the streamer-AP join go ahead only without a known uplink.  *)
(***************************************************************************)
JoinDecides(j) ==
  /\ pc[j] = "idle" /\ joins < MaxJoins /\ joins' = joins + 1
  /\ j = "web" \/ net = "none"
  /\ j = "streamerAp" => WorkerFree
  /\ pc' = [pc EXCEPT ![j] = "decided"]
  /\ UNCHANGED <<links, hotspotUnit, net, seen, got, queue, control, linkChanges>>

\* The scan finds no streamer access point in range.
JoinAbandons(j) ==
  /\ j = "streamerAp" /\ pc[j] = "decided" /\ pc' = [pc EXCEPT ![j] = "idle"]
  /\ UNCHANGED <<links, hotspotUnit, net, seen, got, queue, control, counters>>

JoinBegins(j) ==
  /\ pc[j] = "decided" /\ pc' = [pc EXCEPT ![j] = "associating"]
  /\ ap' = FALSE
  /\ UNCHANGED <<ethernet, wifi, hotspotUnit, net, seen, got, queue, control, counters>>

\* nmcli refuses; an association that was up may be gone.
JoinFails(j) ==
  /\ pc[j] = "associating" /\ pc' = [pc EXCEPT ![j] = "idle"]
  /\ wifi' \in {wifi, FALSE}
  /\ publishDisconnected(TRUE)
  /\ UNCHANGED <<ethernet, ap, hotspotUnit, seen, got, control, counters>>

\* nmcli succeeds, with or without an address.
JoinAssociates(j) ==
  /\ pc[j] = "associating" /\ pc' = [pc EXCEPT ![j] = "checking"]
  /\ wifi' \in BOOLEAN
  /\ ap' = FALSE
  /\ UNCHANGED <<ethernet, hotspotUnit, net, seen, got, queue, control, counters>>

\* The status is read first and applied, under the lock, afterwards.
JoinReads(j) ==
  /\ pc[j] = "checking" /\ pc' = [pc EXCEPT ![j] = "applying"]
  /\ got' = [got EXCEPT ![j] = Uplink]
  /\ UNCHANGED <<links, hotspotUnit, net, seen, queue, control, counters>>

JoinApplies(j) ==
  /\ pc[j] = "applying" /\ pc' = [pc EXCEPT ![j] = "idle"]
  /\ IF got[j] = "none" THEN publishDisconnected(TRUE) ELSE publishConnected(got[j], FALSE)
  /\ got' = [got EXCEPT ![j] = "idle"]
  /\ UNCHANGED <<links, hotspotUnit, seen, control, counters>>
----------------------------------------------------------------------------
(***************************************************************************)
(* ProvisioningController, without a lock: start() on the main thread and  *)
(* the handlers on the bus worker run between any two steps of each other. *)
(***************************************************************************)
\* setChannel: BLE until the uplink is Wi-Fi; the hotspot without any uplink.
\* The flag first, then the actuator: on a change, and to stop the hotspot
\* every time.
SetBle(onWifi) == bleOn' = ~onWifi

\* Mutant: the actuator is only called on a change.
SetHotspotOnChange(t, uplink) ==
  /\ hotspotOn' = ~uplink
  /\ call' = [call EXCEPT ![t] = IF hotspotOn = ~uplink THEN "none"
                                 ELSE IF uplink THEN "stop" ELSE "start"]

SetHotspot(t, uplink) ==
  /\ hotspotOn' = ~uplink
  /\ call' = [call EXCEPT ![t] = IF uplink THEN "stop"
                                 ELSE IF hotspotOn THEN "none" ELSE "start"]

\* systemctl --no-block: the job replaces one that has not run yet.
Actuates(t) ==
  /\ call[t] # "none" /\ job' = call[t]
  /\ call' = [call EXCEPT ![t] = "none"]
  /\ UNCHANGED <<links, unit, net, seen, pc, got, queue, booting, worker, channels, raced,
                 counters>>

\* start(): subscribe, probe NetworkManager (two calls), apply what the probe
\* said.
Subscribes ==
  /\ boot = "new" /\ boot' = "subscribed"
  /\ UNCHANGED <<links, hotspotUnit, net, seen, pc, got, queue, initial, worker, call, channels,
                 raced, counters>>

ProbesConnected ==
  /\ boot = "subscribed" /\ boot' = "probing"
  /\ initial' = [initial EXCEPT !.uplink = (net # "none")]
  /\ raced' = (raced \/ ~WorkerFree)
  /\ UNCHANGED <<links, hotspotUnit, net, seen, pc, got, queue, worker, call, channels, counters>>

ProbesMode ==
  /\ boot = "probing" /\ boot' = "probed"
  /\ initial' = [initial EXCEPT !.wifi = (net = "wifi")]
  /\ UNCHANGED <<links, hotspotUnit, net, seen, pc, got, queue, worker, call, channels, raced,
                 counters>>

AppliesBle ==
  /\ boot = "probed" /\ boot' = "applying"
  /\ SetBle(initial.wifi)
  /\ UNCHANGED <<links, hotspotUnit, net, seen, pc, got, queue, initial, worker, call, hotspotOn,
                 raced, counters>>

AppliesHotspot ==
  /\ boot = "applying" /\ boot' = "running"
  /\ SetHotspot("main", initial.uplink)
  /\ UNCHANGED <<links, hotspotUnit, net, seen, pc, got, queue, initial, worker, bleOn, raced,
                 counters>>

\* start() has read the connectivity and is not done with it.
Starting == boot \in {"probing", "probed", "applying"} \/ call.main # "none"

\* The bus worker delivers an event, to nobody before the subscription.  A
\* streamer-AP join runs on the worker and holds it up.
Dispatch ==
  /\ queue # <<>> /\ queue' = Tail(queue)
  /\ WorkerFree
  /\ "streamerAp" \in Joiners => pc["streamerAp"] = "idle"
  /\ IF boot = "new" THEN UNCHANGED <<worker, bleOn, raced>>
     ELSE /\ SetBle(Head(queue) = "wifi") /\ worker' = Head(queue)
          /\ raced' = (Starting \/ (raced /\ Head(queue) = "none"))
  /\ UNCHANGED <<links, hotspotUnit, net, seen, pc, got, booting, call, hotspotOn, counters>>

DispatchEnds ==
  /\ worker # "idle" /\ worker' = "idle"
  /\ SetHotspot("worker", worker # "none")
  /\ UNCHANGED <<links, hotspotUnit, net, seen, pc, got, queue, booting, bleOn, raced, counters>>

(***************************************************************************)
(* nexus-hotspot.service and the surroundings.  A start of an active unit  *)
(* does nothing; otherwise hotspot.sh takes the radio for the access point *)
(* and, under "set -e", may fail before or after it is up.  The script's   *)
(* "down" runs only to stop a unit whose start succeeded.  A failed unit   *)
(* that was told to stop counts as inactive: both are started alike.       *)
(***************************************************************************)
RunJob ==
  /\ job # "none" /\ job' = "none"
  /\ \/ /\ job = "start" /\ unit # "active"
        /\ \/ unit' = "active" /\ ap' = TRUE /\ wifi' = FALSE
           \/ unit' = "failed" /\ ap' = TRUE /\ wifi' = FALSE
           \/ unit' = "failed" /\ ap' = FALSE /\ wifi' \in {wifi, FALSE}
     \/ job = "start" /\ unit = "active" /\ UNCHANGED <<unit, ap, wifi>>
     \/ job = "stop" /\ unit' = "inactive" /\ ap' = (ap /\ unit # "active") /\ UNCHANGED wifi
  /\ UNCHANGED <<ethernet, net, seen, pc, got, queue, control, counters>>

LinkChanges ==
  /\ linkChanges < MaxLinkChanges /\ linkChanges' = linkChanges + 1
  /\ \/ ethernet' = ~ethernet /\ UNCHANGED wifi
     \/ wifi /\ wifi' = FALSE /\ UNCHANGED ethernet
  /\ UNCHANGED <<ap, hotspotUnit, net, seen, pc, got, queue, control, joins>>
----------------------------------------------------------------------------
\* NetworkManager has started: its first refresh is cached and published.
SetupInit ==
  /\ ethernet \in BOOLEAN /\ wifi \in BOOLEAN /\ ap = FALSE
  /\ unit = "inactive" /\ job = "none"
  /\ net = Uplink /\ seen = "idle"
  /\ queue = IF Uplink = "none" THEN <<>> ELSE <<Uplink>>
  /\ pc = [j \in Joiners |-> "idle"] /\ got = [j \in Joiners |-> "idle"]
  /\ boot = "new" /\ initial = [uplink |-> FALSE, wifi |-> FALSE]
  /\ worker = "idle" /\ call = [main |-> "none", worker |-> "none"]
  /\ bleOn = FALSE /\ hotspotOn = FALSE
  /\ joins = 0 /\ linkChanges = 0 /\ raced = FALSE

Monitor == MonitorReads \/ MonitorApplies
MainThread ==
  \/ Subscribes \/ ProbesConnected \/ ProbesMode
  \/ AppliesBle \/ AppliesHotspot \/ Actuates("main")
Worker == Dispatch \/ DispatchEnds \/ Actuates("worker")
JoinGoesOn(j) ==
  \/ JoinAbandons(j) \/ JoinBegins(j) \/ JoinFails(j) \/ JoinAssociates(j)
  \/ JoinReads(j) \/ JoinApplies(j)

SetupNext ==
  \/ Monitor \/ MainThread \/ Worker \/ RunJob \/ LinkChanges
  \/ \E j \in Joiners : JoinDecides(j) \/ JoinGoesOn(j)

\* Every thread with work to do runs, and nmcli answers; nobody is obliged to
\* start a join.
Fairness ==
  /\ WF_setupVars(Monitor) /\ WF_setupVars(MainThread)
  /\ WF_setupVars(Worker) /\ WF_setupVars(RunJob)
  /\ \A j \in Joiners : WF_setupVars(JoinGoesOn(j))

SetupSpec == SetupInit /\ [][SetupNext]_setupVars /\ Fairness
----------------------------------------------------------------------------
\* Every variable has its type; a status is held exactly while it is applied.
SetupTypeOK ==
  /\ {ethernet, wifi, ap, bleOn, hotspotOn} \subseteq BOOLEAN
  /\ unit \in {"inactive", "active", "failed"} /\ job \in {"none", "start", "stop"}
  /\ net \in Modes /\ initial \in [uplink : BOOLEAN, wifi : BOOLEAN] /\ seen \in Modes \union {"idle"}
  /\ queue \in Seq(Modes)
  /\ pc \in [Joiners -> {"idle", "decided", "associating", "checking", "applying"}]
  /\ got \in [Joiners -> Modes \union {"idle"}]
  /\ \A j \in Joiners : got[j] # "idle" <=> pc[j] = "applying"
  /\ boot \in {"new", "subscribed", "probing", "probed", "applying", "running"}
  /\ worker \in Modes \union {"idle"} /\ raced \in BOOLEAN
  /\ call \in [{"main", "worker"} -> {"none", "start", "stop"}]
  /\ joins \in 0..MaxJoins /\ linkChanges \in 0..MaxLinkChanges

\* NetworkManager's cache converges to the truth, whatever stale status the
\* monitor applied and whichever joins failed meanwhile (NetworkManager.cpp:42-45).
CacheConverges == \A m \in Modes : <>[](Uplink = m) => <>[](net = m)

\* With a lasting uplink the hotspot's unit is down for good, and with it the
\* access point that it brought up, so that wlan0 is free; BLE is up exactly
\* when the uplink is a wire.  All this although the controller's start raced
\* with the bus and events were missed (ProvisioningController.cpp:73-81).
ChannelsFollowUplink ==
  \A m \in {"ethernet", "wifi"} :
    <>[](Uplink = m) => <>[](unit = "inactive" /\ ~hotspotOn /\ bleOn = (m # "wifi"))

\* ProvisioningController.cpp:77-79: "if the AP ever drifts up out of band [...]
\* the next connectivity poll forces it back down instead of leaving wlan0
\* pinned in AP mode".
AccessPointForcedDown ==
  \A m \in {"ethernet", "wifi"} : <>[](Uplink = m) => <>[]~ap

\* What systemd was last asked for: the unit up, even if its script failed.
UnitUp == IF job = "none" THEN unit # "inactive" ELSE job = "start"

\* Nothing is on its way from NetworkManager to the two channels.
Delivered == boot = "running" /\ call.main = "none" /\ WorkerFree /\ queue = <<>>

\* Once NetworkManager's events are delivered, both channels, and systemd with
\* them, are what its cached connectivity asks for: no event is missed between
\* the probe and the subscription, and whatever start() got wrong because an
\* event was handled meanwhile is put right by the next announcement of an
\* uplink (ProvisioningController.cpp:53-56 and 73-81).
ChannelsMatchCache ==
  Delivered /\ ~raced =>
    /\ bleOn <=> net # "wifi"
    /\ hotspotOn <=> net = "none"
    /\ UnitUp <=> hotspotOn

\* NetworkManager.cpp:175-177: a failed join must re-assert the loss "even with
\* no state change, so ProvisioningController brings the hotspot back"; a
\* script that failed is not meant.
HotspotRestored ==
  hotspotOn /\ Uplink = "none" ~> ap \/ Uplink # "none" \/ ~hotspotOn \/ unit = "failed"
=============================================================================
