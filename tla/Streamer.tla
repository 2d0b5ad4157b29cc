------------------------------ MODULE Streamer ------------------------------
(***************************************************************************)
(* The streamer process: the registry of speakers, the zones, the master   *)
(* DSP settings, the file they are kept in, the provisioning window with   *)
(* its auto-pairing thread, onboarding over a speaker's setup access       *)
(* point, and the process's start and stop.                                *)
(*                                                                         *)
(* Web requests run on several threads.  Each object has its own lock and  *)
(* no request holds two for its length, so a request is a sequence of      *)
(* steps: it changes an object, then saves a snapshot of all of them; or   *)
(* it resolves a zone, points the sink at the result and installs the      *)
(* source; or it pairs, registers and saves.  A power cut or a restart may *)
(* come between any two steps.  What a command does on a speaker is the    *)
(* subject of module Commands, the write of the file that of ConfigStore:  *)
(* here a save happens as a whole or fails as a whole.                     *)
(***************************************************************************)
EXTENDS Integers, Sequences, FiniteSets, SequencesExt, FiniteSetsExt

CONSTANTS
    Web,          \* threads of the web server
    Devices,      \* the speakers of the site
    Fields,       \* the fields of the master DSP configuration
    Sites,        \* the files the process may find at its first start
    MaxRequests,  \* bound: requests that change something
    MaxFaults,    \* bound: failed writes, lost or refused requests, nmcli calls that
                  \* fail, bodies with a field of the wrong type
    MaxRestarts   \* bound: power cuts and restarts

Nowhere == "nowhere"
Stranded == "stranded"

(* The parts of the configuration: what the registry knows of a speaker,   *)
(* the zones, the master DSP settings.                                     *)
Registries == [Devices -> {"absent", "unaddressed", "addressed"}]
ZoneLists == Seq([id : Nat \ {0}, members : SUBSET Devices])
DspConfigs == [Fields -> {0, 1}]

(* A speaker belongs to at most one zone, and no two zones share an id.    *)
ZonesDisjoint(zs) ==
    \A i, j \in DOMAIN zs : i # j => /\ zs[i].id # zs[j].id
                                     /\ zs[i].members \intersect zs[j].members = {}

(* The first start finds no file, or one this program has written.         *)
ASSUME StreamerAssumption ==
    /\ {MaxRequests, MaxFaults, MaxRestarts} \subseteq Nat
    /\ Devices \intersect {Nowhere, Stranded} = {}
    /\ Sites \subseteq [reg : Registries, zones : ZoneLists, dsp : DspConfigs]
    /\ \A site \in Sites : ZonesDisjoint(site.zones)

VARIABLES
    main,     \* StreamerMain: where the main thread is
    running,  \* StreamerApp::running_
    web,      \* per web thread: the request it serves
    sweep,    \* AutoPairWorker: the sweep in progress
    reg,      \* SpeakerRegistry: "absent", "unaddressed" (host "") or "addressed"
    zones,    \* ZoneManager::zones_
    next,     \* ZoneManager::next_
    dsp,      \* MasterDsp::config_
    engine,   \* MasterDsp::engine_: the settings the audio thread applies
    targets,  \* UdpPacketSink::targets_
    source,   \* AudioEngine: the zone whose source is playing, 0 for none
    stalled,  \* its pipe is silent: who reads or closes it waits (AudioEngine)
    file,     \* the configuration on the disk
    window,   \* ProvisioningWindow: open and not expired
    radio,    \* the spare radio: the speaker whose setup network it is on
    adv,      \* the mDNS advertisement is up
    setup,    \* the speakers in setup mode (external)
    sent, faults, restarts,  \* history: the bounded counters
    asked,    \* history: shutdown was requested while run() was running
    acked,    \* history: pairings saved and not removed since
    late,     \* history: sweep handshakes since the window closed
    parked    \* history: where a request that ended without a release left the radio

objects == <<reg, zones, next, dsp>>
audio == <<engine, targets, source, stalled>>
wifi == <<radio, parked>>
history == <<sent, faults, restarts, asked, acked, late>>
vars == <<main, running, web, sweep, objects, audio, file, window, wifi, adv,
          setup, history>>

Flat == [f \in Fields |-> 0]
IdleWeb == [pc |-> "idle", dev |-> Nowhere, to |-> {}, zone |-> 0, cfg |-> Flat]
IdleSweep == [pc |-> "idle", dev |-> Nowhere, found |-> {}]
GoneSweep == [IdleSweep EXCEPT !.pc = "gone"]

(* What persist() collects, and what startup() finds again.                *)
SnapshotAddressed ==
    [reg |-> [d \in Devices |-> IF reg[d] = "unaddressed" THEN "absent" ELSE reg[d]],
     zones |-> zones, dsp |-> dsp]
Snapshot == [reg |-> reg, zones |-> zones, dsp |-> dsp]

Init ==
    /\ file \in Sites
    /\ main = "boot"
    /\ running = FALSE
    /\ web = [w \in Web |-> IdleWeb]
    /\ sweep = GoneSweep
    /\ reg = [d \in Devices |-> "absent"]
    /\ zones = <<>>
    /\ next = 1
    /\ dsp = Flat
    /\ engine = Flat
    /\ targets = {}
    /\ source = 0
    /\ stalled = FALSE
    /\ window = FALSE
    /\ radio = Nowhere /\ parked = Nowhere
    /\ adv = FALSE
    /\ setup = {d \in Devices : file.reg[d] = "absent"}
    /\ sent = 0 /\ faults = 0 /\ restarts = 0
    /\ asked = FALSE
    /\ acked = {d \in Devices : file.reg[d] # "absent"}
    /\ late = 0

Fault == faults < MaxFaults /\ faults' = faults + 1

----------------------------------------------------------------------------
(* Zones.                                                                  *)

Ids == {zones[i].id : i \in DOMAIN zones}
FreshId == Min({n \in next..(next + Len(zones)) : n \notin Ids})
ZoneAt(z) == CHOOSE i \in DOMAIN zones : zones[i].id = z
Members(z) == {d \in zones[ZoneAt(z)].members : reg[d] # "absent"}
ElsewhereIgnored(z, d) == FALSE
Elsewhere(z, d) == \E i \in DOMAIN zones : zones[i].id # z /\ d \in zones[i].members

(* The highest id of the restored zones plus one, at least one.            *)
replaceAll(zs) == Max({0} \union {zs[i].id : i \in DOMAIN zs}) + 1

----------------------------------------------------------------------------
(* Requests that change one object and save: handlePost.                   *)

Serving(w) ==
    /\ main \in {"wired", "run"}
    /\ web[w].pc = "idle"
    /\ sent < MaxRequests
    /\ sent' = sent + 1
ThenSave(w) == web' = [web EXCEPT ![w].pc = "save"]

addSpeaker(w, d) ==
    /\ Serving(w)
    /\ reg' = [reg EXCEPT ![d] = "addressed"]
    /\ ThenSave(w)
    /\ UNCHANGED <<main, running, sweep, zones, next, dsp, audio, file, window, wifi, adv,
                   setup, faults, restarts, asked, acked, late>>
removeSpeaker(w, d) ==
    /\ Serving(w)
    /\ reg' = [reg EXCEPT ![d] = "absent"]
    /\ acked' = acked \ {d}
    /\ ThenSave(w)
    /\ UNCHANGED <<main, running, sweep, zones, next, dsp, audio, file, window, wifi, adv,
                   setup, faults, restarts, asked, late>>

ZoneRequest(w, zs) ==
    /\ Serving(w)
    /\ zones' = zs
    /\ ThenSave(w)
    /\ UNCHANGED <<main, running, sweep, reg, dsp, audio, file, window, wifi, adv, setup,
                   faults, restarts, asked, acked, late>>
createZone(w) ==
    /\ ZoneRequest(w, Append(zones, [id |-> FreshId, members |-> {}]))
    /\ next' = FreshId + 1
removeZoneUnsaved(w, z) ==
    /\ Serving(w)
    /\ z \in Ids
    /\ zones' = RemoveAt(zones, ZoneAt(z))
    /\ UNCHANGED <<main, running, web, sweep, reg, next, dsp, audio, file, window, wifi, adv,
                   setup, faults, restarts, asked, acked, late>>
(* remove_if: the ids are distinct, so that one zone goes.                 *)
removeZone(w, z) ==
    /\ z \in Ids
    /\ ZoneRequest(w, RemoveAt(zones, ZoneAt(z)))
    /\ UNCHANGED next
addMember(w, z, d) ==
    /\ reg[d] # "absent"
    /\ ~Elsewhere(z, d)
    /\ z \in Ids
    /\ ZoneRequest(w, [zones EXCEPT ![ZoneAt(z)].members = @ \union {d}])
    /\ UNCHANGED next
removeMember(w, z, d) ==
    /\ z \in Ids
    /\ ZoneRequest(w, [zones EXCEPT ![ZoneAt(z)].members = @ \ {d}])
    /\ UNCHANGED next

(* The master DSP: read and merge, store, apply, save.                     *)
mergeDsp(w, f, v) ==
    /\ Serving(w)
    /\ web' = [web EXCEPT ![w].pc = "store", ![w].cfg = [dsp EXCEPT ![f] = v]]
    /\ UNCHANGED <<main, running, sweep, objects, audio, file, window, wifi, adv, setup,
                   faults, restarts, asked, acked, late>>
storeDsp(w) ==
    /\ web[w].pc = "store"
    /\ dsp' = web[w].cfg
    /\ web' = [web EXCEPT ![w].pc = "apply"]
    /\ UNCHANGED <<main, running, sweep, reg, zones, next, audio, file, window, wifi, adv,
                   setup, history>>
applyDsp(w) ==
    /\ web[w].pc = "apply"
    /\ engine' = web[w].cfg
    /\ web' = [web EXCEPT ![w] = [IdleWeb EXCEPT !.pc = "save"]]
    /\ UNCHANGED <<main, running, sweep, objects, targets, source, stalled, file, window, wifi, adv,
                   setup, history>>

(* persist(): the snapshot is taken under the lock of the configuration; a *)
(* failed write is not reported to anyone.                                 *)
Persisted(d) ==
    /\ file' = Snapshot
    /\ acked' = IF d \in Devices /\ reg[d] # "absent" THEN acked \union {d} ELSE acked
    /\ UNCHANGED faults
NotPersisted ==
    /\ Fault
    /\ acked' = {d \in acked : file.reg[d] # "absent"}
    /\ UNCHANGED file
persist(w) ==
    /\ web[w].pc = "save"
    /\ Persisted(web[w].dev) \/ NotPersisted
    /\ web' = [web EXCEPT ![w] = IF web[w].zone = -1
                                       THEN [IdleWeb EXCEPT !.pc = "leave"] ELSE IdleWeb]
    /\ UNCHANGED <<main, running, sweep, objects, audio, window, wifi, adv, setup, sent,
                   restarts, asked, late>>

----------------------------------------------------------------------------
(* Playing.                                                                *)

(* The members that are registered and not known to be offline.            *)
Resolve(w, z, pc) ==
    /\ Serving(w)
    /\ z \in Ids
    /\ \E T \in SUBSET Members(z) :
         /\ pc = "play" => T # {}
         /\ web' = [web EXCEPT ![w] = [IdleWeb EXCEPT !.pc = pc, !.zone = z, !.to = T]]
    /\ UNCHANGED <<main, running, sweep, objects, audio, file, window, wifi, adv, setup,
                   faults, restarts, asked, acked, late>>
playZone(w, z) == Resolve(w, z, "play")
retargetZone(w, z) == Resolve(w, z, "retarget")

(* setTargets resolves every host first: one without an address fails all. *)
Reachable(T) == \A d \in T : reg[d] = "addressed"
setTargets(w) ==
    /\ web[w].pc \in {"play", "retarget"}
    /\ IF Reachable(web[w].to)
       THEN /\ targets' = web[w].to
            /\ web' = [web EXCEPT ![w] = IF web[w].pc = "play"
                                         THEN [web[w] EXCEPT !.pc = "start"] ELSE IdleWeb]
       ELSE web' = [web EXCEPT ![w] = IdleWeb] /\ UNCHANGED targets
    /\ UNCHANGED <<main, running, sweep, objects, engine, source, stalled, file, window, wifi, adv,
                   setup, history>>
startSource(w) ==
    /\ web[w].pc = "start"
    /\ source' = web[w].zone /\ stalled' = FALSE
    /\ web' = [web EXCEPT ![w] = IdleWeb]
    /\ UNCHANGED <<main, running, sweep, objects, engine, targets, file, window, wifi, adv,
                   setup, history>>

(* The transport buttons: play aims at one speaker, stop ends the source.  *)
onTransport(w, d) ==
    /\ Serving(w)
    /\ reg[d] # "absent"
    /\ \/ reg[d] = "addressed" /\ targets' = {d} /\ UNCHANGED <<source, stalled>>
       \/ source' = 0 /\ stalled' = FALSE /\ UNCHANGED targets
    /\ UNCHANGED <<main, running, web, sweep, objects, engine, file, window, wifi, adv,
                   setup, faults, restarts, asked, acked, late>>

----------------------------------------------------------------------------
(* The source's pipe falls silent.                                         *)
PipeStalls ==
    /\ source # 0 /\ ~stalled
    /\ stalled' = TRUE
    /\ UNCHANGED <<main, running, web, sweep, objects, engine, targets, source, file, window,
                   wifi, adv, setup, history>>

----------------------------------------------------------------------------
(* Pairing.                                                                *)

(* The handshake with a speaker: it accepts once, in setup mode, and leaves *)
(* setup mode then, whether its answer arrives or not.  In setup mode it   *)
(* may refuse too (a wrong code), or never get the request.                *)
PairOk(d) == d \in setup /\ setup' = setup \ {d} /\ UNCHANGED faults
PairLost(d) == d \in setup /\ setup' = setup \ {d} /\ Fault
PairRefused(d) == UNCHANGED setup /\ IF d \in setup THEN Fault ELSE UNCHANGED faults

pair(w, d) ==
    /\ Serving(w)
    /\ web' = [web EXCEPT ![w].pc = "pairing", ![w].dev = d]
    /\ UNCHANGED <<main, running, sweep, objects, audio, file, window, wifi, adv, setup,
                   faults, restarts, asked, acked, late>>
pairSent(w) ==
    /\ web[w].pc = "pairing"
    /\ \/ PairOk(web[w].dev) /\ web' = [web EXCEPT ![w].pc = "register"]
       \/ (PairLost(web[w].dev) \/ PairRefused(web[w].dev)) /\ web' = [web EXCEPT ![w] = IdleWeb]
    /\ UNCHANGED <<main, running, sweep, objects, audio, file, window, wifi, adv, sent,
                   restarts, asked, acked, late>>

(* Onboarding: the spare radio joins the speaker's own network, which      *)
(* first leaves any other (nmcli may fail at either); the speaker that     *)
(* answers at the gateway address is the one whose network the radio is on *)
(* by then.                                                                *)
onboard(w, d) ==
    /\ Serving(w)
    /\ d \in setup
    /\ \/ /\ radio' = d /\ parked' = Nowhere
          /\ web' = [web EXCEPT ![w].pc = "onboarding", ![w].zone = -1]
          /\ UNCHANGED faults
       \/ /\ Fault /\ UNCHANGED web
          /\ \/ radio' = Nowhere /\ parked' = Nowhere
             \/ UNCHANGED radio /\ parked' = radio
    /\ UNCHANGED <<main, running, sweep, objects, audio, file, window, adv, setup,
                   restarts, asked, acked, late>>
onboardFailsParked(w) == web' = [web EXCEPT ![w] = IdleWeb]
onboardFails(w) == web' = [web EXCEPT ![w] = [IdleWeb EXCEPT !.pc = "leave"]]
onboardPairs(w) ==
    /\ web[w].pc = "onboarding"
    /\ \/ PairOk(radio) /\ web' = [web EXCEPT ![w].pc = "register", ![w].dev = radio]
       \/ (PairLost(radio) \/ PairRefused(radio)) /\ onboardFails(w)
    /\ UNCHANGED <<main, running, sweep, objects, audio, file, window, wifi, adv, sent,
                   restarts, asked, acked, late>>
(* A field of the body that is not a string throws after the join: the web *)
(* server answers 500, and nobody leaves the network.                      *)
onboardThrows(w) ==
    /\ web[w].pc = "onboarding"
    /\ Fault
    /\ web' = [web EXCEPT ![w] = IdleWeb]
    /\ parked' = radio
    /\ UNCHANGED <<main, running, sweep, objects, audio, file, window, radio, adv, setup, sent,
                   restarts, asked, acked, late>>
(* nmcli's failure to take the profile down and delete it is not noticed.  *)
leave(w) ==
    /\ web[w].pc = "leave"
    /\ \/ radio' = Nowhere /\ parked' = Nowhere /\ UNCHANGED faults
       \/ Fault /\ UNCHANGED radio /\ parked' = radio
    /\ web' = [web EXCEPT ![w] = IdleWeb]
    /\ UNCHANGED <<main, running, sweep, objects, audio, file, window, adv, setup, sent,
                   restarts, asked, acked, late>>

(* The paired speaker enters the registry; over its own network without an *)
(* address, which it is about to change.                                   *)
register(w) ==
    /\ web[w].pc = "register"
    /\ reg' = [reg EXCEPT ![web[w].dev] = IF web[w].zone = -1 THEN "unaddressed"
                                          ELSE "addressed"]
    /\ web' = [web EXCEPT ![w].pc = "save"]
    /\ UNCHANGED <<main, running, sweep, zones, next, dsp, audio, file, window, wifi, adv,
                   setup, history>>

----------------------------------------------------------------------------
(* The provisioning window and the auto-pairing thread.                    *)

setWindow(w, open) ==
    /\ Serving(w)
    /\ window' = open
    /\ late' = 0
    /\ UNCHANGED <<main, running, web, sweep, objects, audio, file, wifi, adv, setup, faults,
                   restarts, asked, acked>>
expireWindow ==
    /\ window
    /\ window' = FALSE
    /\ late' = 0
    /\ UNCHANGED <<main, running, web, sweep, objects, audio, file, wifi, adv, setup, sent,
                   faults, restarts, asked, acked>>

(* sweepOnce: the browse takes seconds and may miss speakers.              *)
sweepBegins ==
    /\ sweep.pc = "idle"
    /\ main # "join"
    /\ window
    /\ \E F \in SUBSET setup : sweep' = [IdleSweep EXCEPT !.pc = "each", !.found = F]
    /\ UNCHANGED <<main, running, web, objects, audio, file, window, wifi, adv, setup, history>>
sweepSkips(d) == reg[d] # "absent"
sweepStopsNever == FALSE
sweepStops == ~window
sweepNext ==
    /\ sweep.pc = "each"
    /\ \/ sweep.found = {} /\ sweep' = IdleSweep
       \/ \E d \in sweep.found :
            sweep' = IF sweepSkips(d) THEN [sweep EXCEPT !.found = @ \ {d}]
                     ELSE IF sweepStops THEN IdleSweep
                     ELSE [pc |-> "pairing", dev |-> d, found |-> sweep.found \ {d}]
    /\ UNCHANGED <<main, running, web, objects, audio, file, window, wifi, adv, setup, history>>
sweepPairs ==
    /\ sweep.pc = "pairing"
    /\ \/ PairOk(sweep.dev) /\ sweep' = [sweep EXCEPT !.pc = "register"]
       \/ (PairLost(sweep.dev) \/ PairRefused(sweep.dev)) /\ sweep' = [sweep EXCEPT !.pc = "each"]
    /\ late' = IF window THEN 0 ELSE late + 1
    /\ UNCHANGED <<main, running, web, objects, audio, file, window, wifi, adv, sent,
                   restarts, asked, acked>>
sweepRegisters ==
    /\ sweep.pc = "register"
    /\ reg' = [reg EXCEPT ![sweep.dev] = "addressed"]
    /\ sweep' = [sweep EXCEPT !.pc = "save"]
    /\ UNCHANGED <<main, running, web, zones, next, dsp, audio, file, window, wifi, adv,
                   setup, history>>
sweepPersists ==
    /\ sweep.pc = "save"
    /\ Persisted(sweep.dev) \/ NotPersisted
    /\ sweep' = [sweep EXCEPT !.pc = "each", !.dev = Nowhere]
    /\ UNCHANGED <<main, running, web, objects, audio, window, wifi, adv, setup, sent,
                   restarts, asked, late>>
sweepEndsClosed ==
    /\ sweep.pc = "idle"
    /\ main = "join"
    /\ ~window
    /\ sweep' = GoneSweep
    /\ UNCHANGED <<main, running, web, objects, audio, file, window, wifi, adv, setup, history>>
sweepEnds ==
    /\ sweep.pc = "idle"
    /\ main = "join"
    /\ sweep' = GoneSweep
    /\ UNCHANGED <<main, running, web, objects, audio, file, window, wifi, adv, setup, history>>

----------------------------------------------------------------------------
(* The process.                                                            *)

(* startup(): the objects are restored from the file before anything that  *)
(* uses them runs; the web server comes last.                              *)
startup ==
    /\ main = "boot"
    /\ main' = "wired"
    /\ reg' = file.reg
    /\ zones' = file.zones
    /\ next' = replaceAll(file.zones)
    /\ dsp' = file.dsp
    /\ engine' = file.dsp
    /\ adv' = TRUE
    /\ sweep' = IdleSweep
    /\ UNCHANGED <<running, web, targets, source, stalled, file, window, wifi, setup, history>>
startupFails ==
    /\ main = "boot"
    /\ Fault
    /\ main' = "off"
    /\ UNCHANGED <<running, web, sweep, objects, audio, file, window, wifi, adv, setup, sent,
                   restarts, asked, acked, late>>

(* main(): a source given on the command line plays before run().          *)
playArgument ==
    /\ main = "wired"
    /\ source = 0
    /\ targets' = Devices
    /\ source' = -1
    /\ UNCHANGED <<main, running, web, sweep, objects, engine, stalled, file, window, wifi, adv,
                   setup, history>>
onSignal ==
    /\ main \in {"wired", "run"}
    /\ running' = FALSE
    /\ asked' = (asked \/ main = "run")
    /\ UNCHANGED <<main, web, sweep, objects, audio, file, window, wifi, adv, setup, sent,
                   faults, restarts, acked, late>>
run ==
    /\ main = "wired"
    /\ main' = "run"
    /\ running' = TRUE
    /\ UNCHANGED <<web, sweep, objects, audio, file, window, wifi, adv, setup, history>>
runEnds ==
    /\ main = "run"
    /\ ~running
    /\ main' = "webstop"
    /\ UNCHANGED <<running, web, sweep, objects, audio, file, window, wifi, adv, setup, history>>

(* shutdown(): the web server, which waits for its requests, the sweep     *)
(* thread, the services; among them the engine, whose stop() joins the     *)
(* audio thread and closes the source.                                     *)
StopWeb ==
    /\ main = "webstop"
    /\ \A w \in Web : web[w].pc = "idle"
    /\ main' = "join"
    /\ UNCHANGED <<running, web, sweep, objects, audio, file, window, wifi, adv, setup, history>>
StopServices ==
    /\ main = "join"
    /\ sweep.pc = "gone"
    /\ main' = "off"
    /\ adv' = FALSE
    /\ source' = 0 /\ stalled' = FALSE
    /\ UNCHANGED <<running, web, sweep, objects, engine, targets, file, window, wifi, setup,
                   history>>

(* A power cut, or the next start after an orderly end: memory is lost, a  *)
(* network profile the radio had joined is not.                            *)
Restart ==
    /\ main # "boot"
    /\ restarts < MaxRestarts
    /\ restarts' = restarts + 1
    /\ main' = "boot"
    /\ running' = FALSE
    /\ web' = [w \in Web |-> IdleWeb]
    /\ sweep' = GoneSweep
    /\ reg' = [d \in Devices |-> "absent"]
    /\ zones' = <<>>
    /\ next' = 1
    /\ dsp' = Flat
    /\ engine' = Flat
    /\ targets' = {}
    /\ source' = 0 /\ stalled' = FALSE
    /\ window' = FALSE
    /\ late' = 0
    /\ adv' = FALSE
    /\ asked' = FALSE
    /\ radio' = (IF radio = Nowhere THEN Nowhere ELSE Stranded) /\ parked' = Nowhere
    /\ UNCHANGED <<file, setup, sent, faults, acked>>

Request(w) ==
    \/ createZone(w)
    \/ \E d \in Devices : \/ addSpeaker(w, d) \/ removeSpeaker(w, d) \/ onTransport(w, d)
                          \/ pair(w, d) \/ onboard(w, d)
    \/ \E z \in Ids : \/ removeZone(w, z) \/ playZone(w, z) \/ retargetZone(w, z)
                      \/ \E d \in Devices : addMember(w, z, d) \/ removeMember(w, z, d)
    \/ \E f \in Fields : mergeDsp(w, f, 1)
    \/ \E open \in BOOLEAN : setWindow(w, open)
Continue(w) ==
    \/ storeDsp(w) \/ applyDsp(w) \/ persist(w) \/ setTargets(w) \/ startSource(w)
    \/ pairSent(w) \/ onboardPairs(w) \/ onboardThrows(w) \/ register(w) \/ leave(w)
Sweep == sweepBegins \/ sweepNext \/ sweepPairs \/ sweepRegisters \/ sweepPersists \/ sweepEnds
Main == startup \/ run \/ runEnds \/ StopWeb \/ StopServices

Next ==
    \/ \E w \in Web : Request(w) \/ Continue(w)
    \/ Sweep
    \/ Main
    \/ expireWindow \/ startupFails \/ playArgument \/ onSignal \/ PipeStalls \/ Restart

(* Threads run; users, clocks, signals and power cuts need not.  A step    *)
(* that takes the lock of the source or closes it may wait for its pipe,   *)
(* which has no timeout: it happens, but while the pipe is silent it need  *)
(* not.                                                                    *)
WaitsForPipe(w) == stalled /\ web[w].pc = "start"
Fairness ==
    /\ WF_vars(Main /\ ~(stalled /\ main = "join"))
    /\ WF_vars(Sweep)
    /\ \A w \in Web : WF_vars(Continue(w) /\ ~WaitsForPipe(w))
Spec == Init /\ [][Next]_vars /\ Fairness

----------------------------------------------------------------------------
WebSteps == {"idle", "save", "store", "apply", "play", "retarget", "start", "pairing",
             "onboarding", "register", "leave"}
SweepSteps == {"gone", "idle", "each", "pairing", "register", "save"}

TypeOK ==
    /\ main \in {"boot", "wired", "run", "webstop", "join", "off"}
    /\ web \in [Web -> [pc : WebSteps, dev : Devices \union {Nowhere}, to : SUBSET Devices,
                        zone : Int, cfg : DspConfigs]]
    /\ sweep \in [pc : SweepSteps, dev : Devices \union {Nowhere}, found : SUBSET Devices]
    /\ reg \in Registries
    /\ zones \in ZoneLists
    /\ next \in Nat
    /\ dsp \in DspConfigs
    /\ engine \in DspConfigs
    /\ targets \subseteq Devices
    /\ source \in Int
    /\ file \in [reg : Registries, zones : ZoneLists, dsp : DspConfigs]
    /\ radio \in Devices \union {Nowhere, Stranded}
    /\ parked \in Devices \union {Nowhere, Stranded}
    /\ stalled \in BOOLEAN
    /\ running \in BOOLEAN /\ window \in BOOLEAN /\ adv \in BOOLEAN /\ asked \in BOOLEAN
    /\ setup \subseteq Devices
    /\ acked \subseteq Devices
    /\ {sent, faults, restarts, late} \subseteq Nat

(* A speaker belongs to at most one zone, and no two zones share an id, in *)
(* memory and on the disk: whatever requests ran at the same time and      *)
(* however often the zones were restored.                                  *)
OneZone == ZonesDisjoint(zones) /\ ZonesDisjoint(file.zones)

(* With no request between its change and its save, and no failed write,   *)
(* the file holds what the process would be started with: every setting in *)
(* effect survives a restart, whatever saves overtook each other.  (What   *)
(* two DSP requests do to each other before that is NoClobber's subject.)  *)
Settled == /\ \A w \in Web : web[w].pc \notin {"save", "register", "apply"}
           /\ sweep.pc \notin {"register", "save"}
SavedAtRest ==
    main \notin {"boot", "off"} /\ Settled /\ faults = 0 => file = Snapshot

(* A pairing that was saved stays on the disk until the speaker is         *)
(* removed: no save by another thread writes an older registry over it.    *)
PairingKept == \A d \in acked : file.reg[d] # "absent"

(* Closing the provisioning window stops a sweep in progress: at most the  *)
(* one handshake already decided on follows.                               *)
TrailingPair == late <= 1

(* The spare radio is on a speaker's network only while a request is       *)
(* onboarding, even when two of them take it from each other, unless nmcli *)
(* failed to release it or a request threw.                                *)
Onboarding(w) == web[w].zone = -1 \/ web[w].pc = "leave"
RadioReleased == radio \in Devices => radio = parked \/ \E w \in Web : Onboarding(w)

(* StreamerApp.cpp:313-315: "The radio is parked on the speaker's AP only  *)
(* for the duration of the handshake and released again on every path out, *)
(* including failure".                                                     *)
ReleasedOnEveryPath == radio \in Devices => \E w \in Web : Onboarding(w)

(* StreamerApiRouter.cpp:315-316: "A partial body updates only the named   *)
(* fields, so the UI can move one slider without having to resend the      *)
(* whole 32-band curve and risk clobbering a concurrent change": a field   *)
(* that was set stays set, as no request of the model sets one back.       *)
NoClobber == [][main' # "boot" => \A f \in Fields : dsp[f] <= dsp'[f]]_vars

(* Once run() is running, a request to stop ends the process, whatever the *)
(* web threads and the sweep are doing, unless a source's pipe stays       *)
(* silent: the web server's stop waits for a request in play(), and the    *)
(* engine's for its thread (AudioEngine.cpp:50,65, StdinPcmSource.h:32).   *)
StopsWhenAsked == (asked /\ main = "run" ~> main \in {"off", "boot"}) \/ <>[]stalled
=============================================================================
