----------------------------- MODULE Discovery ------------------------------
(***************************************************************************)
(* How the streamer and the speakers find each other.  The streamer        *)
(* advertises itself from a thread of the mDNS library that calls back     *)
(* whenever the mDNS daemon changes its state, while the main thread       *)
(* builds that advertisement and tears it down; the speaker publishes its  *)
(* setup beacon once, without a thread.  Both browse with a bounded loop   *)
(* over callbacks.  Where there is no mDNS, the streamer probes every      *)
(* address of its subnet with several threads.                             *)
(*                                                                         *)
(* The daemon and the library are external: the daemon forgets what was    *)
(* registered when it restarts, tells every client of its changes in order *)
(* and announces to a browser what is registered, each service once.  A    *)
(* client made while the daemon is down connects when it comes up; one     *)
(* that loses the daemon has failed for good (AVAHI_CLIENT_FAILURE).       *)
(***************************************************************************)
EXTENDS Integers, Sequences, FiniteSets

CONSTANTS
    Neighbours,  \* other speakers with a beacon on the network
    Workers,     \* threads of a subnet scan
    LastHost,    \* the last address of the subnet, 254 in the code
    MaxChanges,  \* bound: changes of the daemon's state
    MaxTicks,    \* iterations of a browse loop, 50 in the code
    MaxBrowses,  \* bound: browses
    MaxFailures  \* bound: calls of the library that fail

ASSUME DiscoveryAssumption ==
    /\ {MaxChanges, MaxTicks, MaxBrowses, MaxFailures} \subseteq Nat
    /\ LastHost \in Nat
    /\ Workers # {}   \* scanSubnet starts at least one
    /\ Neighbours \intersect {"speaker", "streamer"} = {}

VARIABLES
    scanning,  \* a subnet scan, or the mDNS part
    daemon,    \* external: "down", "registering" or "running"
    air,       \* external: the services the daemon has registered
    changes,   \* state changes the streamer's client has not been told of yet
    main,      \* the streamer's main thread
    asked,     \* DiscoveryService::advertising_
    ctx,       \* publish_: the context the callbacks use
    pollThread,\* publish_poll_: "none", "made" or "running"
    client,    \* publish_client_: "none", or how the library sees the daemon
    group,     \* ctx->group: there is an entry group
    callback,  \* the poll thread: the callback in progress
    beacon,    \* the speaker's DiscoveryService: beacon published
    browse,    \* per program: the browse in progress
    ended,     \* history: how browses ended
    next, probing, found,  \* scanSubnet: the counter, each worker's host, the results
    speakers,  \* external: the hosts that answer like a speaker
    changed, browses, failures,  \* history: the bounded counters
    refused,   \* history: a registration was refused since the last S_RUNNING
    stray      \* history: a callback ran on freed objects

publication == <<main, asked, ctx, pollThread, client, group, callback, changes>>
scan == <<next, probing, found, speakers>>
vars == <<scanning, daemon, air, publication, beacon, browse, ended, scan,
          changed, browses, failures, refused, stray>>

Programs == {"speaker", "streamer"}
Wanted(p) == IF p = "speaker" THEN {"streamer"} ELSE {"speaker"} \union Neighbours
NoBrowse == [pc |-> "idle", told |-> {}, pending |-> {}, all |-> FALSE, quit |-> FALSE,
             result |-> {}, unresolved |-> {}, failed |-> FALSE, ticks |-> 0]

Init ==
    /\ scanning \in BOOLEAN
    /\ daemon \in {"down", "running"} /\ air = (IF daemon = "down" THEN {} ELSE Neighbours)
    /\ changes = <<>>
    /\ main = "idle" /\ asked = FALSE
    /\ ctx = FALSE /\ pollThread = "none" /\ client = "none" /\ group = FALSE
    /\ callback = "none"
    /\ beacon = FALSE
    /\ browse = [p \in Programs |-> NoBrowse] /\ ended = [p \in Programs |-> "not yet"]
    /\ next = 1 /\ probing = [w \in Workers |-> 0] /\ found = <<>>
    /\ speakers \in SUBSET (1..LastHost) /\ (~scanning => speakers = {})
    /\ changed = 0 /\ browses = 0 /\ failures = 0
    /\ refused = FALSE /\ stray = FALSE

Fails == failures < MaxFailures /\ failures' = failures + 1
Works == UNCHANGED failures

----------------------------------------------------------------------------
(* The daemon (external).                                                  *)

DaemonChanges ==
    /\ ~scanning /\ changed < MaxChanges
    /\ \E s \in {"down", "registering", "running"} \ {daemon} :
         /\ s = "registering" => daemon = "running"
         /\ daemon' = s
         /\ air' = IF s = "down" THEN {}
                   ELSE IF daemon = "down" THEN Neighbours ELSE air
         /\ \/ /\ client = "connected" /\ s = "down"
               /\ client' = "failed" /\ changes' = Append(changes, "failure")
            \/ /\ client = "connected" /\ s # "down"
               /\ UNCHANGED client /\ changes' = Append(changes, s)
            \/ /\ client = "connecting"
               /\ client' = "connected" /\ changes' = Append(changes, s)
            \/ client \in {"none", "failed"} /\ UNCHANGED <<client, changes>>
    /\ changed' = changed + 1
    /\ UNCHANGED <<scanning, main, asked, ctx, pollThread, group, callback, beacon, browse, ended,
                   scan, browses, failures, refused, stray>>

----------------------------------------------------------------------------
(* AvahiStreamerDiscovery: the main thread.                                *)

Others == UNCHANGED <<scanning, daemon, beacon, browse, ended, scan, changed, browses>>

(* DiscoveryService::start: once, and not again after a failure.           *)
start ==
    /\ ~scanning /\ main = "idle" /\ ~asked
    /\ asked' = TRUE /\ main' = "advertise"
    /\ Works /\ Others
    /\ UNCHANGED <<air, changes, ctx, pollThread, client, group, callback, refused, stray>>

(* advertise: the context and the poll, the client, the thread.  Whatever  *)
(* fails, what was built so far is torn down.                              *)
newPoll ==
    /\ main = "advertise"
    /\ ctx' = TRUE
    /\ \/ pollThread' = "made" /\ main' = "client" /\ Works
       \/ UNCHANGED pollThread /\ main' = "stop" /\ Fails
    /\ Others /\ UNCHANGED <<asked, air, changes, client, group, callback, refused, stray>>
(* The library makes the first callback before it returns, here.           *)
newClient ==
    /\ main = "client"
    /\ \/ /\ client' = (IF daemon = "down" THEN "connecting" ELSE "connected")
          /\ callback' = (IF daemon = "running" THEN "group" ELSE "none")
          /\ refused' = FALSE
          /\ main' = "start" /\ Works
       \/ UNCHANGED <<client, callback, refused>> /\ main' = "stop" /\ Fails
    /\ Others /\ UNCHANGED <<asked, air, changes, ctx, pollThread, group, stray>>
startPoll ==
    /\ main = "start" /\ callback = "none"
    /\ \/ pollThread' = "running" /\ main' = "idle" /\ Works
       \/ UNCHANGED pollThread /\ main' = "stop" /\ Fails
    /\ Others /\ UNCHANGED <<asked, air, changes, ctx, client, group, callback, refused, stray>>

(* DiscoveryService::stop.                                                 *)
stop ==
    /\ main = "idle" /\ asked
    /\ asked' = FALSE /\ main' = "stop"
    /\ Works /\ Others
    /\ UNCHANGED <<air, changes, ctx, pollThread, client, group, callback, refused, stray>>

(* stopAdvertising: first the thread is stopped, which waits for the       *)
(* callback in progress; then nobody uses what is freed.                   *)
stopPollUnjoined ==
    /\ main = "stop" /\ main' = "free group"
    /\ pollThread' = IF pollThread = "none" THEN "none" ELSE "made"
    /\ Works /\ Others
    /\ UNCHANGED <<asked, air, changes, ctx, client, group, callback, refused, stray>>
stopPoll ==
    /\ main = "stop" /\ callback = "none" /\ main' = "free group"
    /\ pollThread' = IF pollThread = "none" THEN "none" ELSE "made"
    /\ Works /\ Others
    /\ UNCHANGED <<asked, air, changes, ctx, client, group, callback, refused, stray>>
freeGroup ==
    /\ main = "free group" /\ main' = "free rest"
    /\ group' = FALSE /\ air' = IF group THEN air \ {"streamer"} ELSE air
    /\ Works /\ Others
    /\ UNCHANGED <<asked, changes, ctx, pollThread, client, callback, refused, stray>>
freeRest ==
    /\ main = "free rest" /\ main' = "idle"
    /\ client' = "none" /\ pollThread' = "none" /\ ctx' = FALSE /\ changes' = <<>>
    /\ Works /\ Others
    /\ UNCHANGED <<asked, air, group, callback, refused, stray>>

----------------------------------------------------------------------------
(* AvahiStreamerDiscovery: the callbacks, on the poll thread, and the      *)
(* first one on the thread that makes the client.                          *)

Quiet == UNCHANGED <<main, asked, ctx, pollThread, client>>

(* clientCallback: register when the daemon runs, forget the registration  *)
(* while it reconfigures itself, log the rest.                             *)
clientCallback ==
    /\ pollThread = "running" /\ callback = "none" /\ changes # <<>>
    /\ changes' = Tail(changes)
    /\ callback' = IF Head(changes) = "running" THEN "group" ELSE "none"
    /\ air' = IF Head(changes) = "registering" /\ group THEN air \ {"streamer"} ELSE air
    /\ refused' = IF Head(changes) = "running" THEN FALSE ELSE refused
    /\ Works /\ Quiet /\ Others /\ UNCHANGED <<group, stray>>

(* addService: the group is made once; a service that is registered is     *)
(* left alone; a refused registration is logged and not tried again before *)
(* the next S_RUNNING.                                                     *)
addGroupOnce ==
    /\ callback = "group"
    /\ \/ ~group /\ group' = TRUE /\ callback' = "service" /\ Works /\ UNCHANGED refused
       \/ group /\ UNCHANGED group /\ callback' = "none" /\ Works /\ UNCHANGED refused
    /\ Quiet /\ Others /\ UNCHANGED <<air, changes, stray>>
addGroup ==
    /\ callback = "group"
    /\ \/ group' = TRUE /\ callback' = "service" /\ Works /\ UNCHANGED refused
       \/ ~group /\ UNCHANGED group /\ callback' = "none" /\ refused' = TRUE /\ Fails
    /\ stray' = (stray \/ ~ctx \/ client = "none")
    /\ Quiet /\ Others /\ UNCHANGED <<air, changes>>
addService ==
    /\ callback = "service" /\ callback' = "none"
    /\ \/ "streamer" \in air /\ Works /\ UNCHANGED <<air, refused>>
       \/ "streamer" \notin air /\ client = "connected" /\ air' = air \union {"streamer"}
          /\ Works /\ UNCHANGED refused
       \/ "streamer" \notin air /\ client # "connected" /\ Works /\ UNCHANGED <<air, refused>>
       \/ "streamer" \notin air /\ Fails /\ refused' = TRUE /\ UNCHANGED air
    /\ stray' = (stray \/ ~ctx \/ client = "none" \/ ~group)
    /\ Quiet /\ Others /\ UNCHANGED <<changes, group>>

----------------------------------------------------------------------------
(* AvahiDiscoveryHal: the speaker's beacon.                                *)

Alone == UNCHANGED <<scanning, daemon, publication, scan, changed, refused, stray>>

publishBeacon ==
    /\ ~scanning /\ ~beacon
    /\ \/ daemon # "down" /\ beacon' = TRUE /\ air' = air \union {"speaker"} /\ Works
       \/ daemon = "down" /\ UNCHANGED <<beacon, air>> /\ Works
       \/ UNCHANGED <<beacon, air>> /\ Fails
    /\ Alone /\ UNCHANGED <<browse, ended, browses>>
stopBeacon ==
    /\ beacon /\ beacon' = FALSE /\ air' = air \ {"speaker"}
    /\ Works /\ Alone /\ UNCHANGED <<browse, ended, browses>>

----------------------------------------------------------------------------
(* browseSpeakers and browseStreamers: a loop over the callbacks of one    *)
(* browse, at most MaxTicks long.                                          *)

Looks(p, b) == browse' = [browse EXCEPT ![p] = b] /\ Alone /\ UNCHANGED <<air, beacon>>

beginBrowse(p) ==
    /\ ~scanning /\ browse[p].pc = "idle" /\ browses < MaxBrowses
    /\ browses' = browses + 1
    /\ \/ /\ Looks(p, [NoBrowse EXCEPT !.pc = "polling"])
          /\ ended' = [ended EXCEPT ![p] = "not yet"] /\ Works
       \/ Looks(p, NoBrowse) /\ ended' = [ended EXCEPT ![p] = "error"] /\ Fails

Polling(p) == browse[p].pc = "polling" /\ ~browse[p].quit /\ UNCHANGED <<ended, browses>>

(* maybeQuit: all announced, and nothing left to resolve.                  *)
maybeQuitAtOnce(b) == [b EXCEPT !.quit = b.quit \/ b.all]
maybeQuit(b) == [b EXCEPT !.quit = b.quit \/ (b.all /\ b.pending = {})]

(* browseCallback: a service, the end of the cache, or a failure.          *)
announced(p) ==
    /\ Polling(p)
    /\ \E s \in (air \intersect Wanted(p)) \ browse[p].told :
         Looks(p, [browse[p] EXCEPT !.pending = @ \union {s}, !.told = @ \union {s}])
    /\ Works
allForNow(p) ==
    /\ Polling(p) /\ ~browse[p].all
    /\ air \intersect Wanted(p) \subseteq browse[p].told
    /\ Looks(p, maybeQuit([browse[p] EXCEPT !.all = TRUE]))
    /\ Works
browseFails(p) ==
    /\ Polling(p) /\ Looks(p, [browse[p] EXCEPT !.quit = TRUE, !.failed = TRUE]) /\ Fails

(* resolveCallback: found, or given up by the library.                     *)
resolved(p) ==
    /\ Polling(p)
    /\ \E s \in browse[p].pending :
         LET b == [browse[p] EXCEPT !.pending = @ \ {s}] IN
         \/ Looks(p, maybeQuit([b EXCEPT !.result = @ \union {s}])) /\ Works
         \/ Looks(p, maybeQuit([b EXCEPT !.unresolved = @ \union {s}])) /\ Fails
tick(p) ==
    /\ Polling(p) /\ browse[p].ticks < MaxTicks
    /\ Looks(p, [browse[p] EXCEPT !.ticks = @ + 1]) /\ Works

(* The loop ends, and the caller has the result.                           *)
endBrowse(p) ==
    LET b == browse[p] IN
    /\ b.pc = "polling" /\ (b.quit \/ b.ticks = MaxTicks)
    /\ ended' = [ended EXCEPT ![p] = IF b.quit /\ ~b.failed THEN "complete" ELSE "cut"]
    /\ Looks(p, [b EXCEPT !.pc = "returned"])
    /\ Works /\ UNCHANGED browses
returned(p) ==
    /\ browse[p].pc = "returned" /\ Looks(p, NoBrowse)
    /\ ended' = [ended EXCEPT ![p] = "not yet"] /\ Works /\ UNCHANGED browses

----------------------------------------------------------------------------
(* scanSubnet: the workers share an atomic counter.                        *)

Scans == UNCHANGED <<scanning, daemon, air, publication, beacon, browse, ended, speakers,
                     changed, browses, failures, refused, stray>>

takeHost(w) ==
    /\ scanning /\ probing[w] = 0
    /\ probing' = [probing EXCEPT ![w] = IF next > LastHost THEN -1 ELSE next]
    /\ next' = next + 1
    /\ Scans /\ UNCHANGED found
probe(w) ==
    /\ probing[w] > 0
    /\ found' = IF probing[w] \in speakers THEN Append(found, probing[w]) ELSE found
    /\ probing' = [probing EXCEPT ![w] = 0]
    /\ Scans /\ UNCHANGED next
Joined == \A w \in Workers : probing[w] = -1
scanReturns == scanning /\ Joined /\ UNCHANGED vars

----------------------------------------------------------------------------
Main == start \/ newPoll \/ newClient \/ startPoll \/ stop \/ stopPoll \/ freeGroup \/ freeRest
PollThread == clientCallback \/ addGroup \/ addService
Callbacks(p) == announced(p) \/ allForNow(p) \/ browseFails(p) \/ resolved(p)
Lookup(p) == beginBrowse(p) \/ Callbacks(p) \/ tick(p) \/ endBrowse(p) \/ returned(p)
browseStreamers == Lookup("speaker")
browseSpeakers == Lookup("streamer")

Next ==
    \/ DaemonChanges \/ Main \/ PollThread
    \/ publishBeacon \/ stopBeacon
    \/ browseStreamers \/ browseSpeakers
    \/ \E w \in Workers : takeHost(w) \/ probe(w)
    \/ scanReturns
Spec == Init /\ [][Next]_vars

(* The library's callbacks run to their end; the main thread finishes what *)
(* it began; a browse loop and a worker go on.                             *)
FairSpec ==
    /\ Spec
    /\ WF_vars(PollThread)
    /\ WF_vars(newPoll \/ newClient \/ startPoll \/ stopPoll \/ freeGroup \/ freeRest)
    /\ \A p \in Programs : WF_vars(tick(p)) /\ WF_vars(endBrowse(p))
    /\ \A w \in Workers : WF_vars(takeHost(w) \/ probe(w))

----------------------------------------------------------------------------
TypeOK ==
    /\ daemon \in {"down", "registering", "running"}
    /\ air \subseteq {"speaker", "streamer"} \union Neighbours
    /\ changes \in Seq({"failure", "registering", "running"})
    /\ client \in {"none", "connecting", "connected", "failed"}
    /\ pollThread \in {"none", "made", "running"}
    /\ callback \in {"none", "group", "service"}
    /\ {scanning, asked, ctx, group, beacon, refused, stray} \subseteq BOOLEAN

(* No callback of the library ever runs on a context, a client or a group  *)
(* that stopAdvertising has freed, and what it freed leaves no service     *)
(* behind on the network.                                                  *)
CallbacksOwnTheirContext ==
    /\ ~stray
    /\ main = "idle" /\ ~asked => ~ctx /\ client = "none" /\ ~group /\ "streamer" \notin air

(* A lookup that was not cut short has every answer: the browse each       *)
(* service that was announced and could be resolved, the scan each speaker *)
(* of the subnet exactly once.                                             *)
LookupsFindAll ==
    /\ \A p \in Programs :
         browse[p].pc = "returned" /\ ended[p] = "complete" =>
             browse[p].result = browse[p].told \ browse[p].unresolved
    /\ scanning /\ Joined =>
         /\ {found[i] : i \in DOMAIN found} = speakers
         /\ Len(found) = Cardinality(speakers)

(* The streamer is on the network once the daemon stays up, also when it   *)
(* was down at the start and after every reconfiguration, unless a         *)
(* registration was refused, the advertisement is taken down or the client *)
(* has lost the daemon.                                                    *)
Advertising == asked /\ pollThread = "running" /\ daemon = "running" /\ ~refused
AdvertisedAgain ==
    <>[](Advertising /\ client # "failed") => <>[]("streamer" \in air)

(* AvahiStreamerDiscovery.cpp:37-38: "Called from the client callback once *)
(* the daemon is running, so it also re-publishes automatically after an   *)
(* avahi-daemon restart".                                                  *)
RepublishedAfterRestart ==
    <>[]Advertising => <>[]("streamer" \in air)
=============================================================================
