------------------------------ MODULE Commands ------------------------------
(***************************************************************************)
(* The control path between the streamer and one speaker.                  *)
(*                                                                         *)
(* On the streamer every request goes through CommandGateway: web requests *)
(* (Users), the status poll of MonitorService (Monitor) and the telemetry  *)
(* of LinkReporterService (Reporter).  A request draws its command id,     *)
(* waits for the mutex of the speaker (one step here: nothing happens to a *)
(* request that waits, except that it grows old), dials a TCP connection,  *)
(* waits at most one socket timeout for the answer, releases the mutex and *)
(* only then hands the outcome to SpeakerStateStore.  Outside stands for a *)
(* client that does not use the gateway and sends a request whose answer   *)
(* was lost a second time, the case CommandHistory exists for.             *)
(*                                                                         *)
(* On the speaker one thread takes the connections in the order in which   *)
(* they were made and runs CommandRouter::handle on each; a client that    *)
(* has given up meanwhile does not take its request back.                  *)
(*                                                                         *)
(* A setting in Clamped is moved into the range 0..Top by the executor     *)
(* (gain_db); any other one is refused outside it by ConfigValidator       *)
(* (volume, delay_ms; the Boolean settings and eq_profile have no value    *)
(* outside it).  Gateways serialise per speaker, so one speaker is enough. *)
(***************************************************************************)
EXTENDS Integers, Sequences, FiniteSets

CONSTANTS
    Users,            \* threads of the streamer's web server
    Outside,          \* clients that repeat a request whose answer was lost
    Keys,             \* the speaker's settings
    Clamped,          \* those the executor clamps instead of refusing
    Top,              \* the largest legal value of a setting
    Requested,        \* the values users ask for, legal or not
    Capacity,         \* entries of CommandHistory
    Backlog,          \* connections the kernel holds for the speaker
    OfflineThreshold, \* failures in a row that make a speaker offline
    UserNames,        \* the kinds of commands the users send
    MaxFaults         \* bound: failures of the network and of the speaker

ASSUME CommandsAssumption ==
    /\ Clamped \subseteq Keys
    /\ Top \in Nat \ {0}
    /\ Requested \subseteq Int
    /\ {Capacity, Backlog, OfflineThreshold} \subseteq Nat \ {0}
    /\ UserNames \subseteq {"SET", "DEFERRED", "UNKNOWN"}
    /\ MaxFaults \in Nat

(* The web server's pool and the clients beside it are finite, and nobody  *)
(* has the name of another.                                                *)
ASSUME ThreadNames ==
    /\ IsFiniteSet(Users) /\ IsFiniteSet(Outside)
    /\ Users \intersect Outside = {}
    /\ {"monitor", "reporter", "nobody"} \intersect (Users \union Outside) = {}

Monitor == "monitor"
Reporter == "reporter"
Threads == Users \union Outside \union {Monitor, Reporter}
Gateway == Threads \ Outside
Observed == Users \union {Monitor}
Nobody == "nobody"

VARIABLES
    thr,     \* per thread: where it is, its command and the answer
    mutex,   \* CommandGateway: the holder of the speaker's mutex
    store,   \* SpeakerStateStore: the streamer's picture of the speaker
    backlog, \* TCP: requests the speaker has not taken yet
    cfg,     \* speaker: the settings in ConfigManager
    hist,    \* speaker: CommandHistory, oldest entry first
    link,    \* speaker: LinkState holds a report of the streamer
    held,    \* history: the values each setting has ever had
    faults   \* history: failures so far

vars == <<thr, mutex, store, backlog, cfg, hist, link, held, faults>>

Values == 0..Top
NoData == [k \in {} |-> 0]
Answers == [ok : BOOLEAN, data : UNION {[D -> Values] : D \in SUBSET Keys}]
Failed == [ok |-> FALSE, data |-> NoData]

(* The routes of the web interface that set something, for one speaker or  *)
(* for each of several, and those that only relay a command: measurement,  *)
(* transport, diagnostics and, behind their confirmation, the destructive  *)
(* ones.  The speaker answers the latter at once and acts later.           *)
Plain(n) == [name |-> n, key |-> "-", value |-> 0]
SettingCommands == [name : {"SET"}, key : Keys, value : Requested]
Relayed == {Plain("DEFERRED")}
Commands ==
    SettingCommands \union Relayed
    \union {Plain("GET_STATUS"), Plain("REPORT_LINK"), Plain("UNKNOWN")}

IdleThread == [pc |-> "idle", id |-> 0, lost |-> FALSE,
               answer |-> Failed, runs |-> 0, since |-> 0]

Init ==
    /\ thr = [t \in Threads |-> IdleThread]
    /\ mutex = Nobody
    /\ store = [online |-> FALSE, failures |-> 0,
                confirmed |-> [k \in Keys |-> 0], told |-> {}]
    /\ backlog = <<>>
    /\ cfg = [k \in Keys |-> 1]
    /\ hist = <<>>
    /\ link = FALSE
    /\ held = [k \in Keys |-> {cfg[k]}]
    /\ faults = 0

----------------------------------------------------------------------------
(* The gateway.                                                            *)

(* The name of the client (odd and even numbers here), the clock, a        *)
(* process-wide atomic counter and a salt.  Within one run of the streamer *)
(* the counter alone makes every id a new one, in whatever order threads   *)
(* draw theirs before they take the mutex.  Ids are only ever compared for *)
(* equality, so the counter is represented up to a renaming: a number that *)
(* no thread, request or history entry holds stands for the next one.      *)
(* (Clock and salt tell the ids of two runs apart; the streamer does not   *)
(* restart in this module.)                                                *)
Remembered ==
    {thr[t].id : t \in Threads} \union {backlog[i].id : i \in DOMAIN backlog}
    \union {hist[i].id : i \in DOMAIN hist}
Named(t) == {n \in 1..(2 * Cardinality(Remembered) + 2) : (n % 2 = 0) = (t \in Gateway)}
nextCommandIdBySecond(t) == IF t \in Gateway THEN 2 ELSE 1
nextCommandId(t) == CHOOSE n \in Named(t) : n \notin Remembered

(* dispatch up to the wait for the answer: the id is drawn, the mutex      *)
(* taken, the connection made and the line sent.                           *)
Request(t, c) ==
    /\ thr[t].pc = "idle"
    /\ t \in Gateway => mutex = Nobody
    /\ Len(backlog) < Backlog
    /\ LET id == nextCommandId(t) IN
       /\ thr' = [thr EXCEPT ![t] = [IdleThread EXCEPT !.pc = "awaiting", !.id = id]]
       /\ backlog' = Append(backlog, [from |-> t, id |-> id, cmd |-> c])
    /\ mutex' = IF t \in Gateway THEN t ELSE mutex
    /\ UNCHANGED <<store, cfg, hist, link, held, faults>>

(* The status poll, the telemetry and the requests of the web interface.   *)
PollSpeaker == Request(Monitor, Plain("GET_STATUS"))
ReportLink == Request(Reporter, Plain("REPORT_LINK"))
SendToSpeaker(u) == \E c \in Commands : c.name \in UserNames /\ Request(u, c)

Released(t) == IF mutex = t THEN Nobody ELSE mutex
Fault == faults < MaxFaults /\ faults' = faults + 1

(* What a thread does with its answer: telemetry ignores it, the other     *)
(* threads of the gateway pass it on after the mutex is free.              *)
Ended(th, t, lost, answer) ==
    IF t = Reporter THEN [th EXCEPT ![t] = IdleThread]
    ELSE [th EXCEPT ![t].pc = "observing", ![t].lost = lost, ![t].answer = answer,
                    ![t].id = IF t \in Outside THEN @ ELSE 0]

(* No route, no listener, or a full backlog.                               *)
ConnectFails(t) ==
    /\ thr[t].pc = "idle"
    /\ t \in Gateway
    /\ mutex = Nobody
    /\ Fault
    /\ thr' = Ended(thr, t, TRUE, Failed)
    /\ UNCHANGED <<mutex, store, backlog, cfg, hist, link, held>>

(* The socket timeout: the speaker still has the request.                  *)
Timeout(t) ==
    /\ thr[t].pc = "awaiting"
    /\ Fault
    /\ thr' = Ended(thr, t, TRUE, Failed)
    /\ mutex' = Released(t)
    /\ UNCHANGED <<store, backlog, cfg, hist, link, held>>

----------------------------------------------------------------------------
(* SpeakerStateStore, called by the reply observer.                        *)

applyConfirmedStatusOffline(s, data) ==
    [s EXCEPT !.failures = 0,
              !.confirmed = [k \in Keys |-> IF k \in DOMAIN data THEN data[k] ELSE @[k]],
              !.told = @ \union DOMAIN data]
applyConfirmedStatus(s, data) ==
    [s EXCEPT !.online = TRUE, !.failures = 0,
              !.confirmed = [k \in Keys |-> IF k \in DOMAIN data THEN data[k] ELSE @[k]],
              !.told = @ \union DOMAIN data]
applyPollFailure(s) ==
    LET n == s.failures + 1
    IN  [s EXCEPT !.failures = IF n > OfflineThreshold THEN @ ELSE n,
                  !.online = @ /\ n < OfflineThreshold]
noteRejected(s) == [s EXCEPT !.online = TRUE, !.failures = 0]

(* The reply observer of StreamerApp.                                      *)
Observe(t) ==
    /\ thr[t].pc = "observing"
    /\ t \in Observed
    /\ store' = IF thr[t].lost THEN applyPollFailure(store)
                ELSE IF thr[t].answer.ok
                THEN applyConfirmedStatus(store, thr[t].answer.data)
                ELSE noteRejected(store)
    /\ thr' = [thr EXCEPT ![t] = IdleThread]
    /\ UNCHANGED <<mutex, backlog, cfg, hist, link, held, faults>>

(* External: a client beside the gateway sends a request, sends the same   *)
(* one again when no answer came, or gives up.                             *)
SendOutside(t) == Request(t, Plain("DEFERRED"))
Retry(t) ==
    /\ thr[t].pc = "observing"
    /\ t \in Outside
    /\ thr[t].lost
    /\ Len(backlog) < Backlog
    /\ backlog' = Append(backlog, [from |-> t, id |-> thr[t].id, cmd |-> Plain("DEFERRED")])
    /\ thr' = [thr EXCEPT ![t].pc = "awaiting"]
    /\ UNCHANGED <<mutex, store, cfg, hist, link, held, faults>>
GiveUp(t) ==
    /\ thr[t].pc = "observing"
    /\ t \in Outside
    /\ thr' = [thr EXCEPT ![t] = IdleThread]
    /\ UNCHANGED <<mutex, store, backlog, cfg, hist, link, held, faults>>

----------------------------------------------------------------------------
(* The speaker.                                                            *)

Clamp(v) == IF v > Top THEN Top ELSE IF v < 0 THEN 0 ELSE v
Applied(c) == IF c.key \in Clamped THEN Clamp(c.value) ELSE c.value
Accepted(c) == c.name = "SET" /\ Applied(c) \in Values

(* CommandExecutor::execute, for a write of the configuration that works.  *)
Status == [ok |-> TRUE, data |-> cfg]
Reply(c) ==
    CASE c.name = "SET" -> IF Accepted(c) THEN [ok |-> TRUE, data |-> [k \in {c.key} |-> Applied(c)]]
                           ELSE Failed
      [] c.name = "GET_STATUS" -> Status
      [] c.name \in {"DEFERRED", "REPORT_LINK"} -> [ok |-> TRUE, data |-> NoData]
      [] OTHER -> Failed

(* CommandHistory::record, a FIFO of Capacity entries.                     *)
record(h, e) == Append(IF Len(h) >= Capacity THEN Tail(h) ELSE h, e)
KeptAlways(c) == TRUE
Kept(c) == c.name # "REPORT_LINK"

(* LinkState::report.                                                      *)
report(l, c) == l \/ c.name = "REPORT_LINK"

(* The history of an execution: how often the current command of each      *)
(* thread has run, and how many others have been recorded since (all of    *)
(* Capacity once the speaker has restarted).                               *)
Ran(th, r) ==
    [t \in Threads |->
        IF th[t].id = r.id THEN [th[t] EXCEPT !.runs = IF @ < 2 THEN @ + 1 ELSE 2]
        ELSE IF t \in Outside /\ th[t].runs > 0 /\ r.cmd.name # "REPORT_LINK" /\ th[t].since < Capacity
        THEN [th[t] EXCEPT !.since = @ + 1]
        ELSE th[t]]

(* The answer reaches the thread if it still waits on this connection.     *)
Delivered(th, r, lost, answer) ==
    IF th[r.from].pc = "awaiting" /\ th[r.from].id = r.id
    THEN Ended(th, r.from, lost, IF lost THEN Failed ELSE answer) ELSE th
Unlocked(th, r) ==
    IF th[r.from].pc = "awaiting" /\ th[r.from].id = r.id THEN Released(r.from) ELSE mutex

Seen(r) == \E i \in DOMAIN hist : hist[i].id = r.id
Prior(r) == hist[CHOOSE i \in DOMAIN hist : hist[i].id = r.id].answer

(* A request whose id the history holds: the stored result, unexamined.    *)
HandleDuplicate(lost) ==
    LET r == Head(backlog) IN
    /\ backlog # <<>>
    /\ Seen(r)
    /\ thr' = Delivered(thr, r, lost, Prior(r))
    /\ mutex' = Unlocked(thr, r)
    /\ IF lost THEN Fault ELSE UNCHANGED faults
    /\ backlog' = Tail(backlog)
    /\ UNCHANGED <<store, cfg, hist, link, held>>

(* A request the validator turns down: expired while it waited for the     *)
(* mutex or in the backlog, unpaired, or signed by another streamer.       *)
HandleRejected ==
    LET r == Head(backlog) IN
    /\ backlog # <<>>
    /\ ~Seen(r)
    /\ Fault
    /\ thr' = Delivered(thr, r, FALSE, Failed)
    /\ mutex' = Unlocked(thr, r)
    /\ backlog' = Tail(backlog)
    /\ UNCHANGED <<store, cfg, hist, link, held>>

(* A request that is executed and recorded; its answer may be lost.        *)
HandleExecuted(lost) ==
    LET r == Head(backlog)
        c == r.cmd
        a == Reply(c)
    IN
    /\ backlog # <<>>
    /\ ~Seen(r)
    /\ cfg' = IF Accepted(c) THEN [cfg EXCEPT ![c.key] = Applied(c)] ELSE cfg
    /\ held' = [k \in Keys |-> held[k] \union {cfg'[k]}]
    /\ link' = report(link, c)
    /\ hist' = IF Kept(c) THEN record(hist, [id |-> r.id, answer |-> a]) ELSE hist
    /\ thr' = Delivered(Ran(thr, r), r, lost, a)
    /\ mutex' = Unlocked(thr, r)
    /\ IF lost THEN Fault ELSE UNCHANGED faults
    /\ backlog' = Tail(backlog)
    /\ UNCHANGED <<store>>

(* A setting whose write to the disk fails: refused, and recorded as such. *)
HandleUnsavedEchoed ==
    LET r == Head(backlog) IN
    /\ backlog # <<>>
    /\ ~Seen(r)
    /\ Accepted(r.cmd)
    /\ Fault
    /\ hist' = record(hist, [id |-> r.id, answer |-> Reply(r.cmd)])
    /\ thr' = Delivered(Ran(thr, r), r, FALSE, Reply(r.cmd))
    /\ mutex' = Unlocked(thr, r)
    /\ backlog' = Tail(backlog)
    /\ UNCHANGED <<store, cfg, link, held>>
HandleUnsaved ==
    LET r == Head(backlog) IN
    /\ backlog # <<>>
    /\ ~Seen(r)
    /\ Accepted(r.cmd)
    /\ Fault
    /\ hist' = record(hist, [id |-> r.id, answer |-> Failed])
    /\ thr' = Delivered(Ran(thr, r), r, FALSE, Failed)
    /\ mutex' = Unlocked(thr, r)
    /\ backlog' = Tail(backlog)
    /\ UNCHANGED <<store, cfg, link, held>>

(* The owner changes a setting on the speaker's own page.                  *)
LocalChange(k, v) ==
    /\ cfg' = [cfg EXCEPT ![k] = v]
    /\ held' = [held EXCEPT ![k] = @ \union {v}]
    /\ UNCHANGED <<thr, mutex, store, backlog, hist, link, faults>>

(* The speaker restarts: history and link report are gone, connections are *)
(* reset, the settings are on the disk.                                    *)
Restart ==
    /\ Fault
    /\ hist' = <<>>
    /\ link' = FALSE
    /\ backlog' = <<>>
    /\ thr' = [t \in Threads |->
                 LET th == [thr EXCEPT ![t].since = IF thr[t].runs > 0 THEN Capacity ELSE @]
                 IN  IF thr[t].pc = "awaiting" THEN Ended(th, t, TRUE, Failed)[t] ELSE th[t]]
    /\ mutex' = Nobody
    /\ UNCHANGED <<store, cfg, held>>

Serve == \/ \E lost \in BOOLEAN : HandleDuplicate(lost) \/ HandleExecuted(lost)
         \/ HandleRejected
         \/ HandleUnsaved

Next ==
    \/ PollSpeaker
    \/ ReportLink
    \/ \E u \in Users : SendToSpeaker(u)
    \/ \E t \in Outside : SendOutside(t)
    \/ \E t \in Threads : ConnectFails(t) \/ Timeout(t)
    \/ \E t \in Threads : Observe(t) \/ Retry(t) \/ GiveUp(t)
    \/ Serve
    \/ \E k \in Keys, v \in Values : LocalChange(k, v)
    \/ Restart

(* The poll runs for ever, a thread of the gateway that can go on does, the *)
(* mutex is handed to each waiter in the end, and the speaker's accept     *)
(* loop takes the next connection.                                         *)
Fairness ==
    /\ SF_vars(PollSpeaker)
    /\ \A t \in Threads : WF_vars(Observe(t))
    /\ WF_vars(Serve)

Spec == Init /\ [][Next]_vars /\ Fairness

----------------------------------------------------------------------------
ThreadStates ==
    [pc : {"idle", "awaiting", "observing"}, id : Nat, lost : BOOLEAN, answer : Answers,
     runs : 0..2, since : 0..Capacity]
Requests == [from : Threads, id : Nat \ {0}, cmd : Commands]
Entries == [id : Nat \ {0}, answer : Answers]
Stores == [online : BOOLEAN, failures : 0..OfflineThreshold,
           confirmed : [Keys -> Values], told : SUBSET Keys]

TypeOK ==
    /\ thr \in [Threads -> ThreadStates]
    /\ mutex \in Gateway \union {Nobody}
    /\ store \in Stores
    /\ backlog \in Seq(Requests) /\ Len(backlog) <= Backlog
    /\ cfg \in [Keys -> Values]
    /\ hist \in Seq(Entries) /\ Len(hist) <= Capacity
    /\ link \in BOOLEAN
    /\ held \in [Keys -> SUBSET Values]
    /\ faults \in 0..MaxFaults

(* A thread that is told its command succeeded had it executed for it: the *)
(* answer is not the one CommandHistory keeps for another command.         *)
AckMeansExecuted ==
    \A t \in Threads :
        thr[t].pc = "observing" /\ ~thr[t].lost /\ thr[t].answer.ok => thr[t].runs > 0

(* A request that is sent again after its answer was lost runs a second    *)
(* time only if Capacity other commands were recorded in between or the    *)
(* speaker restarted: the telemetry that arrives every two seconds does    *)
(* not use the history up.                                                 *)
RepeatsOnlyWhenForgotten ==
    \A t \in Threads :
        thr[t].runs > 1 => thr[t].since >= Capacity

(* A value a reply put into the store is one the speaker has really had:   *)
(* a refused, unsaved or clamped request never shows as confirmed.         *)
ConfirmedWasHeld ==
    \A k \in store.told : store.confirmed[k] \in held[k]

(* Whatever order the observers ran in, and whatever a request given up on *)
(* did later: once the settings rest, the store shows them for good, and   *)
(* the speaker as online.                                                  *)
StoreConverges ==
    \A s \in [Keys -> Values] :
        <>[](cfg = s) => <>[](store.confirmed = s /\ store.online)
=============================================================================
