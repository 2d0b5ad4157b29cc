------------------------------ MODULE Playback ------------------------------
(***************************************************************************)
(* The speaker's audio path (src/audio): AudioReceiver::onDatagram fills   *)
(* the jitter buffer from the network thread, playIdentifyTone from the    *)
(* thread of a web request, and PlaybackEngine's thread empties it through *)
(* PlaybackManager::step().  AudioBuffer locks one call at a time, so      *)
(* step() is four steps between which the other threads run.               *)
(*                                                                         *)
(* Left out: samples, gain and DSP; StreamSync's statistics (observe() has *)
(* no influence on due()); streaming_ and its events (module Speaker).     *)
(* The sender is SenderContract, which AudioEngine implements.             *)
(***************************************************************************)
EXTENDS SenderContract, Sequences, FiniteSets

CONSTANTS
  Prefill, Capacity, \* of AudioBuffer
  Target,            \* StreamSync::target_buffer_ms_, in blocks
  TonePackets,       \* packets of the identify tone
  MaxPackets,        \* bound: datagrams sent
  MaxCopies          \* bound: datagrams the network duplicates

ASSUME PlaybackConstants ==
  /\ Prefill \in Nat \ {0} /\ Capacity \in Nat \ {0}
  /\ Target \in Nat /\ TonePackets \in Nat
  /\ MaxPackets \in Nat /\ MaxCopies \in Nat

VARIABLES
  queue,     \* AudioBuffer::queue_
  metrics,   \* AudioBuffer::metrics_
  haveLast,  \* AudioBuffer::have_last_seq_
  player,    \* where the playback thread is
  started,   \* PlaybackManager::started_
  peeked,    \* what peekTimestamp() answered: a set of at most one timestamp
  halting,   \* PlaybackEngine::stop() was called
  copies,    \* duplications so far
  tone,      \* packets of the tone pushed so far
  seen,      \* history: sequence numbers the receiver pushed,
  first      \* history: ... and the first of them

buffer == <<queue, metrics, haveLast>>
thread == <<player, started, peeked, halting>>
history == <<seen, first>>
vars == <<senderVars, buffer, thread, copies, tone, history>>

PlayerLabels == {"off", "gate", "peek", "due", "full", "pop", "closed"}

Init ==
  /\ SenderInit /\ copies = 0
  /\ queue = <<>> /\ haveLast = FALSE
  /\ metrics = [received |-> 0, dropped |-> 0, lost |-> 0, underflows |-> 0, last |-> 0]
  /\ player = "off" /\ started = FALSE /\ peeked = {} /\ halting = FALSE
  /\ tone = 0 /\ seen = {} /\ first = 0

----------------------------------------------------------------------------
(* AudioBuffer.                                                            *)

\* push() infers loss from a forward gap and drops the oldest packet if full.
Forward(p) == ~haveLast \/ p.sequence > metrics.last
Full == Len(queue) >= Capacity

\* Mutant: an off-by-one in the gap.
GapShort(p) ==
  IF haveLast /\ p.sequence > metrics.last + 1 THEN p.sequence - metrics.last - 2 ELSE 0

Gap(p) == IF haveLast /\ p.sequence > metrics.last + 1 THEN p.sequence - metrics.last - 1 ELSE 0

push(p) ==
  /\ metrics' = [metrics EXCEPT !.received = @ + 1,
                                !.lost = @ + Gap(p),
                                !.last = IF Forward(p) THEN p.sequence ELSE @,
                                !.dropped = IF Full THEN @ + 1 ELSE @]
  /\ haveLast' = TRUE
  /\ queue' = Append(IF Full THEN Tail(queue) ELSE queue, p)

nearlyFull == Len(queue) * 5 >= Capacity * 4
ready == Len(queue) >= Prefill

----------------------------------------------------------------------------
(* The writers.                                                            *)

\* recv() hands over any datagram that is on the way, in any order, and the
\* network may keep a second copy of it.  One that never arrives is lost.
Arrives(p) ==
  \/ net' = net \ {p} /\ UNCHANGED copies
  \/ copies < MaxCopies /\ copies' = copies + 1 /\ UNCHANGED net

\* AudioReceiver::onDatagram, up to the stream edges (module Speaker).
onDatagram ==
  \E p \in net :
    /\ Arrives(p)
    /\ push(p)
    /\ seen' = seen \union {p.sequence}
    /\ first' = IF seen = {} THEN p.sequence ELSE first
    /\ UNCHANGED <<thread, tone, now, sent, latest>>

\* playIdentifyTone, one packet; they are stamped 0 and numbered from 0.
toneStep ==
  /\ tone < TonePackets /\ tone' = tone + 1
  /\ push(Packet(0, tone))
  /\ UNCHANGED <<thread, history, copies, senderVars>>

----------------------------------------------------------------------------
(* The playback thread.                                                    *)

\* start(): an output that cannot be opened leaves the service degraded, with
\* no thread.
startPlayback ==
  /\ player = "off" /\ ~halting
  /\ player' = "gate"
  /\ UNCHANGED <<buffer, started, peeked, halting, tone, history, copies, senderVars>>

stopPlayback ==
  /\ ~halting /\ halting' = TRUE
  /\ UNCHANGED <<buffer, player, started, peeked, tone, history, copies, senderVars>>

\* The loop ends, stop() joins it and closes the output.
closePlayback ==
  /\ halting /\ player = "gate" /\ player' = "closed"
  /\ started' = FALSE
  /\ UNCHANGED <<buffer, peeked, halting, tone, history, copies, senderVars>>

\* Mutant: the prefill is asked for before every packet.
stepGatePrefill ==
  /\ player = "gate" /\ ~halting /\ ready
  /\ started' = TRUE /\ player' = "peek"
  /\ UNCHANGED <<buffer, peeked, halting, tone, history, copies, senderVars>>

\* step() begins; a buffer that is not ready yet makes it return 0 and the
\* loop write silence.
stepGate ==
  /\ player = "gate" /\ ~halting /\ (started \/ ready)
  /\ started' = TRUE /\ player' = "peek"
  /\ UNCHANGED <<buffer, peeked, halting, tone, history, copies, senderVars>>

\* peekTimestamp(): an empty queue and an unstamped packet go on to pop().
stepPeek ==
  /\ player = "peek"
  /\ peeked' = IF queue = <<>> THEN {} ELSE {Head(queue).timestamp}
  /\ player' = IF peeked' \in {{}, {0}} THEN "pop" ELSE "due"
  /\ UNCHANGED <<buffer, started, halting, tone, history, copies, senderVars>>

\* StreamSync::due.
IsDue(ts) == ts <= now + Target

stepDue ==
  /\ player = "due"
  /\ player' = IF \A ts \in peeked : IsDue(ts) THEN "pop" ELSE "full"
  /\ UNCHANGED <<buffer, started, peeked, halting, tone, history, copies, senderVars>>

\* Mutant: the valve opens at half the capacity.
stepValveHalf ==
  /\ player = "full"
  /\ LET open == Len(queue) * 2 >= Capacity
     IN player' = (IF open THEN "pop" ELSE "gate") /\ peeked' = (IF open THEN peeked ELSE {})
  /\ UNCHANGED <<buffer, started, halting, tone, history, copies, senderVars>>

\* The safety valve: a packet is not held back in a buffer that is nearly full.
stepValve ==
  /\ player = "full"
  /\ player' = IF nearlyFull THEN "pop" ELSE "gate"
  /\ peeked' = IF nearlyFull THEN peeked ELSE {}
  /\ UNCHANGED <<buffer, started, halting, tone, history, copies, senderVars>>

\* pop(), and the write, whose failure costs the packet all the same.
stepPop ==
  /\ player = "pop" /\ player' = "gate" /\ peeked' = {}
  /\ IF queue = <<>>
     THEN /\ metrics' = [metrics EXCEPT !.underflows = @ + 1]
          /\ started' = FALSE
          /\ UNCHANGED queue
     ELSE /\ queue' = Tail(queue)
          /\ UNCHANGED <<metrics, started>>
  /\ UNCHANGED <<haveLast, halting, tone, history, copies, senderVars>>

----------------------------------------------------------------------------

StepNext == stepGate \/ stepPeek \/ stepDue \/ stepValve \/ stepPop

\* The sender stops early enough for the clock to reach every timestamp.
SenderNext ==
  /\ Tick \/ (sent < MaxPackets /\ now + Lead <= MaxNow + Target /\ Emit)
  /\ UNCHANGED <<buffer, thread, copies, tone, history>>

Next ==
  \/ SenderNext
  \/ onDatagram \/ toneStep
  \/ startPlayback \/ stopPlayback \/ closePlayback
  \/ StepNext

Spec == Init /\ [][Next]_vars

\* The playback thread keeps running and time passes; nothing is sent or
\* delivered by force.
FairSpec == Spec /\ WF_vars(StepNext \/ closePlayback) /\ WF_vars(SenderNext /\ Tick)

----------------------------------------------------------------------------

TypeOK ==
  /\ now \in 0..MaxNow /\ net \subseteq Packets /\ sent \in Nat /\ latest \in Nat
  /\ queue \in Seq(Packets) /\ Len(queue) <= Capacity
  /\ metrics \in [received : Nat, dropped : Nat, lost : Nat, underflows : Nat, last : Nat]
  /\ haveLast \in BOOLEAN /\ started \in BOOLEAN /\ halting \in BOOLEAN
  /\ player \in PlayerLabels
  /\ peeked \subseteq Nat
  /\ copies \in 0..MaxCopies /\ tone \in 0..TonePackets
  /\ seen \subseteq Nat /\ first \in Nat

\* A packet leaves the buffer before its time only if the buffer is nearly full
\* at that very moment, although the timestamp, the level and the pop are three
\* separate locked calls, or if it arrived between a peek that found the queue
\* empty and the pop: the one case in which step() pops what it never looked at.
EarlyOnlyWhenFull ==
  [][ (player = "pop" /\ queue # <<>> /\ player' # "pop")
        => \/ IsDue(Head(queue).timestamp)
           \/ nearlyFull
           \/ peeked = {} ]_vars

\* What never arrived between the first packet and the highest sequence number
\* is counted as lost, whatever the network drops, repeats or reorders.  The
\* identify tone numbers its packets from 0 and spoils the count.
LossNeverUndercounted ==
  haveLast /\ tone = 0 => Cardinality((first..metrics.last) \ seen) <= metrics.lost

\* Playback that has its prefill plays the buffer down to the last packet: a
\* timestamp in the future holds it up, and the clock ends that.
BufferDrains ==
  (Len(queue) >= Prefill /\ player # "off") ~> (queue = <<>> \/ halting)
=============================================================================
