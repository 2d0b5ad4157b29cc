----------------------------- MODULE AudioEngine -----------------------------
(***************************************************************************)
(* The streamer's sender (streamer/src/audio/AudioEngine.cpp): one audio   *)
(* thread that reads, stamps and sends blocks, and web requests that swap  *)
(* the source and the transport state under it.                            *)
(*                                                                         *)
(* A section under source_mutex_ is one step; everything the code does     *)
(* outside it (the transport_state_ exchanges, the send of a block that is *)
(* not the last, the pacing) is a step of its own.  wall_start_ and        *)
(* blocks_this_stream_ are written under the lock by play() and resume()   *)
(* and used without it by loop(), so the increment is a load and a store.  *)
(*                                                                         *)
(* Left out: the level meters and the DSP hook (data), the stream events   *)
(* (nobody subscribes to them), the flag of the last packet (module        *)
(* Speaker has its effect) and the set of targets.                         *)
(***************************************************************************)
EXTENDS Naturals

CONSTANTS
  Callers,   \* HTTP threads that drive the transport
  Lead,      \* lead_seconds, in blocks of 480 frames
  Lengths,   \* how many blocks a finite source may have
  MaxPlays,  \* bound: play() and resume() calls, as each moves the time line
  MaxNow,    \* bound: the clock stops here
  MaxBlocks  \* bound: a live source yields nothing once this many blocks were sent

ASSUME EngineConstants ==
  /\ Lead \in Nat /\ Lengths \subseteq Nat
  /\ MaxPlays \in Nat /\ MaxNow \in Nat /\ MaxBlocks \in Nat

VARIABLES
  transport,  \* transport_state_
  source,     \* source_
  stalled,    \* its pipe has nothing to read, and nobody has closed it
  stamp,      \* Timestamper::next_timestamp_
  sequence,   \* Packetizer::sequence_
  wall,       \* wall_start_
  blocks,     \* blocks_this_stream_
  loop,       \* where the audio thread is
  held,       \* the datagram it has packed and not sent
  reg,        \* the incremented counter, not stored yet
  due,        \* when the next block is due
  caller,     \* where each web request is
  running,    \* running_
  now,        \* the clock
  net,        \* datagrams handed to the sink
  plays,      \* play() and resume() calls so far
  latest,     \* history: the last timestamp sent
  trailing    \* history: blocks sent since the transport left Playing

timeline == <<stamp, wall, blocks>>
audio == <<sequence, loop, held, reg, due, latest>>
link == <<now, net>>
vars == <<transport, source, stalled, timeline, audio, caller, running, plays, trailing, link>>

\* A finite source with some blocks left, or a live one.
Sources == [live : {FALSE}, left : Nat] \union [live : {TRUE}, left : {0}]
NoSource == [live |-> FALSE]
Exhausted(s) == ~s.live /\ s.left = 0
Loaded == source # NoSource

Packet(ts, n) == [timestamp |-> ts, sequence |-> n]
Packets == [timestamp : Nat, sequence : Nat]
NoPacket == Packet(0, 0)

LoopLabels == {"top", "read", "send", "ended", "count", "store", "compute", "pace", "exit"}
CallerLabels == {"idle", "playing", "resuming", "stopping"}

Init ==
  /\ transport = "Idle" /\ source = NoSource /\ stalled = FALSE
  /\ stamp = 0 /\ sequence = 0 /\ wall = 0 /\ blocks = 0
  /\ loop = "top" /\ held = NoPacket /\ reg = 0 /\ due = 0
  /\ caller = [c \in Callers |-> "idle"]
  /\ running = TRUE /\ plays = 0 /\ latest = 0 /\ trailing = 0
  /\ now = 0 /\ net = {}

\* A store to or an exchange of transport_state_.
Becomes(t) ==
  /\ transport' = t
  /\ trailing' = IF "Playing" \in {t, transport} THEN 0 ELSE trailing

----------------------------------------------------------------------------
(* The audio thread.                                                       *)

\* Mutant: the wait for something to play does not look at running_.
LoopChecksDeaf ==
  /\ loop = "top" /\ transport = "Playing"
  /\ loop' = IF running THEN "read" ELSE "exit"
  /\ UNCHANGED <<transport, source, stalled, timeline, sequence, held, reg, due, caller, running,
                 plays, latest, trailing, link>>

\* loop(), the head of the outer loop.  An engine that is not Playing sleeps.
LoopChecks ==
  /\ loop = "top"
  /\ \/ ~running /\ loop' = "exit"
     \/ running /\ transport = "Playing" /\ loop' = "read"
  /\ UNCHANGED <<transport, source, stalled, timeline, sequence, held, reg, due, caller, running,
                 plays, latest, trailing, link>>

\* Whoever is not the reader gets source_mutex_, which the reader holds until
\* the pipe it reads (any source but a WAV file is one) yields something.
LockFree == ~(stalled /\ loop = "read")

\* The other end of the pipe falls silent: the next fread() waits, and so does
\* the pclose() of whoever lets go of the source.
PipeStalls ==
  /\ Loaded /\ ~stalled /\ stalled' = TRUE
  /\ UNCHANGED <<transport, source, timeline, audio, caller, running, plays, trailing, link>>

\* sendBlock() without a packet: no source, a finite one that has ended, or a
\* live one that has nothing yet (which keeps the stream open).
sendBlockEmpty ==
  /\ loop = "read"
  /\ \/ (Loaded => Exhausted(source)) /\ loop' = "ended"
     \/ Loaded /\ source.live /\ loop' = "count"
  /\ stalled' = FALSE
  /\ UNCHANGED <<transport, source, timeline, sequence, held, reg, due, caller, running,
                 plays, latest, trailing, link>>

\* IPacketSink::send.
Transmit(p) ==
  /\ net' = net \union {p} /\ latest' = p.timestamp
  /\ trailing' = IF transport = "Playing" THEN 0 ELSE trailing + 1

\* sendBlock() with a packet, up to the unlock.  A source may know with its
\* last block that it is exhausted (a WAV file that is resampled) or only find
\* out at the next read (a WAV file at the wire rate, a pipe).  A block known
\* to be the last is sent before the unlock.
sendBlock ==
  /\ loop = "read" /\ Loaded /\ ~Exhausted(source)
  /\ source.live => sequence < MaxBlocks
  /\ source' = [source EXCEPT !.left = IF source.live THEN 0 ELSE @ - 1]
  /\ LET p == Packet(stamp, sequence)
     IN \/ /\ ~source.live /\ source.left = 1
           /\ Transmit(p) /\ loop' = "ended" /\ UNCHANGED held
        \/ held' = p /\ loop' = "send" /\ UNCHANGED <<net, latest, trailing>>
  /\ sequence' = sequence + 1
  /\ stamp' = stamp + 1 /\ stalled' = FALSE
  /\ UNCHANGED <<transport, wall, blocks, reg, due, caller, running, plays, now>>

\* The send outside the lock.
LoopSends ==
  /\ loop = "send" /\ loop' = "count"
  /\ Transmit(held) /\ held' = NoPacket
  /\ UNCHANGED <<transport, source, stalled, timeline, sequence, reg, due, caller, running, plays,
                 now>>

\* sendBlock() returned false: go idle, whatever has become of the source.
LoopEnds ==
  /\ loop = "ended" /\ loop' = "top"
  /\ Becomes("Idle")
  /\ UNCHANGED <<source, stalled, timeline, sequence, held, reg, due, caller, running, plays, latest,
                 link>>

\* ++blocks_this_stream_ is a load and a store; the deadline is computed from
\* the register or from what the variable holds by then.
LoopCounts ==
  /\ \/ loop = "count" /\ loop' = "store" /\ reg' = blocks + 1 /\ UNCHANGED <<blocks, due>>
     \/ loop = "store" /\ loop' = "compute" /\ blocks' = reg /\ UNCHANGED <<reg, due>>
     \/ /\ loop = "compute" /\ loop' = "pace"
        /\ \E b \in {reg, blocks} : due' = wall + b
        /\ reg' = 0 /\ UNCHANGED blocks
  /\ UNCHANGED <<transport, source, stalled, stamp, wall, sequence, held, caller, running, plays,
                 latest, trailing, link>>

\* Mutant: the transport is not looked at again after the pacing sleep.
LoopWakesSending ==
  /\ loop = "pace" /\ (now >= due \/ ~running)
  /\ loop' = (IF running THEN "read" ELSE "top") /\ due' = 0
  /\ UNCHANGED <<transport, source, stalled, timeline, sequence, held, reg, caller, running, plays,
                 latest, trailing, link>>

\* The pacing loop, in slices of 20 ms.
LoopWakes ==
  /\ loop = "pace" /\ (now >= due \/ ~running)
  /\ loop' = "top" /\ due' = 0
  /\ UNCHANGED <<transport, source, stalled, timeline, sequence, held, reg, caller, running, plays,
                 latest, trailing, link>>

----------------------------------------------------------------------------
(* The web requests.                                                       *)

At(c, l) == caller[c] = l
CallerGoto(c, l) == caller' = [caller EXCEPT ![c] = l]

\* Mutant: a new time line is paced by the old anchor.
AnchorStampOnly == stamp' = now + Lead /\ blocks' = 0 /\ UNCHANGED wall

\* Timestamper::start and the pacing anchor.
Anchor == stamp' = now + Lead /\ blocks' = 0 /\ wall' = now

\* play(): the section under the lock, then the store.
play(c) ==
  /\ At(c, "idle") /\ running /\ plays < MaxPlays /\ LockFree
  /\ source' \in [live : {FALSE}, left : Lengths] \union [live : {TRUE}, left : {0}]
  /\ stalled' = FALSE /\ Anchor
  /\ CallerGoto(c, "playing") /\ plays' = plays + 1
  /\ UNCHANGED <<transport, audio, running, trailing, link>>

playStarts(c) ==
  /\ At(c, "playing") /\ CallerGoto(c, "idle")
  /\ Becomes("Playing")
  /\ UNCHANGED <<source, stalled, timeline, audio, running, plays, link>>

pause(c) ==
  /\ At(c, "idle") /\ running
  /\ transport = "Playing" /\ Becomes("Paused")
  /\ UNCHANGED <<source, stalled, timeline, audio, caller, running, plays, link>>

\* resume(): the exchange comes before the new anchor.
resume(c) ==
  /\ At(c, "idle") /\ running /\ plays < MaxPlays
  /\ transport = "Paused" /\ Becomes("Playing")
  /\ CallerGoto(c, "resuming") /\ plays' = plays + 1
  /\ UNCHANGED <<source, stalled, timeline, audio, running, link>>

resumeAnchors(c) ==
  /\ At(c, "resuming") /\ LockFree /\ CallerGoto(c, "idle")
  /\ Anchor
  /\ UNCHANGED <<transport, source, stalled, audio, running, plays, trailing, link>>

\* stopStream(): drop the source, then go idle.
stopStream(c) ==
  /\ At(c, "idle") /\ running /\ LockFree
  /\ source' = NoSource /\ stalled' = FALSE
  /\ CallerGoto(c, "stopping")
  /\ UNCHANGED <<transport, timeline, audio, running, plays, trailing, link>>

stopStreamIdles(c) ==
  /\ At(c, "stopping") /\ CallerGoto(c, "idle")
  /\ Becomes("Idle")
  /\ UNCHANGED <<source, stalled, timeline, audio, running, plays, link>>

\* stop(), which StreamerApp::shutdown calls once the web server is down, and
\* what it does after the join.
stop ==
  /\ running /\ \A c \in Callers : At(c, "idle")
  /\ running' = FALSE
  /\ UNCHANGED <<transport, source, stalled, timeline, audio, caller, plays, trailing, link>>

stopJoins ==
  /\ ~running /\ loop = "exit" /\ (Loaded \/ transport # "Idle")
  /\ source' = NoSource /\ stalled' = FALSE /\ Becomes("Idle")
  /\ UNCHANGED <<timeline, audio, caller, running, plays, link>>

----------------------------------------------------------------------------

LoopNext ==
  \/ LoopChecks \/ sendBlockEmpty \/ sendBlock \/ LoopSends
  \/ LoopEnds \/ LoopCounts \/ LoopWakes

CallerNext(c) ==
  \/ play(c) \/ playStarts(c) \/ pause(c) \/ resume(c) \/ resumeAnchors(c)
  \/ stopStream(c) \/ stopStreamIdles(c)

Tick ==
  /\ now < MaxNow /\ now' = now + 1
  /\ UNCHANGED <<transport, source, stalled, timeline, audio, caller, running, plays, trailing, net>>

Next == LoopNext \/ PipeStalls \/ (\E c \in Callers : CallerNext(c)) \/ stop \/ stopJoins \/ Tick

Spec == Init /\ [][Next]_vars

\* The audio thread keeps running and stop() does, unless they wait for a pipe,
\* which owes them nothing; requests that were begun end and time passes.
\* Nothing forces a request or the shutdown.
FairSpec ==
  /\ Spec
  /\ WF_vars(LoopNext /\ LockFree) /\ WF_vars(stopJoins /\ ~stalled) /\ WF_vars(Tick)
  /\ \A c \in Callers : WF_vars(playStarts(c) \/ resumeAnchors(c) \/ stopStreamIdles(c))

----------------------------------------------------------------------------

TypeOK ==
  /\ transport \in {"Idle", "Playing", "Paused"}
  /\ source = NoSource \/ source \in Sources
  /\ stalled \in BOOLEAN
  /\ {stamp, sequence, wall, blocks, reg, due, plays, latest, trailing} \subseteq Nat
  /\ loop \in LoopLabels
  /\ held \in Packets
  /\ caller \in [Callers -> CallerLabels]
  /\ running \in BOOLEAN
  /\ now \in 0..MaxNow /\ net \subseteq Packets

\* After pause(), stopStream() or the end of a file at most one more block is
\* sent: the one sendBlock() was already committed to when the state changed.
TrailingBlock == trailing <= 1

\* The engine keeps SenderContract's promise although play() and resume() move
\* the time line under the audio thread at any point of its loop: numbers
\* without a gap, no timestamp before one that was sent, none further ahead
\* than the lead.  A block that is packed and not sent counts as not numbered.
Sender == INSTANCE SenderContract WITH sent <- IF loop = "send" THEN sequence - 1 ELSE sequence
KeepsContract == Sender!SenderSpec

\* AudioEngine::stop() ends: the audio thread leaves its loop from wherever it
\* is, the pacing sleep included, and the source is released.  The only thing it
\* waits for without bound is a pipe that stays silent and open: fread() under
\* source_mutex_ (StdinPcmSource.h:32, AudioEngine.cpp:50) or pclose().
SenderStops ==
  (~running ~> (loop = "exit" /\ ~Loaded /\ transport = "Idle")) \/ <>[]stalled

\* play() begins "streaming `source`, replacing whatever was playing"
\* (AudioEngine.h): once the request and the audio thread's reaction to the
\* previous source are over, the engine does not idle on a source that has
\* blocks left.
PlayTakesEffect ==
  (loop = "top" /\ running /\ \A c \in Callers : At(c, "idle"))
    => (Loaded /\ ~Exhausted(source) => transport # "Idle")
=============================================================================
