-------------------------- MODULE AudioEngine_proofs --------------------------
(***************************************************************************)
(* Theorems about AudioEngine, for any number of web threads, any lead,    *)
(* any sources and however often play() and resume() move the time line:   *)
(* the engine implements SenderContract, and at most one block follows the *)
(* end of Playing.                                                         *)
(***************************************************************************)
EXTENDS AudioEngine, TLAPS

(* What TypeOK says of the counters, one by one.                           *)
LEMMA Counters ==
  ASSUME TypeOK
  PROVE  /\ stamp \in Nat /\ sequence \in Nat /\ wall \in Nat /\ blocks \in Nat
         /\ reg \in Nat /\ due \in Nat /\ plays \in Nat /\ latest \in Nat
         /\ trailing \in Nat /\ now \in Nat /\ Lead \in Nat
         /\ held.timestamp \in Nat /\ held.sequence \in Nat
BY EngineConstants DEF TypeOK, Packets

----------------------------------------------------------------------------
(* Type correctness.                                                       *)

LEMMA EngineTypeInit == Init => TypeOK
<1>1. Init => stalled \in BOOLEAN
  BY Zenon DEF Init
<1> QED
  BY <1>1, EngineConstants
     DEF Init, TypeOK, LoopLabels, CallerLabels, NoPacket, Packet, Packets

(* The blocks a source has left: none is taken from an empty one.          *)
LEMMA SourceStep ==
  ASSUME TypeOK, sendBlock PROVE source' \in Sources
<1>1. source \in Sources
  BY DEF TypeOK, sendBlock, Loaded
<1>2. CASE source.live
  BY <1>1, <1>2 DEF sendBlock, Sources
<1>3. CASE ~source.live
  <2>1. source \in [live : {FALSE}, left : Nat] /\ source.left # 0
    BY <1>1, <1>3 DEF sendBlock, Sources, Exhausted
  <2>2. source.left - 1 \in Nat
    BY <2>1
  <2>3. source' = [source EXCEPT !.left = source.left - 1]
    BY <1>3 DEF sendBlock
  <2>4. source' \in [live : {FALSE}, left : Nat]
    BY <2>1, <2>2, <2>3
  <2> QED  BY <2>4 DEF Sources
<1> QED  BY <1>2, <1>3

(* What the steps of the audio thread and of a web request keep.           *)
LEMMA LoopTypeStep == TypeOK /\ LoopNext => TypeOK'
<1> SUFFICES ASSUME TypeOK, LoopNext PROVE TypeOK'  OBVIOUS
<1> USE EngineConstants, Counters
<1>1. CASE LoopChecks
  BY <1>1 DEF LoopChecks, TypeOK, LoopLabels, timeline, link
<1>2. CASE sendBlockEmpty
  BY <1>2 DEF sendBlockEmpty, TypeOK, LoopLabels, timeline, link
<1>3. CASE sendBlock
  <2>1. source' \in Sources
    BY <1>3, SourceStep
  <2>2. Packet(stamp, sequence) \in Packets
    BY DEF Packet, Packets
  <2>3. /\ held' \in Packets /\ net' \subseteq Packets
        /\ latest' \in Nat /\ trailing' \in Nat /\ loop' \in LoopLabels
    BY <1>3, <2>2 DEF sendBlock, Transmit, TypeOK, LoopLabels, Packets
  <2>4. stalled' \in BOOLEAN
    BY <1>3, Zenon DEF sendBlock
  <2> QED  BY <1>3, <2>1, <2>3, <2>4 DEF sendBlock, TypeOK
<1>4. CASE LoopSends
  BY <1>4 DEF LoopSends, Transmit, TypeOK, LoopLabels, timeline, Packets, NoPacket, Packet
<1>5. CASE LoopEnds
  BY <1>5 DEF LoopEnds, Becomes, TypeOK, LoopLabels, timeline, link
<1>6. CASE LoopCounts
  BY <1>6 DEF LoopCounts, TypeOK, LoopLabels, link
<1>7. CASE LoopWakes
  BY <1>7 DEF LoopWakes, TypeOK, LoopLabels, timeline, link
<1> QED  BY <1>1, <1>2, <1>3, <1>4, <1>5, <1>6, <1>7 DEF LoopNext

LEMMA CallerTypeStep ==
  ASSUME TypeOK, NEW c \in Callers, CallerNext(c) PROVE TypeOK'
<1> USE EngineConstants, Counters
<1>1. CASE play(c)
  <2>1. source' \in Sources
    BY <1>1 DEF play, Sources
  <2>2. stalled' \in BOOLEAN
    BY <1>1, Zenon DEF play
  <2> QED  BY <1>1, <2>1, <2>2 DEF play, Anchor, CallerGoto, TypeOK, CallerLabels, audio, link
<1>2. CASE playStarts(c)
  BY <1>2 DEF playStarts, Becomes, CallerGoto, TypeOK, CallerLabels, audio, link, timeline
<1>3. CASE pause(c)
  BY <1>3 DEF pause, Becomes, TypeOK, audio, link, timeline
<1>4. CASE resume(c)
  BY <1>4 DEF resume, Becomes, CallerGoto, TypeOK, CallerLabels, audio, link, timeline
<1>5. CASE resumeAnchors(c)
  BY <1>5 DEF resumeAnchors, Anchor, CallerGoto, TypeOK, CallerLabels, audio, link
<1>6. CASE stopStream(c)
  BY <1>6 DEF stopStream, CallerGoto, TypeOK, CallerLabels, audio, link, timeline
<1>7. CASE stopStreamIdles(c)
  BY <1>7 DEF stopStreamIdles, Becomes, CallerGoto, TypeOK, CallerLabels, audio, link,
              timeline
<1> QED  BY <1>1, <1>2, <1>3, <1>4, <1>5, <1>6, <1>7 DEF CallerNext

LEMMA EngineTypeStep == TypeOK /\ [Next]_vars => TypeOK'
<1> SUFFICES ASSUME TypeOK, [Next]_vars PROVE TypeOK'  OBVIOUS
<1> USE EngineConstants, Counters
<1>1. CASE LoopNext
  BY <1>1, LoopTypeStep
<1>2. CASE \E c \in Callers : CallerNext(c)
  BY <1>2, CallerTypeStep
<1>3. CASE stop
  BY <1>3 DEF stop, TypeOK, timeline, audio, link
<1>4. CASE stopJoins
  <2>1. stalled' \in BOOLEAN
    BY <1>4, Zenon DEF stopJoins
  <2> QED  BY <1>4, <2>1 DEF stopJoins, Becomes, TypeOK, timeline, audio, link
<1>5. CASE Tick
  BY <1>5 DEF Tick, TypeOK, timeline, audio
<1>6. CASE PipeStalls
  BY <1>6 DEF PipeStalls, TypeOK, timeline, audio, link
<1>7. CASE UNCHANGED vars
  BY <1>7 DEF TypeOK, vars, timeline, audio, link
<1> QED  BY <1>1, <1>2, <1>3, <1>4, <1>5, <1>6, <1>7 DEF Next

(* Every variable of the engine keeps its type: no counter runs below zero *)
(* (sendBlock() takes a block only from a source that has one).            *)
THEOREM EngineTypeCorrect == Spec => []TypeOK
BY EngineTypeInit, EngineTypeStep, PTL DEF Spec

----------------------------------------------------------------------------
(* The trailing block.                                                     *)

(* A thread that has taken a block, or is about to, saw Playing, and since *)
(* then nothing was sent.                                                  *)
SpentInv ==
  /\ transport = "Playing" => trailing = 0
  /\ loop \in {"read", "send"} => trailing = 0
  /\ TrailingBlock

LEMMA SpentInit == Init => SpentInv
BY DEF Init, SpentInv, TrailingBlock

LEMMA SpentStep == TypeOK /\ SpentInv /\ [Next]_vars => SpentInv'
<1> SUFFICES ASSUME TypeOK, SpentInv, [Next]_vars PROVE SpentInv'  OBVIOUS
<1> USE Counters DEF SpentInv, TrailingBlock
<1>1. ASSUME LoopNext PROVE SpentInv'
  <2>1. CASE LoopChecks
    BY <2>1 DEF LoopChecks
  <2>2. CASE sendBlockEmpty
    BY <2>2 DEF sendBlockEmpty
  <2>3. CASE sendBlock
    <3>1. /\ loop = "read" /\ UNCHANGED transport
          /\ \/ loop' = "ended" /\ trailing' = (IF transport = "Playing" THEN 0 ELSE trailing + 1)
             \/ loop' = "send" /\ UNCHANGED trailing
      BY <2>3, Zenon DEF sendBlock, Transmit
    <3> QED  BY <3>1
  <2>4. CASE LoopSends
    BY <2>4 DEF LoopSends, Transmit
  <2>5. CASE LoopEnds
    BY <2>5 DEF LoopEnds, Becomes
  <2>6. CASE LoopCounts
    BY <2>6 DEF LoopCounts
  <2>7. CASE LoopWakes
    BY <2>7 DEF LoopWakes
  <2> QED  BY <1>1, <2>1, <2>2, <2>3, <2>4, <2>5, <2>6, <2>7 DEF LoopNext
<1>2. ASSUME NEW c \in Callers, CallerNext(c) PROVE SpentInv'
  <2>1. /\ UNCHANGED loop
        /\ \/ UNCHANGED <<transport, trailing>>
           \/ \E t \in {"Idle", "Playing", "Paused"} : Becomes(t)
    BY <1>2 DEF CallerNext, play, playStarts, pause, resume, resumeAnchors, stopStream,
                stopStreamIdles, audio
  <2> QED  BY <2>1 DEF Becomes
<1>3. CASE stop
  BY <1>3 DEF stop, audio
<1>4. CASE stopJoins
  BY <1>4 DEF stopJoins, Becomes, audio
<1>5. CASE Tick
  BY <1>5 DEF Tick, audio
<1>6. CASE PipeStalls \/ UNCHANGED vars
  BY <1>6 DEF PipeStalls, vars, audio
<1> QED  BY <1>1, <1>2, <1>3, <1>4, <1>5, <1>6 DEF Next

(* pause(), stopStream() and the end of a file let at most one more block  *)
(* through, whatever the other requests do meanwhile (AudioEngine.cpp,     *)
(* loop() tests transport_state_ again after every block).                 *)
THEOREM TrailingBlockHolds == Spec => []TrailingBlock
<1>1. SpentInv => TrailingBlock  BY DEF SpentInv
<1> QED
  BY <1>1, EngineTypeCorrect, SpentInit, SpentStep, PTL DEF Spec

----------------------------------------------------------------------------
(* The refinement of SenderContract.                                       *)

Live == Loaded /\ ~Exhausted(source)

(* The packet that was packed is the next one of the contract, whatever    *)
(* has become of the time line.                                            *)
HeldInv ==
  loop = "send" =>
    /\ sequence >= 1 /\ held.sequence = sequence - 1
    /\ latest <= held.timestamp /\ held.timestamp <= now + Lead
    /\ held.timestamp <= stamp

(* How far the timestamps have run ahead of the pacing anchor: by no more  *)
(* blocks than are counted, or are about to be.  A source that has ended   *)
(* is left alone: its last block is never counted.                         *)
AheadOfWall ==
  /\ loop \in {"top", "read", "ended"} /\ Live => stamp <= wall + Lead + blocks
  /\ loop \in {"send", "count"} => stamp <= wall + Lead + blocks + 1
  /\ loop = "store" => stamp <= wall + Lead + reg
  /\ loop = "compute" => stamp <= wall + Lead + reg /\ stamp <= wall + Lead + blocks
  /\ loop = "pace" => stamp <= wall + Lead + blocks

(* How far they have run ahead of the clock: by no more than the lead when *)
(* the next block may be read, and once it is due after the pacing.        *)
AheadOfClock ==
  /\ (loop = "read" \/ (loop \in {"top", "ended"} /\ running)) /\ Live => stamp <= now + Lead
  /\ loop = "pace" => stamp <= now + Lead \/ stamp <= due + Lead

StampInv ==
  /\ wall <= now /\ latest <= now + Lead /\ latest <= stamp
  /\ HeldInv /\ AheadOfWall /\ AheadOfClock

LEMMA StampInit == Init => StampInv
BY EngineConstants DEF Init, StampInv, HeldInv, AheadOfWall, AheadOfClock, Live, Loaded

(* A request that moves the time line restores what the thread relies on,  *)
(* wherever it is.                                                         *)
LEMMA AnchorKeeps ==
  ASSUME TypeOK, StampInv, Anchor, UNCHANGED <<audio, running, now>> PROVE StampInv'
BY Counters, EngineConstants
   DEF StampInv, HeldInv, AheadOfWall, AheadOfClock, Anchor, audio

(* A step that leaves the time line and the audio thread alone and brings  *)
(* no new source keeps it too.                                             *)
LEMMA QuietKeeps ==
  ASSUME TypeOK, StampInv, UNCHANGED <<timeline, audio, now>>,
         Live' => Live, running' => running
  PROVE  StampInv'
BY Counters, EngineConstants
   DEF StampInv, HeldInv, AheadOfWall, AheadOfClock, audio, timeline

(* What sendBlock() does to the time line.                                 *)
LEMMA SendBlockFacts ==
  ASSUME TypeOK, sendBlock
  PROVE  /\ loop = "read" /\ Live
         /\ stamp' = stamp + 1 /\ sequence' = sequence + 1
         /\ UNCHANGED <<wall, blocks, reg, due, now, running>>
         /\ \/ /\ loop' = "ended" /\ ~Live' /\ latest' = stamp /\ UNCHANGED held
               /\ net' = net \union {Packet(stamp, sequence)}
            \/ loop' = "send" /\ held' = Packet(stamp, sequence) /\ UNCHANGED <<latest, net>>
<1>1. /\ loop = "read" /\ Live
      /\ stamp' = stamp + 1 /\ sequence' = sequence + 1
      /\ UNCHANGED <<wall, blocks, reg, due, now, running>>
  BY Zenon DEF sendBlock, Live
<1>2. /\ source' = [source EXCEPT !.left = IF source.live THEN 0 ELSE source.left - 1]
      /\ \/ /\ ~source.live /\ source.left = 1
            /\ Transmit(Packet(stamp, sequence)) /\ loop' = "ended" /\ UNCHANGED held
         \/ loop' = "send" /\ held' = Packet(stamp, sequence) /\ UNCHANGED <<latest, net>>
  BY Zenon DEF sendBlock
<1>3. ASSUME ~source.live, source.left = 1 PROVE ~Live'
  <2>1. source \in [live : {FALSE}, left : Nat]
    BY <1>1, <1>3 DEF Live, Loaded, TypeOK, Sources
  <2>2. source' = [source EXCEPT !.left = 0]
    BY <1>2, <1>3
  <2>3. source'.left = 0 /\ ~source'.live
    BY <2>1, <2>2
  <2> QED  BY <2>3 DEF Live, Exhausted
<1>4. (Packet(stamp, sequence)).timestamp = stamp
  BY DEF Packet
<1>5. Transmit(Packet(stamp, sequence)) =>
        latest' = stamp /\ net' = net \union {Packet(stamp, sequence)}
  BY <1>4, Zenon DEF Transmit
<1> QED  BY <1>1, <1>2, <1>3, <1>5, Zenon

LEMMA LoopStampStep ==
  ASSUME TypeOK, StampInv, LoopNext PROVE StampInv'
<1> USE Counters, EngineConstants DEF StampInv, HeldInv, AheadOfWall, AheadOfClock
<1>1. UNCHANGED source => Live' = Live
  BY DEF Live, Loaded, Exhausted
<1>2. CASE LoopChecks
  BY <1>1, <1>2 DEF LoopChecks, timeline, link
<1>3. CASE sendBlockEmpty
  <2>1. loop' = "ended" => ~Live
    BY <1>3 DEF sendBlockEmpty, Live
  <2>2. loop' = "count" => Live
    BY <1>3 DEF sendBlockEmpty, Live, Exhausted
  <2> QED  BY <1>1, <1>3, <2>1, <2>2 DEF sendBlockEmpty, timeline, link
<1>4. CASE sendBlock
  <2>1. (Packet(stamp, sequence)).timestamp = stamp /\ (Packet(stamp, sequence)).sequence = sequence
    BY DEF Packet
  <2> QED  BY <1>4, <2>1, SendBlockFacts
<1>5. CASE LoopSends
  BY <1>5 DEF LoopSends, Transmit, timeline
<1>6. CASE LoopEnds
  BY <1>1, <1>6 DEF LoopEnds, timeline, link
<1>7. CASE LoopCounts
  BY <1>7 DEF LoopCounts, link
<1>8. CASE LoopWakes
  BY <1>8 DEF LoopWakes, timeline, link
<1> QED  BY <1>2, <1>3, <1>4, <1>5, <1>6, <1>7, <1>8 DEF LoopNext

LEMMA StampStep == TypeOK /\ StampInv /\ [Next]_vars => StampInv'
<1> SUFFICES ASSUME TypeOK, StampInv, [Next]_vars PROVE StampInv'  OBVIOUS
<1>1. UNCHANGED source => Live' = Live
  BY DEF Live, Loaded, Exhausted
<1>2. CASE LoopNext
  BY <1>2, LoopStampStep
<1>3. ASSUME NEW c \in Callers, CallerNext(c) PROVE StampInv'
  <2>1. CASE play(c) \/ resumeAnchors(c)
    BY <2>1, AnchorKeeps DEF play, resumeAnchors, link
  <2>2. CASE stopStream(c)
    BY <2>2, QuietKeeps DEF stopStream, Live, Loaded, link
  <2>3. CASE playStarts(c) \/ pause(c) \/ resume(c) \/ stopStreamIdles(c)
    BY <1>1, <2>3, QuietKeeps DEF playStarts, pause, resume, stopStreamIdles, link
  <2> QED  BY <1>3, <2>1, <2>2, <2>3 DEF CallerNext
<1>4. CASE stop
  BY <1>1, <1>4, QuietKeeps DEF stop, link
<1>5. CASE stopJoins
  BY <1>5, QuietKeeps DEF stopJoins, Live, Loaded, link
<1>6. CASE Tick
  BY <1>1, <1>6, Counters, EngineConstants
     DEF Tick, StampInv, HeldInv, AheadOfWall, AheadOfClock, timeline, audio
<1>7. CASE PipeStalls \/ UNCHANGED vars
  BY <1>1, <1>7, QuietKeeps DEF PipeStalls, vars, link
<1> QED  BY <1>2, <1>3, <1>4, <1>5, <1>6, <1>7 DEF Next

(* The contract's count of datagrams.                                      *)
Sent == IF loop = "send" THEN sequence - 1 ELSE sequence

(* When a step is an Emit of the contract.                                 *)
LEMMA EmitBy ==
  ASSUME TypeOK, NEW ts \in Nat, latest <= ts, ts <= now + Lead,
         net' = net \union {Packet(ts, Sent)}, latest' = ts, Sent' = Sent + 1, UNCHANGED now
  PROVE  Sender!Emit
<1>1. ts \in latest..(now + Lead)
  BY Counters
<1> QED  BY <1>1 DEF Sender!Emit, Sent, Packet, Sender!Packet

LEMMA LoopSimulates ==
  ASSUME TypeOK, StampInv, LoopNext
  PROVE  Sender!Emit \/ UNCHANGED <<now, net, Sent, latest>>
<1>1. CASE sendBlock
  <2>1. loop = "read" /\ sequence' = sequence + 1 /\ UNCHANGED now
    BY <1>1, SendBlockFacts
  <2>2. CASE loop' = "send"
    BY <1>1, <2>1, <2>2, SendBlockFacts, Counters DEF Sent
  <2>3. CASE loop' # "send"
    <3>1. /\ net' = net \union {Packet(stamp, Sent)} /\ latest' = stamp /\ Sent' = Sent + 1
      BY <1>1, <2>1, <2>3, SendBlockFacts DEF Sent
    <3>2. latest <= stamp /\ stamp <= now + Lead
      BY <1>1, SendBlockFacts DEF StampInv, AheadOfClock
    <3> QED  BY <2>1, <3>1, <3>2, EmitBy, Counters
  <2> QED  BY <2>2, <2>3
<1>2. CASE LoopSends
  <2>1. held = Packet(held.timestamp, Sent)
    BY <1>2 DEF LoopSends, StampInv, HeldInv, Sent, Packet, TypeOK, Packets
  <2>2. Sent' = Sent + 1
    BY <1>2, Counters DEF LoopSends, StampInv, HeldInv, Sent
  <2> QED  BY <1>2, <2>1, <2>2, EmitBy, Counters DEF LoopSends, Transmit, StampInv, HeldInv
<1>3. CASE LoopChecks \/ sendBlockEmpty \/ LoopEnds \/ LoopCounts \/ LoopWakes
  BY <1>3 DEF LoopChecks, sendBlockEmpty, LoopEnds, LoopCounts, LoopWakes, Sent, link
<1> QED  BY <1>1, <1>2, <1>3 DEF LoopNext

LEMMA EngineSimulates ==
  TypeOK /\ StampInv /\ [Next]_vars => [Sender!Tick \/ Sender!Emit]_(Sender!senderVars)
<1> SUFFICES ASSUME TypeOK, StampInv, [Next]_vars
             PROVE  Sender!Tick \/ Sender!Emit \/ UNCHANGED <<now, net, Sent, latest>>
  BY DEF Sender!senderVars, Sent
<1>1. CASE LoopNext
  BY <1>1, LoopSimulates
<1>2. CASE \E c \in Callers : CallerNext(c)
  BY <1>2 DEF CallerNext, play, playStarts, pause, resume, resumeAnchors, stopStream,
              stopStreamIdles, audio, link, Sent
<1>3. CASE stop \/ stopJoins \/ PipeStalls \/ UNCHANGED vars
  BY <1>3 DEF stop, stopJoins, PipeStalls, vars, audio, link, Sent
<1>4. CASE Tick
  BY <1>4 DEF Tick, Sender!Tick, audio
<1> QED  BY <1>1, <1>2, <1>3, <1>4 DEF Next

(* AudioEngine implements SenderContract: although play() and resume()     *)
(* move wall_start_ and the timestamps without regard to where the audio   *)
(* thread is, it sends numbers without a gap, no timestamp before one that *)
(* was sent and none further ahead of the clock than lead_seconds.         *)
THEOREM KeepsContractHolds == Spec => KeepsContract
<1>1. Init => Sender!SenderInit
  BY DEF Init, Sender!SenderInit
<1> QED
  BY <1>1, EngineTypeCorrect, StampInit, StampStep, EngineSimulates, PTL
     DEF Spec, KeepsContract, Sender!SenderSpec
=============================================================================
