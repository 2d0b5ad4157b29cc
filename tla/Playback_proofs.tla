--------------------------- MODULE Playback_proofs ---------------------------
(***************************************************************************)
(* For every capacity, prefill, lead and target: the playback state is     *)
(* well typed, the buffer stays within its capacity, no packet is released *)
(* early except as EarlyOnlyWhenFull says, and no loss goes uncounted.     *)
(***************************************************************************)
EXTENDS Playback, FiniteSetTheorems, TLAPS

\* What a push into a buffer that is not overfull does to it.
LEMMA PushKeeps ==
  ASSUME TypeOK, NEW p \in Packets, push(p)
  PROVE  /\ queue' \in Seq(Packets) /\ Len(queue') <= Capacity
         /\ Len(queue') >= Len(queue) /\ (Full => Len(queue') >= Capacity)
         /\ (~Full /\ queue # <<>> => queue' # <<>> /\ Head(queue') = Head(queue))
         /\ metrics' \in [received : Nat, dropped : Nat, lost : Nat, underflows : Nat, last : Nat]
         /\ haveLast' \in BOOLEAN
<1> USE PlaybackConstants DEF TypeOK, Packets
<1>a. Gap(p) \in Nat /\ p.sequence \in Nat
  BY DEF Gap
<1>b. metrics' = [received |-> metrics.received + 1,
                  dropped |-> IF Full THEN metrics.dropped + 1 ELSE metrics.dropped,
                  lost |-> metrics.lost + Gap(p),
                  underflows |-> metrics.underflows,
                  last |-> IF Forward(p) THEN p.sequence ELSE metrics.last]
  BY DEF push
<1>c. metrics' \in [received : Nat, dropped : Nat, lost : Nat, underflows : Nat, last : Nat]
  BY <1>a, <1>b
<1>d. haveLast' \in BOOLEAN
  BY Zenon DEF push
<1>1. CASE Full
  <2>1. Len(queue) = Capacity /\ queue # <<>>
    BY <1>1 DEF Full
  <2>2. Tail(queue) \in Seq(Packets) /\ Len(Tail(queue)) = Len(queue) - 1
    BY <2>1
  <2>3. queue' = Append(Tail(queue), p)
    BY <1>1 DEF push
  <2>4. queue' \in Seq(Packets) /\ Len(queue') = Len(queue)
    BY <2>1, <2>2, <2>3
  <2> QED BY <1>1, <1>c, <1>d, <2>1, <2>4
<1>2. CASE ~Full
  <2>1. queue' = Append(queue, p)
    BY <1>2 DEF push
  <2>2. Len(queue) < Capacity
    BY <1>2 DEF Full
  <2>3. /\ Append(queue, p) \in Seq(Packets) /\ Append(queue, p) # <<>>
        /\ Len(Append(queue, p)) <= Capacity /\ Len(Append(queue, p)) >= Len(queue)
    <3>1. Append(queue, p) \in Seq(Packets) /\ Len(Append(queue, p)) = Len(queue) + 1
      OBVIOUS
    <3>2. Len(queue) + 1 <= Capacity /\ Len(queue) + 1 >= Len(queue)
      BY <2>2
    <3>3. Append(queue, p) # <<>>
      <4>1. Len(queue) + 1 # 0 /\ Len(<<>>) = 0
        OBVIOUS
      <4> QED BY <3>1, <4>1, Zenon
    <3> QED BY <3>1, <3>2, <3>3, Zenon
  <2>4. queue # <<>> => Head(Append(queue, p)) = Head(queue)
    OBVIOUS
  <2> QED BY <1>2, <1>c, <1>d, <2>2, <2>1, <2>3, <2>4
<1> QED BY <1>1, <1>2

\* The playback state is well typed and the jitter buffer never exceeds its
\* capacity: push() trims before it appends.
THEOREM PlaybackTypeCorrect == Spec => []TypeOK
<1>1. Init => TypeOK
  <2> SUFFICES ASSUME Init PROVE TypeOK
    OBVIOUS
  <2>1. queue \in Seq(Packets) /\ Len(queue) <= Capacity
    BY PlaybackConstants DEF Init
  <2>2. metrics \in [received : Nat, dropped : Nat, lost : Nat, underflows : Nat, last : Nat]
    BY DEF Init
  <2>3. haveLast \in BOOLEAN /\ started \in BOOLEAN /\ halting \in BOOLEAN
    BY Zenon DEF Init
  <2> QED BY <2>1, <2>2, <2>3, PlaybackConstants, SenderConstants
          DEF Init, SenderInit, TypeOK, PlayerLabels
<1>2. TypeOK /\ [Next]_vars => TypeOK'
  <2> SUFFICES ASSUME TypeOK, [Next]_vars PROVE TypeOK'
    OBVIOUS
  <2> USE PlaybackConstants, SenderConstants
  <2>1. CASE SenderNext
    <3>1. now' \in 0..MaxNow /\ sent' \in Nat /\ latest' \in Nat /\ net' \subseteq Packets
      <4>1. CASE Tick
        BY <4>1 DEF Tick, TypeOK
      <4>2. CASE Emit
        <5>1. PICK ts \in latest..(now + Lead) :
                net' = net \union {Packet(ts, sent)} /\ latest' = ts
          BY <4>2 DEF Emit
        <5>2. ts \in Nat /\ sent \in Nat /\ net \subseteq Packets
          BY DEF TypeOK
        <5>3. net' \subseteq Packets
          BY <5>1, <5>2 DEF Packet, Packets
        <5> QED BY <4>2, <5>1, <5>2, <5>3 DEF Emit, TypeOK
      <4> QED BY <2>1, <4>1, <4>2 DEF SenderNext
    <3> QED BY <2>1, <3>1 DEF SenderNext, TypeOK, buffer, thread, history
  <2>2. CASE onDatagram
    <3>1. PICK p \in net : Arrives(p) /\ push(p) /\ seen' = seen \union {p.sequence}
                           /\ first' = (IF seen = {} THEN p.sequence ELSE first)
                           /\ UNCHANGED <<thread, tone, now, sent, latest>>
      BY <2>2 DEF onDatagram
    <3>2. p \in Packets
      BY DEF TypeOK
    <3>3. net' \subseteq Packets /\ copies' \in 0..MaxCopies
      BY <3>1 DEF Arrives, TypeOK
    <3> QED BY <3>1, <3>2, <3>3, PushKeeps DEF TypeOK, thread, Packets
  <2>3. CASE toneStep
    <3>1. Packet(0, tone) \in Packets /\ push(Packet(0, tone))
      BY <2>3 DEF toneStep, Packet, Packets, TypeOK
    <3> QED BY <2>3, <3>1, PushKeeps DEF toneStep, TypeOK, thread, history, senderVars
  <2>4. CASE startPlayback \/ stopPlayback \/ closePlayback
    BY <2>4 DEF startPlayback, stopPlayback, closePlayback, TypeOK, PlayerLabels, buffer,
                history, senderVars
  <2>5. CASE stepGate \/ stepDue \/ stepValve
    BY <2>5 DEF stepGate, stepDue, stepValve, TypeOK, PlayerLabels, buffer, history, senderVars
  <2>6. CASE stepPeek
    <3>1. queue # <<>> => Head(queue) \in Packets
      BY DEF TypeOK
    <3> QED BY <2>6, <3>1 DEF stepPeek, TypeOK, PlayerLabels, Packets, buffer, history, senderVars
  <2>7. CASE stepPop
    <3>1. queue # <<>> => Tail(queue) \in Seq(Packets) /\ Len(Tail(queue)) <= Len(queue)
      BY DEF TypeOK
    <3>a. queue # <<>> => Len(Tail(queue)) <= Capacity
      BY <3>1 DEF TypeOK
    <3>b. queue' \in {queue, Tail(queue)} /\ (queue = <<>> => queue' = queue)
      BY <2>7 DEF stepPop
    <3>2. queue' \in Seq(Packets) /\ Len(queue') <= Capacity
      BY <3>1, <3>a, <3>b DEF TypeOK
    <3>c. metrics.underflows + 1 \in Nat
      BY DEF TypeOK
    <3>d. [metrics EXCEPT !.underflows = @ + 1]
            \in [received : Nat, dropped : Nat, lost : Nat, underflows : Nat, last : Nat]
      <4> DEFINE u == metrics.underflows + 1
      <4>1. u \in Nat /\ metrics \in [received : Nat, dropped : Nat, lost : Nat,
                                       underflows : Nat, last : Nat]
        BY <3>c DEF TypeOK
      <4> HIDE DEF u
      <4>2. [metrics EXCEPT !.underflows = u]
              \in [received : Nat, dropped : Nat, lost : Nat, underflows : Nat, last : Nat]
        BY <4>1
      <4> QED BY <4>2 DEF u
    <3>3. metrics' \in [received : Nat, dropped : Nat, lost : Nat, underflows : Nat, last : Nat]
      BY <2>7, <3>d, Zenon DEF stepPop, TypeOK
    <3>4. started' \in BOOLEAN
      BY <2>7, Zenon DEF stepPop, TypeOK
    <3> QED BY <2>7, <3>2, <3>3, <3>4 DEF stepPop, TypeOK, PlayerLabels, history, senderVars
  <2>8. CASE UNCHANGED vars
    BY <2>8 DEF vars, TypeOK, buffer, thread, history, senderVars
  <2> QED BY <2>1, <2>2, <2>3, <2>4, <2>5, <2>6, <2>7, <2>8 DEF Next, StepNext
<1> QED BY <1>1, <1>2, PTL DEF Spec

----------------------------------------------------------------------------

\* What the playback thread knows between its peek and its pop.  Either the
\* packet it looked at is still the oldest, or it was pushed out by overflow and
\* the buffer is full ever since; and it only goes on to pop if that packet was
\* due or the buffer nearly full.
Looked ==
  /\ player \in {"due", "full", "pop"}
       => \A ts \in peeked : Full \/ (queue # <<>> /\ Head(queue).timestamp = ts)
  /\ player = "pop" => nearlyFull \/ \A ts \in peeked : IsDue(ts)

\* Time only makes packets due.
LEMMA DueStays ==
  \A ts \in Nat, t \in Nat, n \in Nat, m \in Nat :
    0 <= n + t /\ (m >= n /\ ts <= n + t => ts <= m + t)
OBVIOUS

\* A push keeps what the thread knows.
LEMMA PushKeepsLooked ==
  ASSUME TypeOK, Looked, NEW p \in Packets, push(p), UNCHANGED <<player, peeked, now>>
  PROVE  Looked'
<1>1. /\ queue' \in Seq(Packets) /\ Len(queue') >= Len(queue)
      /\ (Full => Len(queue') >= Capacity)
      /\ (~Full /\ queue # <<>> => queue' # <<>> /\ Head(queue') = Head(queue))
  BY PushKeeps
<1>2. ASSUME player' \in {"due", "full", "pop"}, NEW ts \in peeked'
      PROVE  Full' \/ (queue' # <<>> /\ Head(queue').timestamp = ts)
  BY <1>1, <1>2 DEF Looked, Full
<1>3. ASSUME player' = "pop" PROVE nearlyFull' \/ \A ts \in peeked' : IsDue(ts)'
  <2>1. nearlyFull => nearlyFull'
    BY <1>1, PlaybackConstants DEF nearlyFull, TypeOK
  <2> QED BY <1>3, <2>1 DEF Looked, IsDue
<1> QED BY <1>2, <1>3 DEF Looked

\* Looked holds throughout: it is what makes three separately locked calls safe.
THEOREM LookedHolds == Spec => []Looked
<1>1. Init => Looked
  BY DEF Init, Looked
<1>2. TypeOK /\ Looked /\ [Next]_vars => Looked'
  <2> SUFFICES ASSUME TypeOK, Looked, [Next]_vars PROVE Looked'
    OBVIOUS
  <2> USE PlaybackConstants, SenderConstants
  <2>1. CASE SenderNext
    <3>1. now' \in Nat /\ now \in Nat /\ now' >= now /\ peeked \subseteq Nat
      BY <2>1 DEF SenderNext, Tick, Emit, TypeOK
    <3>2. UNCHANGED <<queue, player, peeked>>
      BY <2>1 DEF SenderNext, buffer, thread
    <3>3. \A ts \in peeked : IsDue(ts) => IsDue(ts)'
      <4> SUFFICES ASSUME NEW ts \in peeked, IsDue(ts) PROVE IsDue(ts)'
        OBVIOUS
      <4> QED BY <3>1, DueStays, Zenon DEF IsDue
    <3> QED BY <3>2, <3>3 DEF Looked, Full, nearlyFull
  <2>2. CASE onDatagram
    BY <2>2, PushKeepsLooked DEF onDatagram, thread, TypeOK
  <2>3. CASE toneStep
    <3>1. Packet(0, tone) \in Packets
      BY DEF Packet, Packets, TypeOK
    <3> QED BY <2>3, <3>1, PushKeepsLooked DEF toneStep, thread, senderVars
  <2>4. CASE startPlayback \/ closePlayback \/ stepGate \/ stepPop
    BY <2>4 DEF startPlayback, closePlayback, stepGate, stepPop, Looked
  <2>5. CASE stopPlayback
    BY <2>5 DEF stopPlayback, Looked, Full, nearlyFull, IsDue, buffer, senderVars
  <2>6. CASE stepPeek
    <3>1. CASE queue = <<>>
      BY <2>6, <3>1 DEF stepPeek, Looked
    <3>2. CASE queue # <<>>
      <4>1. queue' = queue /\ peeked' = {Head(queue).timestamp} /\ now' \in Nat
        BY <2>6, <3>2 DEF stepPeek, buffer, senderVars, TypeOK
      <4>2. player' = "pop" => peeked' = {0}
        BY <2>6, <4>1 DEF stepPeek
      <4>3. 0 <= now' + Target
        BY <4>1, DueStays, Zenon
      <4> QED BY <3>2, <4>1, <4>2, <4>3 DEF Looked, IsDue
    <3> QED BY <3>1, <3>2
  <2>7. CASE stepDue \/ stepValve
    BY <2>7 DEF stepDue, stepValve, Looked, Full, nearlyFull, IsDue, buffer, senderVars
  <2>8. CASE UNCHANGED vars
    BY <2>8 DEF vars, Looked, Full, nearlyFull, IsDue, buffer, thread, senderVars
  <2> QED BY <2>1, <2>2, <2>3, <2>4, <2>5, <2>6, <2>7, <2>8 DEF Next, StepNext
<1> QED BY <1>1, <1>2, PlaybackTypeCorrect, PTL DEF Spec

\* A packet leaves the jitter buffer before its time only if the buffer is
\* nearly full at that moment or step() saw it empty just before.
THEOREM EarlyOnlyWhenFullHolds == Spec => EarlyOnlyWhenFull
<1>1. TypeOK /\ Looked /\ [Next]_vars
        => [ (player = "pop" /\ queue # <<>> /\ player' # "pop")
               => IsDue(Head(queue).timestamp) \/ nearlyFull \/ peeked = {} ]_vars
  <2> SUFFICES ASSUME TypeOK, Looked, player = "pop", queue # <<>>, ~nearlyFull,
                      NEW ts \in peeked
               PROVE  IsDue(Head(queue).timestamp)
    OBVIOUS
  <2>1. ~Full
    BY PlaybackConstants DEF Full, nearlyFull, TypeOK
  <2> QED BY <2>1 DEF Looked
<1> QED BY <1>1, PlaybackTypeCorrect, LookedHolds, PTL DEF Spec, EarlyOnlyWhenFull
----------------------------------------------------------------------------

\* What is missing so far: numbers between the first and the highest that were
\* never pushed.
Missing == (first..metrics.last) \ seen

\* Before the identify tone, the highest number is one of those that were seen,
\* and what is missing below it was counted when it was jumped over.
LossInv ==
  tone = 0 =>
    /\ haveLast <=> seen # {}
    /\ haveLast => /\ first <= metrics.last
                   /\ Cardinality(Missing) <= metrics.lost

\* The numbers a forward jump passes over, added to the ones already missing.
LEMMA JumpMisses ==
  ASSUME NEW f \in Nat, NEW l \in Nat, NEW n \in Nat, NEW S, f <= l, l < n
  PROVE  /\ Cardinality((f..n) \ (S \union {n})) \in Nat
         /\ Cardinality((f..l) \ S) \in Nat
         /\ Cardinality((f..n) \ (S \union {n})) <= Cardinality((f..l) \ S) + (n - l - 1)
<1> DEFINE A == (f..l) \ S
           B == (l + 1)..(n - 1)
           D == (f..n) \ (S \union {n})
<1>1. IsFiniteSet(f..l) /\ IsFiniteSet(B) /\ Cardinality(B) = n - l - 1
  BY FS_Interval
<1>2. A \in SUBSET (f..l) /\ D \in SUBSET (A \union B)
  OBVIOUS
<1> HIDE DEF A, B, D
<1>3. IsFiniteSet(A)
  BY <1>1, <1>2, FS_Subset
<1>4. /\ IsFiniteSet(A \union B)
      /\ Cardinality(A \union B) = Cardinality(A) + Cardinality(B) - Cardinality(A \intersect B)
  BY <1>1, <1>3, FS_Union
<1>5. Cardinality(A) \in Nat
  BY <1>3, FS_CardinalityType
<1>6. IsFiniteSet(A \intersect B) /\ Cardinality(A \intersect B) \in Nat
  <2>1. A \intersect B \in SUBSET A
    OBVIOUS
  <2>2. IsFiniteSet(A \intersect B)
    BY <1>3, <2>1, FS_Subset
  <2> QED  BY <2>2, FS_CardinalityType
<1>7. IsFiniteSet(D) /\ Cardinality(D) <= Cardinality(A \union B)
  BY <1>2, <1>4, FS_Subset
<1>8. Cardinality(D) \in Nat
  BY <1>7, FS_CardinalityType
<1>9. Cardinality(D) <= Cardinality(A) + (n - l - 1)
  BY <1>1, <1>4, <1>5, <1>6, <1>7, <1>8
<1> QED  BY <1>5, <1>8, <1>9 DEF A, D

\* A late or repeated packet only fills a hole.
LEMMA LateFills ==
  ASSUME NEW f \in Nat, NEW l \in Nat, NEW n \in Nat, NEW S
  PROVE  /\ Cardinality((f..l) \ (S \union {n})) \in Nat /\ Cardinality((f..l) \ S) \in Nat
         /\ Cardinality((f..l) \ (S \union {n})) <= Cardinality((f..l) \ S)
<1> DEFINE A == (f..l) \ S
           D == (f..l) \ (S \union {n})
<1>1. IsFiniteSet(f..l)
  BY FS_Interval
<1>2. A \in SUBSET (f..l) /\ D \in SUBSET A
  OBVIOUS
<1> HIDE DEF A, D
<1>3. IsFiniteSet(A)
  BY <1>1, <1>2, FS_Subset
<1>4. IsFiniteSet(D) /\ Cardinality(D) <= Cardinality(A)
  BY <1>2, <1>3, FS_Subset
<1>5. Cardinality(A) \in Nat /\ Cardinality(D) \in Nat
  BY <1>3, <1>4, FS_CardinalityType
<1> QED  BY <1>4, <1>5 DEF A, D

\* A datagram: the first one, one that is ahead, one that is late.
LEMMA DatagramKeepsLoss ==
  ASSUME TypeOK, LossInv, onDatagram
  PROVE  LossInv'
<1> SUFFICES ASSUME tone' = 0
             PROVE  /\ haveLast' <=> seen' # {}
                    /\ haveLast' => first' <= metrics'.last
                                    /\ Cardinality(Missing') <= metrics'.lost
  BY DEF LossInv
<1>1. PICK p \in net : /\ push(p) /\ seen' = seen \union {p.sequence}
                       /\ first' = (IF seen = {} THEN p.sequence ELSE first)
                       /\ tone' = tone
  BY DEF onDatagram
<1>2. PICK n \in Nat : n = p.sequence
  BY DEF TypeOK, Packets
<1>3. /\ haveLast' = TRUE /\ metrics'.lost = metrics.lost + Gap(p)
      /\ metrics'.last = IF Forward(p) THEN n ELSE metrics.last
  BY <1>1, <1>2 DEF push, TypeOK
<1>4. /\ metrics.lost \in Nat /\ metrics.last \in Nat /\ first \in Nat /\ tone = 0
      /\ haveLast \in BOOLEAN
  BY <1>1 DEF TypeOK
<1>5. /\ haveLast <=> seen # {}
      /\ haveLast => first <= metrics.last /\ Cardinality(Missing) <= metrics.lost
  BY <1>4 DEF LossInv
<1>6. seen' # {} /\ haveLast'
  BY <1>1, <1>3
<1>7. CASE ~haveLast
  <2>1. first' = n /\ metrics'.last = n /\ metrics'.lost = metrics.lost /\ seen' = {n}
    BY <1>1, <1>2, <1>3, <1>4, <1>5, <1>7 DEF Forward, Gap
  <2>2. Missing' = {}
    BY <2>1 DEF Missing
  <2>3. Cardinality(Missing') = 0
    BY <2>2, FS_EmptySet
  <2> QED  BY <1>4, <1>6, <2>1, <2>3
<1>8. CASE haveLast /\ n > metrics.last
  <2>1. first' = first /\ metrics'.last = n /\ seen' = seen \union {n}
    BY <1>1, <1>2, <1>3, <1>5, <1>8 DEF Forward
  <2>2. metrics'.lost = metrics.lost + (n - metrics.last - 1)
    BY <1>2, <1>3, <1>4, <1>8 DEF Gap
  <2>3. /\ Cardinality((first..n) \ (seen \union {n})) \in Nat /\ Cardinality(Missing) \in Nat
        /\ Cardinality((first..n) \ (seen \union {n}))
             <= Cardinality(Missing) + (n - metrics.last - 1)
    BY <1>4, <1>5, <1>8, JumpMisses DEF Missing
  <2>4. Missing' = (first..n) \ (seen \union {n})
    BY <2>1 DEF Missing
  <2> QED  BY <1>4, <1>5, <1>6, <1>8, <2>1, <2>2, <2>3, <2>4
<1>9. CASE haveLast /\ n <= metrics.last
  <2>1. first' = first /\ metrics'.last = metrics.last /\ seen' = seen \union {n}
    BY <1>1, <1>2, <1>3, <1>4, <1>5, <1>9 DEF Forward
  <2>2. metrics'.lost = metrics.lost
    BY <1>2, <1>3, <1>4, <1>9 DEF Gap
  <2>3. /\ Cardinality((first..metrics.last) \ (seen \union {n})) \in Nat
        /\ Cardinality(Missing) \in Nat
        /\ Cardinality((first..metrics.last) \ (seen \union {n})) <= Cardinality(Missing)
    BY <1>4, LateFills DEF Missing
  <2>4. Missing' = (first..metrics.last) \ (seen \union {n})
    BY <2>1 DEF Missing
  <2> QED  BY <1>4, <1>5, <1>6, <1>9, <2>1, <2>2, <2>3, <2>4
<1> QED  BY <1>4, <1>7, <1>8, <1>9

\* Whatever the network drops, repeats or reorders, the numbers between the first
\* and the highest that never arrived are counted as lost (AudioBuffer::push).
THEOREM LossNeverUndercountedHolds == Spec => []LossNeverUndercounted
<1>1. Init => LossInv
  BY DEF Init, LossInv
<1>2. TypeOK /\ LossInv /\ [Next]_vars => LossInv'
  <2> SUFFICES ASSUME TypeOK, LossInv, [Next]_vars PROVE LossInv'
    OBVIOUS
  <2>1. ASSUME UNCHANGED <<tone, haveLast, seen, first>>, metrics'.last = metrics.last,
               metrics'.lost = metrics.lost
        PROVE  LossInv'
    <3>1. Missing' = Missing
      BY <2>1 DEF Missing
    <3> QED  BY <2>1, <3>1 DEF LossInv
  <2>2. CASE SenderNext
    BY <2>1, <2>2 DEF SenderNext, buffer, history
  <2>3. CASE onDatagram
    BY <2>3, DatagramKeepsLoss
  <2>4. CASE toneStep
    <3>1. tone' # 0
      BY <2>4, PlaybackConstants DEF toneStep, TypeOK
    <3> QED  BY <3>1 DEF LossInv
  <2>5. CASE startPlayback \/ stopPlayback \/ closePlayback
    BY <2>1, <2>5 DEF startPlayback, stopPlayback, closePlayback, buffer, history
  <2>6. CASE stepGate \/ stepPeek \/ stepDue \/ stepValve
    BY <2>1, <2>6 DEF stepGate, stepPeek, stepDue, stepValve, buffer, history
  <2>7. CASE stepPop
    <3>1. metrics'.last = metrics.last /\ metrics'.lost = metrics.lost
      BY <2>7 DEF stepPop, TypeOK
    <3> QED  BY <2>1, <2>7, <3>1 DEF stepPop, history
  <2>8. CASE UNCHANGED vars
    BY <2>1, <2>8 DEF vars, buffer, history
  <2> QED  BY <2>2, <2>3, <2>4, <2>5, <2>6, <2>7, <2>8 DEF Next, StepNext
<1>3. LossInv => LossNeverUndercounted
  BY DEF LossInv, LossNeverUndercounted, Missing
<1> QED  BY <1>1, <1>2, <1>3, PlaybackTypeCorrect, PTL DEF Spec
=============================================================================
