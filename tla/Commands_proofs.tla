--------------------------- MODULE Commands_proofs ---------------------------
(***************************************************************************)
(* Theorems about Commands, for any number of web threads and of clients   *)
(* beside the gateway, any settings, any length of the history and of the  *)
(* backlog, and however often requests and answers are lost or the speaker *)
(* restarts.                                                               *)
(***************************************************************************)
EXTENDS Commands, FiniteSetTheorems, SequenceTheorems, TLAPS

----------------------------------------------------------------------------
(* Answers.                                                                *)

LEMMA AnswerData ==
  ASSUME NEW a \in Answers
  PROVE  /\ a.ok \in BOOLEAN
         /\ DOMAIN a.data \subseteq Keys /\ \A k \in DOMAIN a.data : a.data[k] \in Values
BY DEF Answers

LEMMA AnswerIntro ==
  ASSUME NEW ok \in BOOLEAN, NEW D \in SUBSET Keys, NEW d \in [D -> Values]
  PROVE  [ok |-> ok, data |-> d] \in Answers
BY DEF Answers

LEMMA FailedAnswer == Failed \in Answers /\ ~Failed.ok /\ DOMAIN Failed.data = {}
<1>1. NoData \in [{} -> Values] /\ DOMAIN NoData = {}
  BY DEF NoData
<1>2. Failed \in Answers
  BY <1>1, AnswerIntro DEF Failed
<1>3. ~Failed.ok /\ Failed.data = NoData
  BY DEF Failed
<1> QED  BY <1>1, <1>2, <1>3

LEMMA ClampInRange == ASSUME NEW v \in Int PROVE Clamp(v) \in Values
BY CommandsAssumption DEF Clamp, Values

LEMMA CommandFields ==
  ASSUME NEW c \in Commands
  PROVE  /\ c.name \in {"SET", "DEFERRED", "GET_STATUS", "REPORT_LINK", "UNKNOWN"}
         /\ c.name = "SET" => c.key \in Keys /\ c.value \in Requested
BY DEF Commands, SettingCommands, Relayed, Plain

(* What execute() answers: the value it applied, the settings, or nothing. *)
LEMMA ReplyFacts ==
  ASSUME cfg \in [Keys -> Values], NEW c \in Commands
  PROVE  /\ Reply(c) \in Answers
         /\ Accepted(c) => /\ c.key \in Keys /\ Applied(c) \in Values
                           /\ DOMAIN Reply(c).data = {c.key}
                           /\ Reply(c).data[c.key] = Applied(c)
         /\ ~Accepted(c) => \A k \in DOMAIN Reply(c).data : Reply(c).data[k] = cfg[k]
<1>1. CASE c.name = "SET" /\ Accepted(c)
  <2>1. Reply(c) = [ok |-> TRUE, data |-> [k \in {c.key} |-> Applied(c)]]
    BY <1>1 DEF Reply
  <2>2. c.key \in Keys /\ Applied(c) \in Values
    BY <1>1, CommandFields DEF Accepted
  <2>3. [k \in {c.key} |-> Applied(c)] \in [{c.key} -> Values]
    BY <2>2
  <2>4. Reply(c) \in Answers
    BY <2>1, <2>2, <2>3, AnswerIntro
  <2> QED  BY <1>1, <2>1, <2>2, <2>4
<1>2. CASE c.name = "SET" /\ ~Accepted(c)
  BY <1>2, FailedAnswer DEF Reply
<1>3. CASE c.name = "GET_STATUS"
  <2>1. Reply(c) = [ok |-> TRUE, data |-> cfg]
    BY <1>3 DEF Reply, Status
  <2>2. Reply(c) \in Answers
    BY <2>1, AnswerIntro
  <2> QED  BY <1>3, <2>1, <2>2 DEF Accepted
<1>4. CASE c.name \in {"DEFERRED", "REPORT_LINK"}
  <2>1. Reply(c) = [ok |-> TRUE, data |-> NoData]
    BY <1>4 DEF Reply
  <2>2. NoData \in [{} -> Values]
    BY DEF NoData
  <2>3. Reply(c) \in Answers
    BY <2>1, <2>2, AnswerIntro
  <2> QED  BY <1>4, <2>1, <2>2, <2>3 DEF Accepted
<1>5. CASE c.name = "UNKNOWN"
  BY <1>5, FailedAnswer DEF Reply, Accepted
<1> QED  BY <1>1, <1>2, <1>3, <1>4, <1>5, CommandFields

----------------------------------------------------------------------------
(* Threads.                                                                *)

LEMMA IdleFacts ==
  /\ IdleThread \in ThreadStates
  /\ IdleThread.pc = "idle" /\ IdleThread.id = 0 /\ ~IdleThread.lost
  /\ IdleThread.answer = Failed /\ IdleThread.runs = 0 /\ IdleThread.since = 0
BY FailedAnswer, CommandsAssumption DEF IdleThread, ThreadStates

(* The end of a request: only its own thread changes, and neither how      *)
(* often the command ran nor what was recorded since.                      *)
LEMMA EndedFacts ==
  ASSUME NEW th \in [Threads -> ThreadStates], NEW t \in Threads,
         NEW lost \in BOOLEAN, NEW answer \in Answers,
         NEW e, e = Ended(th, t, lost, answer)
  PROVE  /\ e \in [Threads -> ThreadStates]
         /\ \A s \in Threads \ {t} : e[s] = th[s]
         /\ t = Reporter => e[t] = IdleThread
         /\ t # Reporter => /\ e[t].pc = "observing" /\ e[t].lost = lost
                            /\ e[t].answer = answer
                            /\ e[t].id = (IF t \in Outside THEN th[t].id ELSE 0)
                            /\ e[t].runs = th[t].runs /\ e[t].since = th[t].since
<1>1. CASE t = Reporter
  BY <1>1, IdleFacts DEF Ended
<1>2. CASE t # Reporter
  BY <1>2 DEF Ended, ThreadStates
<1> QED  BY <1>1, <1>2

(* A request whose answer is lost.                                         *)
Lost(th, t) == Ended(th, t, TRUE, Failed)

LEMMA LostFacts ==
  ASSUME NEW th \in [Threads -> ThreadStates], NEW t \in Threads, NEW e, e = Lost(th, t)
  PROVE  /\ e \in [Threads -> ThreadStates]
         /\ \A s \in Threads \ {t} : e[s] = th[s]
         /\ t = Reporter => e[t] = IdleThread
         /\ t # Reporter => /\ e[t].pc = "observing" /\ e[t].answer = Failed
                            /\ e[t].id = (IF t \in Outside THEN th[t].id ELSE 0)
                            /\ e[t].runs = th[t].runs /\ e[t].since = th[t].since
<1>1. CASE t = Reporter
  BY <1>1, IdleFacts DEF Lost, Ended
<1>2. CASE t # Reporter
  <2>1. /\ \A s \in Threads \ {t} : e[s] = th[s]
        /\ e[t].pc = "observing" /\ e[t].answer = Failed
        /\ e[t].id = (IF t \in Outside THEN th[t].id ELSE 0)
        /\ e[t].runs = th[t].runs /\ e[t].since = th[t].since
    BY <1>2 DEF Lost, Ended, ThreadStates
  <2>2. e \in [Threads -> ThreadStates]
    <3>1. ASSUME NEW lost \in BOOLEAN
          PROVE  Ended(th, t, lost, Failed) \in [Threads -> ThreadStates]
      BY FailedAnswer, EndedFacts
    <3> QED  BY <3>1, Zenon DEF Lost
  <2> QED  BY <1>2, <2>1, <2>2
<1> QED  BY <1>1, <1>2

(* An execution: the threads whose command it is count a run, and clients  *)
(* that may repeat theirs count the record of another.                     *)
LEMMA RanFacts ==
  ASSUME NEW th \in [Threads -> ThreadStates], NEW r \in Requests,
         NEW e, e = Ran(th, r)
  PROVE  /\ e \in [Threads -> ThreadStates]
         /\ \A t \in Threads :
              /\ e[t].pc = th[t].pc /\ e[t].id = th[t].id /\ e[t].lost = th[t].lost
              /\ e[t].answer = th[t].answer
              /\ e[t].runs = (IF th[t].id # r.id THEN th[t].runs
                              ELSE IF th[t].runs < 2 THEN th[t].runs + 1 ELSE 2)
              /\ e[t].since =
                   (IF /\ th[t].id # r.id /\ t \in Outside /\ th[t].runs > 0
                       /\ r.cmd.name # "REPORT_LINK" /\ th[t].since < Capacity
                    THEN th[t].since + 1 ELSE th[t].since)
<1>1. e = [t \in Threads |-> e[t]]
  BY DEF Ran
<1>2. ASSUME NEW t \in Threads
      PROVE  /\ e[t] \in ThreadStates
             /\ e[t].pc = th[t].pc /\ e[t].id = th[t].id /\ e[t].lost = th[t].lost
             /\ e[t].answer = th[t].answer
             /\ e[t].runs = (IF th[t].id # r.id THEN th[t].runs
                             ELSE IF th[t].runs < 2 THEN th[t].runs + 1 ELSE 2)
             /\ e[t].since =
                  (IF /\ th[t].id # r.id /\ t \in Outside /\ th[t].runs > 0
                      /\ r.cmd.name # "REPORT_LINK" /\ th[t].since < Capacity
                   THEN th[t].since + 1 ELSE th[t].since)
  <2>1. th[t] \in ThreadStates /\ Capacity \in Nat
    BY CommandsAssumption
  <2>2. CASE th[t].id = r.id
    <3>1. e[t] = [th[t] EXCEPT !.runs = IF th[t].runs < 2 THEN th[t].runs + 1 ELSE 2]
      BY <2>2 DEF Ran
    <3> QED  BY <2>1, <2>2, <3>1 DEF ThreadStates
  <2>3. CASE /\ th[t].id # r.id /\ t \in Outside /\ th[t].runs > 0
             /\ r.cmd.name # "REPORT_LINK" /\ th[t].since < Capacity
    <3>1. e[t] = [th[t] EXCEPT !.since = th[t].since + 1]
      BY <2>3 DEF Ran
    <3> QED  BY <2>1, <2>3, <3>1 DEF ThreadStates
  <2>4. CASE /\ th[t].id # r.id
             /\ ~(/\ t \in Outside /\ th[t].runs > 0
                  /\ r.cmd.name # "REPORT_LINK" /\ th[t].since < Capacity)
    <3>1. e[t] = th[t]
      BY <2>4 DEF Ran
    <3> QED  BY <2>1, <2>4, <3>1
  <2> QED  BY <2>2, <2>3, <2>4
<1> QED  BY <1>1, <1>2
(* An answer reaches the thread that waits for it, or nobody.              *)
Waits(th, r) == th[r.from].pc = "awaiting" /\ th[r.from].id = r.id

LEMMA DeliveredFacts ==
  ASSUME NEW th \in [Threads -> ThreadStates], NEW r \in Requests,
         NEW lost \in BOOLEAN, NEW answer \in Answers,
         NEW e, e = Delivered(th, r, lost, answer)
  PROVE  /\ e \in [Threads -> ThreadStates]
         /\ \A s \in Threads \ {r.from} : e[s] = th[s]
         /\ ~Waits(th, r) => e = th
         /\ Waits(th, r) /\ r.from = Reporter => e[r.from] = IdleThread
         /\ Waits(th, r) /\ r.from # Reporter =>
              /\ e[r.from].pc = "observing" /\ e[r.from].lost = lost
              /\ e[r.from].answer = (IF lost THEN Failed ELSE answer)
              /\ e[r.from].id = (IF r.from \in Outside THEN r.id ELSE 0)
              /\ e[r.from].runs = th[r.from].runs /\ e[r.from].since = th[r.from].since
<1>1. r.from \in Threads
  BY DEF Requests
<1>2. CASE Waits(th, r)
  <2> DEFINE a == IF lost THEN Failed ELSE answer
  <2>1. e = Ended(th, r.from, lost, a)
    BY <1>2 DEF Delivered, Waits
  <2>2. a \in Answers
    BY FailedAnswer
  <2> HIDE DEF a
  <2>3. /\ e \in [Threads -> ThreadStates]
        /\ \A s \in Threads \ {r.from} : e[s] = th[s]
        /\ r.from = Reporter => e[r.from] = IdleThread
        /\ r.from # Reporter =>
              /\ e[r.from].pc = "observing" /\ e[r.from].lost = lost
              /\ e[r.from].answer = a
              /\ e[r.from].id = (IF r.from \in Outside THEN th[r.from].id ELSE 0)
              /\ e[r.from].runs = th[r.from].runs /\ e[r.from].since = th[r.from].since
    BY <1>1, <2>1, <2>2, EndedFacts
  <2> QED  BY <1>2, <2>3 DEF a, Waits
<1>3. CASE ~Waits(th, r)
  BY <1>3 DEF Delivered, Waits
<1> QED  BY <1>2, <1>3

----------------------------------------------------------------------------
(* Identifiers.                                                            *)

LEMMA FiniteImage ==
  ASSUME NEW S, IsFiniteSet(S), NEW f PROVE IsFiniteSet({f[x] : x \in S})
<1> DEFINE T == {f[x] : x \in S}
           g == [x \in S |-> f[x]]
<1>1. g \in Surjection(S, T)
  BY DEF Surjection
<1> QED  BY <1>1, FS_Surjection

LEMMA RememberedFinite ==
  ASSUME TypeOK PROVE IsFiniteSet(Remembered)
<1>1. IsFiniteSet(Threads)
  <2>1. IsFiniteSet({Monitor, Reporter})
    <3>1. IsFiniteSet({Monitor}) /\ IsFiniteSet({Reporter})
      BY FS_Singleton
    <3>2. IsFiniteSet({Monitor} \union {Reporter})
      BY <3>1, FS_Union
    <3>3. {Monitor} \union {Reporter} = {Monitor, Reporter}
      OBVIOUS
    <3> QED  BY <3>2, <3>3
  <2>2. IsFiniteSet(Users \union Outside)
    BY ThreadNames, FS_Union
  <2> QED  BY <2>1, <2>2, FS_Union DEF Threads
<1>2. IsFiniteSet({thr[t].id : t \in Threads})
  <2> DEFINE f == [t \in Threads |-> thr[t].id]
  <2>1. IsFiniteSet({f[t] : t \in Threads})
    <3> HIDE DEF f
    <3> QED  BY <1>1, FiniteImage
  <2>2. {f[t] : t \in Threads} = {thr[t].id : t \in Threads}
    OBVIOUS
  <2> QED  BY <2>1, <2>2
<1>3. ASSUME NEW R, NEW q \in Seq(R) PROVE IsFiniteSet({q[i].id : i \in DOMAIN q})
  <2> DEFINE f == [i \in DOMAIN q |-> q[i].id]
  <2>1. IsFiniteSet(DOMAIN q)
    BY <1>3, LenProperties, FS_Interval
  <2>2. IsFiniteSet({f[i] : i \in DOMAIN q})
    <3> HIDE DEF f
    <3> QED  BY <2>1, FiniteImage
  <2>3. {f[i] : i \in DOMAIN q} = {q[i].id : i \in DOMAIN q}
    OBVIOUS
  <2> QED  BY <2>2, <2>3
<1>4. IsFiniteSet({backlog[i].id : i \in DOMAIN backlog})
  BY <1>3 DEF TypeOK
<1>5. IsFiniteSet({hist[i].id : i \in DOMAIN hist})
  BY <1>3 DEF TypeOK
<1>6. IsFiniteSet({thr[t].id : t \in Threads} \union {backlog[i].id : i \in DOMAIN backlog})
  BY <1>2, <1>4, FS_Union
<1> QED  BY <1>5, <1>6, FS_Union DEF Remembered

(* A client never runs out of ids: there are more of them than are         *)
(* remembered anywhere.                                                    *)
LEMMA FreshId ==
  ASSUME TypeOK, NEW t \in Threads
  PROVE  nextCommandId(t) \in Nat \ {0} /\ nextCommandId(t) \notin Remembered
<1> DEFINE c == Cardinality(Remembered)
           g == [n \in 1..(c + 1) |-> IF t \in Gateway THEN 2 * n ELSE 2 * n - 1]
<1>1. IsFiniteSet(Remembered) /\ c \in Nat
  BY RememberedFinite, FS_CardinalityType
<1>2. \A n \in 1..(c + 1) : g[n] \in Named(t)
  <2> SUFFICES ASSUME NEW n \in 1..(c + 1) PROVE g[n] \in Named(t)  OBVIOUS
  <2> HIDE DEF c
  <2>1. CASE t \in Gateway
    BY <1>1, <2>1 DEF Named, c
  <2>2. CASE t \notin Gateway
    BY <1>1, <2>2 DEF Named, c
  <2> QED  BY <2>1, <2>2
<1>3. \E n \in Named(t) : n \notin Remembered
  <2> SUFFICES ASSUME \A n \in Named(t) : n \in Remembered PROVE FALSE  OBVIOUS
  <2>1. g \in [1..(c + 1) -> Remembered]
    BY <1>2
  <2>2. \A m, n \in 1..(c + 1) : g[m] = g[n] => m = n
    BY <1>1
  <2>3. g \in Injection(1..(c + 1), Remembered)
    BY <2>1, <2>2 DEF Injection, IsInjective
  <2>4. Cardinality(1..(c + 1)) <= c
    BY <1>1, <2>3, FS_Injection
  <2>5. Cardinality(1..(c + 1)) = c + 1
    BY <1>1, FS_Interval
  <2> QED  BY <1>1, <2>4, <2>5
<1>4. nextCommandId(t) \in Named(t) /\ nextCommandId(t) \notin Remembered
  BY <1>3 DEF nextCommandId
<1> QED  BY <1>4 DEF Named
----------------------------------------------------------------------------
(* Type correctness.                                                       *)

(* record() adds the entry, with everything one place nearer to the end of *)
(* the history, and drops the oldest when it is full.                      *)
Recorded(h, x, q) ==
  \/ /\ Len(h) < Capacity /\ Len(q) = Len(h) + 1 /\ q[Len(h) + 1] = x
     /\ \A i \in 1..Len(h) : q[i] = h[i]
  \/ /\ Len(h) = Capacity /\ Len(q) = Len(h) /\ q[Len(h)] = x
     /\ \A i \in 1..(Len(h) - 1) : q[i] = h[i + 1]

LEMMA RecordCases ==
  ASSUME NEW h \in Seq(Entries), Len(h) <= Capacity, NEW x \in Entries,
         NEW q, q = record(h, x)
  PROVE  q \in Seq(Entries) /\ Recorded(h, x, q)
<1> USE CommandsAssumption DEF Recorded
<1>1. Len(h) \in Nat /\ Capacity \in Nat \ {0}
  OBVIOUS
<1>2. CASE Len(h) < Capacity
  <2>1. q = Append(h, x)
    BY <1>1, <1>2 DEF record
  <2> QED  BY <1>2, <2>1, AppendProperties
<1>3. CASE ~(Len(h) < Capacity)
  <2>1. Len(h) = Capacity /\ h # <<>>
    BY <1>1, <1>3, EmptySeq
  <2>2. q = Append(Tail(h), x)
    BY <1>1, <2>1 DEF record
  <2>3. /\ Tail(h) \in Seq(Entries) /\ Len(Tail(h)) = Len(h) - 1
        /\ \A i \in 1..Len(Tail(h)) : Tail(h)[i] = h[i + 1]
    BY <2>1, HeadTailProperties
  <2>4. /\ q \in Seq(Entries) /\ Len(q) = Len(h) /\ q[Len(h)] = x
        /\ \A i \in 1..(Len(h) - 1) : q[i] = h[i + 1]
    BY <1>1, <2>2, <2>3, AppendProperties
  <2> QED  BY <2>1, <2>4
<1> QED  BY <1>2, <1>3

LEMMA RecordLast ==
  ASSUME NEW h \in Seq(Entries), Len(h) <= Capacity, NEW x \in Entries,
         NEW q, q = record(h, x)
  PROVE  q \in Seq(Entries) /\ Len(q) <= Capacity /\ Len(q) >= 1 /\ q[Len(q)] = x
<1>1. Len(h) \in Nat /\ Capacity \in Nat \ {0}
  BY CommandsAssumption
<1>2. q \in Seq(Entries) /\ Recorded(h, x, q)
  BY RecordCases
<1> QED  BY <1>1, <1>2 DEF Recorded

LEMMA RecordOld ==
  ASSUME NEW h \in Seq(Entries), Len(h) <= Capacity, NEW x \in Entries,
         NEW q, Recorded(h, x, q), NEW i \in 1..Len(q), i # Len(q)
  PROVE  \E j \in 1..Len(h) : q[i] = h[j]
<1>1. Len(h) \in Nat
  OBVIOUS
<1>2. CASE Len(q) = Len(h) + 1 /\ \A n \in 1..Len(h) : q[n] = h[n]
  <2>1. i \in 1..Len(h)
    BY <1>1, <1>2
  <2> QED  BY <1>2, <2>1
<1>3. CASE Len(q) = Len(h) /\ \A n \in 1..(Len(h) - 1) : q[n] = h[n + 1]
  <2>1. i \in 1..(Len(h) - 1) /\ i + 1 \in 1..Len(h)
    BY <1>1, <1>3
  <2> QED  BY <1>3, <2>1
<1> QED  BY <1>2, <1>3 DEF Recorded

Deeper(h, q, j) == \E i \in 1..Len(q) : q[i] = h[j] /\ Len(q) - i = Len(h) - j + 1

LEMMA RecordShift ==
  ASSUME NEW h \in Seq(Entries), Len(h) <= Capacity, NEW x \in Entries,
         NEW q, Recorded(h, x, q), NEW j \in 1..Len(h), j > 1 \/ Len(h) < Capacity
  PROVE  Deeper(h, q, j)
<1> USE DEF Deeper
<1>1. Len(h) \in Nat /\ Capacity \in Nat
  BY CommandsAssumption
<1>2. CASE Len(q) = Len(h) + 1 /\ \A n \in 1..Len(h) : q[n] = h[n]
  <2>1. j \in 1..Len(q) /\ Len(q) - j = Len(h) - j + 1
    BY <1>1, <1>2
  <2> QED  BY <1>2, <2>1
<1>3. CASE Len(h) = Capacity /\ Len(q) = Len(h) /\ \A n \in 1..(Len(h) - 1) : q[n] = h[n + 1]
  <2>1. j - 1 \in 1..(Len(h) - 1) /\ j - 1 \in 1..Len(q) /\ (j - 1) + 1 = j
    BY <1>1, <1>3
  <2>2. Len(q) - (j - 1) = Len(h) - j + 1
    BY <1>1, <1>3
  <2>3. q[j - 1] = h[j]
    BY <1>3, <2>1
  <2> QED  BY <2>1, <2>2, <2>3
<1> QED  BY <1>2, <1>3 DEF Recorded

LEMMA BacklogHead ==
  ASSUME TypeOK, backlog # <<>>
  PROVE  /\ Head(backlog) \in Requests /\ Head(backlog) = backlog[1] /\ 1 \in DOMAIN backlog
         /\ Tail(backlog) \in Seq(Requests) /\ Len(Tail(backlog)) <= Backlog
         /\ \A i \in DOMAIN Tail(backlog) :
              \E j \in DOMAIN backlog : Tail(backlog)[i] = backlog[j]
<1>1. backlog \in Seq(Requests) /\ Len(backlog) \in Nat /\ Len(backlog) # 0
  BY EmptySeq DEF TypeOK
<1>2. /\ Head(backlog) \in Requests /\ Tail(backlog) \in Seq(Requests)
      /\ Len(Tail(backlog)) = Len(backlog) - 1
      /\ \A i \in 1..Len(Tail(backlog)) : Tail(backlog)[i] = backlog[i + 1]
  BY <1>1, HeadTailProperties
<1>3. DOMAIN backlog = 1..Len(backlog) /\ DOMAIN Tail(backlog) = 1..(Len(backlog) - 1)
  BY <1>1, <1>2, LenProperties
<1>4. Head(backlog) = backlog[1]
  BY <1>1
<1>5. \A i \in 1..(Len(backlog) - 1) : i + 1 \in 1..Len(backlog)
  BY <1>1
<1> QED  BY <1>1, <1>2, <1>3, <1>4, <1>5, CommandsAssumption DEF TypeOK
LEMMA StoreFacts ==
  ASSUME store \in Stores, NEW a \in Answers
  PROVE  /\ applyPollFailure(store) \in Stores
         /\ applyPollFailure(store).told = store.told
         /\ applyPollFailure(store).confirmed = store.confirmed
         /\ noteRejected(store) \in Stores
         /\ noteRejected(store).told = store.told
         /\ noteRejected(store).confirmed = store.confirmed
         /\ applyConfirmedStatus(store, a.data) \in Stores
         /\ applyConfirmedStatus(store, a.data).told = store.told \union DOMAIN a.data
         /\ \A k \in Keys : applyConfirmedStatus(store, a.data).confirmed[k] =
                              (IF k \in DOMAIN a.data THEN a.data[k] ELSE store.confirmed[k])
<1> USE CommandsAssumption
<1>1. /\ store.online \in BOOLEAN /\ store.failures \in 0..OfflineThreshold
      /\ store.confirmed \in [Keys -> Values] /\ store.told \in SUBSET Keys
  BY DEF Stores
<1>z. 0 \in 0..OfflineThreshold
  OBVIOUS
<1>2. ASSUME NEW b \in BOOLEAN, NEW n \in 0..OfflineThreshold, NEW f \in [Keys -> Values],
             NEW d \in SUBSET Keys
      PROVE  [online |-> b, failures |-> n, confirmed |-> f, told |-> d] \in Stores
  BY <1>2 DEF Stores
<1>3. ASSUME NEW q, q = applyPollFailure(store)
      PROVE  q \in Stores /\ q.told = store.told /\ q.confirmed = store.confirmed
  <2> DEFINE n == IF store.failures + 1 > OfflineThreshold THEN store.failures
                  ELSE store.failures + 1
             b == store.online /\ store.failures + 1 < OfflineThreshold
  <2>1. q = [online |-> b, failures |-> n, confirmed |-> store.confirmed, told |-> store.told]
    BY <1>3, Zenon DEF applyPollFailure, Stores
  <2>2. n \in 0..OfflineThreshold
    BY <1>1
  <2>3. b \in BOOLEAN
    BY <1>1, Zenon
  <2> HIDE DEF n, b
  <2>4. q \in Stores
    BY <1>1, <1>2, <2>1, <2>2, <2>3
  <2> QED  BY <2>1, <2>4
<1>4. ASSUME NEW q, q = noteRejected(store)
      PROVE  q \in Stores /\ q.told = store.told /\ q.confirmed = store.confirmed
  <2>1. q = [online |-> TRUE, failures |-> 0, confirmed |-> store.confirmed,
             told |-> store.told]
    BY <1>4, Zenon DEF noteRejected, Stores
  <2>2. q \in Stores
    BY <1>1, <1>z, <1>2, <2>1, Zenon
  <2> QED  BY <2>1, <2>2
<1>5. ASSUME NEW q, q = applyConfirmedStatus(store, a.data)
      PROVE  /\ q \in Stores /\ q.told = store.told \union DOMAIN a.data
             /\ \A k \in Keys : q.confirmed[k] =
                                  (IF k \in DOMAIN a.data THEN a.data[k] ELSE store.confirmed[k])
  <2> DEFINE f == [k \in Keys |-> IF k \in DOMAIN a.data THEN a.data[k] ELSE store.confirmed[k]]
             d == store.told \union DOMAIN a.data
  <2>1. f \in [Keys -> Values] /\ d \in SUBSET Keys
    BY <1>1, AnswerData
  <2>2. \A k \in Keys : f[k] = (IF k \in DOMAIN a.data THEN a.data[k] ELSE store.confirmed[k])
    OBVIOUS
  <2>3. q = [store EXCEPT !.online = TRUE, !.failures = 0, !.confirmed = f, !.told = d]
    BY <1>5 DEF applyConfirmedStatus
  <2> HIDE DEF f
  <2>4. q = [online |-> TRUE, failures |-> 0, confirmed |-> f, told |-> d]
    BY <2>3, Zenon DEF Stores
  <2>5. q \in Stores
    BY <1>z, <1>2, <2>1, <2>4, Zenon
  <2> QED  BY <2>2, <2>4, <2>5
<1> QED  BY <1>3, <1>4, <1>5

(* What every branch of CommandRouter::handle does to the gateway.         *)
LEMMA HandleType ==
  ASSUME TypeOK, backlog # <<>>, NEW th \in [Threads -> ThreadStates],
         NEW lost \in BOOLEAN, NEW answer \in Answers,
         thr' = Delivered(th, Head(backlog), lost, answer),
         mutex' = Unlocked(thr, Head(backlog)), backlog' = Tail(backlog)
  PROVE  /\ thr' \in [Threads -> ThreadStates] /\ mutex' \in Gateway \union {Nobody}
         /\ backlog' \in Seq(Requests) /\ Len(backlog') <= Backlog
<1>1. Head(backlog) \in Requests /\ Tail(backlog) \in Seq(Requests)
      /\ Len(Tail(backlog)) <= Backlog
  BY BacklogHead
<1>2. thr' \in [Threads -> ThreadStates]
  BY <1>1, DeliveredFacts
<1>3. mutex' \in Gateway \union {Nobody}
  BY DEF Unlocked, Released, TypeOK
<1> QED  BY <1>1, <1>2, <1>3

(* The history holds an answer of the right type for a repeated command.   *)
LEMMA PriorFacts ==
  ASSUME TypeOK, NEW r, Seen(r)
  PROVE  \E i \in DOMAIN hist : hist[i].id = r.id /\ Prior(r) = hist[i].answer
                                /\ Prior(r) \in Answers
<1>1. PICK j \in DOMAIN hist : hist[j].id = r.id
  BY DEF Seen
<1> DEFINE i == CHOOSE n \in DOMAIN hist : hist[n].id = r.id
<1>2. i \in DOMAIN hist /\ hist[i].id = r.id
  BY <1>1
<1>3. hist[i] \in Entries
  BY <1>2, LenProperties DEF TypeOK
<1> QED  BY <1>2, <1>3 DEF Prior, Entries

LEMMA FaultType == ASSUME TypeOK, Fault PROVE faults' \in 0..MaxFaults
BY CommandsAssumption DEF Fault, TypeOK

LEMMA SentType ==
  ASSUME TypeOK, NEW t \in Threads, NEW n \in Nat \ {0}, NEW c \in Commands,
         Len(backlog) < Backlog,
         backlog' = Append(backlog, [from |-> t, id |-> n, cmd |-> c])
  PROVE  /\ backlog' \in Seq(Requests) /\ Len(backlog') <= Backlog
         /\ DOMAIN backlog = 1..Len(backlog) /\ DOMAIN backlog' = 1..(Len(backlog) + 1)
         /\ \A i \in DOMAIN backlog : backlog'[i] = backlog[i]
         /\ backlog'[Len(backlog) + 1] = [from |-> t, id |-> n, cmd |-> c]
<1>1. [from |-> t, id |-> n, cmd |-> c] \in Requests
  BY DEF Requests
<1>2. backlog \in Seq(Requests) /\ Len(backlog) \in Nat /\ Backlog \in Nat
  BY CommandsAssumption DEF TypeOK
<1>3. /\ backlog' \in Seq(Requests) /\ Len(backlog') = Len(backlog) + 1
      /\ \A i \in 1..Len(backlog) : backlog'[i] = backlog[i]
      /\ backlog'[Len(backlog) + 1] = [from |-> t, id |-> n, cmd |-> c]
  BY <1>1, <1>2, AppendProperties
<1>4. DOMAIN backlog = 1..Len(backlog) /\ DOMAIN backlog' = 1..(Len(backlog) + 1)
  BY <1>2, <1>3, LenProperties
<1> QED  BY <1>2, <1>3, <1>4

LEMMA RequestFacts ==
  ASSUME TypeOK, NEW t \in Threads, NEW c \in Commands, Request(t, c)
  PROVE  \E n \in Nat \ {0} :
           /\ n \notin Remembered /\ Len(backlog) < Backlog
           /\ backlog' = Append(backlog, [from |-> t, id |-> n, cmd |-> c])
           /\ thr' \in [Threads -> ThreadStates]
           /\ \A s \in Threads \ {t} : thr'[s] = thr[s]
           /\ thr'[t].pc = "awaiting" /\ thr'[t].id = n
           /\ thr'[t].answer = Failed /\ thr'[t].runs = 0 /\ thr'[t].since = 0
           /\ mutex' \in Gateway \union {Nobody}
           /\ UNCHANGED <<store, cfg, hist, link, held, faults>>
<1> DEFINE n == nextCommandId(t)
           x == [IdleThread EXCEPT !.pc = "awaiting", !.id = n]
<1>1. n \in Nat \ {0} /\ n \notin Remembered
  BY FreshId
<1>2. /\ thr' = [thr EXCEPT ![t] = x] /\ Len(backlog) < Backlog
      /\ backlog' = Append(backlog, [from |-> t, id |-> n, cmd |-> c])
      /\ mutex' = (IF t \in Gateway THEN t ELSE mutex)
      /\ UNCHANGED <<store, cfg, hist, link, held, faults>>
  BY Zenon DEF Request
<1> HIDE DEF n
<1>3. /\ x \in ThreadStates /\ x.pc = "awaiting" /\ x.id = n
      /\ x.answer = Failed /\ x.runs = 0 /\ x.since = 0
  BY <1>1, IdleFacts DEF ThreadStates
<1> HIDE DEF x
<1>4. /\ thr' \in [Threads -> ThreadStates] /\ thr'[t] = x
      /\ \A s \in Threads \ {t} : thr'[s] = thr[s]
  BY <1>2, <1>3 DEF TypeOK
<1>5. mutex' \in Gateway \union {Nobody}
  BY <1>2 DEF TypeOK
<1> QED  BY <1>1, <1>2, <1>3, <1>4, <1>5

LEMMA RestartFacts ==
  ASSUME TypeOK, Restart, NEW t \in Threads
  PROVE  /\ thr'[t] \in ThreadStates
         /\ thr[t].pc # "awaiting" =>
              /\ thr'[t].pc = thr[t].pc /\ thr'[t].lost = thr[t].lost
              /\ thr'[t].answer = thr[t].answer /\ thr'[t].id = thr[t].id
         /\ thr[t].pc = "awaiting" /\ t # Reporter =>
              /\ thr'[t].pc = "observing" /\ thr'[t].answer = Failed
              /\ thr'[t].id = (IF t \in Outside THEN thr[t].id ELSE 0)
         /\ thr[t].pc = "awaiting" /\ t = Reporter => thr'[t] = IdleThread
         /\ ~(thr[t].pc = "awaiting" /\ t = Reporter) =>
              /\ thr'[t].runs = thr[t].runs
              /\ thr'[t].since = (IF thr[t].runs > 0 THEN Capacity ELSE thr[t].since)
<1> DEFINE m == IF thr[t].runs > 0 THEN Capacity ELSE thr[t].since
<1>1. PICK th : th = [thr EXCEPT ![t].since = m]
  OBVIOUS
<1>2. /\ th \in [Threads -> ThreadStates]
      /\ th[t].pc = thr[t].pc /\ th[t].lost = thr[t].lost /\ th[t].id = thr[t].id
      /\ th[t].answer = thr[t].answer /\ th[t].runs = thr[t].runs /\ th[t].since = m
  <2>1. m \in 0..Capacity
    BY CommandsAssumption DEF TypeOK, ThreadStates
  <2> HIDE DEF m
  <2> QED  BY <1>1, <2>1 DEF TypeOK, ThreadStates
<1>3. thr'[t] = IF thr[t].pc = "awaiting" THEN Lost(th, t)[t] ELSE th[t]
  BY <1>1 DEF Restart, Lost
<1>4. CASE thr[t].pc # "awaiting"
  BY <1>2, <1>3, <1>4
<1>5. CASE thr[t].pc = "awaiting"
  <2>1. PICK e : e = Lost(th, t)
    OBVIOUS
  <2>2. /\ e \in [Threads -> ThreadStates]
        /\ t = Reporter => e[t] = IdleThread
        /\ t # Reporter => /\ e[t].pc = "observing" /\ e[t].answer = Failed
                           /\ e[t].id = (IF t \in Outside THEN th[t].id ELSE 0)
                           /\ e[t].runs = th[t].runs /\ e[t].since = th[t].since
    BY <1>2, <2>1, LostFacts
  <2>3. thr'[t] = e[t]
    BY <1>3, <1>5, <2>1
  <2> HIDE DEF m
  <2> QED  BY <1>2, <1>5, <2>2, <2>3 DEF m
<1> QED  BY <1>4, <1>5
LEMMA PlainCommands ==
  \A n \in {"DEFERRED", "GET_STATUS", "REPORT_LINK"} : Plain(n) \in Commands
BY DEF Commands, Relayed

(* The requests of a step: who sends what.                                 *)
Sends == \E t \in Threads, c \in Commands :
           Request(t, c) /\ (t \in Outside => c = Plain("DEFERRED"))

LEMMA SendsFacts ==
  ASSUME PollSpeaker \/ ReportLink \/ (\E u \in Users : SendToSpeaker(u))
         \/ (\E t \in Outside : SendOutside(t))
  PROVE  Sends
<1>1. Monitor \in Threads \ Outside /\ Reporter \in Threads \ Outside
  BY ThreadNames DEF Threads, Monitor, Reporter
<1>2. CASE PollSpeaker
  BY <1>1, <1>2, PlainCommands, Zenon DEF PollSpeaker, Sends
<1>3. CASE ReportLink
  BY <1>1, <1>3, PlainCommands, Zenon DEF ReportLink, Sends
<1>4. ASSUME NEW u \in Users, SendToSpeaker(u) PROVE Sends
  <2>1. u \in Threads \ Outside
    BY ThreadNames DEF Threads
  <2> QED  BY <1>4, <2>1, Zenon DEF SendToSpeaker, Sends
<1>5. ASSUME NEW t \in Outside, SendOutside(t) PROVE Sends
  <2>1. t \in Threads
    BY DEF Threads
  <2> QED  BY <1>5, <2>1, PlainCommands, Zenon DEF SendOutside, Sends
<1> QED  BY <1>2, <1>3, <1>4, <1>5

(* The branches of CommandRouter::handle in one form: what is answered,    *)
(* and whether the command was executed.                                   *)
Handles(r, lost, answer) ==
  /\ r = Head(backlog) /\ backlog # <<>> /\ backlog' = Tail(backlog)
  /\ thr' = Delivered(thr, r, lost, answer)
  /\ UNCHANGED <<store, cfg, hist, held>>

Executes(r, lost, answer) ==
  /\ r = Head(backlog) /\ backlog # <<>> /\ backlog' = Tail(backlog) /\ ~Seen(r)
  /\ thr' = Delivered(Ran(thr, r), r, lost, answer)
  /\ hist' = IF Kept(r.cmd) THEN record(hist, [id |-> r.id, answer |-> answer]) ELSE hist
  /\ UNCHANGED store

LEMMA HandleDuplicateFacts ==
  ASSUME TypeOK, NEW lost \in BOOLEAN, HandleDuplicate(lost)
  PROVE  /\ Handles(Head(backlog), lost, Prior(Head(backlog))) /\ Seen(Head(backlog))
         /\ mutex' = Unlocked(thr, Head(backlog)) /\ link' = link
         /\ faults' \in 0..MaxFaults
<1>1. /\ Handles(Head(backlog), lost, Prior(Head(backlog))) /\ Seen(Head(backlog))
      /\ mutex' = Unlocked(thr, Head(backlog)) /\ link' = link
      /\ Fault \/ UNCHANGED faults
  BY Zenon DEF HandleDuplicate, Handles
<1> QED  BY <1>1, FaultType DEF TypeOK

LEMMA HandleRejectedFacts ==
  ASSUME TypeOK, HandleRejected
  PROVE  \E lost \in BOOLEAN :
           /\ Handles(Head(backlog), lost, Failed)
           /\ mutex' = Unlocked(thr, Head(backlog)) /\ link' = link
           /\ faults' \in 0..MaxFaults
<1>1. \E lost \in BOOLEAN :
        /\ Handles(Head(backlog), lost, Failed)
        /\ mutex' = Unlocked(thr, Head(backlog)) /\ link' = link
        /\ Fault
  BY Zenon DEF HandleRejected, Handles
<1> QED  BY <1>1, FaultType

LEMMA HandleUnsavedFacts ==
  ASSUME TypeOK, HandleUnsaved
  PROVE  \E lost \in BOOLEAN :
           /\ Executes(Head(backlog), lost, Failed)
           /\ mutex' = Unlocked(thr, Head(backlog)) /\ link' = link
           /\ faults' \in 0..MaxFaults /\ UNCHANGED <<cfg, held>>
<1>1. \E lost \in BOOLEAN :
        /\ Head(backlog) = Head(backlog) /\ backlog # <<>> /\ backlog' = Tail(backlog)
        /\ ~Seen(Head(backlog)) /\ Accepted(Head(backlog).cmd)
        /\ thr' = Delivered(Ran(thr, Head(backlog)), Head(backlog), lost, Failed)
        /\ hist' = record(hist, [id |-> Head(backlog).id, answer |-> Failed])
        /\ UNCHANGED store
        /\ mutex' = Unlocked(thr, Head(backlog)) /\ link' = link
        /\ Fault /\ UNCHANGED <<cfg, held>>
  BY Zenon DEF HandleUnsaved
<1>2. Accepted(Head(backlog).cmd) => Kept(Head(backlog).cmd)
  BY DEF Accepted, Kept
<1> QED  BY <1>1, <1>2, FaultType DEF Executes

LEMMA HandleExecutedFacts ==
  ASSUME TypeOK, NEW lost \in BOOLEAN, HandleExecuted(lost)
  PROVE  LET r == Head(backlog)  c == r.cmd
         IN  /\ Executes(r, lost, Reply(c))
             /\ mutex' = Unlocked(thr, r) /\ link' = report(link, c)
             /\ faults' \in 0..MaxFaults
             /\ cfg' = (IF Accepted(c) THEN [cfg EXCEPT ![c.key] = Applied(c)] ELSE cfg)
             /\ held' = [k \in Keys |-> held[k] \union {cfg'[k]}]
<1> DEFINE r == Head(backlog)
           c == r.cmd
<1>1. /\ Executes(r, lost, Reply(c))
      /\ mutex' = Unlocked(thr, r) /\ link' = report(link, c)
      /\ Fault \/ UNCHANGED faults
      /\ cfg' = (IF Accepted(c) THEN [cfg EXCEPT ![c.key] = Applied(c)] ELSE cfg)
      /\ held' = [k \in Keys |-> held[k] \union {cfg'[k]}]
  BY Zenon DEF HandleExecuted, Executes
<1> QED  BY <1>1, FaultType DEF TypeOK
LEMMA HandlesType ==
  ASSUME TypeOK, NEW r, NEW lost \in BOOLEAN, NEW answer \in Answers,
         Handles(r, lost, answer), mutex' = Unlocked(thr, r), link' = link,
         faults' \in 0..MaxFaults
  PROVE  TypeOK'
<1>1. /\ thr' \in [Threads -> ThreadStates] /\ mutex' \in Gateway \union {Nobody}
      /\ backlog' \in Seq(Requests) /\ Len(backlog') <= Backlog
  <2>1. thr \in [Threads -> ThreadStates]
    BY DEF TypeOK
  <2> QED  BY <2>1, HandleType DEF Handles
<1> QED  BY <1>1 DEF TypeOK, Handles

LEMMA ExecutesType ==
  ASSUME TypeOK, NEW r, NEW lost \in BOOLEAN, NEW answer \in Answers,
         Executes(r, lost, answer), mutex' = Unlocked(thr, r)
  PROVE  /\ r \in Requests
         /\ thr' \in [Threads -> ThreadStates] /\ mutex' \in Gateway \union {Nobody}
         /\ backlog' \in Seq(Requests) /\ Len(backlog') <= Backlog
         /\ hist' \in Seq(Entries) /\ Len(hist') <= Capacity
<1>1. r \in Requests /\ r = Head(backlog) /\ backlog # <<>>
  BY BacklogHead DEF Executes
<1>2. Ran(thr, r) \in [Threads -> ThreadStates]
  BY <1>1, RanFacts DEF TypeOK
<1>3. /\ thr' \in [Threads -> ThreadStates] /\ mutex' \in Gateway \union {Nobody}
      /\ backlog' \in Seq(Requests) /\ Len(backlog') <= Backlog
  BY <1>1, <1>2, HandleType DEF Executes
<1>4. [id |-> r.id, answer |-> answer] \in Entries
  BY <1>1 DEF Requests, Entries
<1>5. hist' \in Seq(Entries) /\ Len(hist') <= Capacity
  <2>1. hist \in Seq(Entries) /\ Len(hist) <= Capacity
    BY DEF TypeOK
  <2>2. hist' = hist \/ hist' = record(hist, [id |-> r.id, answer |-> answer])
    BY DEF Executes
  <2> QED  BY <1>4, <2>1, <2>2, RecordLast
<1> QED  BY <1>1, <1>3, <1>5

(* The settings of the speaker stay legal, whatever is asked for.          *)
LEMMA AppliedType ==
  ASSUME TypeOK, NEW c \in Commands,
         cfg' = (IF Accepted(c) THEN [cfg EXCEPT ![c.key] = Applied(c)] ELSE cfg),
         held' = [k \in Keys |-> held[k] \union {cfg'[k]}]
  PROVE  /\ cfg' \in [Keys -> Values] /\ held' \in [Keys -> SUBSET Values]
         /\ \A k \in Keys : cfg'[k] \in held'[k] /\ held[k] \subseteq held'[k]
         /\ \A k \in DOMAIN Reply(c).data : k \in Keys /\ Reply(c).data[k] \in held'[k]
<1>1. cfg \in [Keys -> Values] /\ held \in [Keys -> SUBSET Values]
  BY DEF TypeOK
<1>2. /\ Reply(c) \in Answers
      /\ Accepted(c) => /\ c.key \in Keys /\ Applied(c) \in Values
                        /\ DOMAIN Reply(c).data = {c.key}
                        /\ Reply(c).data[c.key] = Applied(c)
      /\ ~Accepted(c) => \A k \in DOMAIN Reply(c).data : Reply(c).data[k] = cfg[k]
  BY <1>1, ReplyFacts
<1>3. cfg' \in [Keys -> Values]
  BY <1>1, <1>2
<1>4. \A k \in Keys : held'[k] = held[k] \union {cfg'[k]}
  OBVIOUS
<1>5. held' \in [Keys -> SUBSET Values]
  BY <1>1, <1>3
<1>6. DOMAIN Reply(c).data \subseteq Keys
  BY <1>2, AnswerData
<1>7. ASSUME NEW k \in DOMAIN Reply(c).data PROVE Reply(c).data[k] = cfg'[k]
  BY <1>1, <1>2, <1>6, <1>7
<1> QED  BY <1>3, <1>4, <1>5, <1>6, <1>7

(* A lost request, and a thread that is done.                              *)
LEMMA LosesType ==
  ASSUME TypeOK, NEW t \in Threads, ConnectFails(t) \/ Timeout(t)
  PROVE  TypeOK' /\ thr' = Lost(thr, t) /\ UNCHANGED <<store, backlog, cfg, hist, held>>
<1>1. /\ thr' = Lost(thr, t) /\ Fault /\ mutex' \in {mutex, Released(t)}
      /\ UNCHANGED <<store, backlog, cfg, hist, link, held>>
  BY Zenon DEF ConnectFails, Timeout, Lost
<1>2. thr' \in [Threads -> ThreadStates]
  BY <1>1, LostFacts DEF TypeOK
<1>3. mutex' \in Gateway \union {Nobody}
  BY <1>1 DEF Released, TypeOK
<1> QED  BY <1>1, <1>2, <1>3, FaultType DEF TypeOK

LEMMA ObserveFacts ==
  ASSUME TypeOK, NEW t \in Threads, Observe(t)
  PROVE  /\ thr' = [thr EXCEPT ![t] = IdleThread]
         /\ UNCHANGED <<mutex, backlog, cfg, hist, link, held, faults>>
         /\ store' \in Stores
         /\ \/ store'.told = store.told /\ store'.confirmed = store.confirmed
            \/ /\ store'.told = store.told \union DOMAIN thr[t].answer.data
               /\ \A k \in Keys : store'.confirmed[k] =
                    (IF k \in DOMAIN thr[t].answer.data THEN thr[t].answer.data[k]
                     ELSE store.confirmed[k])
<1>1. PICK a \in Answers : a = thr[t].answer
  BY DEF TypeOK, ThreadStates
<1>2. /\ thr' = [thr EXCEPT ![t] = IdleThread]
      /\ UNCHANGED <<mutex, backlog, cfg, hist, link, held, faults>>
      /\ \/ store' = applyPollFailure(store) \/ store' = noteRejected(store)
         \/ store' = applyConfirmedStatus(store, a.data)
  BY <1>1, Zenon DEF Observe
<1>3. store \in Stores
  BY DEF TypeOK
<1>4. \/ store' \in Stores /\ store'.told = store.told /\ store'.confirmed = store.confirmed
      \/ /\ store' \in Stores /\ store'.told = store.told \union DOMAIN a.data
         /\ \A k \in Keys : store'.confirmed[k] =
                              (IF k \in DOMAIN a.data THEN a.data[k] ELSE store.confirmed[k])
  BY <1>2, <1>3, StoreFacts
<1> QED  BY <1>1, <1>2, <1>4

LEMMA RetryFacts ==
  ASSUME TypeOK, NEW t \in Threads, Retry(t)
  PROVE  /\ t \in Outside /\ Len(backlog) < Backlog
         /\ backlog' = Append(backlog, [from |-> t, id |-> thr[t].id, cmd |-> Plain("DEFERRED")])
         /\ thr' \in [Threads -> ThreadStates]
         /\ \A s \in Threads \ {t} : thr'[s] = thr[s]
         /\ thr'[t].pc = "awaiting" /\ thr'[t].id = thr[t].id
         /\ thr'[t].answer = thr[t].answer /\ thr'[t].runs = thr[t].runs
         /\ thr'[t].since = thr[t].since
         /\ UNCHANGED <<mutex, store, cfg, hist, link, held, faults>>
<1>1. /\ t \in Outside /\ Len(backlog) < Backlog
      /\ backlog' = Append(backlog, [from |-> t, id |-> thr[t].id, cmd |-> Plain("DEFERRED")])
      /\ thr' = [thr EXCEPT ![t].pc = "awaiting"]
      /\ UNCHANGED <<mutex, store, cfg, hist, link, held, faults>>
  BY Zenon DEF Retry
<1>2. /\ thr' \in [Threads -> ThreadStates]
      /\ \A s \in Threads \ {t} : thr'[s] = thr[s]
      /\ thr'[t].pc = "awaiting" /\ thr'[t].id = thr[t].id
      /\ thr'[t].answer = thr[t].answer /\ thr'[t].runs = thr[t].runs
      /\ thr'[t].since = thr[t].since
  BY <1>1 DEF TypeOK, ThreadStates
<1> QED  BY <1>1, <1>2

(* Whose an id is: no two threads have the same, and a request that waits  *)
(* at the speaker under the id of a thread was sent by that thread.        *)
IdInv ==
  /\ \A s, t \in Threads : thr[s].id = thr[t].id /\ thr[t].id # 0 => s = t
  /\ \A t \in Threads, i \in DOMAIN backlog : backlog[i].id = thr[t].id => backlog[i].from = t
  /\ \A i \in DOMAIN backlog : backlog[i].from \in Outside => backlog[i].cmd = Plain("DEFERRED")
  /\ \A t \in Outside : thr[t].pc # "idle" => thr[t].id # 0

LEMMA CommandsTypeInit == Init => TypeOK
<1> SUFFICES ASSUME Init PROVE TypeOK  OBVIOUS
<1> USE CommandsAssumption
<1>1. thr \in [Threads -> ThreadStates] /\ mutex \in Gateway \union {Nobody}
  BY IdleFacts DEF Init
<1>2. store \in Stores
  <2>1. [k \in Keys |-> 0] \in [Keys -> Values]
    BY DEF Values
  <2>2. 0 \in 0..OfflineThreshold
    OBVIOUS
  <2> QED  BY <2>1, <2>2, Zenon DEF Init, Stores
<1>3. cfg \in [Keys -> Values]
  BY DEF Init, Values
<1>4. held \in [Keys -> SUBSET Values]
  BY <1>3 DEF Init
<1>5. backlog \in Seq(Requests) /\ Len(backlog) <= Backlog
      /\ hist \in Seq(Entries) /\ Len(hist) <= Capacity
  BY EmptySeq DEF Init
<1>6. link \in BOOLEAN
  BY Zenon DEF Init
<1>7. faults \in 0..MaxFaults
  BY DEF Init
<1> QED  BY <1>1, <1>2, <1>3, <1>4, <1>5, <1>6, <1>7 DEF TypeOK

LEMMA ServeType == ASSUME TypeOK, Serve PROVE TypeOK'
<1>1. ASSUME NEW lost \in BOOLEAN, HandleDuplicate(lost) PROVE TypeOK'
  BY <1>1, HandleDuplicateFacts, PriorFacts, HandlesType
<1>2. ASSUME NEW lost \in BOOLEAN, HandleExecuted(lost) PROVE TypeOK'
  <2> DEFINE r == Head(backlog)
             c == r.cmd
  <2>1. /\ Executes(r, lost, Reply(c))
        /\ mutex' = Unlocked(thr, r) /\ link' = report(link, c)
        /\ faults' \in 0..MaxFaults
        /\ cfg' = (IF Accepted(c) THEN [cfg EXCEPT ![c.key] = Applied(c)] ELSE cfg)
        /\ held' = [k \in Keys |-> held[k] \union {cfg'[k]}]
    BY <1>2, HandleExecutedFacts
  <2>2. r \in Requests /\ c \in Commands
    BY <2>1, BacklogHead DEF Executes, Requests
  <2>3. Reply(c) \in Answers
    BY <2>2, ReplyFacts DEF TypeOK
  <2> HIDE DEF r, c
  <2>4. cfg' \in [Keys -> Values] /\ held' \in [Keys -> SUBSET Values]
    BY <2>1, <2>2, AppliedType
  <2>5. link' \in BOOLEAN
    BY <2>1, Zenon DEF report, TypeOK
  <2>6. /\ thr' \in [Threads -> ThreadStates] /\ mutex' \in Gateway \union {Nobody}
        /\ backlog' \in Seq(Requests) /\ Len(backlog') <= Backlog
        /\ hist' \in Seq(Entries) /\ Len(hist') <= Capacity
    BY <2>1, <2>3, ExecutesType
  <2>7. store' = store
    BY <2>1 DEF Executes
  <2> QED  BY <2>1, <2>4, <2>5, <2>6, <2>7 DEF TypeOK
<1>3. CASE HandleRejected
  BY <1>3, HandleRejectedFacts, HandlesType, FailedAnswer
<1>4. CASE HandleUnsaved
  <2>1. PICK lost \in BOOLEAN :
           /\ Executes(Head(backlog), lost, Failed)
           /\ mutex' = Unlocked(thr, Head(backlog)) /\ link' = link
           /\ faults' \in 0..MaxFaults /\ UNCHANGED <<cfg, held>>
    BY <1>4, HandleUnsavedFacts
  <2>2. Failed \in Answers
    BY FailedAnswer
  <2>3. /\ thr' \in [Threads -> ThreadStates] /\ mutex' \in Gateway \union {Nobody}
        /\ backlog' \in Seq(Requests) /\ Len(backlog') <= Backlog
        /\ hist' \in Seq(Entries) /\ Len(hist') <= Capacity
    BY <2>1, <2>2, ExecutesType
  <2>4. store' = store
    BY <2>1 DEF Executes
  <2> QED  BY <2>1, <2>3, <2>4 DEF TypeOK
<1> QED  BY <1>1, <1>2, <1>3, <1>4 DEF Serve

LEMMA CommandsTypeStep == TypeOK /\ IdInv /\ [Next]_vars => TypeOK'
<1> SUFFICES ASSUME TypeOK, IdInv, [Next]_vars PROVE TypeOK'  OBVIOUS
<1>1. ASSUME Sends PROVE TypeOK'
  <2>1. PICK t \in Threads, c \in Commands : Request(t, c)
    BY <1>1 DEF Sends
  <2>2. PICK n \in Nat \ {0} :
           /\ Len(backlog) < Backlog
           /\ backlog' = Append(backlog, [from |-> t, id |-> n, cmd |-> c])
           /\ thr' \in [Threads -> ThreadStates]
           /\ mutex' \in Gateway \union {Nobody}
           /\ UNCHANGED <<store, cfg, hist, link, held, faults>>
    BY <2>1, RequestFacts
  <2>3. backlog' \in Seq(Requests) /\ Len(backlog') <= Backlog
    BY <2>2, SentType
  <2> QED  BY <2>2, <2>3 DEF TypeOK
<1>2. ASSUME NEW t \in Threads, ConnectFails(t) \/ Timeout(t) PROVE TypeOK'
  BY <1>2, LosesType
<1>3. ASSUME NEW t \in Threads, Observe(t) PROVE TypeOK'
  <2>1. thr' \in [Threads -> ThreadStates]
    BY <1>3, ObserveFacts, IdleFacts DEF TypeOK
  <2> QED  BY <1>3, <2>1, ObserveFacts DEF TypeOK
<1>4. ASSUME NEW t \in Threads, Retry(t) PROVE TypeOK'
  <2>1. thr[t].id \in Nat \ {0}
    BY <1>4 DEF Retry, IdInv, TypeOK, ThreadStates
  <2>2. backlog' \in Seq(Requests) /\ Len(backlog') <= Backlog
    BY <1>4, <2>1, RetryFacts, SentType, PlainCommands
  <2> QED  BY <1>4, <2>2, RetryFacts DEF TypeOK
<1>5. ASSUME NEW t \in Threads, GiveUp(t) PROVE TypeOK'
  BY <1>5, IdleFacts DEF GiveUp, TypeOK
<1>6. CASE Serve
  BY <1>6, ServeType
<1>7. ASSUME NEW k \in Keys, NEW v \in Values, LocalChange(k, v) PROVE TypeOK'
  BY <1>7 DEF LocalChange, TypeOK
<1>8. CASE Restart
  <2>1. thr' \in [Threads -> ThreadStates]
    <3>1. thr' = [t \in Threads |-> thr'[t]]
      BY <1>8 DEF Restart
    <3>2. \A t \in Threads : thr'[t] \in ThreadStates
      BY <1>8, RestartFacts
    <3> QED  BY <3>1, <3>2
  <2>2. /\ backlog' \in Seq(Requests) /\ Len(backlog') <= Backlog
        /\ hist' \in Seq(Entries) /\ Len(hist') <= Capacity
    BY <1>8, EmptySeq, CommandsAssumption DEF Restart
  <2>3. link' \in BOOLEAN
    BY <1>8, Zenon DEF Restart
  <2>4. mutex' \in Gateway \union {Nobody} /\ faults' \in 0..MaxFaults
        /\ UNCHANGED <<store, cfg, held>>
    BY <1>8, FaultType DEF Restart
  <2> QED  BY <2>1, <2>2, <2>3, <2>4 DEF TypeOK
<1>9. CASE UNCHANGED vars
  BY <1>9 DEF vars, TypeOK
<1> QED
  BY <1>1, <1>2, <1>3, <1>4, <1>5, <1>6, <1>7, <1>8, <1>9, SendsFacts DEF Next
----------------------------------------------------------------------------
(* Ids stay with their threads.                                            *)

(* A step that gives out no id.                                            *)
LEMMA IdShrinks ==
  ASSUME IdInv,
         \A t \in Threads : thr'[t].id \in {thr[t].id, 0},
         \A t \in Outside : thr'[t].pc # "idle" => thr[t].pc # "idle" /\ thr'[t].id = thr[t].id,
         \A i \in DOMAIN backlog' : \E j \in DOMAIN backlog : backlog'[i] = backlog[j],
         \A i \in DOMAIN backlog' : backlog'[i].id # 0
  PROVE  IdInv'
BY DEF IdInv

LEMMA NoZeroIds ==
  ASSUME TypeOK
  PROVE  /\ \A i \in DOMAIN backlog : backlog[i].id # 0
         /\ \A i \in DOMAIN hist : hist[i].id # 0 /\ hist[i] \in Entries
<1>1. \A i \in DOMAIN backlog : backlog[i] \in Requests
  BY LenProperties DEF TypeOK
<1>2. \A i \in DOMAIN hist : hist[i] \in Entries
  BY LenProperties DEF TypeOK
<1> QED  BY <1>1, <1>2 DEF Requests, Entries

LEMMA IdsRemembered ==
  /\ \A t \in Threads : thr[t].id \in Remembered
  /\ \A i \in DOMAIN backlog : backlog[i].id \in Remembered
  /\ \A i \in DOMAIN hist : hist[i].id \in Remembered
BY DEF Remembered

LEMMA OutsideThreads == Outside \subseteq Threads /\ Reporter \notin Outside
BY ThreadNames DEF Threads, Reporter

(* The answer to one thread gives out no id either.                        *)
LEMMA DeliveryKeepsIds ==
  ASSUME TypeOK, TypeOK', IdInv, NEW th \in [Threads -> ThreadStates], NEW lost \in BOOLEAN,
         NEW answer \in Answers, backlog # <<>>, backlog' = Tail(backlog),
         \A t \in Threads : th[t].id = thr[t].id /\ th[t].pc = thr[t].pc,
         thr' = Delivered(th, Head(backlog), lost, answer)
  PROVE  IdInv'
<1>1. Head(backlog) \in Requests
  BY BacklogHead
<1>2. PICK r \in Requests : r = Head(backlog)
  BY <1>1
<1>3. /\ \A s \in Threads \ {r.from} : thr'[s] = th[s]
      /\ ~Waits(th, r) => thr' = th
      /\ Waits(th, r) /\ r.from = Reporter => thr'[r.from] = IdleThread
      /\ Waits(th, r) /\ r.from # Reporter =>
              /\ thr'[r.from].pc = "observing"
              /\ thr'[r.from].id = (IF r.from \in Outside THEN r.id ELSE 0)
  BY <1>2, DeliveredFacts
<1>4. r.from \in Threads
  BY DEF Requests
<1>5. ASSUME NEW t \in Threads
      PROVE  /\ thr'[t].id \in {thr[t].id, 0}
             /\ t \in Outside /\ thr'[t].pc # "idle" =>
                  thr[t].pc # "idle" /\ thr'[t].id = thr[t].id
  <2>1. CASE t = r.from /\ Waits(th, r)
    BY <1>3, <2>1, IdleFacts DEF Waits
  <2>2. CASE ~(t = r.from /\ Waits(th, r))
    BY <1>3, <2>2
  <2> QED  BY <2>1, <2>2
<1>6. \A i \in DOMAIN backlog' : \E j \in DOMAIN backlog : backlog'[i] = backlog[j]
  BY BacklogHead
<1>7. \A i \in DOMAIN backlog' : backlog'[i].id # 0
  BY <1>6, NoZeroIds
<1> QED  BY <1>5, <1>6, <1>7, IdShrinks, OutsideThreads

LEMMA ServeKeepsIds ==
  ASSUME TypeOK, TypeOK', IdInv, Serve PROVE IdInv'
<1>1. thr \in [Threads -> ThreadStates] /\ Failed \in Answers
  BY FailedAnswer DEF TypeOK
<1>2. ASSUME NEW r, NEW lost \in BOOLEAN, NEW a \in Answers, Handles(r, lost, a) PROVE IdInv'
  BY <1>1, <1>2, DeliveryKeepsIds DEF Handles
<1>3. ASSUME NEW r, NEW lost \in BOOLEAN, NEW a \in Answers, Executes(r, lost, a) PROVE IdInv'
  <2>1. r \in Requests /\ r = Head(backlog) /\ backlog # <<>> /\ backlog' = Tail(backlog)
    BY <1>3, BacklogHead DEF Executes
  <2>2. PICK th : th = Ran(thr, r)
    OBVIOUS
  <2>3. th \in [Threads -> ThreadStates]
        /\ \A t \in Threads : th[t].id = thr[t].id /\ th[t].pc = thr[t].pc
    BY <1>1, <2>1, <2>2, RanFacts
  <2>4. thr' = Delivered(th, Head(backlog), lost, a)
    BY <1>3, <2>1, <2>2 DEF Executes
  <2> QED  BY <2>1, <2>3, <2>4, DeliveryKeepsIds
<1>4. ASSUME NEW lost \in BOOLEAN, HandleDuplicate(lost) PROVE IdInv'
  BY <1>2, <1>4, HandleDuplicateFacts, PriorFacts
<1>5. ASSUME NEW lost \in BOOLEAN, HandleExecuted(lost) PROVE IdInv'
  <2>1. Executes(Head(backlog), lost, Reply(Head(backlog).cmd))
    BY <1>5, HandleExecutedFacts
  <2>2. Reply(Head(backlog).cmd) \in Answers
    BY <2>1, BacklogHead, ReplyFacts DEF Executes, Requests, TypeOK
  <2> QED  BY <1>3, <2>1, <2>2
<1>6. CASE HandleRejected
  BY <1>1, <1>2, <1>6, HandleRejectedFacts
<1>7. CASE HandleUnsaved
  BY <1>1, <1>3, <1>7, HandleUnsavedFacts
<1> QED  BY <1>4, <1>5, <1>6, <1>7 DEF Serve

LEMMA IdInit == Init => IdInv
BY IdleFacts, OutsideThreads DEF Init, IdInv

LEMMA IdStep == TypeOK /\ TypeOK' /\ IdInv /\ [Next]_vars => IdInv'
<1> SUFFICES ASSUME TypeOK, TypeOK', IdInv, [Next]_vars PROVE IdInv'  OBVIOUS
<1>1. /\ \A i \in DOMAIN backlog : backlog[i].id # 0
      /\ \A i \in DOMAIN backlog : \E j \in DOMAIN backlog : backlog[i] = backlog[j]
  BY NoZeroIds
<1>2. ASSUME Sends PROVE IdInv'
  <2>1. PICK t \in Threads, c \in Commands :
           Request(t, c) /\ (t \in Outside => c = Plain("DEFERRED"))
    BY <1>2 DEF Sends
  <2>2. PICK n \in Nat \ {0} :
           /\ n \notin Remembered /\ Len(backlog) < Backlog
           /\ backlog' = Append(backlog, [from |-> t, id |-> n, cmd |-> c])
           /\ \A s \in Threads \ {t} : thr'[s] = thr[s]
           /\ thr'[t].pc = "awaiting" /\ thr'[t].id = n
    BY <2>1, RequestFacts
  <2>3. /\ DOMAIN backlog = 1..Len(backlog) /\ DOMAIN backlog' = 1..(Len(backlog) + 1)
        /\ \A i \in DOMAIN backlog : backlog'[i] = backlog[i]
        /\ backlog'[Len(backlog) + 1] = [from |-> t, id |-> n, cmd |-> c]
    BY <2>2, SentType
  <2>4. \A i \in DOMAIN backlog' : i \in DOMAIN backlog \/ i = Len(backlog) + 1
    BY <2>3 DEF TypeOK
  <2>5. \A s \in Threads : thr[s].id # n
    BY <2>2, IdsRemembered
  <2>6. \A i \in DOMAIN backlog : backlog[i].id # n
    BY <2>2, IdsRemembered
  <2>7. \A p, q \in Threads : thr'[p].id = thr'[q].id /\ thr'[q].id # 0 => p = q
    BY <2>2, <2>5 DEF IdInv
  <2>8. \A s \in Threads, i \in DOMAIN backlog' : backlog'[i].id = thr'[s].id => backlog'[i].from = s
    BY <2>2, <2>3, <2>4, <2>5, <2>6 DEF IdInv
  <2>9. \A i \in DOMAIN backlog' : backlog'[i].from \in Outside => backlog'[i].cmd = Plain("DEFERRED")
    BY <2>1, <2>3, <2>4 DEF IdInv
  <2>10. \A s \in Outside : thr'[s].pc # "idle" => thr'[s].id # 0
    BY <2>2, OutsideThreads DEF IdInv
  <2> QED  BY <2>7, <2>8, <2>9, <2>10 DEF IdInv
<1>3. ASSUME NEW t \in Threads, ConnectFails(t) \/ Timeout(t) PROVE IdInv'
  <2>1. thr' = Lost(thr, t) /\ UNCHANGED backlog
    BY <1>3, LosesType
  <2>2. /\ \A s \in Threads \ {t} : thr'[s] = thr[s]
        /\ t = Reporter => thr'[t] = IdleThread
        /\ t # Reporter => thr'[t].id = (IF t \in Outside THEN thr[t].id ELSE 0)
    <3>1. thr \in [Threads -> ThreadStates]
      BY DEF TypeOK
    <3> QED  BY <2>1, <3>1, LostFacts
  <2>3. t \in Outside => thr[t].pc # "idle"
    BY <1>3 DEF ConnectFails, Timeout, Gateway
  <2> QED  BY <1>1, <2>1, <2>2, <2>3, IdShrinks, IdleFacts, OutsideThreads
<1>4. ASSUME NEW t \in Threads, Observe(t) \/ GiveUp(t) PROVE IdInv'
  <2>1. thr' = [thr EXCEPT ![t] = IdleThread] /\ UNCHANGED backlog
    BY <1>4, ObserveFacts DEF GiveUp
  <2>2. thr'[t] = IdleThread /\ \A s \in Threads \ {t} : thr'[s] = thr[s]
    BY <2>1 DEF TypeOK
  <2> QED  BY <1>1, <2>1, <2>2, IdShrinks, IdleFacts, OutsideThreads
<1>5. ASSUME NEW t \in Threads, Retry(t) PROVE IdInv'
  <2>1. thr[t].id \in Nat \ {0}
    BY <1>5 DEF Retry, IdInv, TypeOK, ThreadStates
  <2>2. /\ Len(backlog) < Backlog
        /\ backlog' = Append(backlog, [from |-> t, id |-> thr[t].id, cmd |-> Plain("DEFERRED")])
        /\ \A s \in Threads \ {t} : thr'[s] = thr[s]
        /\ thr'[t].id = thr[t].id
    BY <1>5, RetryFacts
  <2>3. /\ DOMAIN backlog = 1..Len(backlog) /\ DOMAIN backlog' = 1..(Len(backlog) + 1)
        /\ \A i \in DOMAIN backlog : backlog'[i] = backlog[i]
        /\ backlog'[Len(backlog) + 1] = [from |-> t, id |-> thr[t].id, cmd |-> Plain("DEFERRED")]
    BY <2>1, <2>2, SentType, PlainCommands
  <2>4. \A i \in DOMAIN backlog' : i \in DOMAIN backlog \/ i = Len(backlog) + 1
    BY <2>3 DEF TypeOK
  <2>5. \A s \in Threads : thr'[s].id = thr[s].id
    BY <2>2
  <2>6. \A p, q \in Threads : thr'[p].id = thr'[q].id /\ thr'[q].id # 0 => p = q
    BY <2>5 DEF IdInv
  <2>7. \A s \in Threads, i \in DOMAIN backlog' : backlog'[i].id = thr'[s].id => backlog'[i].from = s
    BY <2>1, <2>3, <2>4, <2>5 DEF IdInv
  <2>8. \A i \in DOMAIN backlog' : backlog'[i].from \in Outside => backlog'[i].cmd = Plain("DEFERRED")
    BY <2>3, <2>4 DEF IdInv
  <2>9. \A s \in Outside : thr'[s].pc # "idle" => thr'[s].id # 0
    BY <2>1, <2>2, <2>5, OutsideThreads DEF IdInv
  <2> QED  BY <2>6, <2>7, <2>8, <2>9 DEF IdInv
<1>6. CASE Serve
  BY <1>6, ServeKeepsIds
<1>7. CASE (\E k \in Keys, v \in Values : LocalChange(k, v)) \/ UNCHANGED vars
  BY <1>7 DEF LocalChange, vars, IdInv
<1>8. CASE Restart
  <2>1. backlog' = <<>> /\ DOMAIN backlog' = {}
    BY <1>8 DEF Restart
  <2>2. ASSUME NEW t \in Threads
        PROVE  /\ thr'[t].id \in {thr[t].id, 0}
               /\ t \in Outside /\ thr'[t].pc # "idle" =>
                    thr[t].pc # "idle" /\ thr'[t].id = thr[t].id
    BY <1>8, RestartFacts, IdleFacts, OutsideThreads
  <2> QED  BY <2>1, <2>2, IdShrinks, OutsideThreads
<1> QED
  BY <1>2, <1>3, <1>4, <1>5, <1>6, <1>7, <1>8, SendsFacts DEF Next
----------------------------------------------------------------------------
(* What is confirmed was held.                                             *)

Honest(a, h) == \A k \in DOMAIN a.data : a.data[k] \in h[k]

(* Every answer on its way, kept in the history or waiting to be observed, *)
(* names values the speaker has had.                                       *)
HonestInv ==
  /\ \A k \in Keys : cfg[k] \in held[k]
  /\ \A t \in Threads : Honest(thr[t].answer, held)
  /\ \A i \in DOMAIN hist : Honest(hist[i].answer, held)

LEMMA HonestInit == Init => HonestInv /\ ConfirmedWasHeld
<1> SUFFICES ASSUME Init PROVE HonestInv /\ ConfirmedWasHeld  OBVIOUS
<1>1. \A t \in Threads : thr[t].answer = Failed
  BY IdleFacts DEF Init
<1>2. DOMAIN hist = {} /\ store.told = {}
  BY DEF Init
<1>3. \A k \in Keys : cfg[k] \in held[k]
  BY DEF Init
<1> QED  BY <1>1, <1>2, <1>3, FailedAnswer DEF HonestInv, Honest, ConfirmedWasHeld

(* Nothing that was held is forgotten, so a step keeps what it does not    *)
(* make up.                                                                *)
LEMMA HonestGrows ==
  ASSUME NEW a \in Answers, Honest(a, held), \A k \in Keys : held[k] \subseteq held'[k]
  PROVE  Honest(a, held')
BY AnswerData DEF Honest

LEMMA HonestKeeps ==
  ASSUME TypeOK, TypeOK', HonestInv, ConfirmedWasHeld,
         \A k \in Keys : cfg'[k] \in held'[k] /\ held[k] \subseteq held'[k],
         \A t \in Threads : thr'[t].answer \in {thr[t].answer, Failed}
                            \/ Honest(thr'[t].answer, held'),
         \A i \in DOMAIN hist' : \/ \E j \in DOMAIN hist : hist'[i] = hist[j]
                                 \/ Honest(hist'[i].answer, held'),
         store'.told = store.told, store'.confirmed = store.confirmed
  PROVE  HonestInv' /\ ConfirmedWasHeld'
<1>1. \A t \in Threads : thr[t].answer \in Answers /\ Honest(thr[t].answer, held')
  BY HonestGrows DEF TypeOK, ThreadStates, HonestInv
<1>2. \A j \in DOMAIN hist : Honest(hist[j].answer, held')
  BY HonestGrows, NoZeroIds DEF HonestInv, Entries
<1>3. Honest(Failed, held')
  BY FailedAnswer DEF Honest
<1>4. HonestInv'
  BY <1>1, <1>2, <1>3 DEF HonestInv
<1>5. store.told \subseteq Keys
  BY DEF TypeOK, Stores
<1> QED  BY <1>4, <1>5 DEF ConfirmedWasHeld

(* Serving a request: the answer is the stored one, a refusal, or names    *)
(* what has just been applied.                                             *)
LEMMA DeliveryHonest ==
  ASSUME NEW th \in [Threads -> ThreadStates], NEW r \in Requests, NEW lost \in BOOLEAN,
         NEW answer \in Answers, NEW e, e = Delivered(th, r, lost, answer), NEW t \in Threads
  PROVE  e[t].answer \in {th[t].answer, Failed, answer}
<1>1. /\ \A s \in Threads \ {r.from} : e[s] = th[s]
      /\ ~Waits(th, r) => e = th
      /\ Waits(th, r) /\ r.from = Reporter => e[r.from] = IdleThread
      /\ Waits(th, r) /\ r.from # Reporter =>
              e[r.from].answer = (IF lost THEN Failed ELSE answer)
  BY DeliveredFacts
<1> QED  BY <1>1, IdleFacts

LEMMA ExecutesHonest ==
  ASSUME TypeOK, TypeOK', HonestInv, ConfirmedWasHeld, NEW r, NEW lost \in BOOLEAN,
         NEW a \in Answers, Executes(r, lost, a), Honest(a, held'),
         \A k \in Keys : cfg'[k] \in held'[k] /\ held[k] \subseteq held'[k]
  PROVE  HonestInv' /\ ConfirmedWasHeld'
<1>1. r \in Requests
  BY BacklogHead DEF Executes
<1>2. PICK th : th = Ran(thr, r)
  OBVIOUS
<1>3. th \in [Threads -> ThreadStates] /\ \A t \in Threads : th[t].answer = thr[t].answer
  BY <1>1, <1>2, RanFacts DEF TypeOK
<1>4. thr' = Delivered(th, r, lost, a)
  BY <1>2 DEF Executes
<1>5. \A t \in Threads : thr'[t].answer \in {thr[t].answer, Failed, a}
  BY <1>1, <1>3, <1>4, DeliveryHonest
<1>6. ASSUME NEW i \in DOMAIN hist'
      PROVE  (\E j \in DOMAIN hist : hist'[i] = hist[j]) \/ Honest(hist'[i].answer, held')
  <2>1. CASE hist' = hist
    BY <1>6, <2>1
  <2>2. CASE hist' # hist
    <3>1. PICK x : x = [id |-> r.id, answer |-> a]
      OBVIOUS
    <3>2. x \in Entries /\ x.answer = a
      BY <1>1, <3>1 DEF Requests, Entries
    <3>3. hist' = record(hist, x) /\ hist \in Seq(Entries) /\ Len(hist) <= Capacity
      BY <2>2, <3>1 DEF Executes, TypeOK
    <3>4. /\ hist' \in Seq(Entries) /\ hist'[Len(hist')] = x
          /\ Recorded(hist, x, hist')
      BY <3>2, <3>3, RecordLast, RecordCases
    <3>5. \A n \in 1..Len(hist') : n # Len(hist') => \E j \in 1..Len(hist) : hist'[n] = hist[j]
      BY <3>2, <3>3, <3>4, RecordOld
    <3>6. DOMAIN hist' = 1..Len(hist') /\ DOMAIN hist = 1..Len(hist)
      BY <3>3, <3>4, LenProperties
    <3> QED  BY <1>6, <3>2, <3>4, <3>6, <3>5
  <2> QED  BY <2>1, <2>2
<1>7. store' = store
  BY DEF Executes
<1>8. \A t \in Threads : thr'[t].answer \in {thr[t].answer, Failed}
                         \/ Honest(thr'[t].answer, held')
  BY <1>5
<1> QED  BY <1>6, <1>7, <1>8, HonestKeeps

LEMMA HandlesHonest ==
  ASSUME TypeOK, TypeOK', HonestInv, ConfirmedWasHeld, NEW r, NEW lost \in BOOLEAN,
         NEW a \in Answers, Handles(r, lost, a), Honest(a, held)
  PROVE  HonestInv' /\ ConfirmedWasHeld'
<1>1. r \in Requests /\ thr' = Delivered(thr, r, lost, a) /\ UNCHANGED <<store, cfg, hist, held>>
  BY BacklogHead DEF Handles
<1>2. \A t \in Threads : thr'[t].answer \in {thr[t].answer, Failed, a}
  BY <1>1, DeliveryHonest DEF TypeOK
<1>3. \A t \in Threads : thr'[t].answer \in {thr[t].answer, Failed}
                         \/ Honest(thr'[t].answer, held')
  BY <1>1, <1>2
<1>4. \A k \in Keys : cfg'[k] \in held'[k] /\ held[k] \subseteq held'[k]
  BY <1>1 DEF HonestInv
<1>5. \A i \in DOMAIN hist' : \E j \in DOMAIN hist : hist'[i] = hist[j]
  BY <1>1
<1> QED  BY <1>1, <1>3, <1>4, <1>5, HonestKeeps

LEMMA ServeHonest ==
  ASSUME TypeOK, TypeOK', HonestInv, ConfirmedWasHeld, Serve
  PROVE  HonestInv' /\ ConfirmedWasHeld'
<1>1. Failed \in Answers /\ Honest(Failed, held) /\ Honest(Failed, held')
  BY FailedAnswer DEF Honest
<1>2. ASSUME NEW lost \in BOOLEAN, HandleDuplicate(lost) PROVE HonestInv' /\ ConfirmedWasHeld'
  <2>1. Handles(Head(backlog), lost, Prior(Head(backlog))) /\ Seen(Head(backlog))
    BY <1>2, HandleDuplicateFacts
  <2>2. Prior(Head(backlog)) \in Answers /\ Honest(Prior(Head(backlog)), held)
    BY <2>1, PriorFacts DEF HonestInv
  <2> QED  BY <2>1, <2>2, HandlesHonest
<1>3. ASSUME NEW lost \in BOOLEAN, HandleExecuted(lost) PROVE HonestInv' /\ ConfirmedWasHeld'
  <2>1. PICK r : r = Head(backlog)
    OBVIOUS
  <2>2. PICK c : c = r.cmd
    OBVIOUS
  <2>3. /\ Executes(r, lost, Reply(c))
        /\ cfg' = (IF Accepted(c) THEN [cfg EXCEPT ![c.key] = Applied(c)] ELSE cfg)
        /\ held' = [k \in Keys |-> held[k] \union {cfg'[k]}]
    BY <1>3, <2>1, <2>2, HandleExecutedFacts
  <2>4. c \in Commands
    BY <2>2, <2>3, BacklogHead DEF Executes, Requests
  <2>5. Reply(c) \in Answers
    BY <2>4, ReplyFacts DEF TypeOK
  <2>6. /\ \A k \in Keys : cfg'[k] \in held'[k] /\ held[k] \subseteq held'[k]
        /\ \A k \in DOMAIN Reply(c).data : Reply(c).data[k] \in held'[k]
    BY <2>3, <2>4, AppliedType
  <2>7. Honest(Reply(c), held')
    BY <2>6 DEF Honest
  <2> QED  BY <2>3, <2>5, <2>6, <2>7, ExecutesHonest
<1>4. CASE HandleRejected
  BY <1>1, <1>4, HandleRejectedFacts, HandlesHonest
<1>5. CASE HandleUnsaved
  <2>1. PICK lost \in BOOLEAN :
          Executes(Head(backlog), lost, Failed) /\ UNCHANGED <<cfg, held>>
    BY <1>5, HandleUnsavedFacts
  <2>2. \A k \in Keys : cfg'[k] \in held'[k] /\ held[k] \subseteq held'[k]
    BY <2>1 DEF HonestInv
  <2> QED  BY <1>1, <2>1, <2>2, ExecutesHonest
<1> QED  BY <1>2, <1>3, <1>4, <1>5 DEF Serve

LEMMA HonestStep ==
  TypeOK /\ TypeOK' /\ HonestInv /\ ConfirmedWasHeld /\ [Next]_vars
    => HonestInv' /\ ConfirmedWasHeld'
<1> SUFFICES ASSUME TypeOK, TypeOK', HonestInv, ConfirmedWasHeld, [Next]_vars
             PROVE  HonestInv' /\ ConfirmedWasHeld'
  OBVIOUS
<1>1. ASSUME UNCHANGED <<cfg, hist, held>>, store'.told = store.told,
             store'.confirmed = store.confirmed,
             \A t \in Threads : thr'[t].answer \in {thr[t].answer, Failed}
      PROVE  HonestInv' /\ ConfirmedWasHeld'
  <2>1. \A k \in Keys : cfg'[k] \in held'[k] /\ held[k] \subseteq held'[k]
    BY <1>1 DEF HonestInv
  <2>2. \A i \in DOMAIN hist' : \E j \in DOMAIN hist : hist'[i] = hist[j]
    BY <1>1
  <2> QED  BY <1>1, <2>1, <2>2, HonestKeeps
<1>2. CASE Sends
  <2>1. PICK t \in Threads, c \in Commands : Request(t, c)
    BY <1>2 DEF Sends
  <2>2. /\ UNCHANGED <<store, cfg, hist, held>> /\ thr'[t].answer = Failed
        /\ \A s \in Threads \ {t} : thr'[s] = thr[s]
    BY <2>1, RequestFacts
  <2> QED  BY <1>1, <2>2
<1>3. ASSUME NEW t \in Threads, ConnectFails(t) \/ Timeout(t)
      PROVE  HonestInv' /\ ConfirmedWasHeld'
  <2>1. thr' = Lost(thr, t) /\ UNCHANGED <<store, cfg, hist, held>>
    BY <1>3, LosesType
  <2>2. thr \in [Threads -> ThreadStates]
    BY DEF TypeOK
  <2>3. /\ \A s \in Threads \ {t} : thr'[s] = thr[s]
        /\ t = Reporter => thr'[t] = IdleThread
        /\ t # Reporter => thr'[t].answer = Failed
    BY <2>1, <2>2, LostFacts
  <2> QED  BY <1>1, <2>1, <2>3, IdleFacts
<1>4. ASSUME NEW t \in Threads, Observe(t) PROVE HonestInv' /\ ConfirmedWasHeld'
  <2>1. thr' = [thr EXCEPT ![t] = IdleThread] /\ UNCHANGED <<cfg, hist, held>>
    BY <1>4, ObserveFacts
  <2>2. HonestInv'
    <3>1. \A s \in Threads : thr'[s].answer \in {thr[s].answer, Failed}
      BY <2>1, IdleFacts DEF TypeOK
    <3>2. Honest(Failed, held)
      BY FailedAnswer DEF Honest
    <3> QED  BY <2>1, <3>1, <3>2 DEF HonestInv
  <2>3. store.told \subseteq Keys /\ thr[t].answer \in Answers
    BY DEF TypeOK, Stores, ThreadStates
  <2>4. Honest(thr[t].answer, held) /\ DOMAIN thr[t].answer.data \subseteq Keys
    BY <2>3, AnswerData DEF HonestInv
  <2>5. ConfirmedWasHeld'
    <3>1. CASE store'.told = store.told /\ store'.confirmed = store.confirmed
      BY <2>1, <3>1 DEF ConfirmedWasHeld
    <3>2. CASE /\ store'.told = store.told \union DOMAIN thr[t].answer.data
               /\ \A k \in Keys : store'.confirmed[k] =
                    (IF k \in DOMAIN thr[t].answer.data THEN thr[t].answer.data[k]
                     ELSE store.confirmed[k])
      BY <2>1, <2>3, <2>4, <3>2 DEF ConfirmedWasHeld, Honest
    <3> QED  BY <1>4, <3>1, <3>2, ObserveFacts
  <2> QED  BY <2>2, <2>5
<1>5. ASSUME NEW t \in Threads, Retry(t) PROVE HonestInv' /\ ConfirmedWasHeld'
  <2>1. /\ \A s \in Threads : thr'[s].answer = thr[s].answer
        /\ UNCHANGED <<store, cfg, hist, held>>
    BY <1>5, RetryFacts
  <2> QED  BY <1>1, <2>1
<1>6. ASSUME NEW t \in Threads, GiveUp(t) PROVE HonestInv' /\ ConfirmedWasHeld'
  <2>1. /\ \A s \in Threads : thr'[s].answer \in {thr[s].answer, Failed}
        /\ UNCHANGED <<store, cfg, hist, held>>
    BY <1>6, IdleFacts DEF GiveUp, TypeOK
  <2> QED  BY <1>1, <2>1
<1>7. CASE Serve
  BY <1>7, ServeHonest
<1>8. ASSUME NEW k \in Keys, NEW v \in Values, LocalChange(k, v)
      PROVE  HonestInv' /\ ConfirmedWasHeld'
  <2>1. /\ \A j \in Keys : cfg'[j] \in held'[j] /\ held[j] \subseteq held'[j]
        /\ UNCHANGED <<thr, store, hist>>
    BY <1>8 DEF LocalChange, TypeOK, HonestInv
  <2>2. \A i \in DOMAIN hist' : \E j \in DOMAIN hist : hist'[i] = hist[j]
    BY <2>1
  <2> QED  BY <2>1, <2>2, HonestKeeps
<1>9. CASE Restart
  <2>1. hist' = <<>> /\ DOMAIN hist' = {} /\ UNCHANGED <<store, cfg, held>>
    BY <1>9 DEF Restart
  <2>2. \A t \in Threads : thr'[t].answer \in {thr[t].answer, Failed}
    BY <1>9, RestartFacts, IdleFacts
  <2>3. \A k \in Keys : cfg'[k] \in held'[k] /\ held[k] \subseteq held'[k]
    BY <2>1 DEF HonestInv
  <2> QED  BY <2>1, <2>2, <2>3, HonestKeeps
<1>10. CASE UNCHANGED vars
  BY <1>10 DEF vars, HonestInv, ConfirmedWasHeld
<1> QED
  BY <1>2, <1>3, <1>4, <1>5, <1>6, <1>7, <1>8, <1>9, <1>10, SendsFacts DEF Next
----------------------------------------------------------------------------
(* Who was executed, and how often.                                        *)

(* A thread that is told of a success had its command executed.            *)
AckOK(x) == x.pc = "observing" /\ ~x.lost /\ x.answer.ok => x.runs > 0

(* A thread of the gateway keeps its id only while it waits, and until     *)
(* then its command has not run.                                           *)
GateOK(t, x) ==
  t \in Gateway => x.runs <= 1 /\ (x.id # 0 => x.pc = "awaiting" /\ x.runs = 0)

(* What the history says of a command: an entry means that it ran; a       *)
(* client beside the gateway whose command ran less than Capacity records  *)
(* ago still finds it, no deeper than it counted.                          *)
BookOK(t, x, h) ==
  /\ \A i \in DOMAIN h : h[i].id = x.id => x.runs > 0
  /\ t \in Outside /\ x.runs > 1 => x.since >= Capacity
  /\ t \in Outside /\ x.runs > 0 /\ x.since < Capacity =>
       \E i \in DOMAIN h : h[i].id = x.id /\ Len(h) - i <= x.since

RunOK(t, x, h) == AckOK(x) /\ GateOK(t, x) /\ BookOK(t, x, h)

RunInv == \A t \in Threads : RunOK(t, thr[t], hist)

LEMMA IdleRuns ==
  ASSUME NEW t, NEW h, \A i \in DOMAIN h : h[i].id # 0
  PROVE  RunOK(t, IdleThread, h)
BY IdleFacts DEF RunOK, AckOK, GateOK, BookOK

LEMMA RunInit == Init => RunInv
<1> SUFFICES ASSUME Init, NEW t \in Threads PROVE RunOK(t, thr[t], hist)
  BY DEF RunInv
<1>1. thr[t] = IdleThread /\ DOMAIN hist = {}
  BY DEF Init
<1> QED  BY <1>1, IdleRuns

(* The answer is handed over: it says "ok" only of a command that ran.     *)
LEMMA DeliveryRuns ==
  ASSUME TypeOK', NEW th \in [Threads -> ThreadStates], NEW r \in Requests,
         NEW lost \in BOOLEAN, NEW answer \in Answers,
         thr' = Delivered(th, r, lost, answer), NEW t \in Threads,
         BookOK(t, th[t], hist'),
         ~(t = r.from /\ Waits(th, r)) => AckOK(th[t]) /\ GateOK(t, th[t]),
         t = r.from /\ Waits(th, r) => /\ answer.ok => th[t].runs > 0
                                       /\ t \in Gateway => th[t].runs <= 1
  PROVE  RunOK(t, thr'[t], hist')
<1>1. /\ \A s \in Threads \ {r.from} : thr'[s] = th[s]
      /\ ~Waits(th, r) => thr' = th
      /\ Waits(th, r) /\ r.from = Reporter => thr'[r.from] = IdleThread
      /\ Waits(th, r) /\ r.from # Reporter =>
              /\ thr'[r.from].pc = "observing" /\ thr'[r.from].lost = lost
              /\ thr'[r.from].answer = (IF lost THEN Failed ELSE answer)
              /\ thr'[r.from].id = (IF r.from \in Outside THEN r.id ELSE 0)
              /\ thr'[r.from].runs = th[r.from].runs /\ thr'[r.from].since = th[r.from].since
  BY DeliveredFacts
<1>2. \A i \in DOMAIN hist' : hist'[i].id # 0
  <2>1. \A i \in DOMAIN hist' : hist'[i] \in Entries
    BY LenProperties DEF TypeOK
  <2> QED  BY <2>1 DEF Entries
<1>3. CASE ~(t = r.from /\ Waits(th, r))
  BY <1>1, <1>3 DEF RunOK
<1>4. CASE t = r.from /\ Waits(th, r) /\ t = Reporter
  BY <1>1, <1>2, <1>4, IdleRuns
<1>5. CASE t = r.from /\ Waits(th, r) /\ t # Reporter
  <2>1. /\ thr'[t].lost = lost /\ thr'[t].answer = (IF lost THEN Failed ELSE answer)
        /\ thr'[t].id = (IF t \in Outside THEN th[t].id ELSE 0)
        /\ thr'[t].runs = th[t].runs /\ thr'[t].since = th[t].since
    BY <1>1, <1>5 DEF Waits
  <2>2. AckOK(thr'[t])
    BY <1>5, <2>1, FailedAnswer DEF AckOK
  <2>3. GateOK(t, thr'[t])
    BY <1>5, <2>1 DEF GateOK, Gateway
  <2>4. BookOK(t, thr'[t], hist')
    BY <1>2, <2>1 DEF BookOK
  <2> QED  BY <2>2, <2>3, <2>4 DEF RunOK
<1> QED  BY <1>3, <1>4, <1>5

LEMMA HandlesRuns ==
  ASSUME TypeOK, TypeOK', RunInv, NEW r, NEW lost \in BOOLEAN, NEW a \in Answers,
         Handles(r, lost, a), a.ok => Seen(r)
  PROVE  RunInv'
<1>1. r \in Requests /\ thr' = Delivered(thr, r, lost, a) /\ hist' = hist
  BY BacklogHead DEF Handles
<1> SUFFICES ASSUME NEW t \in Threads PROVE RunOK(t, thr'[t], hist')
  BY DEF RunInv
<1>2. thr \in [Threads -> ThreadStates] /\ RunOK(t, thr[t], hist)
  BY DEF TypeOK, RunInv
<1>3. t = r.from /\ Waits(thr, r) => /\ a.ok => thr[t].runs > 0
                                     /\ t \in Gateway => thr[t].runs <= 1
  BY <1>2 DEF RunOK, BookOK, GateOK, Waits, Seen
<1>4. BookOK(t, thr[t], hist') /\ AckOK(thr[t]) /\ GateOK(t, thr[t])
  BY <1>1, <1>2 DEF RunOK
<1> QED  BY <1>1, <1>2, <1>3, <1>4, DeliveryRuns

(* What an execution leaves in the history.                                *)
LEMMA ExecutesHistory ==
  ASSUME TypeOK, NEW r \in Requests, NEW x \in Entries, x.id = r.id,
         hist' = (IF Kept(r.cmd) THEN record(hist, x) ELSE hist)
  PROVE  /\ ~Kept(r.cmd) => hist' = hist
         /\ Kept(r.cmd) => \E i \in DOMAIN hist' : hist'[i].id = r.id /\ Len(hist') - i = 0
         /\ \A i \in DOMAIN hist' : \/ hist'[i].id = r.id
                                    \/ \E j \in DOMAIN hist : hist'[i] = hist[j]
         /\ Kept(r.cmd) => \A j \in DOMAIN hist : j > 1 \/ Len(hist) < Capacity =>
              \E i \in DOMAIN hist' : hist'[i] = hist[j] /\ Len(hist') - i = Len(hist) - j + 1
<1>1. hist \in Seq(Entries) /\ Len(hist) <= Capacity /\ DOMAIN hist = 1..Len(hist)
  BY LenProperties DEF TypeOK
<1>2. CASE ~Kept(r.cmd)
  BY <1>2
<1>3. CASE Kept(r.cmd)
  <2>1. hist' = record(hist, x)
    BY <1>3
  <2>2. hist' \in Seq(Entries) /\ Len(hist') >= 1 /\ hist'[Len(hist')] = x
    BY <1>1, <2>1, RecordLast
  <2>3. Recorded(hist, x, hist')
    BY <1>1, <2>1, RecordCases
  <2>4. DOMAIN hist' = 1..Len(hist') /\ Len(hist') \in Nat
    BY <2>2, LenProperties
  <2>5. Len(hist') \in DOMAIN hist' /\ Len(hist') - Len(hist') = 0
    BY <2>2, <2>4
  <2>6. \A i \in DOMAIN hist' : i # Len(hist') => \E j \in DOMAIN hist : hist'[i] = hist[j]
    BY <1>1, <2>3, <2>4, RecordOld
  <2>7. ASSUME NEW j \in DOMAIN hist, j > 1 \/ Len(hist) < Capacity
        PROVE  \E i \in DOMAIN hist' : hist'[i] = hist[j] /\ Len(hist') - i = Len(hist) - j + 1
    <3>1. j \in 1..Len(hist) /\ hist \in Seq(Entries) /\ Len(hist) <= Capacity
      BY <1>1, <2>7
    <3>2. Deeper(hist, hist', j)
      BY <2>7, <2>3, <3>1, RecordShift
    <3> QED  BY <2>4, <3>2 DEF Deeper
  <2> QED  BY <1>3, <2>2, <2>5, <2>6, <2>7
<1> QED  BY <1>2, <1>3

(* An execution as a thread sees it whose command it is not.               *)
LEMMA OtherRuns ==
  ASSUME TypeOK, NEW t \in Threads, RunOK(t, thr[t], hist), NEW r \in Requests,
         thr[t].id # r.id, NEW x \in Entries, x.id = r.id,
         hist' = (IF Kept(r.cmd) THEN record(hist, x) ELSE hist),
         NEW th \in [Threads -> ThreadStates], th = Ran(thr, r)
  PROVE  RunOK(t, th[t], hist')
<1>1. /\ th[t].pc = thr[t].pc /\ th[t].id = thr[t].id /\ th[t].lost = thr[t].lost
      /\ th[t].answer = thr[t].answer /\ th[t].runs = thr[t].runs
      /\ th[t].since =
           (IF t \in Outside /\ thr[t].runs > 0 /\ r.cmd.name # "REPORT_LINK"
               /\ thr[t].since < Capacity
            THEN thr[t].since + 1 ELSE thr[t].since)
  BY RanFacts DEF TypeOK
<1>2. AckOK(th[t]) /\ GateOK(t, th[t])
  BY <1>1 DEF RunOK, AckOK, GateOK
<1>3. thr[t].since \in 0..Capacity /\ Capacity \in Nat \ {0} /\ Len(hist) \in Nat
      /\ DOMAIN hist = 1..Len(hist) /\ Len(hist) <= Capacity
  BY CommandsAssumption, LenProperties DEF TypeOK, ThreadStates
<1>4. /\ ~Kept(r.cmd) => hist' = hist
      /\ \A i \in DOMAIN hist' : \/ hist'[i].id = r.id
                                 \/ \E j \in DOMAIN hist : hist'[i] = hist[j]
      /\ Kept(r.cmd) => \A j \in DOMAIN hist : j > 1 \/ Len(hist) < Capacity =>
           \E i \in DOMAIN hist' : hist'[i] = hist[j] /\ Len(hist') - i = Len(hist) - j + 1
  BY ExecutesHistory
<1>5. \A i \in DOMAIN hist' : hist'[i].id = th[t].id => th[t].runs > 0
  BY <1>1, <1>4 DEF RunOK, BookOK
<1>6. t \in Outside /\ th[t].runs > 1 => th[t].since >= Capacity
  BY <1>1, <1>3 DEF RunOK, BookOK
<1>7. ASSUME t \in Outside, th[t].runs > 0, th[t].since < Capacity
      PROVE  \E i \in DOMAIN hist' : hist'[i].id = th[t].id /\ Len(hist') - i <= th[t].since
  <2>1. thr[t].runs > 0 /\ thr[t].since < Capacity
    BY <1>1, <1>3, <1>7
  <2>2. PICK j \in DOMAIN hist : hist[j].id = thr[t].id /\ Len(hist) - j <= thr[t].since
    BY <1>7, <2>1 DEF RunOK, BookOK
  <2>3. CASE ~Kept(r.cmd)
    <3>1. hist' = hist /\ th[t].since = thr[t].since
      BY <1>1, <1>4, <2>3 DEF Kept
    <3> QED  BY <1>1, <2>2, <3>1
  <2>4. CASE Kept(r.cmd)
    <3>1. th[t].since = thr[t].since + 1
      BY <1>1, <1>7, <2>1, <2>4 DEF Kept
    <3>2. j > 1 \/ Len(hist) < Capacity
      BY <1>3, <1>7, <2>2, <3>1
    <3>3. PICK i \in DOMAIN hist' : hist'[i] = hist[j] /\ Len(hist') - i = Len(hist) - j + 1
      BY <1>4, <2>4, <3>2
    <3>4. Len(hist') - i <= th[t].since
      BY <1>3, <2>2, <3>1, <3>3
    <3> QED  BY <1>1, <2>2, <3>3, <3>4
  <2> QED  BY <2>3, <2>4
<1> QED  BY <1>2, <1>5, <1>6, <1>7 DEF RunOK, BookOK

(* And as the thread sees it whose command it is: the history did not hold *)
(* it, so a first run it was, or Capacity others came in between.          *)
LEMMA OwnRuns ==
  ASSUME TypeOK, NEW t \in Threads, RunOK(t, thr[t], hist), NEW r \in Requests,
         thr[t].id = r.id, ~Seen(r), t \in Outside => Kept(r.cmd),
         NEW x \in Entries, x.id = r.id,
         hist' = (IF Kept(r.cmd) THEN record(hist, x) ELSE hist),
         NEW th \in [Threads -> ThreadStates], th = Ran(thr, r)
  PROVE  /\ BookOK(t, th[t], hist') /\ AckOK(th[t]) /\ th[t].runs > 0
         /\ t \in Gateway => th[t].runs <= 1 /\ thr[t].pc = "awaiting"
<1>1. thr \in [Threads -> ThreadStates]
  BY DEF TypeOK
<1>a. /\ th[t].id = thr[t].id
      /\ th[t].runs = (IF thr[t].id # r.id THEN thr[t].runs
                       ELSE IF thr[t].runs < 2 THEN thr[t].runs + 1 ELSE 2)
      /\ th[t].since =
           (IF /\ thr[t].id # r.id /\ t \in Outside /\ thr[t].runs > 0
               /\ r.cmd.name # "REPORT_LINK" /\ thr[t].since < Capacity
            THEN thr[t].since + 1 ELSE thr[t].since)
  BY <1>1, RanFacts
<1>2. /\ th[t].id = r.id /\ th[t].since = thr[t].since
      /\ th[t].runs = (IF thr[t].runs < 2 THEN thr[t].runs + 1 ELSE 2)
  BY <1>a
<1>3. thr[t].runs \in 0..2 /\ thr[t].since \in 0..Capacity /\ Capacity \in Nat
  BY CommandsAssumption DEF TypeOK, ThreadStates
<1>4. r.id # 0
  BY DEF Requests
<1>5. th[t].runs > 0
  BY <1>2, <1>3
<1>6. t \in Gateway => th[t].runs <= 1 /\ thr[t].pc = "awaiting"
  BY <1>2, <1>4 DEF RunOK, GateOK
<1>7. t \in Outside /\ th[t].runs > 1 => th[t].since >= Capacity
  <2> SUFFICES ASSUME t \in Outside, th[t].runs > 1, ~(th[t].since >= Capacity) PROVE FALSE
    OBVIOUS
  <2>1. thr[t].runs > 0 /\ thr[t].since < Capacity
    BY <1>2, <1>3
  <2>2. \E i \in DOMAIN hist : hist[i].id = r.id
    BY <2>1 DEF RunOK, BookOK
  <2> QED  BY <2>2 DEF Seen
<1>8. t \in Outside => \E i \in DOMAIN hist' : hist'[i].id = th[t].id /\ Len(hist') - i <= th[t].since
  <2> SUFFICES ASSUME t \in Outside
               PROVE  \E i \in DOMAIN hist' : hist'[i].id = th[t].id /\ Len(hist') - i <= th[t].since
    OBVIOUS
  <2>1. PICK i \in DOMAIN hist' : hist'[i].id = r.id /\ Len(hist') - i = 0
    BY ExecutesHistory
  <2> QED  BY <1>2, <1>3, <2>1
<1> QED  BY <1>5, <1>6, <1>7, <1>8 DEF BookOK, AckOK

LEMMA ExecutesRuns ==
  ASSUME TypeOK, TypeOK', IdInv, RunInv, NEW r, NEW lost \in BOOLEAN, NEW a \in Answers,
         Executes(r, lost, a)
  PROVE  RunInv'
<1>1. r \in Requests /\ r = backlog[1] /\ 1 \in DOMAIN backlog /\ ~Seen(r)
  BY BacklogHead DEF Executes
<1>2. PICK x : x = [id |-> r.id, answer |-> a]
  OBVIOUS
<1>3. x \in Entries /\ x.id = r.id
  BY <1>1, <1>2 DEF Requests, Entries
<1>4. PICK th : th = Ran(thr, r)
  OBVIOUS
<1>5. thr \in [Threads -> ThreadStates]
  BY DEF TypeOK
<1>6. th \in [Threads -> ThreadStates]
      /\ \A t \in Threads : th[t].id = thr[t].id /\ th[t].pc = thr[t].pc
  BY <1>5, <1>1, <1>4, RanFacts
<1>7. thr' = Delivered(th, r, lost, a)
      /\ hist' = (IF Kept(r.cmd) THEN record(hist, x) ELSE hist)
  BY <1>2, <1>4 DEF Executes
<1> SUFFICES ASSUME NEW t \in Threads PROVE RunOK(t, thr'[t], hist')
  BY DEF RunInv
<1>8. RunOK(t, thr[t], hist)
  BY DEF RunInv
<1>9. CASE thr[t].id # r.id
  <2>1. RunOK(t, th[t], hist')
    BY <1>1, <1>3, <1>4, <1>6, <1>7, <1>8, <1>9, OtherRuns
  <2>2. ~(t = r.from /\ Waits(th, r))
    BY <1>6, <1>9 DEF Waits
  <2>3. BookOK(t, th[t], hist') /\ AckOK(th[t]) /\ GateOK(t, th[t])
    BY <2>1 DEF RunOK
  <2> QED  BY <1>1, <1>6, <1>7, <2>2, <2>3, DeliveryRuns
<1>10. CASE thr[t].id = r.id
  <2>1. r.from = t
    BY <1>1, <1>10 DEF IdInv
  <2>2. t \in Outside => Kept(r.cmd)
    BY <1>1, <2>1 DEF IdInv, Kept, Plain
  <2>3. /\ BookOK(t, th[t], hist') /\ AckOK(th[t]) /\ th[t].runs > 0
        /\ t \in Gateway => th[t].runs <= 1 /\ thr[t].pc = "awaiting"
    BY <1>1, <1>3, <1>4, <1>6, <1>7, <1>8, <1>10, <2>2, OwnRuns
  <2>4. ~(t = r.from /\ Waits(th, r)) => GateOK(t, th[t])
    BY <1>6, <1>10, <2>1, <2>3 DEF Waits, GateOK
  <2> QED  BY <1>1, <1>6, <1>7, <2>3, <2>4, DeliveryRuns
<1> QED  BY <1>9, <1>10

LEMMA ServeRuns ==
  ASSUME TypeOK, TypeOK', IdInv, RunInv, Serve PROVE RunInv'
<1>1. Failed \in Answers /\ ~Failed.ok
  BY FailedAnswer
<1>2. ASSUME NEW lost \in BOOLEAN, HandleDuplicate(lost) PROVE RunInv'
  <2>1. Handles(Head(backlog), lost, Prior(Head(backlog))) /\ Seen(Head(backlog))
    BY <1>2, HandleDuplicateFacts
  <2>2. Prior(Head(backlog)) \in Answers
    BY <2>1, PriorFacts
  <2> QED  BY <2>1, <2>2, HandlesRuns
<1>3. ASSUME NEW lost \in BOOLEAN, HandleExecuted(lost) PROVE RunInv'
  <2>1. Executes(Head(backlog), lost, Reply(Head(backlog).cmd))
    BY <1>3, HandleExecutedFacts
  <2>2. Reply(Head(backlog).cmd) \in Answers
    BY <2>1, BacklogHead, ReplyFacts DEF Executes, Requests, TypeOK
  <2> QED  BY <2>1, <2>2, ExecutesRuns
<1>4. CASE HandleRejected
  BY <1>1, <1>4, HandleRejectedFacts, HandlesRuns
<1>5. CASE HandleUnsaved
  BY <1>1, <1>5, HandleUnsavedFacts, ExecutesRuns
<1> QED  BY <1>2, <1>3, <1>4, <1>5 DEF Serve

LEMMA RunStep ==
  TypeOK /\ TypeOK' /\ IdInv /\ RunInv /\ [Next]_vars => RunInv'
<1> SUFFICES ASSUME TypeOK, TypeOK', IdInv, RunInv, [Next]_vars PROVE RunInv'
  OBVIOUS
<1>1. \A i \in DOMAIN hist : hist[i].id # 0
  BY NoZeroIds
<1>2. CASE Sends
  <2>1. PICK t \in Threads, c \in Commands : Request(t, c)
    BY <1>2 DEF Sends
  <2>2. PICK n \in Nat \ {0} :
           /\ n \notin Remembered /\ hist' = hist
           /\ \A s \in Threads \ {t} : thr'[s] = thr[s]
           /\ thr'[t].pc = "awaiting" /\ thr'[t].id = n
           /\ thr'[t].runs = 0 /\ thr'[t].since = 0
    BY <2>1, RequestFacts
  <2>3. \A i \in DOMAIN hist : hist[i].id # n
    BY <2>2, IdsRemembered
  <2>4. RunOK(t, thr'[t], hist')
    BY <2>2, <2>3 DEF RunOK, AckOK, GateOK, BookOK
  <2> QED  BY <2>2, <2>4 DEF RunInv
<1>3. ASSUME NEW t \in Threads, ConnectFails(t) \/ Timeout(t) PROVE RunInv'
  <2>1. thr' = Lost(thr, t) /\ hist' = hist
    BY <1>3, LosesType
  <2>2. thr \in [Threads -> ThreadStates] /\ RunOK(t, thr[t], hist)
    BY DEF TypeOK, RunInv
  <2>3. /\ \A s \in Threads \ {t} : thr'[s] = thr[s]
        /\ t = Reporter => thr'[t] = IdleThread
        /\ t # Reporter => /\ thr'[t].answer = Failed
                           /\ thr'[t].id = (IF t \in Outside THEN thr[t].id ELSE 0)
                           /\ thr'[t].runs = thr[t].runs /\ thr'[t].since = thr[t].since
    BY <2>1, <2>2, LostFacts
  <2>4. RunOK(t, thr'[t], hist')
    <3>1. CASE t = Reporter
      BY <1>1, <2>1, <2>3, <3>1, IdleRuns
    <3>2. CASE t # Reporter
      <4>1. AckOK(thr'[t])
        BY <2>3, <3>2, FailedAnswer DEF AckOK
      <4>2. GateOK(t, thr'[t])
        BY <2>2, <2>3, <3>2 DEF RunOK, GateOK, Gateway
      <4>3. BookOK(t, thr'[t], hist')
        BY <1>1, <2>1, <2>2, <2>3, <3>2 DEF RunOK, BookOK
      <4> QED  BY <4>1, <4>2, <4>3 DEF RunOK
    <3> QED  BY <3>1, <3>2
  <2> QED  BY <2>1, <2>3, <2>4 DEF RunInv
<1>4. ASSUME NEW t \in Threads, Observe(t) \/ GiveUp(t) PROVE RunInv'
  <2>1. thr' = [thr EXCEPT ![t] = IdleThread] /\ hist' = hist
    BY <1>4, ObserveFacts DEF GiveUp
  <2>2. thr'[t] = IdleThread /\ \A s \in Threads \ {t} : thr'[s] = thr[s]
    BY <2>1 DEF TypeOK
  <2>3. RunOK(t, thr'[t], hist')
    BY <1>1, <2>1, <2>2, IdleRuns
  <2> QED  BY <2>1, <2>2, <2>3 DEF RunInv
<1>5. ASSUME NEW t \in Threads, Retry(t) PROVE RunInv'
  <2>1. /\ t \in Outside /\ hist' = hist
        /\ \A s \in Threads \ {t} : thr'[s] = thr[s]
        /\ thr'[t].pc = "awaiting" /\ thr'[t].id = thr[t].id
        /\ thr'[t].runs = thr[t].runs /\ thr'[t].since = thr[t].since
    BY <1>5, RetryFacts
  <2>2. RunOK(t, thr[t], hist)
    BY DEF RunInv
  <2>3. RunOK(t, thr'[t], hist')
    BY <2>1, <2>2 DEF RunOK, AckOK, GateOK, BookOK, Gateway
  <2> QED  BY <2>1, <2>3 DEF RunInv
<1>6. CASE Serve
  BY <1>6, ServeRuns
<1>7. CASE (\E k \in Keys, v \in Values : LocalChange(k, v)) \/ UNCHANGED vars
  <2>1. thr' = thr /\ hist' = hist
    BY <1>7 DEF LocalChange, vars
  <2> QED  BY <2>1 DEF RunInv
<1>8. CASE Restart
  <2>1. hist' = <<>> /\ DOMAIN hist' = {}
    BY <1>8 DEF Restart
  <2> SUFFICES ASSUME NEW t \in Threads PROVE RunOK(t, thr'[t], hist')
    BY DEF RunInv
  <2>2. RunOK(t, thr[t], hist)
    BY DEF RunInv
  <2>3. CASE thr[t].pc = "awaiting" /\ t = Reporter
    BY <1>8, <2>1, <2>3, RestartFacts, IdleRuns
  <2>4. CASE ~(thr[t].pc = "awaiting" /\ t = Reporter)
    <3>1. /\ thr'[t].runs = thr[t].runs
          /\ thr'[t].since = (IF thr[t].runs > 0 THEN Capacity ELSE thr[t].since)
          /\ thr[t].pc # "awaiting" =>
               /\ thr'[t].pc = thr[t].pc /\ thr'[t].lost = thr[t].lost
               /\ thr'[t].answer = thr[t].answer /\ thr'[t].id = thr[t].id
          /\ thr[t].pc = "awaiting" =>
               /\ thr'[t].answer = Failed
               /\ thr'[t].id = (IF t \in Outside THEN thr[t].id ELSE 0)
      BY <1>8, <2>4, RestartFacts
    <3>2. Capacity \in Nat /\ thr[t].runs \in 0..2
      BY CommandsAssumption DEF TypeOK, ThreadStates
    <3>3. AckOK(thr'[t])
      BY <2>2, <3>1, FailedAnswer DEF RunOK, AckOK
    <3>4. GateOK(t, thr'[t])
      BY <2>2, <3>1 DEF RunOK, GateOK, Gateway
    <3>5. BookOK(t, thr'[t], hist')
      BY <2>1, <2>2, <3>1, <3>2 DEF RunOK, BookOK
    <3> QED  BY <3>3, <3>4, <3>5 DEF RunOK
  <2> QED  BY <2>3, <2>4
<1> QED
  BY <1>2, <1>3, <1>4, <1>5, <1>6, <1>7, <1>8, SendsFacts DEF Next

----------------------------------------------------------------------------
(* The theorems.                                                           *)

(* The control path is type correct: ids, answers, the store, the history  *)
(* and the backlog keep to their types and bounds, and the settings to     *)
(* their ranges, whatever the requests ask for.                            *)
THEOREM CommandsTypeCorrect == Spec => []TypeOK
<1>1. Init => TypeOK /\ IdInv
  BY CommandsTypeInit, IdInit
<1>2. TypeOK /\ IdInv /\ [Next]_vars => TypeOK' /\ IdInv'
  BY CommandsTypeStep, IdStep
<1> QED  BY <1>1, <1>2, PTL DEF Spec

(* Ids are never shared, and a request at the speaker belongs to the       *)
(* thread whose id it carries.                                             *)
LEMMA IdsHold == Spec => [](TypeOK /\ IdInv)
<1>1. Init => TypeOK /\ IdInv
  BY CommandsTypeInit, IdInit
<1>2. TypeOK /\ IdInv /\ [Next]_vars => TypeOK' /\ IdInv'
  BY CommandsTypeStep, IdStep
<1> QED  BY <1>1, <1>2, PTL DEF Spec

(* What SpeakerStateStore shows as confirmed the speaker has really had:   *)
(* CommandExecutor echoes what it applied, CommandHistory repeats only     *)
(* what it echoed, and nothing makes a value up on the way.                *)
THEOREM ConfirmedWasHeldHolds == Spec => []ConfirmedWasHeld
<1>1. Init => HonestInv /\ ConfirmedWasHeld
  BY HonestInit
<1>2. TypeOK /\ TypeOK' /\ HonestInv /\ ConfirmedWasHeld /\ [Next]_vars
        => HonestInv' /\ ConfirmedWasHeld'
  BY HonestStep
<1> QED  BY <1>1, <1>2, CommandsTypeCorrect, PTL DEF Spec

LEMMA RunsHold == Spec => []RunInv
<1>1. Init => RunInv
  BY RunInit
<1>2. TypeOK /\ TypeOK' /\ IdInv /\ RunInv /\ [Next]_vars => RunInv'
  BY RunStep
<1> QED  BY <1>1, <1>2, IdsHold, PTL DEF Spec

(* A thread is told of a success only if its command was executed: the     *)
(* answer CommandRouter takes out of CommandHistory is never that of a     *)
(* command of somebody else.                                               *)
THEOREM AckMeansExecutedHolds == Spec => []AckMeansExecuted
<1>1. RunInv => AckMeansExecuted
  BY DEF RunInv, RunOK, AckOK, AckMeansExecuted
<1> QED  BY <1>1, RunsHold, PTL

(* A command that is sent again runs again only when CommandHistory has    *)
(* dropped it, after Capacity other records or a restart, however          *)
(* requests, time-outs, telemetry and lost answers interleave.             *)
THEOREM RepeatsOnlyWhenForgottenHolds == Spec => []RepeatsOnlyWhenForgotten
<1>1. TypeOK /\ RunInv => RepeatsOnlyWhenForgotten
  <2> SUFFICES ASSUME TypeOK, RunInv, NEW t \in Threads, thr[t].runs > 1
               PROVE  thr[t].since >= Capacity
    BY DEF RepeatsOnlyWhenForgotten
  <2>1. RunOK(t, thr[t], hist) /\ thr[t].runs \in 0..2
    BY DEF RunInv, TypeOK, ThreadStates
  <2>2. t \in Outside
    BY <2>1 DEF RunOK, GateOK, Gateway
  <2> QED  BY <2>1, <2>2 DEF RunOK, BookOK
<1> QED  BY <1>1, RunsHold, CommandsTypeCorrect, PTL

=============================================================================
