--------------------------- MODULE Network_proofs ---------------------------
(***************************************************************************)
(* Theorems about the two modules of networking.  Discovery, for any       *)
(* number of neighbours, changes of the daemon and failing calls: the      *)
(* callbacks of the mDNS library never use what the main thread has freed, *)
(* and a lookup that is not cut short has every answer.  Provisioning, for *)
(* any number of joins, link changes and queued events: the setup channels *)
(* follow the connectivity that NetworkManager announces.                  *)
(***************************************************************************)
EXTENDS Discovery, Provisioning, FiniteSetTheorems, TLAPS

(* The advertisement as the main thread builds it up and takes it down.    *)
(* Each stage says which objects exist; the thread runs only between the   *)
(* last stage of advertise() and the first of stopAdvertising(), and makes *)
(* the group, unless the first callback has, which runs in newClient.      *)
Built ==
    /\ main \in {"idle", "advertise", "client", "start", "stop", "free group", "free rest"}
    /\ main = "idle" => /\ pollThread = "running" => asked
                        /\ pollThread # "running" => ~ctx /\ client = "none" /\ ~group
    /\ main = "advertise" => asked /\ ~ctx /\ client = "none" /\ ~group
    /\ main = "client" => asked /\ ctx /\ client = "none" /\ ~group
    /\ main = "start" => asked /\ ctx /\ client # "none"
    /\ main = "free rest" => ~group
    /\ main \notin {"idle", "stop"} => pollThread # "running"

(* A callback has its thread, which has the context and the client.        *)
Owned ==
    /\ pollThread = "running" => ctx /\ client # "none"
    /\ callback # "none" => pollThread = "running" \/ main = "start"
    /\ callback = "service" => group
    /\ ~stray

(* What the streamer has on the network belongs to its entry group.        *)
OnAir == "streamer" \in air => group

ContextInv == Built /\ Owned /\ OnAir

(* The main thread: each stage leaves what the next one expects.           *)
LEMMA MainKeeps == ASSUME ContextInv, Main PROVE ContextInv'
<1> USE DEF ContextInv, Built, Owned, OnAir
<1>1. CASE start
  BY <1>1 DEF start
<1>2. CASE newPoll
  BY <1>2 DEF newPoll
<1>3. CASE newClient
  BY <1>3 DEF newClient
<1>4. CASE startPoll
  BY <1>4 DEF startPoll
<1>5. CASE stop
  BY <1>5 DEF stop
<1>6. CASE stopPoll
  BY <1>6 DEF stopPoll
<1>7. CASE freeGroup
  BY <1>7 DEF freeGroup
<1>8. CASE freeRest
  BY <1>8 DEF freeRest
<1> QED  BY <1>1, <1>2, <1>3, <1>4, <1>5, <1>6, <1>7, <1>8 DEF Main

(* The callbacks: the thread that runs them proves that the objects exist. *)
LEMMA PollKeeps == ASSUME ContextInv, PollThread PROVE ContextInv'
<1> USE DEF ContextInv, Built, Owned, OnAir, Quiet
<1>1. CASE clientCallback
  BY <1>1 DEF clientCallback
<1>2. CASE addGroup
  BY <1>2 DEF addGroup
<1>3. CASE addService
  BY <1>3 DEF addService
<1> QED  BY <1>1, <1>2, <1>3 DEF PollThread

(* Everything else at most takes services off the air, or puts those of    *)
(* other devices on it.                                                    *)
LEMMA OthersKeep ==
  ASSUME ContextInv,
         UNCHANGED <<main, asked, ctx, pollThread, group, callback, stray>>,
         client' = "none" <=> client = "none",
         "streamer" \in air' => "streamer" \in air
  PROVE  ContextInv'
BY DEF ContextInv, Built, Owned, OnAir

LEMMA LookupRests ==
  ASSUME NEW p \in Programs, Lookup(p)
  PROVE  UNCHANGED <<main, asked, ctx, pollThread, client, group, callback, stray, air>>
<1> USE DEF Looks, Alone, publication
<1>1. CASE beginBrowse(p)
  BY <1>1 DEF beginBrowse
<1>2. CASE announced(p)
  BY <1>2 DEF announced
<1>3. CASE allForNow(p)
  BY <1>3 DEF allForNow
<1>4. CASE browseFails(p)
  BY <1>4 DEF browseFails
<1>5. CASE resolved(p)
  BY <1>5 DEF resolved
<1>6. CASE tick(p)
  BY <1>6 DEF tick
<1>7. CASE endBrowse(p)
  BY <1>7 DEF endBrowse
<1>8. CASE returned(p)
  BY <1>8 DEF returned
<1> QED  BY <1>1, <1>2, <1>3, <1>4, <1>5, <1>6, <1>7, <1>8 DEF Lookup, Callbacks

(* CallbacksOwnTheirContext: no callback of the library runs on a context, *)
(* a client or a group that stopAdvertising() has freed, and an            *)
(* advertisement that was taken down leaves no service behind.             *)
THEOREM CallbacksOwnTheirContextHolds == Spec => []CallbacksOwnTheirContext
<1>1. Init => ContextInv
  BY DiscoveryAssumption DEF Init, ContextInv, Built, Owned, OnAir
<1>2. ContextInv /\ [Next]_vars => ContextInv'
  <2> SUFFICES ASSUME ContextInv, [Next]_vars PROVE ContextInv'
    OBVIOUS
  <2>1. CASE DaemonChanges
    <3>1. "streamer" \in air' => "streamer" \in air
      BY <2>1, DiscoveryAssumption DEF DaemonChanges
    <3>2. client' = "none" <=> client = "none"
      BY <2>1 DEF DaemonChanges
    <3> QED  BY <2>1, <3>1, <3>2, OthersKeep DEF DaemonChanges
  <2>2. CASE Main
    BY <2>2, MainKeeps
  <2>3. CASE PollThread
    BY <2>3, PollKeeps
  <2>4. CASE publishBeacon \/ stopBeacon
    BY <2>4, OthersKeep DEF publishBeacon, stopBeacon, Alone, publication
  <2>5. CASE browseStreamers \/ browseSpeakers
    BY <2>5, LookupRests, OthersKeep DEF browseStreamers, browseSpeakers, Programs
  <2>6. CASE \E w \in Workers : takeHost(w) \/ probe(w)
    BY <2>6, OthersKeep DEF takeHost, probe, Scans, publication
  <2>7. CASE scanReturns \/ UNCHANGED vars
    BY <2>7, OthersKeep DEF scanReturns, vars, publication
  <2> QED  BY <2>1, <2>2, <2>3, <2>4, <2>5, <2>6, <2>7 DEF Next
<1>3. ContextInv => CallbacksOwnTheirContext
  BY DEF ContextInv, Built, Owned, OnAir, CallbacksOwnTheirContext
<1> QED  BY <1>1, <1>2, <1>3, PTL DEF Spec
----------------------------------------------------------------------------
(* A browse: what was announced is being resolved, was found or was given  *)
(* up by the library, and only one of the three; the loop is left at once  *)
(* only with nothing to resolve, or after a failure.                       *)
Services == {"speaker", "streamer"} \union Neighbours
Browses == [pc : {"idle", "polling", "returned"}, told : SUBSET Services,
            pending : SUBSET Services, all : BOOLEAN, quit : BOOLEAN,
            result : SUBSET Services, unresolved : SUBSET Services, failed : BOOLEAN,
            ticks : Int]
Sorted(b) ==
    /\ b.told = b.pending \union b.result \union b.unresolved
    /\ b.result \intersect b.unresolved = {}
    /\ b.pending \intersect (b.result \union b.unresolved) = {}
    /\ b.quit /\ ~b.failed => b.pending = {}
Complete(p) ==
    browse[p].pc = "returned" /\ ended[p] = "complete" => browse[p].quit /\ ~browse[p].failed
BrowseInv ==
    /\ browse \in [Programs -> Browses]
    /\ ended \in [Programs -> {"not yet", "complete", "cut", "error"}]
    /\ \A p \in Programs : Sorted(browse[p]) /\ Complete(p)

(* A scan: the hosts below the counter were found, are no speakers, or are *)
(* being probed by one worker; each is found once, and a worker is done    *)
(* only when the counter has passed the last host.                         *)
ScanInv ==
    /\ next \in Nat /\ next >= 1
    /\ probing \in [Workers -> Int] /\ found \in Seq(Nat)
    /\ speakers \subseteq 1..LastHost
    /\ \A w \in Workers : /\ probing[w] \in 1..LastHost \/ probing[w] = 0 \/ probing[w] = -1
                          /\ probing[w] > 0 => probing[w] < next
                          /\ probing[w] = -1 => next > LastHost
    /\ \A v, w \in Workers : v # w /\ probing[v] > 0 => probing[v] # probing[w]
    /\ \A i \in DOMAIN found : /\ found[i] \in speakers /\ found[i] < next
                               /\ \A w \in Workers : probing[w] # found[i]
    /\ \A i, j \in DOMAIN found : i # j => found[i] # found[j]
    /\ \A h \in speakers :
         h < next => (\E i \in DOMAIN found : found[i] = h) \/ (\E w \in Workers : probing[w] = h)

(* A worker takes the next host: nobody else has it.                       *)
LEMMA TakeKeepsScan ==
  ASSUME ScanInv, NEW w \in Workers, takeHost(w)
  PROVE  ScanInv'
<1> USE DiscoveryAssumption
<1>1. PICK n \in Nat : n = next /\ n >= 1
  BY DEF ScanInv
<1>2. /\ UNCHANGED <<found, speakers>> /\ next' = n + 1 /\ probing[w] = 0
      /\ probing' = [probing EXCEPT ![w] = IF n > LastHost THEN -1 ELSE n]
  BY <1>1 DEF takeHost, Scans
<1>3. PICK x \in Int : x = IF n > LastHost THEN -1 ELSE n
  OBVIOUS
<1>4. /\ probing' \in [Workers -> Int] /\ probing'[w] = x
      /\ \A v \in Workers \ {w} : probing'[v] = probing[v]
  BY <1>2, <1>3 DEF ScanInv
<1>5. (x = -1 /\ n > LastHost) \/ (x = n /\ n \in 1..LastHost)
  BY <1>1, <1>3
<1>6. next' \in Nat /\ next' >= 1 /\ found' \in Seq(Nat) /\ speakers' \subseteq 1..LastHost
  BY <1>1, <1>2 DEF ScanInv
<1>7. \A v \in Workers : /\ probing'[v] \in 1..LastHost \/ probing'[v] = 0 \/ probing'[v] = -1
                         /\ probing'[v] > 0 => probing'[v] < next'
                         /\ probing'[v] = -1 => next' > LastHost
  <2>1. SUFFICES ASSUME NEW v \in Workers
                 PROVE  /\ probing'[v] \in 1..LastHost \/ probing'[v] = 0 \/ probing'[v] = -1
                        /\ probing'[v] > 0 => probing'[v] < next'
                        /\ probing'[v] = -1 => next' > LastHost
    OBVIOUS
  <2>2. CASE v = w
    BY <1>1, <1>2, <1>4, <1>5, <2>2
  <2>3. CASE v # w
    BY <1>1, <1>2, <1>4, <2>3 DEF ScanInv
  <2> QED  BY <2>2, <2>3
<1>8. \A u, v \in Workers : u # v /\ probing'[u] > 0 => probing'[u] # probing'[v]
  <2>1. SUFFICES ASSUME NEW u \in Workers, NEW v \in Workers, u # v, probing'[u] > 0
                 PROVE  probing'[u] # probing'[v]
    OBVIOUS
  <2>2. CASE u = w
    <3>1. probing'[u] = n /\ probing'[v] = probing[v] /\ probing[v] \in Int
      BY <1>4, <1>5, <2>1, <2>2 DEF ScanInv
    <3>2. probing[v] > 0 => probing[v] < n
      BY <1>1 DEF ScanInv
    <3> QED  BY <1>1, <3>1, <3>2
  <2>3. CASE v = w
    <3>1. probing'[u] = probing[u] /\ probing[u] \in Int
      BY <1>4, <2>1, <2>3 DEF ScanInv
    <3>2. probing[u] < n
      BY <1>1, <2>1, <3>1 DEF ScanInv
    <3> QED  BY <1>4, <1>5, <2>1, <2>3, <3>1, <3>2
  <2>4. CASE u # w /\ v # w
    BY <1>4, <2>1, <2>4 DEF ScanInv
  <2> QED  BY <2>2, <2>3, <2>4
<1>9. ASSUME NEW i \in DOMAIN found
      PROVE  found[i] \in speakers /\ found[i] < next' /\ \A v \in Workers : probing'[v] # found[i]
  <2>1. found[i] \in speakers /\ found[i] < n /\ found[i] \in 1..LastHost
    BY <1>1 DEF ScanInv
  <2>2. \A v \in Workers \ {w} : probing'[v] # found[i]
    BY <1>4 DEF ScanInv
  <2>3. probing'[w] # found[i]
    BY <1>4, <1>5, <2>1
  <2> QED  BY <1>1, <1>2, <2>1, <2>2, <2>3
<1>10. ASSUME NEW h \in speakers, h < next'
       PROVE  (\E i \in DOMAIN found : found[i] = h) \/ (\E v \in Workers : probing'[v] = h)
  <2>1. h \in 1..LastHost
    BY DEF ScanInv
  <2>2. CASE h = n
    BY <1>4, <1>5, <2>1, <2>2
  <2>3. CASE h < n
    <3>1. (\E i \in DOMAIN found : found[i] = h) \/ (\E v \in Workers : probing[v] = h)
      BY <1>1, <2>3 DEF ScanInv
    <3>2. probing[w] # h
      BY <1>2, <2>1
    <3> QED  BY <1>4, <3>1, <3>2
  <2> QED  BY <1>1, <1>2, <1>10, <2>1, <2>2, <2>3
<1>11. \A i, j \in DOMAIN found' : i # j => found'[i] # found'[j]
  BY <1>2 DEF ScanInv
<1>12. \A i \in DOMAIN found' : /\ found'[i] \in speakers' /\ found'[i] < next'
                                /\ \A v \in Workers : probing'[v] # found'[i]
  BY <1>2, <1>9
<1>13. \A h \in speakers' : h < next' => \/ \E i \in DOMAIN found' : found'[i] = h
                                        \/ \E v \in Workers : probing'[v] = h
  BY <1>2, <1>10
<1> QED  BY <1>4, <1>6, <1>7, <1>8, <1>11, <1>12, <1>13 DEF ScanInv

(* A worker has its answer: the host is found by it and by nobody else.    *)
LEMMA ProbeKeepsScan ==
  ASSUME ScanInv, NEW w \in Workers, probe(w)
  PROVE  ScanInv'
<1> USE DiscoveryAssumption
<1>1. PICK h \in Int : h = probing[w] /\ h > 0
  BY DEF ScanInv, probe
<1>2. /\ UNCHANGED <<next, speakers>> /\ probing' = [probing EXCEPT ![w] = 0]
      /\ found' = IF h \in speakers THEN Append(found, h) ELSE found
  BY <1>1 DEF probe, Scans
<1>3. h \in 1..LastHost /\ h < next
  BY <1>1 DEF ScanInv
<1>4. /\ probing' \in [Workers -> Int] /\ probing'[w] = 0
      /\ \A v \in Workers \ {w} : probing'[v] = probing[v]
  BY <1>2 DEF ScanInv
<1>5. \A v \in Workers \ {w} : probing'[v] # h
  BY <1>1, <1>4 DEF ScanInv
<1>6. /\ found' \in Seq(Nat)
      /\ \A i \in DOMAIN found : i \in DOMAIN found' /\ found'[i] = found[i]
      /\ \A i \in DOMAIN found' : i \in DOMAIN found \/ (h \in speakers /\ found'[i] = h)
      /\ \A i, j \in DOMAIN found' : i \notin DOMAIN found /\ j \notin DOMAIN found => i = j
      /\ h \in speakers => \E i \in DOMAIN found' : found'[i] = h
  <2>1. found \in Seq(Nat) /\ h \in Nat
    BY <1>3 DEF ScanInv
  <2>2. CASE h \in speakers
    <3>1. /\ found' \in Seq(Nat) /\ Len(found) \in Nat /\ DOMAIN found = 1..Len(found)
          /\ DOMAIN found' = 1..(Len(found) + 1)
          /\ \A i \in DOMAIN found : found'[i] = found[i]
          /\ found'[Len(found) + 1] = h
      BY <1>2, <2>1, <2>2
    <3> QED  BY <2>2, <3>1
  <2>3. CASE h \notin speakers
    BY <1>2, <2>1, <2>3
  <2> QED  BY <2>2, <2>3
<1>7. \A v \in Workers : /\ probing'[v] \in 1..LastHost \/ probing'[v] = 0 \/ probing'[v] = -1
                         /\ probing'[v] > 0 => probing'[v] < next'
                         /\ probing'[v] = -1 => next' > LastHost
  <2>1. SUFFICES ASSUME NEW v \in Workers
                 PROVE  /\ probing'[v] \in 1..LastHost \/ probing'[v] = 0 \/ probing'[v] = -1
                        /\ probing'[v] > 0 => probing'[v] < next'
                        /\ probing'[v] = -1 => next' > LastHost
    OBVIOUS
  <2>2. CASE v = w
    BY <1>4, <2>2
  <2>3. CASE v # w
    BY <1>2, <1>4, <2>3 DEF ScanInv
  <2> QED  BY <2>2, <2>3
<1>8. ASSUME NEW u \in Workers, NEW v \in Workers, u # v, probing'[u] > 0
      PROVE  probing'[u] # probing'[v]
  <2>1. u # w /\ probing'[u] = probing[u]
    BY <1>4, <1>8
  <2>2. CASE v = w
    BY <1>4, <1>8, <2>2
  <2>3. CASE v # w
    BY <1>4, <1>8, <2>1, <2>3 DEF ScanInv
  <2> QED  BY <2>2, <2>3
<1>9. ASSUME NEW i \in DOMAIN found'
      PROVE  /\ found'[i] \in speakers /\ found'[i] < next
             /\ \A v \in Workers : probing'[v] # found'[i]
  <2>1. CASE i \in DOMAIN found
    <3>1. found'[i] = found[i] /\ found[i] \in speakers /\ found[i] < next
      BY <1>6, <2>1 DEF ScanInv
    <3>2. \A v \in Workers \ {w} : probing'[v] # found[i]
      BY <1>4, <2>1 DEF ScanInv
    <3>3. found[i] # 0
      BY <3>1 DEF ScanInv
    <3> QED  BY <1>4, <3>1, <3>2, <3>3
  <2>2. CASE h \in speakers /\ found'[i] = h
    BY <1>1, <1>3, <1>4, <1>5, <2>2
  <2> QED  BY <1>6, <2>1, <2>2
<1>10. ASSUME NEW i \in DOMAIN found', NEW j \in DOMAIN found', i # j
       PROVE  found'[i] # found'[j]
  <2>1. \A k \in DOMAIN found : found'[k] = found[k] /\ found[k] # h
    BY <1>1, <1>6 DEF ScanInv
  <2>2. CASE i \in DOMAIN found /\ j \in DOMAIN found
    BY <1>10, <2>1, <2>2 DEF ScanInv
  <2>3. CASE i \in DOMAIN found /\ j \notin DOMAIN found
    BY <1>6, <2>1, <2>3
  <2>4. CASE i \notin DOMAIN found /\ j \in DOMAIN found
    BY <1>6, <2>1, <2>4
  <2> QED  BY <1>6, <1>10, <2>2, <2>3, <2>4
<1>11. ASSUME NEW g \in speakers, g < next
       PROVE  (\E i \in DOMAIN found' : found'[i] = g) \/ (\E v \in Workers : probing'[v] = g)
  <2>1. CASE g = h
    BY <1>6, <2>1
  <2>2. CASE g # h
    <3>1. (\E i \in DOMAIN found : found[i] = g) \/ (\E v \in Workers : probing[v] = g)
      BY <1>11 DEF ScanInv
    <3> QED  BY <1>1, <1>4, <1>6, <2>2, <3>1
  <2> QED  BY <2>1, <2>2
<1>12. next' \in Nat /\ next' >= 1 /\ speakers' \subseteq 1..LastHost
  BY <1>2 DEF ScanInv
<1> QED  BY <1>2, <1>4, <1>6, <1>7, <1>8, <1>9, <1>10, <1>11, <1>12 DEF ScanInv

(* With all workers done, the list is the speakers, each once.             *)
LEMMA ScanFindsAll ==
  ASSUME ScanInv, Joined
  PROVE  /\ {found[i] : i \in DOMAIN found} = speakers
         /\ Len(found) = Cardinality(speakers)
<1>1. PICK w \in Workers : probing[w] = -1
  BY DiscoveryAssumption DEF Joined
<1>2. next > LastHost /\ next \in Nat /\ LastHost \in Nat
  BY <1>1, DiscoveryAssumption DEF ScanInv
<1>3. \A h \in speakers : h \in 1..LastHost
  BY DEF ScanInv
<1>4. \A h \in speakers : h < next /\ \A v \in Workers : probing[v] # h
  BY <1>2, <1>3 DEF Joined
<1>5. \A h \in speakers : \E i \in DOMAIN found : found[i] = h
  BY <1>4 DEF ScanInv
<1>6. \A i \in DOMAIN found : found[i] \in speakers
  BY DEF ScanInv
<1>7. {found[i] : i \in DOMAIN found} = speakers
  BY <1>5, <1>6
<1>8. PICK n \in Nat : n = Len(found) /\ DOMAIN found = 1..n
  BY DEF ScanInv
<1>9. found \in Bijection(1..n, speakers)
  <2>1. found \in [1..n -> speakers]
    BY <1>6, <1>8 DEF ScanInv
  <2>2. \A i, j \in 1..n : found[i] = found[j] => i = j
    BY <1>8 DEF ScanInv
  <2>3. \A h \in speakers : \E i \in 1..n : found[i] = h
    BY <1>5, <1>8
  <2> QED  BY <2>1, <2>2, <2>3 DEF Bijection, Injection, Surjection,
                                    IsInjective
<1>10. ExistsBijection(1..n, speakers)
  BY <1>9 DEF ExistsBijection
<1>11. Cardinality(speakers) = n
  BY <1>10, FS_CountingElements
<1> QED  BY <1>7, <1>8, <1>11
(* One program's browse takes a step.                                      *)
LEMMA BrowseFrame ==
  ASSUME BrowseInv, NEW p \in Programs, NEW b \in Browses, Sorted(b),
         browse' = [browse EXCEPT ![p] = b],
         ended' \in [Programs -> {"not yet", "complete", "cut", "error"}],
         \A q \in Programs \ {p} : ended'[q] = ended[q],
         b.pc = "returned" /\ ended'[p] = "complete" => b.quit /\ ~b.failed
  PROVE  BrowseInv'
<1>1. /\ browse' \in [Programs -> Browses] /\ browse'[p] = b
      /\ \A q \in Programs \ {p} : browse'[q] = browse[q]
  BY DEF BrowseInv
<1>2. ASSUME NEW q \in Programs PROVE Sorted(browse'[q]) /\ Complete(q)'
  <2>1. CASE q = p
    BY <1>1, <2>1 DEF Complete
  <2>2. CASE q # p
    BY <1>1, <2>2 DEF BrowseInv, Complete, Sorted
  <2> QED  BY <2>1, <2>2
<1> QED  BY <1>1, <1>2 DEF BrowseInv

LEMMA NoBrowseType == NoBrowse \in Browses /\ Sorted(NoBrowse) /\ NoBrowse.pc = "idle"
<1>1. NoBrowse \in Browses
  BY DEF NoBrowse, Browses, Services
<1> QED  BY <1>1 DEF NoBrowse, Sorted

(* maybeQuit: the loop is left only when nothing is left to resolve.       *)
LEMMA QuitKeeps ==
  ASSUME NEW b \in Browses, Sorted(b)
  PROVE  /\ maybeQuit(b) \in Browses /\ Sorted(maybeQuit(b)) /\ maybeQuit(b).pc = b.pc
<1>1. PICK q \in BOOLEAN : q = (b.quit \/ (b.all /\ b.pending = {}))
  BY DEF Browses
<1>2. PICK c \in Browses : c = [b EXCEPT !.quit = q]
  BY DEF Browses
<1>3. /\ c.pc = b.pc /\ c.told = b.told /\ c.pending = b.pending /\ c.result = b.result
      /\ c.unresolved = b.unresolved /\ c.failed = b.failed /\ c.quit = q
  BY <1>2 DEF Browses
<1>4. maybeQuit(b) = c
  BY <1>1, <1>2 DEF maybeQuit
<1>5. Sorted(c)
  BY <1>1, <1>3 DEF Sorted
<1> QED  BY <1>3, <1>4, <1>5

LEMMA LookupKeeps ==
  ASSUME BrowseInv, NEW p \in Programs, Lookup(p)
  PROVE  BrowseInv'
<1>1. PICK o \in Browses : o = browse[p] /\ Sorted(o)
  BY DEF BrowseInv
<1>2. ASSUME NEW b \in Browses, Sorted(b), Looks(p, b), b.pc # "returned",
             \E e \in {"not yet", "complete", "cut", "error"} : ended' = [ended EXCEPT ![p] = e]
      PROVE  BrowseInv'
  <2>1. /\ ended' \in [Programs -> {"not yet", "complete", "cut", "error"}]
        /\ \A q \in Programs \ {p} : ended'[q] = ended[q]
    BY <1>2 DEF BrowseInv
  <2> QED  BY <1>2, <2>1, BrowseFrame DEF Looks
<1>3. ASSUME NEW b \in Browses, Sorted(b), Looks(p, b), b.pc = "polling", UNCHANGED ended
      PROVE  BrowseInv'
  <2>1. /\ ended' \in [Programs -> {"not yet", "complete", "cut", "error"}]
        /\ \A q \in Programs \ {p} : ended'[q] = ended[q]
    BY <1>3 DEF BrowseInv
  <2> QED  BY <1>3, <2>1, BrowseFrame DEF Looks
<1>4. CASE beginBrowse(p)
  <2>1. PICK b \in Browses : b = [NoBrowse EXCEPT !.pc = "polling"]
    BY NoBrowseType DEF Browses
  <2>2. Sorted(b) /\ b.pc = "polling"
    BY <2>1, NoBrowseType DEF Sorted, Browses
  <2>3. CASE Looks(p, b) /\ ended' = [ended EXCEPT ![p] = "not yet"]
    BY <1>2, <2>2, <2>3
  <2>4. CASE Looks(p, NoBrowse) /\ ended' = [ended EXCEPT ![p] = "error"]
    BY <1>2, <2>4, NoBrowseType
  <2> QED  BY <1>4, <2>1, <2>3, <2>4 DEF beginBrowse
<1>5. CASE announced(p)
  <2>1. PICK s \in (air \intersect Wanted(p)) \ o.told :
          Looks(p, [o EXCEPT !.pending = @ \union {s}, !.told = @ \union {s}])
    BY <1>1, <1>5 DEF announced
  <2>2. s \in Services
    BY <2>1 DEF Wanted, Services
  <2>3. PICK b \in Browses : b = [o EXCEPT !.pending = @ \union {s}, !.told = @ \union {s}]
    BY <2>2 DEF Browses
  <2>4. /\ b.pc = o.pc /\ b.told = o.told \union {s} /\ b.pending = o.pending \union {s}
        /\ b.result = o.result /\ b.unresolved = o.unresolved /\ b.quit = o.quit
        /\ b.failed = o.failed
    BY <2>3 DEF Browses
  <2>5. o.pc = "polling" /\ ~o.quit /\ ended' = ended
    BY <1>1, <1>5 DEF announced, Polling
  <2>6. Sorted(b)
    BY <1>1, <2>1, <2>4, <2>5 DEF Sorted
  <2> QED  BY <1>3, <2>1, <2>3, <2>4, <2>5, <2>6
<1>6. CASE allForNow(p)
  <2>1. PICK b \in Browses : b = [o EXCEPT !.all = TRUE]
    BY DEF Browses
  <2>2. /\ b.pc = o.pc /\ b.told = o.told /\ b.pending = o.pending
        /\ b.result = o.result /\ b.unresolved = o.unresolved /\ b.quit = o.quit
        /\ b.failed = o.failed
    BY <2>1 DEF Browses
  <2>3. Sorted(b)
    BY <1>1, <2>2 DEF Sorted
  <2>4. o.pc = "polling" /\ ended' = ended /\ Looks(p, maybeQuit(b))
    BY <1>1, <1>6, <2>1 DEF allForNow, Polling
  <2> QED  BY <1>3, <2>2, <2>3, <2>4, QuitKeeps
<1>7. CASE browseFails(p)
  <2>1. PICK b \in Browses : b = [o EXCEPT !.quit = TRUE, !.failed = TRUE]
    BY DEF Browses
  <2>2. /\ b.pc = o.pc /\ b.told = o.told /\ b.pending = o.pending
        /\ b.result = o.result /\ b.unresolved = o.unresolved /\ b.failed
    BY <2>1 DEF Browses
  <2>3. Sorted(b)
    BY <1>1, <2>2 DEF Sorted
  <2>4. o.pc = "polling" /\ ended' = ended /\ Looks(p, b)
    BY <1>1, <1>7, <2>1 DEF browseFails, Polling
  <2> QED  BY <1>3, <2>2, <2>3, <2>4
<1>8. CASE resolved(p)
  <2>1. PICK s \in o.pending :
          LET b == [o EXCEPT !.pending = @ \ {s}]
          IN \/ Looks(p, maybeQuit([b EXCEPT !.result = @ \union {s}]))
             \/ Looks(p, maybeQuit([b EXCEPT !.unresolved = @ \union {s}]))
    BY <1>1, <1>8 DEF resolved
  <2>2. o.pc = "polling" /\ ~o.quit /\ ended' = ended /\ s \in Services
    BY <1>1, <1>8 DEF resolved, Polling, Browses
  <2>3. PICK b \in Browses : b = [o EXCEPT !.pending = @ \ {s}]
    BY DEF Browses
  <2>4. /\ b.pc = o.pc /\ b.told = o.told /\ b.pending = o.pending \ {s}
        /\ b.result = o.result /\ b.unresolved = o.unresolved /\ b.quit = o.quit
        /\ b.failed = o.failed
    BY <2>3 DEF Browses
  <2>5. PICK c \in Browses : c = [b EXCEPT !.result = @ \union {s}]
    BY <2>2 DEF Browses
  <2>6. /\ c.pc = b.pc /\ c.told = b.told /\ c.pending = b.pending /\ c.quit = b.quit
        /\ c.result = b.result \union {s} /\ c.unresolved = b.unresolved /\ c.failed = b.failed
    BY <2>5 DEF Browses
  <2>7. PICK d \in Browses : d = [b EXCEPT !.unresolved = @ \union {s}]
    BY <2>2 DEF Browses
  <2>8. /\ d.pc = b.pc /\ d.told = b.told /\ d.pending = b.pending /\ d.quit = b.quit
        /\ d.result = b.result /\ d.unresolved = b.unresolved \union {s} /\ d.failed = b.failed
    BY <2>7 DEF Browses
  <2>9. Sorted(c) /\ Sorted(d)
    BY <1>1, <2>1, <2>2, <2>4, <2>6, <2>8 DEF Sorted
  <2>10. Looks(p, maybeQuit(c)) \/ Looks(p, maybeQuit(d))
    BY <2>1, <2>3, <2>5, <2>7
  <2> QED  BY <1>3, <2>2, <2>4, <2>6, <2>8, <2>9, <2>10, QuitKeeps
<1>9. CASE tick(p)
  <2>1. PICK t \in Int : t = o.ticks + 1
    BY DEF Browses
  <2>2. PICK b \in Browses : b = [o EXCEPT !.ticks = t]
    BY DEF Browses
  <2>3. b = [o EXCEPT !.ticks = @ + 1]
    BY <2>1, <2>2
  <2>4. /\ b.pc = o.pc /\ b.told = o.told /\ b.pending = o.pending
        /\ b.result = o.result /\ b.unresolved = o.unresolved /\ b.quit = o.quit
        /\ b.failed = o.failed
    BY <2>2 DEF Browses
  <2>5. Sorted(b)
    BY <1>1, <2>4 DEF Sorted
  <2>6. o.pc = "polling" /\ ended' = ended /\ Looks(p, b)
    BY <1>1, <1>9, <2>3 DEF tick, Polling
  <2> QED  BY <1>3, <2>4, <2>5, <2>6
<1>10. CASE endBrowse(p)
  <2>1. PICK b \in Browses : b = [o EXCEPT !.pc = "returned"]
    BY DEF Browses
  <2>2. /\ b.told = o.told /\ b.pending = o.pending
        /\ b.result = o.result /\ b.unresolved = o.unresolved /\ b.quit = o.quit
        /\ b.failed = o.failed
    BY <2>1 DEF Browses
  <2>3. Sorted(b)
    BY <1>1, <2>2 DEF Sorted
  <2>4. /\ ended' = [ended EXCEPT ![p] = IF o.quit /\ ~o.failed THEN "complete" ELSE "cut"]
        /\ Looks(p, b)
    BY <1>1, <1>10, <2>1 DEF endBrowse
  <2>5. /\ ended' \in [Programs -> {"not yet", "complete", "cut", "error"}]
        /\ \A q \in Programs \ {p} : ended'[q] = ended[q]
        /\ ended'[p] = "complete" => o.quit /\ ~o.failed
    BY <2>4 DEF BrowseInv
  <2> QED  BY <2>2, <2>3, <2>4, <2>5, BrowseFrame DEF Looks
<1>11. CASE returned(p)
  BY <1>2, <1>11, NoBrowseType DEF returned
<1> QED  BY <1>4, <1>5, <1>6, <1>7, <1>8, <1>9, <1>10, <1>11 DEF Lookup, Callbacks

(* LookupsFindAll: a browse that was not cut short returns every service   *)
(* that was announced and could be resolved, in whatever order the library *)
(* calls back; a subnet scan every speaker of the subnet exactly once, for *)
(* any number of workers and hosts.                                        *)
THEOREM LookupsFindAllHolds == Spec => []LookupsFindAll
<1>1. Init => BrowseInv /\ ScanInv
  <2> SUFFICES ASSUME Init PROVE BrowseInv /\ ScanInv
    OBVIOUS
  <2>1. BrowseInv
    BY NoBrowseType DEF Init, BrowseInv, Complete
  <2>2. /\ next = 1 /\ probing = [w \in Workers |-> 0] /\ found = <<>>
        /\ speakers \in SUBSET (1..LastHost)
    BY DEF Init
  <2>3. ScanInv
    BY <2>2, DiscoveryAssumption DEF ScanInv
  <2> QED  BY <2>1, <2>3
<1>2. BrowseInv /\ ScanInv /\ [Next]_vars => BrowseInv' /\ ScanInv'
  <2> SUFFICES ASSUME BrowseInv, ScanInv, [Next]_vars PROVE BrowseInv' /\ ScanInv'
    OBVIOUS
  <2>1. ASSUME UNCHANGED <<browse, ended>> PROVE BrowseInv'
    BY <2>1 DEF BrowseInv, Complete
  <2>2. ASSUME UNCHANGED <<next, probing, found, speakers>> PROVE ScanInv'
    BY <2>2 DEF ScanInv
  <2>3. CASE DaemonChanges
    BY <2>1, <2>2, <2>3 DEF DaemonChanges, scan
  <2>4. CASE Main
    <3>1. Others
      BY <2>4 DEF Main, start, newPoll, newClient, startPoll, stop, stopPoll, freeGroup, freeRest
    <3> QED  BY <2>1, <2>2, <3>1 DEF Others, scan
  <2>5. CASE PollThread
    <3>1. Others
      BY <2>5 DEF PollThread, clientCallback, addGroup, addService
    <3> QED  BY <2>1, <2>2, <3>1 DEF Others, scan
  <2>6. CASE publishBeacon \/ stopBeacon
    BY <2>1, <2>2, <2>6 DEF publishBeacon, stopBeacon, Alone, scan
  <2>7. CASE browseStreamers \/ browseSpeakers
    <3>1. PICK p \in Programs : Lookup(p)
      BY <2>7 DEF browseStreamers, browseSpeakers, Programs
    <3>2. UNCHANGED scan
      BY <3>1 DEF Lookup, Callbacks, beginBrowse, announced, allForNow, browseFails, resolved,
                  tick, endBrowse, returned, Looks, Alone
    <3> QED  BY <2>2, <3>1, <3>2, LookupKeeps DEF scan
  <2>8. ASSUME NEW w \in Workers, takeHost(w) \/ probe(w) PROVE BrowseInv' /\ ScanInv'
    <3>1. Scans
      BY <2>8 DEF takeHost, probe
    <3> QED  BY <2>1, <2>8, <3>1, TakeKeepsScan, ProbeKeepsScan DEF Scans
  <2>9. CASE scanReturns \/ UNCHANGED vars
    BY <2>1, <2>2, <2>9 DEF scanReturns, vars, scan
  <2> QED  BY <2>3, <2>4, <2>5, <2>6, <2>7, <2>8, <2>9 DEF Next
<1>3. BrowseInv /\ ScanInv => LookupsFindAll
  <2> SUFFICES ASSUME BrowseInv, ScanInv PROVE LookupsFindAll
    OBVIOUS
  <2>1. ASSUME NEW p \in Programs, browse[p].pc = "returned", ended[p] = "complete"
        PROVE  browse[p].result = browse[p].told \ browse[p].unresolved
    <3>1. Sorted(browse[p]) /\ browse[p].quit /\ ~browse[p].failed
      BY <2>1 DEF BrowseInv, Complete
    <3> QED  BY <3>1 DEF Sorted
  <2> QED  BY <2>1, ScanFindsAll DEF LookupsFindAll
<1> QED  BY <1>1, <1>2, <1>3, PTL DEF Spec
----------------------------------------------------------------------------
(***************************************************************************)
(* Provisioning.                                                           *)
(***************************************************************************)
(* The types the argument needs: a status that is about to be applied is a *)
(* mode, and a thread orders nothing before its last step.                 *)
SetupTypes ==
  /\ queue \in Seq(Modes) /\ net \in Modes
  /\ seen \in Modes \union {"idle"} /\ worker \in Modes \union {"idle"}
  /\ pc \in [Joiners -> {"idle", "decided", "associating", "checking", "applying"}]
  /\ got \in [Joiners -> Modes \union {"idle"}]
  /\ \A j \in Joiners : pc[j] = "applying" => got[j] # "idle"
  /\ boot \in {"new", "subscribed", "probing", "probed", "applying", "running"}
  /\ call \in [{"main", "worker"} -> {"none", "start", "stop"}]
  /\ job \in {"none", "start", "stop"}
  /\ boot # "running" => call.main = "none"
  /\ worker # "idle" => call.worker = "none"

SetupFlags ==
  /\ bleOn \in BOOLEAN /\ hotspotOn \in BOOLEAN /\ raced \in BOOLEAN
  /\ initial \in [uplink : BOOLEAN, wifi : BOOLEAN]

(* The last event on the bus is what NetworkManager has cached.            *)
Told == queue # <<>> => queue[Len(queue)] = net

(* Unless an event was handled while start() was at it, start() and the    *)
(* worker take turns.                                                      *)
TakeTurns == ~raced /\ Starting => WorkerFree

(* With no event on the bus, what start() has read is still true,          *)
Current == ~raced /\ queue = <<>>
StartInv ==
  Current =>
    /\ boot \in {"probing", "probed", "applying"} => (initial.uplink <=> net # "none")
    /\ boot \in {"probed", "applying"} => (initial.wifi <=> net = "wifi")
    /\ boot = "applying" => (bleOn <=> net # "wifi")

(* ... and afterwards the flags are right, or the worker is about to set   *)
(* the second of them.                                                     *)
HandlerInv ==
  Current /\ boot = "running" =>
    /\ bleOn <=> net # "wifi"
    /\ worker = "idle" => (hotspotOn <=> net = "none")
    /\ worker # "idle" => worker = net

(* The unit follows the flag, by way of systemctl and of the queued job; a *)
(* worker with an uplink in hand will order the stop whatever the flag is. *)
Ordered ==
  IF call.worker # "none" THEN call.worker = "start"
  ELSE IF call.main # "none" THEN call.main = "start"
  ELSE UnitUp
UnitInv == ~raced /\ worker \in {"idle", "none"} => (Ordered <=> hotspotOn)

SetupInv == SetupTypes /\ SetupFlags /\ Told /\ TakeTurns /\ StartInv /\ HandlerInv /\ UnitInv

LEMMA SetupInvInit == SetupInit => SetupInv
<1> SUFFICES ASSUME SetupInit PROVE SetupInv  OBVIOUS
<1>1. net \in Modes /\ net = Uplink
  BY DEF SetupInit, Uplink, Modes
<1>2. queue \in Seq(Modes) /\ Told
  BY <1>1 DEF SetupInit, Told
<1>3. SetupTypes
  BY <1>1, <1>2 DEF SetupInit, SetupTypes
<1>4. SetupFlags
  BY Zenon DEF SetupInit, SetupFlags
<1>5. TakeTurns /\ StartInv /\ HandlerInv /\ UnitInv
  BY DEF SetupInit, TakeTurns, Starting, StartInv, HandlerInv, UnitInv, Ordered, UnitUp
<1> QED  BY <1>2, <1>3, <1>4, <1>5 DEF SetupInv

(* NetworkManager and its surroundings: either nothing is announced and    *)
(* nothing has changed, or the change is the last event on the bus.        *)
LEMMA AnnouncedStep ==
  ASSUME SetupInv, SetupTypes',
         UNCHANGED <<boot, initial, worker, call, bleOn, hotspotOn, raced, unit, job>>,
         \/ UNCHANGED <<queue, net>>
         \/ queue' = Append(queue, net')
  PROVE  SetupInv'
<1>1. SetupFlags' /\ TakeTurns' /\ UnitInv'
  BY DEF SetupInv, SetupFlags, TakeTurns, Starting, WorkerFree, UnitInv, Ordered,
         UnitUp
<1>2. CASE UNCHANGED <<queue, net>>
  BY <1>1, <1>2 DEF SetupInv, Told, Current, StartInv, HandlerInv
<1>3. CASE queue' = Append(queue, net')
  <2>1. queue' # <<>> /\ queue'[Len(queue')] = net'
    BY <1>3 DEF SetupInv, SetupTypes
  <2> QED  BY <1>1, <2>1 DEF SetupInv, Told, Current, StartInv, HandlerInv
<1> QED  BY <1>2, <1>3

LEMMA PublishAnnounces ==
  ASSUME SetupTypes, NEW m \in Modes, NEW p \in BOOLEAN,
         applyStatus(m, p) \/ publishConnected(m, p) \/ publishDisconnected(p)
  PROVE  /\ net' \in Modes /\ queue' \in Seq(Modes)
         /\ UNCHANGED <<queue, net>> \/ queue' = Append(queue, net')
<1>1. queue \in Seq(Modes) /\ net \in Modes /\ "none" \in Modes
  BY DEF SetupTypes, Modes
<1> QED
  BY <1>1 DEF applyStatus, publishConnected, publishDisconnected

LEMMA UplinkIsMode == Uplink \in Modes
BY DEF Uplink, Modes

LEMMA MonitorStep ==
  ASSUME SetupInv, Monitor PROVE SetupInv'
<1> USE DEF control, booting, channels, hotspotUnit
<1>1. CASE MonitorReads
  <2>1. SetupTypes'
    BY <1>1, UplinkIsMode DEF MonitorReads, SetupInv, SetupTypes
  <2> QED  BY <1>1, <2>1, AnnouncedStep DEF MonitorReads
<1>2. CASE MonitorApplies
  <2>1. /\ net' \in Modes /\ queue' \in Seq(Modes)
        /\ UNCHANGED <<queue, net>> \/ queue' = Append(queue, net')
    BY <1>2, PublishAnnounces DEF MonitorApplies, SetupInv, SetupTypes
  <2>2. SetupTypes'
    BY <1>2, <2>1 DEF MonitorApplies, SetupInv, SetupTypes
  <2> QED  BY <1>2, <2>1, <2>2, AnnouncedStep DEF MonitorApplies
<1> QED  BY <1>1, <1>2 DEF Monitor

LEMMA JoinStep ==
  ASSUME SetupInv, NEW j \in Joiners, JoinDecides(j) \/ JoinGoesOn(j)
  PROVE  SetupInv'
<1> USE DEF control, booting, channels, hotspotUnit
<1>1. CASE \/ JoinDecides(j) \/ JoinAbandons(j) \/ JoinBegins(j)
           \/ JoinAssociates(j)
  <2>1. SetupTypes'
    BY <1>1 DEF JoinDecides, JoinAbandons, JoinBegins, JoinAssociates,
                SetupInv, SetupTypes
  <2> QED  BY <1>1, <2>1, AnnouncedStep
              DEF JoinDecides, JoinAbandons, JoinBegins, JoinAssociates
<1>2. CASE JoinReads(j)
  <2>1. SetupTypes'
    BY <1>2, UplinkIsMode DEF JoinReads, SetupInv, SetupTypes, Modes
  <2> QED  BY <1>2, <2>1, AnnouncedStep DEF JoinReads
<1>3. CASE JoinFails(j)
  <2>1. /\ net' \in Modes /\ queue' \in Seq(Modes)
        /\ UNCHANGED <<queue, net>> \/ queue' = Append(queue, net')
    BY <1>3, PublishAnnounces DEF JoinFails, SetupInv, SetupTypes
  <2>2. SetupTypes'
    BY <1>3, <2>1 DEF JoinFails, SetupInv, SetupTypes
  <2> QED  BY <1>3, <2>1, <2>2, AnnouncedStep DEF JoinFails
<1>4. CASE JoinApplies(j)
  <2>1. got[j] \in Modes
    BY <1>4 DEF JoinApplies, SetupInv, SetupTypes
  <2>2. /\ net' \in Modes /\ queue' \in Seq(Modes)
        /\ UNCHANGED <<queue, net>> \/ queue' = Append(queue, net')
    BY <1>4, <2>1, PublishAnnounces DEF JoinApplies, SetupInv
  <2>3. SetupTypes'
    BY <1>4, <2>2 DEF JoinApplies, SetupInv, SetupTypes
  <2> QED  BY <1>4, <2>2, <2>3, AnnouncedStep DEF JoinApplies
<1> QED  BY <1>1, <1>2, <1>3, <1>4 DEF JoinGoesOn

(* A systemctl command that was ordered becomes the unit's job.            *)
LEMMA ActuatesStep ==
  ASSUME SetupInv, NEW t \in {"main", "worker"}, Actuates(t) PROVE SetupInv'
<1> USE DEF booting, channels
<1>1. /\ call[t] # "none" /\ job' = call[t] /\ call' = [call EXCEPT ![t] = "none"]
      /\ UNCHANGED <<queue, net, seen, pc, got, boot, initial, worker, bleOn, hotspotOn, unit,
                     raced>>
  BY DEF Actuates
<1>2. SetupTypes' /\ Told' /\ SetupFlags'
  BY <1>1 DEF SetupInv, SetupTypes, SetupFlags, Told
<1>3. StartInv' /\ HandlerInv'
  BY <1>1 DEF SetupInv, StartInv, HandlerInv, Current
<1>4. TakeTurns'
  BY <1>1 DEF SetupInv, SetupTypes, TakeTurns, Starting, WorkerFree
<1>5. UnitInv'
  BY <1>1 DEF SetupInv, SetupTypes, TakeTurns, Starting, WorkerFree, UnitInv,
              Ordered, UnitUp
<1> QED  BY <1>2, <1>3, <1>4, <1>5 DEF SetupInv

(* start() on the main thread.                                             *)
LEMMA MainStep ==
  ASSUME SetupInv, MainThread PROVE SetupInv'
<1> USE DEF control, booting, channels, hotspotUnit
<1>1. CASE Subscribes
  BY <1>1 DEF Subscribes, SetupInv, SetupTypes, SetupFlags, Told, TakeTurns, Current,
              StartInv, HandlerInv, UnitInv, Ordered, UnitUp, Starting,
              WorkerFree
<1>2. CASE ProbesConnected
  <2>1. /\ boot = "subscribed" /\ boot' = "probing" /\ (raced' <=> raced \/ ~WorkerFree)
        /\ UNCHANGED <<queue, net, seen, pc, got, worker, call, bleOn, hotspotOn, unit, job>>
    BY <1>2 DEF ProbesConnected
  <2>2. SetupTypes' /\ Told'
    BY <2>1 DEF SetupInv, SetupTypes, Told
  <2>3. SetupFlags' /\ (initial'.uplink <=> net # "none")
    BY <1>2 DEF ProbesConnected, SetupInv, SetupFlags
  <2>4. TakeTurns' /\ HandlerInv' /\ UnitInv'
    BY <2>1 DEF SetupInv, TakeTurns, HandlerInv, UnitInv, Ordered, UnitUp,
                WorkerFree
  <2>5. StartInv'
    BY <2>1, <2>3 DEF StartInv
  <2> QED  BY <2>2, <2>3, <2>4, <2>5 DEF SetupInv
<1>3. CASE ProbesMode
  <2>1. /\ boot = "probing" /\ boot' = "probed"
        /\ UNCHANGED <<queue, net, seen, pc, got, worker, call, bleOn, hotspotOn, unit, job, raced>>
    BY <1>3 DEF ProbesMode
  <2>2. SetupTypes' /\ Told'
    BY <2>1 DEF SetupInv, SetupTypes, Told
  <2>3. SetupFlags' /\ initial'.uplink = initial.uplink /\ (initial'.wifi <=> net = "wifi")
    BY <1>3 DEF ProbesMode, SetupInv, SetupFlags
  <2>4. TakeTurns' /\ HandlerInv' /\ UnitInv'
    BY <2>1 DEF SetupInv, TakeTurns, HandlerInv, UnitInv, Ordered, UnitUp,
                Starting, WorkerFree
  <2>5. StartInv'
    BY <2>1, <2>3 DEF SetupInv, StartInv, Current
  <2> QED  BY <2>2, <2>3, <2>4, <2>5 DEF SetupInv
<1>4. CASE AppliesBle
  <2>1. /\ boot = "probed" /\ boot' = "applying" /\ (bleOn' <=> ~initial.wifi)
        /\ UNCHANGED <<queue, net, seen, pc, got, initial, worker, call, hotspotOn, unit, job,
                       raced>>
    BY <1>4 DEF AppliesBle, SetBle
  <2>2. SetupTypes' /\ Told'
    BY <2>1 DEF SetupInv, SetupTypes, Told
  <2>3. SetupFlags'
    BY <1>4 DEF AppliesBle, SetBle, SetupInv, SetupFlags
  <2>4. TakeTurns' /\ HandlerInv' /\ UnitInv'
    BY <2>1 DEF SetupInv, TakeTurns, HandlerInv, UnitInv, Ordered, UnitUp,
                Starting, WorkerFree
  <2>5. StartInv'
    BY <2>1 DEF SetupInv, StartInv, Current
  <2> QED  BY <2>2, <2>3, <2>4, <2>5 DEF SetupInv
<1>5. CASE AppliesHotspot
  <2>1. /\ boot = "applying" /\ boot' = "running" /\ (hotspotOn' <=> ~initial.uplink)
        /\ call' = [call EXCEPT !["main"] = IF initial.uplink THEN "stop"
                                            ELSE IF hotspotOn THEN "none" ELSE "start"]
        /\ UNCHANGED <<queue, net, seen, pc, got, initial, worker, bleOn, unit, job, raced>>
    BY <1>5 DEF AppliesHotspot, SetHotspot
  <2>2. SetupTypes' /\ Told' /\ call'.worker = call.worker
    BY <2>1 DEF SetupInv, SetupTypes, Told
  <2>3. SetupFlags'
    BY <1>5 DEF AppliesHotspot, SetHotspot, SetupInv, SetupFlags
  <2>4. ~raced => worker = "idle" /\ call.worker = "none"
    BY <2>1 DEF SetupInv, TakeTurns, Starting, WorkerFree
  <2>5. TakeTurns'
    BY <2>1, <2>2, <2>4 DEF TakeTurns, WorkerFree
  <2>6. StartInv' /\ HandlerInv'
    BY <2>1, <2>4 DEF SetupInv, StartInv, HandlerInv, Current
  <2>7. UnitInv'
    <3>1. /\ call.main = "none"
          /\ call'.main = IF initial.uplink THEN "stop" ELSE IF hotspotOn THEN "none" ELSE "start"
      BY <2>1 DEF SetupInv, SetupTypes
    <3>2. ~raced => (UnitUp <=> hotspotOn) /\ call'.worker = "none"
      BY <2>2, <2>4, <3>1 DEF SetupInv, UnitInv, Ordered
    <3> QED  BY <2>1, <3>1, <3>2 DEF UnitInv, Ordered, UnitUp
  <2> QED  BY <2>2, <2>3, <2>5, <2>6, <2>7 DEF SetupInv
<1> QED  BY <1>1, <1>2, <1>3, <1>4, <1>5, ActuatesStep DEF MainThread

(* The handlers on the bus worker.                                         *)
LEMMA WorkerStep ==
  ASSUME SetupInv, Worker PROVE SetupInv'
<1> USE DEF control, booting, channels, hotspotUnit
<1>1. CASE Dispatch /\ boot = "new"
  <2>1. /\ queue # <<>> /\ queue' = Tail(queue)
        /\ UNCHANGED <<net, seen, pc, got, boot, initial, worker, call, bleOn, hotspotOn, unit,
                       job, raced>>
    BY <1>1 DEF Dispatch
  <2>2. SetupTypes' /\ Told'
    BY <2>1 DEF SetupInv, SetupTypes, Told
  <2> QED
    BY <1>1, <2>1, <2>2
       DEF SetupInv, SetupFlags, TakeTurns, StartInv, HandlerInv, UnitInv, Ordered,
           UnitUp, Starting, WorkerFree
<1>2. CASE Dispatch /\ boot # "new"
  <2>1. /\ queue # <<>> /\ queue' = Tail(queue) /\ worker = "idle" /\ call.worker = "none"
        /\ worker' = queue[1] /\ (bleOn' <=> queue[1] # "wifi")
        /\ (raced' <=> Starting \/ (raced /\ queue[1] = "none"))
        /\ UNCHANGED <<net, seen, pc, got, boot, initial, call, hotspotOn, unit, job>>
    <3>1. Head(queue) = queue[1]
      OBVIOUS
    <3>2. /\ queue # <<>> /\ queue' = Tail(queue) /\ worker = "idle" /\ call.worker = "none"
          /\ worker' = queue[1] /\ bleOn' = ~(queue[1] = "wifi")
          /\ raced' = (Starting \/ (raced /\ queue[1] = "none"))
          /\ UNCHANGED <<net, seen, pc, got, boot, initial, call, hotspotOn, unit, job>>
      BY <1>2, <3>1 DEF Dispatch, SetBle, WorkerFree
    <3> QED  BY <3>2
  <2>2. SetupTypes' /\ Told' /\ worker' # "idle"
    BY <2>1 DEF SetupInv, SetupTypes, Told, Modes
  <2>3. SetupFlags'
    BY <1>2 DEF Dispatch, SetBle, SetupInv, SetupFlags
  <2>4. queue' = <<>> => queue[1] = net
    <3>1. queue \in Seq(Modes) /\ queue[Len(queue)] = net
      BY <2>1 DEF SetupInv, SetupTypes, Told
    <3>2. Len(Tail(queue)) = Len(queue) - 1
      BY <2>1, <3>1
    <3>3. ASSUME queue' = <<>> PROVE Len(queue) = 1
      <4>1. Tail(queue) = <<>> /\ Len(queue) \in Nat
        BY <2>1, <3>1, <3>3
      <4>2. Len(<<>>) = 0
        OBVIOUS
      <4>3. Len(Tail(queue)) = 0
        BY <4>1, <4>2, Zenon
      <4> QED  BY <3>2, <4>1, <4>3
    <3> QED  BY <3>1, <3>3
  <2>5. TakeTurns' /\ StartInv'
    BY <2>1 DEF TakeTurns, StartInv, Current, Starting
  <2>6. HandlerInv'
    BY <2>1, <2>2, <2>4 DEF HandlerInv, Current
  <2>7. UnitInv'
    BY <2>1, <2>2 DEF SetupInv, UnitInv, Ordered, UnitUp
  <2> QED  BY <2>2, <2>3, <2>5, <2>6, <2>7 DEF SetupInv
<1>3. CASE DispatchEnds
  <2>1. /\ worker # "idle" /\ worker' = "idle" /\ (hotspotOn' <=> worker = "none")
        /\ call' = [call EXCEPT !["worker"] = IF worker # "none" THEN "stop"
                                              ELSE IF hotspotOn THEN "none" ELSE "start"]
        /\ UNCHANGED <<queue, net, seen, pc, got, boot, initial, bleOn, unit, job, raced>>
    BY <1>3 DEF DispatchEnds, SetHotspot
  <2>2. SetupTypes' /\ Told' /\ call'.main = call.main
    BY <2>1 DEF SetupInv, SetupTypes, Told
  <2>3. SetupFlags'
    BY <1>3 DEF DispatchEnds, SetHotspot, SetupInv, SetupFlags
  <2>4. ~raced => ~Starting
    BY <2>1 DEF SetupInv, TakeTurns, WorkerFree
  <2>5. TakeTurns' /\ StartInv'
    BY <2>1, <2>2, <2>4 DEF TakeTurns, StartInv, Current, Starting
  <2>6. HandlerInv'
    BY <2>1 DEF SetupInv, HandlerInv, Current
  <2>7. UnitInv'
    <3>1. /\ call.worker = "none"
          /\ call'.worker = IF worker # "none" THEN "stop"
                            ELSE IF hotspotOn THEN "none" ELSE "start"
      BY <2>1 DEF SetupInv, SetupTypes
    <3>2. ~raced => call.main = "none" /\ call'.main = "none"
      BY <2>2, <2>4 DEF Starting
    <3>3. ~raced /\ worker = "none" => (UnitUp <=> hotspotOn)
      BY <3>1, <3>2 DEF SetupInv, UnitInv, Ordered
    <3> QED  BY <2>1, <3>1, <3>2, <3>3 DEF UnitInv, Ordered, UnitUp
  <2> QED  BY <2>2, <2>3, <2>5, <2>6, <2>7 DEF SetupInv
<1> QED  BY <1>1, <1>2, <1>3, ActuatesStep DEF Worker

LEMMA SetupStep == SetupInv /\ [SetupNext]_setupVars => SetupInv'
<1> SUFFICES ASSUME SetupInv, [SetupNext]_setupVars PROVE SetupInv'  OBVIOUS
<1> USE DEF control, booting, channels, hotspotUnit
<1>1. CASE RunJob
  <2>1. /\ job # "none" /\ job' = "none" /\ (unit' # "inactive" <=> job = "start")
        /\ UNCHANGED <<queue, net, seen, pc, got, boot, initial, worker, call, bleOn, hotspotOn,
                       raced>>
    BY <1>1 DEF RunJob
  <2>2. SetupTypes' /\ Told' /\ TakeTurns' /\ StartInv' /\ HandlerInv' /\ UnitInv'
    BY <2>1 DEF SetupInv, SetupTypes, Told, TakeTurns, Current, StartInv, HandlerInv, UnitInv,
                Ordered, UnitUp, Starting, WorkerFree
  <2>3. SetupFlags'
    BY <1>1 DEF RunJob, SetupInv, SetupFlags
  <2> QED  BY <2>2, <2>3 DEF SetupInv
<1>2. CASE LinkChanges \/ UNCHANGED setupVars
  <2>1. SetupTypes'
    BY <1>2 DEF LinkChanges, setupVars, SetupInv, SetupTypes
  <2> QED  BY <1>2, <2>1, AnnouncedStep DEF LinkChanges, setupVars
<1> QED  BY <1>1, <1>2, MonitorStep, JoinStep, MainStep, WorkerStep DEF SetupNext

(* Both setup channels follow the connectivity NetworkManager announces:   *)
(* although start() and the bus worker set them without a lock, a speaker  *)
(* with nothing left on the bus advertises BLE and has its hotspot ordered *)
(* up or down as the cached uplink asks, unless an event was handled       *)
(* during start() and no uplink has been announced since.                  *)
THEOREM ChannelsMatchCacheHolds == SetupSpec => []ChannelsMatchCache
<1>1. SetupInv => ChannelsMatchCache
  BY DEF SetupInv, SetupTypes, HandlerInv, UnitInv, Current, Ordered, ChannelsMatchCache,
         Delivered, WorkerFree
<1> QED  BY <1>1, SetupInvInit, SetupStep, PTL DEF SetupSpec
=============================================================================
