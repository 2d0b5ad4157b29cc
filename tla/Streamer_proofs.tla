---------------------------- MODULE Streamer_proofs ----------------------------
(***************************************************************************)
(* Theorems about module Streamer, for every number of web threads,        *)
(* speakers and DSP fields, every site and every bound.                    *)
(***************************************************************************)
EXTENDS Streamer, WellFoundedInduction, TLAPS

----------------------------------------------------------------------------
(***************************************************************************)
(* Numbers.                                                                *)
(***************************************************************************)
\* A set of naturals that is not empty has a least element: the induction the
\* facts below rest on.
LEMMA LeastNat ==
  ASSUME NEW T \in SUBSET Nat, T # {}
  PROVE  \E x \in T : \A y \in T : x <= y
<1> DEFINE R == {ss \in Nat \X Nat : ss[1] < ss[2]}
<1>1. R = OpToRel(<, Nat)
  BY DEF OpToRel
<1>2. IsWellFoundedOn(R, Nat)
  BY <1>1, NatLessThanWellFounded
<1> HIDE DEF R
<1>3. PICK x \in T : \A y \in T : ~ (<<y, x>> \in R)
  BY <1>2, WFMin
<1>4. \A y \in T : ~(y < x)
  BY <1>3 DEF R
<1> QED  BY <1>4

\* A list of zones, and the zones of it.
LEMMA ZoneListFacts ==
  ASSUME NEW zs \in ZoneLists
  PROVE  /\ Len(zs) \in Nat /\ DOMAIN zs = 1..Len(zs)
         /\ \A i \in DOMAIN zs : /\ zs[i] \in [id : Nat \ {0}, members : SUBSET Devices]
                                 /\ zs[i].id \in Nat /\ zs[i].id > 0
<1> DEFINE Z == [id : Nat \ {0}, members : SUBSET Devices]
<1>1. zs \in Seq(Z)
  BY DEF ZoneLists
<1> HIDE DEF Z
<1>2. Len(zs) \in Nat /\ DOMAIN zs = 1..Len(zs) /\ \A i \in DOMAIN zs : zs[i] \in Z
  BY <1>1
<1>3. \A z \in Z : z.id \in Nat /\ z.id > 0
  BY DEF Z
<1> QED  BY <1>2, <1>3 DEF Z

\* The ids of the first n zones have an upper bound.
LEMMA BoundedIds ==
  ASSUME NEW zs \in ZoneLists
  PROVE  \E b \in Nat : \A i \in DOMAIN zs : zs[i].id <= b
<1> DEFINE Bounded(n) == \E b \in Nat : \A i \in DOMAIN zs : i <= n => zs[i].id <= b
           Bad == {n \in Nat : ~Bounded(n)}
<1>1. /\ Len(zs) \in Nat /\ DOMAIN zs = 1..Len(zs)
      /\ \A i \in DOMAIN zs : zs[i].id \in Nat
  BY ZoneListFacts
<1>2. ASSUME Bad # {} PROVE FALSE
  <2>1. PICK n \in Bad : \A m \in Bad : n <= m
    BY <1>2, LeastNat
  <2>2. n \in Nat /\ ~Bounded(n)
    BY <2>1
  <2>3. n # 0
    BY <1>1, <2>2
  <2>4. n - 1 \in Nat /\ n - 1 \notin Bad
    BY <2>1, <2>2, <2>3
  <2>5. PICK b \in Nat : \A i \in DOMAIN zs : i <= n - 1 => zs[i].id <= b
    BY <2>4
  <2>6. PICK c \in Nat : c >= b /\ (n \in DOMAIN zs => zs[n].id <= c)
    <3>1. CASE n \in DOMAIN zs
      <4>1. PICK m \in Nat : m = zs[n].id
        BY <1>1, <3>1
      <4>2. \E c \in Nat : c >= b /\ m <= c
        OBVIOUS
      <4> QED  BY <4>1, <4>2
    <3>2. CASE n \notin DOMAIN zs
      BY <3>2
    <3> QED  BY <3>1, <3>2
  <2>7. ASSUME NEW i \in DOMAIN zs, i <= n PROVE zs[i].id <= c
    <3>1. i \in Nat /\ zs[i].id \in Nat
      BY <1>1
    <3>2. CASE i = n
      BY <2>6, <3>2
    <3>3. CASE i <= n - 1
      BY <2>5, <2>6, <3>1, <3>3
    <3> QED  BY <2>2, <2>7, <3>1, <3>2, <3>3
  <2> QED  BY <2>2, <2>6, <2>7
<1>3. Bounded(Len(zs))
  BY <1>1, <1>2
<1>4. PICK b \in Nat : \A i \in DOMAIN zs : i <= Len(zs) => zs[i].id <= b
  BY <1>3
<1> QED  BY <1>1, <1>4

\* A bounded set of naturals has a greatest element.
LEMMA GreatestNat ==
  ASSUME NEW S \in SUBSET Nat, 0 \in S, NEW b \in Nat, \A x \in S : x <= b
  PROVE  Max(S) \in S /\ \A y \in S : y <= Max(S)
<1> DEFINE T == {n \in Nat : \A x \in S : x <= n}
<1>1. PICK m \in T : \A n \in T : m <= n
  <2>1. b \in T
    OBVIOUS
  <2> QED  BY <2>1, LeastNat
<1>2. m \in S
  <2>1. SUFFICES ASSUME m \notin S PROVE FALSE
    OBVIOUS
  <2>2. m # 0 /\ m \in Nat /\ \A x \in S : x <= m - 1
    BY <1>1, <2>1
  <2>3. m - 1 \in T
    BY <2>2
  <2> QED  BY <1>1, <2>2, <2>3
<1>3. \E x \in S : \A y \in S : x >= y
  BY <1>1, <1>2
<1>4. Max(S) \in S /\ \A y \in S : Max(S) >= y
  BY <1>3 DEF Max
<1> QED  BY <1>4

----------------------------------------------------------------------------
(***************************************************************************)
(* Zones.                                                                  *)
(***************************************************************************)
\* replaceAll moves the counter past every id it restores.
LEMMA RestoredIds ==
  ASSUME NEW zs \in ZoneLists
  PROVE  replaceAll(zs) \in Nat \ {0} /\ \A i \in DOMAIN zs : zs[i].id < replaceAll(zs)
<1> DEFINE S == {0} \union {zs[i].id : i \in DOMAIN zs}
<1>1. \A i \in DOMAIN zs : zs[i].id \in Nat
  BY ZoneListFacts
<1>2. PICK b \in Nat : \A i \in DOMAIN zs : zs[i].id <= b
  BY BoundedIds
<1>3. S \in SUBSET Nat /\ 0 \in S /\ \A x \in S : x <= b
  BY <1>1, <1>2
<1>4. \A i \in DOMAIN zs : zs[i].id \in S
  OBVIOUS
<1>5. replaceAll(zs) = Max(S) + 1
  BY DEF replaceAll
<1> HIDE DEF S
<1>6. Max(S) \in S /\ \A y \in S : y <= Max(S)
  BY <1>3, GreatestNat
<1>7. PICK m : m = Max(S)
  OBVIOUS
<1>8. m \in Nat /\ \A i \in DOMAIN zs : zs[i].id <= m
  BY <1>3, <1>4, <1>6, <1>7
<1> QED  BY <1>1, <1>5, <1>7, <1>8

\* With every id below the counter, the next id is the counter's.
LEMMA NextIsFresh ==
  ASSUME zones \in ZoneLists, next \in Nat, \A i \in DOMAIN zones : zones[i].id < next
  PROVE  FreshId = next
<1> DEFINE S == {n \in next..(next + Len(zones)) : n \notin Ids}
<1>1. Len(zones) \in Nat /\ \A i \in DOMAIN zones : zones[i].id \in Nat
  BY ZoneListFacts
<1>2. next \in S /\ \A y \in S : next <= y /\ y \in Nat
  BY <1>1 DEF Ids
<1>3. FreshId = Min(S)
  BY DEF FreshId
<1> HIDE DEF S
<1>4. Min(S) \in S /\ \A y \in S : Min(S) <= y
  BY <1>2 DEF Min
<1>5. PICK m : m = Min(S)
  OBVIOUS
<1>6. m \in Nat /\ next <= m /\ m <= next
  BY <1>2, <1>4, <1>5
<1> QED  BY <1>3, <1>5, <1>6

\* Taking one zone out of the list.
LEMMA ZoneRemoved ==
  ASSUME NEW zs \in ZoneLists, NEW k \in DOMAIN zs
  PROVE  /\ RemoveAt(zs, k) \in ZoneLists
         /\ \A i \in DOMAIN RemoveAt(zs, k) :
              LET j == IF i < k THEN i ELSE i + 1
              IN j \in DOMAIN zs /\ RemoveAt(zs, k)[i] = zs[j]
<1> DEFINE Z == [id : Nat \ {0}, members : SUBSET Devices]
<1>1. zs \in Seq(Z)
  BY DEF ZoneLists
<1> HIDE DEF Z
<1>2. /\ Len(zs) \in Nat /\ DOMAIN zs = 1..Len(zs) /\ k \in 1..Len(zs)
  BY <1>1
<1>3. PICK a : a = SubSeq(zs, 1, k - 1)
  OBVIOUS
<1>4. PICK c : c = SubSeq(zs, k + 1, Len(zs))
  OBVIOUS
<1>5. /\ a \in Seq(Z) /\ Len(a) = k - 1
      /\ \A i \in 1..(k - 1) : a[i] = zs[i]
  BY <1>1, <1>2, <1>3
<1>6. /\ c \in Seq(Z) /\ Len(c) = Len(zs) - k
      /\ \A i \in 1..(Len(zs) - k) : c[i] = zs[k + i]
  BY <1>1, <1>2, <1>4
<1>7. PICK r : r = a \o c
  OBVIOUS
<1>8. /\ r \in Seq(Z) /\ DOMAIN r = 1..(Len(zs) - 1)
      /\ \A i \in 1..(k - 1) : r[i] = zs[i]
      /\ \A i \in k..(Len(zs) - 1) : r[i] = zs[i + 1]
  <2>1. r \in Seq(Z) /\ Len(r) = Len(zs) - 1
    <3>1. a \in Seq(Z) /\ c \in Seq(Z)
      BY <1>5, <1>6
    <3>2. a \o c \in Seq(Z) /\ Len(a \o c) = Len(a) + Len(c)
      BY <3>1
    <3> QED  BY <1>2, <1>5, <1>6, <1>7, <3>2
  <2>2. \A i \in 1..(k - 1) : r[i] = zs[i]
    BY <1>2, <1>5, <1>6, <1>7
  <2>3. ASSUME NEW i \in k..(Len(zs) - 1) PROVE r[i] = zs[i + 1]
    <3>1. i - (k - 1) \in 1..(Len(zs) - k) /\ r[i] = c[i - (k - 1)]
      BY <1>2, <1>5, <1>6, <1>7
    <3>2. k + (i - (k - 1)) = i + 1
      BY <1>2
    <3> QED  BY <1>6, <3>1, <3>2
  <2> QED  BY <1>2, <2>1, <2>2, <2>3
<1>9. RemoveAt(zs, k) = r
  BY <1>3, <1>4, <1>7 DEF RemoveAt
<1>10. ASSUME NEW i \in DOMAIN r PROVE LET j == IF i < k THEN i ELSE i + 1
                                      IN j \in DOMAIN zs /\ r[i] = zs[j]
  BY <1>2, <1>8
<1> QED  BY <1>8, <1>9, <1>10 DEF ZoneLists, Z

----------------------------------------------------------------------------
(***************************************************************************)
(* Type correctness.                                                       *)
(***************************************************************************)
WebRecs == [pc : WebSteps, dev : Devices \union {Nowhere}, to : SUBSET Devices,
            zone : Int, cfg : DspConfigs]
SweepRecs == [pc : SweepSteps, dev : Devices \union {Nowhere}, found : SUBSET Devices]
Files == [reg : Registries, zones : ZoneLists, dsp : DspConfigs]

\* The invariant in three parts: the threads, the objects with their file, the rest.
ThreadTypes == web \in [Web -> WebRecs] /\ sweep \in SweepRecs
ObjectTypes == /\ reg \in Registries /\ zones \in ZoneLists /\ next \in Nat
               /\ dsp \in DspConfigs /\ engine \in DspConfigs /\ file \in Files
PlainTypes ==
  /\ main \in {"boot", "wired", "run", "webstop", "join", "off"}
  /\ targets \subseteq Devices /\ source \in Int
  /\ radio \in Devices \union {Nowhere, Stranded} /\ parked \in Devices \union {Nowhere, Stranded}
  /\ stalled \in BOOLEAN
  /\ running \in BOOLEAN /\ window \in BOOLEAN /\ adv \in BOOLEAN /\ asked \in BOOLEAN
  /\ setup \subseteq Devices /\ acked \subseteq Devices
  /\ sent \in Nat /\ faults \in Nat /\ restarts \in Nat /\ late \in Nat

LEMMA TypeParts == TypeOK <=> ThreadTypes /\ ObjectTypes /\ PlainTypes
BY DEF TypeOK, ThreadTypes, ObjectTypes, PlainTypes, WebRecs, SweepRecs, Files

LEMMA FlatType == Flat \in DspConfigs
BY DEF Flat, DspConfigs

LEMMA IdleTypes ==
  /\ IdleWeb \in WebRecs /\ IdleWeb.pc = "idle" /\ IdleWeb.zone = 0 /\ IdleWeb.dev = Nowhere
  /\ \A p \in WebSteps : [IdleWeb EXCEPT !.pc = p] \in WebRecs
  /\ IdleSweep \in SweepRecs /\ GoneSweep \in SweepRecs
  /\ IdleSweep.pc = "idle" /\ GoneSweep.pc = "gone"
<1>1. IdleWeb \in WebRecs /\ IdleWeb.pc = "idle" /\ IdleWeb.zone = 0 /\ IdleWeb.dev = Nowhere
  BY FlatType DEF IdleWeb, WebRecs, WebSteps
<1>2. \A p \in WebSteps : [IdleWeb EXCEPT !.pc = p] \in WebRecs
  BY <1>1 DEF WebRecs
<1>3. /\ IdleSweep \in SweepRecs /\ GoneSweep \in SweepRecs
      /\ IdleSweep.pc = "idle" /\ GoneSweep.pc = "gone"
  BY DEF IdleSweep, GoneSweep, SweepRecs, SweepSteps
<1> QED  BY <1>1, <1>2, <1>3

\* One thread's record changes, the others' do not.
LEMMA WebMoves ==
  ASSUME web \in [Web -> WebRecs], NEW w \in Web, NEW r \in WebRecs, web' = [web EXCEPT ![w] = r]
  PROVE  web' \in [Web -> WebRecs] /\ web'[w] = r /\ \A v \in Web \ {w} : web'[v] = web[v]
OBVIOUS

\* One thread goes on to another step of its request.
LEMMA WebGoesTo ==
  ASSUME web \in [Web -> WebRecs], NEW w \in Web, NEW p \in WebSteps,
         web' = [web EXCEPT ![w].pc = p]
  PROVE  /\ web' \in [Web -> WebRecs]
         /\ web'[w].pc = p /\ web'[w].zone = web[w].zone /\ web'[w].dev = web[w].dev
         /\ \A v \in Web \ {w} : web'[v] = web[v]
<1>1. PICK r \in WebRecs : r = [web[w] EXCEPT !.pc = p]
  BY DEF WebRecs
<1>2. r.pc = p /\ r.zone = web[w].zone /\ r.dev = web[w].dev
  BY <1>1 DEF WebRecs
<1>3. web' = [web EXCEPT ![w] = r]
  BY <1>1
<1> QED  BY <1>2, <1>3, WebMoves

----------------------------------------------------------------------------
(***************************************************************************)
(* The threads.                                                            *)
(***************************************************************************)
\* Only an onboarding request is marked as one; while the process boots and
\* once the web server has stopped, no request is served, and no sweep runs
\* before startup() or after shutdown().
ThreadInv ==
  /\ \A w \in Web : web[w].zone = -1 => web[w].pc \in {"onboarding", "register", "save"}
  /\ main \in {"boot", "join", "off"} => \A w \in Web : web[w].pc = "idle"
  /\ main \in {"boot", "off"} => sweep.pc = "gone"

\* One web thread moves: what the others need of it.
LEMMA ThreadFrame ==
  ASSUME ThreadInv, RadioReleased, NEW w \in Web,
         \A v \in Web \ {w} : web'[v] = web[v],
         web'[w].zone = -1 => web'[w].pc \in {"onboarding", "register", "save"},
         main' = main, main \notin {"boot", "join", "off"},
         \/ radio' \notin Devices \/ radio' = parked' \/ Onboarding(w)'
         \/ UNCHANGED <<radio, parked>> /\ ~Onboarding(w)
  PROVE  ThreadInv' /\ RadioReleased'
<1>1. ThreadInv'
  BY DEF ThreadInv
<1>2. CASE radio' \notin Devices \/ radio' = parked' \/ Onboarding(w)'
  BY <1>1, <1>2 DEF RadioReleased
<1>3. CASE UNCHANGED <<radio, parked>> /\ ~Onboarding(w)
  <2>1. \A v \in Web : Onboarding(v) => Onboarding(v)'
    BY <1>3 DEF Onboarding
  <2> QED  BY <1>1, <1>3, <2>1 DEF RadioReleased
<1> QED  BY <1>2, <1>3

\* A request begins only where requests are served, and goes on only where
\* one is in progress.
LEMMA WebActs ==
  ASSUME ThreadInv, NEW w \in Web, main \in {"wired", "run"} \/ web[w].pc # "idle"
  PROVE  main \notin {"boot", "join", "off"}
BY DEF ThreadInv

\* A request that has nothing to do with the radio takes a step.
LEMMA PlainMove ==
  ASSUME TypeOK, ThreadInv, RadioReleased, NEW w \in Web, NEW r \in WebRecs,
         web' = [web EXCEPT ![w] = r], r.zone # -1, main' = main, UNCHANGED <<radio, parked>>,
         main \in {"wired", "run"} \/ web[w].pc # "idle",
         web[w].pc \notin {"onboarding", "register", "save", "leave"}
  PROVE  web' \in [Web -> WebRecs] /\ ThreadInv' /\ RadioReleased'
<1>1. web \in [Web -> WebRecs]
  BY TypeParts DEF ThreadTypes
<1>2. web' \in [Web -> WebRecs] /\ web'[w] = r /\ \A v \in Web \ {w} : web'[v] = web[v]
  BY <1>1, WebMoves
<1>3. main \notin {"boot", "join", "off"}
  BY WebActs
<1>4. ~Onboarding(w)
  BY DEF ThreadInv, Onboarding
<1>5. ThreadInv' /\ RadioReleased'
  BY <1>2, <1>3, <1>4, ThreadFrame
<1> QED  BY <1>2, <1>5

\* The same, for a step that only changes where the thread is.
LEMMA PlainGoesTo ==
  ASSUME TypeOK, ThreadInv, RadioReleased, NEW w \in Web, NEW p \in WebSteps,
         web' = [web EXCEPT ![w].pc = p], main' = main, UNCHANGED <<radio, parked>>,
         main \in {"wired", "run"} \/ web[w].pc # "idle",
         web[w].pc \notin {"onboarding", "register", "save", "leave"}
  PROVE  web' \in [Web -> WebRecs] /\ ThreadInv' /\ RadioReleased'
<1>1. web \in [Web -> WebRecs]
  BY TypeParts DEF ThreadTypes
<1>2. PICK r \in WebRecs : r = [web[w] EXCEPT !.pc = p]
  BY <1>1 DEF WebRecs
<1>3. r.zone = web[w].zone /\ web' = [web EXCEPT ![w] = r]
  BY <1>1, <1>2 DEF WebRecs
<1>4. web[w].zone # -1
  BY DEF ThreadInv
<1> QED  BY <1>3, <1>4, PlainMove

WebGood == web' \in [Web -> WebRecs] /\ ThreadInv' /\ RadioReleased'

\* A request that leaves the threads and the radio alone.
LEMMA WebRests ==
  ASSUME TypeOK, ThreadInv, RadioReleased, UNCHANGED <<web, main, radio, parked>>, UNCHANGED sweep
  PROVE  WebGood
<1>1. web \in [Web -> WebRecs]
  BY TypeParts DEF ThreadTypes
<1> QED  BY <1>1 DEF WebGood, ThreadInv, RadioReleased, Onboarding

\* The radio is given up, or stays where it was and nobody is to release it.
LEMMA RadioFreed ==
  ASSUME TypeOK, ThreadInv, RadioReleased, NEW w \in Web, UNCHANGED web, main' = main,
         main \in {"wired", "run"}, radio' = Nowhere \/ radio' = parked'
  PROVE  WebGood
<1>1. web \in [Web -> WebRecs]
  BY TypeParts DEF ThreadTypes
<1>2. Nowhere \notin Devices
  BY StreamerAssumption
<1> QED  BY <1>1, <1>2 DEF WebGood, ThreadInv, RadioReleased

LEMMA WebRequest ==
  ASSUME TypeOK, ThreadInv, RadioReleased, NEW w \in Web, Request(w),
         \A z \in Ids : z \in Int /\ z # -1
  PROVE  WebGood
<1> USE DEF objects, audio, wifi, history
<1>1. web \in [Web -> WebRecs] /\ web[w] \in WebRecs
  BY TypeParts DEF ThreadTypes
<1>2. CASE \/ createZone(w)
           \/ \E d \in Devices : addSpeaker(w, d) \/ removeSpeaker(w, d)
           \/ \E z \in Ids : \/ removeZone(w, z)
                             \/ \E d \in Devices : addMember(w, z, d) \/ removeMember(w, z, d)
  <2>1. /\ web' = [web EXCEPT ![w].pc = "save"] /\ UNCHANGED <<main, radio, parked>>
        /\ main \in {"wired", "run"} /\ web[w].pc = "idle"
    BY <1>2 DEF createZone, addSpeaker, removeSpeaker, removeZone, addMember, removeMember,
                ZoneRequest, ThenSave, Serving
  <2> QED  BY <2>1, PlainGoesTo DEF WebGood, WebSteps
<1>3. CASE \E d \in Devices : pair(w, d)
  <2>1. PICK d \in Devices : pair(w, d)
    BY <1>3
  <2>2. PICK r \in WebRecs : r = [web[w] EXCEPT !.pc = "pairing", !.dev = d]
    BY <1>1 DEF WebRecs, WebSteps
  <2>3. web' = [web EXCEPT ![w] = r] /\ r.zone = web[w].zone
    BY <1>1, <2>1, <2>2 DEF pair, WebRecs
  <2>4. UNCHANGED <<main, radio, parked>> /\ main \in {"wired", "run"} /\ web[w].pc = "idle"
    BY <2>1 DEF pair, Serving
  <2>5. r.zone # -1
    BY <2>3, <2>4 DEF ThreadInv
  <2> QED  BY <2>3, <2>4, <2>5, PlainMove DEF WebGood
<1>4. CASE \E f \in Fields : mergeDsp(w, f, 1)
  <2>1. PICK f \in Fields : mergeDsp(w, f, 1)
    BY <1>4
  <2>2. PICK c \in DspConfigs : c = [dsp EXCEPT ![f] = 1]
    BY TypeParts DEF ObjectTypes, DspConfigs
  <2>3. PICK r \in WebRecs : r = [web[w] EXCEPT !.pc = "store", !.cfg = c]
    BY <1>1 DEF WebRecs, WebSteps
  <2>4. web' = [web EXCEPT ![w] = r] /\ r.zone = web[w].zone
    BY <1>1, <2>1, <2>2, <2>3 DEF mergeDsp, WebRecs
  <2>5. UNCHANGED <<main, radio, parked>> /\ main \in {"wired", "run"} /\ web[w].pc = "idle"
    BY <2>1 DEF mergeDsp, Serving
  <2>6. r.zone # -1
    BY <2>4, <2>5 DEF ThreadInv
  <2> QED  BY <2>4, <2>5, <2>6, PlainMove DEF WebGood
<1>5. CASE \E z \in Ids : playZone(w, z) \/ retargetZone(w, z)
  <2>1. PICK z \in Ids, p \in {"play", "retarget"} : Resolve(w, z, p)
    BY <1>5 DEF playZone, retargetZone
  <2>2. PICK T \in SUBSET Members(z) :
          web' = [web EXCEPT ![w] = [IdleWeb EXCEPT !.pc = p, !.zone = z, !.to = T]]
    BY <2>1 DEF Resolve
  <2>3. T \in SUBSET Devices
    <3>1. ZoneAt(z) \in DOMAIN zones
      BY <2>1 DEF ZoneAt, Ids
    <3>2. zones[ZoneAt(z)].members \in SUBSET Devices
      BY <3>1, ZoneListFacts, TypeParts DEF ObjectTypes
    <3> QED  BY <2>2, <3>2 DEF Members
  <2>4. PICK r \in WebRecs : r = [IdleWeb EXCEPT !.pc = p, !.zone = z, !.to = T]
    <3>1. z \in Int /\ p \in WebSteps
      BY <2>1 DEF WebSteps
    <3> QED  BY <2>3, <3>1, IdleTypes DEF WebRecs
  <2>5. r.zone = z
    BY <2>4, IdleTypes DEF WebRecs
  <2>6. UNCHANGED <<main, radio, parked>> /\ main \in {"wired", "run"} /\ web[w].pc = "idle"
    BY <2>1 DEF Resolve, Serving
  <2> QED  BY <2>1, <2>2, <2>4, <2>5, <2>6, PlainMove DEF WebGood
<1>6. CASE \E d \in Devices : onboard(w, d)
  <2>1. PICK d \in Devices : onboard(w, d)
    BY <1>6
  <2>2. main' = main /\ main \in {"wired", "run"} /\ web[w].pc = "idle"
    BY <2>1 DEF onboard, Serving
  <2>3. CASE (radio' = Nowhere \/ radio' = parked') /\ UNCHANGED web
    BY <2>2, <2>3, RadioFreed
  <2>4. CASE web' = [web EXCEPT ![w].pc = "onboarding", ![w].zone = -1]
    <3>1. PICK m \in Int : m = -1
      OBVIOUS
    <3>2. PICK r \in WebRecs : r = [web[w] EXCEPT !.pc = "onboarding", !.zone = m]
      BY <1>1 DEF WebRecs, WebSteps
    <3>3. r.zone = -1 /\ r.pc = "onboarding" /\ web' = [web EXCEPT ![w] = r]
      BY <1>1, <2>4, <3>1, <3>2 DEF WebRecs
    <3>4. web' \in [Web -> WebRecs] /\ web'[w] = r /\ \A v \in Web \ {w} : web'[v] = web[v]
      BY <1>1, <3>3, WebMoves
    <3>5. Onboarding(w)'
      BY <3>3, <3>4 DEF Onboarding
    <3>6. ThreadInv' /\ RadioReleased'
      BY <2>2, <3>3, <3>4, <3>5, ThreadFrame
    <3> QED  BY <3>4, <3>6 DEF WebGood
  <2> QED  BY <2>1, <2>3, <2>4 DEF onboard
<1>7. CASE (\E d \in Devices : onTransport(w, d)) \/ (\E open \in BOOLEAN : setWindow(w, open))
  <2>1. UNCHANGED <<web, main, radio, parked, sweep>>
    BY <1>7 DEF onTransport, setWindow
  <2> QED  BY <2>1, WebRests
<1> QED  BY <1>2, <1>3, <1>4, <1>5, <1>6, <1>7 DEF Request

\* The same, for a step that ends the request or begins it anew.
LEMMA PlainEnds ==
  ASSUME TypeOK, ThreadInv, RadioReleased, NEW w \in Web, NEW p \in WebSteps,
         web' = [web EXCEPT ![w] = [IdleWeb EXCEPT !.pc = p]], main' = main, UNCHANGED <<radio, parked>>,
         web[w].pc # "idle", web[w].pc \notin {"onboarding", "register", "save", "leave"}
  PROVE  WebGood
<1>1. PICK r \in WebRecs : r = [IdleWeb EXCEPT !.pc = p]
  BY IdleTypes
<1>2. r.zone = 0
  BY <1>1, IdleTypes DEF WebRecs
<1>3. r.zone # -1
  BY <1>2
<1>4. web' = [web EXCEPT ![w] = r]
  BY <1>1
<1> QED  BY <1>3, <1>4, PlainMove DEF WebGood

\* Idle is where a record that is started anew already is.
LEMMA IdleIsIdle == IdleWeb = [IdleWeb EXCEPT !.pc = "idle"]
BY DEF IdleWeb

\* A request goes on: through its save, its handshake, or the end of its
\* onboarding, which is where the radio leaves the speaker's network.
LEMMA WebContinue ==
  ASSUME TypeOK, ThreadInv, RadioReleased, NEW w \in Web, Continue(w)
  PROVE  WebGood
<1> USE DEF objects, audio, wifi, history
<1>1. web \in [Web -> WebRecs] /\ web[w] \in WebRecs
  BY TypeParts DEF ThreadTypes
<1>2. CASE storeDsp(w)
  <2>1. /\ web' = [web EXCEPT ![w].pc = "apply"] /\ UNCHANGED <<main, radio, parked>>
        /\ web[w].pc = "store"
    BY <1>2 DEF storeDsp
  <2> QED  BY <2>1, PlainGoesTo DEF WebGood, WebSteps
<1>3. CASE applyDsp(w)
  <2>1. /\ web' = [web EXCEPT ![w] = [IdleWeb EXCEPT !.pc = "save"]]
        /\ UNCHANGED <<main, radio, parked>> /\ web[w].pc = "apply"
    BY <1>3 DEF applyDsp
  <2> QED  BY <2>1, PlainEnds DEF WebSteps
<1>4. CASE startSource(w)
  <2>1. web' = [web EXCEPT ![w] = IdleWeb] /\ UNCHANGED <<main, radio, parked>> /\ web[w].pc = "start"
    BY <1>4 DEF startSource
  <2> QED  BY <2>1, IdleIsIdle, PlainEnds DEF WebSteps
<1>5. CASE setTargets(w)
  <2>1. UNCHANGED <<main, radio, parked>> /\ web[w].pc \in {"play", "retarget"}
    BY <1>5 DEF setTargets
  <2>2. CASE web' = [web EXCEPT ![w] = IdleWeb]
    BY <2>1, <2>2, IdleIsIdle, PlainEnds DEF WebSteps
  <2>3. CASE web' = [web EXCEPT ![w] = [web[w] EXCEPT !.pc = "start"]]
    <3>1. web' = [web EXCEPT ![w].pc = "start"]
      BY <2>3
    <3> QED  BY <2>1, <3>1, PlainGoesTo DEF WebGood, WebSteps
  <2> QED  BY <1>5, <2>2, <2>3 DEF setTargets
<1>6. CASE pairSent(w)
  <2>1. UNCHANGED <<main, radio, parked>> /\ web[w].pc = "pairing"
    BY <1>6 DEF pairSent
  <2>2. CASE web' = [web EXCEPT ![w] = IdleWeb]
    BY <2>1, <2>2, IdleIsIdle, PlainEnds DEF WebSteps
  <2>3. CASE web' = [web EXCEPT ![w].pc = "register"]
    BY <2>1, <2>3, PlainGoesTo DEF WebGood, WebSteps
  <2> QED  BY <1>6, <2>2, <2>3 DEF pairSent
<1>7. ASSUME NEW r \in WebRecs, web' = [web EXCEPT ![w] = r], main' = main, web[w].pc # "idle",
             r.zone = -1 => r.pc \in {"onboarding", "register", "save"},
             \/ radio' = Nowhere \/ radio' = parked'
             \/ UNCHANGED <<radio, parked>> /\ (Onboarding(w) => r.zone = -1 \/ r.pc = "leave")
      PROVE  WebGood
  <2>1. web' \in [Web -> WebRecs] /\ web'[w] = r /\ \A v \in Web \ {w} : web'[v] = web[v]
    BY <1>1, <1>7, WebMoves
  <2>2. main \notin {"boot", "join", "off"}
    BY <1>7, WebActs
  <2>3. Nowhere \notin Devices
    BY StreamerAssumption
  <2>4. \/ radio' \notin Devices \/ radio' = parked' \/ Onboarding(w)'
        \/ UNCHANGED <<radio, parked>> /\ ~Onboarding(w)
    BY <1>7, <2>1, <2>3 DEF Onboarding
  <2>5. ThreadInv' /\ RadioReleased'
    BY <1>7, <2>1, <2>2, <2>4, ThreadFrame
  <2> QED  BY <2>1, <2>5 DEF WebGood
<1>8. ASSUME web' = [web EXCEPT ![w] = [IdleWeb EXCEPT !.pc = "leave"]], main' = main,
              UNCHANGED <<radio, parked>>, web[w].pc # "idle"
       PROVE  WebGood
  <2>1. PICK r \in WebRecs : r = [IdleWeb EXCEPT !.pc = "leave"]
    BY IdleTypes DEF WebSteps
  <2>2. r.zone = 0 /\ r.pc = "leave"
    BY <2>1, IdleTypes DEF WebRecs
  <2>3. r.zone # -1 /\ web' = [web EXCEPT ![w] = r]
    BY <1>8, <2>1, <2>2
  <2> QED  BY <1>7, <1>8, <2>2, <2>3
<1>9. ASSUME web' = [web EXCEPT ![w] = IdleWeb], main' = main, web[w].pc # "idle",
              \/ radio' = Nowhere \/ radio' = parked'
              \/ UNCHANGED <<radio, parked>> /\ ~Onboarding(w)
       PROVE  WebGood
  <2>1. PICK r \in WebRecs : r = IdleWeb
    BY IdleTypes
  <2>2. r.zone = 0
    BY <2>1, IdleTypes
  <2>3. r.zone # -1 /\ web' = [web EXCEPT ![w] = r]
    BY <1>9, <2>1, <2>2
  <2> QED  BY <1>7, <1>9, <2>3
<1>10. CASE persist(w)
  <2>1. /\ web[w].pc = "save" /\ UNCHANGED <<main, radio, parked>>
        /\ web' = [web EXCEPT ![w] = IF web[w].zone = -1
                                     THEN [IdleWeb EXCEPT !.pc = "leave"] ELSE IdleWeb]
    BY <1>10 DEF persist
  <2>2. CASE web[w].zone = -1
    <3>1. web' = [web EXCEPT ![w] = [IdleWeb EXCEPT !.pc = "leave"]]
      BY <2>1, <2>2
    <3> QED  BY <1>8, <2>1, <3>1
  <2>3. CASE web[w].zone # -1
    <3>1. ~Onboarding(w)
      BY <2>1, <2>3 DEF Onboarding
    <3>2. web' = [web EXCEPT ![w] = IdleWeb]
      BY <2>1, <2>3
    <3> QED  BY <1>9, <2>1, <3>1, <3>2
  <2> QED  BY <2>2, <2>3
<1>11. CASE onboardPairs(w)
  <2>1. web[w].pc = "onboarding" /\ UNCHANGED <<main, radio, parked>>
    BY <1>11 DEF onboardPairs
  <2>2. CASE PairOk(radio) /\ web' = [web EXCEPT ![w].pc = "register", ![w].dev = radio]
    <3>1. radio \in Devices
      BY <2>2, TypeParts DEF PairOk, PlainTypes
    <3>2. PICK r \in WebRecs : r = [web[w] EXCEPT !.pc = "register", !.dev = radio]
      BY <1>1, <3>1 DEF WebRecs, WebSteps
    <3>3. web' = [web EXCEPT ![w] = r] /\ r.zone = web[w].zone /\ r.pc = "register"
      BY <1>1, <2>2, <3>2 DEF WebRecs
    <3> QED  BY <1>7, <2>1, <3>3 DEF Onboarding
  <2>3. CASE onboardFails(w)
    BY <1>8, <2>1, <2>3 DEF onboardFails
  <2> QED  BY <1>11, <2>2, <2>3 DEF onboardPairs
<1>12. CASE register(w)
  <2>1. /\ web[w].pc = "register" /\ UNCHANGED <<main, radio, parked>>
        /\ web' = [web EXCEPT ![w].pc = "save"]
    BY <1>12 DEF register
  <2>2. PICK r \in WebRecs : r = [web[w] EXCEPT !.pc = "save"]
    BY <1>1 DEF WebRecs, WebSteps
  <2>3. web' = [web EXCEPT ![w] = r] /\ r.zone = web[w].zone /\ r.pc = "save"
    BY <1>1, <2>1, <2>2 DEF WebRecs
  <2> QED  BY <1>7, <2>1, <2>3 DEF Onboarding
<1>13. CASE leave(w)
  <2>1. /\ web[w].pc = "leave" /\ main' = main /\ (radio' = Nowhere \/ radio' = parked')
        /\ web' = [web EXCEPT ![w] = IdleWeb]
    BY <1>13 DEF leave
  <2> QED  BY <1>9, <2>1
<1>14. CASE onboardThrows(w)
  <2>1. /\ web[w].pc = "onboarding" /\ main' = main /\ radio' = parked'
        /\ web' = [web EXCEPT ![w] = IdleWeb]
    BY <1>14 DEF onboardThrows
  <2> QED  BY <1>9, <2>1
<1> QED  BY <1>2, <1>3, <1>4, <1>5, <1>6, <1>10, <1>11, <1>12, <1>13, <1>14 DEF Continue

\* The sweep's steps.
LEMMA SweepGood ==
  ASSUME TypeOK, ThreadInv, RadioReleased, Sweep
  PROVE  WebGood /\ sweep' \in SweepRecs
<1> USE DEF objects, audio, wifi, history
<1>1. web \in [Web -> WebRecs] /\ sweep \in SweepRecs /\ setup \subseteq Devices
  BY TypeParts DEF ThreadTypes, PlainTypes
<1>2. UNCHANGED <<web, main, radio, parked>> /\ sweep.pc # "gone"
  BY DEF Sweep, sweepBegins, sweepNext, sweepPairs, sweepRegisters, sweepPersists, sweepEnds
<1>3. main \notin {"boot", "off"}
  BY <1>2 DEF ThreadInv
<1>4. ThreadInv' /\ RadioReleased'
  BY <1>2, <1>3 DEF ThreadInv, RadioReleased, Onboarding
<1>5. sweep' \in SweepRecs
  <2>1. CASE sweepBegins
    <3>1. PICK F \in SUBSET setup : sweep' = [IdleSweep EXCEPT !.pc = "each", !.found = F]
      BY <2>1 DEF sweepBegins
    <3>2. F \in SUBSET Devices
      BY <1>1
    <3> QED  BY <3>1, <3>2, IdleTypes DEF SweepRecs, SweepSteps
  <2>2. CASE sweepNext
    <3>1. CASE sweep' = IdleSweep
      BY <3>1, IdleTypes
    <3>2. CASE \E d \in sweep.found : sweep' = [sweep EXCEPT !.found = @ \ {d}]
      BY <1>1, <3>2 DEF SweepRecs
    <3>3. CASE \E d \in sweep.found :
                 sweep' = [pc |-> "pairing", dev |-> d, found |-> sweep.found \ {d}]
      BY <1>1, <3>3 DEF SweepRecs, SweepSteps
    <3> QED  BY <2>2, <3>1, <3>2, <3>3, Zenon DEF sweepNext
  <2>3. CASE sweepPairs \/ sweepRegisters \/ sweepPersists
    BY <1>1, <2>3 DEF sweepPairs, sweepRegisters, sweepPersists, SweepRecs, SweepSteps
  <2>4. CASE sweepEnds
    BY <2>4, IdleTypes DEF sweepEnds
  <2> QED  BY <2>1, <2>2, <2>3, <2>4 DEF Sweep
<1> QED  BY <1>1, <1>2, <1>4, <1>5 DEF WebGood

\* The process's own steps.
Process ==
  \/ Main \/ expireWindow \/ startupFails \/ playArgument \/ onSignal \/ PipeStalls \/ Restart

LEMMA ProcessGood ==
  ASSUME TypeOK, ThreadInv, RadioReleased,
         Process
  PROVE  WebGood /\ sweep' \in SweepRecs
<1> USE DEF objects, audio, wifi, history
<1>1. web \in [Web -> WebRecs] /\ sweep \in SweepRecs
  BY TypeParts DEF ThreadTypes
<1>2. CASE startup
  <2>1. UNCHANGED <<web, radio, parked>> /\ main' = "wired" /\ sweep' = IdleSweep
    BY <1>2 DEF startup
  <2> QED  BY <1>1, <2>1, IdleTypes DEF WebGood, ThreadInv, RadioReleased, Onboarding
<1>3. CASE run \/ runEnds \/ StopWeb \/ StopServices \/ startupFails
  <2>1. /\ UNCHANGED <<web, radio, parked, sweep>>
        /\ \/ main' \in {"run", "webstop"}
           \/ main' = "join" /\ \A w \in Web : web[w].pc = "idle"
           \/ main' = "off" /\ main = "join" /\ sweep.pc = "gone"
           \/ main' = "off" /\ main = "boot"
    BY <1>3 DEF run, runEnds, StopWeb, StopServices, startupFails
  <2> QED  BY <1>1, <2>1 DEF WebGood, ThreadInv, RadioReleased, Onboarding
<1>4. CASE expireWindow \/ playArgument \/ onSignal \/ PipeStalls
  <2>1. UNCHANGED <<web, main, radio, parked, sweep>>
    BY <1>4 DEF expireWindow, playArgument, onSignal, PipeStalls
  <2> QED  BY <1>1, <2>1, WebRests
<1>5. CASE Restart
  <2>1. /\ web' = [w \in Web |-> IdleWeb] /\ main' = "boot" /\ sweep' = GoneSweep
        /\ radio' = IF radio = Nowhere THEN Nowhere ELSE Stranded
    BY <1>5 DEF Restart
  <2>2. radio' \notin Devices
    BY <2>1, StreamerAssumption
  <2> QED  BY <2>1, <2>2, IdleTypes DEF WebGood, ThreadInv, RadioReleased
<1> QED  BY <1>2, <1>3, <1>4, <1>5 DEF Process, Main

----------------------------------------------------------------------------
(***************************************************************************)
(* The zones.                                                              *)
(***************************************************************************)
\* Next to what OneZone says: every id is below the counter, which createZone
\* takes the next one from.
BelowNext == next \in Nat \ {0} /\ \A i \in DOMAIN zones : zones[i].id < next
ZoneInv == OneZone /\ BelowNext

ZonesGood == zones' \in ZoneLists /\ ZonesDisjoint(zones') /\ BelowNext'

\* A new zone is empty and its id is new.
LEMMA ZoneCreated ==
  ASSUME TypeOK, ZoneInv, zones' = Append(zones, [id |-> FreshId, members |-> {}]),
         next' = FreshId + 1
  PROVE  ZonesGood
<1>1. zones \in ZoneLists /\ next \in Nat \ {0} /\ \A i \in DOMAIN zones : zones[i].id < next
  BY TypeParts DEF ObjectTypes, ZoneInv, BelowNext
<1>2. FreshId = next
  BY <1>1, NextIsFresh
<1> DEFINE Z == [id : Nat \ {0}, members : SUBSET Devices]
<1>3. PICK z \in Z : z = [id |-> next, members |-> {}]
  BY <1>1
<1>4. z.id = next /\ z.members = {}
  BY <1>3
<1>5. zones \in Seq(Z)
  BY <1>1 DEF ZoneLists
<1>6. \A i \in DOMAIN zones : zones[i].id \in Nat
  BY <1>1, ZoneListFacts
<1> HIDE DEF Z
<1>7. /\ zones' \in Seq(Z) /\ Len(zones) \in Nat /\ DOMAIN zones = 1..Len(zones)
      /\ DOMAIN zones' = 1..(Len(zones) + 1)
      /\ \A i \in DOMAIN zones : zones'[i] = zones[i]
      /\ zones'[Len(zones) + 1] = z
  BY <1>2, <1>3, <1>5
<1>8. zones' \in ZoneLists
  BY <1>7 DEF ZoneLists, Z
<1>9. ASSUME NEW i \in DOMAIN zones' PROVE (i \in DOMAIN zones /\ zones'[i] = zones[i])
                                            \/ (i = Len(zones) + 1 /\ zones'[i] = z)
  BY <1>7
<1>10. ZonesDisjoint(zones')
  <2>1. SUFFICES ASSUME NEW i \in DOMAIN zones', NEW j \in DOMAIN zones', i # j
                 PROVE  /\ zones'[i].id # zones'[j].id
                        /\ zones'[i].members \intersect zones'[j].members = {}
    BY DEF ZonesDisjoint
  <2>2. CASE i \in DOMAIN zones /\ j \in DOMAIN zones
    BY <1>7, <2>1, <2>2 DEF ZoneInv, OneZone, ZonesDisjoint
  <2>3. CASE i \in DOMAIN zones /\ j = Len(zones) + 1
    BY <1>1, <1>4, <1>6, <1>7, <2>3
  <2>4. CASE i = Len(zones) + 1 /\ j \in DOMAIN zones
    BY <1>1, <1>4, <1>6, <1>7, <2>4
  <2> QED  BY <1>9, <2>1, <2>2, <2>3, <2>4
<1>11. BelowNext'
  <2>1. next' \in Nat \ {0} /\ next' = next + 1
    BY <1>1, <1>2
  <2>2. ASSUME NEW i \in DOMAIN zones' PROVE zones'[i].id < next'
    BY <1>1, <1>4, <1>6, <1>9, <2>1
  <2> QED  BY <2>1, <2>2 DEF BelowNext
<1> QED  BY <1>8, <1>10, <1>11 DEF ZonesGood

\* ZoneAt finds the zone of an id that is there.
LEMMA ZoneFound ==
  ASSUME NEW z \in Ids
  PROVE  ZoneAt(z) \in DOMAIN zones /\ zones[ZoneAt(z)].id = z
BY DEF ZoneAt, Ids

\* A zone goes, the others stay as they were.
LEMMA ZoneGone ==
  ASSUME TypeOK, ZoneInv, NEW z \in Ids, zones' = RemoveAt(zones, ZoneAt(z)), UNCHANGED next
  PROVE  ZonesGood
<1>1. zones \in ZoneLists
  BY TypeParts DEF ObjectTypes
<1>2. PICK k \in DOMAIN zones : k = ZoneAt(z)
  BY ZoneFound
<1>3. DOMAIN zones = 1..Len(zones) /\ Len(zones) \in Nat
  BY <1>1, ZoneListFacts
<1> DEFINE from(i) == IF i < k THEN i ELSE i + 1
<1>4. /\ zones' \in ZoneLists
      /\ \A i \in DOMAIN zones' : from(i) \in DOMAIN zones /\ zones'[i] = zones[from(i)]
  BY <1>1, <1>2, ZoneRemoved
<1>5. DOMAIN zones' \in SUBSET Nat
  BY <1>4, ZoneListFacts
<1>6. \A i, j \in DOMAIN zones' : i # j => from(i) # from(j)
  BY <1>3, <1>5
<1> HIDE DEF from
<1>7. ZonesDisjoint(zones')
  BY <1>4, <1>6 DEF ZoneInv, OneZone, ZonesDisjoint
<1>8. BelowNext'
  BY <1>4 DEF ZoneInv, BelowNext
<1> QED  BY <1>4, <1>7, <1>8 DEF ZonesGood

\* The members of one zone change: none joins who is in another.
LEMMA ZoneMembersChange ==
  ASSUME TypeOK, ZoneInv, NEW k \in DOMAIN zones, NEW M \in SUBSET Devices,
         zones' = [zones EXCEPT ![k].members = M], UNCHANGED next,
         \A j \in DOMAIN zones \ {k} : M \intersect zones[j].members = {}
  PROVE  ZonesGood
<1>1. zones \in ZoneLists
  BY TypeParts DEF ObjectTypes
<1> DEFINE Z == [id : Nat \ {0}, members : SUBSET Devices]
<1>2. zones \in Seq(Z) /\ zones[k] \in Z
  BY <1>1, ZoneListFacts DEF ZoneLists
<1>3. PICK z \in Z : z = [zones[k] EXCEPT !.members = M]
  BY <1>2
<1>4. z.id = zones[k].id /\ z.members = M
  BY <1>2, <1>3
<1>5. zones' = [zones EXCEPT ![k] = z]
  BY <1>3
<1> HIDE DEF Z
<1>6. /\ zones' \in Seq(Z) /\ DOMAIN zones' = DOMAIN zones /\ zones'[k] = z
      /\ \A j \in DOMAIN zones \ {k} : zones'[j] = zones[j]
  BY <1>2, <1>5
<1>7. zones' \in ZoneLists
  BY <1>6 DEF ZoneLists, Z
<1>8. \A j \in DOMAIN zones : zones'[j].id = zones[j].id
  BY <1>4, <1>6
<1>9. ZonesDisjoint(zones')
  <2>1. SUFFICES ASSUME NEW i \in DOMAIN zones, NEW j \in DOMAIN zones, i # j
                 PROVE  /\ zones'[i].id # zones'[j].id
                        /\ zones'[i].members \intersect zones'[j].members = {}
    BY <1>6 DEF ZonesDisjoint
  <2>2. zones'[i].id # zones'[j].id
    BY <1>8, <2>1 DEF ZoneInv, OneZone, ZonesDisjoint
  <2>3. zones'[i].members \intersect zones'[j].members = {}
    <3>1. CASE i = k
      BY <1>4, <1>6, <2>1, <3>1
    <3>2. CASE j = k
      BY <1>4, <1>6, <2>1, <3>2
    <3>3. CASE i # k /\ j # k
      BY <1>6, <2>1, <3>3 DEF ZoneInv, OneZone, ZonesDisjoint
    <3> QED  BY <3>1, <3>2, <3>3
  <2> QED  BY <2>2, <2>3
<1>10. BelowNext'
  BY <1>6, <1>8 DEF ZoneInv, BelowNext
<1> QED  BY <1>7, <1>9, <1>10 DEF ZonesGood

\* addMember: the speaker is in no other zone.
LEMMA MemberAdded ==
  ASSUME TypeOK, ZoneInv, NEW z \in Ids, NEW d \in Devices, ~Elsewhere(z, d), UNCHANGED next,
         zones' = [zones EXCEPT ![ZoneAt(z)].members = @ \union {d}]
  PROVE  ZonesGood
<1>1. PICK k \in DOMAIN zones : k = ZoneAt(z) /\ zones[k].id = z
  BY ZoneFound
<1>2. zones[k].members \in SUBSET Devices
  BY TypeParts, ZoneListFacts DEF ObjectTypes
<1>3. PICK M \in SUBSET Devices : M = zones[k].members \union {d}
  BY <1>2
<1>4. zones' = [zones EXCEPT ![k].members = M]
  BY <1>1, <1>3
<1>5. \A j \in DOMAIN zones \ {k} : /\ zones[j].id # zones[k].id
                                    /\ zones[k].members \intersect zones[j].members = {}
  BY DEF ZoneInv, OneZone, ZonesDisjoint
<1>6. \A j \in DOMAIN zones \ {k} : d \notin zones[j].members
  BY <1>1, <1>5 DEF Elsewhere
<1>7. \A j \in DOMAIN zones \ {k} : M \intersect zones[j].members = {}
  BY <1>3, <1>5, <1>6
<1> QED  BY <1>4, <1>7, ZoneMembersChange

\* removeMember: the zone keeps a part of its members.
LEMMA MemberRemoved ==
  ASSUME TypeOK, ZoneInv, NEW z \in Ids, NEW d \in Devices, UNCHANGED next,
         zones' = [zones EXCEPT ![ZoneAt(z)].members = @ \ {d}]
  PROVE  ZonesGood
<1>1. PICK k \in DOMAIN zones : k = ZoneAt(z) /\ zones[k].id = z
  BY ZoneFound
<1>2. zones[k].members \in SUBSET Devices
  BY TypeParts, ZoneListFacts DEF ObjectTypes
<1>3. PICK M \in SUBSET Devices : M = zones[k].members \ {d}
  BY <1>2
<1>4. zones' = [zones EXCEPT ![k].members = M]
  BY <1>1, <1>3
<1>5. \A j \in DOMAIN zones \ {k} : zones[k].members \intersect zones[j].members = {}
  BY DEF ZoneInv, OneZone, ZonesDisjoint
<1>6. \A j \in DOMAIN zones \ {k} : M \intersect zones[j].members = {}
  BY <1>3, <1>5
<1> QED  BY <1>4, <1>6, ZoneMembersChange

\* What is restored is what was saved.
LEMMA ZonesRestored ==
  ASSUME TypeOK, ZoneInv, zones' = file.zones, next' = replaceAll(file.zones)
  PROVE  ZonesGood
<1>1. PICK zs \in ZoneLists : zs = file.zones
  BY TypeParts DEF ObjectTypes, Files
<1>2. zones' = zs /\ next' = replaceAll(zs)
  BY <1>1
<1>3. replaceAll(zs) \in Nat \ {0} /\ \A i \in DOMAIN zs : zs[i].id < replaceAll(zs)
  BY RestoredIds
<1>4. ZonesDisjoint(zones')
  BY <1>1, <1>2 DEF ZoneInv, OneZone, ZonesDisjoint
<1> QED  BY <1>2, <1>3, <1>4 DEF ZonesGood, BelowNext

\* No zones, as before startup().
LEMMA NoZones ==
  ASSUME zones' = <<>>, next' = 1
  PROVE  ZonesGood
<1>1. zones' \in ZoneLists /\ DOMAIN zones' = {}
  BY DEF ZoneLists
<1> QED  BY <1>1 DEF ZonesGood, ZonesDisjoint, BelowNext

----------------------------------------------------------------------------
(***************************************************************************)
(* The objects and their file.                                             *)
(***************************************************************************)
ObjectsGood == ObjectTypes' /\ ZoneInv'

LEMMA ZonesRest ==
  ASSUME TypeOK, ZoneInv, UNCHANGED <<zones, next>>
  PROVE  ZonesGood
BY TypeParts DEF ObjectTypes, ZonesGood, ZoneInv, OneZone, BelowNext

LEMMA SnapshotType ==
  ASSUME TypeOK
  PROVE  /\ Snapshot \in Files
         /\ Snapshot.reg = reg /\ Snapshot.zones = zones /\ Snapshot.dsp = dsp
BY TypeParts DEF ObjectTypes, Snapshot, Files

\* The file is left alone or takes what the objects held before the step.
LEMMA ObjectsFrame ==
  ASSUME TypeOK, ZoneInv, ZonesGood, reg' \in Registries, dsp' \in DspConfigs,
         engine' \in DspConfigs, file' = file \/ file' = Snapshot
  PROVE  ObjectsGood
<1>1. file' \in Files
  BY TypeParts, SnapshotType DEF ObjectTypes
<1>2. ZonesDisjoint(file'.zones)
  <2>1. CASE file' = file
    BY <2>1 DEF ZoneInv, OneZone
  <2>2. CASE file' = Snapshot
    <3>1. file'.zones = zones
      BY <2>2, SnapshotType
    <3> QED  BY <3>1 DEF ZoneInv, OneZone, ZonesDisjoint
  <2> QED  BY <2>1, <2>2
<1>3. ZoneInv'
  BY <1>2 DEF ZonesGood, ZoneInv, OneZone
<1>4. next' \in Nat
  BY DEF ZonesGood, BelowNext
<1> QED  BY <1>1, <1>3, <1>4 DEF ObjectsGood, ObjectTypes, ZonesGood

LEMMA ObjectsRest ==
  ASSUME TypeOK, ZoneInv, UNCHANGED <<reg, zones, next, dsp, engine, file>>
  PROVE  ObjectsGood
<1>1. ZonesGood /\ reg' \in Registries /\ dsp' \in DspConfigs /\ engine' \in DspConfigs
  BY ZonesRest, TypeParts DEF ObjectTypes
<1> QED  BY <1>1, ObjectsFrame

LEMMA RegistryChange ==
  ASSUME TypeOK, NEW d, NEW v \in {"absent", "unaddressed", "addressed"},
         reg' = [reg EXCEPT ![d] = v]
  PROVE  reg' \in Registries
BY TypeParts DEF ObjectTypes, Registries

LEMMA ObjectsRequest ==
  ASSUME TypeOK, ZoneInv, NEW w \in Web, Request(w)
  PROVE  ObjectsGood
<1> USE DEF objects, audio, wifi, history
<1>1. reg \in Registries /\ dsp \in DspConfigs /\ engine \in DspConfigs
  BY TypeParts DEF ObjectTypes
<1>2. ASSUME NEW zs, ZoneRequest(w, zs), ZonesGood PROVE ObjectsGood
  BY <1>1, <1>2, ObjectsFrame DEF ZoneRequest
<1>3. CASE createZone(w)
  <2>1. ZonesGood
    BY <1>3, ZoneCreated DEF createZone, ZoneRequest
  <2> QED  BY <1>2, <1>3, <2>1 DEF createZone
<1>4. CASE \E d \in Devices : addSpeaker(w, d) \/ removeSpeaker(w, d)
  <2>1. PICK d \in Devices, v \in {"absent", "unaddressed", "addressed"} :
          reg' = [reg EXCEPT ![d] = v]
    BY <1>4 DEF addSpeaker, removeSpeaker
  <2>2. UNCHANGED <<zones, next, dsp, engine, file>>
    BY <1>4 DEF addSpeaker, removeSpeaker
  <2> QED  BY <1>1, <2>1, <2>2, RegistryChange, ZonesRest, ObjectsFrame
<1>5. ASSUME NEW z \in Ids, removeZone(w, z) PROVE ObjectsGood
  <2>1. ZonesGood
    BY <1>5, ZoneGone DEF removeZone, ZoneRequest
  <2> QED  BY <1>2, <1>5, <2>1 DEF removeZone
<1>6. ASSUME NEW z \in Ids, NEW d \in Devices, addMember(w, z, d) PROVE ObjectsGood
  <2>1. ZonesGood
    BY <1>6, MemberAdded DEF addMember, ZoneRequest
  <2> QED  BY <1>2, <1>6, <2>1 DEF addMember
<1>7. ASSUME NEW z \in Ids, NEW d \in Devices, removeMember(w, z, d) PROVE ObjectsGood
  <2>1. ZonesGood
    BY <1>7, MemberRemoved DEF removeMember, ZoneRequest
  <2> QED  BY <1>2, <1>7, <2>1 DEF removeMember
<1>8. CASE \/ \E d \in Devices : onTransport(w, d) \/ pair(w, d) \/ onboard(w, d)
           \/ \E z \in Ids : playZone(w, z) \/ retargetZone(w, z)
           \/ \E f \in Fields : mergeDsp(w, f, 1)
           \/ \E open \in BOOLEAN : setWindow(w, open)
  <2>1. UNCHANGED <<reg, zones, next, dsp, engine, file>>
    BY <1>8 DEF onTransport, pair, onboard, playZone, retargetZone, Resolve, mergeDsp, setWindow
  <2> QED  BY <2>1, ObjectsRest
<1> QED  BY <1>3, <1>4, <1>5, <1>6, <1>7, <1>8 DEF Request

LEMMA ObjectsContinue ==
  ASSUME TypeOK, ZoneInv, NEW w \in Web, Continue(w)
  PROVE  ObjectsGood
<1> USE DEF objects, audio, wifi, history
<1>1. /\ reg \in Registries /\ dsp \in DspConfigs /\ engine \in DspConfigs
      /\ web[w].cfg \in DspConfigs
  BY TypeParts DEF ObjectTypes, ThreadTypes, WebRecs
<1>2. CASE storeDsp(w) \/ applyDsp(w)
  <2>1. UNCHANGED <<zones, next, reg, file>> /\ dsp' \in DspConfigs /\ engine' \in DspConfigs
    BY <1>1, <1>2 DEF storeDsp, applyDsp
  <2> QED  BY <1>1, <2>1, ZonesRest, ObjectsFrame
<1>3. CASE persist(w)
  <2>1. UNCHANGED <<zones, next, reg, dsp, engine>> /\ (file' = file \/ file' = Snapshot)
    BY <1>3 DEF persist, Persisted, NotPersisted
  <2> QED  BY <1>1, <2>1, ZonesRest, ObjectsFrame
<1>4. CASE register(w)
  <2>1. PICK d : d = web[w].dev
    OBVIOUS
  <2>2. PICK v \in {"absent", "unaddressed", "addressed"} : reg' = [reg EXCEPT ![d] = v]
    BY <1>4, <2>1 DEF register
  <2>3. UNCHANGED <<zones, next, dsp, engine, file>>
    BY <1>4 DEF register
  <2> QED  BY <1>1, <2>2, <2>3, RegistryChange, ZonesRest, ObjectsFrame
<1>5. CASE setTargets(w) \/ startSource(w) \/ pairSent(w) \/ onboardPairs(w) \/ leave(w)
           \/ onboardThrows(w)
  <2>1. UNCHANGED <<reg, zones, next, dsp, engine, file>>
    BY <1>5 DEF setTargets, startSource, pairSent, onboardPairs, leave, onboardThrows
  <2> QED  BY <2>1, ObjectsRest
<1> QED  BY <1>2, <1>3, <1>4, <1>5 DEF Continue

LEMMA ObjectsSweep ==
  ASSUME TypeOK, ZoneInv, Sweep
  PROVE  ObjectsGood
<1> USE DEF objects, audio, wifi, history
<1>1. reg \in Registries /\ dsp \in DspConfigs /\ engine \in DspConfigs
  BY TypeParts DEF ObjectTypes
<1>2. CASE sweepRegisters
  <2>1. PICK d : d = sweep.dev
    OBVIOUS
  <2>2. PICK v \in {"absent", "unaddressed", "addressed"} : reg' = [reg EXCEPT ![d] = v]
    BY <1>2, <2>1 DEF sweepRegisters
  <2>3. UNCHANGED <<zones, next, dsp, engine, file>>
    BY <1>2 DEF sweepRegisters
  <2> QED  BY <1>1, <2>2, <2>3, RegistryChange, ZonesRest, ObjectsFrame
<1>3. CASE sweepPersists
  <2>1. UNCHANGED <<zones, next, reg, dsp, engine>> /\ (file' = file \/ file' = Snapshot)
    BY <1>3 DEF sweepPersists, Persisted, NotPersisted
  <2> QED  BY <1>1, <2>1, ZonesRest, ObjectsFrame
<1>4. CASE sweepBegins \/ sweepNext \/ sweepPairs \/ sweepEnds
  <2>1. UNCHANGED <<reg, zones, next, dsp, engine, file>>
    BY <1>4 DEF sweepBegins, sweepNext, sweepPairs, sweepEnds
  <2> QED  BY <2>1, ObjectsRest
<1> QED  BY <1>2, <1>3, <1>4 DEF Sweep

LEMMA ObjectsProcess ==
  ASSUME TypeOK, ZoneInv,
         Process
  PROVE  ObjectsGood
<1> USE DEF objects, audio, wifi, history
<1>1. CASE startup
  <2>1. reg' \in Registries /\ dsp' \in DspConfigs /\ engine' \in DspConfigs /\ file' = file
    BY <1>1, TypeParts DEF startup, ObjectTypes, Files
  <2>2. ZonesGood
    BY <1>1, ZonesRestored DEF startup
  <2> QED  BY <2>1, <2>2, ObjectsFrame
<1>2. CASE Restart
  <2>1. reg' \in Registries /\ dsp' \in DspConfigs /\ engine' \in DspConfigs /\ file' = file
    BY <1>2, FlatType DEF Restart, Registries
  <2>2. ZonesGood
    BY <1>2, NoZones DEF Restart
  <2> QED  BY <2>1, <2>2, ObjectsFrame
<1>3. CASE \/ run \/ runEnds \/ StopWeb \/ StopServices
           \/ expireWindow \/ startupFails \/ playArgument \/ onSignal \/ PipeStalls
  <2>1. UNCHANGED <<reg, zones, next, dsp, engine, file>>
    BY <1>3 DEF run, runEnds, StopWeb, StopServices, expireWindow, startupFails, playArgument,
                onSignal, PipeStalls
  <2> QED  BY <2>1, ObjectsRest
<1> QED  BY <1>1, <1>2, <1>3 DEF Process, Main

----------------------------------------------------------------------------
(***************************************************************************)
(* The rest of the types.                                                  *)
(***************************************************************************)
\* The requests that leave the sink, the radio and the window alone.
Quiet(w) ==
  \/ createZone(w)
  \/ \E d \in Devices : addSpeaker(w, d) \/ pair(w, d)
  \/ \E z \in Ids : \/ removeZone(w, z) \/ playZone(w, z) \/ retargetZone(w, z)
                    \/ \E d \in Devices : addMember(w, z, d) \/ removeMember(w, z, d)
  \/ \E f \in Fields : mergeDsp(w, f, 1)

LEMMA QuietRequest ==
  ASSUME NEW w \in Web, Quiet(w)
  PROVE  UNCHANGED <<sweep, targets, source, stalled, faults, radio, parked, acked, window, late>>
<1> USE DEF objects, audio, wifi, history
<1>1. CASE createZone(w) \/ \E d \in Devices : addSpeaker(w, d) \/ pair(w, d)
  BY <1>1 DEF createZone, ZoneRequest, addSpeaker, pair
<1>2. CASE \E z \in Ids : removeZone(w, z) \/ playZone(w, z) \/ retargetZone(w, z)
  BY <1>2 DEF removeZone, ZoneRequest, playZone, retargetZone, Resolve
<1>3. CASE \E z \in Ids : \E d \in Devices : addMember(w, z, d) \/ removeMember(w, z, d)
  BY <1>3 DEF addMember, removeMember, ZoneRequest
<1>4. CASE \E f \in Fields : mergeDsp(w, f, 1)
  BY <1>4 DEF mergeDsp
<1> QED  BY <1>1, <1>2, <1>3, <1>4 DEF Quiet

LEMMA Requests ==
  ASSUME NEW w \in Web, Request(w)
  PROVE  \/ Quiet(w)
         \/ \E d \in Devices : removeSpeaker(w, d)
         \/ \E d \in Devices : onTransport(w, d)
         \/ \E d \in Devices : onboard(w, d)
         \/ \E open \in BOOLEAN : setWindow(w, open)
BY Zenon DEF Request, Quiet

LEMMA PlainRequest ==
  ASSUME TypeOK, NEW w \in Web, Request(w)
  PROVE  PlainTypes'
<1> USE DEF objects, audio, wifi, history, PlainTypes
<1>1. PlainTypes
  BY TypeParts
<1>2. UNCHANGED <<main, running, adv, setup, restarts, asked>> /\ sent' = sent + 1
  BY DEF Request, createZone, addSpeaker, removeSpeaker, onTransport, pair, onboard, removeZone,
         playZone, retargetZone, Resolve, addMember, removeMember, ZoneRequest, mergeDsp,
         setWindow, Serving
<1>3. CASE Quiet(w)
  <2>1. UNCHANGED <<targets, source, stalled, faults, radio, parked, acked, window, late>>
    BY <1>3, QuietRequest
  <2> QED  BY <1>1, <1>2, <2>1
<1>4. CASE \E d \in Devices : removeSpeaker(w, d)
  <2>1. /\ UNCHANGED <<targets, source, stalled, faults, radio, parked, window, late>>
        /\ acked' \subseteq Devices
    BY <1>1, <1>4 DEF removeSpeaker
  <2> QED  BY <1>1, <1>2, <2>1
<1>5. CASE \E d \in Devices : onTransport(w, d)
  <2>1. /\ UNCHANGED <<faults, radio, parked, acked, window, late>>
        /\ targets' \subseteq Devices /\ source' \in Int
    BY <1>1, <1>5 DEF onTransport
  <2>2. stalled' \in BOOLEAN
    <3>1. stalled' = stalled \/ stalled' = FALSE
      BY <1>5, Zenon DEF onTransport
    <3> QED  BY <1>1, <3>1, Zenon
  <2> QED  BY <1>1, <1>2, <2>1, <2>2
<1>6. CASE \E d \in Devices : onboard(w, d)
  <2>1. /\ UNCHANGED <<targets, source, stalled, acked, window, late>> /\ faults' \in Nat
        /\ radio' \in Devices \union {Nowhere, Stranded}
        /\ parked' \in Devices \union {Nowhere, Stranded}
    BY <1>1, <1>6 DEF onboard, Fault
  <2> QED  BY <1>1, <1>2, <2>1
<1>7. CASE \E open \in BOOLEAN : setWindow(w, open)
  <2>1. UNCHANGED <<targets, source, stalled, faults, radio, parked, acked>> /\ late' = 0
    BY <1>7 DEF setWindow
  <2>2. window' \in BOOLEAN
    BY <1>7, Zenon DEF setWindow
  <2> QED  BY <1>1, <1>2, <2>1, <2>2
<1> QED  BY <1>3, <1>4, <1>5, <1>6, <1>7, Requests

LEMMA PlainContinue ==
  ASSUME TypeOK, NEW w \in Web, Continue(w)
  PROVE  PlainTypes'
<1> USE DEF objects, audio, wifi, history, PlainTypes
<1>1. PlainTypes /\ web[w].to \subseteq Devices /\ web[w].zone \in Int
  BY TypeParts DEF ThreadTypes, WebRecs
<1>2. UNCHANGED <<main, running, adv, window, late, sent, restarts, asked>>
  BY DEF Continue, storeDsp, applyDsp, persist, setTargets, startSource, pairSent, onboardPairs,
         onboardThrows, register, leave
<1>3. /\ targets' \subseteq Devices /\ source' \in Int /\ faults' \in Nat
      /\ radio' \in Devices \union {Nowhere, Stranded}
      /\ parked' \in Devices \union {Nowhere, Stranded}
  BY <1>1 DEF Continue, storeDsp, applyDsp, persist, setTargets, startSource, pairSent,
         onboardPairs, onboardThrows, register, leave, Persisted, NotPersisted, Fault, PairOk, PairLost,
         PairRefused
<1>4. acked' \subseteq Devices /\ setup' \subseteq Devices
  BY <1>1 DEF Continue, storeDsp, applyDsp, persist, setTargets, startSource, pairSent,
         onboardPairs, onboardThrows, register, leave, Persisted, NotPersisted, PairOk, PairLost, PairRefused
<1>5. stalled' \in BOOLEAN
  <2>1. stalled' = stalled \/ stalled' = FALSE
    BY Zenon DEF Continue, storeDsp, applyDsp, persist, setTargets, startSource, pairSent,
         onboardPairs, onboardThrows, register, leave
  <2> QED  BY <1>1, <2>1, Zenon
<1> QED  BY <1>1, <1>2, <1>3, <1>4, <1>5

LEMMA PlainSweep ==
  ASSUME TypeOK, Sweep
  PROVE  PlainTypes'
<1> USE DEF objects, audio, wifi, history, PlainTypes
<1>1. PlainTypes
  BY TypeParts
<1>2. UNCHANGED <<main, running, adv, window, radio, parked, targets, source, stalled, sent,
                  restarts, asked>>
  BY DEF Sweep, sweepBegins, sweepNext, sweepPairs, sweepRegisters, sweepPersists, sweepEnds
<1>3. CASE sweepBegins \/ sweepNext \/ sweepRegisters \/ sweepEnds
  <2>1. UNCHANGED <<acked, setup, faults, late>>
    BY <1>3 DEF sweepBegins, sweepNext, sweepRegisters, sweepEnds
  <2> QED  BY <1>1, <1>2, <2>1
<1>4. CASE sweepPairs
  <2>1. setup' \subseteq Devices /\ faults' \in Nat /\ acked' = acked
    BY <1>1, <1>4 DEF sweepPairs, PairOk, PairLost, PairRefused, Fault
  <2>2. late' \in Nat
    BY <1>1, <1>4 DEF sweepPairs
  <2> QED  BY <1>1, <1>2, <2>1, <2>2
<1>5. CASE sweepPersists
  <2>1. acked' \subseteq Devices /\ faults' \in Nat /\ UNCHANGED <<setup, late>>
    BY <1>1, <1>5 DEF sweepPersists, Persisted, NotPersisted, Fault
  <2> QED  BY <1>1, <1>2, <2>1
<1> QED  BY <1>3, <1>4, <1>5 DEF Sweep

LEMMA PlainProcess ==
  ASSUME TypeOK, Process
  PROVE  PlainTypes'
<1> USE DEF objects, audio, wifi, history, PlainTypes
<1>1. PlainTypes
  BY TypeParts
<1>2. PICK m \in Int : m = -1
  OBVIOUS
<1>3. CASE Main
  <2>1. UNCHANGED <<targets, radio, parked, window, asked, setup, acked, sent, faults, restarts,
                    late>>
    BY <1>3 DEF Main, startup, run, runEnds, StopWeb, StopServices
  <2>2. main' \in {"boot", "wired", "run", "webstop", "join", "off"} /\ source' \in Int
    BY <1>1, <1>3 DEF Main, startup, run, runEnds, StopWeb, StopServices
  <2>3. running' \in BOOLEAN /\ adv' \in BOOLEAN /\ stalled' \in BOOLEAN
    <3>1. /\ running' = running \/ running' = TRUE
          /\ adv' = adv \/ adv' = TRUE \/ adv' = FALSE
          /\ stalled' = stalled \/ stalled' = FALSE
      BY <1>3, Zenon DEF Main, startup, run, runEnds, StopWeb, StopServices
    <3>2. running \in BOOLEAN /\ adv \in BOOLEAN /\ stalled \in BOOLEAN
      BY <1>1
    <3> QED  BY <3>1, <3>2, Zenon
  <2> QED  BY <1>1, <2>1, <2>2, <2>3
<1>4. CASE expireWindow \/ startupFails
  <2>1. /\ UNCHANGED <<targets, source, stalled, radio, parked, running, adv, asked, setup, acked,
                      sent, restarts>>
        /\ main' \in {main, "off"} /\ faults' \in Nat /\ late' \in Nat
    BY <1>1, <1>4 DEF expireWindow, startupFails, Fault
  <2>2. window' \in BOOLEAN
    BY <1>1, <1>4 DEF expireWindow, startupFails
  <2> QED  BY <1>1, <2>1, <2>2
<1>5. CASE playArgument
  <2>1. source' = m /\ targets' = Devices
    BY <1>2, <1>5 DEF playArgument
  <2> QED  BY <1>1, <1>5, <2>1 DEF playArgument
<1>6. CASE onSignal
  <2>1. asked' \in BOOLEAN
    BY <1>6 DEF onSignal
  <2> QED  BY <1>1, <1>6, <2>1 DEF onSignal
<1>7. CASE Restart
  <2>1. /\ UNCHANGED <<setup, acked, sent, faults>> /\ main' = "boot" /\ targets' = {}
        /\ source' = 0 /\ late' = 0 /\ restarts' = restarts + 1
        /\ radio' \in {Nowhere, Stranded} /\ parked' = Nowhere
    BY <1>7 DEF Restart
  <2>2. /\ running' \in BOOLEAN /\ window' \in BOOLEAN /\ adv' \in BOOLEAN /\ asked' \in BOOLEAN
        /\ stalled' \in BOOLEAN
    BY <1>7 DEF Restart
  <2> QED  BY <1>1, <2>1, <2>2
<1>8. CASE PipeStalls
  <2>1. stalled' \in BOOLEAN
    BY <1>8, Zenon DEF PipeStalls
  <2> QED  BY <1>1, <1>8, <2>1 DEF PipeStalls
<1> QED  BY <1>3, <1>4, <1>5, <1>6, <1>7, <1>8 DEF Process

----------------------------------------------------------------------------
(***************************************************************************)
(* The provisioning window.                                                *)
(***************************************************************************)
\* While the window is open, and when a handshake has been decided on, none
\* has followed the closing.
LateInv == late \in {0, 1} /\ (window \/ sweep.pc = "pairing" => late = 0)

LEMMA LateStep ==
  ASSUME TypeOK, LateInv, Next
  PROVE  LateInv'
<1> USE DEF objects, audio, wifi, history
<1>1. sweep \in SweepRecs
  BY TypeParts DEF ThreadTypes
<1>2. CASE UNCHANGED <<window, late, sweep>> \/ late' = 0
  BY <1>2 DEF LateInv
<1>3. CASE \E w \in Web : Request(w)
  <2>1. PICK w \in Web : Request(w)
    BY <1>3
  <2>2. CASE Quiet(w)
    BY <1>2, <2>2, QuietRequest
  <2>3. CASE \E d \in Devices : removeSpeaker(w, d)
    BY <1>2, <2>3 DEF removeSpeaker
  <2>4. CASE \E d \in Devices : onTransport(w, d)
    BY <1>2, <2>4 DEF onTransport
  <2>5. CASE \E d \in Devices : onboard(w, d)
    BY <1>2, <2>5 DEF onboard
  <2>6. CASE \E open \in BOOLEAN : setWindow(w, open)
    BY <1>2, <2>6 DEF setWindow
  <2> QED  BY <2>1, <2>2, <2>3, <2>4, <2>5, <2>6, Requests
<1>4. CASE \E w \in Web : Continue(w)
  <2>1. UNCHANGED <<window, late, sweep>>
    BY <1>4 DEF Continue, storeDsp, applyDsp, persist, setTargets, startSource, pairSent,
         onboardPairs, onboardThrows, register, leave
  <2> QED  BY <1>2, <2>1
<1>5. CASE Sweep
  <2>1. CASE sweepBegins
    <3>1. UNCHANGED <<window, late>> /\ sweep'.pc # "pairing"
      BY <2>1, IdleTypes DEF sweepBegins, SweepRecs
    <3> QED  BY <3>1 DEF LateInv
  <2>2. CASE sweepNext
    <3>1. UNCHANGED <<window, late>> /\ sweep.pc = "each"
      BY <2>2 DEF sweepNext
    <3>2. sweep'.pc # "pairing" \/ window
      BY <1>1, <2>2, <3>1, IdleTypes DEF sweepNext, sweepStops, SweepRecs
    <3> QED  BY <3>1, <3>2 DEF LateInv
  <2>3. CASE sweepPairs
    <3>1. sweep.pc = "pairing" /\ window' = window /\ late' = IF window THEN 0 ELSE late + 1
      BY <2>3 DEF sweepPairs
    <3>2. sweep'.pc # "pairing"
      BY <1>1, <2>3 DEF sweepPairs, SweepRecs
    <3> QED  BY <3>1, <3>2 DEF LateInv
  <2>4. CASE sweepRegisters \/ sweepPersists \/ sweepEnds
    <3>1. UNCHANGED <<window, late>> /\ sweep'.pc # "pairing"
      BY <1>1, <2>4, IdleTypes DEF sweepRegisters, sweepPersists, sweepEnds, SweepRecs
    <3> QED  BY <3>1 DEF LateInv
  <2> QED  BY <1>5, <2>1, <2>2, <2>3, <2>4 DEF Sweep
<1>6. CASE startup
  <2>1. UNCHANGED <<window, late>> /\ sweep'.pc # "pairing"
    BY <1>6, IdleTypes DEF startup
  <2> QED  BY <2>1 DEF LateInv
<1>7. CASE \/ run \/ runEnds \/ StopWeb \/ StopServices
           \/ expireWindow \/ startupFails \/ playArgument \/ onSignal \/ PipeStalls \/ Restart
  <2>1. UNCHANGED <<window, late, sweep>> \/ late' = 0
    BY <1>7 DEF run, runEnds, StopWeb, StopServices, expireWindow, startupFails, playArgument,
                onSignal, PipeStalls, Restart
  <2> QED  BY <1>2, <2>1
<1> QED  BY <1>3, <1>4, <1>5, <1>6, <1>7 DEF Next, Main

----------------------------------------------------------------------------
(***************************************************************************)
(* Pairings.                                                               *)
(***************************************************************************)
\* A saved pairing is in the registry as well: the next save, whichever
\* thread makes it, writes it again.
Up == main \notin {"boot", "off"}
AckInv == PairingKept /\ (Up => \A d \in acked : reg[d] # "absent")

LEMMA AckFrame ==
  ASSUME AckInv, acked' \subseteq acked, file' = file, Up' => Up,
         \A d \in acked' : reg[d] # "absent" => reg'[d] # "absent"
  PROVE  AckInv'
BY DEF AckInv, PairingKept

\* A save, where the registry is the one being used.
LEMMA AckSaved ==
  ASSUME TypeOK, AckInv, Up, reg' = reg, NEW x, Persisted(x) \/ NotPersisted, main' = main
  PROVE  AckInv'
<1>1. CASE Persisted(x)
  <2>1. file'.reg = reg
    BY <1>1, SnapshotType DEF Persisted
  <2>2. \A d \in acked' : reg[d] # "absent"
    BY <1>1 DEF Persisted, AckInv
  <2> QED  BY <2>1, <2>2 DEF AckInv, PairingKept
<1>2. CASE NotPersisted
  <2>1. acked' \subseteq acked /\ file' = file
    BY <1>2 DEF NotPersisted
  <2> QED  BY <2>1, AckFrame DEF Up
<1> QED  BY <1>1, <1>2

\* A speaker enters the registry.
LEMMA AckRegistered ==
  ASSUME TypeOK, AckInv, NEW d, NEW v \in {"unaddressed", "addressed"},
         reg' = [reg EXCEPT ![d] = v], UNCHANGED <<acked, file, main>>
  PROVE  AckInv'
<1>1. reg \in Registries /\ acked \subseteq Devices
  BY TypeParts DEF ObjectTypes, PlainTypes
<1>2. \A e \in acked : reg[e] # "absent" => reg'[e] # "absent"
  BY <1>1 DEF Registries
<1> QED  BY <1>2, AckFrame DEF Up

LEMMA AckRests ==
  ASSUME AckInv, UNCHANGED <<reg, acked, file>>, Up' => Up
  PROVE  AckInv'
BY AckFrame

LEMMA AckStep ==
  ASSUME TypeOK, ThreadInv, AckInv, Next
  PROVE  AckInv'
<1> USE DEF objects, audio, wifi, history
<1>1. ASSUME NEW w \in Web, Request(w) PROVE AckInv'
  <2>1. CASE \E d \in Devices : addSpeaker(w, d)
    <3>1. PICK d \in Devices : reg' = [reg EXCEPT ![d] = "addressed"]
                               /\ UNCHANGED <<acked, file, main>>
      BY <2>1 DEF addSpeaker
    <3> QED  BY <3>1, AckRegistered
  <2>2. CASE \E d \in Devices : removeSpeaker(w, d)
    <3>1. PICK d \in Devices : /\ reg' = [reg EXCEPT ![d] = "absent"] /\ acked' = acked \ {d}
                               /\ UNCHANGED <<file, main>>
      BY <2>2 DEF removeSpeaker
    <3>2. \A e \in acked' : reg'[e] = reg[e]
      BY <3>1, TypeParts DEF ObjectTypes, Registries, PlainTypes
    <3> QED  BY <3>1, <3>2, AckFrame DEF Up
  <2>3. CASE createZone(w) \/ \E z \in Ids : \/ removeZone(w, z) \/ playZone(w, z)
                                             \/ retargetZone(w, z)
    BY <2>3, AckRests DEF createZone, ZoneRequest, removeZone, playZone, retargetZone, Resolve, Up
  <2>4. CASE \E z \in Ids : \E d \in Devices : addMember(w, z, d) \/ removeMember(w, z, d)
    BY <2>4, AckRests DEF addMember, removeMember, ZoneRequest, Up
  <2>5. CASE \E d \in Devices : onTransport(w, d) \/ pair(w, d) \/ onboard(w, d)
    BY <2>5, AckRests DEF onTransport, pair, onboard, Up
  <2>6. CASE (\E f \in Fields : mergeDsp(w, f, 1)) \/ \E open \in BOOLEAN : setWindow(w, open)
    BY <2>6, AckRests DEF mergeDsp, setWindow, Up
  <2> QED  BY <1>1, <2>1, <2>2, <2>3, <2>4, <2>5, <2>6 DEF Request
<1>2. ASSUME NEW w \in Web, Continue(w) PROVE AckInv'
  <2>1. CASE persist(w)
    <3>1. web[w].pc = "save" /\ UNCHANGED <<reg, main>>
      BY <2>1 DEF persist
    <3>2. Up
      BY <3>1, WebActs DEF Up
    <3>3. Persisted(web[w].dev) \/ NotPersisted
      BY <2>1 DEF persist
    <3> QED  BY <3>1, <3>2, <3>3, AckSaved
  <2>2. CASE register(w)
    <3>1. PICK d : d = web[w].dev
      OBVIOUS
    <3>2. PICK v \in {"unaddressed", "addressed"} : reg' = [reg EXCEPT ![d] = v]
      BY <2>2, <3>1 DEF register
    <3> QED  BY <2>2, <3>2, AckRegistered DEF register
  <2>3. CASE \/ storeDsp(w) \/ applyDsp(w) \/ setTargets(w) \/ startSource(w)
             \/ pairSent(w) \/ onboardPairs(w) \/ leave(w)
           \/ onboardThrows(w)
    <3>1. UNCHANGED <<reg, acked, file, main>>
      BY <2>3 DEF storeDsp, applyDsp, setTargets, startSource, pairSent, onboardPairs, leave, onboardThrows
    <3> QED  BY <3>1, AckRests DEF Up
  <2> QED  BY <1>2, <2>1, <2>2, <2>3 DEF Continue
<1>3. CASE Sweep
  <2>1. CASE sweepPersists
    <3>1. sweep.pc = "save" /\ UNCHANGED <<reg, main>>
      BY <2>1 DEF sweepPersists
    <3>2. Up
      BY <3>1 DEF ThreadInv, Up
    <3>3. Persisted(sweep.dev) \/ NotPersisted
      BY <2>1 DEF sweepPersists
    <3> QED  BY <3>1, <3>2, <3>3, AckSaved
  <2>2. CASE sweepRegisters
    <3>1. PICK d : d = sweep.dev
      OBVIOUS
    <3>2. PICK v \in {"unaddressed", "addressed"} : reg' = [reg EXCEPT ![d] = v]
      BY <2>2, <3>1 DEF sweepRegisters
    <3> QED  BY <2>2, <3>2, AckRegistered DEF sweepRegisters
  <2>3. CASE sweepBegins \/ sweepNext \/ sweepPairs \/ sweepEnds
    <3>1. UNCHANGED <<reg, acked, file, main>>
      BY <2>3 DEF sweepBegins, sweepNext, sweepPairs, sweepEnds
    <3> QED  BY <3>1, AckRests DEF Up
  <2> QED  BY <1>3, <2>1, <2>2, <2>3 DEF Sweep
<1>4. CASE startup
  <2>1. reg' = file.reg /\ UNCHANGED <<acked, file>>
    BY <1>4 DEF startup
  <2> QED  BY <2>1 DEF AckInv, PairingKept
<1>5. CASE Restart
  <2>1. UNCHANGED <<acked, file>> /\ ~Up'
    BY <1>5 DEF Restart, Up
  <2> QED  BY <2>1 DEF AckInv, PairingKept
<1>6. CASE \/ run \/ runEnds \/ StopWeb \/ StopServices
           \/ expireWindow \/ startupFails \/ playArgument \/ onSignal \/ PipeStalls
  <2>1. UNCHANGED <<reg, acked, file>> /\ (Up' => Up)
    BY <1>6 DEF run, runEnds, StopWeb, StopServices, expireWindow, startupFails, playArgument,
                onSignal, PipeStalls, Up
  <2> QED  BY <2>1, AckRests
<1> QED  BY <1>1, <1>2, <1>3, <1>4, <1>5, <1>6 DEF Next, Main

----------------------------------------------------------------------------
(***************************************************************************)
(* Saving.                                                                 *)
(***************************************************************************)
Unsaved == {"save", "register", "apply"}

\* A request whose step leaves a change to be saved.
LEMMA OwesSave ==
  ASSUME NEW w \in Web, web'[w].pc \in Unsaved
  PROVE  SavedAtRest'
BY DEF SavedAtRest, Settled, Unsaved

\* A step that changes nothing of what is saved, and ends nothing that owes a save.
LEMMA SavedFrame ==
  ASSUME SavedAtRest, UNCHANGED <<reg, zones, dsp, file>>, Up' => Up,
         Settled' => Settled, faults' = 0 => faults = 0
  PROVE  SavedAtRest'
BY DEF SavedAtRest, Snapshot, Up

\* One thread moves, from a step that owes no save.
LEMMA SettledBack ==
  ASSUME NEW w \in Web, \A v \in Web \ {w} : web'[v] = web[v], web[w].pc \notin Unsaved,
         sweep' = sweep
  PROVE  Settled' => Settled
BY DEF Settled, Unsaved

\* A save that succeeds settles it, a save that fails is a fault.
LEMMA SavedNow ==
  ASSUME TypeOK, UNCHANGED <<reg, zones, dsp>>, NEW x, Persisted(x) \/ NotPersisted
  PROVE  SavedAtRest'
<1>1. CASE Persisted(x)
  BY <1>1 DEF Persisted, SavedAtRest, Snapshot
<1>2. CASE NotPersisted
  <2>1. faults' # 0
    BY <1>2, TypeParts DEF NotPersisted, Fault, PlainTypes
  <2> QED  BY <2>1 DEF SavedAtRest
<1> QED  BY <1>1, <1>2

\* Faults are counted and never forgotten.
LEMMA FaultsKept ==
  ASSUME TypeOK, faults' = faults \/ Fault
  PROVE  faults' = 0 => faults = 0
BY TypeParts DEF Fault, PlainTypes

LEMMA SavedRequest ==
  ASSUME TypeOK, SavedAtRest, NEW w \in Web, Request(w)
  PROVE  SavedAtRest'
<1> USE DEF objects, audio, wifi, history
<1>1. web \in [Web -> WebRecs]
  BY TypeParts DEF ThreadTypes
<1>2. CASE \/ createZone(w)
           \/ \E d \in Devices : addSpeaker(w, d) \/ removeSpeaker(w, d)
           \/ \E z \in Ids : \/ removeZone(w, z)
                             \/ \E d \in Devices : addMember(w, z, d) \/ removeMember(w, z, d)
  <2>1. web' = [web EXCEPT ![w].pc = "save"]
    BY <1>2 DEF createZone, addSpeaker, removeSpeaker, removeZone, addMember, removeMember,
                ZoneRequest, ThenSave
  <2>2. web'[w].pc = "save"
    BY <1>1, <2>1, WebGoesTo DEF WebSteps
  <2> QED  BY <2>2, OwesSave DEF Unsaved
<1>3. ASSUME UNCHANGED <<reg, zones, dsp, file, main, sweep>>, faults' = faults \/ Fault,
             web[w].pc = "idle", \A v \in Web \ {w} : web'[v] = web[v]
      PROVE  SavedAtRest'
  BY <1>3, SavedFrame, SettledBack, FaultsKept DEF Up, Unsaved
<1>4. CASE \E z \in Ids : playZone(w, z) \/ retargetZone(w, z)
  <2>1. /\ UNCHANGED <<reg, zones, dsp, file, main, sweep, faults>> /\ web[w].pc = "idle"
        /\ \E r : web' = [web EXCEPT ![w] = r]
    BY <1>4 DEF playZone, retargetZone, Resolve, Serving
  <2>2. \A v \in Web \ {w} : web'[v] = web[v]
    BY <1>1, <2>1
  <2> QED  BY <1>3, <2>1, <2>2
<1>5. CASE \E f \in Fields : mergeDsp(w, f, 1)
  <2>1. /\ UNCHANGED <<reg, zones, dsp, file, main, sweep, faults>> /\ web[w].pc = "idle"
    BY <1>5 DEF mergeDsp, Serving
  <2>2. \A v \in Web \ {w} : web'[v] = web[v]
    BY <1>1, <1>5 DEF mergeDsp
  <2> QED  BY <1>3, <2>1, <2>2
<1>6. CASE \E d \in Devices : onTransport(w, d) \/ pair(w, d) \/ onboard(w, d)
  <2>1. /\ UNCHANGED <<reg, zones, dsp, file, main, sweep>> /\ web[w].pc = "idle"
        /\ faults' = faults \/ Fault
    BY <1>6 DEF onTransport, pair, onboard, Serving
  <2>2. \A v \in Web \ {w} : web'[v] = web[v]
    BY <1>1, <1>6 DEF onTransport, pair, onboard
  <2> QED  BY <1>3, <2>1, <2>2
<1>7. CASE \E open \in BOOLEAN : setWindow(w, open)
  <2>1. UNCHANGED <<reg, zones, dsp, file, main, sweep, faults, web>> /\ web[w].pc = "idle"
    BY <1>7 DEF setWindow, Serving
  <2> QED  BY <1>3, <2>1
<1> QED  BY <1>2, <1>4, <1>5, <1>6, <1>7 DEF Request

LEMMA SavedContinue ==
  ASSUME TypeOK, SavedAtRest, NEW w \in Web, Continue(w)
  PROVE  SavedAtRest'
<1> USE DEF objects, audio, wifi, history
<1>1. web \in [Web -> WebRecs]
  BY TypeParts DEF ThreadTypes
<1>2. CASE persist(w)
  <2>1. Persisted(web[w].dev) \/ NotPersisted
    BY <1>2 DEF persist
  <2>2. UNCHANGED <<reg, zones, dsp>>
    BY <1>2 DEF persist
  <2> QED  BY <2>1, <2>2, SavedNow
<1>3. CASE storeDsp(w) \/ register(w)
  <2>1. web' = [web EXCEPT ![w].pc = "apply"] \/ web' = [web EXCEPT ![w].pc = "save"]
    BY <1>3 DEF storeDsp, register
  <2>2. web'[w].pc \in {"apply", "save"}
    BY <1>1, <2>1, WebGoesTo DEF WebSteps
  <2> QED  BY <2>2, OwesSave DEF Unsaved
<1>4. CASE applyDsp(w)
  <2>1. PICK r \in WebRecs : r = [IdleWeb EXCEPT !.pc = "save"]
    BY IdleTypes DEF WebSteps
  <2>2. r.pc = "save"
    BY <2>1, IdleTypes DEF WebRecs
  <2>3. web'[w] = r
    BY <1>1, <1>4, <2>1 DEF applyDsp
  <2> QED  BY <2>2, <2>3, OwesSave DEF Unsaved
<1>5. ASSUME UNCHANGED <<reg, zones, dsp, file, main, sweep>>, faults' = faults \/ Fault,
             web[w].pc \notin Unsaved, \A v \in Web \ {w} : web'[v] = web[v]
      PROVE  SavedAtRest'
  BY <1>5, SavedFrame, SettledBack, FaultsKept DEF Up
<1>6. CASE setTargets(w) \/ startSource(w) \/ leave(w) \/ onboardThrows(w)
  <2>1. /\ UNCHANGED <<reg, zones, dsp, file, main, sweep>> /\ web[w].pc \notin Unsaved
        /\ faults' = faults \/ Fault
        /\ \E r : web' = [web EXCEPT ![w] = r]
    BY <1>6 DEF setTargets, startSource, leave, onboardThrows, Unsaved
  <2>2. \A v \in Web \ {w} : web'[v] = web[v]
    BY <1>1, <2>1
  <2> QED  BY <1>5, <2>1, <2>2
<1>7. CASE pairSent(w) \/ onboardPairs(w)
  <2>1. /\ UNCHANGED <<reg, zones, dsp, file, main, sweep>> /\ web[w].pc \notin Unsaved
        /\ faults' = faults \/ Fault
    BY <1>7 DEF pairSent, onboardPairs, PairOk, PairLost, PairRefused, Unsaved
  <2>2. \A v \in Web \ {w} : web'[v] = web[v]
    BY <1>1, <1>7 DEF pairSent, onboardPairs, onboardFails
  <2> QED  BY <1>5, <2>1, <2>2
<1> QED  BY <1>2, <1>3, <1>4, <1>6, <1>7 DEF Continue

LEMMA SavedSweep ==
  ASSUME TypeOK, SavedAtRest, Sweep
  PROVE  SavedAtRest'
<1> USE DEF objects, audio, wifi, history
<1>1. sweep \in SweepRecs
  BY TypeParts DEF ThreadTypes
<1>2. CASE sweepPersists
  <2>1. Persisted(sweep.dev) \/ NotPersisted
    BY <1>2 DEF sweepPersists
  <2>2. UNCHANGED <<reg, zones, dsp>>
    BY <1>2 DEF sweepPersists
  <2> QED  BY <2>1, <2>2, SavedNow
<1>3. CASE sweepRegisters
  <2>1. sweep'.pc = "save"
    BY <1>1, <1>3 DEF sweepRegisters, SweepRecs
  <2> QED  BY <2>1 DEF SavedAtRest, Settled
<1>4. CASE sweepBegins \/ sweepNext \/ sweepPairs \/ sweepEnds
  <2>1. /\ UNCHANGED <<reg, zones, dsp, file, main, web>> /\ (faults' = faults \/ Fault)
        /\ sweep.pc \notin {"register", "save"}
    BY <1>4 DEF sweepBegins, sweepNext, sweepPairs, sweepEnds, PairOk, PairLost, PairRefused
  <2>2. Settled' => Settled
    BY <2>1 DEF Settled
  <2> QED  BY <2>1, <2>2, SavedFrame, FaultsKept DEF Up
<1> QED  BY <1>2, <1>3, <1>4 DEF Sweep

LEMMA SavedProcess ==
  ASSUME TypeOK, SavedAtRest,
         Process
  PROVE  SavedAtRest'
<1> USE DEF objects, audio, wifi, history
<1>1. CASE startup
  <2>1. reg' = file.reg /\ zones' = file.zones /\ dsp' = file.dsp /\ file' = file
    BY <1>1 DEF startup
  <2>2. file = [reg |-> file.reg, zones |-> file.zones, dsp |-> file.dsp]
    BY TypeParts DEF ObjectTypes, Files
  <2> QED  BY <2>1, <2>2 DEF SavedAtRest, Snapshot
<1>2. CASE Restart \/ startupFails
  <2>1. main' \in {"boot", "off"}
    BY <1>2 DEF Restart, startupFails
  <2> QED  BY <2>1 DEF SavedAtRest
<1>3. CASE \/ run \/ runEnds \/ StopWeb \/ StopServices
           \/ expireWindow \/ playArgument \/ onSignal \/ PipeStalls
  <2>1. UNCHANGED <<reg, zones, dsp, file, web, sweep, faults>> /\ (Up' => Up)
    BY <1>3 DEF run, runEnds, StopWeb, StopServices, expireWindow, playArgument, onSignal, PipeStalls, Up
  <2>2. Settled' => Settled
    BY <2>1 DEF Settled
  <2> QED  BY <2>1, <2>2, SavedFrame
<1> QED  BY <1>1, <1>2, <1>3 DEF Process, Main

----------------------------------------------------------------------------
(***************************************************************************)
(* The inductive invariant and what follows from it.                       *)
(***************************************************************************)
StreamerInv ==
  /\ TypeOK /\ ThreadInv /\ RadioReleased
  /\ ZoneInv /\ AckInv /\ LateInv /\ SavedAtRest

LEMMA InvInit ==
  ASSUME Init
  PROVE  StreamerInv
<1>1. /\ file \in [reg : Registries, zones : ZoneLists, dsp : DspConfigs]
      /\ ZonesDisjoint(file.zones)
  BY StreamerAssumption DEF Init
<1>2. ThreadTypes
  <2>1. web = [w \in Web |-> IdleWeb] /\ sweep = GoneSweep
    BY DEF Init
  <2> QED  BY <2>1, IdleTypes DEF ThreadTypes
<1>3. zones \in ZoneLists /\ DOMAIN zones = {}
  BY DEF Init, ZoneLists
<1>4. ObjectTypes
  BY <1>1, <1>3, FlatType DEF Init, ObjectTypes, Files, Registries
<1>5. PlainTypes
  <2>1. /\ running \in BOOLEAN /\ window \in BOOLEAN /\ adv \in BOOLEAN /\ asked \in BOOLEAN
        /\ stalled \in BOOLEAN
    BY DEF Init
  <2> QED  BY <2>1 DEF Init, PlainTypes
<1>6. TypeOK
  BY <1>2, <1>4, <1>5, TypeParts
<1>7. radio = Nowhere /\ Nowhere \notin Devices
  BY StreamerAssumption DEF Init
<1>8. \A w \in Web : web[w].pc = "idle" /\ web[w].zone = 0
  BY IdleTypes DEF Init
<1>9. ThreadInv
  BY <1>8, IdleTypes DEF Init, ThreadInv
<1>10. ZoneInv
  BY <1>1, <1>3 DEF Init, ZoneInv, OneZone, ZonesDisjoint, BelowNext
<1>11. AckInv
  BY DEF Init, AckInv, PairingKept, Up
<1>12. LateInv /\ SavedAtRest
  BY DEF Init, LateInv, SavedAtRest
<1> QED  BY <1>6, <1>7, <1>9, <1>10, <1>11, <1>12 DEF StreamerInv, RadioReleased

LEMMA InvStep ==
  ASSUME StreamerInv, [Next]_vars
  PROVE  StreamerInv'
<1> USE DEF StreamerInv
<1>1. CASE Next
  <2>1. AckInv' /\ LateInv'
    BY <1>1, AckStep, LateStep
  <2>2. ThreadTypes
    BY TypeParts
  <2>3. ASSUME WebGood, sweep' \in SweepRecs, ObjectsGood, PlainTypes', SavedAtRest'
        PROVE  StreamerInv'
    <3>1. TypeOK'
      <4>1. ThreadTypes' /\ ObjectTypes' /\ PlainTypes'
        BY <2>3 DEF WebGood, ThreadTypes, ObjectsGood
      <4> QED  BY <4>1 DEF TypeOK, ThreadTypes, ObjectTypes, PlainTypes, WebRecs, SweepRecs,
                           Files
    <3> QED  BY <2>1, <2>3, <3>1 DEF WebGood, ObjectsGood
  <2>4. ASSUME NEW w \in Web, Request(w) PROVE StreamerInv'
    <3>1. \A z \in Ids : z \in Int /\ z # -1
      <4>1. \A i \in DOMAIN zones : zones[i].id \in Nat
        BY TypeParts, ZoneListFacts DEF ObjectTypes
      <4> QED  BY <4>1 DEF Ids
    <3>2. WebGood
      BY <2>4, <3>1, WebRequest
    <3>3. sweep' = sweep
      <4> USE DEF objects, audio, wifi, history
      <4>1. CASE Quiet(w)
        BY <4>1, QuietRequest
      <4>2. CASE \E d \in Devices : removeSpeaker(w, d) \/ onTransport(w, d) \/ onboard(w, d)
        BY <4>2 DEF removeSpeaker, onTransport, onboard
      <4>3. CASE \E open \in BOOLEAN : setWindow(w, open)
        BY <4>3 DEF setWindow
      <4> QED  BY <2>4, <4>1, <4>2, <4>3, Requests
    <3>4. ObjectsGood /\ PlainTypes' /\ SavedAtRest'
      BY <2>4, ObjectsRequest, PlainRequest, SavedRequest
    <3> QED  BY <2>2, <2>3, <3>2, <3>3, <3>4 DEF ThreadTypes
  <2>5. ASSUME NEW w \in Web, Continue(w) PROVE StreamerInv'
    <3>1. WebGood
      BY <2>5, WebContinue
    <3>2. sweep' = sweep
      BY <2>5 DEF Continue, storeDsp, applyDsp, persist, setTargets, startSource, pairSent,
                  onboardPairs, onboardThrows, register, leave
    <3>3. ObjectsGood /\ PlainTypes' /\ SavedAtRest'
      BY <2>5, ObjectsContinue, PlainContinue, SavedContinue
    <3> QED  BY <2>2, <2>3, <3>1, <3>2, <3>3 DEF ThreadTypes
  <2>6. CASE Sweep
    BY <2>3, <2>6, SweepGood, ObjectsSweep, PlainSweep, SavedSweep
  <2>7. CASE Process
    BY <2>3, <2>7, ProcessGood, ObjectsProcess, PlainProcess, SavedProcess
  <2> QED  BY <1>1, <2>4, <2>5, <2>6, <2>7 DEF Next, Process
<1>2. CASE UNCHANGED vars
  <2>1. UNCHANGED <<main, running, web, sweep, reg, zones, next, dsp, engine, targets, source,
                    stalled, file, window, radio, parked, adv, setup, sent, faults, restarts, asked, acked, late>>
    BY <1>2 DEF vars, objects, audio, wifi, history
  <2>2. TypeOK'
    BY <2>1 DEF TypeOK
  <2>3. ThreadInv' /\ RadioReleased' /\ LateInv'
    BY <2>1 DEF ThreadInv, RadioReleased, Onboarding, LateInv
  <2>4. ZoneInv' /\ AckInv' /\ SavedAtRest'
    BY <2>1 DEF ZoneInv, OneZone, BelowNext, AckInv, PairingKept, Up, SavedAtRest, Settled,
                Snapshot
  <2> QED  BY <2>2, <2>3, <2>4
<1> QED  BY <1>1, <1>2

LEMMA InvAlways == Spec => []StreamerInv
BY InvInit, InvStep, PTL DEF Spec

\* Every variable of the streamer keeps its type: among others the ids of the
\* zones stay positive (ZoneManager::createZone) and a registered speaker is
\* one of the site's.
THEOREM StreamerTypeCorrect == Spec => []TypeOK
<1>1. StreamerInv => TypeOK
  BY DEF StreamerInv
<1> QED  BY <1>1, InvAlways, PTL

\* Whatever requests the web threads run at the same time and however often the
\* zones are restored, no speaker is in two zones and no id is given out twice
\* (ZoneManager).
THEOREM OneZoneHolds == Spec => []OneZone
<1>1. StreamerInv => OneZone
  BY DEF StreamerInv, ZoneInv
<1> QED  BY <1>1, InvAlways, PTL

\* With nothing in progress and no failed write, the file holds the registry, the
\* zones and the DSP settings the process has (StreamerApp::persist).
THEOREM SavedAtRestHolds == Spec => []SavedAtRest
<1>1. StreamerInv => SavedAtRest
  BY DEF StreamerInv
<1> QED  BY <1>1, InvAlways, PTL

\* A saved pairing stays in the file until the speaker is removed, whichever
\* threads save, fail to save or are cut off (StreamerApp::persist).
THEOREM PairingKeptHolds == Spec => []PairingKept
<1>1. StreamerInv => PairingKept
  BY DEF StreamerInv, AckInv
<1> QED  BY <1>1, InvAlways, PTL

\* At most one handshake of the sweep follows the closing of the window
\* (AutoPairWorker::sweepOnce).
THEOREM TrailingPairHolds == Spec => []TrailingPair
<1>1. StreamerInv => TrailingPair
  BY DEF StreamerInv, LateInv, TrailingPair
<1> QED  BY <1>1, InvAlways, PTL

\* The spare radio is on a speaker's network only while a request onboards
\* (StreamerApp::onboard), for any number of requests that take it from each
\* other: unless a failing nmcli or an exception left it there (parked).
THEOREM RadioReleasedHolds == Spec => []RadioReleased
<1>1. StreamerInv => RadioReleased
  BY DEF StreamerInv
<1> QED  BY <1>1, InvAlways, PTL
=============================================================================
