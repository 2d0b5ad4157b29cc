---------------------------- MODULE Device_proofs ---------------------------
(***************************************************************************)
(* Theorems about Device, for any number of web threads, settings, curves, *)
(* operations and failures: the amplifier is never opened while the last   *)
(* poll saw it unhealthy, an update keeps the binary that ran before it,   *)
(* updates are refused exactly while a calibration runs, and the DSP ends  *)
(* up with what the configuration says of the settings not set apart.      *)
(***************************************************************************)
EXTENDS Device, SequenceTheorems, TLAPS

(* A step that leaves the amplifier, its history and the failures alone.   *)
AmpRests == UNCHANGED <<ampState, line, sensed, failed>>

(* A step that writes the mute line for playback or a calibration.         *)
AmpWrites ==
    /\ \E ok \in BOOLEAN : Mute(ok) \/ Unmute(ok)
    /\ UNCHANGED <<sensed, failed>>

(* The amplifier's state remembers what the last poll saw, and the state   *)
(* is unhealthy only after the line was muted or the write had failed.     *)
HealthInv ==
    /\ sensed => ampState \in Unhealthy
    /\ ampState \in Unhealthy /\ "line" \notin failed => line = "muted"

LEMMA RestKeepsHealth == ASSUME HealthInv, AmpRests PROVE HealthInv'
BY DEF HealthInv, AmpRests

LEMMA WriteKeepsHealth == ASSUME HealthInv, AmpWrites PROVE HealthInv'
<1>1. PICK ok \in BOOLEAN : Mute(ok) \/ Unmute(ok)
  BY DEF AmpWrites
<1>2. UNCHANGED <<sensed, failed>>
  BY DEF AmpWrites
<1>3. CASE Mute(ok)
  BY <1>2, <1>3 DEF HealthInv, Mute, Unhealthy
<1>4. CASE Unmute(ok)
  BY <1>2, <1>4 DEF HealthInv, Unmute, Unhealthy
<1> QED  BY <1>1, <1>3, <1>4

(* poll: whatever the flags and the temperature, a new unhealthy state     *)
(* comes with a write of the mute line.                                    *)
LEMMA PollKeepsHealth ==
  ASSUME HealthInv, NEW f \in BOOLEAN, NEW p \in BOOLEAN, NEW t \in Temperatures,
         NEW ok \in BOOLEAN, poll(f, p, t, ok)
  PROVE  HealthInv'
<1> DEFINE s == readFlags(ampState, f, p)
           muting == s # ampState \/ (t = "hot" /\ s # "Overheated")
<1>1. /\ ampState' = readTemperature(s, t)
      /\ line' = IF muting /\ ok THEN "muted" ELSE line
      /\ sensed' = (f \/ p \/ t = "hot")
      /\ failed' = IF ok THEN failed ELSE failed \union {"line"}
  BY DEF poll, HalMute
<1>2. sensed' => ampState' \in Unhealthy
  BY <1>1 DEF readFlags, readTemperature, Unhealthy
<1>3. ampState' \in Unhealthy /\ ~muting => ampState \in Unhealthy
  BY <1>1 DEF readFlags, readTemperature, Unhealthy
<1>4. ASSUME ampState' \in Unhealthy, "line" \notin failed'
      PROVE  line' = "muted"
  <2>1. ok /\ failed' = failed
    BY <1>1, <1>4
  <2> QED  BY <1>1, <1>3, <1>4, <2>1 DEF HealthInv
<1> QED  BY <1>2, <1>4 DEF HealthInv

(* A power cut mutes the amplifier and forgets what was seen.              *)
LEMMA CutKeepsHealth == ASSUME HealthInv, powerCut PROVE HealthInv'
BY DEF HealthInv, powerCut, AmpStart, HalMute, Unhealthy

LEMMA WebHealth ==
  ASSUME NEW w \in Web, WebStep(w) PROVE AmpRests \/ AmpWrites
<1> USE DEF AmpRests, AmpWrites, history, ampVars
<1>1. CASE \E v \in Delays : setDelay(w, v)
  BY <1>1 DEF setDelay
<1>2. CASE setDelayApplies(w)
  BY <1>2 DEF setDelayApplies
<1>3. CASE \E name \in {"default", "room"} : setEq(w, name)
  BY <1>3 DEF setEq
<1>4. CASE factoryReset(w) \/ runCalibration(w)
  BY <1>4 DEF factoryReset, runCalibration
<1>5. CASE \E ok \in BOOLEAN : prepare(w, ok)
  BY <1>5 DEF prepare
<1>6. CASE calibrationFails(w)
  BY <1>6 DEF calibrationFails
<1>7. CASE \E c \in Corrections : measureRoom(w, c)
  BY <1>7 DEF measureRoom
<1>8. CASE saveProfile(w) \/ renameProfile(w) \/ renameFails(w)
  BY <1>8 DEF saveProfile, renameProfile, renameFails
<1>9. CASE \E ok \in BOOLEAN : recordProfile(w, ok)
  BY <1>9 DEF recordProfile
<1>10. CASE \E ok \in BOOLEAN : restorePlayback(w, ok)
  BY <1>10 DEF restorePlayback
<1>11. CASE calibrationCompletes(w)
  BY <1>11 DEF calibrationCompletes
<1>12. CASE \E heard \in BOOLEAN : runDiagnostics(w, heard)
  BY <1>12 DEF runDiagnostics
<1> QED  BY <1>1, <1>2, <1>3, <1>4, <1>5, <1>6, <1>7, <1>8, <1>9, <1>10, <1>11, <1>12 DEF WebStep

(* OpenOnlyWhenHealthy: after a poll that saw a fault, the protection or   *)
(* the shutdown temperature, neither AudioStarted nor the end of a         *)
(* calibration opens the amplifier before a poll that saw none.            *)
THEOREM OpenOnlyWhenHealthyHolds == Spec => []OpenOnlyWhenHealthy
<1>1. Init => HealthInv
  BY DEF Init, HealthInv, Unhealthy
<1>2. HealthInv /\ [Next]_vars => HealthInv'
  <2> SUFFICES ASSUME HealthInv, [Next]_vars PROVE HealthInv'
    OBVIOUS
  <2>1. CASE \E w \in Web : WebStep(w)
    BY <2>1, WebHealth, RestKeepsHealth, WriteKeepsHealth
  <2>2. CASE \E k \in Numbers, v \in Delays : executeSet(k, v)
    BY <2>2, RestKeepsHealth DEF executeSet, AmpRests, ampVars
  <2>3. CASE emitExecuted \/ Dispatch \/ sendHeartbeat
    BY <2>3, RestKeepsHealth DEF emitExecuted, Dispatch, sendHeartbeat, AmpRests, ampVars, history
  <2>4. CASE \E on, ok \in BOOLEAN : audioGate(on, ok)
    BY <2>4, WriteKeepsHealth DEF audioGate, AmpWrites, history
  <2>5. CASE \E f, p, ok \in BOOLEAN, t \in Temperatures : poll(f, p, t, ok)
    BY <2>5, PollKeepsHealth
  <2>6. CASE Update
    <3>1. CASE \E ok \in BOOLEAN : endRestore(ok)
      BY <3>1 DEF endRestore, ampVars, HealthInv
    <3>2. CASE \E b \in {"good", "broken"} : install(b)
      BY <3>2, RestKeepsHealth DEF install, AmpRests, ampVars, history
    <3>3. CASE updateFails \/ beginBackup \/ endBackup \/ confirm \/ beginRestore \/ writeback
      BY <3>3, RestKeepsHealth DEF updateFails, beginBackup, endBackup, confirm,
              beginRestore, writeback, AmpRests, ampVars, history
    <3>4. CASE runUpdate
      BY <3>4 DEF runUpdate, ampVars, HealthInv
    <3> QED  BY <2>6, <3>1, <3>2, <3>3, <3>4 DEF Update
  <2>7. CASE powerCut
    BY <2>7, CutKeepsHealth
  <2>8. CASE UNCHANGED vars
    BY <2>8, RestKeepsHealth DEF vars, AmpRests, ampVars, history
  <2> QED  BY <2>1, <2>2, <2>3, <2>4, <2>5, <2>6, <2>7, <2>8 DEF Next
<1>3. HealthInv => OpenOnlyWhenHealthy
  BY DEF HealthInv, OpenOnlyWhenHealthy
<1> QED  BY <1>1, <1>2, <1>3, PTL DEF Spec

----------------------------------------------------------------------------
(* Where the update stands decides which of the two files is the binary    *)
(* that ran when it began.                                                 *)
UpdateInv ==
    failed \subseteq {"line"} =>
        /\ upd \in {"fetching", "copying", "installing"} => target = prior
        /\ upd \in {"installing", "checking", "rolling"} => backup = prior
        /\ prior \in {target, backup}

(* A step that has nothing to do with the update.                          *)
UpdateRests ==
    /\ UNCHANGED <<upd, target, backup, flash, prior, up>>
    /\ failed' = failed \/ failed' = failed \union {"line"}

LEMMA RestKeepsUpdate == ASSUME UpdateInv, UpdateRests PROVE UpdateInv'
BY DEF UpdateInv, UpdateRests

LEMMA WebRests ==
  ASSUME NEW w \in Web, WebStep(w) PROVE UpdateRests
<1> USE DEF UpdateRests, binaries, history
<1>1. CASE \E v \in Delays : setDelay(w, v)
  BY <1>1 DEF setDelay
<1>2. CASE setDelayApplies(w)
  BY <1>2 DEF setDelayApplies
<1>3. CASE \E name \in {"default", "room"} : setEq(w, name)
  BY <1>3 DEF setEq
<1>4. CASE factoryReset(w) \/ runCalibration(w)
  BY <1>4 DEF factoryReset, runCalibration
<1>5. CASE \E ok \in BOOLEAN : prepare(w, ok)
  BY <1>5 DEF prepare
<1>6. CASE calibrationFails(w)
  BY <1>6 DEF calibrationFails
<1>7. CASE \E c \in Corrections : measureRoom(w, c)
  BY <1>7 DEF measureRoom
<1>8. CASE saveProfile(w) \/ renameProfile(w) \/ renameFails(w)
  BY <1>8 DEF saveProfile, renameProfile, renameFails
<1>9. CASE \E ok \in BOOLEAN : recordProfile(w, ok)
  BY <1>9 DEF recordProfile
<1>10. CASE \E ok \in BOOLEAN : restorePlayback(w, ok)
  BY <1>10 DEF restorePlayback
<1>11. CASE calibrationCompletes(w)
  BY <1>11 DEF calibrationCompletes
<1>12. CASE \E heard \in BOOLEAN : runDiagnostics(w, heard)
  BY <1>12 DEF runDiagnostics
<1> QED  BY <1>1, <1>2, <1>3, <1>4, <1>5, <1>6, <1>7, <1>8, <1>9, <1>10, <1>11, <1>12 DEF WebStep

(* runUpdate: the copy is whole before the target is replaced, and the     *)
(* target is the old binary while the copy is made.                        *)
LEMMA UpdateKeeps == ASSUME UpdateInv, Update PROVE UpdateInv'
<1>1. CASE runUpdate
  BY <1>1 DEF runUpdate, Begins, UpdateInv, history
<1>2. CASE updateFails
  BY <1>2 DEF updateFails, Steps, UpdateInv, history
<1>3. CASE beginBackup
  BY <1>3 DEF beginBackup, Steps, UpdateInv, history
<1>4. CASE endBackup
  BY <1>4 DEF endBackup, Steps, UpdateInv, history
<1>5. CASE \E b \in {"good", "broken"} : install(b)
  BY <1>5 DEF install, Steps, UpdateInv, history
<1>6. CASE confirm
  BY <1>6 DEF confirm, Steps, UpdateInv, history
<1>7. CASE beginRestore \/ writeback
  BY <1>7 DEF beginRestore, writeback, Steps, UpdateInv, history
<1>8. CASE \E ok \in BOOLEAN : endRestore(ok)
  BY <1>8 DEF endRestore, Steps, UpdateInv
<1> QED  BY <1>1, <1>2, <1>3, <1>4, <1>5, <1>6, <1>7, <1>8 DEF Update

(* PreviousKept: the binary that ran when runUpdate last began is whole in *)
(* place or as RollbackManager's copy, whatever fails, the health check    *)
(* says or the power interrupts, unless a rollback failed or a power cut   *)
(* lost writes that were not on the disk.                                  *)
THEOREM PreviousKeptHolds == Spec => []PreviousKept
<1>1. Init => UpdateInv
  BY DEF Init, UpdateInv
<1>2. UpdateInv /\ [Next]_vars => UpdateInv'
  <2> SUFFICES ASSUME UpdateInv, [Next]_vars PROVE UpdateInv'
    OBVIOUS
  <2>1. CASE \E w \in Web : WebStep(w)
    BY <2>1, WebRests, RestKeepsUpdate
  <2>2. CASE \E k \in Numbers, v \in Delays : executeSet(k, v)
    BY <2>2, RestKeepsUpdate DEF executeSet, UpdateRests, binaries
  <2>3. CASE emitExecuted \/ Dispatch \/ sendHeartbeat
    BY <2>3, RestKeepsUpdate DEF emitExecuted, Dispatch, sendHeartbeat, UpdateRests, binaries, history
  <2>4. CASE \E on, ok \in BOOLEAN : audioGate(on, ok)
    BY <2>4, RestKeepsUpdate DEF audioGate, UpdateRests, binaries, history
  <2>5. CASE \E f, p, ok \in BOOLEAN, t \in Temperatures : poll(f, p, t, ok)
    <3>1. UpdateRests
      BY <2>5 DEF poll, UpdateRests, binaries
    <3> QED  BY <3>1, RestKeepsUpdate
  <2>6. CASE Update
    BY <2>6, UpdateKeeps
  <2>7. CASE powerCut
    BY <2>7 DEF powerCut, UpdateInv
  <2>8. CASE UNCHANGED vars
    BY <2>8, RestKeepsUpdate DEF vars, UpdateRests, binaries, history
  <2> QED  BY <2>1, <2>2, <2>3, <2>4, <2>5, <2>6, <2>7, <2>8 DEF Next
<1>3. UpdateInv => PreviousKept
  BY DEF UpdateInv, PreviousKept
<1> QED  BY <1>1, <1>2, <1>3, PTL DEF Spec
----------------------------------------------------------------------------
(* The event bus: what the events that are not delivered yet will do.      *)

Opening == {"CalibrationCompleted", "CalibrationFailed"}
Gating == Opening \union {"CalibrationStarted"}
SilentTypes == {"MicFailure", "CommandExecuted", "AmplifierFault", "AmplifierProtection",
                "AmplifierOverheat", "TempWarning", "UpdateStarted", "UpdateFailed",
                "UpdateCompleted", "RollbackTriggered"}
Events == [type : Gating \union SilentTypes, k : Keys \union {"-"}, v : Delays]

(* The gate of the updates once everything in q is delivered.              *)
EndsOpen(q, a) ==
    \/ (\A i \in DOMAIN q : q[i].type \notin Gating) /\ a
    \/ \E i \in DOMAIN q : /\ q[i].type \in Opening
                           /\ \A j \in DOMAIN q : j > i => q[j].type \notin Gating
EndsShut(q, a) ==
    \/ (\A i \in DOMAIN q : q[i].type \notin Gating) /\ ~a
    \/ \E i \in DOMAIN q : /\ q[i].type = "CalibrationStarted"
                           /\ \A j \in DOMAIN q : j > i => q[j].type \notin Gating

(* The value of setting k in the DSP, now d, once q is delivered.          *)
EndsAs(q, k, d, x) ==
    \/ (\A i \in DOMAIN q : q[i].k # k) /\ d = x
    \/ \E i \in DOMAIN q : /\ q[i].k = k /\ q[i].v = x
                           /\ \A j \in DOMAIN q : j > i => q[j].k # k

(* Events that neither move the gate nor carry a setting.                  *)
Silent(s) == \A i \in DOMAIN s : s[i].type \notin Gating /\ s[i].k = "-"

LEMMA Appended ==
  ASSUME NEW q \in Seq(Events), NEW e \in Events, NEW r, r = Append(q, e)
  PROVE  /\ r \in Seq(Events) /\ Len(q) \in Nat /\ r[Len(q) + 1] = e
         /\ DOMAIN q = 1..Len(q) /\ DOMAIN r = 1..(Len(q) + 1)
         /\ \A i \in DOMAIN q : r[i] = q[i]
BY AppendProperties, LenProperties

LEMMA AppendGating ==
  ASSUME NEW q \in Seq(Events), NEW e \in Events, NEW r, r = Append(q, e), NEW a
  PROVE  /\ e.type \in Opening => EndsOpen(r, a)
         /\ e.type = "CalibrationStarted" => EndsShut(r, a)
<1>1. /\ Len(q) \in Nat /\ r[Len(q) + 1] = e /\ DOMAIN r = 1..(Len(q) + 1)
  BY Appended
<1>2. Len(q) + 1 \in DOMAIN r /\ \A j \in DOMAIN r : ~(j > Len(q) + 1)
  BY <1>1
<1> QED  BY <1>1, <1>2 DEF EndsOpen, EndsShut

LEMMA AppendSetting ==
  ASSUME NEW q \in Seq(Events), NEW e \in Events, NEW r, r = Append(q, e), NEW d
  PROVE  EndsAs(r, e.k, d, e.v)
<1>1. /\ Len(q) \in Nat /\ r[Len(q) + 1] = e /\ DOMAIN r = 1..(Len(q) + 1)
  BY Appended
<1>2. Len(q) + 1 \in DOMAIN r /\ \A j \in DOMAIN r : ~(j > Len(q) + 1)
  BY <1>1
<1> QED  BY <1>1, <1>2 DEF EndsAs

(* An event of another kind, or of another setting, changes nothing.       *)
LEMMA AppendOther ==
  ASSUME NEW q \in Seq(Events), NEW e \in Events, NEW r, r = Append(q, e)
  PROVE  /\ e.type \notin Gating => \A a : /\ EndsOpen(q, a) => EndsOpen(r, a)
                                           /\ EndsShut(q, a) => EndsShut(r, a)
         /\ \A k : e.k # k => \A d, x : EndsAs(q, k, d, x) => EndsAs(r, k, d, x)
<1>1. /\ Len(q) \in Nat /\ r[Len(q) + 1] = e /\ DOMAIN q = 1..Len(q)
      /\ DOMAIN r = 1..(Len(q) + 1) /\ \A i \in DOMAIN q : r[i] = q[i]
  BY Appended
<1>2. \A i \in DOMAIN q : i \in DOMAIN r
  BY <1>1
<1>3. \A i \in DOMAIN r : i \in DOMAIN q \/ i = Len(q) + 1
  BY <1>1
<1>4. ASSUME e.type \notin Gating, NEW a, EndsOpen(q, a) PROVE EndsOpen(r, a)
  BY <1>1, <1>2, <1>3, <1>4 DEF EndsOpen
<1>5. ASSUME e.type \notin Gating, NEW a, EndsShut(q, a) PROVE EndsShut(r, a)
  BY <1>1, <1>2, <1>3, <1>5 DEF EndsShut
<1>6. ASSUME NEW k, e.k # k, NEW d, NEW x, EndsAs(q, k, d, x) PROVE EndsAs(r, k, d, x)
  BY <1>1, <1>2, <1>3, <1>6 DEF EndsAs
<1> QED  BY <1>4, <1>5, <1>6

(* So do several silent ones.                                              *)
LEMMA SilentKeeps ==
  ASSUME NEW q \in Seq(Events), NEW s \in Seq(Events), Silent(s), NEW r, r = q \o s
  PROVE  /\ r \in Seq(Events)
         /\ \A a : EndsOpen(q, a) => EndsOpen(r, a)
         /\ \A a : EndsShut(q, a) => EndsShut(r, a)
         /\ \A k \in Keys : \A d, x : EndsAs(q, k, d, x) => EndsAs(r, k, d, x)
         /\ \A k \in Keys : (\A i \in DOMAIN q : q[i].k # k) => \A i \in DOMAIN r : r[i].k # k
<1>1. /\ r \in Seq(Events) /\ Len(q) \in Nat /\ Len(s) \in Nat /\ Len(r) = Len(q) + Len(s)
      /\ DOMAIN q = 1..Len(q) /\ DOMAIN s = 1..Len(s) /\ DOMAIN r = 1..Len(r)
      /\ \A i \in 1..Len(r) : r[i] = IF i <= Len(q) THEN q[i] ELSE s[i - Len(q)]
  BY ConcatProperties, LenProperties
<1>2. \A i \in DOMAIN q : i \in DOMAIN r /\ r[i] = q[i]
  BY <1>1
<1>3. \A i \in DOMAIN r : i \in DOMAIN q \/ (r[i].type \notin Gating /\ r[i].k = "-")
  <2> SUFFICES ASSUME NEW i \in DOMAIN r, i \notin DOMAIN q
               PROVE  r[i].type \notin Gating /\ r[i].k = "-"
    OBVIOUS
  <2>1. i - Len(q) \in DOMAIN s /\ r[i] = s[i - Len(q)]
    BY <1>1
  <2> QED  BY <2>1 DEF Silent
<1>4. "-" \notin Keys
  BY DEF Keys, Numbers
<1>5. ASSUME NEW a, EndsOpen(q, a) PROVE EndsOpen(r, a)
  BY <1>2, <1>3, <1>5 DEF EndsOpen
<1>6. ASSUME NEW a, EndsShut(q, a) PROVE EndsShut(r, a)
  BY <1>2, <1>3, <1>6 DEF EndsShut
<1>7. ASSUME NEW k \in Keys, NEW d, NEW x, EndsAs(q, k, d, x) PROVE EndsAs(r, k, d, x)
  <2>1. \A i \in DOMAIN r : i \in DOMAIN q \/ r[i].k # k
    BY <1>3, <1>4
  <2>2. CASE (\A i \in DOMAIN q : q[i].k # k) /\ d = x
    BY <1>2, <2>1, <2>2 DEF EndsAs
  <2>3. ASSUME NEW i \in DOMAIN q, q[i].k = k, q[i].v = x,
               \A j \in DOMAIN q : j > i => q[j].k # k
        PROVE  EndsAs(r, k, d, x)
    <3>1. i \in DOMAIN r /\ r[i].k = k /\ r[i].v = x
      BY <1>2, <2>3
    <3>2. \A j \in DOMAIN r : j > i => r[j].k # k
      BY <1>2, <2>1, <2>3
    <3> QED  BY <3>1, <3>2 DEF EndsAs
  <2> QED  BY <1>7, <2>2, <2>3 DEF EndsAs
<1>8. ASSUME NEW k \in Keys, \A i \in DOMAIN q : q[i].k # k, NEW i \in DOMAIN r PROVE r[i].k # k
  BY <1>2, <1>3, <1>4, <1>8
<1> QED  BY <1>1, <1>5, <1>6, <1>7, <1>8

(* Delivering the first event does what the queue said it would.           *)
LEMMA TailKeeps ==
  ASSUME NEW q \in Seq(Events), q # <<>>, NEW r, r = Tail(q), NEW e, e = Head(q)
  PROVE  /\ e \in Events /\ r \in Seq(Events)
         /\ \A a : EndsOpen(q, a) =>
              EndsOpen(r, IF e.type \in Opening THEN TRUE
                          ELSE IF e.type \in Gating THEN FALSE ELSE a)
         /\ \A a : EndsShut(q, a) =>
              EndsShut(r, IF e.type \in Opening THEN TRUE
                          ELSE IF e.type \in Gating THEN FALSE ELSE a)
         /\ \A k, d, f, x : f = (IF e.k = k THEN e.v ELSE d) /\ EndsAs(q, k, d, x)
                             => EndsAs(r, k, f, x)
         /\ \A k : (\A i \in DOMAIN q : q[i].k # k) => e.k # k /\ \A i \in DOMAIN r : r[i].k # k
<1>1. Len(q) \in Nat /\ Len(q) # 0 /\ e = q[1] /\ e \in Events
  BY EmptySeq, HeadTailProperties
<1>2. /\ r \in Seq(Events) /\ Len(r) = Len(q) - 1
      /\ \A i \in 1..Len(r) : r[i] = q[i + 1]
  BY HeadTailProperties
<1>3. DOMAIN q = 1..Len(q) /\ DOMAIN r = 1..(Len(q) - 1)
  BY <1>1, <1>2, LenProperties
<1>4. \A i \in DOMAIN r : i + 1 \in DOMAIN q /\ i + 1 > 1 /\ r[i] = q[i + 1]
  BY <1>1, <1>2, <1>3
<1>5. \A i \in DOMAIN q : i # 1 => i - 1 \in DOMAIN r /\ r[i - 1] = q[i]
  BY <1>1, <1>2, <1>3
<1>6. 1 \in DOMAIN q /\ DOMAIN q \subseteq Int /\ DOMAIN r \subseteq Int
  BY <1>1, <1>3
<1>7. ASSUME NEW a, NEW b, EndsOpen(q, a),
             b = (IF e.type \in Opening THEN TRUE ELSE IF e.type \in Gating THEN FALSE ELSE a)
      PROVE  EndsOpen(r, b)
  <2>1. CASE (\A i \in DOMAIN q : q[i].type \notin Gating) /\ a
    <3>1. b = a
      BY <1>1, <1>6, <1>7, <2>1 DEF Gating
    <3> QED  BY <1>4, <2>1, <3>1 DEF EndsOpen
  <2>2. ASSUME NEW i \in DOMAIN q, q[i].type \in Opening,
               \A j \in DOMAIN q : j > i => q[j].type \notin Gating
        PROVE  EndsOpen(r, b)
    <3>1. CASE i = 1
      <4>1. \A j \in DOMAIN r : r[j].type \notin Gating
        BY <1>4, <1>6, <2>2, <3>1
      <4>2. b
        BY <1>1, <1>7, <2>2, <3>1
      <4> QED  BY <4>1, <4>2 DEF EndsOpen
    <3>2. CASE i # 1
      <4>1. i - 1 \in DOMAIN r /\ r[i - 1].type \in Opening
        BY <1>5, <2>2, <3>2
      <4>2. \A j \in DOMAIN r : j > i - 1 => r[j].type \notin Gating
        BY <1>4, <1>6, <2>2
      <4> QED  BY <4>1, <4>2 DEF EndsOpen
    <3> QED  BY <3>1, <3>2
  <2> QED  BY <1>7, <2>1, <2>2 DEF EndsOpen
<1>8. ASSUME NEW a, NEW b, EndsShut(q, a),
             b = (IF e.type \in Opening THEN TRUE ELSE IF e.type \in Gating THEN FALSE ELSE a)
      PROVE  EndsShut(r, b)
  <2>1. CASE (\A i \in DOMAIN q : q[i].type \notin Gating) /\ ~a
    <3>1. b = a
      BY <1>1, <1>6, <1>8, <2>1 DEF Gating
    <3> QED  BY <1>4, <2>1, <3>1 DEF EndsShut
  <2>2. ASSUME NEW i \in DOMAIN q, q[i].type = "CalibrationStarted",
               \A j \in DOMAIN q : j > i => q[j].type \notin Gating
        PROVE  EndsShut(r, b)
    <3>1. CASE i = 1
      <4>1. \A j \in DOMAIN r : r[j].type \notin Gating
        BY <1>4, <1>6, <2>2, <3>1
      <4>2. ~b
        BY <1>1, <1>8, <2>2, <3>1 DEF Gating, Opening
      <4> QED  BY <4>1, <4>2 DEF EndsShut
    <3>2. CASE i # 1
      <4>1. i - 1 \in DOMAIN r /\ r[i - 1].type = "CalibrationStarted"
        BY <1>5, <2>2, <3>2
      <4>2. \A j \in DOMAIN r : j > i - 1 => r[j].type \notin Gating
        BY <1>4, <1>6, <2>2
      <4> QED  BY <4>1, <4>2 DEF EndsShut
    <3> QED  BY <3>1, <3>2
  <2> QED  BY <1>8, <2>1, <2>2 DEF EndsShut
<1>9. ASSUME NEW k, NEW d, NEW f, NEW x, EndsAs(q, k, d, x),
             f = (IF e.k = k THEN e.v ELSE d)
      PROVE  EndsAs(r, k, f, x)
  <2>1. CASE (\A i \in DOMAIN q : q[i].k # k) /\ d = x
    BY <1>1, <1>4, <1>6, <1>9, <2>1 DEF EndsAs
  <2>2. ASSUME NEW i \in DOMAIN q, q[i].k = k, q[i].v = x,
               \A j \in DOMAIN q : j > i => q[j].k # k
        PROVE  EndsAs(r, k, f, x)
    <3>1. CASE i = 1
      <4>1. \A j \in DOMAIN r : r[j].k # k
        BY <1>4, <1>6, <2>2, <3>1
      <4> QED  BY <1>1, <1>9, <2>2, <3>1, <4>1 DEF EndsAs
    <3>2. CASE i # 1
      <4>1. i - 1 \in DOMAIN r /\ r[i - 1].k = k /\ r[i - 1].v = x
        BY <1>5, <2>2, <3>2
      <4>2. \A j \in DOMAIN r : j > i - 1 => r[j].k # k
        BY <1>4, <1>6, <2>2
      <4> QED  BY <4>1, <4>2 DEF EndsAs
    <3> QED  BY <3>1, <3>2
  <2> QED  BY <1>9, <2>1, <2>2 DEF EndsAs
<1>10. ASSUME NEW k, \A i \in DOMAIN q : q[i].k # k
      PROVE  e.k # k /\ \A i \in DOMAIN r : r[i].k # k
  BY <1>1, <1>4, <1>6, <1>10
<1> QED  BY <1>1, <1>2, <1>7, <1>8, <1>9, <1>10

----------------------------------------------------------------------------
(* Type correctness.                                                       *)

WebSteps == {"idle", "delay", "preparing", "measuring", "saving", "renaming", "recording",
             "restoring", "completing", "failing"}
WebStates == [pc : WebSteps, v : Delays \union Corrections \union {Flat}]
Profiles == Corrections \union {NoFile, Torn}

(* The threads, the bus and the sound settings.                            *)
SoundOK ==
    /\ web \in [Web -> WebStates]
    /\ \A w \in Web : /\ web[w].pc = "delay" => web[w].v \in Delays
                      /\ web[w].pc = "saving" => web[w].v \in Corrections
    /\ ctl \in [pc : {"idle", "emit"}, k : Numbers, v : Delays]
    /\ queue \in Seq(Events)
    /\ cfg \in [delay : Delays, gain : Delays, eq : {"default", "room"}]
    /\ dsp \in [delay : Delays, gain : Delays, eq : Corrections \union {Flat}]
    /\ profile \in Profiles /\ tmp \in Profiles

(* A step that touches none of this, except for silent events.             *)
SoundRests ==
    /\ UNCHANGED <<web, ctl, cfg, dsp, profile, tmp, allowed, apart, overlapped>>
    /\ \E s \in Seq(Events) : Silent(s) /\ queue' = queue \o s

LEMMA EventFacts ==
  ASSUME NEW t \in Gating \union SilentTypes
  PROVE  Event(t) \in Events /\ Event(t).type = t /\ Event(t).k = "-"
BY DeviceAssumption DEF Event, Events

LEMMA SilentOne ==
  ASSUME NEW t \in SilentTypes, NEW s, s = <<Event(t)>>
  PROVE  s \in Seq(Events) /\ Silent(s)
<1>1. t \notin Gating
  BY DEF SilentTypes, Gating, Opening
<1>2. PICK e \in Events : e = Event(t) /\ e.type = t /\ e.k = "-"
  BY <1>1, EventFacts
<1>3. s \in Seq(Events) /\ DOMAIN s = {1} /\ s[1] = e
  BY <1>2
<1> QED  BY <1>1, <1>2, <1>3 DEF Silent

LEMMA SilentNone == <<>> \in Seq(Events) /\ Silent(<<>>)
BY EmptySeq DEF Silent

LEMMA SilentTwo ==
  ASSUME NEW s \in Seq(Events), NEW t \in Seq(Events), Silent(s), Silent(t), NEW r, r = s \o t
  PROVE  r \in Seq(Events) /\ Silent(r)
<1>1. /\ r \in Seq(Events) /\ Len(s) \in Nat /\ Len(t) \in Nat /\ Len(r) = Len(s) + Len(t)
      /\ DOMAIN s = 1..Len(s) /\ DOMAIN t = 1..Len(t) /\ DOMAIN r = 1..Len(r)
      /\ \A i \in 1..Len(r) : r[i] = IF i <= Len(s) THEN s[i] ELSE t[i - Len(s)]
  BY ConcatProperties, LenProperties
<1>2. \A i \in DOMAIN r : (\E j \in DOMAIN s : r[i] = s[j]) \/ (\E j \in DOMAIN t : r[i] = t[j])
  <2> SUFFICES ASSUME NEW i \in DOMAIN r
               PROVE  (\E j \in DOMAIN s : r[i] = s[j]) \/ (\E j \in DOMAIN t : r[i] = t[j])
    OBVIOUS
  <2>1. CASE i <= Len(s)
    BY <1>1, <2>1
  <2>2. CASE ~(i <= Len(s))
    <3>1. i - Len(s) \in DOMAIN t /\ r[i] = t[i - Len(s)]
      BY <1>1, <2>2
    <3> QED  BY <3>1
  <2> QED  BY <2>1, <2>2
<1> QED  BY <1>1, <1>2 DEF Silent

(* What is published silently, or not at all, leaves the bus as it was.    *)
LEMMA PublishSilent ==
  ASSUME queue \in Seq(Events), NEW t \in SilentTypes, Publish(Event(t))
  PROVE  \E s \in Seq(Events) : Silent(s) /\ queue' = queue \o s
<1>1. PICK s : s = <<Event(t)>>
  OBVIOUS
<1>2. s \in Seq(Events) /\ Silent(s)
  BY <1>1, SilentOne
<1>3. queue' = queue \o s
  <2>1. Event(t) \in Events
    BY EventFacts
  <2> QED  BY <1>1, <2>1, AppendIsConcat DEF Publish
<1> QED  BY <1>2, <1>3

LEMMA PublishNothing ==
  ASSUME queue \in Seq(Events), queue' = queue
  PROVE  \E s \in Seq(Events) : Silent(s) /\ queue' = queue \o s
<1>1. queue' = queue \o <<>>
  BY ConcatEmptySeq
<1> QED  BY <1>1, SilentNone

LEMMA UpdateSilent == ASSUME SoundOK, Update PROVE SoundRests
<1>1. queue \in Seq(Events)
  BY DEF SoundOK
<1> USE DEF SoundRests, sound, history
<1>2. CASE runUpdate
  <2>1. UNCHANGED <<web, ctl, cfg, dsp, profile, tmp, allowed, apart, overlapped>>
    BY <1>2 DEF runUpdate
  <2>2. Publish(Event("UpdateStarted"))
    BY <1>2 DEF runUpdate
  <2> QED  BY <1>1, <2>1, <2>2, PublishSilent DEF SilentTypes
<1>3. CASE updateFails
  <2>1. UNCHANGED <<web, ctl, cfg, dsp, profile, tmp, allowed, apart, overlapped>>
    BY <1>3 DEF updateFails
  <2>2. Publish(Event("UpdateFailed"))
    BY <1>3 DEF updateFails
  <2> QED  BY <1>1, <2>1, <2>2, PublishSilent DEF SilentTypes
<1>4. CASE beginBackup
  BY <1>1, <1>4, PublishNothing DEF beginBackup
<1>5. CASE endBackup
  BY <1>1, <1>5, PublishNothing DEF endBackup
<1>6. CASE writeback \/ \E b \in {"good", "broken"} : install(b)
  BY <1>1, <1>6, PublishNothing DEF install, writeback
<1>7. CASE confirm
  <2>1. UNCHANGED <<web, ctl, cfg, dsp, profile, tmp, allowed, apart, overlapped>>
    BY <1>7 DEF confirm
  <2>2. Publish(Event("UpdateCompleted"))
    BY <1>7 DEF confirm
  <2> QED  BY <1>1, <2>1, <2>2, PublishSilent DEF SilentTypes
<1>8. CASE beginRestore
  <2>1. UNCHANGED <<web, ctl, cfg, dsp, profile, tmp, allowed, apart, overlapped>>
    BY <1>8 DEF beginRestore
  <2>2. Publish(Event("RollbackTriggered"))
    BY <1>8 DEF beginRestore
  <2> QED  BY <1>1, <2>1, <2>2, PublishSilent DEF SilentTypes
<1>9. CASE \E ok \in BOOLEAN : endRestore(ok)
  <2>1. UNCHANGED <<web, ctl, cfg, dsp, profile, tmp, allowed, apart, overlapped>>
    BY <1>9 DEF endRestore
  <2>2. Publish(Event("UpdateFailed"))
    BY <1>9 DEF endRestore
  <2> QED  BY <1>1, <2>1, <2>2, PublishSilent DEF SilentTypes
<1> QED  BY <1>2, <1>3, <1>4, <1>5, <1>6, <1>7, <1>8, <1>9 DEF Update

(* poll: at most one event of the flags and one of the temperature.        *)
LEMMA PollSilent ==
  ASSUME SoundOK, NEW f \in BOOLEAN, NEW p \in BOOLEAN, NEW t \in Temperatures,
         NEW ok \in BOOLEAN, poll(f, p, t, ok)
  PROVE  SoundRests
<1>1. UNCHANGED <<web, ctl, cfg, dsp, profile, tmp, allowed, apart, overlapped>>
  BY DEF poll, sound
<1> DEFINE s == readFlags(ampState, f, p)
<1>2. PICK a : a = IF s = ampState THEN <<>>
                   ELSE <<Event(IF s = "Fault" THEN "AmplifierFault" ELSE "AmplifierProtection")>>
  OBVIOUS
<1>3. PICK b : b = IF t = "hot" /\ s # "Overheated" THEN <<Event("AmplifierOverheat")>>
                   ELSE IF t = "warm" /\ ~warned THEN <<Event("TempWarning")>> ELSE <<>>
  OBVIOUS
<1>4. queue' = queue \o (a \o b)
  BY <1>2, <1>3 DEF poll
<1> HIDE DEF s
<1>5. a \in Seq(Events) /\ Silent(a)
  BY <1>2, SilentOne, SilentNone DEF SilentTypes
<1>6. b \in Seq(Events) /\ Silent(b)
  BY <1>3, SilentOne, SilentNone DEF SilentTypes
<1>7. a \o b \in Seq(Events) /\ Silent(a \o b)
  BY <1>5, <1>6, SilentTwo
<1> QED  BY <1>1, <1>4, <1>7 DEF SoundRests

LEMMA OthersSilent ==
  ASSUME SoundOK,
         \/ sendHeartbeat
         \/ \E on, ok \in BOOLEAN : audioGate(on, ok)
         \/ \E w \in Web, heard \in BOOLEAN : runDiagnostics(w, heard)
         \/ UNCHANGED vars
  PROVE  SoundRests
<1>1. queue \in Seq(Events)
  BY DEF SoundOK
<1>2. CASE sendHeartbeat
  <2>1. UNCHANGED <<web, ctl, cfg, dsp, profile, tmp, allowed, apart, overlapped>>
    BY <1>2 DEF sendHeartbeat, sound, history
  <2>2. Publish(Event("CommandExecuted"))
    BY <1>2 DEF sendHeartbeat
  <2> QED  BY <1>1, <2>1, <2>2, PublishSilent DEF SilentTypes, SoundRests
<1>3. CASE \E on, ok \in BOOLEAN : audioGate(on, ok)
  BY <1>1, <1>3, PublishNothing DEF audioGate, sound, history, SoundRests
<1>4. CASE \E w \in Web, heard \in BOOLEAN : runDiagnostics(w, heard)
  <2>1. UNCHANGED <<web, ctl, cfg, dsp, profile, tmp, allowed, apart, overlapped>>
    BY <1>4 DEF runDiagnostics, sound, history
  <2>2. queue' = queue \/ Publish(Event("MicFailure"))
    BY <1>4 DEF runDiagnostics, selfTest
  <2> QED  BY <1>1, <2>1, <2>2, PublishSilent, PublishNothing DEF SilentTypes, SoundRests
<1>5. CASE UNCHANGED vars
  BY <1>1, <1>5, PublishNothing DEF vars, sound, history, SoundRests
<1> QED  BY <1>2, <1>3, <1>4, <1>5

(* What a step of one web thread leaves of the others.                     *)
LEMMA WebSet ==
  ASSUME SoundOK, NEW w \in Web, NEW x \in WebStates, web' = [web EXCEPT ![w] = x]
  PROVE  /\ web' \in [Web -> WebStates] /\ web'[w] = x
         /\ \A y \in Web \ {w} : web'[y] = web[y]
BY DEF SoundOK

LEMMA WebGoes ==
  ASSUME SoundOK, NEW w \in Web, NEW p \in WebSteps, web' = [web EXCEPT ![w].pc = p]
  PROVE  /\ web' \in [Web -> WebStates] /\ web'[w].pc = p /\ web'[w].v = web[w].v
         /\ \A y \in Web \ {w} : web'[y] = web[y]
BY DEF SoundOK, WebStates

LEMMA WebValues ==
  /\ Idle \in WebStates /\ Idle.pc = "idle"
  /\ \A p \in WebSteps, x \in Delays \union Corrections \union {Flat} :
       /\ [pc |-> p, v |-> x] \in WebStates
       /\ [pc |-> p, v |-> x].pc = p /\ [pc |-> p, v |-> x].v = x
BY DEF Idle, WebStates, WebSteps

LEMMA RestorePlaybackFacts ==
  ASSUME SoundOK, NEW w \in Web, NEW ok \in BOOLEAN, restorePlayback(w, ok)
  PROVE  /\ web' \in [Web -> WebStates] /\ \A y \in Web \ {w} : web'[y] = web[y]
         /\ \/ web[w].pc = "failing" /\ web'[w] = Idle
            \/ web[w].pc = "restoring" /\ web'[w].pc = "completing"
<1>1. CASE web[w].pc = "failing"
  <2>1. web' = [web EXCEPT ![w] = Idle]
    BY <1>1 DEF restorePlayback
  <2> QED  BY <1>1, <2>1, WebSet, WebValues
<1>2. CASE web[w].pc # "failing"
  <2>1. web' = [web EXCEPT ![w] = [web[w] EXCEPT !.pc = "completing"]]
    BY <1>2 DEF restorePlayback
  <2>2. web[w].pc = "restoring" /\ web[w] \in WebStates
    BY <1>2 DEF restorePlayback, SoundOK
  <2>3. [web[w] EXCEPT !.pc = "completing"] \in WebStates
        /\ [web[w] EXCEPT !.pc = "completing"].pc = "completing"
    BY <2>2 DEF WebStates, WebSteps
  <2> QED  BY <2>1, <2>2, <2>3, WebSet
<1> QED  BY <1>1, <1>2

(* The other steps in one form: what each does to its thread, and the      *)
(* event it publishes.                                                     *)
LEMMA EventsPublished ==
  ASSUME SoundOK
  PROVE  /\ \A t \in Gating \union SilentTypes : Publish(Event(t)) => queue' \in Seq(Events)
         /\ emitExecuted => /\ [type |-> "CommandExecuted", k |-> ctl.k, v |-> ctl.v] \in Events
                            /\ queue' \in Seq(Events)
<1>1. ASSUME NEW t \in Gating \union SilentTypes, Publish(Event(t)) PROVE queue' \in Seq(Events)
  BY <1>1, EventFacts, AppendProperties DEF Publish, SoundOK
<1>2. [type |-> "CommandExecuted", k |-> ctl.k, v |-> ctl.v] \in Events
  BY DEF SoundOK, Events, SilentTypes, Keys
<1>3. emitExecuted => queue' \in Seq(Events)
  BY <1>2, AppendProperties DEF emitExecuted, Publish, SoundOK
<1> QED  BY <1>1, <1>2, <1>3

LEMMA DispatchFacts ==
  ASSUME SoundOK, Dispatch, NEW e, e = Head(queue)
  PROVE  /\ queue # <<>> /\ e \in Events
         /\ allowed' = (IF e.type \in Opening THEN TRUE
                        ELSE IF e.type \in Gating THEN FALSE ELSE allowed)
         /\ dsp' = (IF e.k \in Numbers THEN [dsp EXCEPT ![e.k] = e.v] ELSE dsp)
         /\ \E s \in Seq(Events) : Silent(s) /\ queue' = Tail(queue) \o s
         /\ UNCHANGED <<web, ctl, cfg, profile, tmp, apart, overlapped>>
<1>1. queue # <<>> /\ UNCHANGED <<web, ctl, cfg, profile, tmp, apart, overlapped>>
  BY DEF Dispatch, history
<1>2. e \in Events
  BY <1>1, HeadTailProperties DEF SoundOK
<1>3. allowed' = gateUpdates(e) /\ dsp' = pushToDsp(e) /\ queue' = Tail(queue) \o raiseAlert(e)
  BY DEF Dispatch
<1>4. gateUpdates(e) = (IF e.type \in Opening THEN TRUE
                        ELSE IF e.type \in Gating THEN FALSE ELSE allowed)
  <2>1. CASE e.type = "CalibrationStarted"
    BY <2>1 DEF gateUpdates, Opening, Gating
  <2>2. CASE e.type \in Opening
    BY <2>2 DEF gateUpdates, Opening, Gating
  <2>3. CASE e.type \notin Gating
    BY <2>3 DEF gateUpdates, Opening, Gating
  <2> QED  BY <2>1, <2>2, <2>3 DEF Gating
<1>5. raiseAlert(e) \in Seq(Events) /\ Silent(raiseAlert(e))
  <2>1. CASE e.type \in Alerts
    <3>1. raiseAlert(e) = <<Event("CommandExecuted")>>
      BY <2>1 DEF raiseAlert
    <3> QED  BY <3>1, SilentOne DEF SilentTypes
  <2>2. CASE e.type \notin Alerts
    BY <2>2, SilentNone DEF raiseAlert
  <2> QED  BY <2>1, <2>2
<1> QED  BY <1>1, <1>2, <1>3, <1>4, <1>5 DEF pushToDsp

LEMMA SoundInit == Init => SoundOK
<1> SUFFICES ASSUME Init PROVE SoundOK  OBVIOUS
<1> USE DeviceAssumption DEF Init
<1>1. web \in [Web -> WebStates] /\ \A w \in Web : web[w].pc = "idle"
  BY WebValues
<1>2. ctl \in [pc : {"idle", "emit"}, k : Numbers, v : Delays]
  BY DEF Quiet, Numbers
<1>3. queue \in Seq(Events)
  BY EmptySeq
<1>4. cfg \in [delay : Delays, gain : Delays, eq : {"default", "room"}]
  BY DEF Defaults
<1>5. dsp \in [delay : Delays, gain : Delays, eq : Corrections \union {Flat}]
  BY <1>4 DEF Restored, applySavedProfile
<1> QED  BY <1>1, <1>2, <1>3, <1>4, <1>5 DEF SoundOK, Profiles

LEMMA SoundKept ==
  ASSUME SoundOK, web' \in [Web -> WebStates], queue' \in Seq(Events),
         \A w \in Web : web'[w].pc \in {"delay", "saving"} => web'[w] = web[w],
         UNCHANGED <<ctl, cfg, dsp, profile, tmp>>
  PROVE  SoundOK'
BY DEF SoundOK

LEMMA WebSound == ASSUME SoundOK, NEW w \in Web, WebStep(w) PROVE SoundOK'
<1> USE DEF WebSteps
<1>1. ASSUME NEW v \in Delays, setDelay(w, v) PROVE SoundOK'
  <2>1. PICK x : x = [pc |-> "delay", v |-> v]
    OBVIOUS
  <2>2. x \in WebStates /\ x.pc = "delay" /\ x.v = v
    BY <2>1 DEF WebStates
  <2>3. /\ web' = [web EXCEPT ![w] = x] /\ cfg' = [cfg EXCEPT !.delay = v]
        /\ UNCHANGED <<ctl, queue, dsp, profile, tmp>>
    BY <1>1, <2>1 DEF setDelay
  <2>4. web' \in [Web -> WebStates] /\ web'[w] = x /\ \A y \in Web \ {w} : web'[y] = web[y]
    BY <2>2, <2>3, WebSet
  <2>5. cfg' \in [delay : Delays, gain : Delays, eq : {"default", "room"}]
    BY <2>3 DEF SoundOK
  <2> QED  BY <2>2, <2>3, <2>4, <2>5 DEF SoundOK
<1>2. CASE setDelayApplies(w)
  <2>1. /\ web' = [web EXCEPT ![w] = Idle] /\ dsp' = [dsp EXCEPT !.delay = web[w].v]
        /\ web[w].pc = "delay" /\ UNCHANGED <<ctl, queue, cfg, profile, tmp>>
    BY <1>2 DEF setDelayApplies
  <2>2. web' \in [Web -> WebStates] /\ web'[w] = Idle /\ \A y \in Web \ {w} : web'[y] = web[y]
    BY <2>1, WebSet, WebValues
  <2>3. dsp' \in [delay : Delays, gain : Delays, eq : Corrections \union {Flat}]
    BY <2>1 DEF SoundOK
  <2> QED  BY <2>1, <2>2, <2>3, WebValues DEF SoundOK
<1>3. ASSUME NEW name \in {"default", "room"}, setEq(w, name) PROVE SoundOK'
  BY <1>3 DEF setEq, SoundOK
<1>4. CASE factoryReset(w)
  BY <1>4, DeviceAssumption DEF factoryReset, SoundOK, Defaults
<1>5. CASE runCalibration(w)
  <2>1. PICK x : x = [pc |-> "preparing", v |-> Flat]
    OBVIOUS
  <2>2. x \in WebStates /\ x.pc = "preparing"
    BY <2>1 DEF WebStates
  <2>3. /\ web' = [web EXCEPT ![w] = x] /\ Publish(Event("CalibrationStarted"))
        /\ UNCHANGED <<ctl, cfg, dsp, profile, tmp>>
    BY <1>5, <2>1 DEF runCalibration, sound
  <2>4. web' \in [Web -> WebStates] /\ web'[w] = x /\ \A y \in Web \ {w} : web'[y] = web[y]
    BY <2>2, <2>3, WebSet
  <2>5. queue' \in Seq(Events)
    BY <2>3, EventsPublished DEF Gating
  <2> QED  BY <2>2, <2>3, <2>4, <2>5, SoundKept
<1>6. ASSUME NEW ok \in BOOLEAN, prepare(w, ok) PROVE SoundOK'
  <2>1. web' = [web EXCEPT ![w].pc = "measuring"] /\ UNCHANGED <<ctl, queue, cfg, dsp, profile, tmp>>
    BY <1>6 DEF prepare, sound
  <2>2. queue' \in Seq(Events)
    BY <2>1 DEF SoundOK
  <2> QED  BY <2>1, <2>2, WebGoes, SoundKept
<1>7. CASE calibrationFails(w)
  <2>1. /\ web' = [web EXCEPT ![w].pc = "failing"] /\ Publish(Event("CalibrationFailed"))
        /\ tmp' \in {tmp, NoFile} /\ UNCHANGED <<ctl, cfg, dsp, profile>>
    BY <1>7 DEF calibrationFails
  <2>2. queue' \in Seq(Events)
    BY <2>1, EventsPublished DEF Gating, Opening
  <2>3. /\ web' \in [Web -> WebStates] /\ web'[w].pc = "failing"
        /\ \A y \in Web \ {w} : web'[y] = web[y]
    BY <2>1, WebGoes
  <2> QED  BY <2>1, <2>2, <2>3 DEF SoundOK, Profiles
<1>8. ASSUME NEW c \in Corrections, measureRoom(w, c) PROVE SoundOK'
  <2>1. PICK x : x = [pc |-> "saving", v |-> c]
    OBVIOUS
  <2>2. x \in WebStates /\ x.pc = "saving" /\ x.v = c
    BY <2>1 DEF WebStates
  <2>3. /\ web' = [web EXCEPT ![w] = x] /\ dsp' = [dsp EXCEPT !.eq = c]
        /\ UNCHANGED <<ctl, queue, cfg, profile, tmp>>
    BY <1>8, <2>1 DEF measureRoom
  <2>4. web' \in [Web -> WebStates] /\ web'[w] = x /\ \A y \in Web \ {w} : web'[y] = web[y]
    BY <2>2, <2>3, WebSet
  <2>5. dsp' \in [delay : Delays, gain : Delays, eq : Corrections \union {Flat}]
    BY <2>3 DEF SoundOK
  <2> QED  BY <2>2, <2>3, <2>4, <2>5 DEF SoundOK
<1>9. CASE saveProfile(w)
  <2>1. /\ web[w].pc = "saving" /\ tmp' \in {web[w].v, Torn}
        /\ web' = [web EXCEPT ![w].pc = "renaming"] /\ UNCHANGED <<ctl, queue, cfg, dsp, profile>>
    BY <1>9 DEF saveProfile
  <2>2. /\ web' \in [Web -> WebStates] /\ web'[w].pc = "renaming"
        /\ \A y \in Web \ {w} : web'[y] = web[y]
    BY <2>1, WebGoes
  <2> QED  BY <2>1, <2>2 DEF SoundOK, Profiles
<1>10. CASE renameProfile(w)
  <2>1. /\ web' = [web EXCEPT ![w].pc = "recording"] /\ tmp' = NoFile /\ profile' = tmp
        /\ UNCHANGED <<ctl, queue, cfg, dsp>>
    BY <1>10 DEF renameProfile
  <2>2. /\ web' \in [Web -> WebStates] /\ web'[w].pc = "recording"
        /\ \A y \in Web \ {w} : web'[y] = web[y]
    BY <2>1, WebGoes
  <2> QED  BY <2>1, <2>2 DEF SoundOK, Profiles
<1>11. CASE renameFails(w)
  <2>1. /\ web' = [web EXCEPT ![w].pc = "failing"] /\ Publish(Event("CalibrationFailed"))
        /\ UNCHANGED <<ctl, cfg, dsp, profile, tmp>>
    BY <1>11 DEF renameFails, sound
  <2>2. queue' \in Seq(Events)
    BY <2>1, EventsPublished DEF Gating, Opening
  <2> QED  BY <2>1, <2>2, WebGoes, SoundKept
<1>12. ASSUME NEW ok \in BOOLEAN, recordProfile(w, ok) PROVE SoundOK'
  <2>1. /\ web' = [web EXCEPT ![w].pc = "restoring"]
        /\ cfg' = cfg \/ cfg' = [cfg EXCEPT !.eq = "room"]
        /\ UNCHANGED <<ctl, queue, dsp, profile, tmp>>
    BY <1>12 DEF recordProfile
  <2>2. /\ web' \in [Web -> WebStates] /\ web'[w].pc = "restoring"
        /\ \A y \in Web \ {w} : web'[y] = web[y]
    BY <2>1, WebGoes
  <2>3. cfg' \in [delay : Delays, gain : Delays, eq : {"default", "room"}]
    BY <2>1 DEF SoundOK
  <2> QED  BY <2>1, <2>2, <2>3 DEF SoundOK
<1>13. ASSUME NEW ok \in BOOLEAN, restorePlayback(w, ok) PROVE SoundOK'
  <2>1. UNCHANGED <<ctl, queue, cfg, dsp, profile, tmp>>
    BY <1>13 DEF restorePlayback, sound
  <2>2. queue' \in Seq(Events)
    BY <2>1 DEF SoundOK
  <2> QED  BY <1>13, <2>1, <2>2, RestorePlaybackFacts, WebValues, SoundKept
<1>14. CASE calibrationCompletes(w)
  <2>1. /\ web' = [web EXCEPT ![w] = Idle] /\ Publish(Event("CalibrationCompleted"))
        /\ UNCHANGED <<ctl, cfg, dsp, profile, tmp>>
    BY <1>14 DEF calibrationCompletes, sound
  <2>2. queue' \in Seq(Events)
    BY <2>1, EventsPublished DEF Gating, Opening
  <2>3. /\ web' \in [Web -> WebStates] /\ web'[w].pc = "idle"
        /\ \A y \in Web \ {w} : web'[y] = web[y]
    BY <2>1, WebSet, WebValues
  <2> QED  BY <2>1, <2>2, <2>3, SoundKept
<1>15. ASSUME NEW heard \in BOOLEAN, runDiagnostics(w, heard) PROVE SoundOK'
  <2>1. SoundRests
    BY <1>15, OthersSilent
  <2> QED  BY <2>1, SilentKeeps DEF SoundRests, SoundOK
<1> QED
  BY <1>1, <1>2, <1>3, <1>4, <1>5, <1>6, <1>7, <1>8, <1>9, <1>10, <1>11, <1>12, <1>13, <1>14,
     <1>15 DEF WebStep

LEMMA SoundStep == SoundOK /\ [Next]_vars => SoundOK'
<1> SUFFICES ASSUME SoundOK, [Next]_vars PROVE SoundOK'  OBVIOUS
<1>1. ASSUME SoundRests PROVE SoundOK'
  BY <1>1, SilentKeeps DEF SoundRests, SoundOK
<1>2. CASE \E w \in Web : WebStep(w)
  BY <1>2, WebSound
<1>3. ASSUME NEW k \in Numbers, NEW v \in Delays, executeSet(k, v) PROVE SoundOK'
  <2>1. /\ cfg' = [cfg EXCEPT ![k] = v] /\ ctl' = [pc |-> "emit", k |-> k, v |-> v]
        /\ UNCHANGED <<web, queue, dsp, profile, tmp>>
    BY <1>3 DEF executeSet
  <2>2. cfg' \in [delay : Delays, gain : Delays, eq : {"default", "room"}]
    BY <2>1 DEF SoundOK, Numbers
  <2> QED  BY <2>1, <2>2 DEF SoundOK
<1>4. CASE emitExecuted
  <2>1. ctl' = Quiet /\ UNCHANGED <<web, cfg, dsp, profile, tmp>> /\ queue' \in Seq(Events)
    BY <1>4, EventsPublished DEF emitExecuted, sound
  <2> QED  BY <2>1, DeviceAssumption DEF SoundOK, Quiet, Numbers
<1>5. CASE Dispatch
  <2>1. PICK e : e = Head(queue)
    OBVIOUS
  <2>2. /\ queue # <<>> /\ e \in Events
        /\ dsp' = (IF e.k \in Numbers THEN [dsp EXCEPT ![e.k] = e.v] ELSE dsp)
        /\ \E s \in Seq(Events) : Silent(s) /\ queue' = Tail(queue) \o s
        /\ UNCHANGED <<web, ctl, cfg, profile, tmp>>
    BY <1>5, <2>1, DispatchFacts
  <2>3. Tail(queue) \in Seq(Events)
    BY <2>2, TailKeeps DEF SoundOK
  <2>4. queue' \in Seq(Events)
    BY <2>2, <2>3, ConcatProperties
  <2>5. dsp' \in [delay : Delays, gain : Delays, eq : Corrections \union {Flat}]
    BY <2>2 DEF SoundOK, Events, Numbers
  <2> QED  BY <2>2, <2>4, <2>5 DEF SoundOK
<1>6. CASE sendHeartbeat \/ (\E on, ok \in BOOLEAN : audioGate(on, ok)) \/ UNCHANGED vars
  BY <1>1, <1>6, OthersSilent
<1>7. CASE \E f, p, ok \in BOOLEAN, t \in Temperatures : poll(f, p, t, ok)
  BY <1>1, <1>7, PollSilent
<1>8. CASE Update
  BY <1>1, <1>8, UpdateSilent
<1>9. CASE powerCut
  <2>1. /\ web' = [w \in Web |-> Idle] /\ ctl' = Quiet /\ queue' = <<>>
        /\ dsp' = Restored(cfg, profile) /\ UNCHANGED <<cfg, profile, tmp>>
    BY <1>9 DEF powerCut
  <2>2. web' \in [Web -> WebStates] /\ \A w \in Web : web'[w].pc = "idle"
    BY <2>1, WebValues
  <2>3. ctl' \in [pc : {"idle", "emit"}, k : Numbers, v : Delays]
    BY <2>1, DeviceAssumption DEF Quiet, Numbers
  <2>4. dsp' \in [delay : Delays, gain : Delays, eq : Corrections \union {Flat}]
    BY <2>1 DEF Restored, applySavedProfile, SoundOK
  <2> QED  BY <2>1, <2>2, <2>3, <2>4, EmptySeq DEF SoundOK
<1> QED  BY <1>2, <1>3, <1>4, <1>5, <1>6, <1>7, <1>8, <1>9 DEF Next

----------------------------------------------------------------------------
(* The updater's gate.                                                     *)

(* Unless calibrations overlap there is one at most; and when everything   *)
(* on the bus is delivered the gate is open if none runs, shut if one does.*)
GateInv ==
    /\ ~overlapped => \A y, z \in Web : Calibrating(y) /\ Calibrating(z) => y = z
    /\ ~AnyCalibration => EndsOpen(queue, allowed)
    /\ AnyCalibration /\ ~overlapped => EndsShut(queue, allowed)

LEMMA GateInit == Init => GateInv
<1> SUFFICES ASSUME Init PROVE GateInv  OBVIOUS
<1>1. \A w \in Web : web[w].pc = "idle"
  BY WebValues DEF Init
<1>2. DOMAIN queue = {} /\ allowed
  BY DEF Init
<1> QED  BY <1>1, <1>2 DEF GateInv, AnyCalibration, Calibrating, EndsOpen

(* A step that neither begins nor ends a calibration.                      *)
LEMMA GateKept ==
  ASSUME GateInv, overlapped' = overlapped,
         \A y \in Web : Calibrating(y)' <=> Calibrating(y),
         EndsOpen(queue, allowed) => EndsOpen(queue', allowed'),
         EndsShut(queue, allowed) => EndsShut(queue', allowed')
  PROVE  GateInv'
BY DEF GateInv, AnyCalibration

LEMMA GateRests ==
  ASSUME GateInv, overlapped' = overlapped, allowed' = allowed, queue' = queue,
         \A y \in Web : Calibrating(y)' <=> Calibrating(y)
  PROVE  GateInv'
BY GateKept

(* The end of a calibration: the event is published in the same step in    *)
(* which it stops to count as running.                                     *)
LEMMA GateOpens ==
  ASSUME GateInv, SoundOK, NEW w \in Web, Calibrating(w), ~Calibrating(w)',
         \A y \in Web \ {w} : web'[y] = web[y], overlapped' = overlapped, allowed' = allowed,
         NEW t \in Opening, Publish(Event(t))
  PROVE  GateInv'
<1>1. EndsOpen(queue', allowed')
  <2>1. PICK e : e = Event(t)
    OBVIOUS
  <2>2. e \in Events /\ e.type \in Opening
    BY <2>1, EventFacts DEF Gating
  <2>3. queue' = Append(queue, e) /\ queue \in Seq(Events)
    BY <2>1 DEF Publish, SoundOK
  <2> QED  BY <2>2, <2>3, AppendGating
<1>2. \A y \in Web : Calibrating(y)' => Calibrating(y) /\ y # w
  BY DEF Calibrating
<1>3. ~overlapped => \A y \in Web : ~Calibrating(y)'
  BY <1>2 DEF GateInv
<1>4. ~overlapped' => ~AnyCalibration'
  BY <1>3 DEF AnyCalibration
<1> QED  BY <1>1, <1>2, <1>3, <1>4 DEF GateInv

LEMMA WebGate == ASSUME SoundOK, GateInv, NEW w \in Web, WebStep(w) PROVE GateInv'
<1> USE DEF WebSteps
<1>1. ASSUME NEW v \in Delays, setDelay(w, v) PROVE GateInv'
  <2>1. /\ web' = [web EXCEPT ![w] = [pc |-> "delay", v |-> v]] /\ web[w].pc = "idle"
        /\ UNCHANGED <<queue, allowed, overlapped>>
    BY <1>1 DEF setDelay
  <2>2. \A y \in Web : Calibrating(y)' <=> Calibrating(y)
    BY <2>1 DEF SoundOK, Calibrating
  <2> QED  BY <2>1, <2>2, GateRests
<1>2. CASE setDelayApplies(w)
  <2>1. /\ web' = [web EXCEPT ![w] = Idle] /\ web[w].pc = "delay"
        /\ UNCHANGED <<queue, allowed, overlapped>>
    BY <1>2 DEF setDelayApplies, history
  <2>2. \A y \in Web : Calibrating(y)' <=> Calibrating(y)
    BY <2>1, WebValues DEF SoundOK, Calibrating
  <2> QED  BY <2>1, <2>2, GateRests
<1>3. CASE (\E name \in {"default", "room"} : setEq(w, name)) \/ factoryReset(w)
  <2>1. UNCHANGED <<web, queue, allowed, overlapped>>
    BY <1>3 DEF setEq, factoryReset
  <2>2. \A y \in Web : Calibrating(y)' <=> Calibrating(y)
    BY <2>1 DEF Calibrating
  <2> QED  BY <2>1, <2>2, GateRests
<1>4. CASE runCalibration(w)
  <2>1. PICK x : x = [pc |-> "preparing", v |-> Flat]
    OBVIOUS
  <2>2. x \in WebStates /\ x.pc = "preparing"
    BY <2>1 DEF WebStates
  <2>3. /\ web' = [web EXCEPT ![w] = x] /\ Publish(Event("CalibrationStarted"))
        /\ web[w].pc = "idle" /\ allowed' = allowed /\ overlapped' = AnyCalibration
    BY <1>4, <2>1 DEF runCalibration
  <2>4. web'[w] = x /\ \A y \in Web \ {w} : web'[y] = web[y]
    BY <2>2, <2>3, WebSet
  <2>5. EndsShut(queue', allowed')
    <3>1. PICK e : e = Event("CalibrationStarted")
      OBVIOUS
    <3>2. e \in Events /\ e.type = "CalibrationStarted"
      BY <3>1, EventFacts DEF Gating
    <3>3. queue' = Append(queue, e) /\ queue \in Seq(Events)
      BY <2>3, <3>1 DEF Publish, SoundOK
    <3> QED  BY <3>2, <3>3, AppendGating
  <2>6. Calibrating(w)' /\ \A y \in Web \ {w} : Calibrating(y)' <=> Calibrating(y)
    BY <2>2, <2>4 DEF Calibrating
  <2>7. AnyCalibration'
    BY <2>6 DEF AnyCalibration
  <2>8. ~overlapped' => \A y \in Web : Calibrating(y)' => y = w
    BY <2>3, <2>6 DEF AnyCalibration
  <2> QED  BY <2>5, <2>7, <2>8 DEF GateInv
<1>5. ASSUME NEW ok \in BOOLEAN, prepare(w, ok) PROVE GateInv'
  <2>1. /\ web' = [web EXCEPT ![w].pc = "measuring"] /\ web[w].pc = "preparing"
        /\ UNCHANGED <<queue, allowed, overlapped>>
    BY <1>5 DEF prepare, history
  <2>2. \A y \in Web : Calibrating(y)' <=> Calibrating(y)
    BY <2>1, WebGoes DEF Calibrating
  <2> QED  BY <2>1, <2>2, GateRests
<1>6. CASE calibrationFails(w) \/ renameFails(w)
  <2>1. /\ web' = [web EXCEPT ![w].pc = "failing"] /\ Publish(Event("CalibrationFailed"))
        /\ web[w].pc \in {"measuring", "saving", "renaming"} /\ UNCHANGED <<allowed, overlapped>>
    BY <1>6 DEF calibrationFails, renameFails, history
  <2>2. web'[w].pc = "failing" /\ \A y \in Web \ {w} : web'[y] = web[y]
    BY <2>1, WebGoes
  <2>3. Calibrating(w) /\ ~Calibrating(w)'
    BY <2>1, <2>2 DEF Calibrating
  <2> QED  BY <2>1, <2>2, <2>3, GateOpens DEF Opening
<1>7. ASSUME NEW c \in Corrections, measureRoom(w, c) PROVE GateInv'
  <2>1. /\ web' = [web EXCEPT ![w] = [pc |-> "saving", v |-> c]] /\ web[w].pc = "measuring"
        /\ UNCHANGED <<queue, allowed, overlapped>>
    BY <1>7 DEF measureRoom, history
  <2>2. \A y \in Web : Calibrating(y)' <=> Calibrating(y)
    BY <2>1 DEF SoundOK, Calibrating
  <2> QED  BY <2>1, <2>2, GateRests
<1>8. CASE saveProfile(w)
  <2>1. /\ web' = [web EXCEPT ![w].pc = "renaming"] /\ web[w].pc = "saving"
        /\ UNCHANGED <<queue, allowed, overlapped>>
    BY <1>8 DEF saveProfile, history
  <2>2. \A y \in Web : Calibrating(y)' <=> Calibrating(y)
    BY <2>1, WebGoes DEF Calibrating
  <2> QED  BY <2>1, <2>2, GateRests
<1>9. CASE renameProfile(w)
  <2>1. /\ web' = [web EXCEPT ![w].pc = "recording"] /\ web[w].pc = "renaming"
        /\ UNCHANGED <<queue, allowed, overlapped>>
    BY <1>9 DEF renameProfile, history
  <2>2. \A y \in Web : Calibrating(y)' <=> Calibrating(y)
    BY <2>1, WebGoes DEF Calibrating
  <2> QED  BY <2>1, <2>2, GateRests
<1>10. ASSUME NEW ok \in BOOLEAN, recordProfile(w, ok) PROVE GateInv'
  <2>1. /\ web' = [web EXCEPT ![w].pc = "restoring"] /\ web[w].pc = "recording"
        /\ UNCHANGED <<queue, allowed, overlapped>>
    BY <1>10 DEF recordProfile
  <2>2. \A y \in Web : Calibrating(y)' <=> Calibrating(y)
    BY <2>1, WebGoes DEF Calibrating
  <2> QED  BY <2>1, <2>2, GateRests
<1>11. ASSUME NEW ok \in BOOLEAN, restorePlayback(w, ok) PROVE GateInv'
  <2>1. UNCHANGED <<queue, allowed, overlapped>>
    BY <1>11 DEF restorePlayback, history
  <2>2. \A y \in Web : Calibrating(y)' <=> Calibrating(y)
    BY <1>11, RestorePlaybackFacts, WebValues DEF Calibrating
  <2> QED  BY <2>1, <2>2, GateRests
<1>12. CASE calibrationCompletes(w)
  <2>1. /\ web' = [web EXCEPT ![w] = Idle] /\ Publish(Event("CalibrationCompleted"))
        /\ web[w].pc = "completing" /\ UNCHANGED <<allowed, overlapped>>
    BY <1>12 DEF calibrationCompletes, history
  <2>2. web'[w].pc = "idle" /\ \A y \in Web \ {w} : web'[y] = web[y]
    BY <2>1, WebSet, WebValues
  <2>3. Calibrating(w) /\ ~Calibrating(w)'
    BY <2>1, <2>2 DEF Calibrating
  <2> QED  BY <2>1, <2>2, <2>3, GateOpens DEF Opening
<1>13. ASSUME NEW heard \in BOOLEAN, runDiagnostics(w, heard) PROVE GateInv'
  <2>1. SoundRests
    BY <1>13, OthersSilent
  <2>2. \A y \in Web : Calibrating(y)' <=> Calibrating(y)
    BY <2>1 DEF SoundRests, Calibrating
  <2> QED  BY <2>1, <2>2, SilentKeeps, GateKept DEF SoundRests, SoundOK
<1> QED
  BY <1>1, <1>2, <1>3, <1>4, <1>5, <1>6, <1>7, <1>8, <1>9, <1>10, <1>11, <1>12,
     <1>13 DEF WebStep

LEMMA GateStep == SoundOK /\ GateInv /\ [Next]_vars => GateInv'
<1> SUFFICES ASSUME SoundOK, GateInv, [Next]_vars PROVE GateInv'  OBVIOUS
<1>1. ASSUME SoundRests PROVE GateInv'
  <2>1. \A y \in Web : Calibrating(y)' <=> Calibrating(y)
    BY <1>1 DEF SoundRests, Calibrating
  <2> QED  BY <1>1, <2>1, SilentKeeps, GateKept DEF SoundRests, SoundOK
<1>2. CASE \E w \in Web : WebStep(w)
  BY <1>2, WebGate
<1>3. ASSUME NEW k \in Numbers, NEW v \in Delays, executeSet(k, v) PROVE GateInv'
  <2>1. UNCHANGED <<web, queue, allowed, overlapped>>
    BY <1>3 DEF executeSet
  <2>2. \A y \in Web : Calibrating(y)' <=> Calibrating(y)
    BY <2>1 DEF Calibrating
  <2> QED  BY <2>1, <2>2, GateRests
<1>4. CASE emitExecuted
  <2>1. PICK e : e = [type |-> "CommandExecuted", k |-> ctl.k, v |-> ctl.v]
    OBVIOUS
  <2>2. e \in Events /\ e.type \notin Gating
    BY <1>4, <2>1, EventsPublished DEF Gating, Opening
  <2>3. queue' = Append(queue, e) /\ queue \in Seq(Events) /\ UNCHANGED <<web, allowed, overlapped>>
    BY <1>4, <2>1 DEF emitExecuted, Publish, SoundOK, history
  <2>4. \A y \in Web : Calibrating(y)' <=> Calibrating(y)
    BY <2>3 DEF Calibrating
  <2> QED  BY <2>2, <2>3, <2>4, AppendOther, GateKept
<1>5. CASE Dispatch
  <2>1. PICK e : e = Head(queue)
    OBVIOUS
  <2>2. PICK s \in Seq(Events) : Silent(s) /\ queue' = Tail(queue) \o s
    BY <1>5, <2>1, DispatchFacts
  <2>3. /\ queue # <<>> /\ queue \in Seq(Events) /\ UNCHANGED <<web, overlapped>>
        /\ allowed' = (IF e.type \in Opening THEN TRUE
                       ELSE IF e.type \in Gating THEN FALSE ELSE allowed)
    BY <1>5, <2>1, DispatchFacts DEF SoundOK
  <2>4. PICK r : r = Tail(queue)
    OBVIOUS
  <2>5. /\ r \in Seq(Events)
        /\ EndsOpen(queue, allowed) => EndsOpen(r, allowed')
        /\ EndsShut(queue, allowed) => EndsShut(r, allowed')
    BY <2>1, <2>3, <2>4, TailKeeps
  <2>6. /\ EndsOpen(queue, allowed) => EndsOpen(queue', allowed')
        /\ EndsShut(queue, allowed) => EndsShut(queue', allowed')
    BY <2>2, <2>4, <2>5, SilentKeeps
  <2>7. \A y \in Web : Calibrating(y)' <=> Calibrating(y)
    BY <2>3 DEF Calibrating
  <2> QED  BY <2>3, <2>6, <2>7, GateKept
<1>6. CASE sendHeartbeat \/ (\E on, ok \in BOOLEAN : audioGate(on, ok)) \/ UNCHANGED vars
  BY <1>1, <1>6, OthersSilent
<1>7. CASE \E f, p, ok \in BOOLEAN, t \in Temperatures : poll(f, p, t, ok)
  BY <1>1, <1>7, PollSilent
<1>8. CASE Update
  BY <1>1, <1>8, UpdateSilent
<1>9. CASE powerCut
  <2>1. /\ web' = [w \in Web |-> Idle] /\ queue' = <<>> /\ allowed' /\ ~overlapped'
    BY <1>9 DEF powerCut
  <2>2. \A w \in Web : web'[w].pc = "idle"
    BY <2>1, WebValues
  <2>3. DOMAIN queue' = {}
    BY <2>1
  <2> QED  BY <2>1, <2>2, <2>3 DEF GateInv, AnyCalibration, Calibrating, EndsOpen
<1> QED  BY <1>2, <1>3, <1>4, <1>5, <1>6, <1>7, <1>8, <1>9 DEF Next

LEMMA SoundHolds == Spec => []SoundOK
<1>1. Init => SoundOK
  BY SoundInit
<1>2. SoundOK /\ [Next]_vars => SoundOK'
  BY SoundStep
<1> QED  BY <1>1, <1>2, PTL DEF Spec

LEMMA GateHolds == Spec => []GateInv
<1>1. Init => GateInv
  BY GateInit
<1>2. SoundOK /\ GateInv /\ [Next]_vars => GateInv'
  BY GateStep
<1> QED  BY <1>1, <1>2, SoundHolds, PTL DEF Spec

(* GateFollowsCalibration: once the bus has delivered the events of the    *)
(* calibrations, UpdateManager refuses updates exactly while one runs,     *)
(* however it ended, however the steps of several web threads and the bus  *)
(* worker interleave, and never for good.                                  *)
THEOREM GateFollowsCalibrationHolds == Spec => []GateFollowsCalibration
<1>1. GateInv => GateFollowsCalibration
  <2> SUFFICES ASSUME GateInv, \A i \in DOMAIN queue : queue[i].type \notin Gating
               PROVE  (~AnyCalibration => allowed) /\ (AnyCalibration /\ ~overlapped => ~allowed)
    BY DEF GateFollowsCalibration, Gating, Opening
  <2> QED  BY DEF GateInv, EndsOpen, EndsShut, Gating, Opening
<1> QED  BY <1>1, GateHolds, PTL

----------------------------------------------------------------------------
(* The delay and the gain on their way to the DSP.                         *)

(* Once the command path is empty the DSP has the configured value.        *)
Arrives(k) ==
    IF ctl.pc = "emit" /\ ctl.k = k THEN ctl.v = cfg[k]
    ELSE EndsAs(queue, k, dsp[k], cfg[k])

(* Of a setting that was changed by one path at a time: no command is      *)
(* under way while a web thread is between configuration and DSP, and the  *)
(* one web thread that is there holds the configured delay.                *)
NumberInv ==
    /\ "gain" \notin apart => Arrives("gain")
    /\ "delay" \notin apart /\ ~WebDelayPending => Arrives("delay")
    /\ "delay" \notin apart /\ WebDelayPending =>
         /\ ~CommandPending("delay")
         /\ \A y \in Web : web[y].pc = "delay" => web[y].v = cfg.delay
         /\ \A y, z \in Web : web[y].pc = "delay" /\ web[z].pc = "delay" => y = z

LEMMA ArrivesKept ==
  ASSUME NEW k, Arrives(k), ctl' = ctl, cfg'[k] = cfg[k],
         \A x : EndsAs(queue, k, dsp[k], x) => EndsAs(queue', k, dsp'[k], x)
  PROVE  Arrives(k)'
BY DEF Arrives

LEMMA NumbersKept ==
  ASSUME NumberInv, ctl' = ctl, cfg'.delay = cfg.delay, cfg'.gain = cfg.gain,
         \A k \in Numbers : k \in apart => k \in apart',
         \A x : EndsAs(queue, "gain", dsp.gain, x) => EndsAs(queue', "gain", dsp'.gain, x),
         \A x : EndsAs(queue, "delay", dsp.delay, x) => EndsAs(queue', "delay", dsp'.delay, x),
         (\A i \in DOMAIN queue : queue[i].k # "delay") => \A i \in DOMAIN queue' : queue'[i].k # "delay",
         \A y \in Web : /\ web'[y].pc = "delay" <=> web[y].pc = "delay"
                        /\ web[y].pc = "delay" => web'[y].v = web[y].v
  PROVE  NumberInv'
<1>1. "gain" \notin apart' => Arrives("gain")'
  BY ArrivesKept DEF NumberInv, Numbers
<1>2. WebDelayPending' <=> WebDelayPending
  BY DEF WebDelayPending
<1>3. "delay" \notin apart' /\ ~WebDelayPending' => Arrives("delay")'
  BY <1>2, ArrivesKept DEF NumberInv, Numbers
<1>4. ASSUME "delay" \notin apart', WebDelayPending'
      PROVE  /\ ~CommandPending("delay")'
             /\ \A y \in Web : web'[y].pc = "delay" => web'[y].v = cfg'.delay
             /\ \A y, z \in Web : web'[y].pc = "delay" /\ web'[z].pc = "delay" => y = z
  <2>1. "delay" \notin apart /\ WebDelayPending
    BY <1>2, <1>4 DEF Numbers
  <2>2. ~CommandPending("delay")'
    BY <2>1 DEF NumberInv, CommandPending
  <2> QED  BY <2>1, <2>2 DEF NumberInv
<1> QED  BY <1>1, <1>3, <1>4 DEF NumberInv

(* The steps of a web thread that have nothing to do with the delay.       *)
LEMMA NumbersRest ==
  ASSUME SoundOK, NumberInv, ctl' = ctl, cfg'.delay = cfg.delay, cfg'.gain = cfg.gain,
         dsp'.delay = dsp.delay, dsp'.gain = dsp.gain,
         \A k \in Numbers : k \in apart => k \in apart',
         queue' = queue \/ \E t \in Gating : Publish(Event(t)),
         NEW w \in Web, web[w].pc # "delay", web'[w].pc # "delay",
         \A y \in Web \ {w} : web'[y] = web[y]
  PROVE  NumberInv'
<1>1. \A y \in Web : /\ web'[y].pc = "delay" <=> web[y].pc = "delay"
                     /\ web[y].pc = "delay" => web'[y].v = web[y].v
  OBVIOUS
<1>2. CASE queue' = queue
  BY <1>1, <1>2, NumbersKept
<1>3. ASSUME NEW t \in Gating, Publish(Event(t)) PROVE NumberInv'
  <2>1. PICK e : e = Event(t)
    OBVIOUS
  <2>2. e \in Events /\ e.k = "-"
    BY <2>1, EventFacts
  <2>3. queue' = Append(queue, e) /\ queue \in Seq(Events)
    BY <1>3, <2>1 DEF Publish, SoundOK
  <2>4. \A k \in Numbers : \A d, x : EndsAs(queue, k, d, x) => EndsAs(queue', k, d, x)
    BY <2>2, <2>3, AppendOther DEF Numbers
  <2>5. /\ queue'[Len(queue) + 1] = e /\ DOMAIN queue = 1..Len(queue) /\ Len(queue) \in Nat
        /\ DOMAIN queue' = 1..(Len(queue) + 1) /\ \A i \in DOMAIN queue : queue'[i] = queue[i]
    BY <2>2, <2>3, Appended
  <2>6. (\A i \in DOMAIN queue : queue[i].k # "delay") => \A i \in DOMAIN queue' : queue'[i].k # "delay"
    BY <2>2, <2>5
  <2> QED  BY <1>1, <2>4, <2>6, NumbersKept DEF Numbers
<1> QED  BY <1>2, <1>3

LEMMA NumberInit == Init => NumberInv
<1> SUFFICES ASSUME Init PROVE NumberInv  OBVIOUS
<1>1. \A w \in Web : web[w].pc = "idle"
  BY WebValues DEF Init
<1>2. ctl.pc = "idle" /\ DOMAIN queue = {}
  BY DEF Init, Quiet
<1>3. dsp["gain"] = cfg["gain"] /\ dsp["delay"] = cfg["delay"]
  BY DEF Init, Restored, Defaults
<1> QED  BY <1>1, <1>2, <1>3 DEF NumberInv, WebDelayPending, Arrives, EndsAs

LEMMA SetDelayNumbers ==
  ASSUME SoundOK, NumberInv, NEW w \in Web, NEW v \in Delays, setDelay(w, v) PROVE NumberInv'
<1>1. /\ web' = [web EXCEPT ![w] = [pc |-> "delay", v |-> v]] /\ cfg' = [cfg EXCEPT !.delay = v]
      /\ apart' = IF WebDelayPending \/ CommandPending("delay")
                  THEN apart \union {"delay"} ELSE apart \ {"delay"}
      /\ UNCHANGED <<ctl, queue, dsp>>
  BY DEF setDelay
<1>2. cfg'.delay = v /\ cfg'["gain"] = cfg["gain"]
  BY <1>1 DEF SoundOK
<1>3. web'[w].pc = "delay" /\ web'[w].v = v /\ \A y \in Web \ {w} : web'[y] = web[y]
  BY <1>1 DEF SoundOK
<1>4. "gain" \notin apart' => Arrives("gain")'
  BY <1>1, <1>2, ArrivesKept DEF NumberInv
<1>5. WebDelayPending'
  BY <1>3 DEF WebDelayPending
<1>6. ASSUME "delay" \notin apart'
      PROVE  /\ ~CommandPending("delay")'
             /\ \A y \in Web : web'[y].pc = "delay" => web'[y].v = cfg'.delay
             /\ \A y, z \in Web : web'[y].pc = "delay" /\ web'[z].pc = "delay" => y = z
  <2>1. ~WebDelayPending /\ ~CommandPending("delay")
    BY <1>1, <1>6
  <2>2. ~CommandPending("delay")'
    BY <1>1, <2>1 DEF CommandPending
  <2>3. \A y \in Web : web'[y].pc = "delay" => y = w
    BY <1>3, <2>1 DEF WebDelayPending
  <2> QED  BY <1>2, <1>3, <2>2, <2>3
<1> QED  BY <1>4, <1>5, <1>6 DEF NumberInv

LEMMA DelayAppliesNumbers ==
  ASSUME SoundOK, NumberInv, NEW w \in Web, setDelayApplies(w) PROVE NumberInv'
<1>1. /\ web[w].pc = "delay" /\ web' = [web EXCEPT ![w] = Idle]
      /\ dsp' = [dsp EXCEPT !.delay = web[w].v] /\ UNCHANGED <<ctl, queue, cfg, apart>>
  BY DEF setDelayApplies, history
<1>2. dsp'["delay"] = web[w].v /\ dsp'["gain"] = dsp["gain"]
  BY <1>1 DEF SoundOK
<1>3. web'[w].pc = "idle" /\ \A y \in Web \ {w} : web'[y] = web[y]
  BY <1>1, WebSet, WebValues
<1>4. "gain" \notin apart' => Arrives("gain")'
  BY <1>1, <1>2, ArrivesKept DEF NumberInv
<1>5. ASSUME "delay" \notin apart' PROVE ~WebDelayPending' /\ Arrives("delay")'
  <2>1. WebDelayPending /\ "delay" \notin apart
    BY <1>1, <1>5 DEF WebDelayPending
  <2>2. /\ ~CommandPending("delay") /\ web[w].v = cfg.delay
        /\ \A y \in Web : web[y].pc = "delay" => y = w
    BY <1>1, <2>1 DEF NumberInv
  <2>3. ~WebDelayPending'
    BY <1>3, <2>2 DEF WebDelayPending
  <2>4. ~(ctl'.pc = "emit" /\ ctl'.k = "delay") /\ \A i \in DOMAIN queue' : queue'[i].k # "delay"
    BY <1>1, <2>2 DEF CommandPending
  <2>5. dsp'["delay"] = cfg'["delay"]
    BY <1>1, <1>2, <2>2
  <2> QED  BY <2>3, <2>4, <2>5 DEF Arrives, EndsAs
<1> QED  BY <1>4, <1>5 DEF NumberInv

LEMMA ExecuteSetNumbers ==
  ASSUME SoundOK, NumberInv, NEW k \in Numbers, NEW v \in Delays, executeSet(k, v)
  PROVE  NumberInv'
<1>1. /\ ctl.pc = "idle" /\ cfg' = [cfg EXCEPT ![k] = v]
      /\ ctl' = [pc |-> "emit", k |-> k, v |-> v]
      /\ apart' = IF k = "delay" /\ WebDelayPending THEN apart \union {k} ELSE apart \ {k}
      /\ UNCHANGED <<web, queue, dsp>>
  BY DEF executeSet
<1>2. ctl'.pc = "emit" /\ ctl'.k = k /\ ctl'.v = v
  BY <1>1
<1>3. cfg'[k] = v /\ \A j \in Numbers : j # k => cfg'[j] = cfg[j]
  BY <1>1 DEF SoundOK, Numbers
<1>4. Arrives(k)'
  BY <1>2, <1>3 DEF Arrives
<1>5. ASSUME NEW j \in Numbers, j # k, Arrives(j) PROVE Arrives(j)'
  <2>1. EndsAs(queue, j, dsp[j], cfg[j])
    BY <1>1, <1>5 DEF Arrives
  <2> QED  BY <1>1, <1>2, <1>3, <1>5, <2>1 DEF Arrives
<1>6. WebDelayPending' <=> WebDelayPending
  BY <1>1 DEF WebDelayPending
<1>7. CASE k = "gain"
  <2>1. "delay" \notin apart' => "delay" \notin apart
    BY <1>1, <1>7
  <2>2. ~CommandPending("delay") => ~CommandPending("delay")'
    BY <1>1, <1>2, <1>7 DEF CommandPending
  <2>3. cfg'["delay"] = cfg["delay"] /\ cfg'.delay = cfg.delay
    BY <1>3, <1>7 DEF Numbers
  <2>4. "delay" \notin apart' /\ ~WebDelayPending' => Arrives("delay")'
    BY <1>5, <1>6, <1>7, <2>1 DEF NumberInv, Numbers
  <2> QED  BY <1>1, <1>4, <1>6, <1>7, <2>1, <2>2, <2>3, <2>4 DEF NumberInv
<1>8. CASE k = "delay"
  <2>1. "gain" \notin apart' => Arrives("gain")'
    BY <1>1, <1>5, <1>8 DEF NumberInv, Numbers
  <2>2. WebDelayPending => "delay" \in apart'
    BY <1>1, <1>8
  <2> QED  BY <1>4, <1>6, <1>8, <2>1, <2>2 DEF NumberInv
<1> QED  BY <1>7, <1>8 DEF Numbers

LEMMA EmitNumbers == ASSUME SoundOK, NumberInv, emitExecuted PROVE NumberInv'
<1>1. PICK e : e = [type |-> "CommandExecuted", k |-> ctl.k, v |-> ctl.v]
  OBVIOUS
<1>2. e \in Events /\ e.k = ctl.k /\ e.v = ctl.v
  BY <1>1, EventsPublished
<1>3. /\ ctl.pc = "emit" /\ queue' = Append(queue, e) /\ queue \in Seq(Events) /\ ctl'.pc = "idle"
      /\ UNCHANGED <<web, cfg, dsp, apart>>
  BY <1>1 DEF emitExecuted, Publish, SoundOK, Quiet, sound, history
<1>4. ASSUME NEW k, Arrives(k) PROVE Arrives(k)'
  <2>1. CASE ctl.k = k
    <3>1. ctl.v = cfg[k]
      BY <1>3, <1>4, <2>1 DEF Arrives
    <3>2. EndsAs(queue', k, dsp[k], ctl.v)
      BY <1>2, <1>3, <2>1, AppendSetting
    <3> QED  BY <1>3, <3>1, <3>2 DEF Arrives
  <2>2. CASE ctl.k # k
    <3>1. EndsAs(queue, k, dsp[k], cfg[k])
      BY <1>4, <2>2 DEF Arrives
    <3>2. EndsAs(queue', k, dsp[k], cfg[k])
      BY <1>2, <1>3, <2>2, <3>1, AppendOther
    <3> QED  BY <1>3, <3>2 DEF Arrives
  <2> QED  BY <2>1, <2>2
<1>5. WebDelayPending' <=> WebDelayPending
  BY <1>3 DEF WebDelayPending
<1>6. ~CommandPending("delay") => ~CommandPending("delay")'
  <2> SUFFICES ASSUME ~CommandPending("delay") PROVE ~CommandPending("delay")'  OBVIOUS
  <2>1. ctl.k # "delay" /\ \A i \in DOMAIN queue : queue[i].k # "delay"
    BY <1>3 DEF CommandPending
  <2>2. /\ queue'[Len(queue) + 1] = e /\ DOMAIN queue = 1..Len(queue) /\ Len(queue) \in Nat
        /\ DOMAIN queue' = 1..(Len(queue) + 1) /\ \A i \in DOMAIN queue : queue'[i] = queue[i]
    BY <1>2, <1>3, Appended
  <2>3. \A i \in DOMAIN queue' : queue'[i].k # "delay"
    BY <1>2, <2>1, <2>2
  <2> QED  BY <1>3, <2>3 DEF CommandPending
<1> QED  BY <1>3, <1>4, <1>5, <1>6 DEF NumberInv

LEMMA DispatchNumbers == ASSUME SoundOK, NumberInv, Dispatch PROVE NumberInv'
<1>1. PICK e : e = Head(queue)
  OBVIOUS
<1>2. PICK s \in Seq(Events) : Silent(s) /\ queue' = Tail(queue) \o s
  BY <1>1, DispatchFacts
<1>3. /\ queue # <<>> /\ queue \in Seq(Events) /\ UNCHANGED <<web, ctl, cfg, apart>>
      /\ dsp' = (IF e.k \in Numbers THEN [dsp EXCEPT ![e.k] = e.v] ELSE dsp)
  BY <1>1, DispatchFacts DEF SoundOK
<1>4. PICK r : r = Tail(queue)
  OBVIOUS
<1>5. r \in Seq(Events)
  BY <1>3, <1>4, TailKeeps
<1>6. /\ \A k \in Keys : \A d, x : EndsAs(r, k, d, x) => EndsAs(queue', k, d, x)
      /\ \A k \in Keys : (\A i \in DOMAIN r : r[i].k # k) => \A i \in DOMAIN queue' : queue'[i].k # k
  BY <1>2, <1>4, <1>5, SilentKeeps
<1>7. /\ dsp'.gain = (IF e.k = "gain" THEN e.v ELSE dsp.gain)
      /\ dsp'.delay = (IF e.k = "delay" THEN e.v ELSE dsp.delay)
  BY <1>3 DEF SoundOK, Numbers
<1>8. "gain" \in Keys /\ "delay" \in Keys
  BY DEF Keys, Numbers
<1>9. ASSUME NEW x, EndsAs(queue, "gain", dsp.gain, x) PROVE EndsAs(queue', "gain", dsp'.gain, x)
  <2>1. EndsAs(r, "gain", dsp'.gain, x)
    BY <1>1, <1>3, <1>4, <1>7, <1>9, TailKeeps
  <2> QED  BY <1>6, <1>8, <2>1
<1>10. ASSUME NEW x, EndsAs(queue, "delay", dsp.delay, x) PROVE EndsAs(queue', "delay", dsp'.delay, x)
  <2>1. EndsAs(r, "delay", dsp'.delay, x)
    BY <1>1, <1>3, <1>4, <1>7, <1>10, TailKeeps
  <2> QED  BY <1>6, <1>8, <2>1
<1>11. ASSUME \A i \in DOMAIN queue : queue[i].k # "delay"
       PROVE  \A i \in DOMAIN queue' : queue'[i].k # "delay"
  <2>1. \A i \in DOMAIN r : r[i].k # "delay"
    BY <1>3, <1>4, <1>11, TailKeeps
  <2> QED  BY <1>6, <1>8, <2>1
<1> QED  BY <1>3, <1>9, <1>10, <1>11, NumbersKept

LEMMA SilentNumbers == ASSUME SoundOK, NumberInv, SoundRests PROVE NumberInv'
<1>1. PICK s \in Seq(Events) : Silent(s) /\ queue' = queue \o s
  BY DEF SoundRests
<1>2. /\ \A k \in Keys : \A d, x : EndsAs(queue, k, d, x) => EndsAs(queue', k, d, x)
      /\ \A k \in Keys : (\A i \in DOMAIN queue : queue[i].k # k) => \A i \in DOMAIN queue' : queue'[i].k # k
  BY <1>1, SilentKeeps DEF SoundOK
<1>3. "gain" \in Keys /\ "delay" \in Keys
  BY DEF Keys, Numbers
<1> QED  BY <1>2, <1>3, NumbersKept DEF SoundRests

LEMMA WebNumbers == ASSUME SoundOK, NumberInv, NEW w \in Web, WebStep(w) PROVE NumberInv'
<1> USE DEF WebSteps
<1>1. CASE \E v \in Delays : setDelay(w, v)
  BY <1>1, SetDelayNumbers
<1>2. CASE setDelayApplies(w)
  BY <1>2, DelayAppliesNumbers
<1>3. ASSUME NEW name \in {"default", "room"}, setEq(w, name) PROVE NumberInv'
  <2>1. cfg' = [cfg EXCEPT !.eq = name] /\ apart' = apart \union {"eq"} /\ web[w].pc = "idle"
        /\ UNCHANGED <<web, ctl, queue, dsp>>
    BY <1>3 DEF setEq
  <2>2. cfg'.delay = cfg.delay /\ cfg'.gain = cfg.gain
    BY <2>1 DEF SoundOK
  <2> QED  BY <2>1, <2>2, NumbersRest
<1>4. CASE factoryReset(w)
  <2>1. "gain" \in apart' /\ "delay" \in apart'
    BY <1>4 DEF factoryReset, Keys, Numbers
  <2> QED  BY <2>1 DEF NumberInv
<1>5. CASE runCalibration(w)
  <2>1. /\ web' = [web EXCEPT ![w] = [pc |-> "preparing", v |-> Flat]] /\ web[w].pc = "idle"
        /\ \E t \in Gating : Publish(Event(t))
        /\ \A k \in Numbers : k \in apart => k \in apart'
        /\ UNCHANGED <<ctl, cfg, dsp>>
    BY <1>5 DEF runCalibration, sound, Gating
  <2>2. web'[w].pc = "preparing" /\ \A y \in Web \ {w} : web'[y] = web[y]
    BY <2>1 DEF SoundOK
  <2> QED  BY <2>1, <2>2, NumbersRest
<1>6. ASSUME NEW ok \in BOOLEAN, prepare(w, ok) PROVE NumberInv'
  <2>1. /\ web' = [web EXCEPT ![w].pc = "measuring"] /\ web[w].pc = "preparing"
        /\ UNCHANGED <<ctl, queue, cfg, dsp, apart>>
    BY <1>6 DEF prepare, sound, history
  <2>2. web'[w].pc = "measuring" /\ \A y \in Web \ {w} : web'[y] = web[y]
    BY <2>1, WebGoes
  <2> QED  BY <2>1, <2>2, NumbersRest
<1>7. CASE calibrationFails(w) \/ renameFails(w)
  <2>1. /\ web' = [web EXCEPT ![w].pc = "failing"] /\ \E t \in Gating : Publish(Event(t))
        /\ web[w].pc \in {"measuring", "saving", "renaming"}
        /\ \A k \in Numbers : k \in apart => k \in apart'
        /\ UNCHANGED <<ctl, cfg, dsp>>
    BY <1>7 DEF calibrationFails, renameFails, sound, history, Gating, Opening
  <2>2. web'[w].pc = "failing" /\ \A y \in Web \ {w} : web'[y] = web[y]
    BY <2>1, WebGoes
  <2> QED  BY <2>1, <2>2, NumbersRest
<1>8. ASSUME NEW c \in Corrections, measureRoom(w, c) PROVE NumberInv'
  <2>1. /\ web' = [web EXCEPT ![w] = [pc |-> "saving", v |-> c]] /\ web[w].pc = "measuring"
        /\ dsp' = [dsp EXCEPT !.eq = c] /\ UNCHANGED <<ctl, queue, cfg, apart>>
    BY <1>8 DEF measureRoom, history
  <2>2. web'[w].pc = "saving" /\ \A y \in Web \ {w} : web'[y] = web[y]
    BY <2>1 DEF SoundOK
  <2>3. dsp'.delay = dsp.delay /\ dsp'.gain = dsp.gain
    BY <2>1 DEF SoundOK
  <2> QED  BY <2>1, <2>2, <2>3, NumbersRest
<1>9. CASE saveProfile(w)
  <2>1. /\ web' = [web EXCEPT ![w].pc = "renaming"] /\ web[w].pc = "saving"
        /\ UNCHANGED <<ctl, queue, cfg, dsp, apart>>
    BY <1>9 DEF saveProfile, history
  <2>2. web'[w].pc = "renaming" /\ \A y \in Web \ {w} : web'[y] = web[y]
    BY <2>1, WebGoes
  <2> QED  BY <2>1, <2>2, NumbersRest
<1>10. CASE renameProfile(w)
  <2>1. /\ web' = [web EXCEPT ![w].pc = "recording"] /\ web[w].pc = "renaming"
        /\ UNCHANGED <<ctl, queue, cfg, dsp, apart>>
    BY <1>10 DEF renameProfile, history
  <2>2. web'[w].pc = "recording" /\ \A y \in Web \ {w} : web'[y] = web[y]
    BY <2>1, WebGoes
  <2> QED  BY <2>1, <2>2, NumbersRest
<1>11. ASSUME NEW ok \in BOOLEAN, recordProfile(w, ok) PROVE NumberInv'
  <2>1. /\ web' = [web EXCEPT ![w].pc = "restoring"] /\ web[w].pc = "recording"
        /\ cfg' = cfg \/ cfg' = [cfg EXCEPT !.eq = "room"]
        /\ apart' = apart \ {"eq"} \/ apart' = apart \union {"eq"}
        /\ UNCHANGED <<ctl, queue, dsp>>
    BY <1>11 DEF recordProfile
  <2>2. web'[w].pc = "restoring" /\ \A y \in Web \ {w} : web'[y] = web[y]
    BY <2>1, WebGoes
  <2>3. cfg'.delay = cfg.delay /\ cfg'.gain = cfg.gain
    BY <2>1 DEF SoundOK
  <2>4. \A k \in Numbers : k \in apart => k \in apart'
    BY <2>1 DEF Numbers
  <2> QED  BY <2>1, <2>2, <2>3, <2>4, NumbersRest
<1>12. ASSUME NEW ok \in BOOLEAN, restorePlayback(w, ok) PROVE NumberInv'
  <2>1. UNCHANGED <<ctl, queue, cfg, dsp, apart>>
    BY <1>12 DEF restorePlayback, sound, history
  <2>2. /\ web[w].pc # "delay" /\ web'[w].pc # "delay" /\ \A y \in Web \ {w} : web'[y] = web[y]
    BY <1>12, RestorePlaybackFacts, WebValues
  <2> QED  BY <2>1, <2>2, NumbersRest
<1>13. CASE calibrationCompletes(w)
  <2>1. /\ web' = [web EXCEPT ![w] = Idle] /\ \E t \in Gating : Publish(Event(t))
        /\ web[w].pc = "completing" /\ UNCHANGED <<ctl, cfg, dsp, apart>>
    BY <1>13 DEF calibrationCompletes, sound, history, Gating, Opening
  <2>2. web'[w].pc = "idle" /\ \A y \in Web \ {w} : web'[y] = web[y]
    BY <2>1, WebSet, WebValues
  <2> QED  BY <2>1, <2>2, NumbersRest
<1>14. CASE \E heard \in BOOLEAN : runDiagnostics(w, heard)
  BY <1>14, OthersSilent, SilentNumbers
<1> QED
  BY <1>1, <1>2, <1>3, <1>4, <1>5, <1>6, <1>7, <1>8, <1>9, <1>10, <1>11, <1>12, <1>13,
     <1>14 DEF WebStep

LEMMA NumberStep == SoundOK /\ NumberInv /\ [Next]_vars => NumberInv'
<1> SUFFICES ASSUME SoundOK, NumberInv, [Next]_vars PROVE NumberInv'  OBVIOUS
<1>1. CASE \E w \in Web : WebStep(w)
  BY <1>1, WebNumbers
<1>2. CASE \E k \in Numbers, v \in Delays : executeSet(k, v)
  BY <1>2, ExecuteSetNumbers
<1>3. CASE emitExecuted
  BY <1>3, EmitNumbers
<1>4. CASE Dispatch
  BY <1>4, DispatchNumbers
<1>5. CASE sendHeartbeat \/ (\E on, ok \in BOOLEAN : audioGate(on, ok)) \/ UNCHANGED vars
  BY <1>5, OthersSilent, SilentNumbers
<1>6. CASE \E f, p, ok \in BOOLEAN, t \in Temperatures : poll(f, p, t, ok)
  BY <1>6, PollSilent, SilentNumbers
<1>7. CASE Update
  BY <1>7, UpdateSilent, SilentNumbers
<1>8. CASE powerCut
  <2>1. /\ web' = [w \in Web |-> Idle] /\ ctl' = Quiet /\ queue' = <<>>
        /\ dsp' = Restored(cfg, profile) /\ cfg' = cfg
    BY <1>8 DEF powerCut
  <2>2. \A w \in Web : web'[w].pc = "idle"
    BY <2>1, WebValues
  <2>3. ctl'.pc = "idle" /\ DOMAIN queue' = {}
    BY <2>1 DEF Quiet
  <2>4. dsp'["gain"] = cfg'["gain"] /\ dsp'["delay"] = cfg'["delay"]
    BY <2>1 DEF Restored, SoundOK
  <2> QED  BY <2>2, <2>3, <2>4 DEF NumberInv, WebDelayPending, Arrives, EndsAs
<1> QED  BY <1>1, <1>2, <1>3, <1>4, <1>5, <1>6, <1>7, <1>8 DEF Next

----------------------------------------------------------------------------
(* The equaliser: the curve in use and the one on the disk.                *)

(* A calibration between the curve it gave the DSP and the profile's name. *)
Held(w) == web[w].pc \in {"saving", "renaming", "recording"}

(* Calibrations that overlap are counted as apart.  One on its own carries *)
(* the curve in use through the temporary file to the profile; without one *)
(* the DSP has what a start would bring back.                              *)
EqInv ==
    /\ overlapped => "eq" \in apart
    /\ ~overlapped => \A w \in Web : Held(w) =>
         /\ dsp.eq = web[w].v /\ web[w].v \in Corrections
         /\ web[w].pc = "renaming" => tmp = web[w].v
         /\ web[w].pc = "recording" => profile = web[w].v
    /\ "eq" \notin apart /\ (\A w \in Web : ~Held(w)) => dsp.eq = applySavedProfile(cfg, profile)

LEMMA EqInit == Init => EqInv
<1> SUFFICES ASSUME Init PROVE EqInv  OBVIOUS
<1>1. \A w \in Web : web[w].pc = "idle"
  BY WebValues DEF Init
<1>2. dsp.eq = applySavedProfile(cfg, profile) /\ ~overlapped
  BY DEF Init, Restored
<1> QED  BY <1>1, <1>2 DEF EqInv, Held

(* A step outside of that stretch, which may count the profile as apart.   *)
LEMMA EqKept ==
  ASSUME EqInv, overlapped' = overlapped, "eq" \in apart => "eq" \in apart',
         "eq" \notin apart' => cfg'.eq = cfg.eq,
         dsp'.eq = dsp.eq, UNCHANGED <<profile, tmp>>,
         \A y \in Web : (Held(y)' <=> Held(y)) /\ (Held(y) => web'[y] = web[y])
  PROVE  EqInv'
<1>1. overlapped' => "eq" \in apart'
  BY DEF EqInv
<1>2. ASSUME ~overlapped', NEW w \in Web, Held(w)'
      PROVE  /\ dsp'.eq = web'[w].v /\ web'[w].v \in Corrections
             /\ web'[w].pc = "renaming" => tmp' = web'[w].v
             /\ web'[w].pc = "recording" => profile' = web'[w].v
  BY <1>2 DEF EqInv
<1>3. ASSUME "eq" \notin apart', \A w \in Web : ~Held(w)'
      PROVE  dsp'.eq = applySavedProfile(cfg, profile)'
  BY <1>3 DEF EqInv, applySavedProfile
<1> QED  BY <1>1, <1>2, <1>3 DEF EqInv

LEMMA EqThread ==
  ASSUME EqInv, overlapped' = overlapped, "eq" \in apart => "eq" \in apart',
         "eq" \notin apart' => cfg'.eq = cfg.eq,
         dsp'.eq = dsp.eq, UNCHANGED <<profile, tmp>>,
         NEW w \in Web, ~Held(w), ~Held(w)', \A y \in Web \ {w} : web'[y] = web[y]
  PROVE  EqInv'
<1>1. \A y \in Web : (Held(y)' <=> Held(y)) /\ (Held(y) => web'[y] = web[y])
  BY DEF Held
<1> QED  BY <1>1, EqKept

(* A calibration on its own is the only thread in that stretch.            *)
LEMMA EqAlone ==
  ASSUME GateInv, NEW w \in Web, Calibrating(w), ~overlapped
  PROVE  \A y \in Web \ {w} : ~Held(y)
BY DEF GateInv, Calibrating, Held

LEMMA CalibrationEq ==
  ASSUME SoundOK, GateInv, EqInv, NEW w \in Web,
         \/ calibrationFails(w) \/ renameFails(w)
         \/ \E c \in Corrections : measureRoom(w, c)
         \/ saveProfile(w) \/ renameProfile(w)
         \/ \E ok \in BOOLEAN : recordProfile(w, ok)
  PROVE  EqInv'
<1> USE DEF WebSteps
<1>1. CASE calibrationFails(w)
  <2>1. /\ web' = [web EXCEPT ![w].pc = "failing"] /\ web[w].pc \in {"measuring", "saving", "renaming"}
        /\ web[w].pc = "measuring" => UNCHANGED <<tmp, apart>>
        /\ web[w].pc # "measuring" => "eq" \in apart'
        /\ UNCHANGED <<cfg, dsp, profile, overlapped>>
    BY <1>1 DEF calibrationFails
  <2>2. web'[w].pc = "failing" /\ \A y \in Web \ {w} : web'[y] = web[y]
    BY <2>1, WebGoes
  <2>3. CASE web[w].pc = "measuring"
    BY <2>1, <2>2, <2>3, EqThread DEF Held
  <2>4. CASE web[w].pc # "measuring"
    <3>1. ~overlapped => \A y \in Web : ~Held(y)'
      BY <2>1, <2>2, EqAlone DEF Held, Calibrating
    <3> QED  BY <2>1, <2>4, <3>1 DEF EqInv
  <2> QED  BY <2>3, <2>4
<1>2. CASE renameFails(w)
  <2>1. /\ web' = [web EXCEPT ![w].pc = "failing"] /\ web[w].pc = "renaming" /\ tmp = NoFile
        /\ UNCHANGED <<overlapped, apart>>
    BY <1>2 DEF renameFails, history
  <2>2. overlapped
    <3>1. NoFile \notin Corrections
      BY DeviceAssumption DEF NoFile
    <3> QED  BY <2>1, <3>1 DEF EqInv, Held
  <2> QED  BY <2>1, <2>2 DEF EqInv
<1>3. ASSUME NEW c \in Corrections, measureRoom(w, c) PROVE EqInv'
  <2>1. /\ web' = [web EXCEPT ![w] = [pc |-> "saving", v |-> c]] /\ web[w].pc = "measuring"
        /\ dsp' = [dsp EXCEPT !.eq = c] /\ UNCHANGED <<overlapped, apart>>
    BY <1>3 DEF measureRoom, history
  <2>2. /\ web'[w].pc = "saving" /\ web'[w].v = c /\ dsp'.eq = c
        /\ \A y \in Web \ {w} : web'[y] = web[y]
    BY <2>1 DEF SoundOK
  <2>3. Held(w)' /\ (~overlapped => \A y \in Web \ {w} : ~Held(y)')
    BY <2>1, <2>2, EqAlone DEF Held, Calibrating
  <2> QED  BY <2>1, <2>2, <2>3 DEF EqInv
<1>4. CASE saveProfile(w)
  <2>1. /\ web' = [web EXCEPT ![w].pc = "renaming"] /\ web[w].pc = "saving"
        /\ tmp' = web[w].v \/ \E x \in Web \ {w} : web[x].pc = "renaming"
        /\ UNCHANGED <<dsp, overlapped, apart>>
    BY <1>4 DEF saveProfile, history
  <2>2. /\ web'[w].pc = "renaming" /\ web'[w].v = web[w].v
        /\ \A y \in Web \ {w} : web'[y] = web[y]
    BY <2>1, WebGoes
  <2>3. Held(w)' /\ (~overlapped => \A y \in Web \ {w} : ~Held(y) /\ ~Held(y)')
    BY <2>1, <2>2, EqAlone DEF Held, Calibrating
  <2>4. ~overlapped => tmp' = web[w].v /\ dsp.eq = web[w].v /\ web[w].v \in Corrections
    BY <2>1, <2>3 DEF EqInv, Held
  <2> QED  BY <2>1, <2>2, <2>3, <2>4 DEF EqInv
<1>5. CASE renameProfile(w)
  <2>1. /\ web' = [web EXCEPT ![w].pc = "recording"] /\ web[w].pc = "renaming"
        /\ profile' = tmp /\ UNCHANGED <<dsp, overlapped, apart>>
    BY <1>5 DEF renameProfile, history
  <2>2. /\ web'[w].pc = "recording" /\ web'[w].v = web[w].v
        /\ \A y \in Web \ {w} : web'[y] = web[y]
    BY <2>1, WebGoes
  <2>3. Held(w)' /\ (~overlapped => \A y \in Web \ {w} : ~Held(y)')
    BY <2>1, <2>2, EqAlone DEF Held, Calibrating
  <2>4. ~overlapped => tmp = web[w].v /\ dsp.eq = web[w].v /\ web[w].v \in Corrections
    BY <2>1 DEF EqInv, Held
  <2> QED  BY <2>1, <2>2, <2>3, <2>4 DEF EqInv
<1>6. ASSUME NEW ok \in BOOLEAN, recordProfile(w, ok) PROVE EqInv'
  <2>1. /\ web' = [web EXCEPT ![w].pc = "restoring"] /\ web[w].pc = "recording"
        /\ "eq" \in apart' \/ (~overlapped /\ cfg' = [cfg EXCEPT !.eq = "room"])
        /\ overlapped => "eq" \in apart'
        /\ UNCHANGED <<dsp, profile, tmp, overlapped>>
    BY <1>6 DEF recordProfile
  <2>2. /\ web'[w].pc = "restoring" /\ \A y \in Web \ {w} : web'[y] = web[y]
    BY <2>1, WebGoes
  <2>3. ~overlapped => \A y \in Web : ~Held(y)'
    BY <2>1, <2>2, EqAlone DEF Held, Calibrating
  <2>4. ASSUME "eq" \notin apart' PROVE dsp'.eq = applySavedProfile(cfg, profile)'
    <3>1. cfg'.eq = "room"
      BY <2>1, <2>4 DEF SoundOK
    <3>2. profile = web[w].v /\ dsp.eq = web[w].v /\ web[w].v \in Corrections
      BY <2>1, <2>4 DEF EqInv, Held
    <3> QED  BY <2>1, <3>1, <3>2 DEF applySavedProfile
  <2> QED  BY <2>1, <2>3, <2>4 DEF EqInv
<1> QED  BY <1>1, <1>2, <1>3, <1>4, <1>5, <1>6

LEMMA SilentEq == ASSUME EqInv, SoundRests PROVE EqInv'
BY EqKept DEF SoundRests, Held

LEMMA WebEq == ASSUME SoundOK, GateInv, EqInv, NEW w \in Web, WebStep(w) PROVE EqInv'
<1> USE DEF WebSteps
<1>1. ASSUME NEW v \in Delays, setDelay(w, v) PROVE EqInv'
  <2>1. /\ web' = [web EXCEPT ![w] = [pc |-> "delay", v |-> v]] /\ web[w].pc = "idle"
        /\ cfg' = [cfg EXCEPT !.delay = v]
        /\ apart' = apart \union {"delay"} \/ apart' = apart \ {"delay"}
        /\ UNCHANGED <<dsp, profile, tmp, overlapped>>
    BY <1>1 DEF setDelay
  <2>2. web'[w].pc = "delay" /\ (\A y \in Web \ {w} : web'[y] = web[y]) /\ cfg'.eq = cfg.eq
    BY <2>1 DEF SoundOK
  <2> QED  BY <2>1, <2>2, EqThread DEF Held
<1>2. CASE setDelayApplies(w)
  <2>1. /\ web' = [web EXCEPT ![w] = Idle] /\ web[w].pc = "delay"
        /\ dsp' = [dsp EXCEPT !.delay = web[w].v]
        /\ UNCHANGED <<cfg, profile, tmp, overlapped, apart>>
    BY <1>2 DEF setDelayApplies, history
  <2>2. web'[w].pc = "idle" /\ \A y \in Web \ {w} : web'[y] = web[y]
    BY <2>1, WebSet, WebValues
  <2>3. dsp'.eq = dsp.eq
    BY <2>1 DEF SoundOK
  <2> QED  BY <2>1, <2>2, <2>3, EqThread DEF Held
<1>3. CASE (\E name \in {"default", "room"} : setEq(w, name)) \/ factoryReset(w)
  <2>1. "eq" \in apart' /\ UNCHANGED <<web, dsp, profile, tmp, overlapped>>
    BY <1>3 DEF setEq, factoryReset, Keys
  <2> QED  BY <2>1, EqKept DEF Held
<1>4. CASE runCalibration(w)
  <2>1. /\ web' = [web EXCEPT ![w] = [pc |-> "preparing", v |-> Flat]]
        /\ web[w].pc = "idle" /\ overlapped' = AnyCalibration
        /\ apart' = IF AnyCalibration THEN apart \union {"eq"} ELSE apart
        /\ UNCHANGED <<cfg, dsp, profile, tmp>>
    BY <1>4 DEF runCalibration, sound
  <2>2. web'[w].pc = "preparing" /\ \A y \in Web \ {w} : web'[y] = web[y]
    BY <2>1 DEF SoundOK
  <2>3. CASE AnyCalibration
    BY <2>1, <2>3 DEF EqInv
  <2>4. CASE ~AnyCalibration
    <3>1. \A y \in Web : ~Held(y) /\ ~Held(y)'
      BY <2>2, <2>4 DEF AnyCalibration, Calibrating, Held
    <3> QED  BY <2>1, <2>4, <3>1 DEF EqInv
  <2> QED  BY <2>3, <2>4
<1>5. ASSUME NEW ok \in BOOLEAN, prepare(w, ok) PROVE EqInv'
  <2>1. /\ web' = [web EXCEPT ![w].pc = "measuring"] /\ web[w].pc = "preparing"
        /\ UNCHANGED <<cfg, dsp, profile, tmp, overlapped, apart>>
    BY <1>5 DEF prepare, sound, history
  <2>2. web'[w].pc = "measuring" /\ \A y \in Web \ {w} : web'[y] = web[y]
    BY <2>1, WebGoes
  <2> QED  BY <2>1, <2>2, EqThread DEF Held
<1>6. CASE \/ calibrationFails(w) \/ renameFails(w)
           \/ \E c \in Corrections : measureRoom(w, c)
           \/ saveProfile(w) \/ renameProfile(w)
           \/ \E ok \in BOOLEAN : recordProfile(w, ok)
  BY <1>6, CalibrationEq
<1>7. ASSUME NEW ok \in BOOLEAN, restorePlayback(w, ok) PROVE EqInv'
  <2>1. UNCHANGED <<cfg, dsp, profile, tmp, overlapped, apart>>
    BY <1>7 DEF restorePlayback, sound, history
  <2>2. ~Held(w) /\ ~Held(w)' /\ \A y \in Web \ {w} : web'[y] = web[y]
    BY <1>7, RestorePlaybackFacts, WebValues DEF Held
  <2> QED  BY <2>1, <2>2, EqThread
<1>8. CASE calibrationCompletes(w)
  <2>1. /\ web' = [web EXCEPT ![w] = Idle] /\ web[w].pc = "completing"
        /\ UNCHANGED <<cfg, dsp, profile, tmp, overlapped, apart>>
    BY <1>8 DEF calibrationCompletes, sound, history
  <2>2. web'[w].pc = "idle" /\ \A y \in Web \ {w} : web'[y] = web[y]
    BY <2>1, WebSet, WebValues
  <2> QED  BY <2>1, <2>2, EqThread DEF Held
<1>9. CASE \E heard \in BOOLEAN : runDiagnostics(w, heard)
  BY <1>9, OthersSilent, SilentEq
<1> QED  BY <1>1, <1>2, <1>3, <1>4, <1>5, <1>6, <1>7, <1>8, <1>9 DEF WebStep

LEMMA EqStep == SoundOK /\ GateInv /\ EqInv /\ [Next]_vars => EqInv'
<1> SUFFICES ASSUME SoundOK, GateInv, EqInv, [Next]_vars PROVE EqInv'  OBVIOUS
<1>1. CASE \E w \in Web : WebStep(w)
  BY <1>1, WebEq
<1>2. ASSUME NEW k \in Numbers, NEW v \in Delays, executeSet(k, v) PROVE EqInv'
  <2>1. /\ cfg' = [cfg EXCEPT ![k] = v]
        /\ apart' = apart \union {k} \/ apart' = apart \ {k}
        /\ UNCHANGED <<web, dsp, profile, tmp, overlapped>>
    BY <1>2 DEF executeSet
  <2>2. cfg'.eq = cfg.eq /\ ("eq" \in apart => "eq" \in apart')
    BY <2>1 DEF SoundOK, Numbers
  <2> QED  BY <2>1, <2>2, EqKept DEF Held
<1>3. CASE emitExecuted
  BY <1>3, EqKept DEF emitExecuted, sound, history, Held
<1>4. CASE Dispatch
  <2>1. PICK e : e = Head(queue)
    OBVIOUS
  <2>2. /\ dsp' = (IF e.k \in Numbers THEN [dsp EXCEPT ![e.k] = e.v] ELSE dsp)
        /\ UNCHANGED <<web, cfg, profile, tmp, apart, overlapped>>
    BY <1>4, <2>1, DispatchFacts
  <2>3. dsp'.eq = dsp.eq
    BY <2>2 DEF SoundOK, Numbers
  <2> QED  BY <2>2, <2>3, EqKept DEF Held
<1>5. CASE sendHeartbeat \/ (\E on, ok \in BOOLEAN : audioGate(on, ok)) \/ UNCHANGED vars
  BY <1>5, OthersSilent, SilentEq
<1>6. CASE \E f, p, ok \in BOOLEAN, t \in Temperatures : poll(f, p, t, ok)
  BY <1>6, PollSilent, SilentEq
<1>7. CASE Update
  BY <1>7, UpdateSilent, SilentEq
<1>8. CASE powerCut
  <2>1. /\ web' = [w \in Web |-> Idle] /\ dsp' = Restored(cfg, profile) /\ ~overlapped'
        /\ UNCHANGED <<cfg, profile>>
    BY <1>8 DEF powerCut
  <2>2. \A w \in Web : ~Held(w)'
    BY <2>1, WebValues DEF Held
  <2>3. dsp'.eq = applySavedProfile(cfg, profile)'
    BY <2>1 DEF Restored
  <2> QED  BY <2>1, <2>2, <2>3 DEF EqInv
<1> QED  BY <1>1, <1>2, <1>3, <1>4, <1>5, <1>6, <1>7, <1>8 DEF Next

(* DspInStep: once the threads and the bus are at rest, a delay, a gain or *)
(* an equaliser that is not in apart (last changed by two paths at once, a *)
(* profile's name, a factory reset or a calibration that failed) is in the *)
(* DSP as a start would restore it, however the web threads, the control   *)
(* thread and the bus worker interleave and wherever the power fails.      *)
THEOREM DspInStepHolds == Spec => []DspInStep
<1>1. SoundOK /\ NumberInv /\ EqInv => DspInStep
  <2> SUFFICES ASSUME SoundOK, NumberInv, EqInv, Settled, NEW k \in Keys, k \notin apart
               PROVE  dsp[k] = Restored(cfg, profile)[k]
    BY DEF DspInStep
  <2>1. DOMAIN queue = {} /\ ctl.pc = "idle" /\ \A w \in Web : web[w].pc = "idle"
    BY WebValues DEF Settled, Quiet
  <2>2. CASE k = "eq"
    <3>1. dsp.eq = applySavedProfile(cfg, profile)
      BY <2>1, <2>2 DEF EqInv, Held
    <3> QED  BY <2>2, <3>1 DEF Restored
  <2>3. CASE k \in Numbers
    <3>1. ~WebDelayPending
      BY <2>1 DEF WebDelayPending
    <3>2. Arrives(k)
      BY <2>3, <3>1 DEF NumberInv, Numbers
    <3>3. dsp[k] = cfg[k]
      BY <2>1, <3>2 DEF Arrives, EndsAs
    <3> QED  BY <2>3, <3>3 DEF Restored, Numbers
  <2> QED  BY <2>2, <2>3 DEF Keys
<1>2. Init => NumberInv /\ EqInv
  BY NumberInit, EqInit
<1>3. SoundOK /\ NumberInv /\ [Next]_vars => NumberInv'
  BY NumberStep
<1>4. SoundOK /\ GateInv /\ EqInv /\ [Next]_vars => EqInv'
  BY EqStep
<1> QED  BY <1>1, <1>2, <1>3, <1>4, SoundHolds, GateHolds, PTL DEF Spec

----------------------------------------------------------------------------
(* The amplifier and the binaries: a rollback has a copy to bring back.    *)
PartsOK ==
    /\ ampState \in AmpStates /\ line \in {"muted", "open"}
    /\ target \in Binaries /\ prior \in Binaries
    /\ backup \in Binaries \union {NoFile}
    /\ flash.target \in Binaries /\ flash.backup \in Binaries \union {NoFile}
    /\ upd \in {"installing", "checking", "rolling"} => backup # NoFile

LEMMA AmpWritesOK ==
  ASSUME PartsOK, AmpRests \/ AmpWrites, UpdateRests PROVE PartsOK'
<1>1. CASE AmpRests
  BY <1>1 DEF AmpRests, UpdateRests, PartsOK
<1>2. ASSUME NEW ok \in BOOLEAN, Mute(ok) PROVE PartsOK'
  BY <1>2 DEF Mute, UpdateRests, PartsOK, AmpStates
<1>3. ASSUME NEW ok \in BOOLEAN, Unmute(ok) PROVE PartsOK'
  BY <1>3 DEF Unmute, UpdateRests, PartsOK, AmpStates
<1> QED  BY <1>1, <1>2, <1>3 DEF AmpWrites

LEMMA UpdateOK == ASSUME PartsOK, Update PROVE PartsOK'
<1> USE DEF PartsOK, Binaries, ampVars, Steps, NoFile, Torn
<1>1. CASE runUpdate \/ updateFails \/ confirm
  BY <1>1 DEF runUpdate, updateFails, confirm
<1>2. CASE beginBackup \/ endBackup \/ beginRestore \/ writeback
  BY <1>2 DEF beginBackup, endBackup, beginRestore, writeback
<1>3. CASE \E b \in {"good", "broken"} : install(b)
  BY <1>3 DEF install
<1>4. ASSUME NEW ok \in BOOLEAN, endRestore(ok) PROVE PartsOK'
  BY <1>4 DEF endRestore
<1> QED  BY <1>1, <1>2, <1>3, <1>4 DEF Update

LEMMA PartsStep == PartsOK /\ [Next]_vars => PartsOK'
<1> SUFFICES ASSUME PartsOK, [Next]_vars PROVE PartsOK'  OBVIOUS
<1> USE DEF AmpRests, UpdateRests, ampVars, binaries, history
<1>1. CASE \E w \in Web : WebStep(w)
  BY <1>1, WebHealth, WebRests, AmpWritesOK
<1>2. CASE \E k \in Numbers, v \in Delays : executeSet(k, v)
  BY <1>2, AmpWritesOK DEF executeSet
<1>3. CASE emitExecuted \/ Dispatch \/ sendHeartbeat
  BY <1>3, AmpWritesOK DEF emitExecuted, Dispatch, sendHeartbeat
<1>4. CASE \E on, ok \in BOOLEAN : audioGate(on, ok)
  BY <1>4, AmpWritesOK DEF audioGate, AmpWrites
<1>5. ASSUME NEW f \in BOOLEAN, NEW p \in BOOLEAN, NEW t \in Temperatures, NEW ok \in BOOLEAN,
             poll(f, p, t, ok)
      PROVE  PartsOK'
  <2>1. /\ ampState' = readTemperature(readFlags(ampState, f, p), t) 
        /\ UNCHANGED <<upd, target, backup, flash, prior>>
    BY <1>5 DEF poll
  <2>2. line' = line \/ line' = "muted"
    BY <1>5 DEF poll, HalMute
  <2>3. ampState' \in AmpStates
    BY <2>1 DEF readTemperature, readFlags, PartsOK, AmpStates
  <2> QED  BY <2>1, <2>2, <2>3 DEF PartsOK
<1>6. CASE Update
  BY <1>6, UpdateOK
<1>7. CASE powerCut
  BY <1>7 DEF powerCut, AmpStart, HalMute, PartsOK, AmpStates
<1>8. CASE UNCHANGED vars
  BY <1>8, AmpWritesOK DEF vars
<1> QED  BY <1>1, <1>2, <1>3, <1>4, <1>5, <1>6, <1>7, <1>8 DEF Next

(* TypeOK: the settings, the profile's file, the amplifier and the two     *)
(* binaries have only the values the code writes; a rollback never copies  *)
(* a backup that was not made.                                             *)
THEOREM DeviceTypeCorrect == Spec => []TypeOK
<1>1. Init => PartsOK
  BY DEF Init, PartsOK, AmpStates, Binaries, NoFile
<1>2. PartsOK /\ [Next]_vars => PartsOK'
  BY PartsStep
<1>3. SoundOK /\ PartsOK => TypeOK
  BY DEF SoundOK, PartsOK, TypeOK, Profiles
<1> QED  BY <1>1, <1>2, <1>3, SoundHolds, PTL DEF Spec

=============================================================================
