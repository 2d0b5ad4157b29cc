------------------------------- MODULE Device -------------------------------
(***************************************************************************)
(* The device side of a speaker: its settings and the DSP they drive, the  *)
(* room calibration, the amplifier's supervision and the updater, with the *)
(* threads that work on them at the same time.                             *)
(*                                                                         *)
(* Web threads set the delay (configuration first, DSP after), choose a    *)
(* profile, reset the device, calibrate the room and run the diagnostics.  *)
(* The control thread changes the configuration and reports the change on  *)
(* the event bus; the bus worker hands it to the DSP, opens and closes the *)
(* updater's gate around a calibration and raises alerts.  poll() and      *)
(* runUpdate() have no caller in the application: here an outside caller   *)
(* may call them at any time, as their tests do.                           *)
(*                                                                         *)
(* A power cut may come between any two steps and leaves the files.  What  *)
(* ConfigStore models (a lost update, an unwritten file) is left out: a    *)
(* change of the configuration is one step here.                           *)
(***************************************************************************)
EXTENDS AmplifierManager, Naturals, Sequences, FiniteSets

CONSTANTS
    Web,         \* threads of the speaker's web server
    Delays,      \* values of delay_ms and gain_db
    Default,     \* the value a factory reset gives both
    Corrections, \* the equaliser curves a calibration can find
    MaxOps,      \* bound: operations begun
    MaxFaults    \* bound: failed writes, captures and power cuts

ASSUME DeviceAssumption ==
    /\ Default \in Delays
    /\ Corrections \intersect {"none", "torn"} = {}
    /\ MaxOps \in Nat
    /\ MaxFaults \in Nat

Flat == "flat"
NoFile == "none"
Torn == "torn"
Numbers == {"delay", "gain"}   \* the settings CommandExecuted carries
Keys == Numbers \union {"eq"}

VARIABLES
    web,        \* per web thread: what it is doing, and the value it holds
    ctl,        \* the control thread, between configuration and event
    queue,      \* EventBus: events not delivered yet
    cfg,        \* ConfigManager: delay, gain and the name of the profile
    dsp,        \* DspEngine: delay, gain and equaliser in use
    profile,    \* the file of profile "room"
    tmp,        \* the temporary file it is written to
    allowed,    \* UpdateManager::updates_allowed_
    upd,        \* where runUpdate is
    target,     \* the installed binary
    backup,     \* the copy RollbackManager keeps
    flash,      \* what a power cut would leave of both
    up,         \* the device runs
    sensed,     \* history: the last poll saw a fault, protection or heat
    apart,      \* history: settings whose last change another path overlapped,
                \*   or whose path does not reach the DSP: a profile chosen by
                \*   name, a factory reset, a calibration that failed
    prior,      \* history: the binary that ran when the last update began
    overlapped, \* history: a calibration began during another one
    failed,     \* history: failures nothing made up for: of the mute line, of
                \*   a rollback, of writes a power cut lost
    ops,        \* history: operations begun
    faults      \* history: failures so far

bounds == <<ops, faults>>
history == <<sensed, apart, overlapped, failed>>
sound == <<cfg, dsp, profile, tmp>>
binaries == <<upd, target, backup, flash, prior>>
vars == <<ampVars, web, ctl, queue, sound, allowed, binaries, up, history, bounds>>

Idle == [pc |-> "idle", v |-> Flat]
Quiet == [pc |-> "idle", k |-> "delay", v |-> Default]
Event(t) == [type |-> t, k |-> "-", v |-> Default]

(* What a start brings back from the files.                                *)
applySavedProfile(c, p) == IF c.eq = "room" /\ p \in Corrections THEN p ELSE Flat
Restored(c, p) == [delay |-> c.delay, gain |-> c.gain, eq |-> applySavedProfile(c, p)]
Defaults == [delay |-> Default, gain |-> Default, eq |-> "default"]

Init ==
    /\ ampState = "Starting" /\ noHardware = FALSE /\ warned = FALSE
    /\ line = "muted" /\ powered = TRUE
    /\ web = [w \in Web |-> Idle] /\ ctl = Quiet /\ queue = <<>>
    /\ cfg = Defaults /\ profile = NoFile /\ tmp = NoFile
    /\ dsp = Restored(cfg, profile)
    /\ allowed = TRUE /\ upd = "idle" /\ target = "good" /\ backup = NoFile /\ up = TRUE
    /\ flash = [target |-> target, backup |-> backup] /\ prior = target
    /\ sensed = FALSE /\ apart = {} /\ overlapped = FALSE /\ failed = {}
    /\ ops = 0 /\ faults = 0

Begins == up /\ ops < MaxOps /\ ops' = ops + 1
Publish(e) == queue' = Append(queue, e)
Fault == faults < MaxFaults /\ faults' = faults + 1
Failing(bad) == IF bad THEN Fault ELSE UNCHANGED faults

----------------------------------------------------------------------------
(* Settings.  The web page changes the configuration and then the DSP; a   *)
(* command changes the configuration and then publishes CommandExecuted.   *)

WebDelayPending == \E w \in Web : web[w].pc = "delay"
CommandPending(k) ==
    \/ ctl.pc = "emit" /\ ctl.k = k
    \/ \E i \in DOMAIN queue : queue[i].k = k

setDelay(w, v) ==
    /\ web[w].pc = "idle" /\ Begins
    /\ cfg' = [cfg EXCEPT !.delay = v]
    /\ web' = [web EXCEPT ![w] = [pc |-> "delay", v |-> v]]
    /\ apart' = IF WebDelayPending \/ CommandPending("delay")
                THEN apart \union {"delay"} ELSE apart \ {"delay"}
    /\ UNCHANGED <<ampVars, ctl, queue, dsp, profile, tmp, allowed, binaries, up,
                   sensed, overlapped, failed, faults>>
setDelayApplies(w) ==
    /\ web[w].pc = "delay"
    /\ dsp' = [dsp EXCEPT !.delay = web[w].v]
    /\ web' = [web EXCEPT ![w] = Idle]
    /\ UNCHANGED <<ampVars, ctl, queue, cfg, profile, tmp, allowed, binaries, up, history, bounds>>

(* SET_DELAY, SET_GAIN and SET_PHASE.                                      *)
executeSet(k, v) ==
    /\ ctl.pc = "idle" /\ Begins
    /\ cfg' = [cfg EXCEPT ![k] = v]
    /\ ctl' = [pc |-> "emit", k |-> k, v |-> v]
    /\ apart' = IF k = "delay" /\ WebDelayPending THEN apart \union {k} ELSE apart \ {k}
    /\ UNCHANGED <<ampVars, web, queue, dsp, profile, tmp, allowed, binaries, up,
                   sensed, overlapped, failed, faults>>
emitExecuted ==
    /\ ctl.pc = "emit"
    /\ Publish([type |-> "CommandExecuted", k |-> ctl.k, v |-> ctl.v])
    /\ ctl' = Quiet
    /\ UNCHANGED <<ampVars, web, sound, allowed, binaries, up, history, bounds>>

(* The profile's name, from the page or a command: the DSP is not told.    *)
setEq(w, name) ==
    /\ web[w].pc = "idle" /\ Begins
    /\ cfg' = [cfg EXCEPT !.eq = name]
    /\ apart' = apart \union {"eq"}
    /\ UNCHANGED <<ampVars, web, ctl, queue, dsp, profile, tmp, allowed, binaries, up,
                   sensed, overlapped, failed, faults>>

(* resetToDefaults: the DSP keeps what it has until the next start.        *)
factoryReset(w) ==
    /\ web[w].pc = "idle" /\ Begins
    /\ cfg' = Defaults
    /\ apart' = Keys
    /\ UNCHANGED <<ampVars, web, ctl, queue, dsp, profile, tmp, allowed, binaries, up,
                   sensed, overlapped, failed, faults>>

----------------------------------------------------------------------------
(* CalibrationManager::runCalibration, on a web thread.                    *)

Calibrating(w) == web[w].pc \in {"preparing", "measuring", "saving", "renaming",
                                 "recording", "restoring", "completing"}
AnyCalibration == \E w \in Web : Calibrating(w)

runCalibration(w) ==
    /\ web[w].pc = "idle" /\ Begins
    /\ Publish(Event("CalibrationStarted"))
    /\ web' = [web EXCEPT ![w] = [pc |-> "preparing", v |-> Flat]]
    /\ overlapped' = AnyCalibration
    /\ apart' = IF AnyCalibration THEN apart \union {"eq"} ELSE apart
    /\ UNCHANGED <<ampVars, ctl, sound, allowed, binaries, up, sensed, failed, faults>>
prepare(w, ok) ==
    /\ web[w].pc = "preparing"
    /\ Mute(ok) /\ Failing(~ok)
    /\ web' = [web EXCEPT ![w].pc = "measuring"]
    /\ UNCHANGED <<ctl, queue, sound, allowed, binaries, up, history, ops>>

(* fail: the event first, then playback again; what the DSP was given      *)
(* stays there.                                                            *)
calibrationFailsSilently(w) ==
    /\ web[w].pc \in {"measuring", "saving", "renaming"}
    /\ Fault
    /\ tmp' \in IF web[w].pc = "measuring" THEN {tmp}
               ELSE IF web[w].pc = "saving" THEN {tmp, NoFile} ELSE {NoFile}
    /\ apart' = IF web[w].pc = "measuring" THEN apart ELSE apart \union {"eq"}
    /\ web' = [web EXCEPT ![w].pc = "failing"]
    /\ UNCHANGED <<ampVars, ctl, queue, cfg, dsp, profile, allowed, binaries, up,
                   sensed, overlapped, failed, ops>>
calibrationFails(w) ==
    /\ web[w].pc \in {"measuring", "saving", "renaming"}
    /\ Fault
    /\ tmp' \in IF web[w].pc = "measuring" THEN {tmp}
               ELSE IF web[w].pc = "saving" THEN {tmp, NoFile} ELSE {NoFile}
    /\ Publish(Event("CalibrationFailed"))
    /\ apart' = IF web[w].pc = "measuring" THEN apart ELSE apart \union {"eq"}
    /\ web' = [web EXCEPT ![w].pc = "failing"]
    /\ UNCHANGED <<ampVars, ctl, cfg, dsp, profile, allowed, binaries, up, sensed, overlapped, failed, ops>>
restorePlayback(w, ok) ==
    /\ web[w].pc \in {"restoring", "failing"}
    /\ Unmute(ok) /\ Failing(~ok)
    /\ web' = [web EXCEPT ![w] = IF @.pc = "failing" THEN Idle ELSE [@ EXCEPT !.pc = "completing"]]
    /\ UNCHANGED <<ctl, queue, sound, allowed, binaries, up, history, ops>>

(* The capture, the analysis and the correction given to the DSP.          *)
measureRoom(w, c) ==
    /\ web[w].pc = "measuring"
    /\ dsp' = [dsp EXCEPT !.eq = c]
    /\ web' = [web EXCEPT ![w] = [pc |-> "saving", v |-> c]]
    /\ UNCHANGED <<ampVars, ctl, queue, cfg, profile, tmp, allowed, binaries, up, history, bounds>>

(* CalibrationProfiles::save: the temporary file, then its rename; two     *)
(* calibrations write the same temporary file.                             *)
saveProfile(w) ==
    /\ web[w].pc = "saving"
    /\ tmp' \in {web[w].v} \union IF \E x \in Web \ {w} : web[x].pc = "renaming" THEN {Torn} ELSE {}
    /\ web' = [web EXCEPT ![w].pc = "renaming"]
    /\ UNCHANGED <<ampVars, ctl, queue, cfg, dsp, profile, allowed, binaries, up, history, bounds>>
renameProfile(w) ==
    /\ web[w].pc = "renaming" /\ tmp # NoFile
    /\ profile' = tmp
    /\ tmp' = NoFile
    /\ web' = [web EXCEPT ![w].pc = "recording"]
    /\ UNCHANGED <<ampVars, ctl, queue, cfg, dsp, allowed, binaries, up, history, bounds>>
(* The other calibration has renamed the file away.                        *)
renameFails(w) ==
    /\ web[w].pc = "renaming" /\ tmp = NoFile
    /\ Publish(Event("CalibrationFailed"))
    /\ web' = [web EXCEPT ![w].pc = "failing"]
    /\ UNCHANGED <<ampVars, ctl, sound, allowed, binaries, up, history, bounds>>

(* config_->update, whose result is not looked at.                         *)
recordProfile(w, ok) ==
    /\ web[w].pc = "recording"
    /\ Failing(~ok)
    /\ cfg' = IF ok THEN [cfg EXCEPT !.eq = "room"] ELSE cfg
    /\ apart' = IF ok /\ ~overlapped THEN apart \ {"eq"} ELSE apart \union {"eq"}
    /\ web' = [web EXCEPT ![w].pc = "restoring"]
    /\ UNCHANGED <<ampVars, ctl, queue, dsp, profile, tmp, allowed, binaries, up,
                   sensed, overlapped, failed, ops>>
calibrationCompletes(w) ==
    /\ web[w].pc = "completing"
    /\ Publish(Event("CalibrationCompleted"))
    /\ web' = [web EXCEPT ![w] = Idle]
    /\ UNCHANGED <<ampVars, ctl, sound, allowed, binaries, up, history, bounds>>

(* ctx.health: the diagnostics run a self-test of the microphone.          *)
selfTest(heard) == IF heard THEN UNCHANGED queue ELSE Publish(Event("MicFailure"))
runDiagnostics(w, heard) ==
    /\ web[w].pc = "idle" /\ Begins
    /\ Failing(~heard)
    /\ selfTest(heard)
    /\ UNCHANGED <<ampVars, web, ctl, sound, allowed, binaries, up, history>>

----------------------------------------------------------------------------
(* The bus worker.                                                         *)

Alerts == {"MicFailure", "AmplifierFault", "AmplifierProtection", "AmplifierOverheat",
           "TempWarning", "UpdateFailed"}

gateUpdates(e) ==
    CASE e.type = "CalibrationStarted" -> FALSE
      [] e.type \in {"CalibrationCompleted", "CalibrationFailed"} -> TRUE
      [] OTHER -> allowed
pushToDspDelay(e) == IF e.k = "delay" THEN [dsp EXCEPT ![e.k] = e.v] ELSE dsp
pushToDsp(e) == IF e.k \in Numbers THEN [dsp EXCEPT ![e.k] = e.v] ELSE dsp

(* StatusService::onEvent: an alert goes out as a CommandExecuted that     *)
(* carries no setting.                                                     *)
raiseAlert(e) == IF e.type \in Alerts THEN <<Event("CommandExecuted")>> ELSE <<>>

Dispatch ==
    /\ queue # <<>>
    /\ LET e == Head(queue) IN
       /\ allowed' = gateUpdates(e)
       /\ dsp' = pushToDsp(e)
       /\ queue' = Tail(queue) \o raiseAlert(e)
    /\ UNCHANGED <<ampVars, web, ctl, cfg, profile, tmp, binaries, up, history, bounds>>

(* StatusService's own thread: the heartbeat is a CommandExecuted, too,    *)
(* and carries none of the settings that go to the DSP.                    *)
sendHeartbeat ==
    /\ Begins
    /\ Publish(Event("CommandExecuted"))
    /\ UNCHANGED <<ampVars, web, ctl, sound, allowed, binaries, up, history, faults>>

(* The gate of playback, on the bus worker's AudioStarted and AudioStopped.*)
audioGate(on, ok) ==
    /\ Begins
    /\ Failing(~ok)
    /\ IF on THEN Unmute(ok) ELSE Mute(ok)
    /\ UNCHANGED <<web, ctl, queue, sound, allowed, binaries, up, history>>

----------------------------------------------------------------------------
(* AmplifierManager::poll.                                                 *)

Temperatures == {"cool", "warm", "hot", "unread"}

readFlags(s, f, p) ==
    IF f /\ s # "Fault" THEN "Fault"
    ELSE IF p /\ s \notin {"Protection", "Fault"} THEN "Protection"
    ELSE s
readTemperatureClears(s, t) ==
    IF t = "hot" THEN "Overheated" ELSE IF t = "cool" /\ s \in Unhealthy THEN "Muted" ELSE s
readTemperature(s, t) ==
    IF t = "hot" THEN "Overheated" ELSE IF t = "cool" /\ s = "Overheated" THEN "Muted" ELSE s

(* The write of the mute line is not looked at: a failure leaves it open.  *)
poll(f, p, t, ok) ==
    LET s == readFlags(ampState, f, p)
        muting == s # ampState \/ (t = "hot" /\ s # "Overheated")
        told == (IF s = ampState THEN <<>>
                 ELSE <<Event(IF s = "Fault" THEN "AmplifierFault" ELSE "AmplifierProtection")>>)
                \o (IF t = "hot" /\ s # "Overheated" THEN <<Event("AmplifierOverheat")>>
                    ELSE IF t = "warm" /\ ~warned THEN <<Event("TempWarning")>> ELSE <<>>)
    IN
    /\ Begins
    /\ Failing(~ok)
    /\ muting \/ ok
    /\ ampState' = readTemperature(s, t)
    /\ warned' = CASE t = "warm" -> TRUE [] t = "cool" -> FALSE [] OTHER -> warned
    /\ IF muting THEN HalMute("muted", ok) ELSE UNCHANGED line
    /\ queue' = queue \o told
    /\ sensed' = (f \/ p \/ t = "hot")
    /\ failed' = IF ok THEN failed ELSE failed \union {"line"}
    /\ UNCHANGED <<noHardware, powered, web, ctl, sound, allowed, binaries, up,
                   apart, overlapped>>

----------------------------------------------------------------------------
(* UpdateManager::runUpdate.                                               *)

Steps(from, to) == up /\ upd = from /\ upd' = to

runUpdate ==
    /\ upd = "idle" /\ allowed /\ Begins
    /\ Publish(Event("UpdateStarted"))
    /\ upd' = "fetching"
    /\ prior' = target
    /\ failed' = failed \intersect {"line"}
    /\ UNCHANGED <<ampVars, web, ctl, sound, allowed, target, backup, flash, up,
                   sensed, apart, overlapped, faults>>

(* A package that cannot be fetched, whose hash or signature is wrong, or  *)
(* that wants newer hardware; and every later step that fails.             *)
updateFails ==
    /\ \/ Steps("fetching", "idle") /\ UNCHANGED faults
       \/ (Steps("copying", "idle") \/ Steps("installing", "idle")) /\ Fault
    /\ Publish(Event("UpdateFailed"))
    /\ UNCHANGED <<ampVars, web, ctl, sound, allowed, target, backup, flash, prior, up, history,
                   ops>>

(* RollbackManager::backup copies over the old copy.                       *)
skipBackup ==
    /\ Steps("fetching", "installing")
    /\ UNCHANGED <<ampVars, web, ctl, queue, sound, allowed, target, backup, flash, prior, up,
                   history, bounds>>
beginBackup ==
    /\ Steps("fetching", "copying")
    /\ backup' = Torn
    /\ UNCHANGED <<ampVars, web, ctl, queue, sound, allowed, target, flash, prior, up, history,
                   bounds>>
endBackup ==
    /\ Steps("copying", "installing")
    /\ backup' = target
    /\ UNCHANGED <<ampVars, web, ctl, queue, sound, allowed, target, flash, prior, up, history,
                   bounds>>

(* Installer::install writes beside the target and renames.                *)
install(b) ==
    /\ Steps("installing", "checking")
    /\ target' = b
    /\ UNCHANGED <<ampVars, web, ctl, queue, sound, allowed, backup, flash, prior, up, history,
                   bounds>>

(* The health check is the caller's, if there is one: it may pass a binary *)
(* that does not start, and without one (as in the application) all pass.  *)
confirm ==
    /\ Steps("checking", "idle")
    /\ Publish(Event("UpdateCompleted"))
    /\ UNCHANGED <<ampVars, web, ctl, sound, allowed, target, backup, flash, prior, up, history,
                   bounds>>

(* RollbackManager::restore copies over the target, in place.              *)
beginRestore ==
    /\ Steps("checking", "rolling")
    /\ Publish(Event("RollbackTriggered"))
    /\ target' = Torn
    /\ UNCHANGED <<ampVars, web, ctl, sound, allowed, backup, flash, prior, up, history, bounds>>
endRestore(ok) ==
    /\ Steps("rolling", "idle")
    /\ Failing(~ok)
    /\ target' = IF ok THEN backup ELSE target
    /\ failed' = IF ok THEN failed ELSE failed \union {"rollback"}
    /\ Publish(Event("UpdateFailed"))
    /\ UNCHANGED <<ampVars, web, ctl, sound, allowed, backup, flash, prior, up, sensed, apart,
                   overlapped, ops>>

(* The kernel writes back when it likes: neither copy is synced, nor is    *)
(* the directory after the install's rename (its data are).                *)
writeback ==
    /\ flash' = [target |-> target, backup |-> backup]
    /\ flash' # flash
    /\ UNCHANGED <<ampVars, web, ctl, queue, sound, allowed, upd, target, backup, prior, up,
                   history, bounds>>

----------------------------------------------------------------------------
(* A power cut, and the start after it if the binary is one that starts.   *)
(* Of each of the two files it leaves what was last written or what was    *)
(* last written back.                                                      *)
powerCut ==
    /\ up /\ Fault
    /\ target' \in {target, flash.target}
    /\ backup' \in {backup, flash.backup}
    /\ flash' = [target |-> target', backup |-> backup']
    /\ failed' = IF target' = target /\ backup' = backup THEN failed
                 ELSE failed \union {"unsynced"}
    /\ up' = (target' = "good")
    /\ AmpStart(TRUE, TRUE)
    /\ web' = [w \in Web |-> Idle] /\ ctl' = Quiet /\ queue' = <<>>
    /\ dsp' = Restored(cfg, profile)
    /\ allowed' = TRUE
    /\ upd' = "idle"
    /\ sensed' = FALSE /\ apart' = {} /\ overlapped' = FALSE
    /\ UNCHANGED <<cfg, profile, tmp, prior, ops>>

WebStep(w) ==
    \/ \E v \in Delays : setDelay(w, v)
    \/ setDelayApplies(w)
    \/ \E name \in {"default", "room"} : setEq(w, name)
    \/ factoryReset(w)
    \/ runCalibration(w)
    \/ \E ok \in BOOLEAN : prepare(w, ok)
    \/ calibrationFails(w)
    \/ \E c \in Corrections : measureRoom(w, c)
    \/ saveProfile(w)
    \/ renameProfile(w)
    \/ renameFails(w)
    \/ \E ok \in BOOLEAN : recordProfile(w, ok)
    \/ \E ok \in BOOLEAN : restorePlayback(w, ok)
    \/ calibrationCompletes(w)
    \/ \E heard \in BOOLEAN : runDiagnostics(w, heard)

Update ==
    \/ runUpdate \/ updateFails \/ beginBackup \/ endBackup
    \/ \E b \in {"good", "broken"} : install(b)
    \/ confirm \/ beginRestore \/ writeback
    \/ \E ok \in BOOLEAN : endRestore(ok)

Next ==
    \/ \E w \in Web : WebStep(w)
    \/ \E k \in Numbers, v \in Delays : executeSet(k, v)
    \/ emitExecuted
    \/ Dispatch
    \/ sendHeartbeat
    \/ \E on, ok \in BOOLEAN : audioGate(on, ok)
    \/ \E f, p, ok \in BOOLEAN, t \in Temperatures : poll(f, p, t, ok)
    \/ Update
    \/ powerCut

Spec == Init /\ [][Next]_vars

----------------------------------------------------------------------------
Binaries == {"good", "broken", Torn}

TypeOK ==
    /\ ampState \in AmpStates /\ line \in {"muted", "open"}
    /\ cfg \in [delay : Delays, gain : Delays, eq : {"default", "room"}]
    /\ dsp \in [delay : Delays, gain : Delays, eq : Corrections \union {Flat}]
    /\ {profile, tmp} \subseteq Corrections \union {NoFile, Torn}
    /\ target \in Binaries /\ prior \in Binaries /\ flash.target \in Binaries
    /\ {backup, flash.backup} \subseteq Binaries \union {NoFile}

(* Once the threads and the bus are at rest, the DSP runs what a restart   *)
(* would bring back of every setting but the ones in apart.  So a delay or *)
(* a gain that came by command, and a delay from the page, has reached the *)
(* DSP unless the other path set it at the same time or a factory reset    *)
(* came after; and the last calibration is in use and on the disk unless   *)
(* another overlapped it, it failed once it had changed the DSP, or a      *)
(* profile was chosen by name or a factory reset came after.               *)
Settled == queue = <<>> /\ ctl = Quiet /\ \A w \in Web : web[w] = Idle
DspInStep ==
    Settled => \A k \in Keys \ apart : dsp[k] = Restored(cfg, profile)[k]

(* When the bus has delivered everything, updates are refused exactly      *)
(* while a calibration is running, however it ends; two at a time leave    *)
(* the gate open when the first one ends, never closed for good.           *)
GateFollowsCalibration ==
    (\A i \in DOMAIN queue : queue[i].type \notin
        {"CalibrationStarted", "CalibrationCompleted", "CalibrationFailed"})
    => /\ ~AnyCalibration => allowed
       /\ AnyCalibration /\ ~overlapped => ~allowed

(* After a poll that saw a fault, the protection or the shutdown           *)
(* temperature the output stays muted until a later poll sees none of      *)
(* them: neither playback nor the end of a calibration opens it.           *)
OpenOnlyWhenHealthy ==
    sensed /\ "line" \notin failed => line = "muted"

(* The binary the device ran when the last update began is still there,    *)
(* whole, in place or as the copy: whatever step of the update fails, its  *)
(* health check says or the power interrupts, unless the rollback failed   *)
(* or the power cut lost writes that had not reached the disk.             *)
PreviousKept ==
    failed \subseteq {"line"} => prior \in {target, backup}

(* RollbackManager.h:9: "Keeps a backup of the current binary so a failed  *)
(* update can be rolled back": one of the two is whole and starts.         *)
AlwaysRecoverable == "good" \in {target, backup}

(* Application.cpp:328-330: "Driving it off CommandExecuted keeps the DSP  *)
(* in step with config for every future setting too, instead of relying on *)
(* each call site to remember": with nothing in progress, every setting,   *)
(* unless a factory reset (which sends no command) put all of them apart.  *)
DspKeptInStep ==
    Settled /\ apart # Keys => \A k \in Keys : dsp[k] = Restored(cfg, profile)[k]
=============================================================================
