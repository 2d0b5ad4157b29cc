-------------------------- MODULE AmplifierManager --------------------------
(***************************************************************************)
(* The power amplifier (src/amplifier/AmplifierManager.cpp).  Every        *)
(* operation holds mutex_ for its whole body, so each is one action.  The  *)
(* GPIO lines behind IAmplifierHal are the variables line and powered; a   *)
(* write to a line succeeds or fails as the parameter ok says.  poll(),    *)
(* which nothing in the application calls, is in module Device; the states *)
(* only poll() enters are here for the guards that test them.              *)
(***************************************************************************)

VARIABLES
  ampState,     \* amp_state_
  noHardware,   \* no_hardware_: no controllable amplifier, every call a no-op
  warned,       \* warned_: the temperature warning has been sent
  line,         \* the mute GPIO: "muted" or "open"
  powered       \* the enable GPIO

ampVars == <<ampState, noHardware, warned, line, powered>>

AmpStates == {"Off", "Starting", "Ready", "Muted", "Protection", "Overheated", "Fault"}
Unhealthy == {"Fault", "Overheated", "Protection"}

AmpInit ==
  /\ ampState = "Off" /\ noHardware = FALSE /\ warned = FALSE
  /\ line = "muted" /\ powered = FALSE

\* hal_->mute(on): a failed write leaves the line where it was.
HalMute(l, ok) == line' = IF ok THEN l ELSE line

\* start(): power on muted; without a GPIO chip run in DAC-direct mode.
AmpStart(found, ok) ==
  /\ noHardware' = ~found
  /\ ampState' = IF found THEN "Starting" ELSE "Ready"
  /\ powered' = found
  /\ IF found THEN HalMute("muted", ok) ELSE UNCHANGED line
  /\ UNCHANGED warned

\* stop(): mute, then power off (powerOff drives the mute line again).
AmpStop ==
  /\ ampState' = "Off"
  /\ line' = IF noHardware THEN line ELSE "muted"
  /\ powered' = FALSE
  /\ UNCHANGED <<noHardware, warned>>

Unmute(ok) ==
  LET refused == noHardware \/ ampState \in Unhealthy \/ ~ok
  IN /\ line' = IF refused THEN line ELSE "open"
     /\ ampState' = IF refused THEN ampState ELSE "Ready"
     /\ UNCHANGED <<noHardware, warned, powered>>

Mute(ok) ==
  LET refused == noHardware \/ ~ok
  IN /\ line' = IF refused THEN line ELSE "muted"
     /\ ampState' = IF ~refused /\ ampState \in {"Ready", "Starting"}
                    THEN "Muted" ELSE ampState
     /\ UNCHANGED <<noHardware, warned, powered>>
=============================================================================
