---------------------------- MODULE ConfigRegister ----------------------------
(***************************************************************************)
(* What the rest of the firmware may rely on in ConfigManager, and what    *)
(* ConfigStore is shown to implement when its callers take turns: a        *)
(* configuration that is changed field by field or reset, each change      *)
(* entirely or not at all, which a power cut takes back only before it is  *)
(* acknowledged.  Files, descriptors and caches do not appear.             *)
(***************************************************************************)
CONSTANTS
  Fields,  \* the parts of a configuration one change replaces
  Values   \* of a field; 0 is the default

VARIABLES
  running,  \* the configuration in force, in a set that is empty while there is none
  outcomes, \* the configurations a boot might find if the power went now
  sound     \* the medium has kept what the program entrusted to it

registerVars == <<running, outcomes, sound>>

Factory == [f \in Fields |-> 0]

\* What one update() or resetToDefaults() makes of a configuration.
Changes(c) == {Factory} \union {[c EXCEPT ![f] = v] : f \in Fields, v \in Values}

RegisterInit == running = {} /\ outcomes = {Factory} /\ sound = TRUE

\* A change of the configuration in force may survive from here on,
Offer ==
  /\ \E c \in running : outcomes = {c} /\ \E d \in Changes(c) : outcomes' = {c, d}
  /\ UNCHANGED <<running, sound>>

\* ... will survive,
Settle ==
  /\ running \subseteq outcomes /\ outcomes \ running # {} /\ running # {}
  /\ outcomes' = outcomes \ running
  /\ UNCHANGED <<running, sound>>

\* ... and is acknowledged: only now does anybody run with it.
Acknowledge ==
  /\ running # {} /\ \E d \in outcomes : outcomes = {d} /\ running' = {d}
  /\ UNCHANGED <<outcomes, sound>>

PowerCut ==
  /\ running' = {} /\ \E d \in outcomes : outcomes' = {d}
  /\ UNCHANGED sound

Boot ==
  /\ running = {} /\ \E d \in outcomes : outcomes = {d} /\ running' = {d}
  /\ UNCHANGED <<outcomes, sound>>

\* Nothing is promised once the medium has failed.
Damaged == ~sound'

RegisterNext == Offer \/ Settle \/ Acknowledge \/ PowerCut \/ Boot \/ Damaged

RegisterSpec == RegisterInit /\ [][RegisterNext]_registerVars
=============================================================================
