---------------------------- MODULE StateMachine ----------------------------
(***************************************************************************)
(* The speaker's lifecycle table (src/system/StateMachine.cpp): the        *)
(* fourteen states and the edges between them.  The table is data; the     *)
(* state itself and the thread that moves it live in module Speaker.       *)
(***************************************************************************)

SystemStates ==
  { "Booting", "Unconfigured", "SetupMode", "ConnectingNetwork",
    "SearchingStreamer", "Authenticating", "Online", "Playing", "Calibrating",
    "Updating", "Degraded", "Offline", "Error", "ShuttingDown" }

\* The edges of the normal flow, beyond the ones every state has.
Table ==
  [ s \in SystemStates |->
      CASE s = "Booting"           -> {"Unconfigured", "ConnectingNetwork"}
        [] s = "Unconfigured"      -> {"SetupMode"}
        [] s = "SetupMode"         -> {"ConnectingNetwork", "Unconfigured"}
        [] s = "ConnectingNetwork" -> {"SearchingStreamer", "Offline", "SetupMode"}
        [] s = "SearchingStreamer" -> {"Authenticating", "Online", "Offline",
                                       "ConnectingNetwork"}
        [] s = "Authenticating"    -> {"Online", "SearchingStreamer", "Offline"}
        [] s = "Online"            -> {"Playing", "Calibrating", "Updating",
                                       "Degraded", "Offline"}
        [] s = "Playing"           -> {"Online", "Calibrating", "Degraded", "Offline"}
        [] s = "Calibrating"       -> {"Online", "Playing", "Degraded"}
        [] s = "Updating"          -> {"Online"}
        [] s = "Degraded"          -> {"Online", "Offline"}
        [] s = "Offline"           -> {"ConnectingNetwork", "SearchingStreamer",
                                       "Degraded"}
        [] s = "Error"             -> {"Booting", "Degraded"}
        [] s = "ShuttingDown"      -> {} ]

\* Mutant: a fault may degrade the system from every state.
legalTransitionLoose(from, to) ==
  \/ to = "ShuttingDown"
  \/ to \in {"Error", "Degraded"} /\ from # "ShuttingDown"
  \/ from = to
  \/ to \in Table[from]

\* Shutdown is always legal, the fault path is legal until shutdown, and a
\* state may name itself.
legalTransition(from, to) ==
  \/ to = "ShuttingDown"
  \/ to = "Error" /\ from # "ShuttingDown"
  \/ from = to
  \/ to \in Table[from]

\* transitionTo on a machine in state s: an illegal request leaves it alone.
After(s, to) == IF legalTransition(s, to) THEN to ELSE s
=============================================================================
