----------------------------- MODULE MCCommands -----------------------------
(* TLC instance of Commands: one web user, one client beside the gateway,  *)
(* the monitor and the reporter; a history of one entry, one setting that  *)
(* the executor clamps, two failures.                                      *)
EXTENDS Commands
=============================================================================
