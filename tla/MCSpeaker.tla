------------------------------ MODULE MCSpeaker ------------------------------
(* The speaker process with one queued event per publisher at a time. *)
EXTENDS Speaker
=============================================================================
