----------------------------- MODULE MCPlayback -----------------------------
(* One speaker's jitter buffer on a scale of a few packets. *)
EXTENDS Playback
=============================================================================
