---------------------------- MODULE MCAudioEngine ----------------------------
(* The streamer's sender with a handful of blocks and requests. *)
EXTENDS AudioEngine
=============================================================================
