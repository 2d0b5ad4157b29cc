--------------------------- MODULE SenderContract ---------------------------
(***************************************************************************)
(* What a speaker may rely on in the datagrams of a streamer, and what     *)
(* AudioEngine is shown to implement: numbers without a gap in the order   *)
(* they are sent, timestamps that never go back and are never further      *)
(* ahead of the clock than the lead.  They may be in the past.             *)
(*                                                                         *)
(* Time is counted in audio blocks (480 frames, 10 ms); NTP keeps the      *)
(* clocks of both sides equal.                                             *)
(***************************************************************************)
EXTENDS Naturals

CONSTANTS
  Lead,    \* lead_seconds, in blocks
  MaxNow   \* bound: the clock stops here

ASSUME SenderConstants == Lead \in Nat /\ MaxNow \in Nat

VARIABLES
  now,    \* epoch time
  net,    \* datagrams on the way
  sent,   \* how many were sent: the next sequence number
  latest  \* the last timestamp sent

senderVars == <<now, net, sent, latest>>

\* The header packPacket encodes and unpackPacket decodes.  Samples are left
\* out, and the flag of the last packet only matters to AudioReceiver's stream
\* edges, which module Speaker has.
Packet(ts, n) == [timestamp |-> ts, sequence |-> n]
Packets == [timestamp : Nat, sequence : Nat]

SenderInit == now = 0 /\ net = {} /\ sent = 0 /\ latest = 0

Tick == now < MaxNow /\ now' = now + 1 /\ UNCHANGED <<net, sent, latest>>

Emit ==
  /\ \E ts \in latest..(now + Lead) :
       net' = net \union {Packet(ts, sent)} /\ latest' = ts
  /\ sent' = sent + 1
  /\ UNCHANGED now

SenderSpec == SenderInit /\ [][Tick \/ Emit]_senderVars
=============================================================================
