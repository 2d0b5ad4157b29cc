---- MODULE MCStreamer ----
(* Instances of Streamer for TLC: a site at its first start, and one with  *)
(* two registered speakers and two zones.                                  *)
EXTENDS Streamer
CONSTANTS d1, d2
FirstRun == [reg |-> [d \in Devices |-> "absent"], zones |-> <<>>, dsp |-> Flat]
Installed == [reg |-> [d \in Devices |-> "addressed"],
              zones |-> <<[id |-> 1, members |-> {d1}], [id |-> 3, members |-> {}]>>,
              dsp |-> Flat]
TwoSites == {FirstRun, Installed}
====
