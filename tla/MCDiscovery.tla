----------------------------- MODULE MCDiscovery ----------------------------
(* One other speaker on the network, a subnet of four addresses and two    *)
(* scanning threads, a daemon that changes its state three times.          *)
EXTENDS Discovery
=============================================================================
