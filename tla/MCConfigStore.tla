---------------------------- MODULE MCConfigStore ----------------------------
(* The configuration store on a disk with a handful of inodes. *)
EXTENDS ConfigStore
=============================================================================
