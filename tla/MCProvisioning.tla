---------------------------- MODULE MCProvisioning ----------------------------
(* Onboarding with two callers of connectWifi. *)
EXTENDS Provisioning
=============================================================================
