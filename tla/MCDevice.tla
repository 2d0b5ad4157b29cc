------------------------------ MODULE MCDevice ------------------------------
(* TLC instance of Device.  Web threads and curves are interchangeable.    *)
EXTENDS Device, TLC

Symmetric == Permutations(Web) \union Permutations(Corrections)
=============================================================================
