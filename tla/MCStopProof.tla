------------------------------ MODULE MCStopProof ------------------------------
(* Instances of StopProof for TLC.                                             *)
EXTENDS StopProof
=============================================================================
