--------------------------- MODULE MCMediaOperations ---------------------------
(* Instances of MediaOperations for TLC: one row of each kind, one at a time.      *)
EXTENDS MediaOperations

CONSTANTS edit, export, bulk, cloud, batch
=============================================================================
