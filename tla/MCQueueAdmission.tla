-------------------------- MODULE MCQueueAdmission --------------------------
(* Instances of QueueAdmission for TLC. *)
EXTENDS QueueAdmission
=============================================================================
