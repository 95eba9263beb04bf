------------------------------ MODULE MCMapleBus ------------------------------
(* Instances of MapleBus for TLC. *)
EXTENDS MapleBus
=============================================================================
