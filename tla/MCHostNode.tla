------------------------------ MODULE MCHostNode ------------------------------
(* Instances of HostNode for TLC. *)
EXTENDS HostNode
=============================================================================
