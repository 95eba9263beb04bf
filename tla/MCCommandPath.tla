----------------------------- MODULE MCCommandPath -----------------------------
(* The environments of MCHostLoops, the requests of MCTxScheduler, and a bus  *)
(* of either program.                                                         *)
EXTENDS CommandPath, MCHostLoops, MCTxScheduler
=============================================================================
