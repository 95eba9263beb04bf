------------------------------ MODULE HostCores ------------------------------
(***************************************************************************)
(* The two cores of the host: main() and core1() of host_main.cpp.         *)
(* Each core serves its tasks in a loop.  Which task is next is left open, *)
(* so that a run covers the order of the code and every other one; what a  *)
(* task may find half done on the other core is kept: pc[c] names the      *)
(* place at which core c stands, and "idle" is the loop between two tasks. *)
(***************************************************************************)
EXTENDS Naturals

CONSTANT Environments  \* what the user and the USB host may do, see below

VARIABLES
  environment,  \* the member of Environments this behaviour is of
  pc            \* where each core stands

Core0 == "core0"
Core1 == "core1"
Cores == {Core0, Core1}

Other(c) == IF c = Core0 THEN Core1 ELSE Core0

Idle(c) == pc[c] = "idle"

At(c, place) == pc[c] = place

Goes(c, place) == pc' = [pc EXCEPT ![c] = place]

(* Leaving one place for another *)
Step(c, from, to) == At(c, from) /\ Goes(c, to)

-----------------------------------------------------------------------------
(* LockGuard.hpp: the guard waits while the other core owns the mutex, and *)
(* goes on without it when its own core does.                              *)

Unowned == "nobody"
Owners == Cores \cup {Unowned}

MayEnter(mutex, c) == mutex # Other(c)
=============================================================================
