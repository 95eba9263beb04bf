------------------------------- MODULE Exchange -------------------------------
(***************************************************************************)
(* What a bus promises to the timeliner which uses it                      *)
(* (src/inc/hal/MapleBus/MapleBusInterface.hpp): one exchange at a time,   *)
(* each with exactly one end, of a kind that fits what was asked for.      *)
(***************************************************************************)

CONSTANT Ends   \* the phases with which processEvents() reports an end

VARIABLES
  state,      \* "idle", "running", or the end which is being reported
  expecting,  \* an answer is expected
  answered    \* all of an answer has been received

vars == <<state, expecting, answered>>

Init ==
  /\ state = "idle"
  /\ expecting = FALSE
  /\ answered = FALSE

Start ==
  /\ state = "idle"
  /\ state' = "running"
  /\ expecting' \in BOOLEAN
  /\ answered' = FALSE

Answer ==
  /\ state = "running" /\ expecting
  /\ answered' = TRUE
  /\ UNCHANGED <<state, expecting>>

\* A packet that was sent is the end if no answer is expected; an answer is one
\* only when all of it was received after this exchange was started.
End(e) ==
  /\ state = "running"
  /\ e \in {"READ_COMPLETE", "READ_FAILED"} => expecting
  /\ e = "WRITE_COMPLETE" => ~ expecting
  /\ e = "READ_COMPLETE" => answered
  /\ state' = e
  /\ UNCHANGED <<expecting, answered>>

Report ==
  /\ state \in Ends
  /\ state' = "idle"
  /\ UNCHANGED <<expecting, answered>>

Next == Start \/ Answer \/ (\E e \in Ends : End(e)) \/ Report

Step == [Next]_vars

Spec == Init /\ [][Next]_vars

Fairness == WF_vars(\E e \in Ends : End(e)) /\ WF_vars(Report)

FairSpec == Spec /\ Fairness
=============================================================================
