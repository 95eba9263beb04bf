------------------------------ MODULE CommandPath ------------------------------
(***************************************************************************)
(* The way of a command through the host: the streams it comes in by, the  *)
(* schedule of the transmissions it leads to, and the bus they go out on.  *)
(* The schedule is used by any caller at any time and the bus asked for    *)
(* any exchange whenever it is free, so that every behaviour of all of     *)
(* them together is one of each; part says which one runs, and the others  *)
(* rest.                                                                   *)
(***************************************************************************)
EXTENDS HostLoops, TxScheduler, MapleBus

CONSTANT Parts

VARIABLE part

pathVars == <<part, environment, loopVars, schedulerVars, busVars>>

PathInit ==
  /\ part \in Parts
  /\ LoopsInit /\ SchedulerInit /\ BusInit
  /\ part # "loops" => environment = CHOOSE e \in Environments : TRUE
  /\ part # "bus" => side = CHOOSE s \in Sides : TRUE

LoopsPart(A) == part = "loops" /\ A /\ UNCHANGED <<part, schedulerVars, busVars>>
SchedulerPart(A) ==
  part = "scheduler" /\ A /\ UNCHANGED <<part, environment, loopVars, busVars>>
BusPart(A) ==
  part = "bus" /\ A /\ UNCHANGED <<part, environment, loopVars, schedulerVars>>

PathNext ==
  \/ LoopsPart(LoopsNext)
  \/ SchedulerPart(SchedulerNext)
  \/ BusPart(BusNext)

\* Fairness to the part which runs, as in LoopsFairness and BusFairness.  As part never
\* changes, to be fair to a disjunction with one disjunct for each part is to be fair to
\* that of the part.  Nothing has to happen to the schedule.
PathFairness ==
  /\ WF_pathVars(\/ LoopsPart(~corrupt /\ SerialCore0 /\ UNCHANGED <<environment, webVars>>)
                 \/ BusPart(Isr))
  /\ WF_pathVars(\/ LoopsPart(~corrupt /\ SerialCore1 /\ UNCHANGED <<environment, webVars>>)
                 \/ BusPart(Loop))
  /\ WF_pathVars(LoopsPart(HandledWithEffect /\ UNCHANGED environment))
  /\ WF_pathVars(LoopsPart(WebCore0 /\ UNCHANGED <<environment, serialVars>>))
  /\ WF_pathVars(LoopsPart(WebCore1 /\ UNCHANGED <<environment, serialVars>>))
  /\ SF_pathVars(BusPart(Ending))

PathSpec == PathInit /\ [][PathNext]_pathVars /\ PathFairness
=============================================================================
