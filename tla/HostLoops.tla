------------------------------- MODULE HostLoops -------------------------------
(***************************************************************************)
(* The loops of the two cores with the two streams of commands they share: *)
(* main() and core1() of host_main.cpp.  A core does one thing at a time,  *)
(* except that the USB task runs while core 0 prints.  Commands of both    *)
(* streams act on the same nodes and screens.                              *)
(*                                                                         *)
(* environment.meaning  what the serial commands mean: a function of some  *)
(*                      lines to commands as CommandHandlers knows them    *)
(***************************************************************************)
EXTENDS SerialStream, WebUsbStream

loopVars == <<pc, serialVars, webVars>>

ASSUME MeaningAssumption ==
  \A e \in Environments : \A line \in DOMAIN e.meaning :
    e.meaning[line].family \in {"flycast", "maple", "system"}

LoopsInit ==
  /\ environment \in Environments
  /\ pc = [c \in Cores |-> "idle"]
  /\ SerialInit /\ WebInit

Meaning(line) ==
  IF line \in DOMAIN environment.meaning THEN environment.meaning[line]
  ELSE [family |-> "system", kind |-> "unknown", player |-> NoPlayer, value |-> 0, whole |-> TRUE]

(* A serial command is handled, with what it does *)
HandledWithEffect ==
  /\ Handled
  /\ Effect(TtyPacket, OutcomeTty(Meaning(FirstCommand(rx)),
                                  environment.nodes, environment.available))
  /\ UNCHANGED <<incoming, parser, rest, executing, outgoing, writing, link>>

(* A round with nothing to do, or the loop of the exception handler *)
Round ==
  /\ corrupt \/ \E c \in Cores : Idle(c)
  /\ UNCHANGED loopVars

LoopsNext ==
  /\ \/ SerialStep /\ UNCHANGED webVars
     \/ HandledWithEffect
     \/ WebNext /\ UNCHANGED serialVars
     \/ Round
  /\ UNCHANGED environment

(* Each core goes on where it stands and comes by each of its tasks *)
LoopsFairness ==
  /\ WF_loopVars(~corrupt /\ SerialCore0 /\ UNCHANGED webVars)
  /\ WF_loopVars(~corrupt /\ SerialCore1 /\ UNCHANGED webVars)
  /\ WF_loopVars(HandledWithEffect)
  /\ WF_loopVars(WebCore0 /\ UNCHANGED serialVars)
  /\ WF_loopVars(WebCore1 /\ UNCHANGED serialVars)

LoopsSpec == LoopsInit /\ [][LoopsNext]_<<environment, loopVars>> /\ LoopsFairness

-----------------------------------------------------------------------------
(* The variables of both streams keep their types and bounds: the buffers  *)
(* of SerialStreamParser and WebUsbProcessorBase hold no more than they     *)
(* may, but for bytes 0x08 of binary data, which the check of the former    *)
(* takes for backspaces (WithinLimit does not hold); and between rounds no  *)
(* completed packet is left unparsed.                                       *)
LoopsTypeOK == SerialTypeOK /\ WebTypeOK
=============================================================================
