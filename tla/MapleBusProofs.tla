---------------------------- MODULE MapleBusProofs ----------------------------
(***************************************************************************)
(* Proofs about MapleBus, for the bus of the client and that of the host:  *)
(* BusInv is inductive, and every step of the bus is a step, or a stutter, *)
(* of the exchange its user sees until a timeout races with an interrupt,  *)
(* which on the client never happens.  That an exchange ends is left to    *)
(* TLC.                                                                    *)
(***************************************************************************)
EXTENDS MapleBus, TLAPS

(* The invariant holds at the start, before any exchange. *)
LEMMA BusInvInit == BusInit => BusInv
  BY SidesAssumption
  DEF BusInit, BusInv, BusTypeOK, LoopFitsPhase, SameCore, Phases, EndFits, LaterPhases,
      MachinesFollowPhase, MachinesRest

(* The types are kept. *)
LEMMA TypesNext == BusTypeOK /\ BusNext => BusTypeOK'
<1> SUFFICES ASSUME BusTypeOK, BusNext PROVE BusTypeOK'
  OBVIOUS
<1> USE DEF BusTypeOK, Phases, machines, exchange
<1>1. CASE Hardware
  BY <1>1 DEF Hardware, Sent, StartReceived, EndReceived
<1>2. CASE WriteIsrBegins \/ WriteIsrEnds
  BY <1>2 DEF WriteIsrBegins, WriteIsrEnds, PhaseAfterWrite
<1>3. CASE ReadIsrBegins \/ ReadIsrEnds
  <2>1. PhaseAfterRead(mCurrentPhase) \in {mCurrentPhase, "READ_IN_PROGRESS", "READ_COMPLETE"}
    BY DEF PhaseAfterRead
  <2>2. inIrq' \in {"none", "pending", "READ_IN_PROGRESS", "READ_COMPLETE"}
    BY <1>3, <2>1 DEF ReadIsrBegins, ReadIsrEnds
  <2>3. mCurrentPhase' \in Phases
    BY <1>3 DEF ReadIsrBegins, ReadIsrEnds
  <2>4. mSmIn' \in {"off", "waiting", "receiving", "received"}
    BY <1>3 DEF ReadIsrBegins, ReadIsrEnds
  <2>5. UNCHANGED <<mSmOut, outIrq, loopPc, phase, side>>
    BY <1>3 DEF ReadIsrBegins, ReadIsrEnds
  <2>6. UNCHANGED <<mExpectingResponse, transmitting, expecting, answered, raced>>
    BY <1>3 DEF ReadIsrBegins, ReadIsrEnds
  <2>7. mSmOut' \in {"off", "sending", "sent"} /\ outIrq' \in {"none", "pending", "set phase"}
    BY <2>5
  <2>8. loopPc' \in {"loop", "process", "reset", "report", "free", "write"}
    BY <2>5
  <2>9. phase' \in Phases /\ side' \in Sides
    BY <2>5
  <2>10. mExpectingResponse' \in BOOLEAN /\ transmitting' \in BOOLEAN
    BY <2>6
  <2>11. expecting' \in BOOLEAN /\ answered' \in BOOLEAN /\ raced' \in BOOLEAN
    BY <2>6
  <2> QED BY <2>2, <2>3, <2>4, <2>7, <2>8, <2>9, <2>10, <2>11
<1>5. CASE LookAtPhase \/ NothingEnded \/ Completed
  BY <1>5 DEF LookAtPhase, NothingEnded, Completed
<1>6. CASE TimedOut
  BY <1>6 DEF TimedOut
<1>7. CASE ResetPhase \/ Report
  BY <1>7 DEF ResetPhase, PhaseAfterReset, Report
<1>8. CASE NoWrite \/ WriteBegins
  BY <1>8 DEF NoWrite, WriteBegins
<1>9. CASE StartWrite
  BY <1>9 DEF StartWrite
<1>10. CASE StartRead
  BY <1>10 DEF StartRead
<1> QED BY <1>1, <1>2, <1>3, <1>5, <1>6, <1>7, <1>8, <1>9, <1>10
        DEF BusNext, Isr, Loop, Ending

(* A timeout only races with an interrupt where the handlers are not on the core
   of the loop. *)
LEMMA RaceNext == (SameCore => ~ raced) /\ BusNext => (SameCore => ~ raced)'
<1> SUFFICES ASSUME SameCore => ~ raced, BusNext PROVE (SameCore => ~ raced)'
  OBVIOUS
<1>1. CASE TimedOut
  BY <1>1 DEF TimedOut, LoopRuns, SameCore
<1>2. CASE ~ TimedOut
  <2>1. side' = side /\ raced' = raced
    BY <1>2 DEF BusNext, Hardware, Isr, Loop, Ending, Sent, StartReceived, EndReceived,
         WriteIsrBegins, WriteIsrEnds, ReadIsrBegins, ReadIsrEnds, LookAtPhase,
         NothingEnded, Completed, ResetPhase, Report, NoWrite, WriteBegins,
         StartWrite, StartRead
  <2> QED BY <2>1 DEF SameCore
<1> QED BY <1>1, <1>2

(* The hardware moves a machine on, and raises interrupts, only in phases which
   expect it. *)
LEMMA HardwareFits == BusTypeOK /\ LoopFitsPhase /\ Hardware => LoopFitsPhase'
<1> SUFFICES ASSUME BusTypeOK, LoopFitsPhase, Hardware PROVE LoopFitsPhase'
  OBVIOUS
<1> USE DEF BusTypeOK, LoopFitsPhase, Phases, EndFits, MachinesFollowPhase, MachinesRest,
            exchange
<1>1. LaterPhases(phase)' = LaterPhases(phase)
  BY DEF Hardware, Sent, StartReceived, EndReceived, LaterPhases
<1>2. CASE Sent
  BY <1>1, <1>2 DEF Sent
<1>3. CASE StartReceived
  BY <1>1, <1>3 DEF StartReceived
<1>4. CASE EndReceived
  BY <1>1, <1>4 DEF EndReceived
<1> QED BY <1>2, <1>3, <1>4 DEF Hardware

(* A handler moves the phase on to one which the loop may find. *)
LEMMA IsrFits == BusTypeOK /\ LoopFitsPhase /\ Isr => LoopFitsPhase'
<1> SUFFICES ASSUME BusTypeOK, LoopFitsPhase, Isr PROVE LoopFitsPhase'
  OBVIOUS
<1> USE DEF BusTypeOK, LoopFitsPhase, Phases, EndFits, MachinesFollowPhase, MachinesRest,
            NoHandlerRuns, machines, exchange
<1>1. CASE WriteIsrBegins
  BY <1>1 DEF WriteIsrBegins, LaterPhases
<1>2. CASE WriteIsrEnds
  <2>1. mCurrentPhase = "WRITE_IN_PROGRESS"
    BY <1>2 DEF WriteIsrEnds
  <2>2. loopPc = "process" => mCurrentPhase' \in LaterPhases(phase)'
    BY <1>2, <2>1 DEF WriteIsrEnds, PhaseAfterWrite, LaterPhases
  <2>3. MachinesFollowPhase'
    <3>1. mSmOut = "off" /\ (expecting <=> mExpectingResponse)
      BY <1>2, <2>1 DEF WriteIsrEnds
    <3>2. CASE mExpectingResponse
      BY <1>2, <2>1, <3>1, <3>2 DEF WriteIsrEnds, PhaseAfterWrite
    <3>3. CASE ~ mExpectingResponse
      BY <1>2, <2>1, <3>1, <3>3 DEF WriteIsrEnds, PhaseAfterWrite
    <3> QED BY <3>2, <3>3
  <2>4. mCurrentPhase' \in {"WAITING_FOR_READ_START", "WRITE_COMPLETE"}
    BY <1>2 DEF WriteIsrEnds, PhaseAfterWrite
  <2>5. EndFits(mCurrentPhase)'
    <3>1. expecting <=> mExpectingResponse
      <4>1. loopPc # "reset"
        BY <1>2 DEF WriteIsrEnds
      <4> QED BY <2>1, <4>1
    <3>2. CASE expecting
      BY <1>2, <3>1, <3>2 DEF WriteIsrEnds, PhaseAfterWrite
    <3>3. CASE ~ expecting
      BY <1>2, <3>1, <3>3 DEF WriteIsrEnds, PhaseAfterWrite
    <3> QED BY <3>2, <3>3
  <2> QED BY <1>2, <2>1, <2>2, <2>3, <2>4, <2>5 DEF WriteIsrEnds
<1>3. CASE ReadIsrBegins
  <2>1. LaterPhases(phase)' = LaterPhases(phase)
    BY <1>3 DEF ReadIsrBegins, LaterPhases
  <2>2. mCurrentPhase \in {"WAITING_FOR_READ_START", "READ_IN_PROGRESS"}
    BY <1>3 DEF ReadIsrBegins
  <2>3. CASE mCurrentPhase = "WAITING_FOR_READ_START"
    <3>1. PhaseAfterRead(mCurrentPhase) = "READ_IN_PROGRESS"
      BY <2>3 DEF PhaseAfterRead
    <3> QED BY <1>3, <2>1, <2>3, <3>1 DEF ReadIsrBegins
  <2>4. CASE mCurrentPhase = "READ_IN_PROGRESS"
    <3>1. PhaseAfterRead(mCurrentPhase) = "READ_COMPLETE"
      BY <2>4 DEF PhaseAfterRead
    <3> QED BY <1>3, <2>1, <2>4, <3>1 DEF ReadIsrBegins
  <2> QED BY <2>2, <2>3, <2>4
<1>4. CASE ReadIsrEnds
  <2>1. inIrq = "READ_IN_PROGRESS" => mCurrentPhase = "WAITING_FOR_READ_START"
    BY <1>4 DEF ReadIsrEnds
  <2>2. inIrq = "READ_COMPLETE" => mCurrentPhase = "READ_IN_PROGRESS"
    BY <1>4 DEF ReadIsrEnds
  <2>3. loopPc = "process" => mCurrentPhase' \in LaterPhases(phase)'
    BY <1>4, <2>1, <2>2 DEF ReadIsrEnds, LaterPhases
  <2> QED BY <1>4, <2>1, <2>2, <2>3 DEF ReadIsrEnds
<1> QED BY <1>1, <1>2, <1>3, <1>4 DEF Isr

(* The loop acts on a phase that has only moved on, and its timeouts stop
   machines whose interrupts have all been handled, or the race is on record. *)
LEMMA LoopFits == BusTypeOK /\ LoopFitsPhase /\ Loop => raced' \/ LoopFitsPhase'
<1> SUFFICES ASSUME BusTypeOK, LoopFitsPhase, Loop, ~ raced' PROVE LoopFitsPhase'
  OBVIOUS
<1> USE DEF BusTypeOK, LoopFitsPhase, Phases, EndFits, MachinesFollowPhase, MachinesRest,
            machines, exchange
<1>1. CASE LookAtPhase
  BY <1>1 DEF LookAtPhase, LaterPhases
<1>2. CASE NothingEnded
  BY <1>2 DEF NothingEnded
<1>3. CASE Completed
  <2>1. mCurrentPhase = phase
    BY <1>3 DEF Completed, LaterPhases
  <2> QED BY <1>3, <2>1 DEF Completed, Ends
<1>4. CASE TimedOut
  <2>1. outIrq = "none" /\ inIrq = "none" /\ loopPc' = "reset"
    BY <1>4 DEF TimedOut
  <2>2. mCurrentPhase # "IDLE" /\ (phase # "WRITE_IN_PROGRESS" => expecting)
    BY <1>4 DEF TimedOut, LaterPhases
  <2>3. mSmOut' = "off" /\ mSmIn' = "off"
    BY <1>4, <2>1 DEF TimedOut, LaterPhases
  <2> QED BY <1>4, <2>1, <2>2, <2>3 DEF TimedOut
<1>5. CASE ResetPhase
  BY <1>5 DEF ResetPhase, PhaseAfterReset, Ends
<1>6. CASE Report
  BY <1>6 DEF Report
<1>7. CASE NoWrite
  BY <1>7 DEF NoWrite
<1>8. CASE WriteBegins
  BY <1>8 DEF WriteBegins, isBusy
<1>9. CASE StartWrite
  BY <1>9 DEF StartWrite
<1>10. CASE StartRead
  BY <1>10 DEF StartRead, isBusy
<1> QED BY <1>1, <1>2, <1>3, <1>4, <1>5, <1>6, <1>7, <1>8, <1>9, <1>10 DEF Loop, Ending

(* No race is forgotten. *)
LEMMA RacedStays == BusNext /\ raced => raced'
  BY DEF BusNext, Hardware, Isr, Loop, Ending, Sent, StartReceived, EndReceived,
         WriteIsrBegins, WriteIsrEnds, ReadIsrBegins, ReadIsrEnds, LookAtPhase,
         NothingEnded, Completed, TimedOut, ResetPhase, Report, NoWrite, WriteBegins,
         StartWrite, StartRead

(* BusInv is preserved by every step. *)
LEMMA BusInvNext == BusInv /\ [BusNext]_busVars => BusInv'
<1> SUFFICES ASSUME BusInv, [BusNext]_busVars PROVE BusInv'
  OBVIOUS
<1>1. CASE BusNext
  <2>1. BusTypeOK' /\ (SameCore => ~ raced)'
    BY <1>1, TypesNext, RaceNext DEF BusInv
  <2>2. raced' \/ LoopFitsPhase'
    BY <1>1, HardwareFits, IsrFits, LoopFits, RacedStays DEF BusInv, BusNext
  <2> QED BY <2>1, <2>2 DEF BusInv
<1>2. CASE UNCHANGED busVars
  <2> USE <1>2 DEF busVars, machines, exchange
  <2>1. UNCHANGED <<BusTypeOK, MachinesRest, MachinesFollowPhase>>
    BY DEF BusTypeOK, MachinesRest, MachinesFollowPhase
  <2>2. EndFits(mCurrentPhase)' = EndFits(mCurrentPhase) /\ EndFits(phase)' = EndFits(phase)
    BY DEF EndFits
  <2>3. LaterPhases(phase)' = LaterPhases(phase)
    BY DEF LaterPhases
  <2> QED BY <2>1, <2>2, <2>3 DEF BusInv, LoopFitsPhase, SameCore, MachinesRest
<1> QED BY <1>1, <1>2

(* The inductive invariant: until a timeout races with an interrupt, the phase of
   the bus, its machines, interrupts and the exchange of its user fit together;
   on the client, whose handlers run on the core of its loop, none ever does. *)
THEOREM BusInvariant == BusSpec => []BusInv
  BY BusInvInit, BusInvNext, PTL DEF BusSpec

(* The type invariant of the bus, races or not. *)
THEOREM BusTypes == BusSpec => []BusTypeOK
<1>1. BusInv => BusTypeOK
  BY DEF BusInv
<1> QED BY <1>1, BusInvariant, PTL

(* No end is reported without a transmission to hand it to, as readTask() of
   DreamcastMainNode takes it: always on the client, and on the host until a
   timeout has stopped the machines while an interrupt was pending or being
   handled, which the run bus_two_cores shows to break it. *)
THEOREM BusEndsHaveTransmission == BusSpec => [](raced \/ EndsHaveTransmission)
<1>1. BusInv => raced \/ EndsHaveTransmission
  BY DEF BusInv, LoopFitsPhase, EndsHaveTransmission
<1> QED BY <1>1, BusInvariant, PTL

(* The initial state of the bus is one of the exchange. *)
LEMMA ExchangeInit == BusInit => AsExchange!Init
  BY DEF BusInit, AsExchange!Init, ExchangeState

(* Until a race, every step of the bus is a step or a stutter of the exchange. *)
LEMMA ExchangeNext == BusInv /\ [BusNext]_busVars => raced' \/ AsExchange!Step
<1> SUFFICES ASSUME BusInv, [BusNext]_busVars, ~ raced'
             PROVE  AsExchange!Step
  OBVIOUS
<1>0. ~ raced
  BY RacedStays DEF busVars
<1>a. BusTypeOK /\ LoopFitsPhase
  BY <1>0 DEF BusInv
<1> USE DEF ExchangeState, AsExchange!vars, AsExchange!Step, machines, exchange
<1>1. CASE EndReceived
  <2>1. ExchangeState = "running" /\ ExchangeState' = "running"
    BY <1>a, <1>1 DEF EndReceived, LoopFitsPhase, MachinesFollowPhase, MachinesRest
  <2>2. expecting
    BY <1>a, <1>1 DEF EndReceived, BusTypeOK, LoopFitsPhase, Phases, EndFits,
                      MachinesFollowPhase, MachinesRest
  <2>3. AsExchange!Answer
    BY <1>1, <2>1, <2>2 DEF EndReceived, AsExchange!Answer
  <2> QED BY <2>3 DEF AsExchange!Next
<1>2. CASE StartWrite \/ StartRead
  BY <1>a, <1>2 DEF StartWrite, StartRead, isBusy, LoopFitsPhase, AsExchange!Next,
                    AsExchange!Start
<1>3. CASE Report
  BY <1>a, <1>3 DEF Report, LoopFitsPhase, AsExchange!Next, AsExchange!Report
<1>4. CASE Completed
  <2>1. ExchangeState = "running"
    BY <1>a, <1>4 DEF Completed, LoopFitsPhase, LaterPhases
  <2>2. phase' \in Ends /\ EndFits(phase')
    BY <1>a, <1>4 DEF Completed, LoopFitsPhase, LaterPhases, EndFits, Ends
  <2>3. AsExchange!End(phase')
    BY <1>4, <2>1, <2>2 DEF Completed, AsExchange!End, EndFits
  <2> QED BY <2>2, <2>3 DEF AsExchange!Next
<1>5. CASE ResetPhase
  <2>1. ExchangeState = "running"
    BY <1>a, <1>5 DEF ResetPhase, LoopFitsPhase
  <2>2. phase \in Ends /\ EndFits(phase)
    BY <1>a, <1>5 DEF ResetPhase, LoopFitsPhase, Ends
  <2>3. AsExchange!End(phase)
    BY <1>5, <2>1, <2>2 DEF ResetPhase, AsExchange!End, EndFits
  <2> QED BY <2>2, <2>3 DEF AsExchange!Next
<1>6. CASE Sent \/ StartReceived \/ Isr
  <2>1. UNCHANGED <<loopPc, phase, transmitting, expecting, answered>>
    BY <1>6 DEF Sent, StartReceived, Isr, WriteIsrBegins, WriteIsrEnds, ReadIsrBegins,
                ReadIsrEnds
  <2> QED BY <2>1
<1>7. CASE LookAtPhase \/ NothingEnded \/ TimedOut \/ NoWrite \/ WriteBegins
  BY <1>7 DEF LookAtPhase, NothingEnded, TimedOut, NoWrite, WriteBegins
<1>8. CASE UNCHANGED busVars
  BY <1>8 DEF busVars
<1> QED BY <1>1, <1>2, <1>3, <1>4, <1>5, <1>6, <1>7, <1>8
        DEF BusNext, Hardware, Loop, Ending

(* The safety part of ImplementsExchange: whatever interrupts and timeouts do,
   the user sees one exchange at a time, with one fitting end each, until on the
   host a timeout stops the machines while an interrupt is pending or handled. *)
THEOREM BusKeepsExchange == BusSpec => ExchangeUnlessRaced
  BY BusInvariant, ExchangeInit, ExchangeNext, PTL DEF BusSpec, ExchangeUnlessRaced

(* On the client every behaviour of the bus is one of the exchange. *)
THEOREM BusImplementsExchange ==
  BusSpec /\ [](side = "client") => AsExchange!Spec
<1>1. BusInv' /\ (side = "client")' => ~ raced'
  BY DEF BusInv, SameCore
<1> QED BY <1>1, BusInvariant, ExchangeInit, ExchangeNext, PTL
        DEF BusSpec, AsExchange!Spec, AsExchange!Step
=============================================================================
