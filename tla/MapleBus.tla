------------------------------- MODULE MapleBus -------------------------------
(***************************************************************************)
(* One Maple Bus: src/hal/MapleBus/MapleBus.cpp, its PIO programs          *)
(* maple_out.pio and maple_in.pio, and its user, on the host the timeliner *)
(* (src/hostLib/TransmissionTimeliner.cpp), on the client the main         *)
(* peripheral (src/clientLib/DreamcastMainPeripheral.cpp).                 *)
(*                                                                         *)
(* Two state machines of the hardware send and receive; each raises an     *)
(* interrupt, whose handler changes mCurrentPhase.  The loop of the user   *)
(* changes mCurrentPhase too, in write(), startRead() and processEvents(), *)
(* which looks at the phase once and then acts on what it saw.  On the     *)
(* client the handlers run on the core of the loop, which stands still     *)
(* until they are done; on the host they run on the other core.  Each is   *)
(* modelled by the step in which it decides and the step in which it sets  *)
(* mCurrentPhase.                                                          *)
(*                                                                         *)
(* The words received, their CRC and the times are left out: an answer may *)
(* be found to be wrong, and a timeout may occur at any time.              *)
(***************************************************************************)

CONSTANT Sides   \* the programs whose bus is looked at

ASSUME SidesAssumption == Sides \subseteq {"host", "client"}

Phases == {"IDLE", "WRITE_IN_PROGRESS", "WRITE_FAILED", "WRITE_COMPLETE",
           "WAITING_FOR_READ_START", "READ_IN_PROGRESS", "READ_FAILED",
           "READ_COMPLETE"}

\* What processEvents() returns when an exchange is over
Ends == {"WRITE_FAILED", "WRITE_COMPLETE", "READ_FAILED", "READ_COMPLETE"}

VARIABLES
  mCurrentPhase,
  mExpectingResponse,
  mSmOut,        \* the sending state machine: "off", "sending" or "sent"
  mSmIn,         \* the receiving one: "off", "waiting", "receiving" or "received"
  outIrq, inIrq, \* their interrupts: "none", "pending" or the handler's next step
  loopPc,            \* where the loop is
  phase,         \* status.phase of processEvents()
  transmitting,  \* the user has an exchange on the bus (the timeliner's mCurrentTx)
  expecting,     \* it waits for a packet: an answer to its own, or a first one
  answered,      \* that packet has been received up to its end
  side,          \* the program, which never changes
  raced          \* history: a timeout stopped the machines while an interrupt
                 \* was pending or being handled

machines == <<mSmOut, mSmIn>>
exchange == <<transmitting, expecting, answered>>
busVars == <<mCurrentPhase, mExpectingResponse, machines, outIrq, inIrq, loopPc, phase,
             exchange, side, raced>>

\* initIsrs() is called by core 0, which runs the loop of the client; that of
\* the host is on core 1.
SameCore == side = "client"

BusInit ==
  /\ mCurrentPhase = "IDLE"
  /\ mExpectingResponse = FALSE
  /\ mSmOut = "off" /\ mSmIn = "off"
  /\ outIrq = "none" /\ inIrq = "none"
  /\ loopPc = "loop"
  /\ phase = "IDLE"
  /\ transmitting = FALSE /\ expecting = FALSE /\ answered = FALSE
  /\ side \in Sides
  /\ raced = FALSE

-----------------------------------------------------------------------------
(* The hardware *)

\* The packet is out: the state machine raises its interrupt and waits.
Sent ==
  /\ mSmOut = "sending" /\ outIrq = "none"
  /\ mSmOut' = "sent"
  /\ outIrq' = "pending"
  /\ UNCHANGED <<mCurrentPhase, mExpectingResponse, mSmIn, inIrq, loopPc, phase,
                 exchange, side, raced>>

\* The start sequence of an answer
StartReceived ==
  /\ mSmIn = "waiting" /\ mSmOut # "sending" /\ inIrq = "none"
  /\ mSmIn' = "receiving"
  /\ inIrq' = "pending"
  /\ UNCHANGED <<mCurrentPhase, mExpectingResponse, mSmOut, outIrq, loopPc, phase,
                 exchange, side, raced>>

\* The end sequence of the answer.  A frame is far longer than the handling of
\* the interrupt of its start sequence.
EndReceived ==
  /\ mSmIn = "receiving" /\ inIrq = "none"
  /\ mSmIn' = "received"
  /\ inIrq' = "pending"
  /\ answered' = TRUE
  /\ UNCHANGED <<mCurrentPhase, mExpectingResponse, mSmOut, outIrq, loopPc, phase,
                 transmitting, expecting, side, raced>>

-----------------------------------------------------------------------------
(* The interrupt handlers *)

\* Both handlers are on one core at one priority: neither interrupts the other.
NoHandlerRuns ==
  outIrq # "set phase" /\ inIrq \notin {"READ_IN_PROGRESS", "READ_COMPLETE"}

\* writeIsr(): stop sending and, if an answer is expected, start receiving ...
WriteIsrBegins ==
  /\ outIrq = "pending" /\ NoHandlerRuns
  /\ outIrq' = "set phase"
  /\ mSmOut' = "off"
  /\ mSmIn' = IF mExpectingResponse THEN "waiting" ELSE mSmIn
  /\ UNCHANGED <<mCurrentPhase, mExpectingResponse, inIrq, loopPc, phase, exchange,
                 side, raced>>

PhaseAfterWrite ==
  IF mExpectingResponse THEN "WAITING_FOR_READ_START" ELSE "WRITE_COMPLETE"

\* ... and set the phase, whatever it is.
WriteIsrEnds ==
  /\ outIrq = "set phase"
  /\ outIrq' = "none"
  /\ mCurrentPhase' = PhaseAfterWrite
  /\ UNCHANGED <<mExpectingResponse, machines, inIrq, loopPc, phase, exchange, side,
                 raced>>

\* Mutant: the first interrupt is taken for that of the end sequence.
PhaseAfterRead_AtOnce(p) ==
  IF p \in {"WAITING_FOR_READ_START", "READ_IN_PROGRESS"} THEN "READ_COMPLETE" ELSE p

\* The phase which readIsr() sets when it finds p: p itself where it "shouldn't
\* have reached here".
PhaseAfterRead(p) ==
  CASE p = "WAITING_FOR_READ_START" -> "READ_IN_PROGRESS"
    [] p = "READ_IN_PROGRESS" -> "READ_COMPLETE"
    [] OTHER -> p

\* readIsr() looks at the phase, and stops receiving after the end sequence ...
ReadIsrBegins ==
  /\ inIrq = "pending" /\ NoHandlerRuns
  /\ inIrq' = IF PhaseAfterRead(mCurrentPhase) = mCurrentPhase
              THEN "none" ELSE PhaseAfterRead(mCurrentPhase)
  /\ mSmIn' = IF PhaseAfterRead(mCurrentPhase) = "READ_COMPLETE" THEN "off" ELSE mSmIn
  /\ UNCHANGED <<mCurrentPhase, mExpectingResponse, mSmOut, outIrq, loopPc, phase,
                 exchange, side, raced>>

\* ... and sets the next one.
ReadIsrEnds ==
  /\ inIrq \in {"READ_IN_PROGRESS", "READ_COMPLETE"}
  /\ inIrq' = "none"
  /\ mCurrentPhase' = inIrq
  /\ UNCHANGED <<mExpectingResponse, machines, outIrq, loopPc, phase, exchange, side,
                 raced>>

-----------------------------------------------------------------------------
(* The loop: processEvents() *)

\* On one core, an interrupt is handled before the loop continues.
LoopRuns == SameCore => outIrq = "none" /\ inIrq = "none"

\* "It is important to store the current phase and fully process it."
LookAtPhase ==
  /\ LoopRuns /\ loopPc = "loop"
  /\ phase' = mCurrentPhase
  /\ loopPc' = "process"
  /\ UNCHANGED <<mCurrentPhase, mExpectingResponse, machines, outIrq, inIrq,
                 exchange, side, raced>>

\* Nothing has ended.
NothingEnded ==
  /\ LoopRuns /\ loopPc = "process"
  /\ phase \notin {"READ_COMPLETE", "WRITE_COMPLETE"}
  /\ loopPc' = "free"
  /\ UNCHANGED <<mCurrentPhase, mExpectingResponse, machines, outIrq, inIrq, phase,
                 exchange, side, raced>>

\* A packet was written, or an answer read, which may be found to be wrong.
Completed ==
  /\ LoopRuns /\ loopPc = "process"
  /\ \/ phase = "WRITE_COMPLETE" /\ UNCHANGED phase
     \/ phase = "READ_COMPLETE" /\ phase' \in {"READ_COMPLETE", "READ_FAILED"}
  /\ mCurrentPhase' = "IDLE"
  /\ loopPc' = "report"
  /\ UNCHANGED <<mExpectingResponse, machines, outIrq, inIrq, exchange, side, raced>>

\* The time is over (or, while reading, the buffer is full): the state machines
\* are stopped ...
TimedOut ==
  /\ LoopRuns /\ loopPc = "process"
  /\ \/ /\ phase \in {"WAITING_FOR_READ_START", "WRITE_IN_PROGRESS"}
        /\ mSmOut' = "off" /\ mSmIn' = "off"
     \/ /\ phase = "READ_IN_PROGRESS"
        /\ mSmIn' = "off" /\ UNCHANGED mSmOut
  /\ phase' = IF phase = "WRITE_IN_PROGRESS" THEN "WRITE_FAILED" ELSE "READ_FAILED"
  /\ loopPc' = "reset"
  /\ raced' = (raced \/ outIrq # "none" \/ inIrq # "none")
  /\ UNCHANGED <<mCurrentPhase, mExpectingResponse, outIrq, inIrq, exchange, side>>

\* Mutant: the phase is set to Phase::INVALID.
PhaseAfterReset_Invalid == "INVALID"

PhaseAfterReset == "IDLE"

\* ... and the phase is set.
ResetPhase ==
  /\ LoopRuns /\ loopPc = "reset"
  /\ mCurrentPhase' = PhaseAfterReset
  /\ loopPc' = "report"
  /\ UNCHANGED <<mExpectingResponse, machines, outIrq, inIrq, phase, exchange, side,
                 raced>>

\* The user is told of the end: the timeliner hands its transmission to the node.
Report ==
  /\ LoopRuns /\ loopPc = "report"
  /\ transmitting' = FALSE
  /\ loopPc' = "free"
  /\ UNCHANGED <<mCurrentPhase, mExpectingResponse, machines, outIrq, inIrq, phase,
                 expecting, answered, side, raced>>

-----------------------------------------------------------------------------
(* The loop: write(), called by the timeliner's writeTask(), and startRead() *)

isBusy == mCurrentPhase # "IDLE"

\* The bus is busy, nothing is due, or something pulls the line low.
NoWrite ==
  /\ LoopRuns /\ loopPc \in {"free", "write"}
  /\ loopPc' = "loop"
  /\ UNCHANGED <<mCurrentPhase, mExpectingResponse, machines, outIrq, inIrq, phase,
                 exchange, side, raced>>

\* The bus is not busy: the packet is prepared and the line checked ...
WriteBegins ==
  /\ LoopRuns /\ loopPc = "free" /\ ~ isBusy
  /\ loopPc' = "write"
  /\ UNCHANGED <<mCurrentPhase, mExpectingResponse, machines, outIrq, inIrq, phase,
                 exchange, side, raced>>

\* ... and the state machines are started; a receiving one that still runs
\* starts anew.
StartWrite ==
  /\ LoopRuns /\ loopPc = "write"
  /\ mExpectingResponse' \in BOOLEAN
  /\ mCurrentPhase' = "WRITE_IN_PROGRESS"
  /\ mSmOut' = "sending"
  /\ mSmIn' = IF mExpectingResponse' /\ mSmIn # "off" THEN "waiting" ELSE mSmIn
  /\ transmitting' = TRUE
  /\ expecting' = mExpectingResponse'
  /\ answered' = FALSE
  /\ loopPc' = "loop"
  /\ UNCHANGED <<outIrq, inIrq, phase, side, raced>>

\* startRead(): the client waits for a packet without having sent one.  What its
\* last write() expected stays in mExpectingResponse.
StartRead ==
  /\ LoopRuns /\ loopPc = "free" /\ ~ isBusy
  /\ side = "client"
  /\ mCurrentPhase' = "WAITING_FOR_READ_START"
  /\ mSmIn' = "waiting"
  /\ transmitting' = TRUE /\ expecting' = TRUE /\ answered' = FALSE
  /\ loopPc' = "loop"
  /\ UNCHANGED <<mExpectingResponse, mSmOut, outIrq, inIrq, phase, side, raced>>

-----------------------------------------------------------------------------
Hardware == Sent \/ StartReceived \/ EndReceived
Isr == WriteIsrBegins \/ WriteIsrEnds \/ ReadIsrBegins \/ ReadIsrEnds
Ending == Completed \/ TimedOut
Loop ==
  \/ LookAtPhase \/ NothingEnded \/ Ending \/ ResetPhase \/ Report
  \/ NoWrite \/ WriteBegins \/ StartWrite \/ StartRead

BusNext == Hardware \/ Isr \/ Loop

BusSpec == BusInit /\ [][BusNext]_busVars

\* Interrupts are handled, the loop runs for ever, and an exchange that has
\* neither ended nor timed out at one look at it does so at some later one.
BusFairness == WF_busVars(Isr) /\ WF_busVars(Loop) /\ SF_busVars(Ending)

BusFairSpec == BusSpec /\ BusFairness

-----------------------------------------------------------------------------
BusTypeOK ==
  /\ mCurrentPhase \in Phases
  /\ mExpectingResponse \in BOOLEAN
  /\ mSmOut \in {"off", "sending", "sent"}
  /\ mSmIn \in {"off", "waiting", "receiving", "received"}
  /\ outIrq \in {"none", "pending", "set phase"}
  /\ inIrq \in {"none", "pending", "READ_IN_PROGRESS", "READ_COMPLETE"}
  /\ loopPc \in {"loop", "process", "reset", "report", "free", "write"}
  /\ phase \in Phases
  /\ transmitting \in BOOLEAN /\ expecting \in BOOLEAN /\ answered \in BOOLEAN
  /\ side \in Sides
  /\ raced \in BOOLEAN

\* An end is only reported for a transmission: the node uses the transmission
\* of the report without looking whether there is one.
EndsHaveTransmission == loopPc = "report" => phase \in Ends /\ transmitting

-----------------------------------------------------------------------------
(* The inductive invariant *)

MachinesRest ==
  mSmOut = "off" /\ mSmIn = "off" /\ outIrq = "none" /\ inIrq = "none"

\* Where the machines and the handlers can be while the loop does not know more
\* than mCurrentPhase, unless a timeout has stopped them.
MachinesFollowPhase ==
  /\ mCurrentPhase \in {"IDLE", "WRITE_COMPLETE", "READ_COMPLETE"} => MachinesRest
  /\ mCurrentPhase = "WRITE_IN_PROGRESS" => (expecting <=> mExpectingResponse)
  /\ mCurrentPhase = "WRITE_IN_PROGRESS" =>
       \/ mSmOut = "sending" /\ outIrq = "none" /\ mSmIn = "off" /\ inIrq = "none"
       \/ mSmOut = "sent" /\ outIrq = "pending" /\ mSmIn = "off" /\ inIrq = "none"
       \/ /\ mSmOut = "off" /\ outIrq = "set phase"
          /\ \/ mSmIn = "off" /\ inIrq = "none" /\ ~ mExpectingResponse
             \/ mSmIn = "waiting" /\ inIrq = "none" /\ mExpectingResponse
             \/ mSmIn = "receiving" /\ inIrq = "pending" /\ mExpectingResponse
  /\ mCurrentPhase = "WAITING_FOR_READ_START" =>
       /\ mSmOut = "off" /\ outIrq = "none"
       /\ \/ mSmIn = "waiting" /\ inIrq = "none"
          \/ mSmIn = "receiving" /\ inIrq \in {"pending", "READ_IN_PROGRESS"}
  /\ mCurrentPhase = "READ_IN_PROGRESS" =>
       /\ mSmOut = "off" /\ outIrq = "none"
       /\ \/ mSmIn = "receiving" /\ inIrq = "none"
          \/ mSmIn = "received" /\ inIrq = "pending" /\ answered
          \/ mSmIn = "off" /\ inIrq = "READ_COMPLETE" /\ answered

\* What an end, or a phase that leads to it, says of the exchange
EndFits(p) ==
  /\ p \in {"WAITING_FOR_READ_START", "READ_IN_PROGRESS", "READ_COMPLETE",
            "READ_FAILED"} => expecting
  /\ p = "WRITE_COMPLETE" => ~ expecting
  /\ p = "READ_COMPLETE" => answered

\* The phases which the handlers may have set since processEvents() saw p
LaterPhases(p) ==
  CASE p = "WRITE_IN_PROGRESS" ->
         {"WRITE_IN_PROGRESS", "WRITE_COMPLETE", "WAITING_FOR_READ_START",
          "READ_IN_PROGRESS", "READ_COMPLETE"}
    [] p = "WAITING_FOR_READ_START" ->
         {"WAITING_FOR_READ_START", "READ_IN_PROGRESS", "READ_COMPLETE"}
    [] p = "READ_IN_PROGRESS" -> {"READ_IN_PROGRESS", "READ_COMPLETE"}
    [] OTHER -> {p}

\* An exchange is on the bus exactly while the phase or a report says so; the
\* loop acts on a phase that has only moved on; nothing runs in a bus at rest.
LoopFitsPhase ==
  /\ mCurrentPhase \notin {"WRITE_FAILED", "READ_FAILED"}
  /\ transmitting <=> (mCurrentPhase # "IDLE" \/ loopPc = "report")
  /\ EndFits(mCurrentPhase)
  /\ loopPc \in {"write", "report"} => mCurrentPhase = "IDLE"
  /\ loopPc = "process" => mCurrentPhase \in LaterPhases(phase)
  /\ loopPc = "reset" => /\ mCurrentPhase # "IDLE" /\ MachinesRest
                         /\ phase \in {"WRITE_FAILED", "READ_FAILED"}
  /\ loopPc \in {"reset", "report"} => EndFits(phase)
  /\ loopPc = "report" => phase \in Ends
  /\ loopPc # "reset" => MachinesFollowPhase

\* All of this holds until a timeout races with an interrupt, which it cannot
\* where the handlers are on the core of the loop.
BusInv ==
  /\ BusTypeOK
  /\ SameCore => ~ raced
  /\ raced \/ LoopFitsPhase

-----------------------------------------------------------------------------
\* The exchange which the user sees: idle or running, until the end of it is
\* reported.
ExchangeState ==
  CASE loopPc = "report" -> phase
    [] loopPc # "report" /\ transmitting -> "running"
    [] OTHER -> "idle"

AsExchange == INSTANCE Exchange WITH state <- ExchangeState

\* The safety part of the promise, until a timeout races with an interrupt
ExchangeUnlessRaced ==
  AsExchange!Init /\ [][raced' \/ AsExchange!Step]_busVars

\* The bus keeps its promise: one exchange at a time, which ends, and ends once,
\* with a kind of end that fits it and no answer left over from an earlier one,
\* however timeouts and interrupts interleave.  On the client it does so for
\* ever; on the host until a timeout stops the machines while an interrupt is
\* pending or being handled on the other core.
ImplementsExchange ==
  /\ ExchangeUnlessRaced
  /\ (<>raced \/ AsExchange!Fairness)
=============================================================================
