------------------------------- MODULE HostNode -------------------------------
(***************************************************************************)
(* One port of the host: the main node, its sub nodes, the peripherals     *)
(* they create and the transmissions all of them have scheduled:           *)
(*   src/hostLib/DreamcastMainNode.cpp, DreamcastSubNode.cpp,              *)
(*   DreamcastNode.hpp.                                                    *)
(*                                                                         *)
(* Core 1 calls task() again and again: readTask() takes the end of the    *)
(* exchange on the bus, runDependentTasks() lets the peripherals schedule  *)
(* transmissions, and writeTask() puts one scheduled transmission on the   *)
(* bus.  Between two calls parsers may schedule commands of their own, and *)
(* at any time the user may plug and unplug devices.                       *)
(*                                                                         *)
(* Times and priorities are left to TxScheduler: here any scheduled        *)
(* transmission may be the next one.  The signal which tells the USB       *)
(* gamepad that the peripherals have changed, and the summary, are left    *)
(* out.                                                                    *)
(***************************************************************************)
EXTENDS Integers, FiniteSets

CONSTANTS
  Main,           \* the main node
  Subs,           \* its sub nodes (MAX_SUB_PERIPHERALS)
  Commanded,      \* the nodes to which command parsers send
  MAX_FAILURE_DISCONNECT_COUNT,
  MaxNoise,       \* bound of the model: exchanges with a device which go wrong
  NoTx            \* no transmission

Nodes == {Main} \cup Subs

ASSUME NodesAssumption == Main \notin Subs
ASSUME CommandedAssumption == Commanded \subseteq Nodes
ASSUME CountAssumption == MAX_FAILURE_DISCONNECT_COUNT \in Nat \ {0}
ASSUME NoiseAssumption == MaxNoise \in Nat

\* What is plugged in: nothing, a device with a function the host has a
\* peripheral for, or one with none.
Devices == {"none", "known", "unknown"}

\* The IDs of the info requests of a node and the numbers of its peripherals:
\* one that nothing refers to any more may be used again.
Ids == 1 .. 4
INVALID_ID == 0      \* -1 in the code
NoPeripheral == 0    \* mPeripherals is empty

\* Who is called back about a transmission: a node itself, its peripheral with
\* this number, nobody, or the command parser.
Transmitters == ({"node", "nobody", "external"} \X {0}) \cup ({"peripheral"} \X Ids)

Transmission == [recipientAddr : Nodes, transmitter : Transmitters,
                 transmissionId : {INVALID_ID} \cup Ids, autoRepeat : BOOLEAN]

VARIABLES
  mDetectionOnly,   \* the node only detects a device (fixed when constructed)
  mDeviceDetected,  \* a device has answered an info request of the main node
  mPeripherals,     \* node -> its peripheral, or NoPeripheral
  mConnected,       \* sub node -> the main device says something is attached
  mScheduleId,      \* node -> ID of its repeated info request, or INVALID_ID
  mCommFailCount,   \* failures since a transmission was last answered
  schedule,         \* the transmissions in the schedule of the port
  mCurrentTx,       \* the transmission on the bus, or NoTx
  pc,               \* the part of task() which runs next
  device,           \* node -> what is plugged in
  noise,            \* exchanges which went wrong although a device was there
  unanswered        \* history: exchanges with the main node which failed in a row,
                    \* counted up to MAX_FAILURE_DISCONNECT_COUNT

nodeVars == <<mDeviceDetected, mPeripherals, mConnected, mScheduleId, mCommFailCount>>
vars == <<mDetectionOnly, nodeVars, schedule, mCurrentTx, pc, device, noise, unanswered>>

-----------------------------------------------------------------------------
(* Transmissions *)

\* The device info request which a node repeats until it is answered.
InfoRequest(n, id) ==
  [recipientAddr |-> n, transmitter |-> <<"node", 0>>,
   transmissionId |-> id, autoRepeat |-> TRUE]

\* A device info request sent once, just to see that the main device is there.
Heartbeat ==
  [recipientAddr |-> Main, transmitter |-> <<"nobody", 0>>,
   transmissionId |-> INVALID_ID, autoRepeat |-> FALSE]

\* What a command parser schedules.
Command(n) ==
  [recipientAddr |-> n, transmitter |-> <<"external", 0>>,
   transmissionId |-> INVALID_ID, autoRepeat |-> FALSE]

\* All that peripheral k of node n may have scheduled: polls and single packets.
OfPeripheral(n, k) ==
  [recipientAddr : {n}, transmitter : {<<"peripheral", k>>},
   transmissionId : {INVALID_ID}, autoRepeat : BOOLEAN]

AllTx == schedule \cup ({mCurrentTx} \ {NoTx})

FreshId(n) ==
  CHOOSE id \in Ids : id # mScheduleId[n] /\ InfoRequest(n, id) \notin AllTx

FreshPeripheral(n) ==
  CHOOSE k \in Ids : k # mPeripherals[n] /\ OfPeripheral(n, k) \cap AllTx = {}

\* The transmissions of txs not addressed to a node of N (cancelByRecipient).
NotTo(txs, N) == {tx \in txs : tx.recipientAddr \notin N}

\* cancelById(mScheduleId) of node n
WithoutInfo(txs, n) == txs \ {InfoRequest(n, mScheduleId[n])}

\* The schedules which may be left when the peripherals of the nodes N were
\* called: each schedules and cancels transmissions of its own as it likes.
AfterPeripherals(txs, N, periph) ==
  LET own == UNION {OfPeripheral(n, periph[n]) : n \in N}
  IN  {(txs \ own) \cup kept : kept \in SUBSET own}

-----------------------------------------------------------------------------
Init ==
  /\ mDetectionOnly \in BOOLEAN
  /\ mDeviceDetected = FALSE
  /\ mPeripherals = [n \in Nodes |-> NoPeripheral]
  /\ mConnected = [s \in Subs |-> FALSE]
  /\ mScheduleId = [n \in Nodes |-> IF n = Main THEN 1 ELSE INVALID_ID]
  /\ mCommFailCount = 0
  /\ schedule = {InfoRequest(Main, 1)}
  /\ mCurrentTx = NoTx
  /\ pc = "read"
  /\ device \in [Nodes -> Devices]
  /\ noise = 0
  /\ unanswered = 0

-----------------------------------------------------------------------------
(* The end of an exchange *)

\* The device of node n is there: a sub-peripheral only while it is plugged
\* into a main device.
Present(n) == device[n] # "none" /\ device[Main] # "none"

Attached == {s \in Subs : Present(s)}

\* Mutants: the transmissions of a sub node outlive its peripheral; they are
\* cancelled only after the info request was added.
SubsConnected_NotCancelled(attached) ==
  LET changed == {s \in Subs : mConnected[s] # (s \in attached)}
  IN  [conn   |-> [s \in Subs |-> s \in attached],
       periph |-> [n \in Nodes |-> IF n \in changed THEN NoPeripheral
                                                    ELSE mPeripherals[n]],
       id     |-> [n \in Nodes |-> IF n \in changed \cap attached
                                   THEN FreshId(n) ELSE mScheduleId[n]],
       txs    |-> schedule
                    \cup {InfoRequest(s, FreshId(s)) : s \in changed \cap attached}]

SubsConnected_AddThenCancel(attached) ==
  LET changed == {s \in Subs : mConnected[s] # (s \in attached)}
  IN  [conn   |-> [s \in Subs |-> s \in attached],
       periph |-> [n \in Nodes |-> IF n \in changed THEN NoPeripheral
                                                    ELSE mPeripherals[n]],
       id     |-> [n \in Nodes |-> IF n \in changed \cap attached
                                   THEN FreshId(n) ELSE mScheduleId[n]],
       txs    |-> NotTo(schedule, changed)]

\* setConnected() of every sub node, when those in attached are connected: one
\* which changes loses its peripheral and transmissions, and asks anew.
SubsConnected(attached) ==
  LET changed == {s \in Subs : mConnected[s] # (s \in attached)}
  IN  [conn   |-> [s \in Subs |-> s \in attached],
       periph |-> [n \in Nodes |-> IF n \in changed THEN NoPeripheral
                                                    ELSE mPeripherals[n]],
       id     |-> [n \in Nodes |-> IF n \in changed \cap attached
                                   THEN FreshId(n) ELSE mScheduleId[n]],
       txs    |-> NotTo(schedule, changed)
                    \cup {InfoRequest(s, FreshId(s)) : s \in changed \cap attached}]

\* A node creates its peripheral, which may schedule something at once.
CreatePeripheral(n, st, txs) ==
  /\ mPeripherals' = [st.periph EXCEPT ![n] = FreshPeripheral(n)]
  /\ schedule' \in AfterPeripherals(txs, {n}, mPeripherals')

\* What the device of a node answers to an info request: its device info, or once in a
\* while something else, as the request to send it again.  The device info of one
\* that is not known may be too short.
Answers(n) == {"info", "other"} \cup (IF device[n] = "unknown" THEN {"short"} ELSE {})

\* txComplete() of the main node: a device info in answer to its request.
MainInfo(st) ==
  /\ mDeviceDetected' = TRUE
  /\ CASE mDetectionOnly ->
            /\ schedule' = WithoutInfo(st.txs, Main)
            /\ mScheduleId' = [st.id EXCEPT ![Main] = INVALID_ID]
            /\ mPeripherals' = st.periph
       [] ~ mDetectionOnly /\ device[Main] = "known" ->
            /\ CreatePeripheral(Main, st, WithoutInfo(st.txs, Main))
            /\ mScheduleId' = [st.id EXCEPT ![Main] = INVALID_ID]
       [] OTHER ->
            /\ schedule' = st.txs
            /\ mScheduleId' = st.id
            /\ mPeripherals' = st.periph

\* txComplete() of a sub node: a long enough device info in answer to its request.
\* It stops asking whatever the device is.
SubInfo(s, st) ==
  /\ IF device[s] = "known"
     THEN CreatePeripheral(s, st, WithoutInfo(st.txs, s))
     ELSE /\ schedule' = WithoutInfo(st.txs, s)
          /\ mPeripherals' = [st.periph EXCEPT ![s] = NoPeripheral]
  /\ mScheduleId' = [st.id EXCEPT ![s] = INVALID_ID]
  /\ UNCHANGED mDeviceDetected

\* The schedules which may be left when the peripheral that sent the current
\* transmission, if it was one, has been called back.
AfterCallback(txs, periph) ==
  IF mCurrentTx.transmitter[1] = "peripheral"
  THEN AfterPeripherals(txs, {mCurrentTx.recipientAddr}, periph)
  ELSE {txs}

Untouched == [conn |-> mConnected, periph |-> mPeripherals, id |-> mScheduleId,
              txs |-> schedule]

\* Mutant: an answer leaves the count of failures alone.
CountAfterAnswer_Kept == mCommFailCount

\* mCommFailCount after an answer of any node
CountAfterAnswer == 0

\* readTask() when the device which was asked has answered, from its own address.
\* An answer of the main device says which sub-peripherals are attached.  Every
\* transmission the program schedules expects an answer: there is no exchange which
\* is complete once it is written.
ReadComplete ==
  /\ pc = "read" /\ mCurrentTx # NoTx
  /\ \E answer \in Answers(mCurrentTx.recipientAddr) :
       LET n == mCurrentTx.recipientAddr
           asked == mCurrentTx.transmitter = <<"node", 0>>
           st == IF n = Main THEN SubsConnected(Attached) ELSE Untouched
       IN  /\ Present(n)
           /\ answer # "info" => asked
           /\ IF answer = "other" THEN noise < MaxNoise /\ noise' = noise + 1
                                  ELSE UNCHANGED noise
           /\ mConnected' = st.conn
           /\ CASE asked /\ n = Main /\ answer # "other" -> MainInfo(st)
                [] asked /\ n # Main /\ answer = "info" -> SubInfo(n, st)
                [] OTHER ->
                     /\ schedule' \in AfterCallback(st.txs, st.periph)
                     /\ mPeripherals' = st.periph
                     /\ mScheduleId' = st.id
                     /\ UNCHANGED mDeviceDetected
  /\ mCommFailCount' = CountAfterAnswer
  /\ unanswered' = 0
  /\ mCurrentTx' = NoTx
  /\ pc' = "run"
  /\ UNCHANGED <<mDetectionOnly, device>>

\* Mutant: the new info request is scheduled before the others are cancelled.
disconnectMainPeripheral_AddThenCancel(txs) ==
  /\ mDeviceDetected' = FALSE
  /\ mPeripherals' = [n \in Nodes |-> IF n = Main \/ mConnected[n]
                                      THEN NoPeripheral ELSE mPeripherals[n]]
  /\ mConnected' = [s \in Subs |-> FALSE]
  /\ schedule' = NotTo(txs, {Main} \cup {s \in Subs : mConnected[s]})
  /\ mScheduleId' = [mScheduleId EXCEPT ![Main] = FreshId(Main)]

\* disconnectMainPeripheral(), when the transmissions txs are scheduled
disconnectMainPeripheral(txs) ==
  /\ mDeviceDetected' = FALSE
  /\ mPeripherals' = [n \in Nodes |-> IF n = Main \/ mConnected[n]
                                      THEN NoPeripheral ELSE mPeripherals[n]]
  /\ mConnected' = [s \in Subs |-> FALSE]
  /\ schedule' = NotTo(txs, {Main} \cup {s \in Subs : mConnected[s]})
                   \cup {InfoRequest(Main, FreshId(Main))}
  /\ mScheduleId' = [mScheduleId EXCEPT ![Main] = FreshId(Main)]

\* Only failures of transmissions to the main node count.
CountsAsFailure(n) == n = Main

\* The history after a failure of a transmission to node n
UnansweredAfter(n) ==
  IF n = Main /\ unanswered < MAX_FAILURE_DISCONNECT_COUNT THEN unanswered + 1
  ELSE unanswered

\* mCommFailCount after a failure of a transmission to node n
CountAfterFailure(n) ==
  IF CountsAsFailure(n)
  THEN (mCommFailCount + 1) % MAX_FAILURE_DISCONNECT_COUNT
  ELSE mCommFailCount

\* readTask() when the exchange has failed, because nothing answered or, though
\* something is there, because of noise.
ReadFailed ==
  /\ pc = "read" /\ mCurrentTx # NoTx
  /\ LET n == mCurrentTx.recipientAddr
     IN  /\ IF Present(n) THEN noise < MaxNoise /\ noise' = noise + 1
                          ELSE UNCHANGED noise
         /\ \E txs \in AfterCallback(schedule, mPeripherals) :
              IF /\ CountsAsFailure(n)
                 /\ mCommFailCount + 1 >= MAX_FAILURE_DISCONNECT_COUNT
                 /\ mPeripherals[Main] # NoPeripheral
              THEN disconnectMainPeripheral(txs)
              ELSE /\ schedule' = txs
                   /\ UNCHANGED <<mDeviceDetected, mPeripherals, mConnected, mScheduleId>>
         /\ mCommFailCount' = CountAfterFailure(n)
         /\ unanswered' = UnansweredAfter(n)
  /\ mCurrentTx' = NoTx
  /\ pc' = "run"
  /\ UNCHANGED <<mDetectionOnly, device>>

\* readTask() while the bus is idle, or busy with an exchange
ReadNothing ==
  /\ pc = "read"
  /\ pc' = "run"
  /\ UNCHANGED <<mDetectionOnly, nodeVars, schedule, mCurrentTx, device, noise, unanswered>>

-----------------------------------------------------------------------------
(* The other parts of task() *)

\* Mutant: a heartbeat is scheduled when no repeated transmission is there.
NeedsHeartbeat_Any(txs) == mPeripherals[Main] # NoPeripheral /\ txs = {}

\* "The main node peripheral MUST have a recurring transmission in order to
\* test for heartbeat": nothing addressed to the main node is scheduled.
NeedsHeartbeat(txs) ==
  /\ mPeripherals[Main] # NoPeripheral
  /\ \A tx \in txs : tx.recipientAddr # Main

\* The nodes whose peripherals have their task() called
Running ==
  {n \in Nodes : mPeripherals[n] # NoPeripheral /\ (n \in Subs => mConnected[n])}

runDependentTasks ==
  /\ pc = "run"
  /\ \E txs \in AfterPeripherals(schedule, Running, mPeripherals) :
       schedule' = IF NeedsHeartbeat(txs) THEN txs \cup {Heartbeat} ELSE txs
  /\ pc' = "write"
  /\ UNCHANGED <<mDetectionOnly, nodeVars, mCurrentTx, device, noise, unanswered>>

\* writeTask() which sends tx: it stays scheduled if it is repeated.
Write(tx) ==
  /\ pc = "write" /\ mCurrentTx = NoTx
  /\ mCurrentTx' = tx
  /\ schedule' = IF tx.autoRepeat THEN schedule ELSE schedule \ {tx}
  /\ pc' = "read"
  /\ UNCHANGED <<mDetectionOnly, nodeVars, device, noise, unanswered>>

\* writeTask() while the bus is not free, or nothing is due
WriteNothing ==
  /\ pc = "write"
  /\ pc' = "read"
  /\ UNCHANGED <<mDetectionOnly, nodeVars, schedule, mCurrentTx, device, noise, unanswered>>

-----------------------------------------------------------------------------
(* The environment *)

\* A command parser schedules a command for node n: only on ports which are
\* not for detection, and between two calls of task().
Passthrough(n) ==
  /\ pc = "read" /\ ~ mDetectionOnly
  /\ schedule' = schedule \cup {Command(n)}
  /\ UNCHANGED <<mDetectionOnly, nodeVars, mCurrentTx, pc, device, noise, unanswered>>

\* The user plugs something into port n, or pulls it out.
Plug(n, d) ==
  /\ device[n] # d
  /\ d # "none" => device[n] = "none"
  /\ device' = [device EXCEPT ![n] = d]
  /\ UNCHANGED <<mDetectionOnly, nodeVars, schedule, mCurrentTx, pc, noise, unanswered>>

task ==
  \/ ReadComplete
  \/ ReadFailed
  \/ ReadNothing
  \/ runDependentTasks
  \/ \E tx \in schedule : Write(tx)
  \/ WriteNothing

Next ==
  \/ task
  \/ \E n \in Commanded : Passthrough(n)
  \/ \E n \in Nodes : \E d \in Devices : Plug(n, d)

Spec == Init /\ [][Next]_vars

\* Sending to node n, or asking for its device info
WriteTo(n) == \E tx \in schedule : tx.recipientAddr = n /\ Write(tx)
WriteInfo(n) == \E id \in Ids : InfoRequest(n, id) \in schedule /\ Write(InfoRequest(n, id))

\* Core 1 calls task() for ever and every exchange on the bus ends, by its
\* timeout at the latest.  A transmission which is scheduled again and again is
\* sent again and again: repetitions are a whole period (16 ms) apart, which is
\* time for everything else that is due, and no parser floods the port.
FairSpec ==
  /\ Spec
  /\ WF_vars(task)
  /\ SF_vars(ReadComplete \/ ReadFailed)
  /\ \A n \in Nodes : SF_vars(WriteTo(n)) /\ SF_vars(WriteInfo(n))

-----------------------------------------------------------------------------
(* Safety *)

TypeOK ==
  /\ mDetectionOnly \in BOOLEAN
  /\ mDeviceDetected \in BOOLEAN
  /\ mPeripherals \in [Nodes -> {NoPeripheral} \cup Ids]
  /\ mConnected \in [Subs -> BOOLEAN]
  /\ mScheduleId \in [Nodes -> {INVALID_ID} \cup Ids]
  /\ mCommFailCount \in 0 .. MAX_FAILURE_DISCONNECT_COUNT - 1
  /\ schedule \subseteq Transmission
  /\ mCurrentTx \in Transmission \cup {NoTx}
  /\ pc \in {"read", "run", "write"}
  /\ device \in [Nodes -> Devices]
  /\ noise \in 0 .. MaxNoise
  /\ unanswered \in 0 .. MAX_FAILURE_DISCONNECT_COUNT

\* "the transmitter pointer is guaranteed to be valid": no transmission in the
\* schedule or on the bus, which holds a plain pointer to the peripheral to be
\* called back, outlives that peripheral.
NoDanglingTransmitter ==
  \A tx \in AllTx : \A k \in Ids :
    tx.transmitter = <<"peripheral", k>> => mPeripherals[tx.recipientAddr] = k

\* Lost exchanges, or trouble with sub-peripherals, do not disconnect the main
\* peripheral as long as something is answered in between: it is disconnected only
\* by the failure which makes MAX_FAILURE_DISCONNECT_COUNT exchanges with the main
\* node that failed with no answer of any node after the first of them.
DisconnectNeedsFailures ==
  [][mPeripherals[Main] # NoPeripheral /\ mPeripherals'[Main] = NoPeripheral =>
       /\ mCurrentTx.recipientAddr = Main
       /\ unanswered' = MAX_FAILURE_DISCONNECT_COUNT]_vars

\* The inductive invariant: a transmission of a peripheral is one of the
\* peripheral its node has, an info request is that of a node without one.
Fits(txs, periph, id) ==
  \A tx \in txs :
    LET n == tx.recipientAddr
    IN  /\ tx.transmitter[1] = "peripheral" => periph[n] = tx.transmitter[2]
        /\ tx.transmitter[1] = "node" =>
             periph[n] = NoPeripheral /\ tx = InfoRequest(n, id[n])

\* mCommFailCount never counts more than there was.
CountFits == mCommFailCount <= unanswered

NodeInv == TypeOK /\ CountFits /\ Fits(AllTx, mPeripherals, mScheduleId)

-----------------------------------------------------------------------------
(* Liveness *)

\* A peripheral the host knows that is pulled out for good is noticed.
UnplugNoticed ==
  /\ ~ mDetectionOnly
  /\ [](device[Main] # "unknown")
  /\ <>[](device[Main] = "none")
  => <>[](~ mDeviceDetected /\ mPeripherals[Main] = NoPeripheral)

\* A main peripheral plugged in for good is noticed, whatever was there before.
PlugNoticed ==
  ~ mDetectionOnly /\ <>[](device[Main] = "known")
    => <>[](mDeviceDetected /\ mPeripherals[Main] # NoPeripheral)

\* A sub-peripheral plugged in for good is noticed.
SubNoticed ==
  \A s \in Subs :
    /\ ~ mDetectionOnly
    /\ [](device[s] # "unknown")
    /\ <>[](device[Main] = "known" /\ device[s] = "known")
    => <>[](mConnected[s] /\ mPeripherals[s] # NoPeripheral)
=============================================================================
