---------------------------- MODULE HostNodeProofs ----------------------------
(***************************************************************************)
(* Proofs about HostNode, for every number of sub nodes, of failures which *)
(* disconnect, and of failing exchanges.                                   *)
(***************************************************************************)
EXTENDS HostNode, TLAPS

USE NodesAssumption, CommandedAssumption DEF INVALID_ID, NoPeripheral

Peripherals == [Nodes -> {NoPeripheral} \cup Ids]
ScheduleIds == [Nodes -> {INVALID_ID} \cup Ids]

-----------------------------------------------------------------------------
(* Transmissions *)

LEMMA TransmissionFields ==
  ASSUME NEW tx \in Transmission
  PROVE  /\ tx.recipientAddr \in Nodes
         /\ \/ tx.transmitter \in {<<"node", 0>>, <<"nobody", 0>>, <<"external", 0>>}
            \/ \E k \in Ids : tx.transmitter = <<"peripheral", k>>
BY DEF Transmission, Transmitters

LEMMA InfoRequestType ==
  ASSUME NEW n \in Nodes, NEW id \in {INVALID_ID} \cup Ids
  PROVE  /\ InfoRequest(n, id) \in Transmission
         /\ InfoRequest(n, id).recipientAddr = n
         /\ InfoRequest(n, id).transmitter[1] = "node"
BY DEF InfoRequest, Transmission, Transmitters

LEMMA SinglesFit ==
  ASSUME NEW n \in Nodes
  PROVE  /\ Heartbeat \in Transmission /\ Command(n) \in Transmission
         /\ Heartbeat.transmitter[1] = "nobody"
         /\ Command(n).transmitter[1] = "external"
BY DEF Heartbeat, Command, Transmission, Transmitters, Nodes

\* Fewer transmissions fit, and two sets of them together.
LEMMA FitsParts ==
  ASSUME NEW txs, NEW more, NEW periph, NEW id,
         Fits(txs, periph, id)
  PROVE  /\ \A some \in SUBSET txs : Fits(some, periph, id)
         /\ Fits(more, periph, id) => Fits(txs \cup more, periph, id)
BY DEF Fits

\* Whatever their peripherals schedule and cancel, the transmissions fit.
LEMMA AfterPeripheralsFits ==
  ASSUME NEW periph \in Peripherals, NEW id,
         NEW N \in SUBSET Nodes, \A n \in N : periph[n] # NoPeripheral,
         NEW txs \in SUBSET Transmission, Fits(txs, periph, id),
         NEW after \in AfterPeripherals(txs, N, periph)
  PROVE  after \subseteq Transmission /\ Fits(after, periph, id)
<1> DEFINE own == UNION {OfPeripheral(n, periph[n]) : n \in N}
<1>1. ASSUME NEW tx \in own
      PROVE  /\ tx \in Transmission
             /\ tx.recipientAddr \in N
             /\ tx.transmitter = <<"peripheral", periph[tx.recipientAddr]>>
  <2>1. PICK n \in N : tx \in OfPeripheral(n, periph[n])
    BY <1>1
  <2>2. periph[n] \in Ids
    BY DEF Peripherals
  <2> QED BY <2>1, <2>2 DEF OfPeripheral, Transmission, Transmitters
<1>2. PICK kept \in SUBSET own : after = (txs \ own) \cup kept
  BY DEF AfterPeripherals
<1> HIDE DEF own
<1>3. after \subseteq Transmission
  BY <1>1, <1>2
<1>4. Fits(kept, periph, id)
  BY <1>1, <1>2 DEF Fits
<1>5. Fits(txs \ own, periph, id)
  BY DEF Fits
<1> QED BY <1>2, <1>3, <1>4, <1>5, FitsParts

-----------------------------------------------------------------------------
(* Fresh IDs and peripherals *)

LEMMA FreshIdExists ==
  ASSUME NodeInv, NEW n \in Nodes
  PROVE  FreshId(n) \in Ids
<1>1. PICK id \in Ids : id # mScheduleId[n]
  BY DEF Ids
<1>2. InfoRequest(n, id) \notin AllTx
  BY <1>1, InfoRequestType DEF NodeInv, Fits, AllTx, InfoRequest
<1> QED BY <1>1, <1>2 DEF FreshId

LEMMA FreshPeripheralExists ==
  ASSUME NodeInv, NEW n \in Nodes
  PROVE  FreshPeripheral(n) \in Ids
<1>1. PICK k \in Ids : k # mPeripherals[n]
  BY DEF Ids
<1>2. OfPeripheral(n, k) \cap AllTx = {}
  BY <1>1 DEF NodeInv, Fits, OfPeripheral
<1> QED BY <1>1, <1>2 DEF FreshPeripheral

-----------------------------------------------------------------------------
(* The parts of a step *)

\* What the end of an exchange starts from
StateOK(st) ==
  /\ st.conn \in [Subs -> BOOLEAN] /\ st.periph \in Peripherals /\ st.id \in ScheduleIds
  /\ st.txs \subseteq Transmission /\ Fits(st.txs, st.periph, st.id)
  /\ st.periph[Main] = mPeripherals[Main]

LEMMA CurrentFits ==
  ASSUME NodeInv
  PROVE  /\ Fits(schedule, mPeripherals, mScheduleId)
         /\ mCurrentTx # NoTx =>
              /\ mCurrentTx \in Transmission
              /\ Fits({mCurrentTx}, mPeripherals, mScheduleId)
<1>1. mCurrentTx # NoTx => {mCurrentTx} \subseteq AllTx
  BY DEF AllTx
<1>2. schedule \subseteq AllTx
  BY DEF AllTx
<1> QED BY <1>1, <1>2, FitsParts DEF NodeInv, TypeOK

LEMMA UntouchedOK == NodeInv => StateOK(Untouched)
BY CurrentFits DEF NodeInv, TypeOK, StateOK, Untouched, Peripherals, ScheduleIds

\* A sub node which changes loses its peripheral together with its transmissions.
LEMMA SubsConnectedOK ==
  ASSUME NodeInv, NEW attached \in SUBSET Subs
  PROVE  StateOK(SubsConnected(attached)) /\ SubsConnected(attached).id[Main] = mScheduleId[Main]
<1> DEFINE changed == {s \in Subs : mConnected[s] # (s \in attached)}
           st == SubsConnected(attached)
           asked == {InfoRequest(s, FreshId(s)) : s \in changed \cap attached}
<1>0. /\ mPeripherals \in Peripherals /\ mScheduleId \in ScheduleIds
      /\ schedule \subseteq Transmission
      /\ Main \in Nodes /\ Main \notin changed /\ changed \subseteq Nodes
  BY DEF NodeInv, TypeOK, Peripherals, ScheduleIds, Nodes
<1>1. /\ st.conn = [s \in Subs |-> s \in attached]
      /\ st.periph = [n \in Nodes |-> IF n \in changed THEN NoPeripheral
                                                      ELSE mPeripherals[n]]
      /\ st.id = [n \in Nodes |-> IF n \in changed \cap attached
                                  THEN FreshId(n) ELSE mScheduleId[n]]
      /\ st.txs = NotTo(schedule, changed) \cup asked
  BY DEF SubsConnected
<1> HIDE DEF st, changed
<1>2. /\ st.conn \in [Subs -> BOOLEAN] /\ st.periph \in Peripherals
      /\ st.periph[Main] = mPeripherals[Main] /\ st.id[Main] = mScheduleId[Main]
  BY <1>0, <1>1 DEF Peripherals
<1>3. st.id \in ScheduleIds
  BY <1>0, <1>1, FreshIdExists DEF ScheduleIds
<1>4. asked \subseteq Transmission /\ Fits(asked, st.periph, st.id)
  BY <1>0, <1>1, FreshIdExists, InfoRequestType DEF Fits
<1>5. NotTo(schedule, changed) \subseteq Transmission
      /\ Fits(NotTo(schedule, changed), st.periph, st.id)
  <2>1. \A tx \in NotTo(schedule, changed) :
          /\ tx \in schedule /\ tx \in Transmission
          /\ tx.recipientAddr \in Nodes \ changed
    BY <1>0, TransmissionFields DEF NotTo
  <2>2. Fits(schedule, mPeripherals, mScheduleId)
    BY CurrentFits
  <2> QED BY <1>1, <2>1, <2>2 DEF Fits
<1> HIDE DEF asked
<1>6. st.txs \subseteq Transmission /\ Fits(st.txs, st.periph, st.id)
  BY <1>1, <1>4, <1>5, FitsParts
<1>7. StateOK(st) /\ st.id[Main] = mScheduleId[Main]
  BY <1>2, <1>3, <1>6 DEF StateOK
<1> QED BY <1>7 DEF st

\* Without its info request a node has no more of its own.
LEMMA WithoutInfoFits ==
  ASSUME NEW txs \in SUBSET Transmission, NEW n \in Nodes, NEW periph, NEW id,
         Fits(txs, periph, id), id[n] = mScheduleId[n]
  PROVE  /\ WithoutInfo(txs, n) \subseteq Transmission
         /\ Fits(WithoutInfo(txs, n), periph, id)
         /\ \A tx \in WithoutInfo(txs, n) :
              tx.recipientAddr = n => tx.transmitter[1] # "node"
BY DEF WithoutInfo, Fits

\* A node gets a peripheral only when it has none and asks no more, or changes
\* which it has: what the old one had scheduled does not fit the new one.
LEMMA CreatePeripheralFits ==
  ASSUME NodeInv, NEW n \in Nodes, NEW st, StateOK(st),
         st.periph[n] = NoPeripheral,
         NEW txs \in SUBSET Transmission, Fits(txs, st.periph, st.id),
         \A tx \in txs : tx.recipientAddr = n => tx.transmitter[1] # "node",
         CreatePeripheral(n, st, txs)
  PROVE  /\ mPeripherals' \in Peripherals
         /\ mPeripherals' = [st.periph EXCEPT ![n] = FreshPeripheral(n)]
         /\ schedule' \subseteq Transmission
         /\ Fits(schedule', mPeripherals', st.id)
         /\ \A tx \in schedule' : tx.recipientAddr = n => tx.transmitter[1] # "node"
<1>1. /\ mPeripherals' = [st.periph EXCEPT ![n] = FreshPeripheral(n)]
      /\ schedule' \in AfterPeripherals(txs, {n}, mPeripherals')
  BY DEF CreatePeripheral
<1>2. mPeripherals' \in Peripherals /\ mPeripherals'[n] # NoPeripheral
  BY <1>1, FreshPeripheralExists DEF StateOK, Peripherals, Ids
<1>3. Fits(txs, mPeripherals', st.id)
  <2> SUFFICES ASSUME NEW tx \in txs
               PROVE  Fits({tx}, mPeripherals', st.id)
    BY DEF Fits
  <2>1. CASE tx.recipientAddr = n
    <3>1. tx.transmitter[1] \notin {"node", "peripheral"}
      BY <2>1, TransmissionFields DEF Fits, Ids
    <3> QED BY <3>1 DEF Fits
  <2>2. CASE tx.recipientAddr # n
    <3>1. mPeripherals'[tx.recipientAddr] = st.periph[tx.recipientAddr]
      BY <1>1, <2>2, TransmissionFields DEF StateOK, Peripherals
    <3> QED BY <3>1 DEF Fits
  <2> QED BY <2>1, <2>2
<1>4. schedule' \subseteq Transmission /\ Fits(schedule', mPeripherals', st.id)
  BY <1>1, <1>2, <1>3, AfterPeripheralsFits
<1>5. \A tx \in schedule' : tx.recipientAddr = n => tx.transmitter[1] # "node"
  BY <1>2, <1>4 DEF Fits
<1> QED BY <1>1, <1>2, <1>4, <1>5

-----------------------------------------------------------------------------
(* The steps *)

LEMMA NodeInit == Init => NodeInv
<1> SUFFICES ASSUME Init PROVE NodeInv
  OBVIOUS
<1> USE DEF Init
<1>1. Main \in Nodes /\ 1 \in Ids
  BY DEF Nodes, Ids
<1>2. TypeOK
  <2>1. /\ mPeripherals \in [Nodes -> {NoPeripheral} \cup Ids]
        /\ mScheduleId \in [Nodes -> {INVALID_ID} \cup Ids]
        /\ mConnected \in [Subs -> BOOLEAN]
    BY <1>1
  <2>2. mCommFailCount \in 0 .. MAX_FAILURE_DISCONNECT_COUNT - 1 /\ noise \in 0 .. MaxNoise
    BY CountAssumption, NoiseAssumption
  <2>3. schedule \subseteq Transmission
    BY <1>1, InfoRequestType
  <2>4. unanswered \in 0 .. MAX_FAILURE_DISCONNECT_COUNT
    BY CountAssumption
  <2> QED BY <2>1, <2>2, <2>3, <2>4 DEF TypeOK
<1>3. AllTx = {InfoRequest(Main, 1)}
  BY DEF AllTx
<1>4. Fits(AllTx, mPeripherals, mScheduleId)
  BY <1>1, <1>3, InfoRequestType DEF Fits
<1> QED BY <1>2, <1>4 DEF NodeInv, CountFits

\* The invariant after the end of an exchange.
LEMMA EndKeeps ==
  ASSUME NodeInv, mCurrentTx' = NoTx, pc' = "run",
         UNCHANGED <<mDetectionOnly, device>>, noise' \in 0 .. MaxNoise,
         mDeviceDetected' \in BOOLEAN, mConnected' \in [Subs -> BOOLEAN],
         mCommFailCount' \in 0 .. MAX_FAILURE_DISCONNECT_COUNT - 1,
         unanswered' \in 0 .. MAX_FAILURE_DISCONNECT_COUNT, CountFits',
         mPeripherals' \in Peripherals, mScheduleId' \in ScheduleIds,
         schedule' \subseteq Transmission, Fits(schedule', mPeripherals', mScheduleId')
  PROVE  NodeInv'
<1>1. AllTx' = schedule'
  BY DEF AllTx
<1>2. TypeOK'
  BY DEF NodeInv, TypeOK, Peripherals, ScheduleIds
<1>3. Fits(AllTx, mPeripherals, mScheduleId)'
  BY <1>1 DEF Fits
<1> QED BY <1>2, <1>3 DEF NodeInv

\* Called back, the sender of the transmission on the bus may be only the
\* peripheral its node has.
LEMMA AfterCallbackFits ==
  ASSUME NodeInv, mCurrentTx # NoTx, NEW periph \in Peripherals, NEW id,
         periph[mCurrentTx.recipientAddr] = mPeripherals[mCurrentTx.recipientAddr],
         NEW txs \in SUBSET Transmission, Fits(txs, periph, id),
         NEW after \in AfterCallback(txs, periph)
  PROVE  after \subseteq Transmission /\ Fits(after, periph, id)
<1>1. CASE mCurrentTx.transmitter[1] = "peripheral"
  <2>1. /\ mCurrentTx.recipientAddr \in Nodes
        /\ mPeripherals[mCurrentTx.recipientAddr] # NoPeripheral
    BY <1>1, CurrentFits, TransmissionFields DEF Fits, Ids
  <2> QED BY <1>1, <2>1, AfterPeripheralsFits DEF AfterCallback
<1>2. CASE mCurrentTx.transmitter[1] # "peripheral"
  BY <1>2 DEF AfterCallback
<1> QED BY <1>1, <1>2

LEMMA ReadCompleteKeeps ==
  ASSUME NodeInv, ReadComplete
  PROVE  /\ NodeInv'
         /\ mPeripherals[Main] # NoPeripheral => mPeripherals'[Main] # NoPeripheral
<1> DEFINE n == mCurrentTx.recipientAddr
           asked == mCurrentTx.transmitter = <<"node", 0>>
           st == IF n = Main THEN SubsConnected(Attached) ELSE Untouched
<1>0. /\ mCurrentTx # NoTx /\ mCurrentTx' = NoTx /\ pc' = "run"
      /\ UNCHANGED <<mDetectionOnly, device>>
      /\ mCommFailCount' = 0 /\ unanswered' = 0
  BY DEF ReadComplete, CountAfterAnswer
<1>a. PICK answer \in Answers(n) :
        /\ IF answer = "other" THEN noise < MaxNoise /\ noise' = noise + 1
                               ELSE UNCHANGED noise
        /\ mConnected' = st.conn
        /\ CASE asked /\ n = Main /\ answer # "other" -> MainInfo(st)
             [] asked /\ n # Main /\ answer = "info" -> SubInfo(n, st)
             [] OTHER ->
                  /\ schedule' \in AfterCallback(st.txs, st.periph)
                  /\ mPeripherals' = st.periph
                  /\ mScheduleId' = st.id
                  /\ UNCHANGED mDeviceDetected
  BY DEF ReadComplete
<1>1. /\ StateOK(st) /\ n \in Nodes /\ Main \in Nodes
      /\ st.periph[n] = mPeripherals[n] /\ st.id[n] = mScheduleId[n]
  <2>1. Attached \subseteq Subs /\ Main \in Nodes /\ n \in Nodes
    BY <1>0, CurrentFits, TransmissionFields DEF Attached, Nodes
  <2>2. CASE n = Main
    <3>1. StateOK(SubsConnected(Attached)) /\ SubsConnected(Attached).id[Main] = mScheduleId[Main]
      BY <2>1, SubsConnectedOK
    <3> QED BY <2>1, <2>2, <3>1 DEF StateOK
  <2>3. CASE n # Main
    BY <2>1, <2>3, UntouchedOK DEF Untouched
  <2> QED BY <2>2, <2>3
<1>2. asked => mPeripherals[n] = NoPeripheral
  BY <1>0, CurrentFits DEF Fits
<1>3. /\ mDeviceDetected \in BOOLEAN /\ noise' \in 0 .. MaxNoise
      /\ mCommFailCount' \in 0 .. MAX_FAILURE_DISCONNECT_COUNT - 1
      /\ unanswered' \in 0 .. MAX_FAILURE_DISCONNECT_COUNT /\ CountFits'
      /\ mConnected' \in [Subs -> BOOLEAN]
  <2>1. noise \in 0 .. MaxNoise /\ st.conn \in [Subs -> BOOLEAN] /\ mDeviceDetected \in BOOLEAN
    BY <1>1 DEF NodeInv, TypeOK, StateOK
  <2> HIDE DEF st
  <2> QED BY <1>0, <1>a, <2>1, CountAssumption, NoiseAssumption DEF CountFits
<1> HIDE DEF st, n, asked
<1>w. ASSUME NEW txs \in SUBSET Transmission, NEW periph, Fits(txs, periph, st.id),
             \A tx \in txs : tx.recipientAddr = n => tx.transmitter[1] # "node"
      PROVE  Fits(txs, periph, [st.id EXCEPT ![n] = INVALID_ID])
  <2> SUFFICES ASSUME NEW tx \in txs, tx.transmitter[1] = "node"
               PROVE  tx = InfoRequest(tx.recipientAddr,
                             [st.id EXCEPT ![n] = INVALID_ID][tx.recipientAddr])
    BY <1>w DEF Fits
  <2>1. tx.recipientAddr # n /\ tx.recipientAddr \in Nodes
    BY <1>w, TransmissionFields
  <2> QED BY <1>1, <1>w, <2>1 DEF Fits, StateOK, ScheduleIds
<1>s. /\ WithoutInfo(st.txs, n) \subseteq Transmission
      /\ Fits(WithoutInfo(st.txs, n), st.periph, st.id)
      /\ \A tx \in WithoutInfo(st.txs, n) :
           tx.recipientAddr = n => tx.transmitter[1] # "node"
  BY <1>1, WithoutInfoFits DEF StateOK
<1>i. [st.id EXCEPT ![n] = INVALID_ID] \in ScheduleIds
  BY <1>1 DEF StateOK, ScheduleIds
<1>4. ASSUME st.periph[n] = NoPeripheral,
             CreatePeripheral(n, st, WithoutInfo(st.txs, n)),
             mScheduleId' = [st.id EXCEPT ![n] = INVALID_ID], mDeviceDetected' \in BOOLEAN
      PROVE  NodeInv' /\ (mPeripherals[Main] # NoPeripheral => mPeripherals'[Main] # NoPeripheral)
  <2>1. /\ mPeripherals' \in Peripherals
        /\ mPeripherals' = [st.periph EXCEPT ![n] = FreshPeripheral(n)]
        /\ schedule' \subseteq Transmission
        /\ Fits(schedule', mPeripherals', st.id)
        /\ \A tx \in schedule' : tx.recipientAddr = n => tx.transmitter[1] # "node"
    BY <1>1, <1>s, <1>4, CreatePeripheralFits
  <2>2. NodeInv'
    BY <1>0, <1>3, <1>4, <1>w, <1>i, <2>1, EndKeeps
  <2>3. FreshPeripheral(n) # NoPeripheral
    BY <1>1, FreshPeripheralExists DEF Ids
  <2>4. st.periph \in Peripherals /\ st.periph[Main] = mPeripherals[Main]
    BY <1>1 DEF StateOK
  <2> QED BY <1>1, <2>1, <2>2, <2>3, <2>4 DEF Peripherals
<1>5. ASSUME schedule' = WithoutInfo(st.txs, n), mPeripherals' = st.periph,
             mScheduleId' = [st.id EXCEPT ![n] = INVALID_ID], mDeviceDetected' \in BOOLEAN
      PROVE  NodeInv' /\ (mPeripherals[Main] # NoPeripheral => mPeripherals'[Main] # NoPeripheral)
  <2>1. NodeInv'
    BY <1>0, <1>1, <1>3, <1>5, <1>s, <1>w, <1>i, EndKeeps DEF StateOK
  <2> QED BY <1>1, <1>5, <2>1 DEF StateOK
<1>6. CASE asked /\ n = Main /\ answer # "other"
  <2>0. MainInfo(st)
    BY <1>a, <1>6
  <2>1. CASE mDetectionOnly
    BY <1>5, <1>6, <2>0, <2>1 DEF MainInfo
  <2>2. CASE ~ mDetectionOnly /\ device[Main] = "known"
    BY <1>1, <1>2, <1>4, <1>6, <2>0, <2>2 DEF MainInfo
  <2>3. CASE ~ mDetectionOnly /\ device[Main] # "known"
    <3>1. /\ schedule' = st.txs /\ mScheduleId' = st.id /\ mPeripherals' = st.periph
          /\ mDeviceDetected' \in BOOLEAN
      BY <2>0, <2>3 DEF MainInfo
    <3>2. NodeInv'
      BY <1>0, <1>1, <1>3, <3>1, EndKeeps DEF StateOK
    <3> QED BY <1>1, <3>1, <3>2 DEF StateOK
  <2> QED BY <2>1, <2>2, <2>3
<1>7. CASE asked /\ n # Main /\ answer = "info"
  <2>0. SubInfo(n, st)
    BY <1>a, <1>7
  <2>1. CASE device[n] = "known"
    BY <1>1, <1>2, <1>3, <1>4, <1>7, <2>0, <2>1 DEF SubInfo
  <2>2. CASE device[n] # "known"
    <3>1. [st.periph EXCEPT ![n] = NoPeripheral] = st.periph
      BY <1>1, <1>2, <1>7 DEF StateOK, Peripherals
    <3> QED BY <1>3, <1>5, <2>0, <2>2, <3>1 DEF SubInfo
  <2> QED BY <2>1, <2>2
<1>8. CASE /\ ~ (asked /\ n = Main /\ answer # "other")
           /\ ~ (asked /\ n # Main /\ answer = "info")
  <2>1. /\ schedule' \in AfterCallback(st.txs, st.periph)
        /\ mPeripherals' = st.periph /\ mScheduleId' = st.id
        /\ UNCHANGED mDeviceDetected
    BY <1>a, <1>8
  <2>2. schedule' \subseteq Transmission /\ Fits(schedule', st.periph, st.id)
    BY <1>0, <1>1, <2>1, AfterCallbackFits DEF StateOK, n
  <2>3. NodeInv'
    BY <1>0, <1>1, <1>3, <2>1, <2>2, EndKeeps DEF StateOK
  <2> QED BY <1>1, <2>1, <2>3 DEF StateOK
<1> QED BY <1>6, <1>7, <1>8

\* A peripheral of the main node is disconnected only by the last of a number of
\* failures of exchanges with it.
LEMMA ReadFailedKeeps ==
  ASSUME NodeInv, ReadFailed
  PROVE  /\ NodeInv'
         /\ mPeripherals[Main] # NoPeripheral /\ mPeripherals'[Main] = NoPeripheral =>
              /\ mCurrentTx.recipientAddr = Main
              /\ unanswered' = MAX_FAILURE_DISCONNECT_COUNT
<1> DEFINE n == mCurrentTx.recipientAddr
           Disconnects == /\ CountsAsFailure(n)
                          /\ mCommFailCount + 1 >= MAX_FAILURE_DISCONNECT_COUNT
                          /\ mPeripherals[Main] # NoPeripheral
           lost == {Main} \cup {s \in Subs : mConnected[s]}
<1>0. /\ mCurrentTx # NoTx /\ mCurrentTx' = NoTx /\ pc' = "run"
      /\ UNCHANGED <<mDetectionOnly, device>>
      /\ mCommFailCount' = CountAfterFailure(n) /\ unanswered' = UnansweredAfter(n)
  BY DEF ReadFailed
<1>1. PICK txs \in AfterCallback(schedule, mPeripherals) :
        IF Disconnects THEN disconnectMainPeripheral(txs)
        ELSE /\ schedule' = txs
             /\ UNCHANGED <<mDeviceDetected, mPeripherals, mConnected, mScheduleId>>
  BY DEF ReadFailed
<1>2. /\ mPeripherals \in Peripherals /\ mScheduleId \in ScheduleIds
      /\ mConnected \in [Subs -> BOOLEAN] /\ mDeviceDetected \in BOOLEAN
      /\ mCommFailCount \in 0 .. MAX_FAILURE_DISCONNECT_COUNT - 1
      /\ schedule \in SUBSET Transmission
      /\ Main \in Nodes /\ lost \subseteq Nodes
  BY DEF NodeInv, TypeOK, Peripherals, ScheduleIds, Nodes
<1>3. noise' \in 0 .. MaxNoise
  BY NoiseAssumption DEF ReadFailed, NodeInv, TypeOK
<1>4. /\ mCommFailCount' \in 0 .. MAX_FAILURE_DISCONNECT_COUNT - 1
      /\ unanswered' \in 0 .. MAX_FAILURE_DISCONNECT_COUNT /\ CountFits'
      /\ Disconnects => n = Main /\ unanswered' = MAX_FAILURE_DISCONNECT_COUNT
  <2>1. /\ unanswered \in 0 .. MAX_FAILURE_DISCONNECT_COUNT /\ mCommFailCount <= unanswered
        /\ MAX_FAILURE_DISCONNECT_COUNT \in Nat \ {0}
    BY CountAssumption DEF NodeInv, TypeOK, CountFits
  <2>2. /\ mCommFailCount' = IF n = Main THEN (mCommFailCount + 1) % MAX_FAILURE_DISCONNECT_COUNT
                             ELSE mCommFailCount
        /\ unanswered' = IF n = Main /\ unanswered < MAX_FAILURE_DISCONNECT_COUNT
                         THEN unanswered + 1 ELSE unanswered
    BY <1>0 DEF CountAfterFailure, CountsAsFailure, UnansweredAfter
  <2>3. IF mCommFailCount + 1 = MAX_FAILURE_DISCONNECT_COUNT
        THEN (mCommFailCount + 1) % MAX_FAILURE_DISCONNECT_COUNT = 0
        ELSE (mCommFailCount + 1) % MAX_FAILURE_DISCONNECT_COUNT = mCommFailCount + 1
    BY <1>2, <2>1
  <2> HIDE DEF n
  <2>4. mCommFailCount' <= unanswered'
    BY <1>2, <2>1, <2>2, <2>3
  <2> QED BY <1>2, <2>1, <2>2, <2>3, <2>4 DEF CountFits, CountsAsFailure
<1>5. txs \subseteq Transmission /\ Fits(txs, mPeripherals, mScheduleId)
  BY <1>0, <1>1, <1>2, CurrentFits, AfterCallbackFits
<1>6. CASE Disconnects
  <2>1. disconnectMainPeripheral(txs)
    BY <1>1, <1>6
  <2>2. /\ mPeripherals' = [m \in Nodes |-> IF m = Main \/ mConnected[m]
                                            THEN NoPeripheral ELSE mPeripherals[m]]
        /\ mConnected' = [s \in Subs |-> FALSE] /\ mDeviceDetected' = FALSE
        /\ schedule' = NotTo(txs, lost) \cup {InfoRequest(Main, FreshId(Main))}
        /\ mScheduleId' = [mScheduleId EXCEPT ![Main] = FreshId(Main)]
    BY <2>1 DEF disconnectMainPeripheral
  <2> HIDE DEF lost
  <2>3. mPeripherals' \in Peripherals /\ mScheduleId' \in ScheduleIds
    BY <1>2, <2>2, FreshIdExists DEF Peripherals, ScheduleIds
  <2>4. /\ {InfoRequest(Main, FreshId(Main))} \subseteq Transmission
        /\ Fits({InfoRequest(Main, FreshId(Main))}, mPeripherals', mScheduleId')
    <3>1. /\ FreshId(Main) \in Ids
          /\ mPeripherals'[Main] = NoPeripheral /\ mScheduleId'[Main] = FreshId(Main)
      BY <1>2, <2>2, FreshIdExists DEF ScheduleIds
    <3>2. /\ InfoRequest(Main, FreshId(Main)) \in Transmission
          /\ InfoRequest(Main, FreshId(Main)).recipientAddr = Main
          /\ InfoRequest(Main, FreshId(Main)).transmitter[1] = "node"
      BY <1>2, <3>1, InfoRequestType
    <3> QED BY <3>1, <3>2 DEF Fits
  <2>5. \A tx \in NotTo(txs, lost) :
          /\ tx \in txs /\ tx \in Transmission /\ tx.recipientAddr \in Nodes
          /\ mPeripherals'[tx.recipientAddr] = mPeripherals[tx.recipientAddr]
          /\ mScheduleId'[tx.recipientAddr] = mScheduleId[tx.recipientAddr]
    <3>1. \A m \in Nodes \ lost : m # Main /\ m \in Subs /\ ~ mConnected[m]
      BY DEF Nodes, lost
    <3> QED BY <1>2, <1>5, <2>2, <3>1, TransmissionFields DEF NotTo, ScheduleIds
  <2>6. NotTo(txs, lost) \subseteq Transmission
        /\ Fits(NotTo(txs, lost), mPeripherals', mScheduleId')
    BY <1>5, <2>5 DEF Fits
  <2>7. schedule' \subseteq Transmission /\ Fits(schedule', mPeripherals', mScheduleId')
    BY <2>2, <2>4, <2>6, FitsParts
  <2>8. NodeInv'
    BY <1>0, <1>3, <1>4, <2>2, <2>3, <2>7, EndKeeps
  <2> QED BY <1>4, <1>6, <2>8
<1>7. CASE ~ Disconnects
  <2>1. NodeInv'
    BY <1>0, <1>1, <1>2, <1>3, <1>4, <1>5, <1>7, EndKeeps
  <2> QED BY <1>1, <1>7, <2>1
<1> QED BY <1>6, <1>7

\* What neither ends nor begins an exchange keeps the invariant if the schedule
\* still fits.
LEMMA ScheduleChangeKeeps ==
  ASSUME NodeInv, UNCHANGED <<mDetectionOnly, nodeVars, mCurrentTx, noise, unanswered>>,
         pc' \in {"read", "run", "write"}, device' \in [Nodes -> Devices],
         schedule' \subseteq Transmission, Fits(schedule', mPeripherals, mScheduleId)
  PROVE  NodeInv'
<1>1. TypeOK'
  BY DEF NodeInv, TypeOK, nodeVars
<1>2. Fits({mCurrentTx} \ {NoTx}, mPeripherals, mScheduleId)
  BY CurrentFits, FitsParts DEF Fits
<1>3. Fits(AllTx', mPeripherals, mScheduleId)
  BY <1>2, FitsParts DEF AllTx
<1>4. Fits(AllTx, mPeripherals, mScheduleId)'
  BY <1>3 DEF Fits, nodeVars
<1>5. CountFits'
  BY DEF NodeInv, CountFits, nodeVars
<1> QED BY <1>1, <1>4, <1>5 DEF NodeInv

LEMMA OthersKeep ==
  ASSUME NodeInv,
         \/ ReadNothing \/ runDependentTasks \/ WriteNothing
         \/ \E tx \in schedule : Write(tx)
         \/ \E n \in Commanded : Passthrough(n)
         \/ \E n \in Nodes : \E d \in Devices : Plug(n, d)
         \/ UNCHANGED vars
  PROVE  NodeInv' /\ UNCHANGED mPeripherals
<1> USE DEF nodeVars
<1>0. /\ schedule \in SUBSET Transmission /\ Fits(schedule, mPeripherals, mScheduleId)
      /\ mPeripherals \in Peripherals
      /\ pc \in {"read", "run", "write"} /\ device \in [Nodes -> Devices]
  BY CurrentFits DEF NodeInv, TypeOK, Peripherals
<1>1. CASE ReadNothing \/ WriteNothing \/ UNCHANGED vars
  BY <1>0, <1>1, ScheduleChangeKeeps DEF ReadNothing, WriteNothing, vars
<1>2. CASE runDependentTasks
  <2>1. PICK txs \in AfterPeripherals(schedule, Running, mPeripherals) :
          schedule' = IF NeedsHeartbeat(txs) THEN txs \cup {Heartbeat} ELSE txs
    BY <1>2 DEF runDependentTasks
  <2>2. Running \in SUBSET Nodes /\ \A n \in Running : mPeripherals[n] # NoPeripheral
    BY DEF Running
  <2>3. txs \subseteq Transmission /\ Fits(txs, mPeripherals, mScheduleId)
    BY <1>0, <2>2, AfterPeripheralsFits
  <2>4. Main \in Nodes
    BY DEF Nodes
  <2>5. /\ {Heartbeat} \subseteq Transmission
        /\ Fits({Heartbeat}, mPeripherals, mScheduleId)
    BY <2>4, SinglesFit DEF Fits
  <2>6. schedule' \subseteq Transmission /\ Fits(schedule', mPeripherals, mScheduleId)
    BY <2>1, <2>3, <2>5, FitsParts
  <2> QED BY <1>0, <1>2, <2>6, ScheduleChangeKeeps DEF runDependentTasks
<1>3. ASSUME NEW tx \in schedule, Write(tx) PROVE NodeInv' /\ UNCHANGED mPeripherals
  <2> USE <1>3 DEF Write
  <2>1. AllTx' \subseteq schedule
    BY DEF AllTx
  <2>2. TypeOK'
    BY <1>0 DEF NodeInv, TypeOK
  <2>3. Fits(AllTx', mPeripherals, mScheduleId)
    BY <1>0, <2>1, FitsParts
  <2>4. Fits(AllTx, mPeripherals, mScheduleId)'
    BY <2>3 DEF Fits
  <2>5. CountFits'
    BY DEF NodeInv, CountFits
  <2> QED BY <2>2, <2>4, <2>5 DEF NodeInv
<1>4. ASSUME NEW n \in Commanded, Passthrough(n) PROVE NodeInv' /\ UNCHANGED mPeripherals
  <2>1. {Command(n)} \subseteq Transmission /\ Fits({Command(n)}, mPeripherals, mScheduleId)
    BY SinglesFit DEF Fits
  <2>2. /\ schedule \cup {Command(n)} \subseteq Transmission
        /\ Fits(schedule \cup {Command(n)}, mPeripherals, mScheduleId)
    BY <1>0, <2>1, FitsParts
  <2> QED BY <1>0, <1>4, <2>2, ScheduleChangeKeeps DEF Passthrough
<1>5. ASSUME NEW n \in Nodes, NEW d \in Devices, Plug(n, d)
      PROVE  NodeInv' /\ UNCHANGED mPeripherals
  BY <1>0, <1>5, ScheduleChangeKeeps DEF Plug
<1> QED BY <1>1, <1>2, <1>3, <1>4, <1>5

-----------------------------------------------------------------------------
(* Theorems *)

LEMMA NodeNext == NodeInv /\ [Next]_vars => NodeInv'
BY ReadCompleteKeeps, ReadFailedKeeps, OthersKeep DEF Next, task

(* Types, and that every transmission in the schedule or on the bus fits the
   node and the peripheral it belongs to. *)
THEOREM NodeInvariant == Spec => []NodeInv
BY NodeInit, NodeNext, PTL DEF Spec

(* No transmission outlives the peripheral which its plain pointer refers to,
   however devices come and go and exchanges fail. *)
THEOREM NeverDangling == Spec => []NoDanglingTransmitter
<1>1. NodeInv => NoDanglingTransmitter
  BY DEF NodeInv, Fits, NoDanglingTransmitter
<1> QED BY <1>1, NodeInvariant, PTL

(* A peripheral of the main node is disconnected only by the failure which makes
   MAX_FAILURE_DISCONNECT_COUNT exchanges with it that failed with no answer of any
   node after the first of them: however mCommFailCount is counted and reset, it
   never runs ahead of the history. *)
THEOREM DisconnectsAfterFailures == Spec => DisconnectNeedsFailures
<1>1. NodeInv /\ [Next]_vars =>
        [mPeripherals[Main] # NoPeripheral /\ mPeripherals'[Main] = NoPeripheral =>
           /\ mCurrentTx.recipientAddr = Main
           /\ unanswered' = MAX_FAILURE_DISCONNECT_COUNT]_vars
  BY ReadCompleteKeeps, ReadFailedKeeps, OthersKeep DEF Next, task
<1> QED BY <1>1, NodeInvariant, PTL DEF Spec, DisconnectNeedsFailures
=============================================================================
