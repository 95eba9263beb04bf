----------------------------- MODULE TxScheduler -----------------------------
(***************************************************************************)
(* The schedule of Maple Bus transmissions of one host port and the        *)
(* timeliner which sends them:                                             *)
(*   src/hostLib/PrioritizedTxScheduler.cpp, TransmissionTimeliner.cpp.    *)
(*                                                                         *)
(* mSchedule holds one list per priority (0 is the highest), ordered by    *)
(* the time at which each transmission is due.  Nodes, peripherals and     *)
(* command parsers add and cancel transmissions; the timeliner pops one    *)
(* whenever the bus is free and puts it on the wire, where it stays        *)
(* (mCurrentTx) until the bus reports an end of the exchange.  All of it   *)
(* runs on core 1, one call at a time.                                     *)
(*                                                                         *)
(* The payload of a packet, its byte order and its transmitter are not     *)
(* modelled: the schedule never looks at them.                             *)
(***************************************************************************)
EXTENDS Integers, Sequences, SequencesExt

CONSTANTS
  NumPriorities,  \* number of priority lists (PRIORITY_COUNT)
  Requests,       \* the transmissions callers ask for: see RequestType
  TxTimes,        \* the times they may ask for: past, TX_TIME_ASAP, to come
  TxIdModulus,    \* transmission IDs are counted modulo this (2^32)
  MaxTime         \* bound of the model: the clock stops here

Priorities == 0 .. NumPriorities - 1

INVALID_TX_ID == 0   \* also "no transmission" in currentTxId
TX_TIME_ASAP == 0

\* What a caller chooses of a transmission, its first time excepted;
\* repeatFor is how long it is to be repeated (0: forever).
RequestType == [priority : Priorities, recipientAddr : Nat, txDurationUs : Nat,
                autoRepeatUs : Nat, repeatFor : Nat]

ASSUME PrioritiesAssumption == NumPriorities \in Nat \ {0}
ASSUME RequestsAssumption == Requests \subseteq RequestType
ASSUME TxTimesAssumption == TxTimes \subseteq Nat
ASSUME IdAssumption == TxIdModulus \in Nat \ {0, 1}
ASSUME TimeAssumption == MaxTime \in Nat

ScheduledTx == [transmissionId : 1 .. TxIdModulus - 1, priority : Priorities,
                 recipientAddr : Nat, txDurationUs : Nat, autoRepeatUs : Nat,
                 autoRepeatEndTimeUs : Nat, nextTxTimeUs : Nat]

VARIABLES
  mSchedule,      \* priority -> list of transmissions
  mNextId,        \* ID of the next transmission to be created
  currentTxId,    \* mCurrentTx, by its ID: INVALID_TX_ID if none is on the wire
  currentTimeUs   \* the clock

schedulerVars == <<mSchedule, mNextId, currentTxId, currentTimeUs>>

-----------------------------------------------------------------------------
(* Lists *)

\* Mutant: insertion ahead of items due at the same time.
InsertPosition_BeforeEquals(list, t) ==
  CHOOSE k \in 1 .. Len(list) + 1 :
    /\ \A i \in 1 .. k - 1 : list[i].nextTxTimeUs < t
    /\ k <= Len(list) => list[k].nextTxTimeUs >= t

\* The position before which add() inserts an element due at time t: behind
\* everything due at t or earlier, up to the first element due later.
InsertPosition(list, t) ==
  CHOOSE k \in 1 .. Len(list) + 1 :
    /\ \A i \in 1 .. k - 1 : list[i].nextTxTimeUs <= t
    /\ k <= Len(list) => list[k].nextTxTimeUs > t

Insert(list, tx) == InsertAt(list, InsertPosition(list, tx.nextTxTimeUs), tx)

\* e enumerates the set K of naturals in increasing order.
Enumerates(e, K) ==
  /\ \A i, j \in DOMAIN e : i < j => e[i] < e[j]
  /\ \A k \in K : \E i \in DOMAIN e : e[i] = k

\* The elements of list at the positions K, in their order.
KeepPositions(list, K) ==
  LET e == CHOOSE f \in UNION {[1 .. n -> K] : n \in 0 .. Len(list)} : Enumerates(f, K)
  IN  [i \in DOMAIN e |-> list[e[i]]]

\* The schedule with all transmissions of the set doomed erased.
Without(doomed) ==
  [p \in Priorities |->
     KeepPositions(mSchedule[p],
                   {i \in DOMAIN mSchedule[p] : mSchedule[p][i] \notin doomed})]

Scheduled == UNION {ToSet(mSchedule[p]) : p \in Priorities}

-----------------------------------------------------------------------------
(* Time on a cadence *)

\* Mutant: rounded down.
DivideCeiling_Floor(x, y) == x \div y

\* x / y rounded up (INT_DIVIDE_CEILING)
DivideCeiling(x, y) == (x + y - 1) \div y

\* The time, on the grid {offset + k * period}, of the next repetition.
computeNextTimeCadence(now, period, offset) ==
  IF offset > now THEN offset
  ELSE IF offset = 0 THEN now + period
  ELSE LET n == DivideCeiling(now - offset, period)
       IN  offset + period * (IF n = 0 THEN 1 ELSE n)

-----------------------------------------------------------------------------
(* Selection of the next transmission *)

HeadDue(p) == mSchedule[p] # <<>> /\ mSchedule[p][1].nextTxTimeUs <= currentTimeUs

\* Mutant: only the list of the next higher priority is looked at.
InTheWay_NextHigherOnly(p, tx) ==
  /\ p > 0
  /\ mSchedule[p - 1] # <<>>
  /\ mSchedule[p - 1][1].nextTxTimeUs < currentTimeUs + tx.txDurationUs

\* Sent now, tx would still be on the wire when the head of a list of higher
\* priority than p becomes due.
InTheWay(p, tx) ==
  \E r \in 0 .. p - 1 :
    /\ mSchedule[r] # <<>>
    /\ mSchedule[r][1].nextTxTimeUs < currentTimeUs + tx.txDurationUs

\* Mutant: the recipients of skipped items are forgotten.
Usable_AnyRecipient(p, i) ==
  /\ \A j \in 1 .. i : mSchedule[p][j].nextTxTimeUs <= currentTimeUs
  /\ ~ InTheWay(p, mSchedule[p][i])

\* The item at position i of list p may be used: it and all before it are due,
\* it is in nobody's way, and no item for its recipient was skipped before it.
Usable(p, i) ==
  /\ \A j \in 1 .. i : mSchedule[p][j].nextTxTimeUs <= currentTimeUs
  /\ ~ InTheWay(p, mSchedule[p][i])
  /\ \A j \in 1 .. i - 1 :
       mSchedule[p][j].recipientAddr # mSchedule[p][i].recipientAddr

\* peekNext() returns the item at position i of list p.  Only the list of
\* highest priority with something due is looked at.
PeekNext(p, i) ==
  /\ HeadDue(p)
  /\ \A r \in 0 .. p - 1 : ~ HeadDue(r)
  /\ Usable(p, i)
  /\ \A j \in 1 .. i - 1 : ~ Usable(p, j)

-----------------------------------------------------------------------------
SchedulerInit ==
  /\ mSchedule = [p \in Priorities |-> <<>>]
  /\ mNextId = 1
  /\ currentTxId = INVALID_TX_ID
  /\ currentTimeUs = 1

\* mNextId++ on a uint32_t
IdAfter(id) == (id + 1) % TxIdModulus

\* add(): a caller asks for r to be sent at txTime.  The assertion that IDs
\* have not wrapped around stops the program, and so the action.
AddTx(r, txTime) ==
  /\ mNextId # INVALID_TX_ID
  /\ LET tx == [transmissionId |-> mNextId,
                priority |-> r.priority,
                recipientAddr |-> r.recipientAddr,
                txDurationUs |-> r.txDurationUs,
                autoRepeatUs |-> r.autoRepeatUs,
                autoRepeatEndTimeUs |->
                  IF r.repeatFor = 0 THEN 0 ELSE currentTimeUs + r.repeatFor,
                nextTxTimeUs |-> txTime]
     IN  mSchedule' = [mSchedule EXCEPT ![r.priority] = Insert(@, tx)]
  /\ mNextId' = IdAfter(mNextId)
  /\ UNCHANGED <<currentTxId, currentTimeUs>>

\* The transmission is repeated after having been popped now.
Repeats(tx) ==
  /\ tx.autoRepeatUs > 0
  /\ tx.autoRepeatEndTimeUs = 0 \/ currentTimeUs <= tx.autoRepeatEndTimeUs

\* popItem() of the item at position i of list p, and the list it leaves.
Popped(p, i) ==
  LET tx == mSchedule[p][i]
      rest == RemoveAt(mSchedule[p], i)
      again == [tx EXCEPT !.nextTxTimeUs =
                  computeNextTimeCadence(currentTimeUs, tx.autoRepeatUs, @)]
  IN  IF Repeats(tx) THEN Insert(rest, again) ELSE rest

\* TransmissionTimeliner::writeTask(), when the bus is idle and accepts the
\* packet; otherwise the call changes nothing.
WriteTask ==
  /\ currentTxId = INVALID_TX_ID
  /\ \E p \in Priorities : \E i \in DOMAIN mSchedule[p] :
       /\ PeekNext(p, i)
       /\ currentTxId' = mSchedule[p][i].transmissionId
       /\ mSchedule' = [mSchedule EXCEPT ![p] = Popped(p, i)]
  /\ UNCHANGED <<mNextId, currentTimeUs>>

\* TransmissionTimeliner::readTask(), when the bus reports that the exchange
\* has ended: complete, written without a response expected, or failed.
ReadTask ==
  /\ currentTxId # INVALID_TX_ID
  /\ currentTxId' = INVALID_TX_ID
  /\ UNCHANGED <<mSchedule, mNextId, currentTimeUs>>

Cancel(doomed) ==
  /\ mSchedule' = Without(doomed)
  /\ UNCHANGED <<mNextId, currentTxId, currentTimeUs>>

CancelById(id) == Cancel({tx \in Scheduled : tx.transmissionId = id})

CancelByRecipient(addr) == Cancel({tx \in Scheduled : tx.recipientAddr = addr})

CancelAll == Cancel(Scheduled)

Tick ==
  /\ currentTimeUs < MaxTime
  /\ currentTimeUs' = currentTimeUs + 1
  /\ UNCHANGED <<mSchedule, mNextId, currentTxId>>

SchedulerNext ==
  \/ \E r \in Requests, txTime \in {TX_TIME_ASAP} \cup TxTimes : AddTx(r, txTime)
  \/ WriteTask
  \/ ReadTask
  \/ \E id \in 1 .. TxIdModulus - 1 : CancelById(id)
  \/ \E r \in Requests : CancelByRecipient(r.recipientAddr)
  \/ CancelAll
  \/ Tick

SchedulerSpec == SchedulerInit /\ [][SchedulerNext]_schedulerVars
-----------------------------------------------------------------------------
(* Invariants *)

SchedulerTypeOK ==
  /\ mSchedule \in [Priorities -> Seq(ScheduledTx)]
  /\ mNextId \in 0 .. TxIdModulus - 1
  /\ currentTxId \in 0 .. TxIdModulus - 1
  /\ currentTimeUs \in Nat

\* Every list stays ordered by due time, although repetitions are inserted
\* with new times and items are erased from the middle.  peekNext() relies on
\* it: it looks at the heads only and stops at the first item not yet due.
OrderedList(list) ==
  \A i, j \in DOMAIN list : i < j => list[i].nextTxTimeUs <= list[j].nextTxTimeUs

Ordered == \A p \in Priorities : OrderedList(mSchedule[p])

\* An ID names at most one scheduled transmission ("Unique ID of this
\* transmission"), so that cancelById() never erases another caller's.
UniqueIds ==
  \A p, r \in Priorities :
    \A i \in DOMAIN mSchedule[p], j \in DOMAIN mSchedule[r] :
      mSchedule[p][i].transmissionId = mSchedule[r][j].transmissionId
        => p = r /\ i = j

\* Of two transmissions which are sent once and are due at the same time, the
\* one added first comes first in its list.
StampedList(list) ==
  \A i, j \in DOMAIN list :
    /\ i < j
    /\ list[i].nextTxTimeUs = list[j].nextTxTimeUs
    /\ list[i].autoRepeatUs = 0
    /\ list[j].autoRepeatUs = 0
    => list[i].transmissionId < list[j].transmissionId

AddedInOrder == \A p \in Priorities : StampedList(mSchedule[p])

\* Until the counter wraps around, every ID in use is below it.
IdsIssued ==
  mNextId # INVALID_TX_ID =>
    \A p \in Priorities : \A i \in DOMAIN mSchedule[p] :
      mSchedule[p][i].transmissionId < mNextId

\* Each transmission is in the list of its priority.
InOwnList ==
  \A p \in Priorities : \A i \in DOMAIN mSchedule[p] : mSchedule[p][i].priority = p

\* The inductive invariant: lists stay ordered by time and, within a time, by
\* age; no ID is handed out twice because all in use are below the counter.
IInv == SchedulerTypeOK /\ Ordered /\ UniqueIds /\ AddedInOrder /\ IdsIssued /\ InOwnList

-----------------------------------------------------------------------------
(* Action properties *)

\* The scheduled transmission that this step puts on the wire.
StartsTx(tx) ==
  /\ currentTxId = INVALID_TX_ID
  /\ tx \in Scheduled
  /\ currentTxId' = tx.transmissionId

\* A transmission is only started when, by its planned duration, it is over
\* before anything of higher priority becomes due.  peekNext() looks at the
\* heads of the lists; the property is about every item.
NoPriorityInversion ==
  [][\A tx \in Scheduled : StartsTx(tx) =>
       \A other \in Scheduled :
         other.priority < tx.priority
           => other.nextTxTimeUs >= currentTimeUs + tx.txDurationUs]_schedulerVars

\* "Preserve order for each recipient": nothing for the same recipient at the
\* same priority that was due earlier, or was due at the same time but was
\* added earlier, is overtaken, even when the search skips items.
RecipientOrder ==
  [][\A tx \in Scheduled : StartsTx(tx) =>
       \A other \in Scheduled \ {tx} :
         /\ other.priority = tx.priority
         /\ other.recipientAddr = tx.recipientAddr
         => \/ tx.nextTxTimeUs < other.nextTxTimeUs
            \/ /\ tx.nextTxTimeUs = other.nextTxTimeUs
               /\ tx.autoRepeatUs = 0 /\ other.autoRepeatUs = 0
                    => tx.transmissionId < other.transmissionId]_schedulerVars

\* next is a repetition of tx, which is popped now, as its cadence has it.
OnCadence(tx, next) ==
  /\ next.nextTxTimeUs \in currentTimeUs .. currentTimeUs + tx.autoRepeatUs
  /\ tx.nextTxTimeUs # TX_TIME_ASAP =>
       (next.nextTxTimeUs - tx.nextTxTimeUs) % tx.autoRepeatUs = 0
  /\ next.nextTxTimeUs = currentTimeUs =>
       tx.nextTxTimeUs \notin {TX_TIME_ASAP, currentTimeUs}
  /\ next.nextTxTimeUs = currentTimeUs + tx.autoRepeatUs =>
       tx.nextTxTimeUs \in {TX_TIME_ASAP, currentTimeUs}
  /\ tx.autoRepeatEndTimeUs # 0 =>
       next.nextTxTimeUs <= tx.autoRepeatEndTimeUs + tx.autoRepeatUs

\* A repeated transmission stays on its grid, and no time of the grid is skipped:
\* its next time is the first one that is neither past nor its own.  That is now
\* itself when it was popped late by whole periods, and else in the future.  No
\* repetition is planned later than one period after the time at which repeating
\* is to end.
CadenceKept ==
  [][\A tx \in Scheduled, next \in Scheduled' :
       /\ StartsTx(tx)
       /\ next.transmissionId = tx.transmissionId
       => OnCadence(tx, next)]_schedulerVars

\* What the comment of computeNextTimeCadence() says of it: "the next time in the
\* future".  A transmission popped late by whole periods is planned for now.
NextTimeInFuture ==
  [][\A tx \in Scheduled, next \in Scheduled' :
       /\ StartsTx(tx)
       /\ next.transmissionId = tx.transmissionId
       => next.nextTxTimeUs > currentTimeUs]_schedulerVars
=============================================================================
