------------------------------- MODULE HostScreen -------------------------------
(***************************************************************************)
(* The screen of a memory unit on the host: ScreenData, the picture of a   *)
(* player, and DreamcastScreen, which writes it to the device.             *)
(*                                                                         *)
(* All of it runs on core 1: commands change the picture, task() schedules *)
(* a transmission when there is a new one, and the callbacks of the bus    *)
(* keep mTransmissionId.  A picture which a command passed on to the       *)
(* device itself is only saved here.  The schedule is that of              *)
(* TxScheduler: packets of commands go first, others in their order.       *)
(***************************************************************************)
EXTENDS Naturals, Sequences

CONSTANTS
  Pictures,
  TxIds,            \* IDs of transmissions; a bound on those which are held
  MaxScheduled      \* a bound on the schedule

ASSUME TxIdsAssumption == TxIds \subseteq Nat \ {0}

NoTxId == 0
DefaultPicture == CHOOSE picture \in Pictures : TRUE

VARIABLES
  mScreenData, mNewDataAvailable,
  hasScreen,            \* is there a DreamcastScreen?
  mUpdateRequired, mWaitingForData, mTransmissionId,
  scheduled,            \* [id, picture, update] in the order they will be sent
  onBus,                \* at most one of them
  display,              \* what the device shows
  updateFailed,         \* did its last update fail?
  updateIsLast          \* was the picture last changed by an update?

peripheral == <<hasScreen, mUpdateRequired, mWaitingForData, mTransmissionId>>
bus == <<scheduled, onBus>>
history == <<updateFailed, updateIsLast>>
screenVars == <<mScreenData, mNewDataAvailable, peripheral, bus, display, history>>

ScreenInit ==
  /\ mScreenData = DefaultPicture /\ mNewDataAvailable = TRUE
  /\ hasScreen = FALSE
  /\ mUpdateRequired = TRUE /\ mWaitingForData = FALSE /\ mTransmissionId = NoTxId
  /\ scheduled = <<>> /\ onBus = <<>>
  /\ display = DefaultPicture
  /\ updateFailed = FALSE /\ updateIsLast = TRUE

IdsInUse ==
  {scheduled[i].id : i \in DOMAIN scheduled} \cup {onBus[i].id : i \in DOMAIN onBus}
    \cup {mTransmissionId}

FreshIds == TxIds \ IdsInUse

-----------------------------------------------------------------------------
\* setData(), setDataToADefault() and resetToDefault()
SetPicture(picture) ==
  /\ mScreenData' = picture
  /\ mNewDataAvailable' = TRUE
  /\ updateIsLast' = TRUE
  /\ UNCHANGED <<peripheral, bus, display, updateFailed>>

\* A command which passes a packet with a picture on saves it without an update.
PassOn(picture) ==
  /\ hasScreen /\ Len(scheduled) < MaxScheduled
  /\ mScreenData' = picture
  /\ \E id \in FreshIds :
       scheduled' = SelectSeq(scheduled, LAMBDA tx : ~ tx.update)
                      \o <<[id |-> id, picture |-> picture, update |-> FALSE]>>
                      \o SelectSeq(scheduled, LAMBDA tx : tx.update)
  /\ updateIsLast' = FALSE
  /\ UNCHANGED <<mNewDataAvailable, peripheral, onBus, display, updateFailed>>

\* The previous update is cancelled if it has not been started.
AfterCancel ==
  IF mTransmissionId # NoTxId /\ ~ mWaitingForData
  THEN SelectSeq(scheduled, LAMBDA tx : tx.id # mTransmissionId)
  ELSE scheduled

\* task(), when it is time again: readData() takes the news.
Task ==
  /\ hasScreen /\ (mNewDataAvailable \/ mUpdateRequired)
  /\ Len(AfterCancel) < MaxScheduled
  /\ mNewDataAvailable' = FALSE
  /\ mUpdateRequired' = FALSE
  /\ \E id \in FreshIds :
       /\ mTransmissionId' = id
       /\ scheduled' = Append(AfterCancel, [id |-> id, picture |-> mScreenData, update |-> TRUE])
  /\ UNCHANGED <<mScreenData, hasScreen, mWaitingForData, onBus, display, history>>

\* The bus sends the next packet: txStarted().
Started ==
  /\ onBus = <<>> /\ scheduled # <<>>
  /\ onBus' = <<Head(scheduled)>>
  /\ scheduled' = Tail(scheduled)
  /\ mWaitingForData' = (mWaitingForData \/ Head(scheduled).id = mTransmissionId)
  /\ UNCHANGED <<mScreenData, mNewDataAvailable, hasScreen, mUpdateRequired,
                 mTransmissionId, display, history>>

\* txComplete(): which update was completed is not asked.
Complete ==
  /\ onBus # <<>>
  /\ onBus' = <<>>
  /\ display' = onBus[1].picture
  /\ updateFailed' = (updateFailed /\ ~ onBus[1].update)
  /\ IF mWaitingForData /\ onBus[1].update
     THEN mWaitingForData' = FALSE /\ mTransmissionId' = NoTxId
     ELSE UNCHANGED <<mWaitingForData, mTransmissionId>>
  /\ UNCHANGED <<mScreenData, mNewDataAvailable, hasScreen, mUpdateRequired, scheduled,
                 updateIsLast>>

\* txFailed(): the device may have got the picture or not.
Failed ==
  /\ onBus # <<>>
  /\ onBus' = <<>>
  /\ display' \in {display, onBus[1].picture}
  /\ updateFailed' = (updateFailed \/ onBus[1].update)
  /\ IF onBus[1].update /\ onBus[1].id = mTransmissionId
     THEN mWaitingForData' = FALSE /\ mTransmissionId' = NoTxId
     ELSE UNCHANGED <<mWaitingForData, mTransmissionId>>
  /\ UNCHANGED <<mScreenData, mNewDataAvailable, hasScreen, mUpdateRequired, scheduled,
                 updateIsLast>>

\* Mutant: a new screen waits for a new picture.
RequiredAtFirst_No == FALSE

RequiredAtFirst == TRUE

\* A device is found, which may show anything.
Connect ==
  /\ ~ hasScreen
  /\ hasScreen' = TRUE
  /\ mUpdateRequired' = RequiredAtFirst
  /\ mWaitingForData' = FALSE /\ mTransmissionId' = NoTxId
  /\ display' \in Pictures
  /\ updateFailed' = FALSE
  /\ UNCHANGED <<mScreenData, mNewDataAvailable, bus, updateIsLast>>

\* It is gone: what is scheduled for it is cancelled.
Disconnect ==
  /\ hasScreen /\ onBus = <<>>
  /\ hasScreen' = FALSE
  /\ scheduled' = <<>>
  /\ UNCHANGED <<mScreenData, mNewDataAvailable, mUpdateRequired, mWaitingForData,
                 mTransmissionId, onBus, display, history>>

-----------------------------------------------------------------------------
ScreenNext ==
  \/ \E picture \in Pictures : SetPicture(picture) \/ PassOn(picture)
  \/ Task \/ Started \/ Complete \/ Failed \/ Connect \/ Disconnect

ScreenSpec == ScreenInit /\ [][ScreenNext]_screenVars

-----------------------------------------------------------------------------
\* Once the picture rests, and an update was last, a screen shows it: neither an older
\* update nor the picture of another device stays there; unless its last update failed.
ScreenShown ==
  <>[][UNCHANGED mScreenData]_screenVars =>
    []<>(~ hasScreen \/ ~ updateIsLast \/ updateFailed \/ display = mScreenData)
=============================================================================
