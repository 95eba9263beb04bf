--------------------------- MODULE UsbStorageProofs ---------------------------
(***************************************************************************)
(* Proofs about UsbStorage, for every set of memory units and every number *)
(* of phases in which a block is written.                                  *)
(***************************************************************************)
EXTENDS UsbStorage, TLAPS

USE AccessCountAssumption, NoStorageAssumption, NoAccessTxAssumption

\* A transmission is told from no transmission.
LEMMA ScheduledIsTransmission ==
  ASSUME NEW command \in {"BLOCK_READ", "BLOCK_WRITE", "GET_LAST_ERROR"},
         NEW phase \in 0 .. WriteAccessCount
  PROVE  Scheduled(command, phase) \in StorageTx /\ NoAccessTx \notin StorageTx
BY DEF Scheduled, StorageTx

LEMMA StorageInvInit == StorageInit => StorageInv
<1> SUFFICES ASSUME StorageInit PROVE StorageInv
  OBVIOUS
<1> USE DEF StorageInit, Nothing, Doing
<1>1. StorageTypeOK
  <2>1. /\ mReadState \in [Storages -> States] /\ mWriteState \in [Storages -> States]
        /\ mExiting \in [Storages -> BOOLEAN]
        /\ tx \in [Storages -> StorageTx \cup {NoAccessTx}]
    BY DEF States
  <2>2. mWritePhase \in 0 .. WriteAccessCount + 1
    OBVIOUS
  <2> QED BY <2>1, <2>2 DEF StorageTypeOK
<1>2. NoUseAfterDelete /\ LocksFit /\ StatesFit /\ TxFits /\ WriteProgress
  BY DEF NoUseAfterDelete, LocksFit, StatesFit, TxFits, WriteProgress
<1> QED BY <1>1, <1>2 DEF StorageInv

-----------------------------------------------------------------------------
(* Core 0 *)

LEMMA Core0KeepsStorageInv ==
  ASSUME StorageInv,
         \/ \E f \in Storages : BeginRead(f) \/ BeginWrite(f)
         \/ EndRead \/ EndWrite \/ Expire
  PROVE  StorageInv'
<1> USE DEF StorageInv, Nothing, Doing
<1>1. ASSUME NEW f \in Storages, BeginRead(f) PROVE StorageInv'
  <2> USE <1>1 DEF BeginRead
  <2>1. StorageTypeOK'
    BY DEF StorageTypeOK, States
  <2>2. NoUseAfterDelete' /\ LocksFit' /\ WriteProgress'
    BY DEF LocksFit, NoUseAfterDelete, WriteProgress
  <2>3. StatesFit'
    BY DEF StatesFit, StorageTypeOK, LocksFit
  <2>4. TxFits'
    BY DEF StatesFit, StorageTypeOK, LocksFit, TxFits
  <2> QED BY <2>1, <2>2, <2>3, <2>4
<1>2. ASSUME NEW f \in Storages, BeginWrite(f) PROVE StorageInv'
  <2> USE <1>2 DEF BeginWrite
  <2>1. StorageTypeOK'
    BY DEF StorageTypeOK, States
  <2>2. NoUseAfterDelete' /\ LocksFit' /\ WriteProgress'
    BY DEF LocksFit, NoUseAfterDelete, WriteProgress, StorageTypeOK
  <2>3. StatesFit'
    BY DEF StatesFit, StorageTypeOK, LocksFit
  <2>4. TxFits'
    BY DEF StatesFit, StorageTypeOK, LocksFit, TxFits
  <2> QED BY <2>1, <2>2, <2>3, <2>4
<1>3. CASE EndRead \/ EndWrite
  <2> USE <1>3 DEF EndRead, EndWrite, Return, access
  <2>1. StorageTypeOK'
    BY DEF StorageTypeOK
  <2>2. NoUseAfterDelete' /\ LocksFit' /\ WriteProgress'
    BY DEF LocksFit, NoUseAfterDelete, WriteProgress
  <2>3. StatesFit'
    BY DEF StatesFit, StorageTypeOK, Finished
  <2>4. TxFits'
    BY DEF TxFits
  <2> QED BY <2>1, <2>2, <2>3, <2>4
<1>4. CASE Expire
  <2> USE <1>4 DEF Expire, locks
  <2>1. StorageTypeOK'
    BY DEF StorageTypeOK
  <2>2. NoUseAfterDelete' /\ LocksFit' /\ WriteProgress'
    BY DEF LocksFit, NoUseAfterDelete, WriteProgress
  <2>3. StatesFit' /\ TxFits'
    BY DEF StatesFit, TxFits
  <2> QED BY <2>1, <2>2, <2>3
<1> QED BY <1>1, <1>2, <1>3, <1>4

-----------------------------------------------------------------------------
(* Core 1: storages come and go *)

LEMMA PlugsKeepStorageInv ==
  ASSUME StorageInv,
         \/ \E f \in Storages : PlugUnit(f) \/ UnplugUnit(f)
         \/ AddFile \/ RemoveFile
  PROVE  StorageInv'
<1> USE DEF StorageInv, Nothing, Doing, access
<1>1. ASSUME NEW f \in Storages, PlugUnit(f) PROVE StorageInv'
  <2> USE <1>1 DEF PlugUnit, Exists
  <2>1. StorageTypeOK'
    BY DEF StorageTypeOK
  <2>2. NoUseAfterDelete' /\ LocksFit' /\ WriteProgress'
    BY DEF LocksFit, NoUseAfterDelete, WriteProgress
  <2>3. StatesFit' /\ TxFits'
    BY DEF StatesFit, TxFits
  <2> QED BY <2>1, <2>2, <2>3
<1>2. ASSUME NEW f \in Storages, UnplugUnit(f) PROVE StorageInv'
  <2> USE <1>2 DEF UnplugUnit, Runs, Exists
  <2>1. StorageTypeOK'
    BY DEF StorageTypeOK
  <2>2. NoUseAfterDelete' /\ LocksFit'
    BY DEF LocksFit, NoUseAfterDelete, StorageTypeOK
  <2>3. StatesFit' /\ TxFits' /\ WriteProgress'
    BY DEF StatesFit, TxFits, WriteProgress, StorageTypeOK
  <2> QED BY <2>1, <2>2, <2>3
<1>3. CASE AddFile
  <2> USE <1>3 DEF AddFile
  <2>1. StorageTypeOK'
    BY DEF StorageTypeOK
  <2>2. NoUseAfterDelete' /\ LocksFit' /\ WriteProgress'
    BY DEF LocksFit, NoUseAfterDelete, WriteProgress, StorageTypeOK
  <2>3. StatesFit' /\ TxFits'
    BY DEF StatesFit, TxFits
  <2> QED BY <2>1, <2>2, <2>3
<1>4. CASE RemoveFile
  <2> USE <1>4 DEF RemoveFile, MayRemove
  <2>0. plugger.file \in Storages /\ caller = Nothing
    BY DEF StorageTypeOK, LocksFit
  <2>1. StorageTypeOK'
    BY <2>0 DEF StorageTypeOK, States
  <2>2. NoUseAfterDelete' /\ LocksFit' /\ WriteProgress'
    BY <2>0 DEF LocksFit, NoUseAfterDelete, WriteProgress, StorageTypeOK
  <2>3. StatesFit' /\ TxFits'
    BY <2>0 DEF StatesFit, TxFits, StorageTypeOK, LocksFit
  <2> QED BY <2>1, <2>2, <2>3
<1> QED BY <1>1, <1>2, <1>3, <1>4
-----------------------------------------------------------------------------
(* Core 1: the state machine *)

\* While core 1 runs the functions of storages, none is being destroyed.
LEMMA NoneExits ==
  ASSUME StorageInv, plugger = Nothing
  PROVE  \A f \in Storages : mExiting[f] = FALSE
BY DEF StorageInv, StorageTypeOK, LocksFit, Nothing, Doing

\* A storage other than the one core 0 calls has no transmission.
LEMMA OthersRest ==
  ASSUME StorageInv, plugger = Nothing,
         NEW f \in Storages, NEW op, caller = Doing(op, f)
  PROVE  \A g \in Storages \ {f} : tx[g] = NoAccessTx
<1> SUFFICES ASSUME NEW g \in Storages, g # f, tx[g] # NoAccessTx PROVE FALSE
  OBVIOUS
<1>1. tx[g] \in StorageTx /\ mExiting[g] = FALSE
  BY NoneExits DEF StorageInv, StorageTypeOK
<1>2. mReadState[g] # "IDLE" \/ mWriteState[g] # "IDLE"
  BY <1>1 DEF StorageInv, TxFits, StorageTx
<1> QED BY <1>1, <1>2 DEF StorageInv, StatesFit, Doing

\* What the state machine leaves alone keeps the rest of the invariant.
LEMMA LocksKept ==
  ASSUME StorageInv, UNCHANGED locks
  PROVE  NoUseAfterDelete' /\ LocksFit'
BY DEF StorageInv, NoUseAfterDelete, LocksFit, locks, Nothing, Doing

LEMMA TaskKeepsStorageInv ==
  ASSUME StorageInv, NEW f \in Storages, storageTask(f)
  PROVE  StorageInv'
<1> USE DEF Nothing, Doing
<1>0. /\ NoUseAfterDelete' /\ LocksFit'
      /\ \A g \in Storages : mExiting[g] = FALSE
  BY LocksKept, NoneExits DEF storageTask, TaskRead, TaskReadTimeout, TaskWrite,
     TaskWriteTimeout, Runs
<1> USE DEF StorageInv, locks, Runs
<1>1. CASE TaskRead(f)
  <2> USE <1>1 DEF TaskRead, access
  <2>1. StorageTypeOK'
    BY ScheduledIsTransmission DEF StorageTypeOK, States
  <2>2. StatesFit' /\ TxFits' /\ WriteProgress'
    BY <1>0, ScheduledIsTransmission
       DEF StorageTypeOK, StatesFit, TxFits, WriteProgress, Scheduled
  <2> QED BY <1>0, <2>1, <2>2
<1>2. CASE TaskReadTimeout(f)
  <2> USE <1>2 DEF TaskReadTimeout, access
  <2>1. StorageTypeOK'
    BY DEF StorageTypeOK, States
  <2>2. StatesFit' /\ TxFits' /\ WriteProgress'
    BY <1>0 DEF StorageTypeOK, StatesFit, TxFits, WriteProgress
  <2> QED BY <1>0, <2>1, <2>2
<1>3. CASE TaskWrite(f)
  <2> USE <1>3 DEF TaskWrite, queueNextWritePhase
  <2>1. StorageTypeOK'
    BY ScheduledIsTransmission DEF StorageTypeOK, States
  <2>2. StatesFit' /\ TxFits'
    BY <1>0, ScheduledIsTransmission DEF StorageTypeOK, StatesFit, TxFits, Scheduled
  <2>3. WriteProgress'
    BY <1>0, ScheduledIsTransmission
       DEF StorageTypeOK, StatesFit, WriteProgress, Scheduled
  <2> QED BY <1>0, <2>1, <2>2, <2>3
<1>4. CASE TaskWriteTimeout(f)
  <2> USE <1>4 DEF TaskWriteTimeout, queueWriteCommit
  <2>1. StorageTypeOK'
    BY ScheduledIsTransmission DEF StorageTypeOK, States
  <2>2. StatesFit' /\ TxFits'
    BY <1>0, ScheduledIsTransmission DEF StorageTypeOK, StatesFit, TxFits, Scheduled
  <2>3. WriteProgress'
    BY <1>0 DEF WriteProgress
  <2> QED BY <1>0, <2>1, <2>2, <2>3
<1> QED BY <1>1, <1>2, <1>3, <1>4 DEF storageTask

LEMMA TxStartedKeepsStorageInv ==
  ASSUME StorageInv, NEW f \in Storages, TxStarted(f)
  PROVE  StorageInv'
<1> USE DEF Nothing, Doing, StorageInv, TxStarted, Runs, access
<1>0. /\ NoUseAfterDelete' /\ LocksFit'
      /\ \A g \in Storages : mExiting[g] = FALSE
  BY LocksKept, NoneExits
<1>1. tx[f] \in StorageTx
  BY DEF StorageTypeOK
<1>2. [tx[f] EXCEPT !.onBus = TRUE] \in StorageTx
  BY <1>1 DEF StorageTx
<1>3. tx' = [tx EXCEPT ![f] = [tx[f] EXCEPT !.onBus = TRUE]]
  OBVIOUS
<1>4. StorageTypeOK'
  BY <1>2, <1>3 DEF StorageTypeOK, States, locks
<1>5. StatesFit' /\ TxFits'
  BY <1>0, <1>1, <1>3 DEF StorageTypeOK, StatesFit, TxFits, StorageTx, locks
<1>6. WriteProgress'
  <2>1. CASE tx[f].command = "BLOCK_READ"
    <3>1. caller = Doing("read", f)
      BY <1>0, <2>1 DEF TxFits, StatesFit
    <3> QED BY <3>1 DEF WriteProgress, locks
  <2>2. CASE tx[f].command # "BLOCK_READ"
    <3>1. caller = Doing("write", f) /\ mWriteState[f] \in {"SENT", "COMMIT_SENT"}
      BY <1>0, <1>1, <2>2 DEF TxFits, StatesFit, StorageTx
    <3>2. mWriteState'[f] = "PROCESSING"
      BY <2>2 DEF StorageTypeOK
    <3>3. tx'[f] = [tx[f] EXCEPT !.onBus = TRUE]
      BY <1>3 DEF StorageTypeOK
    <3>4. tx'[f].command = tx[f].command /\ tx'[f].phase = tx[f].phase
      BY <1>1, <3>3 DEF StorageTx
    <3>5. tx'[f] # NoAccessTx
      BY <1>2, <3>3, NoAccessTxAssumption DEF StorageTx
    <3> QED BY <1>1, <2>2, <3>1, <3>2, <3>4, <3>5 DEF WriteProgress, locks
  <2> QED BY <2>1, <2>2
<1> QED BY <1>0, <1>4, <1>5, <1>6

LEMMA TxEndedKeepsStorageInv ==
  ASSUME StorageInv, NEW f \in Storages, TxEnded(f)
  PROVE  StorageInv'
<1> USE DEF Nothing, Doing, StorageInv, Runs, WriteOnBus
<1>0. /\ NoUseAfterDelete' /\ LocksFit'
      /\ \A g \in Storages : mExiting[g] = FALSE
      /\ tx[f] \in StorageTx
  BY LocksKept, NoneExits
     DEF TxEnded, ReadEnded, WriteAcknowledged, WriteFailed, StorageTypeOK
<1> USE DEF locks
<1>1. ASSUME NEW received \in BOOLEAN, ReadEnded(f, received) PROVE StorageInv'
  <2> USE <1>1 DEF ReadEnded
  <2>1. StorageTypeOK'
    BY DEF StorageTypeOK, States
  <2>2. StatesFit' /\ TxFits' /\ WriteProgress'
    BY <1>0 DEF StorageTypeOK, StatesFit, TxFits, WriteProgress
  <2> QED BY <1>0, <2>1, <2>2
<1>2. CASE WriteAcknowledged(f)
  <2> USE <1>2 DEF WriteAcknowledged
  <2>0. /\ tx[f].command = "BLOCK_WRITE" => tx[f].phase \in WritePhases
        /\ mWritePhase \in 0 .. WriteAccessCount
        /\ mWriteState[f] = "PROCESSING"
        /\ mReadState[f] = "IDLE"
        /\ caller = Doing("write", f)
    BY <1>0 DEF StorageTypeOK, TxFits, StatesFit, WritePhases, StorageTx
  <2>o. \A g \in Storages \ {f} : tx[g] = NoAccessTx
    BY <2>0, OthersRest
  <2>p. tx[f].command = "BLOCK_WRITE" => mWritePhase = tx[f].phase
    BY <1>0 DEF TxFits
  <2>1. ASSUME tx[f].command = "BLOCK_WRITE", mWritePhase + 1 < WriteAccessCount
        PROVE  StorageInv'
    <3>1. /\ queueNextWritePhase(f, mWritePhase + 1)
          /\ stored' = stored \cup {tx[f].phase} /\ UNCHANGED committed
          /\ mWritePhase = tx[f].phase
      BY <2>0, <2>p, <2>1 DEF AfterAck
    <3> USE <3>1 DEF queueNextWritePhase
    <3>2. /\ mWritePhase + 1 \in 0 .. WriteAccessCount
          /\ Scheduled("BLOCK_WRITE", mWritePhase + 1) \in StorageTx
          /\ NoAccessTx \notin StorageTx
      BY <2>0, <2>1, ScheduledIsTransmission
    <3>3. StorageTypeOK'
      BY <2>0, <3>2 DEF StorageTypeOK, States
    <3>4. StatesFit' /\ TxFits'
      BY <1>0, <2>0, <2>o, <2>1, <3>2 DEF StorageTypeOK, StatesFit, TxFits, Scheduled
    <3>5. 0 .. mWritePhase - 1 \subseteq stored =>
            0 .. (mWritePhase + 1) - 1 \subseteq stored'
      BY <2>0
    <3>6. WriteProgress'
      BY <1>0, <2>0, <2>1, <3>2, <3>5 DEF StorageTypeOK, WriteProgress, Scheduled
    <3> QED BY <1>0, <3>3, <3>4, <3>6
  <2>2. ASSUME tx[f].command = "BLOCK_WRITE", mWritePhase + 1 >= WriteAccessCount
        PROVE  StorageInv'
    <3>1. /\ queueWriteCommit(f, mWritePhase + 1)
          /\ stored' = stored \cup {tx[f].phase} /\ UNCHANGED committed
          /\ mWritePhase = tx[f].phase /\ mWritePhase + 1 = WriteAccessCount
      BY <2>0, <2>p, <2>2 DEF AfterAck, WritePhases
    <3> USE <3>1 DEF queueWriteCommit
    <3>2. /\ Scheduled("GET_LAST_ERROR", mWritePhase + 1) \in StorageTx
          /\ NoAccessTx \notin StorageTx
      BY <2>0, ScheduledIsTransmission
    <3>3. StorageTypeOK'
      BY <2>0, <3>2 DEF StorageTypeOK, States
    <3>4. StatesFit' /\ TxFits'
      BY <1>0, <2>0, <2>o, <3>2 DEF StorageTypeOK, StatesFit, TxFits, Scheduled
    <3>5. 0 .. mWritePhase - 1 \subseteq stored => stored' = WritePhases
      <4>1. stored \subseteq WritePhases
        BY DEF StorageTypeOK
      <4>2. WritePhases = (0 .. mWritePhase - 1) \cup {mWritePhase}
        BY <2>0, <3>1 DEF WritePhases
      <4> HIDE DEF WritePhases
      <4> QED BY <3>1, <4>1, <4>2
    <3>6. WriteProgress'
      BY <1>0, <2>0, <2>2, <3>2, <3>5 DEF StorageTypeOK, WriteProgress, Scheduled
    <3> QED BY <1>0, <3>3, <3>4, <3>6
  <2>3. ASSUME tx[f].command = "GET_LAST_ERROR" PROVE StorageInv'
    <3>1. mWritePhase = WriteAccessCount
      BY <1>0, <2>3 DEF TxFits
    <3>2. /\ mWriteState' = [mWriteState EXCEPT ![f] = "IDLE"]
          /\ mWritePhase' = mWritePhase + 1
          /\ tx' = [tx EXCEPT ![f] = NoAccessTx]
          /\ committed' = (stored = WritePhases) /\ UNCHANGED stored
      BY <2>3, <3>1 DEF AfterAck
    <3>3. StorageTypeOK'
      BY <3>1, <3>2 DEF StorageTypeOK, States
    <3>4. StatesFit' /\ TxFits'
      BY <1>0, <2>0, <2>o, <3>2 DEF StorageTypeOK, StatesFit, TxFits
    <3>5. WriteProgress'
      BY <1>0, <2>0, <2>3, <3>2 DEF StorageTypeOK, WriteProgress
    <3> QED BY <1>0, <3>3, <3>4, <3>5
  <2> QED BY <1>0, <2>0, <2>1, <2>2, <2>3 DEF StorageTx
<1>3. CASE WriteFailed(f)
  <2> USE <1>3 DEF WriteFailed
  <2>0. /\ mWriteState[f] = "PROCESSING"
        /\ mReadState[f] = "IDLE"
        /\ caller = Doing("write", f)
    BY <1>0 DEF StorageTypeOK, TxFits, StatesFit, StorageTx
  <2>o. \A g \in Storages \ {f} : tx[g] = NoAccessTx
    BY <2>0, OthersRest
  <2>1. PICK tooLate \in BOOLEAN : (expired => tooLate) /\ AfterFailure(f, tooLate)
    OBVIOUS
  <2>2. CASE tooLate
    <3> USE <2>1, <2>2 DEF AfterFailure
    <3>1. StorageTypeOK'
      BY DEF StorageTypeOK, States
    <3>2. StatesFit' /\ TxFits' /\ WriteProgress'
      BY <1>0, <2>0 DEF StorageTypeOK, StatesFit, TxFits, WriteProgress
    <3> QED BY <1>0, <3>1, <3>2
  <2>3. CASE ~ tooLate
    <3> USE <2>1, <2>3 DEF AfterFailure, queueNextWritePhase
    <3>1. StorageTypeOK'
      BY ScheduledIsTransmission DEF StorageTypeOK, States
    <3>2. StatesFit' /\ TxFits'
      BY <1>0, <2>0, <2>o, ScheduledIsTransmission
         DEF StorageTypeOK, StatesFit, TxFits, Scheduled
    <3>3. WriteProgress'
      BY <1>0, <2>0, ScheduledIsTransmission
         DEF StorageTypeOK, WriteProgress, Scheduled
    <3> QED BY <1>0, <3>1, <3>2, <3>3
  <2> QED BY <2>2, <2>3
<1> QED BY <1>1, <1>2, <1>3 DEF TxEnded

-----------------------------------------------------------------------------
(* Theorems *)

\* The invariant is kept by every step.
LEMMA StorageInvNext == StorageInv /\ [StorageNext]_storageVars => StorageInv'
<1> SUFFICES ASSUME StorageInv, [StorageNext]_storageVars PROVE StorageInv'
  OBVIOUS
<1>1. ASSUME NEW f \in Storages, storageTask(f) \/ TxStarted(f) \/ TxEnded(f)
      PROVE  StorageInv'
  BY <1>1, TaskKeepsStorageInv, TxStartedKeepsStorageInv, TxEndedKeepsStorageInv
<1>2. CASE UNCHANGED storageVars
  BY <1>2 DEF storageVars, locks, access, StorageInv, StorageTypeOK, NoUseAfterDelete, LocksFit,
              StatesFit, TxFits, WriteProgress
<1> QED BY <1>1, <1>2, Core0KeepsStorageInv, PlugsKeepStorageInv DEF StorageNext

(* The inductive invariant: the mutex, the calls of core 0, the state machines,
   their transmissions and what the memory unit holds fit together. *)
THEOREM StorageInvariant == StorageSpec => []StorageInv
BY StorageInvInit, StorageInvNext, PTL DEF StorageSpec

(* No storage is deleted while core 0 runs a function of it. *)
THEOREM NeverUsedAfterDelete == StorageSpec => []NoUseAfterDelete
<1>1. StorageInv => NoUseAfterDelete
  BY DEF StorageInv
<1> QED BY <1>1, StorageInvariant, PTL

(* No transmission outlives the call it was scheduled for. *)
THEOREM NeverOrphaned == StorageSpec => []NoOrphan
<1>1. StorageInv => NoOrphan
  <2> SUFFICES ASSUME StorageInv, NEW f \in Storages, tx[f] # NoAccessTx, ~ mExiting[f]
               PROVE  caller = Doing(IF tx[f].command = "BLOCK_READ"
                                    THEN "read" ELSE "write", f)
    BY DEF NoOrphan
  <2>1. tx[f] \in StorageTx
    BY DEF StorageInv, StorageTypeOK
  <2> QED BY <2>1 DEF StorageInv, StatesFit, TxFits, StorageTx
<1> QED BY <1>1, StorageInvariant, PTL

(* A write that was in time, of a storage that was not pulled out, and which
   reports success was committed as a whole by the memory unit. *)
THEOREM SuccessIsCommitted == StorageSpec => InTimeWriteCommitted
<1>1. StorageInv => (Succeeds /\ ~ expired /\ ~ mExiting[caller.file] => committed)
  BY DEF StorageInv, WriteProgress, Succeeds, EndWrite, Finished
<1> QED BY <1>1, StorageInvariant, PTL DEF InTimeWriteCommitted
=============================================================================
