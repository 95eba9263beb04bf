------------------------------ MODULE UsbStorage ------------------------------
(***************************************************************************)
(* Memory units of the Dreamcast as files of the host's USB drive:         *)
(*   src/hostLib/peripherals/DreamcastStorage.cpp,                         *)
(*   src/hal/Usb/Client/msc_disk.cpp.                                      *)
(*                                                                         *)
(* Core 0 serves the USB drive.  To access a file it locks fileMutex,      *)
(* calls read() or write() of the storage, and spins there until the state *)
(* machine on core 1 is done or the storage is being destroyed.  Core 1    *)
(* runs that state machine from task() and from the callbacks of its       *)
(* transmissions; it also creates and destroys storages as memory units    *)
(* are plugged and unplugged, and locks fileMutex to add or remove a file. *)
(*                                                                         *)
(* At most one access is under way, so the data of mReadState and          *)
(* mWriteState which only matter during an access are kept once.  A        *)
(* storage has at most one transmission of its own at a time, so that the  *)
(* comparison of transmission IDs in the callbacks always succeeds.        *)
(***************************************************************************)
EXTENDS Integers

CONSTANTS
  Storages,         \* the memory units
  WriteAccessCount, \* phases in which a block is written (getWriteAccesCount)
  NoStorage,        \* no memory unit
  NoAccessTx        \* no transmission

ASSUME AccessCountAssumption == WriteAccessCount \in Nat \ {0}
ASSUME NoStorageAssumption == NoStorage \notin Storages
ASSUME NoAccessTxAssumption ==
  NoAccessTx \notin [command : {"BLOCK_READ", "BLOCK_WRITE", "GET_LAST_ERROR"},
                     phase : 0 .. WriteAccessCount, onBus : BOOLEAN]

WritePhases == 0 .. WriteAccessCount - 1

States == {"IDLE", "STARTED", "SENT", "COMMIT_SENT", "PROCESSING"}

\* What a storage has scheduled or on the bus: a block read, a phase of a block
\* write, or the request which commits the phases.
StorageTx ==
  [command : {"BLOCK_READ", "BLOCK_WRITE", "GET_LAST_ERROR"},
   phase : 0 .. WriteAccessCount, onBus : BOOLEAN]

VARIABLES
  fileMutex,       \* who holds it: "core0" or "nobody"
  fileEntries,     \* the storages that are files of the drive
  caller,          \* what core 0 does: [op, file]
  plugger,         \* what core 1 does: [op, file]
  mExiting,        \* storage -> its destructor has begun
  mReadState, mWriteState,  \* storage -> state of its access
  mReadPacket,     \* a block has been received
  mWritePhase,     \* the phase to be written
  mWriteBufferLen, \* what write() will return: "length" or "error"
  expired,         \* the time allowed for the access is over
  tx,              \* storage -> its transmission, or NoAccessTx
  stored,          \* phases of the block the memory unit has acknowledged
  committed        \* it has acknowledged the commit of the whole block

access == <<mReadPacket, mWritePhase, mWriteBufferLen, expired, stored, committed>>
locks == <<fileMutex, fileEntries, caller, plugger, mExiting>>
storageVars == <<locks, mReadState, mWriteState, access, tx>>

Doing(op, file) == [op |-> op, file |-> file]
Nothing == Doing("nothing", NoStorage)

\* Core 1 calls task() and the callbacks of a storage which exists, when it is
\* not waiting for the mutex.
Exists(f) == f \in fileEntries
Runs(f) == plugger = Nothing /\ Exists(f)

-----------------------------------------------------------------------------
StorageInit ==
  /\ fileMutex = "nobody"
  /\ fileEntries = {}
  /\ caller = Nothing
  /\ plugger = Nothing
  /\ mExiting = [f \in Storages |-> FALSE]
  /\ mReadState = [f \in Storages |-> "IDLE"]
  /\ mWriteState = [f \in Storages |-> "IDLE"]
  /\ mReadPacket = FALSE
  /\ mWritePhase = 0
  /\ mWriteBufferLen = "length"
  /\ expired = FALSE
  /\ tx = [f \in Storages |-> NoAccessTx]
  /\ stored = {}
  /\ committed = FALSE

-----------------------------------------------------------------------------
(* Core 0: tud_msc_read10_cb() and tud_msc_write10_cb() *)

\* The mutex is taken, and read() has set up the access.
BeginRead(f) ==
  /\ caller = Nothing /\ fileMutex = "nobody" /\ f \in fileEntries
  /\ fileMutex' = "core0"
  /\ caller' = Doing("read", f)
  /\ mReadPacket' = FALSE
  /\ expired' = FALSE
  /\ mReadState' = [mReadState EXCEPT ![f] = "STARTED"]
  /\ UNCHANGED <<fileEntries, plugger, mExiting, mWriteState, mWritePhase,
                 mWriteBufferLen, tx, stored, committed>>

\* The same for write().
BeginWrite(f) ==
  /\ caller = Nothing /\ fileMutex = "nobody" /\ f \in fileEntries
  /\ fileMutex' = "core0"
  /\ caller' = Doing("write", f)
  /\ mWriteBufferLen' = "length"
  /\ expired' = FALSE
  /\ mWriteState' = [mWriteState EXCEPT ![f] = "STARTED"]
  /\ stored' = {} /\ committed' = FALSE
  /\ UNCHANGED <<fileEntries, plugger, mExiting, mReadState, mReadPacket,
                 mWritePhase, tx>>

\* The condition which ends the loop in read() and write()
Finished(f, state) == state[f] = "IDLE" \/ mExiting[f]

Return ==
  /\ fileMutex' = "nobody"
  /\ caller' = Nothing
  /\ UNCHANGED <<fileEntries, plugger, mExiting, mReadState, mWriteState, access, tx>>

EndRead == caller.op = "read" /\ Finished(caller.file, mReadState) /\ Return

EndWrite == caller.op = "write" /\ Finished(caller.file, mWriteState) /\ Return

-----------------------------------------------------------------------------
(* Core 1: the state machine *)

Scheduled(command, phase) ==
  [command |-> command, phase |-> phase, onBus |-> FALSE]

queueNextWritePhase(f, phase) ==
  /\ mWritePhase' = phase
  /\ tx' = [tx EXCEPT ![f] = Scheduled("BLOCK_WRITE", phase)]
  /\ mWriteState' = [mWriteState EXCEPT ![f] = "SENT"]

queueWriteCommit(f, phase) ==
  /\ mWritePhase' = phase
  /\ tx' = [tx EXCEPT ![f] = Scheduled("GET_LAST_ERROR", phase)]
  /\ mWriteState' = [mWriteState EXCEPT ![f] = "COMMIT_SENT"]

\* task() of a storage whose read() was called
TaskRead(f) ==
  /\ Runs(f) /\ mReadState[f] = "STARTED"
  /\ tx' = [tx EXCEPT ![f] = Scheduled("BLOCK_READ", 0)]
  /\ mReadState' = [mReadState EXCEPT ![f] = "SENT"]
  /\ UNCHANGED <<locks, mWriteState, access>>

\* Mutant: the transmission stays scheduled.
TaskReadTimeout_NotCancelled(f) ==
  /\ Runs(f) /\ mReadState[f] = "SENT" /\ expired
  /\ mReadState' = [mReadState EXCEPT ![f] = "IDLE"]
  /\ UNCHANGED <<locks, mWriteState, access, tx>>

\* task(): a read that was not sent in time is cancelled.
TaskReadTimeout(f) ==
  /\ Runs(f) /\ mReadState[f] = "SENT" /\ expired
  /\ tx' = [tx EXCEPT ![f] = NoAccessTx]
  /\ mReadState' = [mReadState EXCEPT ![f] = "IDLE"]
  /\ UNCHANGED <<locks, mWriteState, access>>

\* task() of a storage whose write() was called
TaskWrite(f) ==
  /\ Runs(f) /\ mWriteState[f] = "STARTED"
  /\ queueNextWritePhase(f, 0)
  /\ UNCHANGED <<locks, mReadState, mReadPacket, mWriteBufferLen, expired, stored,
                 committed>>

\* task(): instead of a phase that was not sent in time, the commit is queued.
TaskWriteTimeout(f) ==
  /\ Runs(f) /\ mWriteState[f] = "SENT" /\ expired
  /\ queueWriteCommit(f, WriteAccessCount)
  /\ UNCHANGED <<locks, mReadState, mReadPacket, mWriteBufferLen, expired, stored,
                 committed>>

\* The transmission is put on the bus: txStarted().
TxStarted(f) ==
  /\ Runs(f) /\ tx[f] # NoAccessTx /\ ~ tx[f].onBus
  /\ tx' = [tx EXCEPT ![f].onBus = TRUE]
  /\ IF tx[f].command = "BLOCK_READ"
     THEN /\ mReadState' = [mReadState EXCEPT ![f] = "PROCESSING"]
          /\ UNCHANGED mWriteState
     ELSE /\ mWriteState' = [mWriteState EXCEPT ![f] = "PROCESSING"]
          /\ UNCHANGED mReadState
  /\ UNCHANGED <<locks, access>>

\* A read has ended, with a block (txComplete()) or without (txFailed()).
ReadEnded(f, received) ==
  /\ Runs(f) /\ tx[f] # NoAccessTx /\ tx[f].onBus /\ tx[f].command = "BLOCK_READ"
  /\ mReadPacket' = received
  /\ mReadState' = [mReadState EXCEPT ![f] = "IDLE"]
  /\ tx' = [tx EXCEPT ![f] = NoAccessTx]
  /\ UNCHANGED <<locks, mWriteState, mWritePhase, mWriteBufferLen, expired, stored,
                 committed>>

\* Mutant: an acknowledged commit leads to another commit.
AfterAck_CommitAgain(f) ==
  IF mWritePhase + 1 >= WriteAccessCount
  THEN queueWriteCommit(f, mWritePhase + 1)
  ELSE queueNextWritePhase(f, mWritePhase + 1)

\* What follows on an acknowledgement: ++mWritePhase, and the next phase, the
\* commit, or the end of the access.
AfterAck(f) ==
  CASE mWritePhase + 1 < WriteAccessCount -> queueNextWritePhase(f, mWritePhase + 1)
    [] mWritePhase + 1 >= WriteAccessCount /\ tx[f].command = "BLOCK_WRITE" ->
         queueWriteCommit(f, mWritePhase + 1)
    [] OTHER ->
         /\ mWriteState' = [mWriteState EXCEPT ![f] = "IDLE"]
         /\ mWritePhase' = mWritePhase + 1
         /\ tx' = [tx EXCEPT ![f] = NoAccessTx]

\* Mutant: a failure at the last moment is not reported.
AfterFailure_Unreported(f, tooLate) ==
  IF tooLate
  THEN /\ mWriteState' = [mWriteState EXCEPT ![f] = "IDLE"]
       /\ tx' = [tx EXCEPT ![f] = NoAccessTx]
       /\ UNCHANGED <<mWritePhase, mWriteBufferLen>>
  ELSE queueNextWritePhase(f, 0) /\ UNCHANGED mWriteBufferLen

\* Mutant: the phases are sent again however late it is.
AfterFailure_Again(f, tooLate) == queueNextWritePhase(f, 0) /\ UNCHANGED mWriteBufferLen

\* What follows on a failure, or an answer which is no acknowledgement: all
\* phases again, unless the time they take is too long for what is left.
AfterFailure(f, tooLate) ==
  IF tooLate
  THEN /\ mWriteBufferLen' = "error"
       /\ mWriteState' = [mWriteState EXCEPT ![f] = "IDLE"]
       /\ tx' = [tx EXCEPT ![f] = NoAccessTx]
       /\ UNCHANGED mWritePhase
  ELSE queueNextWritePhase(f, 0) /\ UNCHANGED mWriteBufferLen

WriteOnBus(f) ==
  Runs(f) /\ tx[f] # NoAccessTx /\ tx[f].onBus /\ tx[f].command # "BLOCK_READ"

\* txComplete() with an acknowledgement: of a phase, which the memory unit now
\* holds, or of the commit of the phases it holds.
WriteAcknowledged(f) ==
  /\ WriteOnBus(f)
  /\ AfterAck(f)
  /\ IF tx[f].command = "BLOCK_WRITE"
     THEN stored' = stored \cup {tx[f].phase} /\ UNCHANGED committed
     ELSE committed' = (stored = WritePhases) /\ UNCHANGED stored
  /\ UNCHANGED <<locks, mReadState, mReadPacket, mWriteBufferLen, expired>>

\* txFailed(), or txComplete() with another answer
WriteFailed(f) ==
  /\ WriteOnBus(f)
  /\ \E tooLate \in BOOLEAN : (expired => tooLate) /\ AfterFailure(f, tooLate)
  /\ UNCHANGED <<locks, mReadState, mReadPacket, expired, stored, committed>>

\* The time allowed for the access runs out.
Expire ==
  /\ caller # Nothing /\ ~ expired
  /\ expired' = TRUE
  /\ UNCHANGED <<locks, mReadState, mWriteState, mReadPacket, mWritePhase,
                 mWriteBufferLen, tx, stored, committed>>

-----------------------------------------------------------------------------
(* Core 1: storages come and go *)

\* A memory unit was found: the constructor waits for the mutex, ...
PlugUnit(f) ==
  /\ plugger = Nothing /\ ~ Exists(f)
  /\ plugger' = Doing("add", f)
  /\ UNCHANGED <<fileMutex, fileEntries, caller, mExiting, mReadState, mWriteState,
                 access, tx>>

\* ... and adds the file.
AddFile ==
  /\ plugger.op = "add" /\ fileMutex = "nobody"
  /\ fileEntries' = fileEntries \cup {plugger.file}
  /\ plugger' = Nothing
  /\ UNCHANGED <<fileMutex, caller, mExiting, mReadState, mWriteState, access, tx>>

\* The memory unit is gone: the destructor waits for the mutex, ...
UnplugUnit(f) ==
  /\ Runs(f)
  /\ tx[f] # NoAccessTx => ~ tx[f].onBus
  /\ plugger' = Doing("remove", f)
  /\ mExiting' = [mExiting EXCEPT ![f] = TRUE]
  /\ UNCHANGED <<fileMutex, fileEntries, caller, mReadState, mWriteState, access, tx>>

\* Mutant: the mutex is not asked for.
MayRemove_Unlocked == plugger.op = "remove"

MayRemove == plugger.op = "remove" /\ fileMutex = "nobody"

\* ... removes the file, the storage is deleted, and the node cancels all its
\* transmissions.
RemoveFile ==
  /\ MayRemove
  /\ LET f == plugger.file
     IN  /\ fileEntries' = fileEntries \ {f}
         /\ mExiting' = [mExiting EXCEPT ![f] = FALSE]
         /\ mReadState' = [mReadState EXCEPT ![f] = "IDLE"]
         /\ mWriteState' = [mWriteState EXCEPT ![f] = "IDLE"]
         /\ tx' = [tx EXCEPT ![f] = NoAccessTx]
  /\ plugger' = Nothing
  /\ UNCHANGED <<fileMutex, caller, access>>

-----------------------------------------------------------------------------
TxEnded(f) ==
  \/ \E received \in BOOLEAN : ReadEnded(f, received)
  \/ WriteAcknowledged(f)
  \/ WriteFailed(f)

storageTask(f) == TaskRead(f) \/ TaskReadTimeout(f) \/ TaskWrite(f) \/ TaskWriteTimeout(f)

StorageNext ==
  \/ \E f \in Storages :
       \/ BeginRead(f) \/ BeginWrite(f)
       \/ storageTask(f) \/ TxStarted(f) \/ TxEnded(f)
       \/ PlugUnit(f) \/ UnplugUnit(f)
  \/ EndRead \/ EndWrite
  \/ Expire
  \/ AddFile \/ RemoveFile

StorageSpec == StorageInit /\ [][StorageNext]_storageVars

\* Both cores run, an exchange on the bus ends, by its timeout at the latest,
\* and time passes.  Nothing is assumed about the order in which the cores get
\* the mutex.
StorageFairSpec ==
  /\ StorageSpec
  /\ WF_storageVars(EndRead) /\ WF_storageVars(EndWrite) /\ WF_storageVars(Expire)
  /\ WF_storageVars(AddFile) /\ WF_storageVars(RemoveFile)
  /\ \A f \in Storages :
       /\ SF_storageVars(storageTask(f))
       /\ SF_storageVars(TxStarted(f))
       /\ SF_storageVars(TxEnded(f))

-----------------------------------------------------------------------------
StorageTypeOK ==
  /\ fileMutex \in {"nobody", "core0"}
  /\ fileEntries \subseteq Storages
  /\ caller \in {Nothing} \cup [op : {"read", "write"}, file : Storages]
  /\ plugger \in {Nothing} \cup [op : {"add", "remove"}, file : Storages]
  /\ mExiting \in [Storages -> BOOLEAN]
  /\ mReadState \in [Storages -> States]
  /\ mWriteState \in [Storages -> States]
  /\ mReadPacket \in BOOLEAN
  /\ mWritePhase \in 0 .. WriteAccessCount + 1
  /\ mWriteBufferLen \in {"length", "error"}
  /\ expired \in BOOLEAN
  /\ tx \in [Storages -> StorageTx \cup {NoAccessTx}]
  /\ stored \subseteq WritePhases
  /\ committed \in BOOLEAN

\* "The following is externally serialized with any read() call": a storage is
\* not deleted while core 0 runs a function of it.
NoUseAfterDelete == caller # Nothing => caller.file \in fileEntries

\* No transmission outlives the call it was scheduled for, except while the
\* storage is being destroyed: the callbacks of a late one would write into the
\* data of the next access, and a retry would read a buffer no longer there.
NoOrphan ==
  \A f \in Storages :
    tx[f] # NoAccessTx /\ ~ mExiting[f] =>
      caller = Doing(IF tx[f].command = "BLOCK_READ" THEN "read" ELSE "write", f)

Succeeds == EndWrite /\ mWriteBufferLen = "length"

\* A write reported as successful was committed as a whole by the memory unit,
\* if it was in time and the memory unit was not pulled out.
InTimeWriteCommitted ==
  [][Succeeds /\ ~ expired /\ ~ mExiting[caller.file] => committed]_storageVars

\* "Timeout in microseconds": a call of read() or write() ends.
CallsEnd == caller # Nothing ~> caller = Nothing
-----------------------------------------------------------------------------
(* The inductive invariant *)

\* The mutex is held exactly while core 0 runs a function of a storage; a
\* storage is being destroyed exactly while core 1 is in its destructor.
LocksFit ==
  /\ fileMutex = "core0" <=> caller # Nothing
  /\ plugger.op = "add" => plugger.file \notin fileEntries
  /\ plugger.op = "remove" => plugger.file \in fileEntries
  /\ \A f \in Storages : mExiting[f] <=> plugger = Doing("remove", f)

\* A state machine runs only for the call of core 0 to it, or in a storage that
\* is being destroyed.
StatesFit ==
  \A f \in Storages : ~ mExiting[f] =>
    /\ mReadState[f] # "IDLE" => caller = Doing("read", f)
    /\ mWriteState[f] # "IDLE" => caller = Doing("write", f)

\* A transmission is the one its state machine waits for.
TxFits ==
  \A f \in Storages : tx[f] # NoAccessTx /\ ~ mExiting[f] =>
    CASE tx[f].command = "BLOCK_READ" ->
           mReadState[f] = IF tx[f].onBus THEN "PROCESSING" ELSE "SENT"
      [] tx[f].command = "BLOCK_WRITE" ->
           /\ mWriteState[f] = IF tx[f].onBus THEN "PROCESSING" ELSE "SENT"
           /\ tx[f].phase = mWritePhase /\ mWritePhase < WriteAccessCount
      [] OTHER ->
           /\ mWriteState[f] = IF tx[f].onBus THEN "PROCESSING" ELSE "COMMIT_SENT"
           /\ mWritePhase = WriteAccessCount

\* In time, a phase follows on the acknowledgement of all before it, a commit on
\* that of all, and the end without an error on that of the commit.
WriteProgress ==
  caller.op = "write" /\ ~ expired /\ ~ mExiting[caller.file] =>
    LET f == caller.file
    IN  CASE mWriteState[f] = "STARTED" -> TRUE
          [] mWriteState[f] = "IDLE" -> mWriteBufferLen = "length" => committed
          [] OTHER ->
               /\ tx[f] # NoAccessTx /\ tx[f].command # "BLOCK_READ"
               /\ tx[f].command = "BLOCK_WRITE" => 0 .. tx[f].phase - 1 \subseteq stored
               /\ tx[f].command = "GET_LAST_ERROR" => stored = WritePhases

StorageInv ==
  StorageTypeOK /\ NoUseAfterDelete /\ LocksFit /\ StatesFit /\ TxFits /\ WriteProgress
=============================================================================
