----------------------------- MODULE FlashMemory -----------------------------
(***************************************************************************)
(* The memory of a client, kept in the flash of the board:                 *)
(*   src/hal/System/NonVolatilePicoSystemMemory.cpp.                       *)
(*                                                                         *)
(* Core 0 reads and writes a copy in RAM and queues the sectors it wrote   *)
(* to.  Core 1 takes them one by one, erases the sector, waits until core  *)
(* 0 has moved on to another sector or been quiet for a while, and         *)
(* programs it from the copy.  Power may fail between any two steps.       *)
(*                                                                         *)
(* mMutex is held by write(), one step here, and by process() except while *)
(* a sector is being erased, hence exactly while core1 = "programming".    *)
(* Time is left out but for whether mDelayedWriteTime lies ahead.          *)
(***************************************************************************)
EXTENDS Naturals, Sequences, SequencesExt

CONSTANTS
  Blocks,        \* the blocks core 0 writes
  Contents,      \* what a block may hold
  Blank,         \* what a block holds after erasure: all bits set
  SectorOf       \* the sector in which each block lies

ASSUME BlankAssumption == Blank \in Contents

Sectors == {SectorOf[b] : b \in Blocks}

ProgrammingState == {"WAITING_FOR_JOB", "SECTOR_ERASING", "DELAYING_WRITE"}

VARIABLES
  mLocalMem,         \* the copy in RAM
  flash,             \* what the flash holds
  mProgrammingState,
  mSectorQueue,      \* sectors to be written to flash
  delayed,           \* mDelayedWriteTime lies ahead
  core1              \* what core 1 is in the middle of

memoryVars == <<mLocalMem, flash, mProgrammingState, mSectorQueue, delayed, core1>>

MemoryTypeOK ==
  /\ mLocalMem \in [Blocks -> Contents]
  /\ flash \in [Blocks -> Contents]
  /\ mProgrammingState \in ProgrammingState
  /\ mSectorQueue \in Seq(Sectors) /\ IsInjective(mSectorQueue)
  /\ delayed \in BOOLEAN
  /\ core1 \in {"idle", "erasing", "programming"}

\* The constructor, which copies the flash.
MemoryStarts(stored) ==
  /\ flash = stored
  /\ mLocalMem = stored
  /\ mProgrammingState = "WAITING_FOR_JOB"
  /\ mSectorQueue = <<>>
  /\ delayed = FALSE
  /\ core1 = "idle"

-----------------------------------------------------------------------------
(* Core 0 *)

\* Mutant: write() does not take the mutex.
MayWrite_Unlocked == TRUE

\* write() gets the mutex.
MayWrite == core1 # "programming"

\* Mutant: the queue is not searched.
Queued_Unsearched(s) == FALSE

Queued(s) == \E i \in DOMAIN mSectorQueue : mSectorQueue[i] = s

\* write() of one block.  Blocks do not cross sectors.
WriteBlock(b, contents) ==
  LET s == SectorOf[b]
  IN  /\ MayWrite
      /\ mLocalMem' = [mLocalMem EXCEPT ![b] = contents]
      /\ IF Queued(s)
         THEN /\ delayed' = (delayed \/ mSectorQueue[1] = s)
              /\ UNCHANGED mSectorQueue
         ELSE /\ delayed' = FALSE
              /\ mSectorQueue' = Append(mSectorQueue, s)
      /\ UNCHANGED <<flash, mProgrammingState, core1>>

-----------------------------------------------------------------------------
(* Core 1: process() *)

InFront(b) == SectorOf[b] = mSectorQueue[1]

\* Up to the erasure, for which the mutex is released.
BeginErase ==
  /\ core1 = "idle"
  /\ mProgrammingState = "WAITING_FOR_JOB"
  /\ mSectorQueue # <<>>
  /\ mProgrammingState' = "SECTOR_ERASING"
  /\ delayed' = TRUE
  /\ core1' = "erasing"
  /\ UNCHANGED <<mLocalMem, flash, mSectorQueue>>

Erase ==
  /\ core1 = "erasing"
  /\ flash' = [b \in Blocks |-> IF InFront(b) THEN Blank ELSE flash[b]]
  /\ core1' = "idle"
  /\ UNCHANGED <<mLocalMem, mProgrammingState, mSectorQueue, delayed>>

\* The sector stays erased for now.
Delay ==
  /\ core1 = "idle"
  /\ mProgrammingState = "SECTOR_ERASING"
  /\ delayed
  /\ mProgrammingState' = "DELAYING_WRITE"
  /\ UNCHANGED <<mLocalMem, flash, mSectorQueue, delayed, core1>>

BeginProgram ==
  /\ core1 = "idle"
  /\ mProgrammingState # "WAITING_FOR_JOB"
  /\ ~ delayed
  /\ flash' = [b \in Blocks |-> IF InFront(b) THEN mLocalMem[b] ELSE flash[b]]
  /\ mProgrammingState' = "DELAYING_WRITE"
  /\ core1' = "programming"
  /\ UNCHANGED <<mLocalMem, mSectorQueue, delayed>>

\* Mutant: the sector stays in the queue.
EndProgram_Kept ==
  /\ core1 = "programming"
  /\ mProgrammingState' = "WAITING_FOR_JOB"
  /\ core1' = "idle"
  /\ UNCHANGED <<mLocalMem, flash, mSectorQueue, delayed>>

EndProgram ==
  /\ core1 = "programming"
  /\ mSectorQueue' = Tail(mSectorQueue)
  /\ mProgrammingState' = "WAITING_FOR_JOB"
  /\ core1' = "idle"
  /\ UNCHANGED <<mLocalMem, flash, delayed>>

process == BeginErase \/ Erase \/ Delay \/ BeginProgram \/ EndProgram

\* Time passes.
DelayEnds ==
  /\ delayed
  /\ delayed' = FALSE
  /\ UNCHANGED <<mLocalMem, flash, mProgrammingState, mSectorQueue, core1>>

\* Power fails and comes back.  A sector which was being erased or programmed
\* keeps what it held in some of its blocks only.
PowerLoss ==
  /\ \E blanked \in SUBSET {b \in Blocks : core1 # "idle" /\ InFront(b)} :
       LET left == [b \in Blocks |-> IF b \in blanked THEN Blank ELSE flash[b]]
       IN  flash' = left /\ mLocalMem' = left
  /\ mProgrammingState' = "WAITING_FOR_JOB"
  /\ mSectorQueue' = <<>>
  /\ delayed' = FALSE
  /\ core1' = "idle"

-----------------------------------------------------------------------------
(* Properties *)

\* What is not queued is in flash as core 0 last wrote it, so that a loss of
\* power costs queued sectors only: write() and process() never miss each
\* other, in whichever state of the programming a block is written again.
FlashIsCurrent ==
  \A b \in Blocks : Queued(SectorOf[b]) \/ flash[b] = mLocalMem[b]

\* Core 1 works for the sector in front of the queue, which it has not changed
\* since it programmed it.
Core1Fits ==
  /\ mProgrammingState # "WAITING_FOR_JOB" => mSectorQueue # <<>>
  /\ core1 = "erasing" => mProgrammingState = "SECTOR_ERASING"
  /\ core1 = "programming" =>
       /\ mProgrammingState = "DELAYING_WRITE"
       /\ \A b \in Blocks : InFront(b) => flash[b] = mLocalMem[b]

FlashInv == MemoryTypeOK /\ Core1Fits /\ FlashIsCurrent
=============================================================================
