------------------------------- MODULE UsbDrive -------------------------------
(***************************************************************************)
(* The USB drive of the host, src/hal/Usb/Client/msc_disk.cpp: a FAT       *)
(* volume made up in RAM, with one file for each memory unit.              *)
(*                                                                         *)
(* Core 1 adds and removes files while it holds fileMutex: it fills or     *)
(* clears an entry, rewrites the root directory row by row, and sets       *)
(* new_data.  Core 0 answers the computer, which polls the drive, keeps a  *)
(* copy of the directory it once read, and reads and writes blocks.  Only  *)
(* blocks of files are accessed with the mutex held; the directory, and    *)
(* the flags, are not.                                                     *)
(*                                                                         *)
(* What a read or write of a memory unit does is left to UsbStorage; here  *)
(* it succeeds or fails.  Every file has the 128 kB of a memory unit, and  *)
(* none is read-only: DreamcastStorage adds no other.                      *)
(***************************************************************************)
EXTENDS Naturals, Sequences, FiniteSetsExt

CONSTANTS
  Files,            \* the memory units
  NoFile,           \* no memory unit
  NumSlots,         \* the size of fileEntries, at most 8
  MAX_ERROR_COUNT,
  Lbas              \* the blocks which the computer reads and writes

ASSUME NoFileAssumption == NoFile \notin Files
ASSUME NumSlotsAssumption == NumSlots \in 1 .. 8
ASSUME LbasAssumption == Lbas \subseteq Nat

\* A memory unit of each of the two ports of each of the four players has a slot.
ASSUME FilesAssumption == Cardinality(Files) <= NumSlots

DISK_BLOCK_SIZE == 512
NUM_RESERVED_SECTORS == 1
NUM_FAT_SECTORS == 11
NUM_ROOT_SECTORS == 1
NUM_HEADER_SECTORS == NUM_RESERVED_SECTORS + NUM_FAT_SECTORS + NUM_ROOT_SECTORS
FIRST_VALID_FAT_ADDRESS == NUM_ROOT_SECTORS + 1
NUM_README_SECTORS == 1

ALLOCATED_DISK_BLOCK_NUM == NUM_HEADER_SECTORS + NUM_README_SECTORS
BAD_SECTOR_DISK_BLOCK_NUM == 256 - (FIRST_VALID_FAT_ADDRESS + NUM_README_SECTORS)
EXTERNAL_DISK_BLOCK_NUM == 2048
FAKE_DISK_BLOCK_NUM == 32768

BLOCKS_PER_FILE == 256
START_EXTERNAL_FILE_BLOCK == 256

Slots == 0 .. NumSlots - 1
Rows == 1 .. NumSlots

-----------------------------------------------------------------------------
(* The volume *)

\* The parts of the disk, from its first block to the last.
Area(lba) ==
  LET bad == ALLOCATED_DISK_BLOCK_NUM
      files == bad + BAD_SECTOR_DISK_BLOCK_NUM
      fake == files + EXTERNAL_DISK_BLOCK_NUM
      end == fake + FAKE_DISK_BLOCK_NUM
  IN  IF lba < bad THEN "ram"
      ELSE IF lba < files THEN "bad"
      ELSE IF lba < fake THEN "files"
      ELSE IF lba < end THEN "fake"
      ELSE "outside"

\* Mutant: the clusters are counted from zero.
FatAddress_FromZero(lba) == lba - NUM_HEADER_SECTORS

\* The FAT address (cluster) which the drive computes for a block
FatAddress(lba) == lba + FIRST_VALID_FAT_ADDRESS - NUM_HEADER_SECTORS

\* A block of the FAT for a file: a chain of 256 clusters
FULL_PAGE_FAT_ENTRY(cluster) == IF cluster % 256 = 255 THEN "end" ELSE cluster + 1

\* The FAT of the RAM disk: the README, bad sectors up to the first file, the
\* chains of eight files, and clusters which look free.
Fat(cluster) ==
  CASE cluster = 2 -> "end"
    [] cluster \in 3 .. 255 -> "bad"
    [] cluster \div 256 \in 1 .. 8 -> FULL_PAGE_FAT_ENTRY(cluster)
    [] OTHER -> "free"

StartOf(slot) == START_EXTERNAL_FILE_BLOCK + slot * BLOCKS_PER_FILE

\* The clusters of a file, as a computer follows them in the FAT: they must be linked
\* one after another.
Linked ==
  [slot \in Slots |->
     \A k \in 0 .. BLOCKS_PER_FILE - 1 :
       Fat(StartOf(slot) + k) =
         IF k = BLOCKS_PER_FILE - 1 THEN "end" ELSE StartOf(slot) + k + 1]

\* The data of a FAT volume begins with cluster 2, after the root directory.
ClusterAt(lba) == lba + 2 - NUM_HEADER_SECTORS

-----------------------------------------------------------------------------
VARIABLES
  entries,         \* slot -> [handle, startBlock, numBlocks] (fileEntries)
  numFileEntries,
  rootDir,         \* row -> [file, startBlock] of the directory in RAM, or NoRow
  new_data,
  ejected,
  errorCount,
  plugged,         \* the memory units which exist
  core1,           \* Idle (the mutex is free), or the stage of its change
  core0,           \* Idle, the row it copies next, or Count (in a poll)
  byComputer,      \* did the computer eject the drive itself?
  seen,            \* what the computer has seen: "nothing", "drive" or "directory"
  cached,          \* row -> its copy of the row
  last             \* its last access to a block of a file: [meant, got, told]

fileVars == <<entries, numFileEntries, rootDir, plugged, core1>>
computerVars == <<seen, cached, last>>
driveVars == <<fileVars, new_data, ejected, errorCount, core0, byComputer, computerVars>>

Idle == 0
Count == NumSlots + 1

\* Mutant: the computer is told before the directory is rewritten.
RowAt_AnnouncedFirst(stage) == stage - 1

\* The row written at a stage of a change; 0 is the announcement, the last stage.
RowAt(stage) == IF stage \in Rows THEN stage ELSE 0

NoRow == [file |-> NoFile, startBlock |-> 0]
NoEntry == [handle |-> NoFile, startBlock |-> 0, numBlocks |-> 0]
NoAccess == [meant |-> <<NoFile, 0>>, got |-> <<NoFile, 0>>, told |-> TRUE]

DriveInit ==
  /\ entries = [slot \in Slots |-> NoEntry]
  /\ numFileEntries = 0
  /\ rootDir = [row \in Rows |-> NoRow]
  /\ new_data = FALSE
  /\ ejected = TRUE
  /\ errorCount = 0
  /\ plugged = {}
  /\ core1 = Idle
  /\ core0 = Idle
  /\ byComputer = FALSE
  /\ seen = "nothing"
  /\ cached = [row \in Rows |-> NoRow]
  /\ last = NoAccess

Used == {slot \in Slots : entries[slot].handle # NoFile}

\* The directory set_file_entries() makes: a row for each used entry, in order.
Listing ==
  [row \in Rows |->
     IF row > Cardinality(Used) THEN NoRow
     ELSE LET slot == CHOOSE s \in Used : Cardinality({t \in Used : t <= s}) = row
          IN  [file |-> entries[slot].handle, startBlock |-> entries[slot].startBlock]]

-----------------------------------------------------------------------------
(* Core 1 *)

\* usb_msc_add(): the first free entry, if there is one, ...
BeginAdd(f) ==
  /\ core1 = Idle /\ f \notin plugged
  /\ plugged' = plugged \cup {f}
  /\ IF Used = Slots
     THEN UNCHANGED <<entries, numFileEntries, core1>>
     ELSE LET slot == Min(Slots \ Used)
          IN  /\ entries' = [entries EXCEPT ![slot] =
                               [handle |-> f, startBlock |-> StartOf(slot),
                                numBlocks |-> BLOCKS_PER_FILE]]
              /\ numFileEntries' = numFileEntries + 1
              /\ core1' = 1
  /\ UNCHANGED <<rootDir, new_data, ejected, errorCount, core0, byComputer, computerVars>>

\* Mutant: the entry keeps its blocks.
Cleared_Kept(entry) == [entry EXCEPT !.handle = NoFile]

\* What usb_msc_remove() leaves of an entry: numBlocks as it was.
Cleared(entry) == [entry EXCEPT !.handle = NoFile, !.startBlock = 0]

\* usb_msc_remove(): the entry is cleared, if the file had one, ...
BeginRemove(f) ==
  /\ core1 = Idle /\ f \in plugged
  /\ plugged' = plugged \ {f}
  /\ errorCount' = 0
  /\ IF \E slot \in Slots : entries[slot].handle = f
     THEN LET slot == CHOOSE s \in Slots : entries[s].handle = f
          IN  /\ entries' = [entries EXCEPT ![slot] = Cleared(@)]
              /\ numFileEntries' = numFileEntries - 1
              /\ core1' = 1
     ELSE UNCHANGED <<entries, numFileEntries, core1>>
  /\ UNCHANGED <<rootDir, new_data, ejected, core0, byComputer, computerVars>>

\* ... set_file_entries() rewrites the directory, row by row, and at last new_data
\* is set and the mutex released.
Change ==
  /\ core1 # Idle
  /\ IF RowAt(core1) # 0
     THEN /\ rootDir' = [rootDir EXCEPT ![RowAt(core1)] = Listing[RowAt(core1)]]
          /\ UNCHANGED new_data
     ELSE /\ new_data' = TRUE
          /\ UNCHANGED rootDir
  /\ core1' = IF core1 = NumSlots + 1 THEN Idle ELSE core1 + 1
  /\ UNCHANGED <<entries, numFileEntries, plugged, ejected, errorCount, core0, byComputer,
                 computerVars>>

-----------------------------------------------------------------------------
(* Core 0 *)

\* Mutant: new data are not looked at while the drive is ejected.
HasNews_Attached == new_data /\ ~ ejected

HasNews == new_data

\* tud_msc_test_unit_ready_cb(), up to the look at numFileEntries.  A computer
\* which is told that the drive is not ready forgets what it knew.
Poll ==
  /\ core0 = Idle
  /\ IF errorCount >= MAX_ERROR_COUNT
     THEN /\ ejected' = TRUE
          /\ seen' = "nothing"
          /\ UNCHANGED <<new_data, core0>>
     ELSE IF HasNews
     THEN /\ new_data' = FALSE
          /\ core0' = Count
          /\ UNCHANGED <<ejected, seen>>
     ELSE /\ seen' = IF ejected THEN "nothing" ELSE IF seen = "nothing" THEN "drive" ELSE seen
          /\ UNCHANGED <<new_data, core0, ejected>>
  /\ UNCHANGED <<fileVars, errorCount, byComputer, cached, last>>

\* The rest of it: the drive is attached again if there is a file, and the
\* computer told that the medium may have changed.
PollCounts ==
  /\ core0 = Count
  /\ ejected' = (numFileEntries = 0)
  /\ seen' = "nothing"
  /\ byComputer' = FALSE
  /\ core0' = Idle
  /\ UNCHANGED <<fileVars, new_data, errorCount, cached, last>>

\* tud_msc_start_stop_cb(): the computer unloads the drive or loads it again.
StartStop(start) ==
  /\ core0 = Idle
  /\ ejected' = (start => numFileEntries = 0 \/ errorCount >= MAX_ERROR_COUNT)
  /\ byComputer' = ~ start
  /\ seen' = "nothing"
  /\ UNCHANGED <<fileVars, new_data, errorCount, core0, cached, last>>

\* tud_msc_read10_cb() for the block of the root directory: it is copied while
\* core 1 may be rewriting it.
BeginCopy ==
  /\ core0 = Idle /\ seen = "drive"
  /\ core0' = 1
  /\ UNCHANGED <<fileVars, new_data, ejected, errorCount, byComputer, computerVars>>

CopyRow ==
  /\ core0 \in Rows
  /\ cached' = [cached EXCEPT ![core0] = rootDir[core0]]
  /\ IF core0 = NumSlots
     THEN core0' = Idle /\ seen' = "directory"
     ELSE core0' = core0 + 1 /\ UNCHANGED seen
  /\ UNCHANGED <<fileVars, new_data, ejected, errorCount, byComputer, last>>

\* The entry whose blocks contain a block of the disk
Matches(lba) ==
  {slot \in Slots : FatAddress(lba) \in
     entries[slot].startBlock .. entries[slot].startBlock + entries[slot].numBlocks - 1}

\* The block of a memory unit at a block of the disk (realAddr & 0xFF)
BlockAt(lba) == FatAddress(lba) % 256

\* Rows of the directory the computer knows whose file has the block.
RowsAt(lba) ==
  {row \in Rows :
     \E slot \in Slots :
       /\ Linked[slot] /\ cached[row].startBlock = StartOf(slot)
       /\ ClusterAt(lba) \in StartOf(slot) .. StartOf(slot) + BLOCKS_PER_FILE - 1}

\* The block of a file which the computer means.
Meant(lba) ==
  IF RowsAt(lba) = {} THEN <<NoFile, 0>>
  ELSE LET row == CHOOSE row \in RowsAt(lba) : TRUE
       IN  <<cached[row].file, ClusterAt(lba) - cached[row].startBlock>>

\* tud_msc_read10_cb() and tud_msc_write10_cb() for a block of a file, with the
\* mutex held.  A block of no file is refused.  The access may fail.
Access(lba) ==
  /\ core0 = Idle /\ seen = "directory" /\ Meant(lba)[1] # NoFile
  /\ Area(lba) = "files" => core1 = Idle
  /\ LET got == IF Area(lba) # "files" \/ Matches(lba) = {} THEN <<NoFile, 0>>
                ELSE <<entries[Min(Matches(lba))].handle, BlockAt(lba)>>
     IN  /\ last' = [meant |-> Meant(lba), got |-> got, told |-> ~ new_data]
         /\ \/ UNCHANGED errorCount
            \/ /\ got[1] # NoFile /\ errorCount < MAX_ERROR_COUNT
               /\ errorCount' = errorCount + 1
  /\ UNCHANGED <<fileVars, new_data, ejected, core0, byComputer, seen, cached>>

-----------------------------------------------------------------------------
DriveCore1 == (\E f \in Files : BeginAdd(f) \/ BeginRemove(f)) \/ Change
DriveCore0 ==
  \/ Poll \/ PollCounts \/ BeginCopy \/ CopyRow
  \/ \E start \in BOOLEAN : StartStop(start)
  \/ \E lba \in Lbas : Access(lba)

DriveNext == DriveCore1 \/ DriveCore0

DriveSpec == DriveInit /\ [][DriveNext]_driveVars

-----------------------------------------------------------------------------
\* A directory which the computer has read is that of the memory units, or it will
\* be told that the medium changed: although it is read without the mutex while
\* core 1 rewrites it.
DirectoryIsCurrent ==
  seen = "directory" /\ core1 = Idle /\ core0 # Count => new_data \/ cached = Listing

\* No block the computer may ask for finds an entry without a memory unit, although
\* a removed entry keeps its number of blocks.
NoEmptyEntry ==
  core1 = Idle =>
    \A lba \in Lbas : Area(lba) = "files" =>
      \A slot \in Matches(lba) : entries[slot].handle # NoFile

\* An access to a block of a file reaches that block of that memory unit, unless the
\* computer has yet to be told of a change.
ReachesTheBlock == last.told => last.got = last.meant

\* Once the memory units stay, the computer sees those there are, again and again,
\* unless it ejected the drive itself or accesses failed too often.
FilesShown ==
  <>[](core1 = Idle) =>
    []<>(\/ numFileEntries = 0
         \/ byComputer
         \/ errorCount >= MAX_ERROR_COUNT
         \/ ~ ejected /\ seen = "directory" /\ cached = Listing)

\* What README_CONTENTS of the drive says: a read or write of a memory unit which is
\* not attached is refused.  (It is not, if another took its slot.)
NotAttachedRefused == last.got[1] \in {NoFile, last.meant[1]}

-----------------------------------------------------------------------------
(* The inductive invariants *)

\* The rows before the stage of a change are written, all of them when it is over.
Written ==
  /\ core1 \in Idle .. NumSlots + 1
  /\ rootDir = [row \in Rows |-> rootDir[row]]
  /\ \A row \in Rows : core1 = Idle \/ row < core1 => rootDir[row] = Listing[row]

\* So are the rows copied before the next one, or news wait for the computer.
Copied ==
  /\ core0 \in Idle .. Count
  /\ cached = [row \in Rows |-> cached[row]]
  /\ core1 = Idle /\ core0 \in Rows =>
       new_data \/ \A row \in 1 .. core0 - 1 : cached[row] = Listing[row]

DirectoryInv == Written /\ Copied /\ DirectoryIsCurrent

\* The blocks of a memory unit are those of its slot; an entry without one has blocks
\* only below those of files.
EntriesFit ==
  /\ entries \in [Slots -> [handle: Files \cup {NoFile}, startBlock: Nat,
                            numBlocks: {0, BLOCKS_PER_FILE}]]
  /\ \A slot \in Slots :
       IF entries[slot].handle = NoFile THEN entries[slot].startBlock = 0
       ELSE /\ entries[slot].startBlock = StartOf(slot)
            /\ entries[slot].numBlocks = BLOCKS_PER_FILE
=============================================================================
