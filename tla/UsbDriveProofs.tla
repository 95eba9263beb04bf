---------------------------- MODULE UsbDriveProofs ----------------------------
(***************************************************************************)
(* Proofs about UsbDrive, for every number of slots and memory units and   *)
(* every set of blocks the computer accesses.                              *)
(***************************************************************************)
EXTENDS UsbDrive, FiniteSetTheorems, NaturalsInduction, WellFoundedInduction, TLAPS

LEMMA SlotsType == Slots \subseteq Nat /\ Rows \subseteq Nat \ {0} /\ NumSlots \in Nat \ {0}
BY NumSlotsAssumption DEF Slots, Rows

\* The directory depends on nothing but the entries.
LEMMA ListingKept == UNCHANGED entries => Listing' = Listing
BY DEF Listing, Used

\* The last stage of a change is the one which tells the computer.
LEMMA StageOf ==
  ASSUME NEW stage \in 1 .. NumSlots + 1
  PROVE  /\ RowAt(stage) = 0 <=> stage = NumSlots + 1
         /\ stage # NumSlots + 1 => RowAt(stage) = stage /\ stage \in Rows
BY SlotsType DEF RowAt, Rows

LEMMA DriveStarts == DriveInit => DirectoryInv /\ EntriesFit
<1> SUFFICES ASSUME DriveInit PROVE DirectoryInv /\ EntriesFit
  OBVIOUS
<1> USE DEF DriveInit
<1>1. Listing = [row \in Rows |-> NoRow]
  <2>1. Used = {}
    BY DEF Used, NoEntry
  <2>2. \A row \in Rows : row > Cardinality(Used)
    BY <2>1, FS_EmptySet, SlotsType
  <2> QED BY <2>2 DEF Listing
<1>2. DirectoryInv
  BY <1>1, SlotsType DEF DirectoryInv, Written, Copied, DirectoryIsCurrent, Idle, Count
<1>3. EntriesFit
  BY DEF EntriesFit, NoEntry
<1> QED BY <1>2, <1>3

\* A block of the area of files is beyond what an empty entry can match.
LEMMA FilesAreBeyond ==
  ASSUME NEW lba \in Nat, Area(lba) = "files"
  PROVE  FatAddress(lba) \in Nat /\ FatAddress(lba) >= BLOCKS_PER_FILE
<1>1. /\ ALLOCATED_DISK_BLOCK_NUM = 14 /\ BAD_SECTOR_DISK_BLOCK_NUM = 253
      /\ EXTERNAL_DISK_BLOCK_NUM = 2048 /\ FAKE_DISK_BLOCK_NUM = 32768
  BY DEF ALLOCATED_DISK_BLOCK_NUM, BAD_SECTOR_DISK_BLOCK_NUM, NUM_HEADER_SECTORS,
         NUM_RESERVED_SECTORS, NUM_FAT_SECTORS, NUM_ROOT_SECTORS, NUM_README_SECTORS,
         FIRST_VALID_FAT_ADDRESS, EXTERNAL_DISK_BLOCK_NUM, FAKE_DISK_BLOCK_NUM
<1>2. lba >= 267
  BY <1>1 DEF Area
<1> QED
  BY <1>2 DEF FatAddress, FIRST_VALID_FAT_ADDRESS, NUM_HEADER_SECTORS, NUM_RESERVED_SECTORS,
              NUM_FAT_SECTORS, NUM_ROOT_SECTORS, BLOCKS_PER_FILE

\* Whatever touches neither entries nor directory keeps Written.
LEMMA WrittenKept == Written /\ UNCHANGED <<entries, rootDir, core1>> => Written'
BY ListingKept DEF Written

LEMMA DirectoryKept ==
  ASSUME DirectoryInv, [DriveNext]_driveVars
  PROVE  DirectoryInv'
<1> USE SlotsType DEF Idle, Count, DirectoryInv
<1>1. ASSUME NEW f \in Files, BeginAdd(f) PROVE DirectoryInv'
  <2> USE <1>1 DEF BeginAdd, computerVars
  <2>1. CASE Used = Slots
    BY <2>1, ListingKept DEF Written, Copied, DirectoryIsCurrent
  <2>2. CASE Used # Slots
    BY <2>2 DEF Written, Copied, DirectoryIsCurrent
  <2> QED BY <2>1, <2>2
<1>2. ASSUME NEW f \in Files, BeginRemove(f) PROVE DirectoryInv'
  <2> USE <1>2 DEF BeginRemove, computerVars
  <2>1. CASE \E slot \in Slots : entries[slot].handle = f
    BY <2>1 DEF Written, Copied, DirectoryIsCurrent
  <2>2. CASE ~ \E slot \in Slots : entries[slot].handle = f
    BY <2>2, ListingKept DEF Written, Copied, DirectoryIsCurrent
  <2> QED BY <2>1, <2>2
<1>3. CASE Change
  <2> USE <1>3 DEF Change, computerVars
  <2>0. core1 \in 1 .. NumSlots + 1 /\ Listing' = Listing
    BY ListingKept DEF Written
  <2>1. CASE core1 = NumSlots + 1
    <3>1. RowAt(core1) = 0 /\ new_data' /\ UNCHANGED rootDir /\ core1' = 0
      BY <2>0, <2>1, StageOf
    <3> QED
      BY <2>0, <2>1, <3>1 DEF Written, Copied, DirectoryIsCurrent, Rows
  <2>2. CASE core1 # NumSlots + 1
    <3>1. /\ rootDir' = [rootDir EXCEPT ![core1] = Listing[core1]]
          /\ core1 \in Rows /\ core1' = core1 + 1
      BY <2>0, <2>2, StageOf
    <3>2. \A row \in Rows : row < core1' => rootDir'[row] = Listing[row]
      BY <2>0, <3>1 DEF Written, Rows
    <3>3. Written'
      <4>1. core1' \in 1 .. NumSlots + 1
        BY <2>0, <2>2, <3>1
      <4>2. rootDir' = [row \in Rows |-> rootDir'[row]]
        BY <3>1 DEF Written
      <4> QED BY <2>0, <3>2, <4>1, <4>2 DEF Written
    <3> QED
      BY <2>0, <3>1, <3>3 DEF Written, Copied, DirectoryIsCurrent, Rows
  <2> QED BY <2>1, <2>2
<1>4. CASE Poll
  BY <1>4, WrittenKept, ListingKept DEF Poll, fileVars, Copied, DirectoryIsCurrent, Rows
<1>5. CASE PollCounts
  BY <1>5, WrittenKept, ListingKept DEF PollCounts, fileVars, Copied, DirectoryIsCurrent, Rows
<1>6. CASE BeginCopy
  BY <1>6, WrittenKept, ListingKept
     DEF BeginCopy, fileVars, computerVars, Copied, DirectoryIsCurrent, Rows
<1>7. CASE CopyRow
  <2> USE <1>7 DEF CopyRow, fileVars
  <2>0. Written' /\ Listing' = Listing
    BY WrittenKept, ListingKept
  <2>1. /\ core0 \in 1 .. NumSlots
        /\ cached' = [cached EXCEPT ![core0] = rootDir[core0]]
        /\ cached' = [row \in Rows |-> cached'[row]]
    BY DEF Copied, Rows
  <2>2. ASSUME core1 = Idle, ~ new_data PROVE \A row \in 1 .. core0 : cached'[row] = Listing[row]
    <3>1. rootDir[core0] = Listing[core0]
      BY <2>1, <2>2 DEF Written, Rows
    <3>2. \A row \in 1 .. core0 - 1 : cached[row] = Listing[row]
      BY <2>1, <2>2 DEF Copied, Rows
    <3>3. cached'[core0] = Listing[core0]
      BY <2>1, <3>1 DEF Copied, Rows
    <3>4. \A row \in 1 .. core0 - 1 : cached'[row] = cached[row]
      BY <2>1 DEF Copied, Rows
    <3>5. \A row \in 1 .. core0 : row = core0 \/ row \in 1 .. core0 - 1
      BY <2>1
    <3> QED BY <3>2, <3>3, <3>4, <3>5
  <2>3. Copied'
    <3>1. CASE core0 = NumSlots
      BY <2>1, <3>1 DEF Copied, Rows
    <3>2. CASE core0 # NumSlots
      <4>1. core0' = core0 + 1 /\ core0' \in 1 .. NumSlots /\ core0' - 1 = core0
        BY <2>1, <3>2
      <4>2. (core1 = Idle => new_data \/ \A row \in 1 .. core0 : cached'[row] = Listing[row])
        BY <2>2
      <4> QED BY <2>0, <2>1, <4>1, <4>2 DEF Copied
    <3> QED BY <3>1, <3>2
  <2>4. DirectoryIsCurrent'
    <3> SUFFICES ASSUME seen' = "directory", core1 = Idle, ~ new_data
                 PROVE  cached' = Listing
      BY <2>0 DEF DirectoryIsCurrent
    <3>1. Listing = [row \in Rows |-> Listing[row]] /\ cached' = [row \in Rows |-> cached'[row]]
      BY <2>1 DEF Listing
    <3>2. CASE core0 = NumSlots
      BY <2>1, <2>2, <3>1, <3>2 DEF Rows
    <3>3. CASE core0 # NumSlots
      BY <3>1, <3>3 DEF DirectoryIsCurrent, Written, Rows
    <3> QED BY <3>2, <3>3
  <2> QED BY <2>0, <2>3, <2>4
<1>8. ASSUME NEW start \in BOOLEAN, StartStop(start) PROVE DirectoryInv'
  BY <1>8, WrittenKept, ListingKept DEF StartStop, fileVars, Copied, DirectoryIsCurrent, Rows
<1>9. ASSUME NEW lba \in Lbas, Access(lba) PROVE DirectoryInv'
  <2>1. UNCHANGED <<fileVars, new_data, core0, seen, cached>>
    BY <1>9 DEF Access
  <2> QED
    BY <2>1, WrittenKept, ListingKept DEF fileVars, Copied, DirectoryIsCurrent, Rows
<1>10. CASE UNCHANGED driveVars
  BY <1>10, WrittenKept, ListingKept
     DEF driveVars, fileVars, computerVars, Copied, DirectoryIsCurrent, Rows
<1> QED
  BY <1>1, <1>2, <1>3, <1>4, <1>5, <1>6, <1>7, <1>8, <1>9, <1>10
     DEF DriveNext, DriveCore1, DriveCore0

LEMMA EntriesKept ==
  ASSUME EntriesFit, [DriveNext]_driveVars
  PROVE  EntriesFit'
<1>1. ASSUME NEW f \in Files, BeginAdd(f) PROVE EntriesFit'
  <2> USE <1>1 DEF BeginAdd
  <2>1. CASE Used = Slots
    BY <2>1 DEF EntriesFit
  <2>2. CASE Used # Slots
    <3> DEFINE new == Min(Slots \ Used)
               entry == [handle |-> f, startBlock |-> StartOf(new), numBlocks |-> BLOCKS_PER_FILE]
    <3>1. entries' = [entries EXCEPT ![new] = entry]
      BY <2>2
    <3> HIDE DEF new
    <3>2. new \in Slots => StartOf(new) \in Nat
      BY SlotsType DEF StartOf, START_EXTERNAL_FILE_BLOCK, BLOCKS_PER_FILE
    <3>3. new \in Slots =>
            entry \in [handle: Files \cup {NoFile}, startBlock: Nat, numBlocks: {0, BLOCKS_PER_FILE}]
      BY <3>2
    <3>4. \A slot \in Slots : entries'[slot] = IF slot = new THEN entry ELSE entries[slot]
      BY <3>1 DEF EntriesFit
    <3>5. entry.handle # NoFile
      BY NoFileAssumption
    <3> HIDE DEF entry
    <3>6. entries' \in [Slots -> [handle: Files \cup {NoFile}, startBlock: Nat,
                                 numBlocks: {0, BLOCKS_PER_FILE}]]
      BY <3>1, <3>3 DEF EntriesFit
    <3>7. entry.startBlock = StartOf(new) /\ entry.numBlocks = BLOCKS_PER_FILE
      BY DEF entry
    <3> QED
      BY <3>4, <3>5, <3>6, <3>7 DEF EntriesFit
  <2> QED BY <2>1, <2>2
<1>2. ASSUME NEW f \in Files, BeginRemove(f) PROVE EntriesFit'
  <2> USE <1>2 DEF BeginRemove
  <2>1. CASE \E slot \in Slots : entries[slot].handle = f
    <3>1. PICK slot \in Slots : entries' = [entries EXCEPT ![slot] = Cleared(@)]
      BY <2>1
    <3> DEFINE entry == Cleared(entries[slot])
    <3>2. entry \in [handle: Files \cup {NoFile}, startBlock: Nat, numBlocks: {0, BLOCKS_PER_FILE}]
      BY DEF EntriesFit, Cleared
    <3>3. entry.handle = NoFile /\ entry.startBlock = 0
      BY DEF EntriesFit, Cleared
    <3>4. entries' = [entries EXCEPT ![slot] = entry]
      BY <3>1
    <3> HIDE DEF entry
    <3>5. \A t \in Slots : entries'[t] = IF t = slot THEN entry ELSE entries[t]
      BY <3>4 DEF EntriesFit
    <3>6. entries' \in [Slots -> [handle: Files \cup {NoFile}, startBlock: Nat,
                                 numBlocks: {0, BLOCKS_PER_FILE}]]
      BY <3>2, <3>4 DEF EntriesFit
    <3> QED
      BY <3>3, <3>5, <3>6 DEF EntriesFit
  <2>2. CASE ~ \E slot \in Slots : entries[slot].handle = f
    BY <2>2 DEF EntriesFit
  <2> QED BY <2>1, <2>2
<1>3. ASSUME UNCHANGED entries PROVE EntriesFit'
  BY <1>3 DEF EntriesFit
<1> QED
  BY <1>1, <1>2, <1>3
     DEF DriveNext, DriveCore1, DriveCore0, Change, Poll, PollCounts, BeginCopy, CopyRow,
         StartStop, Access, fileVars, driveVars

\* A directory the computer has read is that of the memory units, or it will be told
\* that the medium changed, however many units there are and however the two cores
\* interleave: although usb_msc_add() and usb_msc_remove() rewrite the directory
\* which tud_msc_read10_cb() copies without the mutex.
THEOREM DirectoryAlwaysCurrent == DriveSpec => []DirectoryIsCurrent
<1>1. DriveInit => DirectoryInv
  BY DriveStarts
<1>2. DirectoryInv /\ [DriveNext]_driveVars => DirectoryInv'
  BY DirectoryKept
<1>3. DirectoryInv => DirectoryIsCurrent
  BY DEF DirectoryInv
<1> QED BY <1>1, <1>2, <1>3, PTL DEF DriveSpec

\* No block of the area of files finds an entry which usb_msc_remove() cleared,
\* whatever blocks the computer asks for.
THEOREM EntriesNeverEmpty == DriveSpec => []NoEmptyEntry
<1>1. DriveInit => EntriesFit
  BY DriveStarts
<1>2. EntriesFit /\ [DriveNext]_driveVars => EntriesFit'
  BY EntriesKept
<1>3. EntriesFit => NoEmptyEntry
  <2> SUFFICES ASSUME EntriesFit, NEW lba \in Lbas, Area(lba) = "files",
                      NEW slot \in Matches(lba), entries[slot].handle = NoFile
               PROVE  FALSE
    BY DEF NoEmptyEntry
  <2>1. FatAddress(lba) \in Nat /\ FatAddress(lba) >= BLOCKS_PER_FILE
    BY FilesAreBeyond, LbasAssumption
  <2>2. slot \in Slots /\ FatAddress(lba) \in entries[slot].startBlock ..
                            entries[slot].startBlock + entries[slot].numBlocks - 1
    BY DEF Matches
  <2>3. entries[slot].startBlock = 0 /\ entries[slot].numBlocks \in {0, BLOCKS_PER_FILE}
    BY <2>2 DEF EntriesFit
  <2> QED BY <2>1, <2>2, <2>3 DEF BLOCKS_PER_FILE
<1> QED BY <1>1, <1>2, <1>3, PTL DEF DriveSpec

-----------------------------------------------------------------------------
(* Which block is reached *)

LEMMA LeastSlot ==
  ASSUME NEW T \in SUBSET Nat, T # {}
  PROVE  \E m \in T : \A k \in T : m <= k
<1>1. IsWellFoundedOn(OpToRel(<, Nat), Nat)
  BY NatLessThanWellFounded
<1>2. PICK m \in T : \A k \in T : ~ (<<k, m>> \in OpToRel(<, Nat))
  BY <1>1, WFMin
<1>3. ASSUME NEW k \in T PROVE m <= k
  <2>1. k \in Nat /\ m \in Nat /\ ~ (k < m)
    BY <1>2 DEF OpToRel
  <2> QED BY <2>1
<1> QED BY <1>3

UsedUpTo(n) == {t \in Used : t <= n}

LEMMA UsedProperties ==
  /\ Used \subseteq Slots
  /\ IsFiniteSet(Used)
  /\ Cardinality(Used) \in Nat
<1>1. Used \in SUBSET Slots /\ IsFiniteSet(Slots)
  BY SlotsType, FS_Interval DEF Used, Slots
<1> QED BY <1>1, FS_Subset, FS_CardinalityType

LEMMA UpToProperties ==
  ASSUME NEW n \in Int
  PROVE  /\ IsFiniteSet(UsedUpTo(n))
         /\ Cardinality(UsedUpTo(n)) \in Nat
         /\ n \notin Used => UsedUpTo(n) = UsedUpTo(n - 1)
         /\ n \in Used => Cardinality(UsedUpTo(n)) = Cardinality(UsedUpTo(n - 1)) + 1
<1>0. Used \subseteq Slots /\ Slots \subseteq Nat
  BY UsedProperties, SlotsType
<1>1. ASSUME NEW m \in Int
      PROVE  IsFiniteSet(UsedUpTo(m)) /\ Cardinality(UsedUpTo(m)) \in Nat
  <2>1. UsedUpTo(m) \in SUBSET Used
    BY DEF UsedUpTo
  <2> QED BY <2>1, UsedProperties, FS_Subset, FS_CardinalityType
<1>2. ASSUME NEW t \in Used PROVE t <= n <=> (t <= n - 1 \/ t = n)
  BY <1>0
<1>3. ASSUME n \notin Used PROVE UsedUpTo(n) = UsedUpTo(n - 1)
  BY <1>2, <1>3 DEF UsedUpTo
<1>4. ASSUME n \in Used PROVE Cardinality(UsedUpTo(n)) = Cardinality(UsedUpTo(n - 1)) + 1
  <2>1. UsedUpTo(n) = UsedUpTo(n - 1) \cup {n}
    BY <1>2, <1>4 DEF UsedUpTo
  <2>2. n \notin UsedUpTo(n - 1)
    BY DEF UsedUpTo
  <2>3. IsFiniteSet(UsedUpTo(n - 1))
    BY <1>1
  <2> QED BY <2>1, <2>2, <2>3, FS_AddElement
<1> QED BY <1>1, <1>3, <1>4

\* For each row up to the number of used entries there is one with that rank.
LEMMA RankExists ==
  ASSUME NEW row \in Rows, row <= Cardinality(Used)
  PROVE  \E s \in Used : Cardinality({t \in Used : t <= s}) = row
<1> DEFINE Enough == {n \in Slots : Cardinality(UsedUpTo(n)) >= row}
<1>0. /\ Slots = 0 .. NumSlots - 1 /\ NumSlots \in Nat \ {0}
      /\ row \in Nat \ {0} /\ Used \subseteq Slots
  BY SlotsType, UsedProperties DEF Slots
<1>1. NumSlots - 1 \in Enough
  <2>1. NumSlots - 1 \in Slots /\ \A t \in Used : t <= NumSlots - 1
    BY <1>0
  <2>2. UsedUpTo(NumSlots - 1) = Used
    BY <2>1, Zenon DEF UsedUpTo
  <2>3. Cardinality(Used) >= row
    BY <1>0, UsedProperties
  <2> QED BY <2>1, <2>2, <2>3
<1>2. Enough \in SUBSET Nat /\ Enough \subseteq Slots
  BY <1>0
<1>3. PICK s \in Enough : \A k \in Enough : s <= k
  <2> HIDE DEF Enough
  <2> QED BY <1>1, <1>2, LeastSlot
<1>4. s \in Slots /\ s \in Nat /\ Cardinality(UsedUpTo(s)) >= row
  BY <1>0
<1>5. Cardinality(UsedUpTo(s - 1)) < row
  <2>1. CASE s = 0
    <3>1. \A t \in Used : ~ (t <= s - 1)
      BY <1>0, <2>1
    <3>2. UsedUpTo(s - 1) = {}
      BY <3>1 DEF UsedUpTo
    <3>3. Cardinality(UsedUpTo(s - 1)) = 0
      BY <3>2, FS_EmptySet
    <3> QED BY <1>0, <3>3
  <2>2. CASE s # 0
    <3>1. s - 1 \in Slots /\ s - 1 \in Nat
      BY <1>0, <1>4, <2>2
    <3>2. s - 1 \notin Enough
      <4> HIDE DEF Enough
      <4> QED BY <1>3, <1>4, <3>1
    <3>3. s - 1 \in Enough <=> s - 1 \in Slots /\ Cardinality(UsedUpTo(s - 1)) >= row
      OBVIOUS
    <3>4. Cardinality(UsedUpTo(s - 1)) \in Nat
      BY <3>1, UpToProperties
    <3> HIDE DEF Enough
    <3> QED BY <1>0, <3>1, <3>2, <3>3, <3>4
  <2> QED BY <2>1, <2>2
<1> HIDE DEF Enough
<1>6. s \in Int /\ s - 1 \in Int
  BY <1>4
<1>7. s \in Used
  BY <1>0, <1>4, <1>5, <1>6, UpToProperties
<1>8. Cardinality(UsedUpTo(s)) = row
  BY <1>0, <1>4, <1>5, <1>6, <1>7, UpToProperties
<1> QED BY <1>7, <1>8 DEF UsedUpTo

\* Where blocks of files lie on the disk: the computer and the drive count clusters alike.
LEMMA BlockOfSlot ==
  ASSUME NEW lba \in Nat, NEW slot \in Slots, NEW k \in 0 .. BLOCKS_PER_FILE - 1,
         ClusterAt(lba) = StartOf(slot) + k
  PROVE  /\ Area(lba) = "files"
         /\ FatAddress(lba) = StartOf(slot) + k
         /\ BlockAt(lba) = k
<1>1. /\ ALLOCATED_DISK_BLOCK_NUM = 14 /\ BAD_SECTOR_DISK_BLOCK_NUM = 253
      /\ EXTERNAL_DISK_BLOCK_NUM = 2048 /\ NUM_HEADER_SECTORS = 13
      /\ FIRST_VALID_FAT_ADDRESS = 2
  BY DEF ALLOCATED_DISK_BLOCK_NUM, BAD_SECTOR_DISK_BLOCK_NUM, NUM_HEADER_SECTORS,
         NUM_RESERVED_SECTORS, NUM_FAT_SECTORS, NUM_ROOT_SECTORS, NUM_README_SECTORS,
         FIRST_VALID_FAT_ADDRESS, EXTERNAL_DISK_BLOCK_NUM
<1>2. slot \in 0 .. 7 /\ k \in 0 .. 255
  BY NumSlotsAssumption DEF Slots, BLOCKS_PER_FILE
<1>3. StartOf(slot) = 256 + slot * 256
  BY DEF StartOf, START_EXTERNAL_FILE_BLOCK, BLOCKS_PER_FILE
<1>4. lba = 267 + slot * 256 + k
  BY <1>1, <1>2, <1>3 DEF ClusterAt
<1>5. lba >= 267 /\ lba < 2315
  BY <1>2, <1>4
<1>6. Area(lba) = "files"
  BY <1>1, <1>5 DEF Area
<1>7. FatAddress(lba) = StartOf(slot) + k
  BY <1>1, <1>2, <1>3, <1>4 DEF FatAddress
<1>8. BlockAt(lba) = k
  <2>1. FatAddress(lba) = 256 * (slot + 1) + k
    BY <1>2, <1>3, <1>7
  <2>2. (256 * (slot + 1) + k) % 256 = k
    BY <1>2
  <2> QED BY <2>1, <2>2 DEF BlockAt
<1> QED BY <1>6, <1>7, <1>8

\* The blocks of different slots do not overlap.
LEMMA SlotsApart ==
  ASSUME NEW s \in Slots, NEW t \in Slots, NEW k \in 0 .. BLOCKS_PER_FILE - 1,
         StartOf(s) + k \in StartOf(t) .. StartOf(t) + BLOCKS_PER_FILE - 1
  PROVE  s = t
<1>1. s \in 0 .. 7 /\ t \in 0 .. 7
  BY NumSlotsAssumption DEF Slots
<1> QED BY <1>1 DEF StartOf, START_EXTERNAL_FILE_BLOCK, BLOCKS_PER_FILE

\* A row which names a slot names the memory unit that is there.
LEMMA RowNamesSlot ==
  ASSUME EntriesFit, NEW row \in Rows, NEW slot \in Slots,
         Listing[row].startBlock = StartOf(slot)
  PROVE  entries[slot].handle = Listing[row].file /\ entries[slot].handle # NoFile
<1>1. StartOf(slot) >= 256 /\ StartOf(slot) \in Nat
  BY SlotsType DEF StartOf, START_EXTERNAL_FILE_BLOCK, BLOCKS_PER_FILE
<1>2. Cardinality(Used) \in Nat
  BY UsedProperties
<1>3. row <= Cardinality(Used)
  <2>1. row > Cardinality(Used) => Listing[row] = NoRow
    BY DEF Listing
  <2>2. Listing[row] # NoRow
    BY <1>1 DEF NoRow
  <2> QED BY <1>2, <2>1, <2>2, SlotsType
<1> DEFINE s == CHOOSE x \in Used : Cardinality({t \in Used : t <= x}) = row
<1>4. s \in Used
  BY <1>3, RankExists
<1>5. Listing[row] = [file |-> entries[s].handle, startBlock |-> entries[s].startBlock]
  BY <1>2, <1>3, SlotsType DEF Listing
<1> HIDE DEF s
<1>6. s \in Slots /\ entries[s].handle # NoFile /\ entries[s].startBlock = StartOf(s)
  BY <1>4 DEF Used, EntriesFit
<1>7. s = slot
  BY <1>5, <1>6, SlotsType DEF StartOf, START_EXTERNAL_FILE_BLOCK, BLOCKS_PER_FILE
<1> QED BY <1>5, <1>6, <1>7

\* The block which the computer means by a directory that is current is the one that
\* read10 and write10 find.
LEMMA AccessReaches ==
  ASSUME DirectoryInv, EntriesFit, NEW lba \in Lbas, Access(lba)
  PROVE  ReachesTheBlock'
<1> SUFFICES ASSUME ~ new_data PROVE last'.got = last'.meant
  BY DEF Access, ReachesTheBlock
<1>1. RowsAt(lba) # {}
  <2>1. RowsAt(lba) = {} => Meant(lba)[1] = NoFile
    BY DEF Meant
  <2> QED BY <2>1 DEF Access
<1>2. PICK row \in RowsAt(lba) :
        Meant(lba) = <<cached[row].file, ClusterAt(lba) - cached[row].startBlock>>
  BY <1>1, Zenon DEF Meant
<1>3. row \in Rows
  BY DEF RowsAt
<1>4. PICK slot \in Slots :
        /\ cached[row].startBlock = StartOf(slot)
        /\ ClusterAt(lba) \in StartOf(slot) .. StartOf(slot) + BLOCKS_PER_FILE - 1
  BY DEF RowsAt
<1> DEFINE k == ClusterAt(lba) - StartOf(slot)
<1>5. StartOf(slot) \in Nat
  BY SlotsType DEF StartOf, START_EXTERNAL_FILE_BLOCK, BLOCKS_PER_FILE
<1>6. k \in 0 .. BLOCKS_PER_FILE - 1 /\ ClusterAt(lba) = StartOf(slot) + k
  BY <1>4, <1>5 DEF BLOCKS_PER_FILE
<1> HIDE DEF k
<1>7. /\ Area(lba) = "files" /\ FatAddress(lba) = StartOf(slot) + k /\ BlockAt(lba) = k
  BY <1>6, LbasAssumption, BlockOfSlot
<1>8. cached = Listing
  BY <1>7, SlotsType DEF Access, DirectoryInv, DirectoryIsCurrent, Idle, Count
<1>9. entries[slot].handle = cached[row].file /\ entries[slot].handle # NoFile
  BY <1>3, <1>4, <1>8, RowNamesSlot
<1>10. Matches(lba) = {slot}
  <2>1. slot \in Matches(lba)
    <3>1. /\ entries[slot].startBlock = StartOf(slot)
          /\ entries[slot].numBlocks = BLOCKS_PER_FILE
      BY <1>9 DEF EntriesFit
    <3>2. StartOf(slot) \in Nat
      BY SlotsType DEF StartOf, START_EXTERNAL_FILE_BLOCK, BLOCKS_PER_FILE
    <3> QED BY <1>6, <1>7, <3>1, <3>2 DEF Matches, BLOCKS_PER_FILE
  <2>2. ASSUME NEW t \in Matches(lba) PROVE t = slot
    <3>1. t \in Slots /\ FatAddress(lba) \in entries[t].startBlock ..
                                entries[t].startBlock + entries[t].numBlocks - 1
      BY DEF Matches
    <3>2. FatAddress(lba) >= BLOCKS_PER_FILE
      BY <1>7, LbasAssumption, FilesAreBeyond
    <3>3. entries[t].handle # NoFile
      <4> SUFFICES ASSUME entries[t].handle = NoFile PROVE FALSE
        OBVIOUS
      <4>1. entries[t].startBlock = 0 /\ entries[t].numBlocks \in {0, BLOCKS_PER_FILE}
        BY <3>1 DEF EntriesFit
      <4> QED BY <3>1, <3>2, <4>1 DEF BLOCKS_PER_FILE
    <3>4. /\ entries[t].startBlock = StartOf(t)
          /\ entries[t].numBlocks = BLOCKS_PER_FILE
      BY <3>1, <3>3 DEF EntriesFit
    <3> QED BY <1>6, <1>7, <3>1, <3>4, SlotsApart
  <2> QED BY <2>1, <2>2
<1>11. Min(Matches(lba)) = slot
  <2>1. slot <= slot
    BY SlotsType
  <2>2. \E x \in {slot} : \A y \in {slot} : x <= y
    BY <2>1
  <2> QED BY <1>10, <2>2 DEF Min
<1>12. last'.meant = <<cached[row].file, k>>
  BY <1>2, <1>4 DEF Access, k
<1>13. last'.got = <<entries[slot].handle, k>>
  BY <1>7, <1>10, <1>11 DEF Access
<1> QED BY <1>9, <1>12, <1>13

\* An access to a block of a file reaches that block of that memory unit, unless the
\* computer has yet to be told of a change, for all blocks of the disk and all slots:
\* the directory, the FAT and read10/write10 count from origins that agree.
THEOREM BlocksAlwaysReached == DriveSpec => []ReachesTheBlock
<1> DEFINE Inv == DirectoryInv /\ EntriesFit /\ ReachesTheBlock
<1>1. DriveInit => Inv
  <2>1. DriveInit => ReachesTheBlock
    BY DEF DriveInit, ReachesTheBlock, NoAccess
  <2> QED BY <2>1, DriveStarts
<1>2. Inv /\ [DriveNext]_driveVars => Inv'
  <2> SUFFICES ASSUME Inv, [DriveNext]_driveVars PROVE Inv'
    OBVIOUS
  <2>1. DirectoryInv' /\ EntriesFit'
    BY DirectoryKept, EntriesKept
  <2>2. ASSUME UNCHANGED last PROVE ReachesTheBlock'
    BY <2>2 DEF ReachesTheBlock
  <2>3. ASSUME NEW lba \in Lbas, Access(lba) PROVE ReachesTheBlock'
    BY <2>3, AccessReaches
  <2>4. ReachesTheBlock'
    BY <2>2, <2>3
       DEF DriveNext, DriveCore1, DriveCore0, BeginAdd, BeginRemove, Change, Poll, PollCounts,
           BeginCopy, CopyRow, StartStop, computerVars, driveVars
  <2> QED BY <2>1, <2>4
<1>3. Inv => ReachesTheBlock
  OBVIOUS
<1> QED BY <1>1, <1>2, <1>3, PTL DEF DriveSpec
=============================================================================
