----------------------------- MODULE ClientProofs -----------------------------
(***************************************************************************)
(* Proofs about ClientPeripheral and its FlashMemory, for every set of     *)
(* blocks, sectors and contents, every console and every wire.             *)
(***************************************************************************)
EXTENDS ClientPeripheral, SequenceTheorems, TLAPS

USE BlankAssumption

-----------------------------------------------------------------------------
(* The memory *)

\* An empty queue is one.
LEMMA NothingQueued == <<>> \in Seq(Sectors) /\ IsInjective(<<>>)
BY EmptySeq DEF IsInjective

LEMMA FlashStarts ==
  ASSUME NEW m \in [Blocks -> Contents], MemoryStarts(m)
  PROVE  FlashInv
BY NothingQueued
   DEF MemoryStarts, FlashInv, MemoryTypeOK, ProgrammingState, Core1Fits, FlashIsCurrent

LEMMA WriteBlockKeepsFlashInv ==
  ASSUME FlashInv, NEW b \in Blocks, NEW contents \in Contents, WriteBlock(b, contents)
  PROVE  FlashInv'
<1> DEFINE s == SectorOf[b]
<1> USE DEF WriteBlock, FlashInv
<1>0. s \in Sectors /\ core1 # "programming"
  BY DEF Sectors, MayWrite
<1>1. CASE Queued(s)
  <2> USE <1>1
  <2>1. MemoryTypeOK'
    BY DEF MemoryTypeOK
  <2>2. Core1Fits'
    BY <1>0 DEF Core1Fits
  <2>3. FlashIsCurrent'
    BY DEF FlashIsCurrent, MemoryTypeOK, Queued
  <2> QED BY <2>1, <2>2, <2>3
<1>2. CASE ~ Queued(s)
  <2> USE <1>2
  <2>0. /\ mSectorQueue \in Seq(Sectors)
        /\ mSectorQueue' = Append(mSectorQueue, s)
    BY DEF MemoryTypeOK
  <2>1. /\ mSectorQueue' \in Seq(Sectors)
        /\ DOMAIN mSectorQueue = 1 .. Len(mSectorQueue)
        /\ DOMAIN mSectorQueue' = 1 .. Len(mSectorQueue) + 1
        /\ Len(mSectorQueue) \in Nat
        /\ \A i \in 1 .. Len(mSectorQueue) : mSectorQueue'[i] = mSectorQueue[i]
        /\ mSectorQueue'[Len(mSectorQueue) + 1] = s
    <3> HIDE DEF s
    <3> QED BY ONLY <1>0, <2>0, AppendProperties, LenProperties
  <2>2. IsInjective(mSectorQueue')
    BY <2>1 DEF MemoryTypeOK, IsInjective, Queued
  <2>3. MemoryTypeOK'
    BY <2>1, <2>2 DEF MemoryTypeOK
  <2>4. mSectorQueue # <<>> => mSectorQueue' # <<>>
    BY <2>1, EmptySeq
  <2>5. Core1Fits'
    BY <1>0, <2>4 DEF Core1Fits
  <2>6. FlashIsCurrent'
    BY <2>1 DEF FlashIsCurrent, MemoryTypeOK, Queued
  <2> QED BY <2>3, <2>5, <2>6
<1> QED BY <1>1, <1>2

LEMMA ProcessKeepsFlashInv ==
  ASSUME FlashInv, process \/ DelayEnds
  PROVE  FlashInv'
<1> USE DEF FlashInv, MemoryTypeOK, ProgrammingState
<1>0. ASSUME mSectorQueue # <<>>
      PROVE  \A b \in Blocks : InFront(b) => Queued(SectorOf[b])
  BY <1>0, EmptySeq DEF InFront, Queued
<1>1. CASE BeginErase
  BY <1>1 DEF BeginErase, Core1Fits, FlashIsCurrent, Queued
<1>2. CASE Erase
  BY <1>0, <1>2 DEF Erase, Core1Fits, FlashIsCurrent, Queued, InFront
<1>3. CASE Delay
  BY <1>3 DEF Delay, Core1Fits, FlashIsCurrent, Queued
<1>4. CASE BeginProgram
  BY <1>0, <1>4 DEF BeginProgram, Core1Fits, FlashIsCurrent, Queued, InFront
<1>5. CASE EndProgram
  <2> USE <1>5 DEF EndProgram
  <2>1. /\ mSectorQueue # <<>>
        /\ \A b \in Blocks : InFront(b) => flash[b] = mLocalMem[b]
    BY DEF Core1Fits
  <2>2. /\ mSectorQueue' \in Seq(Sectors)
        /\ Len(mSectorQueue') = Len(mSectorQueue) - 1
        /\ \A i \in 1 .. Len(mSectorQueue) - 1 : mSectorQueue'[i] = mSectorQueue[i + 1]
        /\ DOMAIN mSectorQueue = 1 .. Len(mSectorQueue)
        /\ DOMAIN mSectorQueue' = 1 .. Len(mSectorQueue) - 1
        /\ Len(mSectorQueue) \in Nat \ {0}
    BY <2>1, HeadTailProperties, LenProperties, EmptySeq
  <2>3. IsInjective(mSectorQueue')
    BY <2>2 DEF IsInjective
  <2>4. Core1Fits'
    BY DEF Core1Fits
  <2>5. ASSUME NEW b \in Blocks, ~ Queued(SectorOf[b])'
        PROVE  flash[b] = mLocalMem[b]
    <3>1. CASE InFront(b)
      BY <2>1, <3>1
    <3>2. CASE ~ InFront(b)
      <4>1. ~ Queued(SectorOf[b])
        <5> SUFFICES ASSUME NEW i \in 1 .. Len(mSectorQueue),
                            mSectorQueue[i] = SectorOf[b]
                     PROVE  FALSE
          BY <2>2 DEF Queued
        <5>1. i # 1
          BY <3>2 DEF InFront
        <5>2. i - 1 \in DOMAIN mSectorQueue' /\ mSectorQueue'[i - 1] = SectorOf[b]
          BY <2>2, <5>1
        <5> QED BY <2>5, <5>2 DEF Queued
      <4> QED BY <4>1 DEF FlashIsCurrent
    <3> QED BY <3>1, <3>2
  <2>6. FlashIsCurrent'
    BY <2>5 DEF FlashIsCurrent, Queued
  <2> QED BY <2>2, <2>3, <2>4, <2>6
<1>6. CASE DelayEnds
  BY <1>6 DEF DelayEnds, Core1Fits, FlashIsCurrent, Queued, InFront
<1> QED BY <1>1, <1>2, <1>3, <1>4, <1>5, <1>6 DEF process

LEMMA PowerLossKeepsFlashInv ==
  ASSUME FlashInv, PowerLoss
  PROVE  FlashInv'
<1> USE DEF FlashInv, PowerLoss
<1>1. flash' \in [Blocks -> Contents] /\ mLocalMem' = flash'
  <2>1. PICK blanked \in SUBSET {b \in Blocks : core1 # "idle" /\ InFront(b)} :
          LET left == [b \in Blocks |-> IF b \in blanked THEN Blank ELSE flash[b]]
          IN  flash' = left /\ mLocalMem' = left
    OBVIOUS
  <2> QED BY <2>1 DEF MemoryTypeOK
<1>2. MemoryTypeOK'
  BY <1>1, NothingQueued DEF MemoryTypeOK, ProgrammingState
<1>3. Core1Fits' /\ FlashIsCurrent'
  BY <1>1 DEF Core1Fits, FlashIsCurrent
<1> QED BY <1>2, <1>3
-----------------------------------------------------------------------------
(* The peripherals *)

PeripheralsType ==
  [connected : [Devices -> BOOLEAN], bits : [Devices -> Players],
   index : Players \cup {-1}, alarm : BOOLEAN]

LEMMA ResetType ==
  ASSUME NEW p \in PeripheralsType, NEW d \in Devices
  PROVE  AllReset(p) \in PeripheralsType /\ Reset(p, d) \in PeripheralsType
<1>1. AllReset(p) \in PeripheralsType
  BY PlayersAssumption DEF AllReset, PeripheralsType
<1>2. CASE d # "main"
  <2>1. Reset(p, d) = [connected |-> [p.connected EXCEPT ![d] = FALSE],
                       bits |-> [p.bits EXCEPT ![d] = 0], index |-> p.index,
                       alarm |-> p.alarm /\ d # "memory"]
    BY <1>2 DEF Reset, PeripheralsType
  <2> QED BY <1>1, <2>1, PlayersAssumption DEF PeripheralsType
<1> QED BY <1>1, <1>2 DEF Reset

LEMMA ConnectedType ==
  ASSUME NEW p \in PeripheralsType, NEW d \in Devices
  PROVE  [p EXCEPT !.connected[d] = TRUE] \in PeripheralsType
<1> DEFINE c == [p.connected EXCEPT ![d] = TRUE]
<1>1. c \in [Devices -> BOOLEAN]
  BY DEF PeripheralsType
<1>2. [p EXCEPT !.connected[d] = TRUE] = [p EXCEPT !.connected = c]
  OBVIOUS
<1> HIDE DEF c
<1> QED BY <1>1, <1>2 DEF PeripheralsType

LEMMA WithPlayerIndexType ==
  ASSUME NEW p \in PeripheralsType, NEW player \in Players
  PROVE  WithPlayerIndex(p, player) \in PeripheralsType
BY ResetType DEF WithPlayerIndex, PeripheralsType, AllReset, Devices

LEMMA FunctionAnswerType ==
  ASSUME NEW r \in RequestType, r.fn \in Functions[r.to]
  PROVE  FunctionAnswer(r) \in Answers \cup {"none"}
<1>1. r.fn \in {"storage", "screen", "timer", "vibration", "controller"}
  BY DEF RequestType, Functions, Devices
<1>2. r.form \in {"good", "range", "short"}
  BY DEF RequestType
<1>3. StorageAnswer(r) \in {"data", "error", "ack", "none"}
  <2>1. CASE r.cmd = "getMemoryInfo"
    BY <2>1 DEF StorageAnswer
  <2>2. CASE r.cmd = "blockRead"
    BY <2>2 DEF StorageAnswer
  <2>3. CASE r.cmd = "blockWrite"
    BY <2>3 DEF StorageAnswer
  <2>4. CASE r.cmd = "getLastError"
    BY <2>4 DEF StorageAnswer
  <2>5. CASE r.cmd \notin {"getMemoryInfo", "blockRead", "blockWrite", "getLastError"}
    BY <2>5 DEF StorageAnswer
  <2> QED BY <2>1, <2>2, <2>3, <2>4, <2>5
<1>4. /\ ScreenAnswer(r) \in Answers \cup {"none"}
      /\ TimerAnswer(r) \in Answers \cup {"none"}
      /\ ControllerAnswer(r) \in Answers \cup {"none"}
  BY DEF ScreenAnswer, TimerAnswer, ControllerAnswer, Answers
<1>5. VibrationAnswer(r) \in Answers \cup {"none"}
  BY DEF VibrationAnswer, Answers
<1> QED BY <1>1, <1>3, <1>4, <1>5 DEF FunctionAnswer, Answers

LEMMA HandlePacketType ==
  ASSUME TypeOK, NEW r \in RequestType, NEW player \in Players
  PROVE  /\ HandlePacket(r, player).next \in PeripheralsType
         /\ HandlePacket(r, player).answer \in Answers \cup {"none"}
<1> DEFINE d == r.to
           p == IF d = "main" THEN WithPlayerIndex(Peripherals, player) ELSE Peripherals
           q == IF r.cmd = "info" THEN [p EXCEPT !.connected[d] = TRUE] ELSE p
<1>0. d \in Devices
  BY DEF RequestType
<1>1. p \in PeripheralsType
  BY WithPlayerIndexType DEF TypeOK, Peripherals, PeripheralsType
<1>2. q \in PeripheralsType
  <2> HIDE DEF p
  <2> QED BY <1>0, <1>1, ConnectedType
<1>3. [q EXCEPT !.alarm = r.form = "good"] \in PeripheralsType
  <2> HIDE DEF q
  <2> QED BY <1>2 DEF PeripheralsType
<1>4. Reset(q, d) \in PeripheralsType
  BY <1>0, <1>2, ResetType
<1>5. q.connected[d] \in BOOLEAN
  <2> HIDE DEF q
  <2> QED BY <1>0, <1>2 DEF PeripheralsType
<1>6. HandlePacket(r, player) =
        CASE ~ q.connected[d] -> [next |-> q, answer |-> "none"]
          [] q.connected[d] /\ r.cmd = "info" -> [next |-> q, answer |-> "info"]
          [] q.connected[d] /\ r.cmd = "reset" -> [next |-> Reset(q, d), answer |-> "ack"]
          [] q.connected[d] /\ r.cmd = "shutdown" -> [next |-> q, answer |-> "ack"]
          [] q.connected[d] /\ ToFunction(r) ->
               IF r.fn \notin Functions[d] THEN [next |-> q, answer |-> "unsupported"]
               ELSE [next |-> IF r.fn = "timer" /\ r.cmd = "setCondition" /\ r.form # "short"
                              THEN [q EXCEPT !.alarm = r.form = "good"] ELSE q,
                     answer |-> FunctionAnswer(r)]
          [] OTHER -> [next |-> q, answer |-> "none"]
  BY DEF HandlePacket
<1> HIDE DEF q, p
<1> QED BY <1>2, <1>3, <1>4, <1>5, <1>6, FunctionAnswerType DEF Answers, ToFunction

-----------------------------------------------------------------------------
(* What each part of a step keeps *)

PeripheralsOK ==
  /\ mConnected \in [Devices -> BOOLEAN]
  /\ mPlayerBits \in [Devices -> Players]
  /\ mPlayerIndex \in Players \cup {-1}
  /\ alarm \in BOOLEAN

LEMMA BecomeType ==
  ASSUME NEW p \in PeripheralsType, Become(p)
  PROVE  PeripheralsOK'
BY DEF Become, PeripheralsOK, PeripheralsType

LEMMA PeripheralsTypeOK == TypeOK => Peripherals \in PeripheralsType /\ PeripheralsOK
BY DEF TypeOK, Peripherals, PeripheralsType, PeripheralsOK

LEMMA MemoryKept ==
  ASSUME FlashInv, UNCHANGED memoryVars
  PROVE  FlashInv'
BY DEF FlashInv, MemoryTypeOK, Core1Fits, FlashIsCurrent, Queued, InFront, memoryVars

LEMMA WriteType ==
  ASSUME NEW packet \in AnswerType, Write(packet)
  PROVE  /\ bus' \in {"idle", "reading"}
         /\ wire'.kind \in {"silence", "answer"}
         /\ wire'.kind = "answer" => wire'.packet \in AnswerType
BY DEF Write, OnWire, Silence

\* What is in every environment
LEMMA EnvironmentTypes ==
  ASSUME NEW e \in Environments
  PROVE  /\ e.requests \subseteq RequestType /\ e.blocks \subseteq BlockNumbers
         /\ e.ports \subseteq Players
         /\ \A r \in e.requests : ~ WritesPhase(r)
BY EnvironmentsAssumption DEF EnvironmentType

\* No record of the console is the answer "nothing".
LEMMA RequestIsSomething == \A r \in RequestType : r # Nothing
BY DEF RequestType, Nothing

LEMMA NewConsoleType ==
  /\ NewConsole \in ConsoleType
  /\ NewConsole.asked = Nothing
<1>1. /\ (CHOOSE b \in BlockNumbers : TRUE) \in BlockNumbers
      /\ (CHOOSE d \in Written : TRUE) \in Written
  BY BlocksAssumption, NumbersAssumption, WrittenAssumption
<1> QED BY <1>1, WritesAssumption DEF NewConsole, ConsoleType

LEMMA NewDataBlockType == NewDataBlock \in [Phases -> Data]
<1>1. (CHOOSE d \in Data : TRUE) \in Data
  BY WrittenAssumption
<1> QED BY <1>1 DEF NewDataBlock, Uniform

LEMMA ClientInit == Init => ClientInv /\ FlashInv
<1> SUFFICES ASSUME Init PROVE ClientInv /\ FlashInv
  OBVIOUS
<1> USE DEF Init
<1>1. FlashInv
  <2>1. [b \in Blocks |-> Uniform(CHOOSE d \in Data : TRUE)] \in [Blocks -> Contents]
    BY NewDataBlockType, ContentsAssumption DEF NewDataBlock
  <2> QED BY <2>1, FlashStarts
<1>2. port \in Players /\ port # -1
  BY EnvironmentTypes, PlayersAssumption
<1>3. TypeOK
  BY <1>1, <1>2, NewConsoleType, NewDataBlockType, PlayersAssumption
     DEF TypeOK, FlashInv, ConsoleType, Silence
<1>4. ConsoleFits
  BY NewConsoleType DEF ConsoleFits, Silence
<1> QED BY <1>1, <1>3, <1>4 DEF ClientInv

-----------------------------------------------------------------------------
(* The main peripheral *)

\* Setting the save area keeps the shape of a block, and setting it twice is setting
\* it once: of a block of which some phases are as they were sent and some as they
\* are stored, the same is stored.
LEMMA AsStoredType ==
  ASSUME NEW b, NEW contents \in [Phases -> Data]
  PROVE  AsStored(b, contents) \in [Phases -> Data]
BY SaveAreaAssumption DEF AsStored

LEMMA AsStoredOnce ==
  ASSUME NEW b, NEW contents \in [Phases -> Data], NEW d \in Data,
         \A p \in Phases : contents[p] \in {d, AsStored(b, Uniform(d))[p]}
  PROVE  AsStored(b, contents) = AsStored(b, Uniform(d))
<1>1. 0 \in Phases
  BY WritesAssumption DEF Phases
<1>2. Uniform(d) \in [Phases -> Data] /\ \A p \in Phases : Uniform(d)[p] = d
  BY DEF Uniform
<1>3. CASE b = SystemBlock /\ d \in DOMAIN WithSaveArea
  <2>1. /\ AsStored(b, Uniform(d)) = [Uniform(d) EXCEPT ![0] = WithSaveArea[d]]
        /\ WithSaveArea[d] \in Data \ DOMAIN WithSaveArea
    BY <1>1, <1>2, <1>3, SaveAreaAssumption DEF AsStored
  <2>2. contents[0] \in {d, WithSaveArea[d]}
    BY <1>1, <1>2, <2>1
  <2>3. \A p \in Phases \ {0} : contents[p] = d
    BY <1>2, <2>1
  <2>4. AsStored(b, contents) = [contents EXCEPT ![0] = WithSaveArea[d]]
    <3>1. CASE contents[0] = d
      BY <1>3, <3>1 DEF AsStored
    <3>2. CASE contents[0] = WithSaveArea[d] /\ contents[0] # d
      <4>1. AsStored(b, contents) = contents
        BY <2>1, <3>2 DEF AsStored
      <4> QED BY <1>1, <3>2, <4>1
    <3> QED BY <2>2, <3>1, <3>2
  <2> QED BY <1>1, <1>2, <2>1, <2>3, <2>4
<1>4. CASE ~ (b = SystemBlock /\ d \in DOMAIN WithSaveArea)
  <2>1. AsStored(b, Uniform(d)) = Uniform(d)
    BY <1>1, <1>2, <1>4 DEF AsStored
  <2>2. contents = Uniform(d)
    BY <1>2, <2>1
  <2> QED BY <2>2
<1> QED BY <1>3, <1>4

LEMMA StorageEffectKeeps ==
  ASSUME ClientInv, FlashInv, NEW r \in RequestType, StorageEffect(r)
  PROVE  FlashInv' /\ mDataBlock' \in [Phases -> Data]
<1> USE DEF StorageEffect
<1>1. mDataBlock \in [Phases -> Data] /\ mDataBlock \in Contents
  BY ContentsAssumption DEF ClientInv, TypeOK
<1>2. mDataBlock' \in [Phases -> Data]
  BY <1>1, AsStoredType DEF StoredPhase, RequestType
<1>3. mDataBlock' \in Contents
  BY <1>2, ContentsAssumption
<1>4. FlashInv'
  BY <1>3, MemoryKept, WriteBlockKeepsFlashInv
<1> QED BY <1>2, <1>4

LEMMA TaskKeepsClientInv ==
  ASSUME ClientInv, FlashInv, task
  PROVE  ClientInv' /\ FlashInv'
<1> USE DEF ClientInv, environmentVars, peripheralVars
<1>0. "main" \in Devices /\ Peripherals \in PeripheralsType /\ PeripheralsOK
  BY PeripheralsTypeOK DEF Devices
<1>r. Become(AllReset(Peripherals)) => PeripheralsOK'
  BY <1>0, ResetType, BecomeType
<1>1. CASE TaskIdle
  <2> USE <1>1 DEF TaskIdle
  <2>1. FlashInv' /\ PeripheralsOK'
    BY <1>r, MemoryKept
  <2>2. TypeOK' /\ ConsoleFits'
    BY <2>1 DEF TypeOK, ConsoleFits, FlashInv, PeripheralsOK
  <2> QED BY <2>1, <2>2
<1>2. CASE TaskResend
  <2> USE <1>2 DEF TaskResend
  <2>1. FlashInv'
    BY MemoryKept
  <2>2. /\ bus' \in {"idle", "reading"}
        /\ wire'.kind \in {"silence", "answer"}
        /\ wire'.kind = "answer" => wire'.packet \in AnswerType
    BY WriteType DEF TypeOK, Silence
  <2>3. TypeOK' /\ ConsoleFits'
    BY <2>1, <2>2 DEF TypeOK, ConsoleFits, FlashInv
  <2> QED BY <2>1, <2>3
<1>3. CASE TaskDispense
  <2> USE <1>3 DEF TaskDispense
  <2> DEFINE r == wire.packet
             handled == HandlePacket(r, port)
             cmd == IF handled.answer = "none" THEN "unknown" ELSE handled.answer
             out == Answer(cmd, r.to, handled.next.bits[r.to])
  <2>1. r \in RequestType /\ port \in Players /\ r.to \in Devices
    BY DEF TypeOK, ConsoleFits, RequestType
  <2>2. handled.next \in PeripheralsType /\ handled.answer \in Answers \cup {"none"}
    BY <2>1, HandlePacketType
  <2>3. /\ Become(handled.next) /\ StorageEffect(r)
        /\ mLastPacketOut' = out /\ Write(out)
    OBVIOUS
  <2> HIDE DEF handled, r
  <2>4. cmd \in Answers /\ handled.next.bits[r.to] \in Players
    BY <2>1, <2>2 DEF PeripheralsType, Answers
  <2>5. out \in AnswerType
    BY <2>1, <2>4 DEF AnswerType
  <2>6. FlashInv' /\ mDataBlock' \in [Phases -> Data] /\ PeripheralsOK'
    BY <2>1, <2>2, <2>3, StorageEffectKeeps, BecomeType
  <2>7. /\ bus' \in {"idle", "reading"}
        /\ wire'.kind \in {"silence", "answer"}
        /\ wire'.kind = "answer" => wire'.packet \in AnswerType
    BY <2>3, <2>5, WriteType
  <2>8. TypeOK' /\ ConsoleFits'
    BY <2>3, <2>5, <2>6, <2>7 DEF TypeOK, ConsoleFits, FlashInv, PeripheralsOK
  <2> QED BY <2>6, <2>8
<1>4. CASE TaskRequestsResend
  <2> USE <1>4 DEF TaskRequestsResend
  <2>1. FlashInv'
    BY MemoryKept
  <2>2. Answer("resend", "main", mPlayerBits["main"]) \in AnswerType
    BY <1>0 DEF AnswerType, Answers, PeripheralsOK
  <2>3. /\ bus' \in {"idle", "reading"}
        /\ wire'.kind \in {"silence", "answer"}
        /\ wire'.kind = "answer" => wire'.packet \in AnswerType
    BY <2>2, WriteType
  <2>4. TypeOK' /\ ConsoleFits'
    BY <2>1, <2>3 DEF TypeOK, ConsoleFits, FlashInv
  <2> QED BY <2>1, <2>4
<1>5. CASE TaskReadFailed
  <2> USE <1>5 DEF TaskReadFailed
  <2>1. FlashInv' /\ PeripheralsOK'
    BY <1>r, MemoryKept
  <2>2. TypeOK' /\ ConsoleFits'
    BY <2>1 DEF TypeOK, ConsoleFits, FlashInv, PeripheralsOK, Silence
  <2> QED BY <2>1, <2>2
<1> QED BY <1>1, <1>2, <1>3, <1>4, <1>5 DEF task

-----------------------------------------------------------------------------
(* The console, the wire, the user, the power *)

\* A step of the console or the wire keeps the rest of ClientInv if it leaves
\* the client alone and what is on the wire fits what was asked.
LEMMA OutsideKeeps ==
  ASSUME ClientInv, FlashInv,
         UNCHANGED <<clientVars, memoryVars, environment>>,
         wire'.kind \in {"silence", "request", "answer", "garbledRequest",
                         "garbledAnswer"},
         wire'.kind = "answer" => wire'.packet \in AnswerType,
         wire'.kind = "request" => wire'.packet \in RequestType,
         port' \in Players \cup {-1},
         console' \in ConsoleType,
         ConsoleFits'
  PROVE  ClientInv' /\ FlashInv'
<1>1. FlashInv'
  BY MemoryKept
<1>2. TypeOK'
  BY <1>1 DEF ClientInv, TypeOK, FlashInv, ConsoleType, clientVars, peripheralVars
<1> QED BY <1>1, <1>2 DEF ClientInv

\* The console is told an answer, or takes the client as gone.
LEMMA ConsoleForgets ==
  ASSUME NEW c \in ConsoleType, NEW found \in BOOLEAN, NEW progress \in 0 .. WritesPerBlock
  PROVE  LET next == [c EXCEPT !.asked = Nothing, !.noise = 0, !.found = found,
                               !.progress = progress]
             gone == [next EXCEPT !.crossed = FALSE, !.spoiled = FALSE]
         IN  /\ next \in ConsoleType /\ next.asked = Nothing
             /\ gone \in ConsoleType /\ gone.asked = Nothing
<1> DEFINE Asked == RequestType \cup {Nothing}
<1>1. Nothing \in Asked
  OBVIOUS
<1>2. ConsoleType = [asked : Asked, found : BOOLEAN, noise : Nat,
                     progress : 0 .. WritesPerBlock, block : BlockNumbers, data : Written,
                     crossed : BOOLEAN, spoiled : BOOLEAN]
  BY DEF ConsoleType
<1> HIDE DEF Asked
<1> QED BY <1>1, <1>2

\* The console begins to write a block.
LEMMA ConsoleBegins ==
  ASSUME NEW c \in ConsoleType, c.asked = Nothing, NEW b \in BlockNumbers, NEW d \in Written
  PROVE  LET next == [c EXCEPT !.progress = 0, !.block = b, !.data = d, !.spoiled = FALSE]
         IN  next \in ConsoleType /\ next.asked = Nothing
<1>1. 0 \in 0 .. WritesPerBlock
  BY WritesAssumption
<1> QED BY <1>1 DEF ConsoleType

LEMMA ConsoleKeepsClientInv ==
  ASSUME ClientInv, FlashInv,
         \/ AskTemplate \/ BeginBlock \/ AskNextPhase \/ AskAgain
         \/ Answered \/ AnsweredByResend \/ AskResend
  PROVE  ClientInv' /\ FlashInv'
<1> USE DEF Quiet, Ask, OnWire, Silence
<1>0. /\ console \in ConsoleType
      /\ port \in Players \cup {-1} /\ environment \in Environments
      /\ wire.kind \in {"silence", "request", "answer", "garbledRequest", "garbledAnswer"}
      /\ wire.kind # "silence" => port # -1 /\ console.asked \in RequestType
      /\ WritesPerBlock \in Nat \ {0}
  BY WritesAssumption DEF ClientInv, TypeOK, ConsoleFits, ConsoleType
<1>1. CASE AskTemplate
  <2> USE <1>1 DEF AskTemplate
  <2>1. PICK r \in environment.requests : Ask(r) /\ console' = [console EXCEPT !.asked = r]
    OBVIOUS
  <2>2. r \in RequestType /\ r # Nothing /\ ~ WritesPhase(r)
    BY <1>0, EnvironmentTypes, RequestIsSomething
  <2>3. console' \in ConsoleType /\ console'.asked = r
    BY <1>0, <2>1, <2>2 DEF ConsoleType
  <2>4. ConsoleFits'
    BY <1>0, <2>1, <2>2, <2>3 DEF ConsoleFits
  <2> QED BY <1>0, <2>1, <2>2, <2>3, <2>4, OutsideKeeps DEF ConsoleType
<1>2. CASE BeginBlock
  <2> USE <1>2 DEF BeginBlock
  <2>1. PICK b \in environment.blocks, d \in Written :
          console' = [console EXCEPT !.progress = 0, !.block = b, !.data = d,
                                     !.spoiled = FALSE]
    OBVIOUS
  <2>2. console' \in ConsoleType /\ console'.asked = Nothing
    <3>1. console \in ConsoleType /\ console.asked = Nothing /\ b \in BlockNumbers
      BY <1>0, EnvironmentTypes
    <3> QED BY ONLY <2>1, <3>1, ConsoleBegins
  <2>3. ConsoleFits'
    BY <1>0, <2>2 DEF ConsoleFits
  <2> QED BY <1>0, <2>2, <2>3, OutsideKeeps DEF ConsoleType
<1>3. CASE AskNextPhase
  <2> USE <1>3 DEF AskNextPhase
  <2> DEFINE r == StorageRequest(IF console.progress < WritesPerBlock
                                 THEN "blockWrite" ELSE "getLastError")
  <2>1. r \in RequestType /\ r # Nothing
    BY <1>0, RequestIsSomething, WrittenAssumption
       DEF StorageRequest, RequestType, Devices, Functions, ConsoleType
  <2>2. WritesPhase(r) => console.progress < WritesPerBlock
    BY DEF WritesPhase, StorageRequest
  <2>3. Ask(r) /\ console' = [console EXCEPT !.asked = r]
    OBVIOUS
  <2> HIDE DEF r
  <2>4. console' \in ConsoleType /\ console'.asked = r
        /\ console'.progress = console.progress
    BY <1>0, <2>1, <2>3 DEF ConsoleType
  <2>5. ConsoleFits'
    BY <1>0, <2>1, <2>2, <2>3, <2>4 DEF ConsoleFits
  <2> QED BY <1>0, <2>1, <2>3, <2>4, <2>5, OutsideKeeps DEF ConsoleType
<1>4. CASE AskAgain
  <2> USE <1>4 DEF AskAgain
  <2>1. CASE Ask(console.asked) /\ UNCHANGED console
    <3>1. ConsoleFits'
      BY <1>0, <2>1 DEF ConsoleFits, ClientInv
    <3> QED BY <1>0, <2>1, <3>1, OutsideKeeps DEF ConsoleType
  <2>2. CASE ~ (Ask(console.asked) /\ UNCHANGED console)
    <3>1. /\ console' = [console EXCEPT !.asked = Nothing, !.noise = 0,
                                        !.found = FALSE, !.progress = 0,
                                        !.crossed = FALSE, !.spoiled = FALSE]
          /\ UNCHANGED <<clientVars, wire, port, environment, powerLosses, memoryVars>>
          /\ wire.kind = "silence"
      BY <2>2
    <3>2. console' \in ConsoleType /\ console'.asked = Nothing
      <4>1. FALSE \in BOOLEAN /\ 0 \in 0 .. WritesPerBlock /\ console \in ConsoleType
        BY <1>0
      <4> QED BY ONLY <3>1, <4>1, ConsoleForgets
    <3>3. ConsoleFits'
      BY <1>0, <3>1, <3>2 DEF ConsoleFits
    <3> QED BY <1>0, <3>1, <3>2, <3>3, OutsideKeeps DEF ConsoleType
  <2> QED BY <2>1, <2>2
<1>5. CASE Answered
  <2> USE <1>5 DEF Answered
  <2> DEFINE progress == IF console.asked.to = "memory" THEN Progressed(wire.packet.cmd)
                         ELSE console.progress
             found == (console.found /\ wire.packet.cmd # "unknown")
                      \/ wire.packet.cmd = "info"
  <2>1. WritesPhase(console.asked) => console.progress < WritesPerBlock
    BY <1>0, RequestIsSomething DEF ClientInv, ConsoleFits
  <2>2. progress \in 0 .. WritesPerBlock
    BY <1>0, <2>1 DEF Progressed, ConsoleType
  <2>3. console' = [console EXCEPT !.asked = Nothing, !.noise = 0, !.found = found,
                                   !.progress = progress]
    BY <1>0 DEF ConsoleType
  <2>4. found \in BOOLEAN
    OBVIOUS
  <2> HIDE DEF progress, found
  <2>5. console' \in ConsoleType /\ console'.asked = Nothing
    <3>1. console \in ConsoleType
      BY <1>0
    <3> QED BY ONLY <2>2, <2>3, <2>4, <3>1, ConsoleForgets
  <2>6. ConsoleFits'
    BY <1>0, <2>5 DEF ConsoleFits
  <2> QED BY <1>0, <2>5, <2>6, OutsideKeeps DEF ConsoleType
<1>6. CASE AnsweredByResend
  <2> USE <1>6 DEF AnsweredByResend
  <2>1. ConsoleFits'
    BY <1>0 DEF ConsoleFits, ClientInv
  <2> QED BY <1>0, <2>1, OutsideKeeps DEF ConsoleType
<1>7. CASE AskResend
  <2> USE <1>7 DEF AskResend
  <2>1. ConsoleFits'
    BY <1>0 DEF ConsoleFits, ClientInv
  <2>2. [console.asked EXCEPT !.cmd = "resend"] \in RequestType
    BY <1>0 DEF RequestType
  <2> QED BY <1>0, <2>1, <2>2, OutsideKeeps DEF ConsoleType
<1> QED BY <1>1, <1>2, <1>3, <1>4, <1>5, <1>6, <1>7

LEMMA EnvironmentKeepsClientInv ==
  ASSUME ClientInv, FlashInv, Noise \/ Replug \/ Restart
  PROVE  ClientInv' /\ FlashInv'
<1> USE DEF OnWire, Silence
<1>0. /\ console \in ConsoleType
      /\ port \in Players \cup {-1} /\ environment \in Environments
      /\ wire.kind # "silence" => port # -1 /\ console.asked # Nothing
  BY DEF ClientInv, TypeOK, ConsoleFits, ConsoleType
<1>1. CASE Noise
  <2> USE <1>1 DEF Noise
  <2>1. /\ console' \in ConsoleType
        /\ console'.asked = console.asked /\ console'.progress = console.progress
    <3>1. console.noise + 1 \in Nat
      BY <1>0 DEF ConsoleType
    <3> QED BY <1>0, <3>1 DEF ConsoleType
  <2>2. wire'.kind \in {"silence", "garbledRequest", "garbledAnswer"}
    OBVIOUS
  <2>3. ConsoleFits'
    BY <1>0, <2>1, <2>2 DEF ConsoleFits, ClientInv
  <2> QED BY <1>0, <2>1, <2>2, <2>3, OutsideKeeps DEF ConsoleType
<1>2. CASE Replug
  <2> USE <1>2 DEF Replug
  <2>1. port' \in Players \cup {-1}
    BY <1>0, EnvironmentTypes
  <2>2. ConsoleFits'
    BY <1>0, NewConsoleType DEF ConsoleFits
  <2> QED BY <1>0, <2>1, <2>2, NewConsoleType, OutsideKeeps
<1>3. CASE Restart
  <2> USE <1>3 DEF Restart
  <2>1. FlashInv'
    BY PowerLossKeepsFlashInv
  <2>2. PeripheralsOK'
    BY PeripheralsTypeOK, ResetType, BecomeType DEF ClientInv, Devices
  <2>3. TypeOK'
    BY <1>0, <2>1, <2>2, NewDataBlockType
       DEF ClientInv, TypeOK, FlashInv, PeripheralsOK
  <2>4. ConsoleFits'
    BY <1>0 DEF ConsoleFits, ClientInv
  <2> QED BY <2>1, <2>3, <2>4 DEF ClientInv
<1> QED BY <1>1, <1>2, <1>3

-----------------------------------------------------------------------------
(* What a request does to players, connections and the answer *)

\* The peripherals with the sender's player, and once the device is found.
Addressed(r, player) ==
  IF r.to = "main" THEN WithPlayerIndex(Peripherals, player) ELSE Peripherals

Found(r, player) ==
  IF r.cmd = "info" THEN [Addressed(r, player) EXCEPT !.connected[r.to] = TRUE]
  ELSE Addressed(r, player)

LEMMA FoundType ==
  ASSUME TypeOK, NEW r \in RequestType, NEW player \in Players
  PROVE  /\ r.to \in Devices
         /\ Addressed(r, player) \in PeripheralsType
         /\ Found(r, player) \in PeripheralsType
<1>0. r.to \in Devices
  BY DEF RequestType
<1>1. Addressed(r, player) \in PeripheralsType
  BY PeripheralsTypeOK, WithPlayerIndexType DEF Addressed
<1>2. Found(r, player) \in PeripheralsType
  BY <1>0, <1>1, ConnectedType DEF Found
<1> QED BY <1>0, <1>1, <1>2

LEMMA HandlePacketCases ==
  ASSUME TypeOK, NEW r \in RequestType, NEW player \in Players
  PROVE  LET q == Found(r, player)
             h == HandlePacket(r, player)
         IN  /\ h.next \in {q, Reset(q, r.to), [q EXCEPT !.alarm = r.form = "good"]}
             /\ h.answer = "ack" =>
                  /\ q.connected[r.to] /\ r.cmd # "info"
                  /\ \/ r.cmd \in {"reset", "shutdown"}
                     \/ r.fn \in Functions[r.to] /\ FunctionAnswer(r) = "ack"
<1> DEFINE q == Found(r, player)
<1>1. q.connected[r.to] \in BOOLEAN
  BY FoundType DEF PeripheralsType
<1>2. HandlePacket(r, player) =
        CASE ~ q.connected[r.to] -> [next |-> q, answer |-> "none"]
          [] q.connected[r.to] /\ r.cmd = "info" -> [next |-> q, answer |-> "info"]
          [] q.connected[r.to] /\ r.cmd = "reset" ->
               [next |-> Reset(q, r.to), answer |-> "ack"]
          [] q.connected[r.to] /\ r.cmd = "shutdown" -> [next |-> q, answer |-> "ack"]
          [] q.connected[r.to] /\ ToFunction(r) ->
               IF r.fn \notin Functions[r.to] THEN [next |-> q, answer |-> "unsupported"]
               ELSE [next |-> IF r.fn = "timer" /\ r.cmd = "setCondition" /\ r.form # "short"
                              THEN [q EXCEPT !.alarm = r.form = "good"] ELSE q,
                     answer |-> FunctionAnswer(r)]
          [] OTHER -> [next |-> q, answer |-> "none"]
  BY DEF HandlePacket, Found, Addressed
<1> HIDE DEF q
<1>3. HandlePacket(r, player).next \in {q, Reset(q, r.to), [q EXCEPT !.alarm = r.form = "good"]}
  BY <1>1, <1>2
<1>4. ASSUME HandlePacket(r, player).answer = "ack"
      PROVE  /\ q.connected[r.to] /\ r.cmd # "info"
             /\ \/ r.cmd \in {"reset", "shutdown"}
                \/ r.fn \in Functions[r.to] /\ FunctionAnswer(r) = "ack"
  BY <1>1, <1>2, <1>4 DEF ToFunction
<1> QED BY <1>3, <1>4 DEF q

\* Players change together with that of the main peripheral.
LEMMA PlayersTogether ==
  ASSUME TypeOK, NEW r \in RequestType, NEW player \in Players,
         \A d \in Devices : mPlayerBits[d] \in {0, mPlayerIndex}
  PROVE  LET next == HandlePacket(r, player).next
         IN  /\ \A d \in Devices : next.bits[d] \in {0, next.index}
             /\ r.to = "main" \/ mPlayerIndex \in {-1, player} => next.index \in {-1, player}
<1> DEFINE Agree(p) == \A d \in Devices : p.bits[d] \in {0, p.index}
           a == Addressed(r, player)
           q == Found(r, player)
<1>0. /\ a \in PeripheralsType /\ q \in PeripheralsType /\ r.to \in Devices
  BY FoundType
<1>1. Agree(Peripherals) /\ Peripherals.index = mPlayerIndex
  BY DEF Peripherals
<1>2. Agree(a)
  BY <1>1 DEF Addressed, WithPlayerIndex, AllReset
<1>3. r.to = "main" \/ mPlayerIndex \in {-1, player} => a.index \in {-1, player}
  BY <1>1 DEF Addressed, WithPlayerIndex, AllReset
<1>4. q.bits = a.bits /\ q.index = a.index
  <2> HIDE DEF a
  <2>1. [a EXCEPT !.connected[r.to] = TRUE].bits = a.bits
        /\ [a EXCEPT !.connected[r.to] = TRUE].index = a.index
    BY <1>0 DEF PeripheralsType
  <2> QED BY <2>1 DEF Found, a
<1> HIDE DEF a, q
<1>5. Agree(q)
  BY <1>2, <1>4
<1>6. Agree(Reset(q, r.to)) /\ Reset(q, r.to).index \in {q.index, -1}
  <2>1. CASE r.to = "main"
    BY <2>1 DEF Reset, AllReset
  <2>2. CASE r.to # "main"
    <3>1. Reset(q, r.to) = [connected |-> [q.connected EXCEPT ![r.to] = FALSE],
                            bits |-> [q.bits EXCEPT ![r.to] = 0], index |-> q.index,
                            alarm |-> q.alarm /\ r.to # "memory"]
      BY <1>0, <2>2 DEF Reset, PeripheralsType
    <3> QED BY <1>0, <1>5, <3>1 DEF PeripheralsType
  <2> QED BY <2>1, <2>2
<1>7. [q EXCEPT !.alarm = r.form = "good"].bits = q.bits
      /\ [q EXCEPT !.alarm = r.form = "good"].index = q.index
  BY <1>0 DEF PeripheralsType
<1>8. HandlePacket(r, player).next \in {q, Reset(q, r.to), [q EXCEPT !.alarm = r.form = "good"]}
  BY HandlePacketCases DEF q
<1> QED BY <1>3, <1>4, <1>5, <1>6, <1>7, <1>8

\* A memory unit becomes connected by being found, and no other way.
LEMMA ConnectsByInfo ==
  ASSUME TypeOK, NEW r \in RequestType, NEW player \in Players,
         HandlePacket(r, player).next.connected["memory"]
  PROVE  mConnected["memory"] \/ FindsMemory(r)
<1> DEFINE a == Addressed(r, player)
           q == Found(r, player)
<1>0. /\ a \in PeripheralsType /\ q \in PeripheralsType /\ r.to \in Devices
      /\ "memory" \in Devices
  BY FoundType DEF Devices
<1>1. a.connected["memory"] => mConnected["memory"]
  BY <1>0 DEF Addressed, WithPlayerIndex, AllReset, Peripherals
<1>2. q.connected["memory"] => a.connected["memory"] \/ FindsMemory(r)
  <2> HIDE DEF a
  <2>1. [a EXCEPT !.connected[r.to] = TRUE].connected["memory"]
          => a.connected["memory"] \/ r.to = "memory"
    BY <1>0 DEF PeripheralsType
  <2> QED BY <2>1 DEF Found, FindsMemory, a
<1> HIDE DEF a, q
<1>3. Reset(q, r.to).connected["memory"] => q.connected["memory"]
  BY <1>0 DEF Reset, AllReset, PeripheralsType
<1>4. [q EXCEPT !.alarm = r.form = "good"].connected = q.connected
  BY <1>0 DEF PeripheralsType
<1>5. HandlePacket(r, player).next \in {q, Reset(q, r.to), [q EXCEPT !.alarm = r.form = "good"]}
  BY HandlePacketCases DEF q
<1> QED BY <1>1, <1>2, <1>3, <1>4, <1>5

\* An acknowledgement of the storage comes from a connected memory unit, which has
\* kept the phase or written the block.
LEMMA AckedReaches ==
  ASSUME TypeOK, NEW r \in RequestType, NEW player \in Players,
         HandlePacket(r, player).answer = "ack"
  PROVE  /\ ~ FindsMemory(r)
         /\ WritesPhase(r) => TakesPhase(r)
         /\ r.cmd = "getLastError" => Commits(r) /\ TakesCommit(r) /\ r.block \in Blocks
<1> DEFINE q == Found(r, player)
<1>1. /\ q.connected[r.to] /\ r.cmd # "info"
      /\ \/ r.cmd \in {"reset", "shutdown"}
         \/ r.fn \in Functions[r.to] /\ FunctionAnswer(r) = "ack"
  BY HandlePacketCases
<1>2. ASSUME WritesPhase(r) \/ Commits(r)
      PROVE  /\ Reaches(r)
             /\ WritesPhase(r) => TakesPhase(r)
             /\ Commits(r) => TakesCommit(r) /\ r.block \in Blocks
  <2>1. q.connected = mConnected
    BY <1>1, <1>2 DEF Found, Addressed, Peripherals, WritesPhase, Commits
  <2>2. /\ r.fn = "storage" /\ r.form \in {"good", "range", "short"}
        /\ r.fn \in Functions[r.to] /\ StorageAnswer(r) = "ack"
    BY <1>1, <1>2 DEF WritesPhase, Commits, FunctionAnswer, RequestType
  <2>3. /\ WritesPhase(r) => r.form = "good" /\ r.phase < WritesPerBlock
        /\ Commits(r) => r.form = "good" /\ r.phase = WritesPerBlock /\ r.block \in Blocks
    <3>1. CASE WritesPhase(r)
      BY <2>2, <3>1 DEF StorageAnswer, WritesPhase, Commits
    <3>2. CASE Commits(r)
      BY <2>2, <3>2 DEF StorageAnswer, WritesPhase, Commits
    <3> QED BY <3>1, <3>2, <1>2
  <2>4. Reaches(r)
    BY <1>1, <1>2, <2>1, <2>2, <2>3 DEF Reaches
  <2> QED BY <2>3, <2>4 DEF TakesPhase, TakesCommit, WritesPhase, Commits
<1>3. ASSUME r.cmd = "getLastError"
      PROVE  Commits(r)
  <2>1. r.fn \in Functions[r.to] /\ FunctionAnswer(r) = "ack" /\ r.to \in Devices
    BY <1>1, <1>3 DEF RequestType
  <2>2. r.fn \in {"storage", "screen", "timer", "vibration", "controller"}
    BY <2>1 DEF Functions, Devices
  <2>3. r.fn = "storage"
    BY <1>3, <2>1, <2>2
       DEF FunctionAnswer, ScreenAnswer, TimerAnswer, VibrationAnswer, ControllerAnswer
  <2> QED BY <1>3, <2>1, <2>3 DEF Commits, Functions, Devices
<1> QED BY <1>1, <1>2, <1>3 DEF FindsMemory

-----------------------------------------------------------------------------
(* What is on the wire belongs to this exchange *)

\* What ExchangeInv adds to ClientInv.
ExchangeFits == AskedFits /\ PhasesHeld /\ PlayersAgree /\ WireFits

\* A player of a packet is one of the console, or the one no device has yet.
LEMMA PlayerIsOfPort ==
  ASSUME NEW p \in Players, NEW index \in {-1, port}, p \in {0, index}
  PROVE  p \in {0, port}
BY PlayersAssumption

\* The client takes itself back to where it starts, and the packets stay.
LEMMA QuietKeepsExchange ==
  ASSUME ExchangeFits, Become(AllReset(Peripherals)),
         UNCHANGED <<mLastPacketOut, mDataBlock, mLocalMem, console, port>>,
         wire' \in {wire, Silence}
  PROVE  ExchangeFits'
<1> USE DEF ExchangeFits
<1>1. /\ mConnected' = [d \in Devices |-> FALSE] /\ mPlayerIndex' = -1
      /\ mPlayerBits' = [d \in Devices |-> 0]
  BY DEF Become, AllReset
<1>2. AskedFits'
  BY DEF AskedFits, StorageRequest, FindsClient, WritesPhase, Commits
<1>3. PhasesHeld'
  BY <1>1 DEF PhasesHeld, Devices
<1>4. PlayersAgree'
  BY <1>1 DEF PlayersAgree
<1>5. LastMeets => LastMeets'
  BY <1>1 DEF LastMeets, LastIsOurs, LastIsTrue, Held, FindsMemory, WritesPhase
<1>6. WireFits'
  BY <1>5 DEF WireFits, Silence
<1> QED BY <1>2, <1>3, <1>4, <1>6

\* What the client sends is the answer to what is asked, or the request for it to
\* be sent again.
LEMMA SendsKeepsExchange ==
  ASSUME AskedFits', PhasesHeld', PlayersAgree', NEW packet, Write(packet),
         \/ /\ packet.cmd = "resend"
            /\ console.found /\ ~ console.crossed => packet.player \in {0, port}
         \/ packet = mLastPacketOut' /\ LastMeets',
         UNCHANGED <<console, port>>
  PROVE  ExchangeFits'
<1>1. WireFits'
  BY DEF Write, OnWire, Silence, WireFits
<1> QED BY <1>1 DEF ExchangeFits

LEMMA DispenseKeepsExchange ==
  ASSUME ClientInv, ExchangeFits, TaskDispense
  PROVE  ExchangeFits'
<1> USE DEF ExchangeFits, TaskDispense
<1> DEFINE r == wire.packet
           handled == HandlePacket(r, port)
           cmd == IF handled.answer = "none" THEN "unknown" ELSE handled.answer
           out == Answer(cmd, r.to, handled.next.bits[r.to])
<1>1. /\ r = console.asked /\ r # Nothing /\ r \in RequestType /\ r.to \in Devices
      /\ port \in Players /\ TypeOK
  BY DEF WireFits, ClientInv, TypeOK, ConsoleFits, RequestType
<1>2. /\ Become(handled.next) /\ StorageEffect(r)
      /\ mLastPacketOut' = out /\ Write(out)
      /\ UNCHANGED <<console, port>>
  OBVIOUS
<1>3. /\ \A d \in Devices : handled.next.bits[d] \in {0, handled.next.index}
      /\ r.to = "main" \/ mPlayerIndex \in {-1, port} => handled.next.index \in {-1, port}
  BY <1>1, PlayersTogether DEF PlayersAgree
<1>4. handled.next.connected["memory"] => mConnected["memory"] \/ FindsMemory(r)
  BY <1>1, ConnectsByInfo
<1>5. handled.answer = "ack" =>
        /\ ~ FindsMemory(r)
        /\ WritesPhase(r) => TakesPhase(r)
        /\ r.cmd = "getLastError" => Commits(r) /\ TakesCommit(r) /\ r.block \in Blocks
  BY <1>1, AckedReaches
<1>6. handled.next \in PeripheralsType
  BY <1>1, HandlePacketType
<1>7. /\ out.cmd = "ack" => handled.answer = "ack"
      /\ out.player = handled.next.bits[r.to] /\ out # Nothing
  <2> HIDE DEF handled, r
  <2> QED BY DEF Answer, Nothing
<1> HIDE DEF handled, out, r
<1>8. AskedFits'
  BY <1>2 DEF AskedFits, StorageRequest, FindsClient, WritesPhase, Commits
<1>9. ASSUME ~ console.crossed
      PROVE  mPlayerIndex' \in {-1, port} /\ out.player \in {0, port}
  <2>1. r.to = "main" \/ mPlayerIndex \in {-1, port}
    BY <1>1, <1>9 DEF AskedFits, PlayersAgree, FindsClient
  <2>2. mPlayerIndex' \in {-1, port}
    BY <1>2, <1>3, <2>1 DEF Become
  <2>3. handled.next.bits[r.to] \in Players
    BY <1>1, <1>6 DEF PeripheralsType
  <2> QED BY <1>1, <1>2, <1>3, <1>7, <2>2, <2>3, PlayerIsOfPort DEF Become
<1>11. PlayersAgree'
  BY <1>2, <1>3, <1>7, <1>9 DEF PlayersAgree, Become
\* Phases are stored one after the other.
<1>c. /\ console.progress \in 0 .. WritesPerBlock /\ mDataBlock \in [Phases -> Data]
      /\ console.data \in Data /\ WritesPerBlock \in Nat \ {0}
  BY <1>1, WritesAssumption, WrittenAssumption DEF TypeOK, ConsoleType
<1> DEFINE stored == AsStored(console.block, Uniform(console.data))
<1>12. ASSUME mConnected["memory"], ~ FindsMemory(r), ~ console.spoiled
       PROVE  Held(console.progress)
  BY <1>1, <1>12 DEF PhasesHeld
<1>13. ASSUME TakesPhase(r), ~ console.spoiled
       PROVE  Held(console.progress + 1)'
  <2>0. WritesPhase(r) /\ mConnected["memory"] /\ ~ FindsMemory(r) /\ ~ TakesCommit(r)
    BY <1>1, <1>13
       DEF TakesPhase, TakesCommit, Reaches, WritesPhase, Functions, Devices, FindsMemory
  <2>1. /\ r.phase = console.progress /\ r.data = console.data
        /\ console.progress < WritesPerBlock
    BY <1>1, <2>0 DEF AskedFits, StorageRequest, ClientInv, ConsoleFits
  <2>2. Held(console.progress)
    BY <1>12, <1>13, <2>0
  <2>3. mDataBlock' = [mDataBlock EXCEPT ![r.phase] = r.data]
    BY <1>2, <1>13, <2>0 DEF StorageEffect, StoredPhase
  <2> HIDE DEF stored
  <2>4. ASSUME NEW p \in Phases, p < console.progress + 1
        PROVE  mDataBlock'[p] \in {console.data, stored[p]}
    <3>1. p < console.progress \/ p = console.progress
      BY <1>c, <2>1, <2>4 DEF Phases
    <3> QED BY <1>c, <2>1, <2>2, <2>3, <3>1 DEF Held, stored
  <2> QED BY <1>2, <2>4 DEF Held, stored
<1>14. ASSUME TakesCommit(r), ~ console.spoiled
       PROVE  /\ mDataBlock' = stored /\ r.block = console.block
              /\ r.block \in Blocks => mLocalMem'[console.block] = stored
  <2>0. Commits(r) /\ mConnected["memory"] /\ ~ FindsMemory(r) /\ ~ TakesPhase(r)
    BY <1>1, <1>14
       DEF TakesCommit, TakesPhase, Reaches, Commits, Functions, Devices, FindsMemory
  <2>1. r.block = console.block /\ console.progress = WritesPerBlock
    BY <1>1, <2>0 DEF AskedFits, StorageRequest
  <2>2. \A p \in Phases : mDataBlock[p] \in {console.data, stored[p]}
    <3>1. Held(WritesPerBlock)
      BY <1>12, <1>14, <2>0, <2>1
    <3> QED BY <3>1, <1>c DEF Held, Phases
  <2>3. AsStored(console.block, mDataBlock) = stored
    BY <1>c, <2>2, AsStoredOnce
  <2>4. mDataBlock' = stored
    BY <1>2, <1>14, <2>0, <2>1, <2>3 DEF StorageEffect
  <2> HIDE DEF stored
  <2>5. r.block \in Blocks => mLocalMem' = [mLocalMem EXCEPT ![r.block] = mDataBlock']
    BY <1>2, <1>14 DEF StorageEffect, WriteBlock
  <2> QED BY <1>1, <2>1, <2>4, <2>5 DEF TypeOK, MemoryTypeOK
\* The phases which were acknowledged stay.
<1>15. PhasesHeld'
  <2> SUFFICES ASSUME mConnected'["memory"], ~ FindsMemory(r), ~ console.spoiled
               PROVE  Held(console.progress)'
    BY <1>1, <1>2 DEF PhasesHeld, FindsMemory
  <2>1. Held(console.progress)
    BY <1>2, <1>4, <1>12 DEF Become
  <2>2. CASE TakesPhase(r)
    <3>1. Held(console.progress + 1)'
      BY <1>13, <2>2
    <3> QED BY <1>2, <1>c, <3>1 DEF Held, Phases
  <2>3. CASE TakesCommit(r)
    BY <1>2, <1>14, <2>3 DEF Held
  <2>4. CASE ~ TakesPhase(r) /\ ~ TakesCommit(r)
    BY <1>2, <2>1, <2>4 DEF StorageEffect, Held
  <2> QED BY <2>2, <2>3, <2>4
<1>16. LastMeets'
  <2>1. ASSUME ~ console.crossed
        PROVE  LastIsOurs'
    BY <1>2, <1>7, <1>9, <2>1 DEF LastIsOurs
  <2>2. ASSUME ~ console.spoiled, out.cmd = "ack"
        PROVE  /\ WritesPhase(r) => Held(console.progress + 1)'
               /\ r.cmd = "getLastError" => mLocalMem'[console.block] = stored
               /\ ~ FindsMemory(r)
    BY <1>5, <1>7, <1>13, <1>14, <2>2
  <2>3. ASSUME ~ console.spoiled
        PROVE  LastIsTrue'
    BY <1>1, <1>2, <2>2, <2>3 DEF LastIsTrue, WritesPhase, FindsMemory
  <2> QED BY <1>2, <2>1, <2>3 DEF LastMeets
<1> QED BY <1>2, <1>8, <1>11, <1>15, <1>16, SendsKeepsExchange

LEMMA TaskKeepsExchange ==
  ASSUME ClientInv, ExchangeFits, task
  PROVE  ExchangeFits'
<1> USE DEF ExchangeFits, environmentVars, peripheralVars, memoryVars
<1>s. ASSUME UNCHANGED <<mConnected, mPlayerBits, mPlayerIndex, mLastPacketOut, mDataBlock,
                         mLocalMem, console, port>>
      PROVE  /\ AskedFits' /\ PhasesHeld' /\ PlayersAgree'
             /\ LastMeets => LastMeets'
  BY <1>s DEF AskedFits, PhasesHeld, PlayersAgree, LastMeets, LastIsOurs,
              LastIsTrue, Held, StorageRequest,
              FindsClient, FindsMemory, WritesPhase, Commits
<1>1. CASE TaskIdle
  BY <1>1, QuietKeepsExchange DEF TaskIdle
<1>2. CASE TaskResend
  <2> USE <1>2 DEF TaskResend
  <2>1. CASE mLastPacketOut = Nothing
    <3>1. WireFits'
      BY <2>1 DEF WireFits, Silence
    <3> QED BY <1>s, <3>1
  <2>2. CASE mLastPacketOut # Nothing
    <3>1. LastMeets
      <4>1. CASE wire.packet = console.asked
        <5>1. console.asked # Nothing /\ console.found
          BY <4>1 DEF ClientInv, ConsoleFits, AskedFits, FindsClient
        <5> QED BY <2>2, <4>1, <5>1
                DEF PlayersAgree, LastMeets, LastIsOurs, LastIsTrue, WritesPhase, FindsMemory
      <4>2. CASE wire.packet # console.asked
        BY <4>2 DEF WireFits
      <4> QED BY <4>1, <4>2
    <3> QED BY <1>s, <2>2, <3>1, SendsKeepsExchange
  <2> QED BY <2>1, <2>2
<1>3. CASE TaskDispense
  BY <1>3, DispenseKeepsExchange
<1>4. CASE TaskRequestsResend
  <2> USE <1>4 DEF TaskRequestsResend
  <2> DEFINE packet == Answer("resend", "main", mPlayerBits["main"])
  <2>1. packet.cmd = "resend" /\ packet.player = mPlayerBits["main"] /\ Write(packet)
    BY DEF Answer
  <2>2. ASSUME console.found, ~ console.crossed
        PROVE  packet.player \in {0, port}
    <3>1. /\ mPlayerBits["main"] \in Players
          /\ mPlayerBits["main"] \in {0, mPlayerIndex}
          /\ mPlayerIndex \in {-1, port}
      BY <2>2 DEF PlayersAgree, ClientInv, TypeOK, Devices
    <3> QED BY <2>1, <3>1, PlayerIsOfPort
  <2> HIDE DEF packet
  <2> QED BY <1>s, <2>1, <2>2, SendsKeepsExchange
<1>5. CASE TaskReadFailed
  BY <1>5, QuietKeepsExchange DEF TaskReadFailed
<1> QED BY <1>1, <1>2, <1>3, <1>4, <1>5 DEF task

\* Nothing is on its way: what is left is what holds between two packets.
LEMMA SilentKeepsExchange ==
  ASSUME AskedFits', PhasesHeld', PlayersAgree', wire' = Silence
  PROVE  ExchangeFits'
BY DEF ExchangeFits, WireFits, Silence

\* Progress, data and players last through any step that asks or forgets something.
LEMMA AskKeepsExchange ==
  ASSUME ClientInv, ExchangeFits, console.asked = Nothing,
         NEW r \in RequestType, Ask(r), console' = [console EXCEPT !.asked = r],
         console.found \/ FindsClient(r),
         WritesPhase(r) \/ Commits(r) => r = StorageRequest(r.cmd),
         Commits(r) => console.progress = WritesPerBlock
  PROVE  ExchangeFits'
<1> USE DEF ExchangeFits, Ask, OnWire, clientVars, peripheralVars
<1>1. /\ console'.asked = r /\ console'.progress = console.progress
      /\ console'.block = console.block /\ console'.data = console.data
      /\ console'.found = console.found
      /\ console'.crossed = console.crossed /\ console'.spoiled = console.spoiled
  BY DEF ClientInv, TypeOK, ConsoleType
<1>2. AskedFits'
  BY <1>1 DEF AskedFits, StorageRequest
<1>3. PhasesHeld' /\ PlayersAgree'
  BY <1>1 DEF PhasesHeld, PlayersAgree, Held
<1>4. WireFits'
  BY <1>1 DEF WireFits
<1> QED BY <1>2, <1>3, <1>4

LEMMA ConsoleKeepsExchange ==
  ASSUME ClientInv, ExchangeFits,
         \/ AskTemplate \/ BeginBlock \/ AskNextPhase \/ AskAgain
         \/ Answered \/ AnsweredByResend \/ AskResend
  PROVE  ExchangeFits'
<1> USE DEF Quiet, Ask, OnWire, clientVars, peripheralVars
<1>0. /\ console \in ConsoleType /\ environment \in Environments
      /\ AskedFits /\ PhasesHeld /\ PlayersAgree /\ WireFits
  BY DEF ClientInv, TypeOK, ConsoleFits, ExchangeFits
<1>s. ASSUME UNCHANGED <<clientVars, mLocalMem, console, port>>
      PROVE  /\ AskedFits' /\ PhasesHeld' /\ PlayersAgree'
             /\ LastMeets => LastMeets'
  BY <1>0, <1>s DEF AskedFits, PhasesHeld, PlayersAgree, LastMeets, LastIsOurs,
              LastIsTrue, Held, StorageRequest,
                    FindsClient, FindsMemory, WritesPhase, Commits
<1>1. CASE AskTemplate
  <2>1. PICK r \in environment.requests :
          /\ console.found \/ FindsClient(r)
          /\ Ask(r) /\ console' = [console EXCEPT !.asked = r]
    BY <1>1 DEF AskTemplate, FindsClient
  <2>2. r \in RequestType /\ ~ WritesPhase(r) /\ ~ Commits(r)
    BY <1>0, EnvironmentsAssumption DEF EnvironmentType
  <2> QED BY <1>1, <2>1, <2>2, AskKeepsExchange DEF AskTemplate
<1>2. CASE BeginBlock
  <2> USE <1>2 DEF BeginBlock
  <2>1. PICK b \in environment.blocks, d \in Written :
          console' = [console EXCEPT !.progress = 0, !.block = b, !.data = d,
                                     !.spoiled = FALSE]
    OBVIOUS
  <2>2. /\ console'.asked = Nothing /\ console'.progress = 0
        /\ console'.found = console.found /\ console'.crossed = console.crossed
    BY <1>0, <2>1 DEF ConsoleType
  <2>3. AskedFits'
    BY <2>2 DEF AskedFits
  <2>4. PhasesHeld'
    <3>1. \A p \in Phases : ~ (p < 0)
      BY ONLY WritesAssumption DEF Phases
    <3> QED BY <2>2, <3>1 DEF PhasesHeld, Held
  <2>5. PlayersAgree'
    BY <1>0, <2>2 DEF PlayersAgree
  <2> QED BY <2>3, <2>4, <2>5, SilentKeepsExchange DEF Silence
<1>3. CASE AskNextPhase
  <2> USE <1>3 DEF AskNextPhase
  <2> DEFINE r == StorageRequest(IF console.progress < WritesPerBlock
                                 THEN "blockWrite" ELSE "getLastError")
  <2>1. r \in RequestType
    BY <1>0, WrittenAssumption, WritesAssumption
       DEF StorageRequest, RequestType, Devices, Functions, ConsoleType
  <2>2. r = StorageRequest(r.cmd)
    BY DEF StorageRequest
  <2>3. Commits(r) => console.progress = WritesPerBlock
    BY <1>0, WritesAssumption DEF Commits, StorageRequest, ConsoleType
  <2>4. Ask(r) /\ console' = [console EXCEPT !.asked = r]
    OBVIOUS
  <2> HIDE DEF r
  <2> QED BY ONLY ClientInv, ExchangeFits, <1>3, <2>1, <2>2, <2>3, <2>4, AskKeepsExchange
          DEF AskNextPhase
<1>4. CASE AskAgain
  <2> USE <1>4 DEF AskAgain
  <2>1. CASE Ask(console.asked) /\ UNCHANGED console
    <3>1. WireFits'
      BY <2>1 DEF WireFits
    <3> QED BY <1>s, <2>1, <3>1 DEF ExchangeFits, memoryVars
  <2>2. CASE ~ (Ask(console.asked) /\ UNCHANGED console)
    <3>1. /\ console'.asked = Nothing /\ ~ console'.found /\ console'.progress = 0
          /\ UNCHANGED <<clientVars, wire>> /\ wire = Silence
      BY <1>0, <2>2 DEF ConsoleType
    <3>2. AskedFits' /\ PhasesHeld' /\ PlayersAgree'
      BY <1>0, <3>1 DEF AskedFits, PhasesHeld, PlayersAgree, Held, Phases
    <3> QED BY <3>1, <3>2, SilentKeepsExchange
  <2> QED BY <2>1, <2>2
<1>5. CASE Answered
  <2> USE <1>5 DEF Answered
  <2>1. /\ wire.packet = mLastPacketOut /\ LastMeets
        /\ console.asked # Nothing
    BY <1>0 DEF WireFits, ClientInv, ConsoleFits
  <2>2. /\ console'.asked = Nothing
        /\ console'.progress = IF console.asked.to = "memory"
                               THEN Progressed(wire.packet.cmd) ELSE console.progress
        /\ console'.data = console.data /\ console'.block = console.block
        /\ console'.crossed = console.crossed /\ console'.spoiled = console.spoiled
    BY <1>0 DEF ConsoleType
  <2>3. AskedFits' /\ PlayersAgree'
    BY <1>0, <2>1, <2>2 DEF AskedFits, PlayersAgree, LastMeets, LastIsOurs
  <2>4. PhasesHeld'
    <3> DEFINE stored == AsStored(console.block, Uniform(console.data))
    <3> SUFFICES ASSUME mConnected["memory"], ~ console.spoiled
                 PROVE  \A p \in Phases : p < console'.progress =>
                                            mDataBlock[p] \in {console.data, stored[p]}
      BY <2>2 DEF PhasesHeld, Held
    <3>t. LastIsTrue
      BY <2>1 DEF LastMeets
    <3>0. Held(console.progress) \/ FindsMemory(console.asked)
      BY <1>0, <2>1 DEF PhasesHeld
    <3>1. CASE console'.progress = 0
      BY <3>1 DEF Phases
    <3>2. CASE console'.progress = console.progress + 1 /\ WritesPhase(console.asked)
      <4>1. wire.packet.cmd = "ack"
        BY <2>2, <3>2, WritesAssumption, <1>0 DEF Progressed, WritesPhase, ConsoleType
      <4> QED BY <2>1, <3>t, <3>2, <4>1 DEF LastIsTrue, Held
    <3>3. CASE console'.progress = console.progress /\ ~ FindsMemory(console.asked)
      BY <3>0, <3>3 DEF Held
    <3>4. CASE FindsMemory(console.asked)
      <4>1. wire.packet.cmd # "ack"
        BY <2>1, <3>t, <3>4 DEF LastIsTrue
      <4> QED BY <2>2, <3>1, <3>4, <4>1 DEF Progressed, FindsMemory
    <3> QED BY <2>2, <3>1, <3>2, <3>3, <3>4 DEF Progressed
  <2> QED BY <2>3, <2>4, SilentKeepsExchange
<1>6. CASE AnsweredByResend
  <2> USE <1>6 DEF AnsweredByResend
  <2>1. WireFits'
    BY DEF WireFits
  <2> QED BY <1>s, <2>1 DEF ExchangeFits, memoryVars
<1>7. CASE AskResend
  <2> USE <1>7 DEF AskResend
  <2>1. LastMeets /\ console.asked \in RequestType
    BY <1>0 DEF WireFits, ClientInv, ConsoleFits, ConsoleType
  <2>2. [console.asked EXCEPT !.cmd = "resend"].cmd = "resend"
    BY <2>1 DEF RequestType
  <2>3. WireFits'
    BY <1>s, <2>1, <2>2 DEF WireFits, memoryVars
  <2> QED BY <1>s, <2>3 DEF ExchangeFits, memoryVars
<1> QED BY <1>1, <1>2, <1>3, <1>4, <1>5, <1>6, <1>7

\* A packet is garbled or lost; the client moves, or restarts.
LEMMA EnvironmentKeepsExchange ==
  ASSUME ClientInv, ExchangeFits, Noise \/ Replug \/ Restart
  PROVE  ExchangeFits'
<1> USE DEF clientVars, peripheralVars
<1>0. /\ console \in ConsoleType /\ environment \in Environments
      /\ AskedFits /\ PhasesHeld /\ PlayersAgree /\ WireFits
  BY DEF ClientInv, TypeOK, ConsoleFits, ExchangeFits
<1>1. CASE Noise
  <2> USE <1>1 DEF Noise
  <2> DEFINE asksResend == wire.kind = "answer" /\ wire.packet.cmd = "resend"
  <2>1. /\ console'.asked = console.asked /\ console'.progress = console.progress
        /\ console'.block = console.block /\ console'.data = console.data
        /\ console'.found = console.found
    BY <1>0 DEF ConsoleType
  <2>2. \/ /\ wire' = Silence
           /\ console'.crossed = console.crossed /\ console'.spoiled = console.spoiled
        \/ /\ wire' = OnWire(IF wire.kind = "request" THEN "garbledRequest"
                              ELSE "garbledAnswer", Nothing)
           /\ console'.crossed = (console.crossed \/ asksResend)
           /\ console'.spoiled = (console.spoiled \/ asksResend)
    BY <1>0 DEF ConsoleType
  <2>3. AskedFits' /\ PhasesHeld' /\ PlayersAgree' /\ (LastMeets => LastMeets')
    BY <1>0, <2>1, <2>2
       DEF AskedFits, PhasesHeld, PlayersAgree, LastMeets, LastIsOurs, LastIsTrue, Held,
           StorageRequest, FindsClient, FindsMemory, WritesPhase, Commits, memoryVars
  <2>4. asksResend /\ wire' # Silence => LastMeets'
    BY <2>2 DEF LastMeets
  <2>5. WireFits'
    BY <1>0, <2>2, <2>3, <2>4 DEF WireFits, OnWire, Silence
  <2> QED BY <2>3, <2>5 DEF ExchangeFits
<1>2. CASE Replug
  <2> USE <1>2 DEF Replug
  <2>1. console'.asked = Nothing /\ console'.progress = 0 /\ ~ console'.found
    BY DEF NewConsole
  <2>2. AskedFits' /\ PhasesHeld' /\ PlayersAgree'
    BY <1>0, <2>1 DEF AskedFits, PhasesHeld, PlayersAgree, Held, Phases
  <2> QED BY <2>2, SilentKeepsExchange
<1>3. CASE Restart
  <2> USE <1>3 DEF Restart
  <2>1. /\ mConnected' = [d \in Devices |-> FALSE] /\ mPlayerIndex' = -1
        /\ mPlayerBits' = [d \in Devices |-> 0]
    BY DEF Become, AllReset
  <2>2. AskedFits' /\ PhasesHeld' /\ PlayersAgree'
    BY <1>0, <2>1 DEF AskedFits, PhasesHeld, PlayersAgree, StorageRequest,
                      FindsClient, WritesPhase, Commits, Devices
  <2> QED BY <2>2, SilentKeepsExchange
<1> QED BY <1>1, <1>2, <1>3

LEMMA ExchangeInit == Init => ExchangeFits
<1> SUFFICES ASSUME Init PROVE ExchangeFits
  OBVIOUS
<1> USE DEF Init
<1>1. console.asked = Nothing /\ console.progress = 0 /\ ~ console.found
  BY DEF NewConsole
<1> QED BY <1>1 DEF ExchangeFits, AskedFits, PhasesHeld, PlayersAgree, WireFits,
                    Held, Phases, Silence, Devices

LEMMA ExchangeNext == ClientInv /\ ExchangeFits /\ [Next]_vars => ExchangeFits'
<1> SUFFICES ASSUME ClientInv, ExchangeFits, [Next]_vars PROVE ExchangeFits'
  OBVIOUS
<1>1. CASE UNCHANGED <<clientVars, environmentVars, mLocalMem>>
  BY <1>1 DEF ExchangeFits, AskedFits, PhasesHeld, PlayersAgree, WireFits, LastMeets, LastIsOurs,
              LastIsTrue, Held, StorageRequest, FindsClient, FindsMemory, WritesPhase, Commits,
              clientVars, peripheralVars, environmentVars
<1>2. CASE (process \/ DelayEnds) /\ UNCHANGED <<clientVars, environmentVars>>
  BY <1>1, <1>2 DEF process, DelayEnds, BeginErase, Erase, Delay, BeginProgram, EndProgram
<1>3. CASE UNCHANGED vars
  BY <1>1, <1>3 DEF vars, memoryVars
<1> QED BY <1>2, <1>3, TaskKeepsExchange, ConsoleKeepsExchange, EnvironmentKeepsExchange
        DEF Next

-----------------------------------------------------------------------------
(* Theorems *)

\* Every step keeps both invariants.
LEMMA ClientNext == ClientInv /\ FlashInv /\ [Next]_vars => ClientInv' /\ FlashInv'
<1> SUFFICES ASSUME ClientInv, FlashInv, [Next]_vars PROVE ClientInv' /\ FlashInv'
  OBVIOUS
<1>1. CASE (process \/ DelayEnds) /\ UNCHANGED <<clientVars, environmentVars>>
  <2>1. FlashInv'
    BY <1>1, ProcessKeepsFlashInv
  <2>2. TypeOK' /\ ConsoleFits'
    BY <1>1, <2>1 DEF ClientInv, TypeOK, ConsoleFits, FlashInv, clientVars,
                     peripheralVars, environmentVars
  <2> QED BY <2>1, <2>2 DEF ClientInv
<1>2. CASE UNCHANGED vars
  <2>1. FlashInv'
    BY <1>2, MemoryKept DEF vars
  <2>2. TypeOK' /\ ConsoleFits'
    BY <1>2, <2>1 DEF vars, ClientInv, TypeOK, ConsoleFits, FlashInv, clientVars,
                     peripheralVars, environmentVars
  <2> QED BY <2>1, <2>2 DEF ClientInv
<1> QED BY <1>1, <1>2, TaskKeepsClientInv, ConsoleKeepsClientInv,
           EnvironmentKeepsClientInv DEF Next

LEMMA ClientInvariants == Spec => [](ClientInv /\ FlashInv)
BY ClientInit, ClientNext, PTL DEF Spec

(* Types, and that whatever is on the wire belongs to an exchange the console
   began with a client that is plugged in. *)
THEOREM ClientInvariant == Spec => []ClientInv
BY ClientInvariants, PTL

(* Whatever is written, erased, delayed and programmed in whatever order, what is
   not queued is in flash as it was last written: a loss of power costs no more. *)
THEOREM FlashAlwaysCurrent == Spec => []FlashIsCurrent
<1>1. FlashInv => FlashIsCurrent
  BY DEF FlashInv
<1> QED BY <1>1, ClientInvariants, PTL

(* Whatever is garbled or lost of an exchange, the answer on the wire, garbled or
   not, or asked for again, is the one to what the console asks now, the phases it
   has had acknowledged are in mDataBlock, and all devices have its player: unless a
   request of the client to resend was garbled in turn, since the write began for
   what is said, since the client was found for the player. *)
THEOREM ExchangeInvariant == Spec => []ExchangeInv
<1>1. Init => ExchangeFits
  BY ExchangeInit
<1>2. ClientInv /\ ExchangeFits /\ [Next]_vars => ExchangeFits'
  BY ExchangeNext
<1>3. ClientInv /\ ExchangeFits => ExchangeInv
  BY DEF ExchangeFits, ExchangeInv
<1> QED BY <1>1, <1>2, <1>3, ClientInvariants, PTL DEF Spec

(* A block the console is told was written holds all it wrote, the default save area
   added to a system block without one, through whatever order of resets, changes of
   port, losses of power and repetitions; but for a write in which the client's
   request for a phase to be sent again was itself garbled. *)
THEOREM AckedAlwaysStored == Spec => []AckedIsStored
<1>1. ExchangeInv => AckedIsStored
  BY DEF ExchangeInv, WireFits, LastMeets, LastIsTrue, AckedIsStored
<1> QED BY <1>1, ExchangeInvariant, PTL

(* Once a console has found the client, no answer and no request to resend carries the
   player of another port, until a request to resend was garbled; before that, only a
   request to resend can, of a client that was moved quickly. *)
THEOREM NeverOtherPlayer == Spec => []NoOtherPlayer
<1>1. ExchangeInv => NoOtherPlayer
  BY DEF ExchangeInv, WireFits, LastMeets, LastIsOurs, NoOtherPlayer
<1> QED BY <1>1, ExchangeInvariant, PTL
=============================================================================
