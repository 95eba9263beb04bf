--------------------------- MODULE ClientPeripheral ---------------------------
(***************************************************************************)
(* A client: a controller with a memory unit and a vibration pack, as a    *)
(* console sees it:                                                        *)
(*   src/clientLib/, src/main/Client/client_usb_host_main.cpp.             *)
(*                                                                         *)
(* The main peripheral takes one request at a time from the bus and        *)
(* answers it, itself or by one of its sub-peripherals and their           *)
(* functions.  Blocks are written to FlashMemory.  The console and the     *)
(* wire are the environment: the console asks, waits, asks again when      *)
(* nothing comes, and requests a garbled answer to be sent again; the      *)
(* wire garbles and loses; the client is unplugged and plugged into        *)
(* another port.                                                           *)
(*                                                                         *)
(* An address is a device and a player; of a packet there is its command   *)
(* and, of its payload, what the answer depends on.                        *)
(***************************************************************************)
EXTENDS FlashMemory

CONSTANTS
  Players,         \* ports of the console, 0 the first
  Environments,    \* what may happen to the client: see EnvironmentType
  Data,            \* what a phase of a block may hold
  Written,         \* what the console writes
  WritesPerBlock,  \* WRITES_PER_BLOCK
  BlockNumbers,    \* the blocks the storage takes requests for: below NUM_BLOCKS
  SystemBlock,     \* SYSTEM_BLOCK_NO - NUM_SYSTEM_BLOCKS + 1
  WithSaveArea     \* a first phase whose save area word is 0 -> the same with the default

ASSUME PlayersAssumption == 0 \in Players /\ Players \subseteq Nat
ASSUME BlocksAssumption == Blocks # {}
ASSUME WrittenAssumption == Written \subseteq Data /\ Written # {}
ASSUME WritesAssumption == WritesPerBlock \in Nat \ {0}
ASSUME NumbersAssumption == Blocks \subseteq BlockNumbers
ASSUME SaveAreaAssumption ==
  WithSaveArea \in [DOMAIN WithSaveArea -> Data \ DOMAIN WithSaveArea]

Devices == {"main", "memory", "pack"}
Subs == Devices \ {"main"}

Functions == [main |-> {"controller"}, memory |-> {"storage", "screen", "timer"},
              pack |-> {"vibration"}]

Phases == 0 .. WritesPerBlock - 1

ASSUME ContentsAssumption == [Phases -> Data] \subseteq Contents

\* form is "good", or what is wrong with the payload: out of range, too short.
\* The timer's setCondition stops the alarm when a width is 0: form "range".
RequestType ==
  [cmd : {"info", "reset", "shutdown", "getMemoryInfo", "getCondition", "blockRead",
          "blockWrite", "getLastError", "setCondition", "resend", "other"},
   to : Devices, fn : UNION {Functions[d] : d \in Devices} \cup {"none"},
   form : {"good", "range", "short"}, block : BlockNumbers, phase : 0 .. WritesPerBlock,
   data : Data]

\* The bounds of one behaviour: what the console asks for, besides writing
\* the blocks; the ports used; how many packets are garbled or lost of one
\* exchange; how often the power fails.
EnvironmentType ==
  [requests : SUBSET RequestType, blocks : SUBSET BlockNumbers, ports : SUBSET Players,
   noise : Nat, powerLosses : Nat]

\* A phase of a block for the storage, and the request to write the block
WritesPhase(r) == r.to = "memory" /\ r.fn = "storage" /\ r.cmd = "blockWrite"
Commits(r) == r.to = "memory" /\ r.fn = "storage" /\ r.cmd = "getLastError"

ASSUME EnvironmentsAssumption ==
  /\ Environments \subseteq EnvironmentType
  /\ \A e \in Environments : \A r \in e.requests : ~ WritesPhase(r) /\ ~ Commits(r)

Answers == {"info", "ack", "data", "error", "unsupported", "unknown", "resend"}

Nothing == [cmd |-> "nothing"]
Answer(cmd, from, player) == [cmd |-> cmd, from |-> from, player |-> player]
AnswerType == {Answer(c, d, p) : c \in Answers, d \in Devices, p \in Players}

VARIABLES
  bus,             \* "idle" or "reading": the phase the next task() finds
  mConnected,      \* device -> mConnected
  mPlayerBits,     \* device -> player in its mAddrAugmenter
  mPlayerIndex,    \* -1 if not set
  mLastPacketOut,  \* Nothing until mPacketSent
  mDataBlock,      \* the phases of the block being written
  alarm,           \* the buzzer sounds for the timer
  wire,            \* [kind, packet]: what is on the wire
  port,            \* where the client is plugged in, -1 if nowhere
  console,         \* [asked, found, noise, progress, block, data]; history [crossed, spoiled]
  environment,     \* the bounds of this behaviour
  powerLosses      \* how often the power has failed

peripheralVars == <<mConnected, mPlayerBits, mPlayerIndex, alarm>>
clientVars == <<bus, peripheralVars, mLastPacketOut, mDataBlock>>
environmentVars == <<wire, port, console, environment, powerLosses>>
vars == <<clientVars, environmentVars, memoryVars>>

Silence == [kind |-> "silence", packet |-> Nothing]
OnWire(kind, packet) == [kind |-> kind, packet |-> packet]

\* progress phases of data for block have been acknowledged.  crossed and spoiled
\* are a history: since the console began to look for the client, and since it began
\* to write the block, a request of the client to resend arrived garbled, and the
\* console, which cannot tell, had the answer before that one sent again.
ConsoleType ==
  [asked : RequestType \cup {Nothing}, found : BOOLEAN, noise : Nat,
   progress : 0 .. WritesPerBlock, block : BlockNumbers, data : Written,
   crossed : BOOLEAN, spoiled : BOOLEAN]

NewConsole ==
  [asked |-> Nothing, found |-> FALSE, noise |-> 0, progress |-> 0,
   block |-> CHOOSE b \in BlockNumbers : TRUE, data |-> CHOOSE d \in Written : TRUE,
   crossed |-> FALSE, spoiled |-> FALSE]

Uniform(d) == [p \in Phases |-> d]

-----------------------------------------------------------------------------
(* Functions: the answer to a request, "none" if it is not handled *)

\* A block beyond the end of the memory is neither read nor written.
StorageAnswer(r) ==
  CASE r.cmd = "getMemoryInfo" -> IF SystemBlock \in Blocks THEN "data" ELSE "error"
    [] r.cmd = "blockRead" /\ r.form # "short" ->
         IF r.form = "good" /\ r.phase = 0 /\ r.block \in Blocks THEN "data" ELSE "error"
    [] r.cmd = "blockWrite" /\ r.form # "short" ->
         IF r.form = "good" /\ r.phase < WritesPerBlock THEN "ack" ELSE "error"
    [] r.cmd = "getLastError" /\ r.form # "short" ->
         IF r.form = "good" /\ r.phase = WritesPerBlock /\ r.block \in Blocks
         THEN "ack" ELSE "error"
    [] OTHER -> "none"

ScreenAnswer(r) ==
  CASE r.cmd \in {"getMemoryInfo", "setCondition"} -> "data"
    [] r.cmd = "blockWrite" /\ r.form # "short" -> "ack"
    [] OTHER -> "none"

TimerAnswer(r) ==
  CASE r.cmd = "getCondition" -> "data"
    [] r.cmd = "blockRead" /\ r.form = "good" -> "data"
    [] r.cmd = "blockWrite" /\ r.form = "good" -> "ack"
    [] r.cmd = "setCondition" /\ r.form # "short" -> "ack"
    [] OTHER -> "none"

\* A good write of the auto-stop time takes effect, but falls out of the
\* switch to the return of false.
VibrationAnswer(r) ==
  CASE r.cmd = "getCondition" -> "data"
    [] r.cmd = "getMemoryInfo" -> IF r.form = "good" THEN "data" ELSE "resend"
    [] r.cmd = "setCondition" -> IF r.form = "good" THEN "ack" ELSE "resend"
    [] r.cmd = "blockRead" ->
         IF r.form = "good" THEN "data"
         ELSE IF r.form = "range" THEN "unknown" ELSE "resend"
    [] r.cmd = "blockWrite" ->
         IF r.form = "good" THEN "none"
         ELSE IF r.form = "range" THEN "unknown" ELSE "resend"
    [] OTHER -> "none"

ControllerAnswer(r) == IF r.cmd = "getCondition" THEN "data" ELSE "none"

FunctionAnswer(r) ==
  CASE r.fn = "storage" -> StorageAnswer(r)
    [] r.fn = "screen" -> ScreenAnswer(r)
    [] r.fn = "timer" -> TimerAnswer(r)
    [] r.fn = "vibration" -> VibrationAnswer(r)
    [] r.fn = "controller" -> ControllerAnswer(r)

ToFunction(r) ==
  r.cmd \in {"getMemoryInfo", "getCondition", "blockRead", "blockWrite",
             "getLastError", "setCondition"}

-----------------------------------------------------------------------------
(* Peripherals.  p is a record of the peripheralVars. *)

Peripherals ==
  [connected |-> mConnected, bits |-> mPlayerBits, index |-> mPlayerIndex, alarm |-> alarm]

Become(p) ==
  /\ mConnected' = p.connected
  /\ mPlayerBits' = p.bits
  /\ mPlayerIndex' = p.index
  /\ alarm' = p.alarm

\* Mutant: the main peripheral resets only itself.
AllReset_MainOnly(p) ==
  [p EXCEPT !.connected["main"] = FALSE, !.bits["main"] = 0, !.index = -1]

\* DreamcastMainPeripheral::reset(): itself and all sub-peripherals, with all
\* of their functions.
AllReset(p) ==
  [connected |-> [d \in Devices |-> FALSE], bits |-> [d \in Devices |-> 0],
   index |-> -1, alarm |-> FALSE]

\* The virtual reset() of device d.
Reset(p, d) ==
  IF d = "main" THEN AllReset(p)
  ELSE [p EXCEPT !.connected[d] = FALSE, !.bits[d] = 0,
                 !.alarm = @ /\ d # "memory"]

\* Mutant: a player once set is kept until the reset.
WithPlayerIndex_Once(p, player) ==
  IF p.index # -1 THEN p
  ELSE [p EXCEPT !.index = player, !.bits = [d \in Devices |-> player]]

WithPlayerIndex(p, player) ==
  LET q == IF p.connected["main"] THEN AllReset(p) ELSE p
  IN  IF p.connected["main"] /\ player = p.index THEN p
      ELSE [q EXCEPT !.index = player, !.bits = [d \in Devices |-> player]]

\* handlePacket(): the peripherals and the answer, "none" if not handled.
HandlePacket(r, player) ==
  LET d == r.to
      p == IF d = "main" THEN WithPlayerIndex(Peripherals, player) ELSE Peripherals
      q == IF r.cmd = "info" THEN [p EXCEPT !.connected[d] = TRUE] ELSE p
  IN  CASE ~ q.connected[d] -> [next |-> q, answer |-> "none"]
        [] q.connected[d] /\ r.cmd = "info" -> [next |-> q, answer |-> "info"]
        [] q.connected[d] /\ r.cmd = "reset" -> [next |-> Reset(q, d), answer |-> "ack"]
        [] q.connected[d] /\ r.cmd = "shutdown" -> [next |-> q, answer |-> "ack"]
        [] q.connected[d] /\ ToFunction(r) ->
             IF r.fn \notin Functions[d] THEN [next |-> q, answer |-> "unsupported"]
             ELSE [next |-> IF r.fn = "timer" /\ r.cmd = "setCondition" /\ r.form # "short"
                            THEN [q EXCEPT !.alarm = r.form = "good"] ELSE q,
                   answer |-> FunctionAnswer(r)]
        [] OTHER -> [next |-> q, answer |-> "none"]

\* The storage of a connected memory unit gets the request.
Reaches(r) ==
  mConnected[r.to] /\ r.fn = "storage" /\ "storage" \in Functions[r.to] /\ r.form = "good"

\* Mutant: every phase is stored where the first one belongs.
StoredPhase_First(r) == [mDataBlock EXCEPT ![0] = r.data]

StoredPhase(r) == [mDataBlock EXCEPT ![r.phase] = r.data]

\* writeBlock() sets the save area of a system block that leaves it 0.
AsStored(b, contents) ==
  IF b = SystemBlock /\ contents[0] \in DOMAIN WithSaveArea
  THEN [contents EXCEPT ![0] = WithSaveArea[contents[0]]]
  ELSE contents

TakesPhase(r) == Reaches(r) /\ r.cmd = "blockWrite" /\ r.phase < WritesPerBlock
TakesCommit(r) == Reaches(r) /\ r.cmd = "getLastError" /\ r.phase = WritesPerBlock

\* What the storage does with the request: keep a phase, write the block.
StorageEffect(r) ==
  /\ mDataBlock' = CASE TakesPhase(r) -> StoredPhase(r)
                     [] TakesCommit(r) -> AsStored(r.block, mDataBlock)
                     [] OTHER -> mDataBlock
  /\ IF TakesCommit(r) /\ r.block \in Blocks THEN WriteBlock(r.block, mDataBlock')
     ELSE UNCHANGED memoryVars

-----------------------------------------------------------------------------
(* task() of the main peripheral, by the phase that processEvents() returns *)

\* mBus->write(), which starts to read again after the packet, unless the
\* line was busy: the bus is left idle then.
Write(packet) ==
  \/ bus' = "reading" /\ wire' = OnWire("answer", packet)
  \/ bus' = "idle" /\ wire' = Silence

\* IDLE
TaskIdle ==
  /\ bus = "idle"
  /\ Become(AllReset(Peripherals))
  /\ bus' = "reading"
  /\ UNCHANGED <<mLastPacketOut, mDataBlock, environmentVars, memoryVars>>

\* READ_COMPLETE with a request to send the last packet again.
TaskResend ==
  /\ bus = "reading"
  /\ wire.kind = "request" /\ wire.packet.cmd = "resend"
  /\ IF mLastPacketOut # Nothing THEN Write(mLastPacketOut)
     ELSE wire' = Silence /\ UNCHANGED bus
  /\ UNCHANGED <<peripheralVars, mLastPacketOut, mDataBlock, port, console, environment, powerLosses, memoryVars>>

\* READ_COMPLETE with any other request: every request is for one of the
\* devices there are, and gets an answer.
TaskDispense ==
  /\ bus = "reading"
  /\ wire.kind = "request" /\ wire.packet.cmd # "resend"
  /\ LET r == wire.packet
         handled == HandlePacket(r, port)
         cmd == IF handled.answer = "none" THEN "unknown" ELSE handled.answer
         out == Answer(cmd, r.to, handled.next.bits[r.to])
     IN  /\ Become(handled.next)
         /\ StorageEffect(r)
         /\ mLastPacketOut' = out
         /\ Write(out)
  /\ UNCHANGED <<port, console, environment, powerLosses>>

\* READ_FAILED because of the CRC, while connected.
TaskRequestsResend ==
  /\ bus = "reading"
  /\ wire.kind = "garbledRequest"
  /\ mConnected["main"]
  /\ Write(Answer("resend", "main", mPlayerBits["main"]))
  /\ UNCHANGED <<peripheralVars, mLastPacketOut, mDataBlock, port, console, environment, powerLosses, memoryVars>>

\* READ_FAILED for any other reason: nothing for a second, words missing.
TaskReadFailed ==
  /\ bus = "reading"
  /\ wire.kind = "silence" \/ wire.kind = "garbledRequest"
  /\ Become(AllReset(Peripherals))
  /\ wire' = Silence
  /\ UNCHANGED <<bus, mLastPacketOut, mDataBlock, port, console, environment, powerLosses, memoryVars>>

task == TaskIdle \/ TaskResend \/ TaskDispense \/ TaskRequestsResend \/ TaskReadFailed

-----------------------------------------------------------------------------
(* The console *)

Quiet == port # -1 /\ wire = Silence

Ask(r) ==
  /\ Quiet
  /\ wire' = OnWire("request", r)
  /\ UNCHANGED <<clientVars, port, environment, powerLosses, memoryVars>>

\* Anything but a phase of a write.  A console starts with the main device.
AskTemplate ==
  /\ console.asked = Nothing
  /\ \E r \in environment.requests :
       /\ console.found \/ (r.to = "main" /\ r.cmd = "info")
       /\ Ask(r)
       /\ console' = [console EXCEPT !.asked = r]

\* A console begins to write a block, from its first phase.
BeginBlock ==
  /\ Quiet
  /\ console.asked = Nothing /\ console.found
  /\ \E b \in environment.blocks, d \in Written :
       console' = [console EXCEPT !.progress = 0, !.block = b, !.data = d, !.spoiled = FALSE]
  /\ UNCHANGED <<clientVars, wire, port, environment, powerLosses, memoryVars>>

StorageRequest(cmd) ==
  [cmd |-> cmd, to |-> "memory", fn |-> "storage", form |-> "good",
   block |-> console.block, phase |-> console.progress, data |-> console.data]

\* The next phase, or the commit once all are acknowledged.
AskNextPhase ==
  /\ console.asked = Nothing /\ console.found
  /\ console.block \in environment.blocks
  /\ LET r == StorageRequest(IF console.progress < WritesPerBlock
                             THEN "blockWrite" ELSE "getLastError")
     IN  /\ Ask(r)
         /\ console' = [console EXCEPT !.asked = r]

\* Nothing came in time: the console asks again, or takes the client as gone.
AskAgain ==
  /\ console.asked # Nothing
  /\ \/ Ask(console.asked) /\ UNCHANGED console
     \/ /\ Quiet
        /\ console' = [console EXCEPT !.asked = Nothing, !.noise = 0,
                                   !.found = FALSE, !.progress = 0,
                                   !.crossed = FALSE, !.spoiled = FALSE]
        /\ UNCHANGED <<clientVars, wire, port, environment, powerLosses, memoryVars>>

Progressed(cmd) ==
  IF cmd # "ack" THEN 0
  ELSE IF WritesPhase(console.asked) THEN console.progress + 1
  ELSE IF console.asked.cmd = "getLastError" THEN 0
  ELSE console.progress

\* An answer arrives.
Answered ==
  /\ wire.kind = "answer" /\ wire.packet.cmd # "resend"
  /\ wire' = Silence
  /\ console' = [console EXCEPT
                   !.asked = Nothing,
                   !.noise = 0,
                   !.found = (@ /\ wire.packet.cmd # "unknown") \/ wire.packet.cmd = "info",
                   !.progress = IF console.asked.to = "memory" THEN Progressed(wire.packet.cmd)
                                ELSE @]
  /\ UNCHANGED <<clientVars, port, environment, powerLosses, memoryVars>>

\* The client asks for the request to be sent again.
AnsweredByResend ==
  /\ wire.kind = "answer" /\ wire.packet.cmd = "resend"
  /\ wire' = OnWire("request", console.asked)
  /\ UNCHANGED <<clientVars, port, console, environment, powerLosses, memoryVars>>

\* An answer arrived garbled: the console asks for it again.
AskResend ==
  /\ wire.kind = "garbledAnswer"
  /\ wire' = OnWire("request", [console.asked EXCEPT !.cmd = "resend"])
  /\ UNCHANGED <<clientVars, port, console, environment, powerLosses, memoryVars>>

-----------------------------------------------------------------------------
(* The wire, the user *)

\* A packet is garbled on its way, or lost.
Noise ==
  /\ wire.kind \in {"request", "answer"}
  /\ console.noise < environment.noise
  /\ LET asksResend == wire.kind = "answer" /\ wire.packet.cmd = "resend"
     IN  \/ /\ wire' = Silence
            /\ console' = [console EXCEPT !.noise = @ + 1]
         \/ /\ wire' = OnWire(IF wire.kind = "request" THEN "garbledRequest"
                             ELSE "garbledAnswer", Nothing)
            /\ console' = [console EXCEPT !.noise = @ + 1, !.crossed = @ \/ asksResend,
                                        !.spoiled = @ \/ asksResend]
  /\ UNCHANGED <<clientVars, port, environment, powerLosses, memoryVars>>

\* The client is unplugged, or plugged into a port.
Replug ==
  /\ port' \in (environment.ports \cup {-1}) \ {port}
  /\ wire' = Silence
  /\ console' = NewConsole
  /\ UNCHANGED <<clientVars, environment, powerLosses, memoryVars>>

\* mDataBlock is cleared by its constructor.
NewDataBlock == Uniform(CHOOSE d \in Data : TRUE)

Init ==
  /\ bus = "idle"
  /\ mConnected = [d \in Devices |-> FALSE]
  /\ mPlayerBits = [d \in Devices |-> 0]
  /\ mPlayerIndex = -1
  /\ mLastPacketOut = Nothing
  /\ mDataBlock = NewDataBlock
  /\ alarm = FALSE
  /\ MemoryStarts([b \in Blocks |-> Uniform(CHOOSE d \in Data : TRUE)])
  /\ powerLosses = 0
  /\ wire = Silence
  /\ environment \in Environments
  /\ port \in environment.ports
  /\ console = NewConsole

\* The client loses power, which its cable brings, and starts again.
Restart ==
  /\ powerLosses < environment.powerLosses
  /\ powerLosses' = powerLosses + 1
  /\ PowerLoss
  /\ bus' = "idle"
  /\ Become(AllReset(Peripherals))
  /\ mLastPacketOut' = Nothing
  /\ mDataBlock' = NewDataBlock
  /\ wire' = Silence
  /\ UNCHANGED <<port, console, environment>>

Next ==
  \/ task
  \/ (process \/ DelayEnds) /\ UNCHANGED <<clientVars, environmentVars>>
  \/ AskTemplate \/ BeginBlock \/ AskNextPhase \/ AskAgain
  \/ Answered \/ AnsweredByResend \/ AskResend
  \/ Noise \/ Replug \/ Restart

Core1Runs == process /\ UNCHANGED <<clientVars, environmentVars>>
TimePasses == DelayEnds /\ UNCHANGED <<clientVars, environmentVars>>

Spec == Init /\ [][Next]_vars

\* Both cores run for ever, and delays end.
FairSpec == Spec /\ WF_vars(task) /\ WF_vars(Core1Runs) /\ WF_vars(TimePasses)
-----------------------------------------------------------------------------
(* Properties *)

TypeOK ==
  /\ MemoryTypeOK
  /\ bus \in {"idle", "reading"}
  /\ mConnected \in [Devices -> BOOLEAN]
  /\ mPlayerBits \in [Devices -> Players]
  /\ mPlayerIndex \in Players \cup {-1}
  /\ mLastPacketOut \in AnswerType \cup {Nothing}
  /\ mDataBlock \in [Phases -> Data]
  /\ alarm \in BOOLEAN
  /\ wire.kind \in {"silence", "request", "answer", "garbledRequest", "garbledAnswer"}
  /\ wire.kind = "answer" => wire.packet \in AnswerType
  /\ wire.kind = "request" => wire.packet \in RequestType
  /\ port \in Players \cup {-1}
  /\ console \in ConsoleType

\* When the console is told that a block was written, the block holds what the
\* console wrote, with the default save area if it is the system block and has none:
\* all phases of it, whatever was lost, garbled, repeated, requested again, reset or
\* restarted between the first phase and the commit.  Nothing is claimed of a write
\* (spoiled) in which the client asked for a phase again and that request was garbled
\* in turn: task() then repeats its last answer, which was to the phase before.
AckedIsStored ==
  /\ wire.kind = "answer" /\ wire.packet.cmd = "ack"
  /\ console.asked.cmd = "getLastError" /\ ~ console.spoiled
  => mLocalMem[console.block] = AsStored(console.block, Uniform(console.data))

\* Once a console has found the client, every answer carries the player of the port
\* the client is plugged into, or none: main and sub-peripherals change their players
\* together, and lose them together.  Before that, a client which was moved quickly
\* and gets a garbled request still asks for it again as the player it was.  Nothing
\* is claimed after (crossed) an answer of unknown age was sent again in place of a
\* garbled request to resend.
NoOtherPlayer ==
  wire.kind = "answer" =>
    \/ wire.packet.player \in {0, port}
    \/ ~ console.found /\ wire.packet.cmd = "resend"
    \/ console.crossed

\* A client that is left unplugged becomes quiet: nothing stays connected for
\* the next console, and the alarm a console started stops.
GoneMeansQuiet ==
  port = -1 ~> \/ port # -1
               \/ ~ alarm /\ \A d \in Devices : ~ mConnected[d]

-----------------------------------------------------------------------------
(* The inductive invariant *)

\* Whatever is on the wire belongs to an exchange the console began with a client
\* that is plugged in, and it asks for no more phases than a block has.
ConsoleFits ==
  /\ environment \in Environments
  /\ wire.kind # "silence" => port # -1 /\ console.asked # Nothing
  /\ console.asked # Nothing /\ WritesPhase(console.asked) =>
       console.progress < WritesPerBlock

ClientInv == TypeOK /\ ConsoleFits

\* The storage holds the first k phases of what the console writes, as they were sent
\* or, after a commit, as they were stored.
Held(k) ==
  \A p \in Phases :
    p < k => mDataBlock[p] \in {console.data, AsStored(console.block, Uniform(console.data))[p]}

FindsClient(r) == r.to = "main" /\ r.cmd = "info"
FindsMemory(r) == r.to = "memory" /\ r.cmd = "info"

\* A write goes on where the acknowledged phases end.
AskedFits ==
  console.asked # Nothing =>
    /\ console.found \/ FindsClient(console.asked)
    /\ WritesPhase(console.asked) \/ Commits(console.asked) =>
         console.asked = StorageRequest(console.asked.cmd)
    /\ Commits(console.asked) => console.progress = WritesPerBlock

\* A memory unit lost its phases only if it was lost itself: until the console
\* has found it anew it acknowledges nothing.
PhasesHeld ==
  mConnected["memory"] /\ ~ console.spoiled =>
    Held(console.progress) \/ (console.asked # Nothing /\ FindsMemory(console.asked))

\* All devices have the player of the main peripheral, or none, and for a console
\* which has found the client, that is its port.
PlayersAgree ==
  /\ \A d \in Devices : mPlayerBits[d] \in {0, mPlayerIndex}
  /\ console.found /\ ~ console.crossed =>
       /\ mPlayerIndex \in {-1, port}
       /\ mLastPacketOut # Nothing => mLastPacketOut.player \in {0, port}

\* The last answer is one of the port, and to what the console asks now, and what it
\* says is true.
LastIsOurs ==
  /\ mPlayerIndex \in {-1, port}
  /\ mLastPacketOut # Nothing /\ mLastPacketOut.player \in {0, port}

LastIsTrue ==
  mLastPacketOut.cmd = "ack" =>
    /\ WritesPhase(console.asked) => Held(console.progress + 1)
    /\ console.asked.cmd = "getLastError" =>
         mLocalMem[console.block] = AsStored(console.block, Uniform(console.data))
    /\ ~ FindsMemory(console.asked)

LastMeets ==
  /\ ~ console.crossed => LastIsOurs
  /\ ~ console.spoiled => LastIsTrue

\* An answer is requested again only after it was sent, unless it was a request to
\* resend; a request only in place of any answer.
WireFits ==
  /\ wire.kind = "request" =>
       \/ wire.packet = console.asked
       \/ wire.packet.cmd = "resend" /\ LastMeets
  /\ wire.kind = "answer" =>
       \/ /\ wire.packet.cmd = "resend"
          /\ console.found /\ ~ console.crossed => wire.packet.player \in {0, port}
       \/ wire.packet = mLastPacketOut /\ LastMeets
  /\ wire.kind = "garbledAnswer" => LastMeets

ExchangeInv == ClientInv /\ AskedFits /\ PhasesHeld /\ PlayersAgree /\ WireFits

-----------------------------------------------------------------------------
Commit == TaskDispense /\ wire.packet.cmd = "getLastError"

\* Unless the console goes on committing for ever, all that it wrote gets
\* into the flash: no sector stays erased, delayed or forgotten.
FlashCatchesUp == []<>(mSectorQueue = <<>>) \/ []<><<Commit>>_vars
=============================================================================
