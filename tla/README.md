# DreamPicoPort: models, checks and proofs

DreamPicoPort is firmware for the RP2040. Its *host* build lets controllers,
memory units and other devices of the Dreamcast be used over USB; its *client*
build imitates such a device towards a console. This directory holds TLA+ models
of both: of the parts in which steps of several actors meet — the two cores, the
interrupt handlers, the state machines of the hardware, the devices on the bus,
the computer on USB, the power, and the user who plugs things.

Paths below are relative to the repository. `PROJECT.json` maps each definition
to the lines it stands for, and lists runs, mutants, findings and hazards.

## 1. Inventory

### Who runs where

| actor | runs |
| --- | --- |
| core 0 of the host | start-up, USB (`usb_task`, the callbacks of the USB drive and of the control requests), input and echo of the serial port, WebUSB input and output, gamepad reports, saving of settings, automatic detection, its half of the heartbeat |
| core 1 of the host | for ever: `task()` of every main node, commands of the serial stream, WebUSB packets, its half of the heartbeat, which feeds the watchdog (1 s) if core 0 was alive since |
| interrupt handlers | `readIsr()`, `writeIsr()` of each bus. The host constructs its buses on core 0, so the handlers run there while the loop that uses the bus runs on core 1 |
| PIO state machines | send and receive packets, raise the interrupts |
| core 0 of the client | the bus and all peripherals |
| core 1 of the client | the USB host, the display, `process()` of the memory |
| the environment | plugs and unplugs, types, polls the drive, garbles packets, cuts the power |

### Components

| component | state | operations | talks to |
| --- | --- | --- | --- |
| schedule and timeliner (`PrioritizedTxScheduler`, `TransmissionTimeliner`, `EndpointTxScheduler`) | a list per priority, next ID, the transmission on the wire | add, peek, pop and repeat, cancel by ID or recipient, cancel all, count; readTask, writeTask | called by nodes, peripherals and parsers; drives the bus |
| Maple Bus driver (`MapleBus`, two PIO programs) | phase, state machines, response expected | write, startRead, processEvents, two interrupt handlers | the wires |
| host nodes (`DreamcastMainNode`, `DreamcastSubNode`) | detected, peripherals, connected, ID of the info request, failures in a row | readTask, runDependentTasks, writeTask, setConnected, disconnect | the schedule; create and call peripherals |
| memory units as USB files (`DreamcastStorage`, `msc_disk.cpp`) | state, phase and timeout of a read and of a write; table of files, directory in RAM, `new_data`, `ejected`, `errorCount` | read, write, the callbacks of the drive (core 0); task, txStarted, txComplete, txFailed, add and remove (core 1) | `fileMutex`, the schedule, the computer |
| screen (`ScreenData`, `DreamcastScreen`) | newest picture, ID and state of an update | set, pass on, task, callbacks of the bus (core 1) | the schedule |
| controller, timer, USB gamepad | controls, `buttonsUpdated`, report under way, mounted or not | set by core 1, sent by core 0 | the computer |
| serial stream (`SerialStreamParser`, `cdc.cpp`) | buffer of characters, ends of commands, two mutexes | addChars (core 0), process (core 1), reset (control request) | the handlers |
| WebUSB packets (`WebUsbProcessorBase`, `webusb.cpp`) | incoming buffer, parser, bounded queue of answers, packets at the bus | receive, flush, connect (core 0); parse, execute (core 1) | the handlers, the bus |
| command handlers (`tty_parsers/`, `webusb_parsers/`) | none | one function per command | nodes, screens, settings |
| settings (`DppSettings`) | saved, loaded, requested | load, make valid, request (core 1), save or clear and reboot (core 0) | flash, watchdog |
| start-up, detection, heartbeat (`host_setup.cpp`) | masks kept in scratch registers, liveness of core 0 | dpp_hw_init, maple_detect, heartbeat | nodes, settings, watchdog |
| client peripherals (`clientLib/`) | connected, address, last packet, phases of the block being written | answer a packet, reset, shut down, change of port | memory |
| memory with persistence (`NonVolatilePicoSystemMemory`) | a copy in RAM, queue of sectors, state of programming | read, write (core 0), process (core 1) | flash |

### What is hard

* **Interleaving of cores and interrupts**: a memory unit destroyed by core 1
  while core 0 is inside it; an interrupt that changes the phase after
  `processEvents()` has looked at it; a directory copied while it is rewritten; a
  report filled while the controls change; a sector written to while it is erased.
* **Waiting**: core 0 spins with a mutex held until core 1 makes progress, and
  core 1 takes that mutex; a control request takes a mutex inside a USB task that
  runs while another one is held.
* **Lifetime**: a scheduled transmission holds a plain pointer to the peripheral
  which added it; peripherals die on a disconnect, on a change of a sub node and
  on new device info. An answer may arrive after its connection was replaced.
* **Lost answers and retries**: they are normal on this bus. A device is given up
  after ten failures in a row; a block write is retried from its first phase; a
  timeout may race a late answer; both ends may ask for a packet to be repeated.
* **Restarts**: settings, detection masks and flash sectors are written in steps,
  and power or a commanded reboot may come between any two.
* **Order**: repetitions inserted between new items, items skipped by the search
  for one that fits, answers to packets of several senders.
* **Numbers**: rounding on a cadence, IDs that wrap, blocks, clusters and slots
  counted from different origins, buffers at their limit.

What makes each component correct is stated by its properties in section 3; the
hazards list of `PROJECT.json` gives the line at which each could go wrong.

## 2. Modules

| module | of | proofs | instance |
| --- | --- | --- | --- |
| `TxScheduler` | schedule and timeliner | `TxSchedulerProofs` | in `CommandPath`; `MCTxScheduler` |
| `Exchange` | what a bus promises (abstract) | | |
| `MapleBus` | driver, state machines, interrupts, loop, on a host and on a client; implements `Exchange` | `MapleBusProofs` | in `CommandPath`; `MCMapleBus` |
| `HostNode` | one port: main node, sub nodes, peripherals as owners of transmissions | `HostNodeProofs` | `MCHostNode` |
| `UsbStorage` | accesses to memory units by the USB drive | `UsbStorageProofs` | in `UsbDevice`; `MCUsbStorage` |
| `UsbDrive` | the drive as the computer sees it | `UsbDriveProofs` | in `UsbDevice` |
| `HostGamepad`, `HostScreen` | controls on their way to USB, pictures on their way to a screen | | in `UsbDevice` |
| `UsbDevice` | composes these four | | `MCUsbDevice` |
| `HostCores` | what the loops of the two cores have in common | | |
| `SerialStream`, `WebUsbStream` | the two streams of commands (both EXTEND `HostCores`) | | in `HostLoops` |
| `CommandHandlers` | what each command does, as functions | | in `HostLoops`, `HostLifecycle` |
| `HostLoops` | composes both streams and the handlers on the two cores | `HostLoopsProofs` | in `CommandPath`; `MCHostLoops` |
| `CommandPath` | composes the streams, the schedule and the bus: the way of a command | | `MCCommandPath` |
| `HostLifecycle` | start-up, detection, settings, watchdog, reboots | `HostLifecycleProofs` | `MCHostLifecycle` |
| `FlashMemory` | the client's memory | `ClientProofs` | in `ClientPeripheral` |
| `ClientPeripheral` | a client with its functions, a console and a wire | `ClientProofs` | `MCClient` |

Definitions whose name ends in `_Something` after the name of another one
(`InsertPosition_BeforeEquals`) are that definition with a plausible mistake. They
are used in no specification; each shows that a property notices the mistake.

### TxScheduler

`mSchedule`, `mNextId` and `mCurrentTx` are the members of those names;
`mCurrentTx` keeps the ID only. A transmission is a record of the fields of
`Transmission` the schedule looks at. `AddTx` is both public `add()`s with the
protected one (`Insert`); `PeekNext(p, i)` says that the item at position `i` of
list `p` is the one `peekNext()` returns, written as a condition on the position
(`Usable`, `InTheWay`) and not as its nested loops; `WriteTask` is
`writeTask()` with `popItem()`; `ReadTask` is the end of an exchange; the cancels
erase sets of items. All of it is called on core 1, one call at a time, so each
call is one action. The assertion that IDs have not wrapped around is a guard.

### MapleBus and Exchange

`mCurrentPhase` is changed by the loop (`StartWrite`, `StartRead`, `Completed`,
`TimedOut` with `ResetPhase`) and by the interrupt handlers, each in two steps: one
in which it decides and stops or starts state machines, one in which it sets the
phase. `side` is the program. A client runs bus, loop and handlers on core 0
(`SameCore`, which `MapleBus.hpp` asks for), so that the loop stands still while a
handler is pending or running; a host constructs its buses on core 0 and runs the
loop on core 1, so that handlers and loop interleave. Only a client calls
`startRead()`. Timeouts may occur at any look
at the bus. `raced` becomes true when a timeout stops the machines while a handler is
pending or running; it is a history, which no action reads. `AsExchange` maps phases
to the states of `Exchange`: idle, running, or the end being reported.

### HostNode

One port with its schedule as a *set* of transmissions: order and times belong to
`TxScheduler`, and here any scheduled transmission may be the next. `pc` names the
part of `task()` that runs next. `ReadComplete` is the whole branch of
`readTask()`: all `setConnected()`s, then the callback of whoever sent, which for
a node creates peripherals. An answer comes
from the node that was asked, which is all the branch asks of its sender
(`DreamcastMainNode.cpp:186-192`); to an info request it may be device info, device
info that is too short, or something else (`DreamcastMainNode.cpp:84`,
`DreamcastSubNode.cpp:50`). The branch for a transmission that was written and expects
no answer (232-247) is left out: everything the program schedules expects one.
`unanswered` is a history of failures in a row, which no action reads. `ReadFailed` is the branch for failures with
`disconnectMainPeripheral()`. Peripherals are called in many places; what one may
do is abstracted to *any* change of the transmissions it owns
(`AfterPeripherals`), so that the result holds for every peripheral there is.
Pointers are numbers, and `NoDanglingTransmitter` compares them with those of the
peripherals alive. The devices and the noise on the line are the environment.

### UsbStorage

`core0` and `core1` say what each core is in the middle of. `BeginRead` and
`BeginWrite` take the mutex and set up the access, `EndRead` and `EndWrite` are
the loop which ends and the release of the mutex; between them core 1 runs
`task()` and the callbacks, one action each. `PlugUnit`/`AddFile` and
`UnplugUnit`/`RemoveFile` are the constructor and the destructor, split where they
wait for the mutex. Kill times are the one flag `expired`; whether a retry still
fits is a choice, except that it never does when `expired`. `stored` and
`committed` are what the memory unit knows: they belong to no member of the code
and are there to say what a success promises.

### UsbDrive, HostGamepad, HostScreen

`UsbDrive` has `entries` (`fileEntries`), the rows of the directory in RAM and
`new_data`. Core 1 changes files in stages (`core1`), with the mutex; core 0
copies the directory row by row without it (`core0`), and a poll
(`TEST UNIT READY`) reads the flags and counts the files in two steps. `Area` and
`Matches` are the arithmetic of `read10`/`write10` from a block of the disk to a
block of a file. The computer keeps what it read (`cached`) until it is told that
the medium changed.

`HostGamepad` lets core 1 make its writes one by one (`todo`, `marking`,
`publish`) while core 0 fills and sends a report (`pc0`, `report`). `missed`
remembers that a control changed after it was copied and before `buttonsUpdated`
was cleared: then nothing is left to say so, and `ReportsCatchUp` excludes it.

`HostScreen` has the flags of `ScreenData` and `DreamcastScreen` and a schedule of
update and pass-through packets. `updateFailed` and `updateIsLast` name the two
cases the code leaves open (a failed update is not sent again; a picture passed on
is saved without an update).

`UsbDevice` composes these and `UsbStorage`. They share no state but the cores, so
that one of them moves in each behaviour (`part`) and the product is left out.

### HostCores, SerialStream, WebUsbStream, CommandHandlers, HostLoops

`pc[c]` is the place at which core `c` stands; "idle" is the loop between two
tasks, and which task is next is open, which covers the order of the code.
`SerialStream` cuts `cdc_task()` and `process()` wherever a mutex is taken or
released and wherever the USB task is served; characters are numbers because
backspace, delete, newline and the start of binary data matter. `corrupt` is set
where the code would use a container outside its bounds, after which nothing is
said. `WebUsbStream` cuts the parser where it releases the mutex to execute a
packet; bytes are units, with a magic of two units, one for the size and some
for the rest. `Effect` of `CommandHandlers` says whom a command reaches, what it
changes and how it is answered, for every command of the four families.
`Connect` is
`webusb_connection_event()` at any time: nothing in the code waits for what is being
executed or at the bus, and the rest of what core 1 has taken is parsed after it.
`typed`, `submitted` and `link` are histories which only properties read: `link` has
the packets that were in hand when a connection was made (`inHand`) and whether
nothing was left to parse then (`fresh`). So are `slipped` (a key has acted on another
line than the one being typed) and `astray` (a marker outside of the buffer was used)
in the parser.

### CommandPath

The way of a command: the streams, the schedule and the bus, each used by any caller
at any time. As nothing they share constrains the others, every behaviour of all
together is a behaviour of each, and one of them moves in each behaviour of the
instance (`part`).

### HostLifecycle

One behaviour runs from power-up through its reboots. `Boot` is
`dpp_hw_init()` with loading and `makeValid()`; `Granted` goes through pins in the
order of the code, and gives a pin to the first who asks. `scratch` is all that
outlives a reboot, `flash` all that outlives a loss of power. Saving stops core 1
and erases (`ProcessSaveRequests`), then programs and reboots (`Program`), and
power may fail in between. The watchdog counts ticks, and
a core comes by its heartbeat every `LongestRound` ticks at most unless it hangs, but
for a save, which keeps core 0 for `LongestSave`.

### FlashMemory and ClientPeripheral

`FlashMemory` has `write()` of core 0 as one step, under the mutex, and
`process()` of core 1 cut at erasure and programming. `ClientPeripheral` adds
`task()` of the main peripheral with all branches: complete, failed or garbled
packets, addresses, reset, shut-down, the request to resend, the answers of each
function, block writes in phases and the commit, for which `writeBlock()` sets the
save area of a system block that has none (`AsStored`). The console and the wire are the
environment: it asks, waits, asks again, requests a resend; packets are garbled
or lost; the client changes port; the power fails. The console and its wire have two
histories: `crossed`, since the client was found, and `spoiled`, since the write of a
block began, a request of the client to resend was garbled in turn.

## 3. Checks

### Runs

| run | question | instance | distinct states | result |
| --- | --- | --- | --- | --- |
| `command_path` | do commands and answers get through whole, in order, to those concerned; is the schedule correct under all sequences of adds, cancels, repetitions, late and early pops; does the bus keep the promise of `Exchange`? | two players and 250 environments of the streams; 3 priorities, 5 kinds of request, times up to 4, IDs modulo 4; a bus of either program | 780476 | holds |
| `scheduler_next_time` | is the next time of a repetition in the future? | the schedule of `command_path` | | **violated** |
| `serial_limit` | does the serial buffer keep its limit? | binary data with bytes 0x08 | | **violated** |
| `serial_backspace` | does the end of a waiting command stay? | a character, backspaces, ends of lines | | **violated** |
| `commands_deadlock` | can the cores wait for each other? | a reset while core 0 echoes | | **violated** |
| `bus_two_cores` | is an end only reported for a transmission when the handlers run on the other core? | the bus of a host | | **violated** |
| `node` | is the port safe while devices come, go, swap and fail to answer, and does it notice? | main and 1 sub node, commands to one, disconnect after 2 failures, 1 exchange lost to noise | 125775 | holds |
| `usb` | does the computer see what there is: files, controls; does the screen; are accesses correct while the memory unit comes and goes? | 2 memory units on 2 slots; an access to one of 4 phases; a gamepad; a screen with 2 pictures | 384226 | holds |
| `storage_two` | do accesses still end with two memory units? | 2 memory units, 2 phases | | **violated** |
| `drive_swap` | is an access to a memory unit that is gone refused? | 2 memory units | | **violated** |
| `lifecycle` | do pins, settings, detection and watchdog work out over reboots? | two players, pins 0 to 6, four kinds of environment | 47139 | holds |
| `client` | is a client correct towards a console, over a bad wire and through losses of power? | 3 blocks in 2 sectors, 2 phases per block, 2 ports, up to 2 packets of an exchange garbled or lost | 720654 | holds |

The violated runs check what a comment of the repository says; `findings` in
`PROJECT.json` quotes it. In short:

* `storage_two`: core 0 spins in a read or write with `fileMutex` held, core 1
  waits for it to add or remove another memory unit. The timeout of the call is
  checked by core 1, so it does not help; the watchdog resets the device.
  `CHECK_DEADLOCK` is off in this run only: the system does stop.
* `bus_two_cores`: a handler sets the phase after the loop has timed out and reset
  it; a second end is reported for which there is no transmission.
* `scheduler_next_time`: a repetition popped exactly one period late is planned for
  now, and is due again at once; the comment promises the future.
* `serial_limit`: the check for an overflow exempts the byte 0x08 as a backspace, but
  in binary data such a byte is added like any other.
* `serial_backspace`: a character and a backspace right after the end of a line hide
  from the parser that it is at the start of a line; the next backspace takes the end
  of the command before it, if core 1 has not handled it yet.
* `drive_swap`: between two polls another memory unit may take the slot of the
  one the computer means, and is read or written in its place.
* `commands_deadlock`: a control request to reset the parser, served inside an
  echo, waits for the mutex of the parser while core 1 holds it and waits for the
  mutex of the output.

### What the properties say

* **Schedule**: lists stay ordered and IDs unique (inside the inductive `IInv`);
  no exchange runs into the time of a higher priority (`NoPriorityInversion`,
  about *every* item, while the code looks at heads); items for one recipient are
  not overtaken although the search skips items (`RecipientOrder`); repetitions
  keep their grid, never in the past and at most a period ahead (`CadenceKept`; now
  is allowed, which `scheduler_next_time` is about).
* **Bus**: `ImplementsExchange` — one exchange at a time, one end each, of a kind
  that fits, a complete read only with an answer of this exchange, and every
  exchange ends — of a client always, of a host until a timeout races a handler that
  runs on the other core (`raced`). `BusInv` is why.
* **Nodes**: no pointer to a deleted peripheral (`NoDanglingTransmitter`); a
  peripheral is only given up by the failure that completes as many in a row as the
  code asks for, counted by a history that every answer restarts
  (`DisconnectNeedsFailures`); what is unplugged is given up (`UnplugNoticed`),
  what stays plugged in is found (`PlugNoticed`, `SubNoticed`). `NodeInv` has the
  facts these rest on: a disconnect takes everything down; an owner of a scheduled
  transmission exists.
* **Accesses**: nothing is used after its deletion (`NoUseAfterDelete`), no
  transmission outlives its call (`NoOrphan`), a success in time means a commit of
  all phases (`InTimeWriteCommitted`), every call ends (`CallsEnd`).
* **Drive, gamepad, screen**: a directory the computer read is current, or it will
  be told (`DirectoryIsCurrent`), in the end it sees the files there are
  (`FilesShown`), and blocks are those of the right file (`ReachesTheBlock`,
  `NoEmptyEntry`); reports catch up with the controls (`ReportsCatchUp`) and a
  screen with the picture (`ScreenShown`).
* **Commands**: what core 1 handles is what was typed, line by line, in order and
  once, and what is missing was reported, until a key slips into another line
  (`CommandsIntact`); the packet parser finds back into the stream after a loss, but for
  the first packet of a connection made in the middle of one (`PacketsResync`); a
  packet is answered once at most, in the connection that asked or in the next one if it
  was in hand then (`AnswersFresh`); what waits is handled
  (`CommandsHandled`); buffers stay within their bounds, bytes 0x08 of binary data apart
  (`LoopsTypeOK`).
* **Lifecycle**: no pin has two uses whatever the flash held (`PinsDisjoint`); what
  was made valid and saved is what the next start uses (`SavedIsUsed`); the
  watchdog resets stopped programs and no other (`NoFalseReset`, `HungIsReset`);
  detection ends with the right gamepads (`Settles`).
* **Client**: an acknowledged block is stored as a whole (`AckedIsStored`), the
  system block with its save area set, unless the write is `spoiled`; blocks
  of sectors not under way are in flash (`FlashIsCurrent`), and all get there
  (`FlashCatchesUp`); no answer carries another player's address, but for a request to
  resend of a client not yet found and what follows one that was garbled
  (`NoOtherPlayer`); a client left unplugged becomes quiet (`GoneMeansQuiet`).

Each property of a passing run has a mutant: a plausible slip in one mapped
definition, for which TLC finds the property violated.

### Assumptions about the environment

A behaviour is left out of a run only where it says so here; each is a note of its
hazard as well.

* A device answers within the 125 ms which start-up waits for it (`InTime` of
  `HostLifecycle`).
* IDs of transmissions do not wrap around (the assertion of `add()`, after 2^32).

Where the code does something a property cannot promise, the model does it too, and a
history that only properties read marks it: `slipped` and `astray` (a backspace
takes the end of a waiting command), `fresh` and `inHand` (a connection is made while a
packet of the old one is being parsed, executed or at the bus), `raced` (a timeout
races a handler on the other core), `crossed` and `spoiled` (a request of a client to
resend is garbled in turn), `missed` (a control changes between its copy and the end
of the report). The properties state their exceptions in these terms; the first,
the limit of the buffer, the cadence and the race have runs of their own, which show
them violated.

### Bounds and why they are enough

* `command_path`, schedule: times up to 4 with periods of 2, transmissions asked for at
  once or for the times 1 and 3, durations up to 3: early, exact and late pops, items due
  while another is on the wire, limits of repetition before and after the end. IDs
  modulo 4 let three transmissions exist and the counter wrap to the asserted
  value; that low priorities may be starved by items which are added for ever is
  therefore nothing the run could show. The theorems need no bound.
* `command_path`, bus: no bound, its state is finite.
* `command_path`, streams: a buffer of 4 characters overflows within the 5 or 6 that are
  typed, and a chunk of 2 is smaller than a line; 4 units of input are less than two
  packets; a queue of 2 answers is overrun by the 4 packets of `Streaming`, during which
  one more connection is made at any time. Every command is given at least once, to
  players with a node, with one for detection only, and with none. Larger buffers only
  delay the same cases.
* `node`: a disconnect after 2 failures instead of 10 — a count below the limit, at
  the limit and reset in between all occur. `Ids` are names that are reused when
  nothing refers to them any more; the types would fail if they ran out. One sub
  node: sub nodes share only the main node, and the theorems are for any number.
* `usb`: two memory units on two slots can swap slots; the blocks looked at are the
  first and last of the first file and their neighbours (`MCLbas`), where slips by
  one show. One error reaches the limit. Two pictures tell old from new; the
  schedule holds an update and one packet passed on. Four IDs are never all in use.
  `WriteAccessCount` 4 is that of a VMU; one memory unit is enough for every property of
  an access, and two are needed only for the deadlock.
* `lifecycle`: a tick is 100 ms: a watchdog of 10, saves of at most 5 (two delays of 50
  ms and an erasure of up to 400 ms), rounds of at most 2, which is the most the
  assumption of the proof allows (more than two rounds and a save; with a watchdog of 9
  `NoFalseReset` is violated); pins 0 to 6 hold both
  buses, both directions and the LEDs with one pin left for conflicts. Plugging,
  saves, power cuts, hangs and reboots are bounded by the environment so that
  `Settles` can speak of the time after the last of them.
* `client`: two blocks in one sector and one in another give sectors written while
  being erased and a queue of two; two phases are a first and a last one; one loss
  of power at any point, since nothing is remembered from before it but the flash.
  Two garbled packets in an exchange are an answer or a phase and the request to resend
  it, which is where promises end; they are combined with two ports or with a write, and
  one garbled packet with both. Block 1 is the system block, with and without a save
  area.

### Fairness

* `MapleBus`: handlers and loop run; an exchange that is looked at for ever is
  over or timed out at some look. The hardware and the device owe nothing.
* `TxScheduler`: nothing, no property of its needs any.
* `HostNode`: `task()` is called for ever; an exchange ends at the latest by its
  timeout, so its end is strongly fair (between the calls which see it the task
  also finds nothing); a transmission that is scheduled again and again is sent
  again and again. The last is the weakest of the assumptions: repetitions are
  16 ms apart, far more than everything due in a period takes, and a parser that
  floods the port is excluded.
* `UsbStorage`: both cores run, exchanges end, time passes. Core 1 has other work
  between two calls of one action, hence strong fairness. Nothing is assumed of
  the order in which the cores get the mutex.
* `UsbDevice`: core 1 finishes a change of files; the computer polls the drive and
  reads a directory that is ready; core 0 sends reports; core 1 runs the task of
  the screen and the bus ends its transmissions; and what `UsbStorage` says.
* `UsbDevice` and `CommandPath` merge the fairness of their parts: to be fair to
  `\/ Part1(A) \/ Part2(B)` is to be fair to `A` where the first part moves and to `B`
  where the second does, as which part moves never changes and the others' actions are
  disabled for good.
* `HostLoops`: each core goes on as long as it can (weakly fair), until `corrupt`.
  The environment owes nothing.
* `HostLifecycle`: every task of a core is weakly fair, since the loops call them
  in turn; not so plugging, commands, power cuts and hangs.
* `ClientPeripheral`: both cores run and time passes. The console owes nothing.

## 4. Proofs

Every theorem is proved for all values of the constants that satisfy the module's
assumptions, by an inductive invariant that TLC confirms first in the run of the
component.

| module | theorem | says |
| --- | --- | --- |
| `TxSchedulerProofs` | `Invariance`, `TypeCorrect`, `AlwaysOrdered`, `AlwaysUniqueIds` | `IInv` and its parts |
| | `NeverInverted` | `SchedulerSpec => NoPriorityInversion` |
| | `OrderPreserved` | `SchedulerSpec => RecipientOrder` |
| | `CadenceAlwaysKept` | `SchedulerSpec => CadenceKept` |
| `MapleBusProofs` | `BusInvariant`, `BusTypes` | `BusInv`, types |
| | `BusEndsHaveTransmission` | `raced` or the property that `bus_two_cores` violates |
| | `BusKeepsExchange` | `BusSpec => ExchangeUnlessRaced`: a host's steps are of `Exchange` until a race |
| | `BusImplementsExchange` | a client's behaviours are of `Exchange` |
| `HostNodeProofs` | `NodeInvariant`, `NeverDangling` | `NodeInv`, `NoDanglingTransmitter` |
| | `DisconnectsAfterFailures` | `Spec => DisconnectNeedsFailures` |
| `UsbStorageProofs` | `StorageInvariant`, `NeverUsedAfterDelete`, `NeverOrphaned` | `StorageInv`, `NoUseAfterDelete`, `NoOrphan` |
| | `SuccessIsCommitted` | `Spec => InTimeWriteCommitted` |
| `UsbDriveProofs` | `DirectoryAlwaysCurrent`, `EntriesNeverEmpty`, `BlocksAlwaysReached` | `DirectoryIsCurrent`, `NoEmptyEntry`, `ReachesTheBlock` |
| `HostLoopsProofs` | `WebInvariant`, `WebTypes` | `WebInv`, `WebTypeOK` |
| | `AnswersAlwaysFresh` | `LoopsSpec => []AnswersFresh` |
| | `PacketsAlwaysResync` | `LoopsSpec => []PacketsResync` |
| | `SerialInvariant`, `CommandsAlwaysIntact` | `SerialInv`, `CommandsIntact` |
| | `TypesAlwaysKept` | `LoopsSpec => []LoopsTypeOK` |
| `HostLifecycleProofs` | `NeverReset` | `NoFalseReset` |
| | `SettingsInvariant` | `SettingsInv` |
| | `PinsAlwaysDisjoint`, `SavedAlwaysUsed` | `PinsDisjoint`, `SavedIsUsed` |
| `ClientProofs` | `ClientInvariant`, `FlashAlwaysCurrent` | `ClientInv`, `FlashIsCurrent` |
| | `ExchangeInvariant`, `AckedAlwaysStored`, `NeverOtherPlayer` | for any noise, `ExchangeInv`, `AckedIsStored`, `NoOtherPlayer` |

### Why these invariants

* **`IInv`**: `Ordered` and `UniqueIds` are not inductive alone. A new ID is unique
  only because all in use are below the counter (`IdsIssued`), which the counter's
  wrap would break but for the assertion, hence its premise. That a cancelled or
  popped item leaves the right list needs `InOwnList`. `RecipientOrder` compares
  ages of items due at the same time, hence `AddedInOrder`, for items that are not
  repeated: a repetition keeps its old ID and goes behind newer ones. The argument
  goes by list: `IInvByList` restates the invariant as facts about each list,
  lemmas say what each operator leaves in a list, and one lemma per action
  follows. `StartedAndPopped` identifies the item that was started with the one
  `PeekNext` names, which gives the three action properties; for the cadence,
  `CadenceProperties` bounds the rounded quotient, and `PoppedSameId` shows that
  nothing but the repetition has the ID.
* **`BusInv`** relates the phase to state machines, pending handlers and what the
  user of the bus has. With it each step maps to a step of `Exchange` or to a stutter.
  What breaks it is only a timeout that stops the machines while a handler is pending
  or running; that never happens where the loop stands still for the handlers
  (`SameCore => ~raced`), as on a client, and does on a host: `bus_two_cores`.
* **`NodeInv`** says of every transmission, scheduled or on the bus, whose it is:
  one of a peripheral is of the peripheral its node has now, an info request is
  that of a node without one, with the ID the node keeps. The second half is what
  makes the first inductive: a peripheral is created when an info request is
  answered, and must find no transmission of an earlier one. `CountFits` says that
  `mCommFailCount` never runs ahead of the failures in a row (`unanswered`), which
  gives `DisconnectNeedsFailures`.
* **`StorageInv`** relates the two state machines, the call of core 0, the mutex,
  the transmission and what the memory unit has stored. A destructor that waits
  for the mutex has set `mExiting`, so that no call can be inside when it gets it.
* **`DirectoryInv`** follows both cores row by row: the rows which core 1 has passed
  in a change are written (`Written`), those which core 0 has copied are current or
  `new_data` is set (`Copied`). `EntriesFit` says that an entry with a file
  has the blocks of its slot, and that one without keeps its number of blocks but
  starts at block 0, below the blocks of all files. Together they give
  `ReachesTheBlock`: the row of a current directory names a slot (`RankExists`,
  `RowNamesSlot`), a cluster of that slot lies where read10 looks for it
  (`BlockOfSlot`), and no other slot matches it (`SlotsApart`).
* **`WatchdogInv`** bounds the ticks left by the time since each core came by: core
  0 sets the flag once a round, core 1 feeds at most a round later, and a save
  feeds before it stops core 1, two rounds at most after the last time; hence
  `WatchdogTime > 2 * LongestRound + LongestSave` (`TimingAssumption`; the code has 1 s
  against rounds of milliseconds and a save of up to 500 ms). In
  environments with a clock the computer does not ask to reboot
  (`RebootsAssumption`).
* **`SettingsInv`** adds the types of everything that holds settings to the two
  properties. What they rest on is `makeValid()`: `GrantedRule` shows that the
  recursive function `Granted` has the value its rule says (by the least turn for
  which there would be none), `GrantedApart` and `UsersWereGranted` that those who
  keep a pin were granted it and are alone, hence `ValidIsDisjoint`; and
  `ValidStaysValid` that `makeValid()` applied to its own result changes nothing, for
  settings of any earlier version, in which a mode may be none of the five and is
  corrected (`Corrected`).
* **`WebInv`** says that the units which are kept of the WebUSB stream (collected for a
  packet, being parsed, received) come in the order they were sent, are of this
  connection or, of those core 1 had taken when it was made, of the one before, and lie
  after every packet executed; and that the answer of a packet is
  in one place at most: queued, being written, sent, or still due from the bus. The
  parser alone would not do: a packet is executed with the mutex released, while a
  connection may be made anew.
* **`ResyncInv`** says for each packet of which nothing was thrown away how far it has
  been parsed, and that the parser is at that very place in it if the packet before was
  executed or is of an earlier connection of which nothing was left to parse when
  that of the packet was made (`fresh`). Units that remain of
  an earlier, harmed packet cannot get between the two (`StartsFirst`), so the parser,
  once in step, takes the next unit of the packet until it is complete
  (`InStepNext`). Of other packets nothing is claimed: what a parser out of step does
  with them is open.
* **`SerialInv`** compares the parser with a typist, who reads the same characters with
  no limit to the buffer: while nothing is lost the line behind the last marker is the
  one being typed, and both are at the same place in binary data (`Agrees`); what was
  handled and what waits are the typist's lines in order, but for those reported
  (`Told`). `CommandsIntact` alone is not inductive: the line being typed becomes a
  command only when it ends. `CharFollows` shows that one character keeps all of this,
  kind by kind (a start of binary data, a byte of it, the end of a line, a backspace,
  text, each with or without an overflow), `AllTracked` that a whole chunk does,
  `TakenTracks` that taking a command moves the first line that waits to those handled,
  and `NothingTracks` that a reset starts anew. `Holding` adds who has the mutex of the
  parser where, which keeps core 0 from adding between the look at a command and its
  removal. The folds over a chunk are unrolled from the definition of the community
  modules (`CommandsRun` and its like), and facts about every character of it follow
  from the first for which they would fail (`LeastNumber`), not by the induction
  theorems of the library. A step that finds the containers out of bounds sets `corrupt`,
  a key that acts on another line than the one being typed sets `slipped`; of the
  commands nothing is claimed after either, but the shape of the buffer is kept
  (`RxFits`), and whatever is typed is followed.
* **`ClientInv`** ties the wire to a request of the console and bounds the phases it
  has had acknowledged. **`ExchangeInv`** adds that the last answer, which a request to
  resend repeats, belongs to what is asked now (`LastMeets`), and that the phases a
  write has had acknowledged are in the buffer (`PhasesHeld`). A request to resend that is
  garbled in turn breaks the first: the answer repeated may be that of the phase
  before. The histories `spoiled` and `crossed` mark it, and the invariant says of the
  rest what it says without them. That all devices have one player needs the order in
  which they learn and lose it (`PlayersAgree`). **`FlashInv`** says what each place of core 1 in `process()`
  means for the sector in front of the queue, above all that a sector it has
  programmed has not been written to since when it leaves the queue.

### Only model-checked

Liveness under fairness (`UnplugNoticed`, `PlugNoticed`,
`SubNoticed`, `CallsEnd`, the liveness of `Exchange`, `FilesShown`,
`ReportsCatchUp`, `ScreenShown`, `CommandsHandled`, `HungIsReset`, `Settles`,
`GoneMeansQuiet`, `FlashCatchesUp`), which is out of the prover's reach, as is
ENABLED. Every invariant and every action property of a passing run is a theorem, from
no other hypotheses than the assumptions of the modules (of the component's own
specification: `UsbDevice` and `CommandPath` only run several of them in one instance).
The steps of `ImplementsExchange` are proved in two halves, of a client and, until a race, of a host.

## 5. Not modelled, and why

* Host vibration: nothing in the program calls `send()`, `start()` or `stop()`.
* The stub peripherals keep no state and schedule nothing.
* Packet layout, CRC, formats of arguments and answers, names and dates in the
  directory, USB descriptors, report layouts and analog ranges: data which no
  property tells apart, or constant tables.
* The checks of writes to the directory and to the README of the drive
  (`msc_disk.cpp:842-884`): a rename is not carried out, only accepted or refused.
* Translation of HID reports, display, sound, LEDs: no state anything waits for.
* The web page: it is the other end of `WebUsbStream`.

Seen while reading, below the level of a property or outside a run:

* A main device without a known function is never taken as undetected
  (`DreamcastMainNode.cpp:271`), and a detection-only node goes on asking for sub
  devices (`DreamcastMainNode.cpp:90`, `205`).
* `write()` reports success when it was cut short by a removal
  (`DreamcastStorage.cpp:384`); a unit with a write count of zero divides by it
  (`DreamcastStorage.cpp:71`).
* Answers to WebUSB packets that were executed or at the bus when a connection was
  made go out in the new one, as does the rest of a long answer
  (`webusb.cpp:108-140`); and if core 1 has taken the beginning of a packet by then,
  `externalReset()` resets the parser too early: the first packet of the new connection
  may be taken for the rest of the old one (`WebUsbProcessorBase.hpp:101`). A packet
  cancelled at the bus is never answered.
* The delays of a save compare microseconds with milliseconds
  (`DppSettings.cpp:243-245`, `usb_execution.cpp:227`).
* A change of a control between copy and `buttonsUpdated = false` is lost until the
  next (`UsbGamepad.cpp:251`); a button of a memory unit that is pulled out stays
  pressed (`DreamcastTimer.cpp:56`).
* Two screens of one player share `mNewDataAvailable`; the bounds of `ScreenData`
  are off by one (`ScreenData.cpp:69`, `97`) and an assertion mixes bytes and words
  (`ScreenData.cpp:79`).
* The two words of the client's condition may be torn
  (`clientLib/DreamcastController.cpp:200`).

## 6. Plan

1. The composition of `MapleBus` with `ClientPeripheral`, whose wire then is the bus.
2. A theorem that the cores never wait for each other (`NoCircularWait`) where no
   control request comes in the middle of an echo, which is the only way they can.
3. Of the gamepad, that a control is only missed until anything else changes.
