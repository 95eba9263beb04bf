----------------------------- MODULE HostLifecycle -----------------------------
(***************************************************************************)
(* From power-up to reboot: start-up and detection (host_setup.cpp), the   *)
(* settings (DppSettings.cpp) and the requests to change them              *)
(* (SettingsWebUsbCommandHandler.cpp), the heartbeat of the two cores and  *)
(* the watchdog.  Two scratch registers of the watchdog carry what is      *)
(* known over a reboot; a loss of power clears them.                       *)
(*                                                                         *)
(* The delays of a save and of a reaction are left out: each may be over   *)
(* as soon as it began.                                                    *)
(*                                                                         *)
(* environment.flash    the settings saved at first: a record as below     *)
(* environment.present  the players a device is plugged in for at first    *)
(* environment.wanted   commands of the settings handler that may come     *)
(* environment.clock    whether time passes for the watchdog               *)
(* environment.plugs, saves, powerCuts, hangs, reboots                     *)
(*                      how often at most a device is plugged in or out,   *)
(*                      settings are saved or cleared, the power fails, a  *)
(*                      core stops for ever, the USB host asks to reboot   *)
(***************************************************************************)
EXTENDS HostCores, CommandHandlers, SequencesExt

CONSTANTS
  BusStartPin,   \* of each player, P1_BUS_START_PIN and so on
  DirPin,        \* of each player, P1_DIR_PIN and so on
  WatchdogTime,  \* kSharedWatchdogTimeoutMs, and the delay of a commanded
  RebootDelay,   \* reboot, in ticks of the model
  LongestRound,  \* ticks one round of the loop of each core takes at most
  LongestSave    \* ticks a save takes at most: two delays of 50 ms and an erasure
                 \* of up to 400 ms (NonVolatilePicoSystemMemory.hpp), and a page

VARIABLES
  flash,     \* what the last sector of the flash holds
  scratch,   \* watchdog_hw->scratch[0] and [1]
  settings,  \* sLoadedSettings, as they were loaded
  inUse,     \* what dpp_hw_init() made of them for the nodes and LEDs
  request,   \* sSaveOrClearRequested and sSaveRequestedSettings
  draft,     \* mSettings of the handler
  gamepads,  \* players whose USB gamepad is enabled: their node does all
  watchers,  \* players with a node for detection only
  present,   \* players a device is plugged in for
  seen,      \* what the node of each player knows of its device
  enabled,   \* mapleEnabledMask
  became,    \* players whose mapleDetectUpdatedModes is kEnable by now
  reaction,  \* autoDetectReactionTimeUs > 0
  alive,     \* core0Alive
  watchdog,  \* the time it is set to, the ticks left
  round,     \* ticks since each core came by its heartbeat
  count      \* how often each bounded thing happened

boots == <<settings, inUse, draft, gamepads, watchers, enabled>>
detection == <<seen, became, reaction>>
clock == <<alive, watchdog, round>>
lifeVars == <<flash, scratch, boots, request, present, detection, clock, count>>
lifeSteps == <<pc, lifeVars>>

ASSUME LifecycleAssumption ==
  /\ BusStartPin \in [Players -> Pins] /\ DirPin \in [Players -> Pins]
  /\ WatchdogTime \in Nat \ {0} /\ RebootDelay \in Nat \ {0}
  /\ LongestRound \in Nat \ {0} /\ LongestSave \in Nat

\* A round of each core and a save after them fit into the second of the watchdog: with
\* half a second for the save a round may take a quarter of a second.  A longer round
\* lets the watchdog bite.
ASSUME TimingAssumption == WatchdogTime > 2 * LongestRound + LongestSave

\* Only where no time passes for the watchdog may the USB host ask to reboot.
ASSUME RebootsAssumption ==
  \A e \in Environments : e.hangs \in Nat /\ (e.clock => e.reboots = 0)

ModeNames == <<"disable", "enable", "static", "dynamic", "noDisable">>
Modes == Range(ModeNames)
ModeOf(value) == IF value \in 0 .. kNumPlayerDetectionModes - 1 THEN ModeNames[value + 1] ELSE "none"
Automatic == {"static", "dynamic", "noDisable"} \* > kAutoThreshold
AutoDynamic == {"dynamic", "noDisable"}         \* > kAutoDynamicThreshold

\* Settings as any version may have saved them: a mode may be none of the five, a pin
\* any number, of which the negative ones stand for none.
SettingsType ==
  [modes: [Players -> Modes \cup {"none"}], gpioA: [Players -> Int], gpioDir: [Players -> Int],
   usbLedGpio: Int, simpleUsbLedGpio: Int]

ASSUME SettingsAssumption ==
  \A e \in Environments :
    /\ e.flash \in [valid: BOOLEAN, settings: SettingsType]
    /\ \A command \in e.wanted : command.value \in Int /\ command.second \in Int

(* Where core 0 stands: before dpp_hw_init(), in the loop at its end which *)
(* waits for devices, in its main loop, between the erasure of the sector  *)
(* and its programming, or nowhere any more.  Core 1 is off until core 0   *)
(* launches it.                                                            *)
Core0Places == {"starting", "looking", "idle", "erased", "hung"}
Core1Places == {"off", "idle", "hung"}

-----------------------------------------------------------------------------
(* makeValid().  Pins are asked for in this order: the two LEDs, then each  *)
(* player's direction, first and second line.  A pin goes to the first who  *)
(* asks for it; the second line is asked for only with the first granted.   *)

Dir == 1
A == 2
B == 3

PinOf(s, k) ==
  CASE k = <<NoPlayer, 1>> -> s.usbLedGpio
    [] k = <<NoPlayer, 2>> -> s.simpleUsbLedGpio
    [] k[1] # NoPlayer /\ k[2] = Dir -> s.gpioDir[k[1]]
    [] k[1] # NoPlayer /\ k[2] = A -> s.gpioA[k[1]]
    [] k[1] # NoPlayer /\ k[2] = B -> s.gpioA[k[1]] + 1

LedUses == {<<NoPlayer, 1>>, <<NoPlayer, 2>>}

InvolvedPlayers(s) == {i \in Players : s.modes[i] # "disable" /\ s.gpioA[i] >= 0}

Asks_OneLine(s) == LedUses \cup (InvolvedPlayers(s) \X {Dir, A})
Asks(s) == LedUses \cup (InvolvedPlayers(s) \X {Dir, A, B})

Earlier(j, k) == j[1] < k[1] \/ (j[1] = k[1] /\ j[2] < k[2])

Granted(s) ==
  LET granted[k \in Asks(s)] ==
        \/ PinOf(s, k) < 0
        \/ /\ PinOf(s, k) \in Pins
           /\ (k[1] # NoPlayer /\ k[2] = B) => granted[<<k[1], A>>]
           /\ \A j \in Asks(s) : Earlier(j, k) /\ PinOf(s, j) = PinOf(s, k) => ~granted[j]
  IN granted

\* A mode that is none becomes one for a player who asks for pins.
Corrected(s, i) == IF s.modes[i] = "none" /\ i \in InvolvedPlayers(s) THEN "noDisable" ELSE s.modes[i]

(* What is refused is given up, and with it, if disable, the player *)
makeValid(given, disable) ==
  LET s == [given EXCEPT !.modes = [i \in Players |->
              IF disable /\ given.gpioA[i] < 0 THEN "disable" ELSE given.modes[i]]]
      granted == Granted(s)
      Refused(k) == k \in Asks(s) /\ ~granted[k]
      NoBus(i) == Refused(<<i, A>>) \/ Refused(<<i, B>>)
      NoDir(i) == Refused(<<i, Dir>>)
  IN [modes |-> [i \in Players |->
                   IF disable /\ (NoBus(i) \/ NoDir(i)) THEN "disable" ELSE Corrected(s, i)],
      gpioA |-> [i \in Players |-> IF NoBus(i) THEN NoPin ELSE s.gpioA[i]],
      gpioDir |-> [i \in Players |-> IF NoDir(i) THEN NoPin ELSE s.gpioDir[i]],
      usbLedGpio |-> IF Refused(<<NoPlayer, 1>>) THEN NoPin ELSE s.usbLedGpio,
      simpleUsbLedGpio |-> IF Refused(<<NoPlayer, 2>>) THEN NoPin ELSE s.simpleUsbLedGpio]

DefaultSettings ==
  [modes |-> [i \in Players |-> "static"], gpioA |-> BusStartPin, gpioDir |-> DirPin,
   usbLedGpio |-> NoPin, simpleUsbLedGpio |-> NoPin]

(* initialize(): settings that are not valid in the flash are the default ones *)
Loaded == IF flash.valid THEN flash.settings ELSE DefaultSettings

-----------------------------------------------------------------------------
NoScratch == [magic |-> "none", enabled |-> {}, detected |-> {}]
NoRequest == [asked |-> FALSE, clear |-> FALSE, settings |-> DefaultSettings]
FreshWatchdog_Rebooted == [time |-> RebootDelay, left |-> RebootDelay]
FreshWatchdog == [time |-> WatchdogTime, left |-> WatchdogTime]

Nodes == gamepads \cup watchers

ModeIn(i, modes) == inUse.modes[i] \in modes

\* What an environment bounds.
Things == {"plugs", "saves", "powerCuts", "hangs", "reboots"}

LifeInit ==
  /\ environment \in Environments
  /\ pc = [c \in Cores |-> IF c = Core0 THEN "starting" ELSE "off"]
  /\ flash = environment.flash
  /\ scratch = NoScratch
  /\ settings = Loaded /\ inUse = settings /\ draft = settings
  /\ request = NoRequest
  /\ gamepads = {} /\ watchers = {}
  /\ present = environment.present
  /\ seen = [i \in Players |-> "unknown"]
  /\ enabled = {} /\ became = {} /\ reaction = FALSE
  /\ alive = TRUE /\ watchdog = FreshWatchdog /\ round = [c \in Cores |-> 0]
  /\ count = [thing \in Things |-> 0]

(* The program starts anew; what it had in RAM is set by Boot *)
Restarts == pc' = [c \in Cores |-> IF c = Core0 THEN "starting" ELSE "off"]

Counts(thing) == count[thing] < environment[thing] /\ count' = [count EXCEPT ![thing] = @ + 1]

-----------------------------------------------------------------------------
(* What a commanded reboot hands on: one for detection the players that    *)
(* were to be enabled, any other one those detected                        *)
PrevDetectMask_Forgotten == {}
PrevDetectMask ==
  CASE scratch.magic = "none" -> {}
    [] scratch.magic = "detect" -> scratch.enabled
    [] OTHER -> scratch.detected

(* dpp_hw_init() *)
Boot ==
  /\ At(Core0, "starting")
  /\ LET valid == makeValid(Loaded, TRUE)
         rebootDetected == scratch.magic # "none"
         on == {i \in Players : \/ valid.modes[i] = "enable"
                                \/ valid.modes[i] # "disable" /\ i \in PrevDetectMask}
         auto == {i \in Players : valid.modes[i] \in Automatic} \ on
         autoDetectDevs == {i \in auto : valid.modes[i] \in AutoDynamic}
     IN /\ settings' = Loaded /\ inUse' = valid /\ draft' = Loaded
        /\ gamepads' = on /\ watchers' = auto /\ enabled' = on
        /\ pc' = [c \in Cores |-> IF c = Core0 /\ autoDetectDevs # {} /\ ~rebootDetected
                                  THEN "looking" ELSE "idle"]
  /\ scratch' = NoScratch /\ request' = NoRequest
  /\ seen' = [i \in Players |-> "unknown"] /\ became' = {} /\ reaction' = FALSE
  /\ alive' = TRUE /\ watchdog' = FreshWatchdog /\ round' = [c \in Cores |-> 0]
  /\ UNCHANGED <<flash, present, count>>

(* Core 1: a node learns of its device, or that there is none.  A node for *)
(* detection only that has found one does not look again.                  *)
See(i) ==
  /\ Idle(Core1) /\ i \in Nodes
  /\ ~(i \in watchers /\ seen[i] = "yes")
  /\ seen' = [seen EXCEPT ![i] = IF i \in present THEN "yes" ELSE "no"]
  /\ UNCHANGED <<pc, flash, scratch, boots, request, present, became, reaction, clock, count>>

-----------------------------------------------------------------------------
(* maple_detect() on core 0 *)

Detected == {i \in Nodes : seen[i] = "yes"}
Appeared == {i \in watchers \ enabled : i \in Detected}
Gone == {i \in gamepads \cap enabled : i \notin Detected /\ ModeIn(i, {"dynamic"})}
EnabledNow == (enabled \cup Appeared) \ Gone
BecameNow == became \cup {i \in Appeared : ModeIn(i, {"static"})}
News == Appeared # {} \/ Gone # {}

Noted(magic) == [magic |-> magic, enabled |-> EnabledNow, detected |-> Detected]

(* getInitialSettings() with the modes that changed *)
WithModes(s, players) ==
  [s EXCEPT !.modes = [i \in Players |-> IF i \in players THEN "enable" ELSE @[i]]]

(* save_settings_memory(): the sector is erased with core 1 stopped *)
Erase(toSave) ==
  /\ flash' = [flash EXCEPT !.valid = FALSE]
  /\ request' = toSave
  /\ pc' = [pc EXCEPT ![Core0] = "erased", ![Core1] = "off"]
  /\ round' = [round EXCEPT ![Core0] = 0]

DetectReboots ==
  IF BecameNow # {}
  THEN /\ Erase([asked |-> TRUE, clear |-> FALSE, settings |-> WithModes(settings, BecameNow)])
       /\ UNCHANGED <<alive, watchdog>>
  ELSE /\ Restarts
       /\ UNCHANGED <<flash, request, clock>>

(* A call that changes the masks, or nothing.  It comes every 125 ms, by   *)
(* when each node has asked for its device: a device that answers at once  *)
(* is known.                                                               *)
RuntimeAutoDetect == watchers # {} \/ \E i \in gamepads : ModeIn(i, {"dynamic"})

InTime == \A i \in Nodes : seen[i] # "unknown"

Detect ==
  /\ Idle(Core0) /\ RuntimeAutoDetect /\ InTime
  /\ enabled' = EnabledNow /\ became' = BecameNow
  /\ reaction' = (reaction \/ News)
  /\ scratch' = Noted(scratch.magic)
  /\ UNCHANGED <<pc, flash, settings, inUse, draft, gamepads, watchers, request, present, seen, clock, count>>

(* A call 500 ms after the last change *)
DetectLate ==
  /\ Idle(Core0) /\ RuntimeAutoDetect /\ InTime /\ reaction /\ ~News
  /\ scratch' = Noted("detect")
  /\ DetectReboots
  /\ UNCHANGED <<settings, inUse, draft, gamepads, watchers, enabled, present, detection, alive, watchdog, count>>

(* The call at the end of the start-up, which does not wait for the        *)
(* 500 ms: all were detected, or 3.5 s are over                            *)
LookEnds ==
  /\ At(Core0, "looking")
  /\ enabled' = EnabledNow /\ became' = BecameNow /\ reaction' = News
  /\ scratch' = Noted(IF News THEN "detect" ELSE scratch.magic)
  /\ IF News THEN DetectReboots
     ELSE Goes(Core0, "idle") /\ UNCHANGED <<flash, request, clock>>
  /\ UNCHANGED <<settings, inUse, draft, gamepads, watchers, present, seen, count>>

-----------------------------------------------------------------------------
(* Settings by WebUSB, on core 1; see Settings in CommandHandlers *)

Changed(s, command) ==
  CASE command.kind = "P" -> [s EXCEPT !.modes[command.player] = ModeOf(command.value)]
    [] command.kind = "I" -> [s EXCEPT !.gpioA[command.player] = command.value,
                                       !.gpioDir[command.player] = command.second]
    [] command.kind = "L" -> [s EXCEPT !.usbLedGpio = command.value]
    [] command.kind = "l" -> [s EXCEPT !.simpleUsbLedGpio = command.value]
    [] command.kind \in {"s", "S"} -> makeValid(s, FALSE)
    [] OTHER -> s

(* requestSave(), requestClear(): the first request wins *)
Requested_Unchecked(command) ==
  IF command.kind = "S" /\ ~request.asked
  THEN [asked |-> TRUE, clear |-> FALSE, settings |-> draft] ELSE request

Requested(command) ==
  CASE request.asked -> request
    [] ~request.asked /\ command.kind = "S" ->
         [asked |-> TRUE, clear |-> FALSE, settings |-> draft']
    [] ~request.asked /\ command.kind = "X" -> [NoRequest EXCEPT !.asked = TRUE, !.clear = TRUE]
    [] OTHER -> request

Command ==
  /\ Idle(Core0) /\ Idle(Core1)
  /\ \E command \in environment.wanted :
       /\ IF command.kind \in {"S", "X"} THEN Counts("saves") ELSE UNCHANGED count
       /\ draft' = IF Settings(command, TRUE).answer = "success"
                   THEN Changed(draft, command) ELSE draft
       /\ request' = Requested(command)
  /\ UNCHANGED <<pc, flash, scratch, settings, inUse, gamepads, watchers, enabled, present, detection, clock>>

(* processSaveRequests() on core 0 *)
ProcessSaveRequests ==
  /\ Idle(Core0) /\ request.asked
  /\ Erase(request)
  /\ UNCHANGED <<scratch, boots, present, detection, alive, watchdog, count>>

(* The rest of save_settings_memory() *)
Program ==
  /\ At(Core0, "erased")
  /\ flash' = [valid |-> ~request.clear, settings |-> request.settings]
  /\ scratch' = [scratch EXCEPT !.magic = "settings"]
  /\ Restarts
  /\ UNCHANGED <<boots, request, present, detection, clock, count>>

-----------------------------------------------------------------------------
(* heartbeat() *)

Beat0 ==
  /\ pc[Core0] \in {"looking", "idle"}
  /\ alive' = TRUE /\ round' = [round EXCEPT ![Core0] = 0]
  /\ UNCHANGED <<pc, flash, scratch, boots, request, present, detection, watchdog, count>>

Beat1_AlwaysFeeds ==
  /\ Idle(Core1)
  /\ alive' = FALSE /\ round' = [round EXCEPT ![Core1] = 0]
  /\ watchdog' = [watchdog EXCEPT !.left = watchdog.time]
  /\ UNCHANGED <<pc, flash, scratch, boots, request, present, detection, count>>

Beat1 ==
  /\ Idle(Core1)
  /\ alive' = FALSE /\ round' = [round EXCEPT ![Core1] = 0]
  /\ watchdog' = IF alive THEN [watchdog EXCEPT !.left = watchdog.time] ELSE watchdog
  /\ UNCHANGED <<pc, flash, scratch, boots, request, present, detection, count>>

Running(c) == pc[c] \notin {"hung", "off", "starting"}

(* How long a core may take for what it is at *)
Longest(c) == IF c = Core0 /\ At(Core0, "erased") THEN LongestSave ELSE LongestRound

(* A core that has not stopped comes round in time *)
Tick ==
  /\ environment.clock /\ ~At(Core0, "starting") /\ watchdog.left > 0
  /\ \A c \in Cores : Running(c) => round[c] < Longest(c)
  /\ watchdog' = [watchdog EXCEPT !.left = @ - 1]
  /\ round' = [c \in Cores |-> IF Running(c) THEN round[c] + 1 ELSE 0]
  /\ UNCHANGED <<pc, flash, scratch, boots, request, present, detection, alive, count>>

Bite ==
  /\ ~At(Core0, "starting") /\ watchdog.left = 0
  /\ Restarts
  /\ UNCHANGED lifeVars

(* --- the environment --- *)

Hang(c) ==
  /\ Idle(c) /\ Counts("hangs") /\ Goes(c, "hung")
  /\ UNCHANGED <<flash, scratch, boots, request, present, detection, clock>>

(* Control request 0xFFFF.  Whoever feeds the watchdog later loads it with *)
(* the new time.                                                           *)
UsbReboot ==
  /\ Idle(Core0) /\ Counts("reboots")
  /\ scratch' = [scratch EXCEPT !.magic = "usb"]
  /\ watchdog' = [watchdog EXCEPT !.time = RebootDelay, !.left = RebootDelay]
  /\ UNCHANGED <<pc, flash, boots, request, present, detection, alive, round>>

Plug(i) ==
  /\ Counts("plugs")
  /\ present' = (present \ {i}) \cup ({i} \ present)
  /\ UNCHANGED <<pc, flash, scratch, boots, request, detection, clock>>

PowerCut ==
  /\ Counts("powerCuts")
  /\ Restarts /\ scratch' = NoScratch
  /\ UNCHANGED <<flash, boots, request, present, detection, clock>>

LifeSystem ==
  \/ Boot \/ Detect \/ DetectLate \/ LookEnds \/ ProcessSaveRequests \/ Program
  \/ Beat0 \/ Beat1 \/ Tick \/ Bite
  \/ \E i \in Players : See(i)

LifeNext ==
  /\ \/ LifeSystem \/ Command \/ UsbReboot \/ PowerCut
     \/ \E c \in Cores : Hang(c)
     \/ \E i \in Players : Plug(i)
  /\ UNCHANGED environment

(* Each core goes on with what it began, comes by each task of its loop,   *)
(* and time passes.                                                        *)
LifeFairness ==
  /\ WF_lifeSteps(Boot \/ LookEnds \/ Program)
  /\ WF_lifeSteps(Detect) /\ WF_lifeSteps(DetectLate) /\ WF_lifeSteps(ProcessSaveRequests)
  /\ WF_lifeSteps(Beat0) /\ WF_lifeSteps(Beat1) /\ WF_lifeSteps(Tick \/ Bite)
  /\ \A i \in Players : WF_lifeSteps(See(i))

LifeSpec == LifeInit /\ [][LifeNext]_<<environment, lifeSteps>> /\ LifeFairness

-----------------------------------------------------------------------------
(* Who drives a pin, with these players in use *)
Uses(s, players) ==
  {k \in LedUses : PinOf(s, k) >= 0}
    \cup {k \in players \X {Dir, A, B} : k[2] # Dir \/ PinOf(s, k) >= 0}

(* Whatever was loaded from the flash, no pin is driven for two purposes:  *)
(* the lines of each bus, its direction and the two LEDs (makeValid() as   *)
(* dpp_hw_init() calls it), and each bus has its lines.                    *)
PinsDisjoint ==
  ~At(Core0, "starting") =>
    /\ \A k \in Uses(inUse, Nodes) : PinOf(inUse, k) \in Pins
    /\ \A j, k \in Uses(inUse, Nodes) : PinOf(inUse, j) = PinOf(inUse, k) => j = k

(* What the handler made valid, told the user and asked to save is what the *)
(* next start uses, except that players without a bus are disabled: the two *)
(* ways to call makeValid() agree.                                          *)
SavedIsUsed ==
  (Idle(Core0) /\ request.asked /\ ~request.clear) =>
    LET saved == request.settings
        used == makeValid(saved, TRUE)
    IN /\ \A k \in LedUses : PinOf(used, k) = PinOf(saved, k)
       /\ \A i \in Players :
            IF saved.gpioA[i] < 0 THEN used.modes[i] = "disable"
            ELSE /\ used.modes[i] = saved.modes[i]
                 /\ used.gpioA[i] = saved.gpioA[i] /\ used.gpioDir[i] = saved.gpioDir[i]

(* The watchdog resets only a program of which a core stopped: as long as  *)
(* both come round in time it is fed in time, during a save with core 1    *)
(* stopped as well (heartbeat(), save_settings_memory()).                  *)
NoFalseReset ==
  (watchdog.left = 0 /\ ~At(Core0, "starting")) => count.hangs > 0

(* A core that stopped does not stay so, whichever it is (heartbeat()) *)
HungIsReset == (\E c \in Cores : At(c, "hung")) ~> At(Core0, "starting")

(* The gamepads that ought to be there once nobody changes anything *)
GamepadsRight ==
  \A i \in Players :
    LET mode == inUse.modes[i] IN
    /\ mode = "enable" => i \in gamepads
    /\ mode = "disable" => i \notin gamepads
    /\ mode = "dynamic" => (i \in gamepads <=> i \in present)
    /\ mode \in {"static", "noDisable"} => (i \in present => i \in gamepads)

(* Detection ends: after the last change of devices and settings and the   *)
(* last loss of power the program runs without further reboots, and there  *)
(* are gamepads for the devices as the detection modes of DppSettings.hpp  *)
(* say (maple_detect(), dpp_hw_init() and the scratch registers between    *)
(* them).                                                                  *)
Settles == <>[](Idle(Core0) /\ GamepadsRight)

-----------------------------------------------------------------------------
(* The inductive invariant of the settings: whatever is kept of them has     *)
(* their type, and nothing was asked to be saved before core 0 is in its     *)
(* main loop.                                                                *)

SettingsInv ==
  /\ flash \in [valid: BOOLEAN, settings: SettingsType]
  /\ settings \in SettingsType /\ draft \in SettingsType
  /\ request \in [asked: BOOLEAN, clear: BOOLEAN, settings: SettingsType]
  /\ At(Core0, "looking") => ~request.asked
  /\ PinsDisjoint /\ SavedIsUsed

-----------------------------------------------------------------------------
(* The inductive invariant of the watchdog *)

Places ==
  /\ count \in [Things -> Nat]
  /\ pc \in [Cores -> Core0Places \cup Core1Places]
  /\ pc[Core0] \in Core0Places /\ pc[Core1] \in Core1Places
  /\ pc[Core1] = "off" => pc[Core0] \in {"starting", "erased"}
  /\ count.hangs = 0 => \A c \in Cores : ~At(c, "hung")

ClockType ==
  /\ alive \in BOOLEAN
  /\ round \in [Cores -> Nat]
  /\ ~At(Core0, "starting") => \A c \in Cores : round[c] <= Longest(c)
  /\ watchdog \in [time: Nat \ {0}, left: Nat]
  /\ environment \in Environments
  /\ ~environment.clock => watchdog.left > 0
  /\ environment.clock => watchdog.time = WatchdogTime

(* How long the watchdog has not been fed: while core 0 has not come by     *)
(* since, at most its round; once it has, a round longer, which core 1 has  *)
(* under way; and in a save the time of the save on top of that.            *)
Unfed == watchdog.time - watchdog.left

FedInTime ==
  environment.clock /\ count.hangs = 0 /\ ~At(Core0, "starting") =>
    IF At(Core0, "erased") THEN Unfed <= 2 * LongestRound + round[Core0]
    ELSE IF alive THEN Unfed <= LongestRound + round[Core1]
    ELSE Unfed <= round[Core0]

WatchdogInv == Places /\ ClockType /\ FedInTime
=============================================================================
