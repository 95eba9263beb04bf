------------------------------ MODULE HostGamepad ------------------------------
(***************************************************************************)
(* One gamepad of the host, between the Maple Bus and USB:                 *)
(* UsbGamepadDreamcastControllerObserver, UsbGamepad and                   *)
(* UsbControllerDevice, fed by DreamcastController, DreamcastTimer and the *)
(* main node.                                                              *)
(*                                                                         *)
(* Core 1 writes the state of the controls, one after another, and marks   *)
(* each change in buttonsUpdated; core 0 copies the state into a report    *)
(* and clears the mark when USB has taken the report.  There is no mutex.  *)
(* The controls stand for all those of a controller: "hat" and "alt" are   *)
(* a direction of the D-pad as hat and as button, "vmu" is a button of the *)
(* memory unit, "change" the button which tells of plugged peripherals.    *)
(***************************************************************************)
EXTENDS Sequences

CONSTANTS
  DpadTypes,        \* those of {"HAT", "BUTTONS", "BOTH"} to look at
  Signals,          \* the states of "change" to look at: FALSE, or both
  NoReport          \* no report

Controls == {"hat", "alt", "vmu", "change"}
State == [Controls -> BOOLEAN]

ASSUME DpadTypesAssumption == DpadTypes \subseteq {"HAT", "BUTTONS", "BOTH"}
ASSUME SignalsAssumption == FALSE \in Signals /\ Signals \subseteq BOOLEAN
ASSUME NoReportAssumption == NoReport \notin State

VARIABLES
  mDpadType,                \* set before core 1 starts
  current,                  \* the state of each control
  buttonsUpdated,
  mSendPending, mNextSendForced,
  mIsControllerConnected,
  todo,                     \* the writes core 1 has yet to make
  marking,                  \* {}, or the value it is about to store in buttonsUpdated
  publish,                  \* what it does at last: "no", "pending" or "force"
  pc0,                      \* where core 0 is
  report,                   \* the report it is filling; Released when there is none
  mIsUsbConnected,
  endpoint,                 \* the report USB has taken, or NoReport
  received,                 \* the last report which the computer got, or NoReport
  missed                    \* was a change not in the last report, nor marked?

core1Vars == <<current, mIsControllerConnected, todo, marking, publish>>
core0Vars == <<pc0, report, mIsUsbConnected, endpoint, missed>>
flags == <<buttonsUpdated, mSendPending, mNextSendForced>>
gamepadVars == <<mDpadType, core1Vars, core0Vars, flags, received>>

Released == [control \in Controls |-> FALSE]

GamepadInit ==
  /\ mDpadType \in DpadTypes
  /\ current = Released
  /\ buttonsUpdated = TRUE
  /\ mSendPending = FALSE /\ mNextSendForced = FALSE
  /\ mIsControllerConnected = FALSE
  /\ todo = <<>> /\ marking = {} /\ publish = "no"
  /\ pc0 = "idle"
  /\ report = Released
  /\ mIsUsbConnected = FALSE
  /\ endpoint = NoReport /\ received = NoReport
  /\ missed = FALSE

-----------------------------------------------------------------------------
(* Core 1 *)

Core1Idle == todo = <<>> /\ marking = {} /\ publish = "no"

\* setButton(), setDigitalPad() and the setters of analog controls
Set(control, value) == [controls |-> {control}, value |-> value, always |-> FALSE]

\* A function of the observer: writes of controls, and what it tells core 0.
Begin(writes, tell) ==
  /\ Core1Idle
  /\ todo' = writes
  /\ publish' = tell
  /\ UNCHANGED <<mDpadType, current, marking, core0Vars, flags, received>>

setControllerCondition(pressed) ==
  /\ mIsControllerConnected
  /\ Begin(<<Set("hat", pressed /\ mDpadType # "BUTTONS"),
             Set("alt", pressed /\ mDpadType # "HAT")>>, "pending")
  /\ UNCHANGED mIsControllerConnected

setSecondaryControllerCondition(pressed) ==
  /\ mIsControllerConnected
  /\ Begin(<<Set("vmu", pressed)>>, "no")
  /\ UNCHANGED mIsControllerConnected

setChangeCondition(signal) ==
  /\ Begin(<<Set("change", signal)>>, "pending")
  /\ UNCHANGED mIsControllerConnected

\* updateAllReleased(): all controls but "change", if any is pressed
Releases ==
  IF current = Released THEN <<>>
  ELSE <<[controls |-> Controls \ {"change"}, value |-> FALSE, always |-> TRUE]>>

\* controllerConnected() and controllerDisconnected()
ControllerConnected(connected) ==
  /\ Begin(IF connected # mIsControllerConnected THEN Releases ELSE <<>>, "force")
  /\ mIsControllerConnected' = connected

forceSend == Begin(<<>>, "force") /\ UNCHANGED mIsControllerConnected

\* A setter writes its control ...
WriteControl ==
  /\ todo # <<>> /\ marking = {}
  /\ LET write == Head(todo)
         after == [control \in Controls |->
                     IF control \in write.controls THEN write.value ELSE current[control]]
     IN  /\ current' = after
         /\ marking' = {buttonsUpdated \/ write.always \/ after # current}
  /\ todo' = Tail(todo)
  /\ UNCHANGED <<mDpadType, mIsControllerConnected, publish, core0Vars, flags, received>>

\* ... and then stores in buttonsUpdated what it found there, or that it changed.
MarkUpdated ==
  /\ marking # {}
  /\ buttonsUpdated' = (TRUE \in marking)
  /\ marking' = {}
  /\ UNCHANGED <<mDpadType, current, mIsControllerConnected, todo, publish, core0Vars,
                 mSendPending, mNextSendForced, received>>

\* At last core 0 is told: mNextSendForced before mSendPending.
Publish ==
  /\ todo = <<>> /\ marking = {} /\ publish # "no"
  /\ IF publish = "force"
     THEN mNextSendForced' = TRUE /\ publish' = "pending" /\ UNCHANGED mSendPending
     ELSE mSendPending' = TRUE /\ publish' = "no" /\ UNCHANGED mNextSendForced
  /\ UNCHANGED <<mDpadType, current, mIsControllerConnected, todo, marking, buttonsUpdated,
                 core0Vars, received>>

-----------------------------------------------------------------------------
(* Core 0 *)

\* process(), ...
Process ==
  /\ pc0 = "idle" /\ mSendPending
  /\ mSendPending' = FALSE
  /\ pc0' = "force"
  /\ UNCHANGED <<mDpadType, core1Vars, buttonsUpdated, mNextSendForced, report,
                 mIsUsbConnected, endpoint, missed, received>>

\* ... which sends if it is forced to or something is marked, ...
Send ==
  /\ pc0 = "force"
  /\ mNextSendForced' = FALSE
  /\ pc0' = IF (buttonsUpdated \/ mNextSendForced) /\ mIsUsbConnected THEN "hat" ELSE "idle"
  /\ UNCHANGED <<mDpadType, core1Vars, buttonsUpdated, mSendPending, report,
                 mIsUsbConnected, endpoint, missed, received>>

\* ... getReport(): the hat first, ...
CopyHat ==
  /\ pc0 = "hat"
  /\ report' = [report EXCEPT !["hat"] = current["hat"]]
  /\ pc0' = "buttons"
  /\ UNCHANGED <<mDpadType, core1Vars, flags, mIsUsbConnected, endpoint, missed, received>>

\* ... then the buttons, which are one word; and sendReport(): USB takes the report
\* unless it still has another one.
CopyButtons ==
  /\ pc0 = "buttons"
  /\ IF endpoint = NoReport
     THEN /\ report' = [current EXCEPT !["hat"] = report["hat"]]
          /\ endpoint' = report'
          /\ pc0' = "clear"
     ELSE /\ report' = Released
          /\ pc0' = "idle"
          /\ UNCHANGED endpoint
  /\ UNCHANGED <<mDpadType, core1Vars, flags, mIsUsbConnected, missed, received>>

\* The mark is cleared if the report was taken.  A change since it was copied is
\* missed, unless core 1 is just about to mark it.
Clear ==
  /\ pc0 = "clear"
  /\ buttonsUpdated' = FALSE
  /\ missed' = (report # current /\ TRUE \notin marking)
  /\ report' = Released
  /\ pc0' = "idle"
  /\ UNCHANGED <<mDpadType, core1Vars, mSendPending, mNextSendForced, mIsUsbConnected,
                 endpoint, received>>

\* Mutant: only what is marked is sent.
AfterMount_Marked == IF buttonsUpdated THEN "hat" ELSE "idle"

\* send(true)
AfterMount == "hat"

\* tud_mount_cb() and tud_resume_cb()
Mount ==
  /\ pc0 = "idle" /\ ~ mIsUsbConnected
  /\ mIsUsbConnected' = TRUE
  /\ pc0' = AfterMount
  /\ UNCHANGED <<mDpadType, core1Vars, flags, report, endpoint, missed, received>>

\* tud_suspend_cb(); and tud_umount_cb(), after which the computer starts afresh
Unmount(suspended) ==
  /\ pc0 = "idle" /\ mIsUsbConnected
  /\ mIsUsbConnected' = FALSE
  /\ IF suspended THEN UNCHANGED <<endpoint, received>>
                  ELSE endpoint' = NoReport /\ received' = NoReport
  /\ UNCHANGED <<mDpadType, core1Vars, flags, pc0, report, missed>>

\* The computer fetches the report.
Deliver ==
  /\ mIsUsbConnected /\ endpoint # NoReport
  /\ received' = endpoint
  /\ endpoint' = NoReport
  /\ UNCHANGED <<mDpadType, core1Vars, flags, pc0, report, mIsUsbConnected, missed>>

-----------------------------------------------------------------------------
GamepadCore1 ==
  \/ \E value \in BOOLEAN : \/ setControllerCondition(value)
                            \/ setSecondaryControllerCondition(value)
                            \/ ControllerConnected(value)
  \/ \E signal \in Signals : setChangeCondition(signal)
  \/ forceSend \/ WriteControl \/ MarkUpdated \/ Publish

GamepadCore0 ==
  \/ Process \/ Send \/ CopyHat \/ CopyButtons \/ Clear \/ Mount \/ Deliver
  \/ \E suspended \in BOOLEAN : Unmount(suspended)

GamepadNext == GamepadCore1 \/ GamepadCore0

GamepadSpec == GamepadInit /\ [][GamepadNext]_gamepadVars

-----------------------------------------------------------------------------
\* Once the controls rest, the computer gets to know how they are, whatever report
\* was refused and whenever it was connected; except for a change which core 0 missed.
ReportsCatchUp ==
  <>[][UNCHANGED current]_gamepadVars =>
    []<>(~ mIsUsbConnected \/ received = current \/ missed)
=============================================================================
