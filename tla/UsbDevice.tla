------------------------------- MODULE UsbDevice -------------------------------
(***************************************************************************)
(* The functions of the host which core 1 feeds while core 0 serves the    *)
(* computer: the drive with its directory, the accesses to the memory      *)
(* units which are its files, a gamepad and the screen of a player.  An    *)
(* access takes place in any state of the directory in which its file is   *)
(* there, and the others share nothing but the cores, so that every        *)
(* behaviour of all of them is one of each; part says which one runs, and  *)
(* the others rest.                                                        *)
(***************************************************************************)
EXTENDS UsbDrive, UsbStorage, HostGamepad, HostScreen

CONSTANT Parts

VARIABLE part

deviceVars == <<part, driveVars, storageVars, gamepadVars, screenVars>>

DeviceInit ==
  /\ part \in Parts
  /\ DriveInit /\ StorageInit /\ GamepadInit /\ ScreenInit

DrivePart(A) ==
  part = "drive" /\ A /\ UNCHANGED <<part, storageVars, gamepadVars, screenVars>>
StoragePart(A) ==
  part = "storage" /\ A /\ UNCHANGED <<part, driveVars, gamepadVars, screenVars>>
GamepadPart(A) ==
  part = "gamepad" /\ A /\ UNCHANGED <<part, driveVars, storageVars, screenVars>>
ScreenPart(A) ==
  part = "screen" /\ A /\ UNCHANGED <<part, driveVars, storageVars, gamepadVars>>

DeviceNext ==
  \/ DrivePart(DriveNext)
  \/ StoragePart(StorageNext)
  \/ GamepadPart(GamepadNext)
  \/ ScreenPart(ScreenNext)

\* Fairness to the part which runs.  As part never changes, to be fair to a
\* disjunction with one disjunct for each part is to be fair to that of the part.
\*   drive    Both cores run, and the computer polls the drive again and again and
\*            reads the directory of one that is ready.
\*   storage  As in StorageFairSpec.
\*   gamepad  The main node calls setChangeCondition(false) in every round in which
\*            it has nothing to signal, core 0 calls process() in every round, and
\*            the computer fetches reports while it is connected.
\*   screen   Core 1 calls task() again and again, and the bus sends what is
\*            scheduled.
DeviceFairness ==
  /\ WF_deviceVars(\/ DrivePart(Change)
                   \/ GamepadPart(WriteControl \/ MarkUpdated \/ Publish)
                   \/ ScreenPart(Task)
                   \/ StoragePart(EndRead))
  /\ WF_deviceVars(\/ DrivePart(PollCounts)
                   \/ GamepadPart(Send \/ CopyHat \/ CopyButtons \/ Clear)
                   \/ ScreenPart(Started)
                   \/ StoragePart(EndWrite))
  /\ WF_deviceVars(\/ DrivePart(CopyRow)
                   \/ GamepadPart(Deliver)
                   \/ ScreenPart(Complete \/ Failed)
                   \/ StoragePart(Expire))
  /\ WF_deviceVars(StoragePart(AddFile))
  /\ WF_deviceVars(StoragePart(RemoveFile))
  /\ \A f \in Storages :
       /\ SF_deviceVars(\/ DrivePart(Poll)
                        \/ GamepadPart(setChangeCondition(FALSE))
                        \/ StoragePart(storageTask(f)))
       /\ SF_deviceVars(\/ DrivePart(BeginCopy)
                        \/ GamepadPart(Process)
                        \/ StoragePart(TxStarted(f)))
       /\ SF_deviceVars(StoragePart(TxEnded(f)))

DeviceSpec == DeviceInit /\ [][DeviceNext]_deviceVars /\ DeviceFairness
=============================================================================
