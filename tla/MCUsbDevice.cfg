SPECIFICATION DeviceSpec
CONSTANTS
  Parts = {"drive", "storage", "gamepad", "screen"}
  Files = {vmuA, vmuB}
  NoFile = NoFile
  NumSlots = 2
  MAX_ERROR_COUNT = 1
  Lbas <- MCLbas
  Storages = {vmu}
  WriteAccessCount = 4
  NoStorage = NoStorage
  NoAccessTx = NoAccessTx
  DpadTypes = {"HAT"}
  Signals = {FALSE}
  NoReport = NoReport
  Pictures = {p, q}
  TxIds = {1, 2, 3, 4}
  MaxScheduled = 2
INVARIANTS DirectoryIsCurrent NoEmptyEntry ReachesTheBlock
INVARIANTS StorageInv NoUseAfterDelete NoOrphan
PROPERTIES InTimeWriteCommitted CallsEnd FilesShown ReportsCatchUp ScreenShown
