SPECIFICATION DeviceSpec
CONSTANTS
  Parts = {"drive"}
  Files = {vmuA, vmuB}
  NoFile = NoFile
  NumSlots = 2
  MAX_ERROR_COUNT = 1
  Lbas <- MCLbas
  Storages = {vmu}
  WriteAccessCount = 4
  NoStorage = NoStorage
  NoAccessTx = NoAccessTx
  DpadTypes = {"HAT"}
  Signals = {FALSE}
  NoReport = NoReport
  Pictures = {p, q}
  TxIds = {1, 2, 3, 4}
  MaxScheduled = 2
INVARIANT NotAttachedRefused
