SPECIFICATION StorageFairSpec
CONSTANTS
  Storages = {vmuA, vmuB}
  WriteAccessCount = 2
  NoStorage = NoStorage
  NoAccessTx = NoAccessTx
PROPERTY CallsEnd
CHECK_DEADLOCK FALSE
