SPECIFICATION FairSpec
CONSTANTS
  Main = main
  Subs = {sub}
  Commanded = {sub}
  MAX_FAILURE_DISCONNECT_COUNT = 2
  MaxNoise = 1
  NoTx = NoTx
INVARIANTS NodeInv NoDanglingTransmitter
PROPERTIES DisconnectNeedsFailures UnplugNoticed PlugNoticed SubNoticed
