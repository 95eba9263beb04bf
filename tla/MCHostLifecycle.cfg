SPECIFICATION LifeSpec
CONSTANTS
  Players <- MCPlayers
  Pins <- MCPins
  BusStartPin <- MCBusStartPin
  DirPin <- MCDirPin
  Environments <- MCEnvironments
  WatchdogTime = 10
  RebootDelay = 3
  LongestRound = 2
  LongestSave = 5
INVARIANT PinsDisjoint
INVARIANT SavedIsUsed
INVARIANT NoFalseReset
PROPERTY HungIsReset
PROPERTY Settles
