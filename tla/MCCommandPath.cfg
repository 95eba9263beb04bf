SPECIFICATION PathSpec
CONSTANTS
  Parts = {"loops", "scheduler", "bus"}
  Environments <- MCEnvironments
  Players = {0, 1}
  Pins = {0, 1}
  MaxQueue = 4
  ChunkSize = 2
  MaxIncoming = 4
  MaxOutgoing = 2
  MaxPiece = 3
  NumPriorities = 3
  Requests <- MCRequests
  TxTimes = {1, 3}
  TxIdModulus = 4
  MaxTime = 4
  Sides = {"host", "client"}
INVARIANTS LoopsTypeOK CommandsIntact PacketsResync AnswersFresh
INVARIANTS IInv BusInv
PROPERTIES CommandsHandled NoPriorityInversion RecipientOrder CadenceKept ImplementsExchange
