SPECIFICATION LoopsSpec
CONSTANTS
  Environments <- MCSlipping
  Players = {0, 1}
  Pins = {0, 1}
  MaxQueue = 4
  ChunkSize = 2
  MaxIncoming = 4
  MaxOutgoing = 2
  MaxPiece = 3
INVARIANT EndsStay
