SPECIFICATION FairSpec
CONSTANTS
  Blocks = {1, 2, 3}
  Contents <- MCContents
  Blank <- MCBlank
  SectorOf <- MCSectorOf
  Players = {0, 1}
  Environments <- MCEnvironments
  Data = {0, 1, 2}
  BlockNumbers = {1, 2, 3}
  SystemBlock = 1
  WithSaveArea <- MCWithSaveArea
  Written = {1}
  WritesPerBlock = 2
INVARIANTS ExchangeInv AckedIsStored FlashIsCurrent NoOtherPlayer
PROPERTIES GoneMeansQuiet FlashCatchesUp
