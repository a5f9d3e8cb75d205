CONSTANTS
  Sizes = {2, 4}
  NCids = 5
  Used = 3
  TicketMod = 64
  Threads <- TwoThreads
  Plans <- ThreePlans
  WarpLanes = 2
  BatchMax = 3
  Batches = 3
SPECIFICATION UseSpec
INVARIANTS
  CidsDistinct
  OwnCompletion
  FetchedOnce
  ReadIsCovered
  WholeBatchDone
  UseInv
PROPERTIES
  EveryCallReturns
