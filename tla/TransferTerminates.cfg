SPECIFICATION FairSpec
CONSTANTS
  Producers = {0, 1}
  Capacity = 2
  SeqMod = 16
  SchedThreads = 2
  MaxDrain = 2
  MergeMax = 2
  PrpSlots = 2
  KneeLimit = 1
  Count = 2
  Window = 1
  Transpose = FALSE
  WarpSize = 2
  Tile = 0
  Batches = 2
  PageOrder <- InOrder
  Pages <- TotalPages
INVARIANTS
  IndInv
  ServiceInv
PROPERTIES
  Termination
