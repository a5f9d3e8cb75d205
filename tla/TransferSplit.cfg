SPECIFICATION Spec
CONSTANTS
  Producers = {0, 1, 2}
  Capacity = 4
  SeqMod = 16
  SchedThreads = 2
  MaxDrain = 1
  MergeMax = 2
  PrpSlots = 3
  KneeLimit = 2
  Count = 2
  Window = 2
  Transpose = FALSE
  WarpSize = 2
  Tile = 1
  Batches = 1
  PageOrder <- InOrder
  Pages <- TotalPages
INVARIANTS
  SplitScratchFits
