SPECIFICATION Spec
CONSTANTS
  Producers = {0, 1}
  Capacity = 4
  SeqMod = 16
  SchedThreads = 2
  MaxDrain = 1
  MergeMax = 2
  PrpSlots = 3
  KneeLimit = 2
  Count = 3
  Window = 2
  Transpose = FALSE
  WarpSize = 2
  Tile = 0
  Batches = 1
  PageOrder <- EvenFirst
  Pages <- TotalPages
INVARIANTS
  RightBufferOnce
  WaitReturnsAfterWrite
  BufferNotReused
  ExitDrained
  RoundsAreShaped
PROPERTIES
  ImplementsService
