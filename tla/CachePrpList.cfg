CONSTANTS
  NPages = 4
  NSlots = 2
  NVictims = 1
  Threads <- TwoThreads
  Setups <- ListSetups
SPECIFICATION Spec
INVARIANTS
  HoldsLatest
