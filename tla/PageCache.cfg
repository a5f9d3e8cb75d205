CONSTANTS
  NPages = 4
  NSlots = 2
  NVictims = 1
  Threads <- TwoThreads
  Setups <- SoundSetups
SPECIFICATION Spec
INVARIANTS
  HoldsLatest
  OneOwner
  CacheInv
  NothingLost
PROPERTIES
  EveryAccessReturns
