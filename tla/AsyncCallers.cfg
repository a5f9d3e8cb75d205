SPECIFICATION FairSpec
CONSTANTS
  Producers = {0, 1}
  Capacity = 2
  SeqMod = 16
  SchedThreads = 2
  MaxDrain = 1
  MergeMax = 2
  PrpSlots = 2
  KneeLimit = 1
  Count = 2
  Window = 1
  Forgets = {TRUE, FALSE}
  Pages <- OnePagePerRequest
PROPERTIES
  EveryWaitReturns
INVARIANTS
  FlagMeansDone
  ForgottenAreServed
