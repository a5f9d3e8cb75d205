SPECIFICATION Spec
CONSTANTS
  Warps = 2
  WarpLanes = 2
  Radix = 3
  Passes = 2
  MaxBatch = 5
  Offsets = {0, 2, 4, 6, 8}
  Sizes = {2}
  Ppe = 2
  MergeTarget = 4
INVARIANTS
  SortedStably
  BlocksFromOwnBuffer
  GroupsWithinTarget
