SPECIFICATION Spec
CONSTANTS
  IoSizes = {2, 4}
  MaxWorkers = 8
  WarpSize = 4
  AddressMax = 65535
  Options <- CommandLines
INVARIANT CoversOnce
