SPECIFICATION Spec
CONSTANTS
  ASQ = 4
  ACQ = 4
  Callers = {"host", "t1"}
  Host = "host"
  Slow <- Everyone
  CtrlPage = 2
  GpuPage = 4
  UintsPerPage = 4
  SizeMod = 16
  Setups <- OneSetup
  SqFit = 4
  CqFit = 16
  MaxQueues = 8
  MayFail = {}
  Plan <- Quiet
INVARIANT
  OwnReply
