SPECIFICATION Spec
CONSTANTS
  ASQ = 4
  ACQ = 4
  Callers = {"host", "t1", "t2"}
  Host = "host"
  Slow <- HostOnly
  CtrlPage = 2
  GpuPage = 4
  UintsPerPage = 4
  SizeMod = 16
  Setups <- AllSetups
  SqFit = 4
  CqFit = 16
  MaxQueues = 8
  MayFail <- Faults
  Plan <- Commands
INVARIANTS
  OwnReply
  Usable
  TablesReachEntries
  NothingElseLeaked
PROPERTY
  StartEnds
