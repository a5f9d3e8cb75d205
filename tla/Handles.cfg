SPECIFICATION Spec
CONSTANTS
  d1 = d1
  d2 = d2
  t1 = t1
  t2 = t2
  t3 = t3
  Devs = {d1, d2}
  Tasks = {t1, t2, t3}
  Dev = d1
  MaxCtrls = 2
  MapFails = TRUE
  Buffers <- MCBuffers
  Proc <- MCProc
  HandleOf <- MCHandleOf
  Programs <- Lives
INVARIANTS
  HandlesMapped
  IoctlOnOpenFile
  RemovedOnce
  UnmapUnpins
  OwnMappingFound
  AllGivenBack
PROPERTIES
  ProgramsEnd
