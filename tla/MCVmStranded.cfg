SPECIFICATION Spec
CONSTANTS
  k1 = k1 k2 = k2
  Keys = {k1, k2}
  Clients = {c1, c2}
  Size <- MCSize
  VmPages = 2
  MaxThreads = 1
  PipeSize = 1
  MaxErrors = 0
  Requests <- MCWaits
PROPERTY EveryClientResumes
CHECK_DEADLOCK FALSE
