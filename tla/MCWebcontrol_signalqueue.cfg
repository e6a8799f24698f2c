SPECIFICATION FairSpec
CHECK_DEADLOCK FALSE
CONSTANTS
  NumThreads = 2
  JobCapacity = 1
  SignalCapacity = 1
  Lines = {l1}
  ValidLines = {l1}
  MayFail = {}
  NULL = NULL
PROPERTIES
  TerminatingThreadExits
