SPECIFICATION FairSpec
CHECK_DEADLOCK FALSE
CONSTANTS
  NumThreads = 2
  JobCapacity = 1
  SignalCapacity = 2
  Lines = {l1}
  ValidLines = {l1}
  MayFail = {1, 2}
  NULL = NULL
PROPERTIES
  AllDeadShutsDown
