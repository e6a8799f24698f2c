SPECIFICATION Spec
CONSTANTS
  NumThreads = 3
  JobCapacity = 5
  SignalCapacity = 3
  Lines = {l1, l2}
  ValidLines = {l1, l2}
  MayFail = {1, 2, 3}
  NULL = NULL
SYMMETRY Symmetry
INVARIANTS
  AcceptedLinesAnswered
  NoUseAfterFree
  SignalCallbackNeverBlocks
  ActiveWorkersCounted
PROPERTIES
  ImplementsContract
