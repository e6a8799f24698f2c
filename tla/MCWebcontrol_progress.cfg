SPECIFICATION FairSpec
CONSTANTS
  NumThreads = 2
  JobCapacity = 1
  SignalCapacity = 2
  Lines = {l1, l2}
  ValidLines = {l1}
  MayFail = {2}
  NULL = NULL
INVARIANTS
  TypeOK
  EachLineOnce
  NoStandstill
PROPERTIES
  LinesGetAnswered
  ShutdownCompletes
