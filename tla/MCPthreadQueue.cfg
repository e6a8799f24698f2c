SPECIFICATION FairSpec
CONSTANTS
  Producers = {p1, p2}
  Consumers = {c1, c2}
  Values = {v1, v2}
  Capacity = 2
  NoThread = NoThread
INVARIANTS
  TypeOK
  RingConsistent
  NoLostWakeup
  TestStillHolds
PROPERTIES
  ImplementsBoundedQueue
  DequeueReturnsOldest
  SomeCallCompletes
