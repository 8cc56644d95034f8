SPECIFICATION Spec
CONSTANTS
  PoolSize = 4
  Batches <- WholeBatches
  MaxCalls = 2
  Window = 2
  RingCap = 3
  PeekMax = 2
  HasSock6 = FALSE
INVARIANTS
  LossCountedOnce
CHECK_DEADLOCK FALSE
