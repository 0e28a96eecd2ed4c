SPECIFICATION Spec
CONSTANTS
  NumBlocks = 2
  QueueLen = 2
  MaxMsgs = 4
INVARIANT PoolRestored
