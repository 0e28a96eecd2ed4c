SPECIFICATION Spec
CONSTANTS
  NumBlocks = 4
  QueueLen = 4
  MaxMsgs = 5
INVARIANTS TypeOK Ownership PutNeverWaits
PROPERTIES ImplementsFifo
