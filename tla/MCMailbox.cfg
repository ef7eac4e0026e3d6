SPECIFICATION FairSpec
CONSTANTS
  Message <- MCMessage
  Zero <- MCZero
  Configured = 3
  CompactAt = 1
  BatchSizes <- MCBatchSizes
INVARIANTS
  TypeOK
  SliceBounded
  NoLostWakeup
PROPERTIES
  FifoContract
  
