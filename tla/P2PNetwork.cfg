SPECIFICATION FairSpec
CONSTANTS
  TaskCount = 3
  WorkerCount = 2
  Capacity = 1
  Overload = 0
  MaxTransfer = 1
  MaxTransfers = 2
  MaxTimeouts = 1
  MaxRepeats = 1
INVARIANTS
  TypeOK
  QueuesWithinCapacity
  NeverNowhere
  ExtraExecutionsNeedTimeouts
PROPERTIES
  TransfersSettle
\* The tasks are processed and nothing remains to do.
CHECK_DEADLOCK FALSE
