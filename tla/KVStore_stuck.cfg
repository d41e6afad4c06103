SPECIFICATION FairSpec
CONSTANTS
  TaskCount = 2
  WorkerCount = 2
  Capacity = 2
  Overload = 2
  MaxTransfer = 1
  MaxTransfers = 0
  MaxTimeouts = 0
  MaxFailures = 1
  MaxLostLinks = 1
PROPERTIES
  EveryTaskStored
\* The run ends when all tasks are stored.
CHECK_DEADLOCK FALSE
