SPECIFICATION Spec
CONSTANTS
  TaskCount = 2
  WorkerCount = 2
  Capacity = 1
  Overload = 0
  MaxTransfer = 1
  MaxTransfers = 1
  MaxTimeouts = 1
  MaxFailures = 0
  MaxLostLinks = 1
INVARIANTS
  TypeOK
  QueuesWithinCapacity
  LossesExplained
\* The run ends when all tasks are stored.
CHECK_DEADLOCK FALSE
