SPECIFICATION Spec
CONSTANTS
  TaskCount = 2
  WorkerCount = 2
  Capacity = 2
  Overload = 1
  MaxTransfer = 1
  MaxTransfers = 1
  MaxTimeouts = 0
  MaxFailures = 1
  MaxLostLinks = 0
INVARIANTS
  NoTaskLost
\* The run ends when all tasks are stored.
CHECK_DEADLOCK FALSE
