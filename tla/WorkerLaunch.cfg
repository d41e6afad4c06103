SPECIFICATION FairSpec
CONSTANTS
  WorkerCount = 2
  StrayIds = {1}
INVARIANTS
  TypeOK
  StartsWithConfirmed
  ConfirmedStaysRegistered
PROPERTIES
  RunsEndWithMaster
  StoppedWorkersEnd
\* The processes end.
CHECK_DEADLOCK FALSE
