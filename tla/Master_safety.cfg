SPECIFICATION Spec
CONSTANTS
  TaskCount = 2
  WorkerCount = 2
  Capacity = 1
  MaxAttempts = 1
  MaxOverflows = 1
  MaxLostLinks = 1
INVARIANTS
  TypeOK
  AssignedToOne
  QueuesMatchStates
  StoreMatchesStates
  AvoidsPrevious
  SentToAssignee
  AcceptedResultsCounted
  TerminatesWhenAllStored
PROPERTIES
  RetriesFirst
  ImplementsLedger
\* The run of the program ends.
CHECK_DEADLOCK FALSE
