SPECIFICATION FairReportSpec
CONSTANTS
  Capacity = 2
  Overload = 1
  MaxTransfer = 1
  MaxTasks = 1
  MaxTransfers = 1
  MaxBatches = 2
  MaxUnread = 1
INVARIANTS
  ReportTypeOK
  SizeKnownWhenQuiet
PROPERTIES
  SentTransfersBecomeKnown
\* The worker ends idle.
CHECK_DEADLOCK FALSE
