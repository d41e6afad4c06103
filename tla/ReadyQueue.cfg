SPECIFICATION FairSpec
CONSTANTS
  Tasks = {t1, t2, t3, t4}
  Capacity = 3
  Overload = 2
  MaxTransfer = 2
  MaxArrivals = 4
INVARIANTS
  TypeOK
  HeldOnce
  WithinCapacity
  NoReservationLeaks
  OnlyReturnedOvertake
PROPERTIES
  ForgottenOnlyWhenSettled
  EveryTaskLeaves
\* Arrivals are bounded: the worker ends idle.
CHECK_DEADLOCK FALSE
