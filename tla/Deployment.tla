---- MODULE Deployment ----
\* Who takes part: what the modules of the master, of the transfers and of the
\* whole system have in common.
EXTENDS QueueCapacity, Integers

CONSTANTS
  WorkerCount,   \* registered workers (4 in the program)
  TaskCount      \* generated tasks (5000 in the program)

ASSUME CountsAssumption ==
  /\ TaskCount \in Nat \ {0}
  /\ WorkerCount \in Nat \ {0}

\* Numbered in the order they were generated, and in the order of their ids.
Tasks   == 1 .. TaskCount
Workers == 1 .. WorkerCount

\* None, where the code keeps a worker id.
Nobody  == 0
====
