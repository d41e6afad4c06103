---------------------------- MODULE QueueCapacity ----------------------------
\* The one number that the master and the Ready Queues of the workers share.
EXTENDS Integers

CONSTANT Capacity       \* places in a Ready Queue (10 in the program)

ASSUME CapacityAssumption == Capacity \in Nat \ {0}
==============================================================================
