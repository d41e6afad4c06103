---------------------------- MODULE MCReadyQueue ----------------------------
(* Small instances of ReadyQueue.                                           *)
EXTENDS ReadyQueue

(* Every task the queue admits leaves it, processed or moved, even when     *)
(* transfers keep failing and putting it back (release_reservation), as     *)
(* long as no more than MaxArrivals copies arrive.  The task ids are        *)
(* interchangeable, so one of them stands for all.                          *)
EveryTaskLeaves == Leaves(CHOOSE t \in Tasks : TRUE)
=============================================================================
