----------------------------- MODULE TaskLedger -----------------------------
(***************************************************************************)
(* What the master promises about the tasks, without its queues, messages, *)
(* threads and statistics: every task is with nobody, with exactly one     *)
(* worker, or stored.  A task that is with nobody is given to one worker,  *)
(* but not to the one that last gave it back; a worker's tasks are stored  *)
(* or given back; what is stored stays stored.                             *)
(***************************************************************************)
CONSTANTS Tasks, Workers, Nobody

VARIABLES holder,      \* the worker that answers for each task, or Nobody
          gaveBack,    \* the worker that last gave the task back, or Nobody
          stored       \* the tasks whose value is stored

vars == <<holder, gaveBack, stored>>

Init ==
  /\ holder = [t \in Tasks |-> Nobody]
  /\ gaveBack = [t \in Tasks |-> Nobody]
  /\ stored = {}

Assign(t, w) ==
  /\ t \notin stored
  /\ holder[t] = Nobody
  /\ w # gaveBack[t]
  /\ holder' = [holder EXCEPT ![t] = w]
  /\ UNCHANGED <<gaveBack, stored>>

Store(t) ==
  /\ holder[t] # Nobody
  /\ holder' = [holder EXCEPT ![t] = Nobody]
  /\ stored' = stored \cup {t}
  /\ UNCHANGED gaveBack

\* One task fails (at any worker, for it may have been moved).
GiveBack(t, w) ==
  /\ holder[t] # Nobody
  /\ holder' = [holder EXCEPT ![t] = Nobody]
  /\ gaveBack' = [gaveBack EXCEPT ![t] = w]
  /\ UNCHANGED stored

\* A worker is lost: everything it holds comes back at once.
Lose(w) ==
  /\ holder' = [t \in Tasks |-> IF holder[t] = w THEN Nobody ELSE holder[t]]
  /\ gaveBack' = [t \in Tasks |-> IF holder[t] = w THEN w ELSE gaveBack[t]]
  /\ UNCHANGED stored

Next ==
  \/ \E t \in Tasks : Store(t)
  \/ \E t \in Tasks, w \in Workers : Assign(t, w) \/ GiveBack(t, w)
  \/ \E w \in Workers : Lose(w)

Spec == Init /\ [][Next]_vars
=============================================================================
