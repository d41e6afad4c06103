----------------------------- MODULE MasterCore -----------------------------
(***************************************************************************)
(* What the master protects with its condition lock, and the critical      *)
(* sections on it: one action per section.  The threads that enter them    *)
(* are in Master; the same sections run against real queues in KVStore.    *)
(* Keys are drawn without repetition, so the store is the set of tasks     *)
(* whose value it holds.                                                   *)
(***************************************************************************)
EXTENDS Deployment, Sequences, FiniteSets, FiniteSetsExt

VARIABLES taskState,         \* _task_state: pending, retry, assigned or done
          attempt,           \* Task.attempt
          previousWorker,    \* Task.previous_worker_id
          assignmentWorker,  \* Task.assignment_worker_id
          normalTasks,       \* _normal_tasks, the tasks never assigned yet
          retryTasks,        \* _retry_tasks: a heap of increasing order numbers,
                             \*   that is a queue
          store,             \* _store
          connected,         \* WorkerConnection.connected
          assigned,          \* WorkerConnection.assigned_task_ids
          queueSize          \* WorkerConnection.status.queue_size

coreVars == <<taskState, attempt, previousWorker, assignmentWorker, normalTasks,
              retryTasks, store, connected, assigned, queueSize>>

CoreInit ==
  /\ taskState = [t \in Tasks |-> "pending"]
  /\ attempt = [t \in Tasks |-> 0]
  /\ previousWorker = [t \in Tasks |-> Nobody]
  /\ assignmentWorker = [t \in Tasks |-> Nobody]
  /\ normalTasks = [i \in Tasks |-> i]
  /\ retryTasks = <<>>
  /\ store = {}
  /\ connected = [w \in Workers |-> TRUE]
  /\ assigned = [w \in Workers |-> {}]
  /\ queueSize = [w \in Workers |-> 0]

-----------------------------------------------------------------------------
(* Sections entered by the receiver threads.                               *)

UpdateStatus(w, size) ==
  /\ queueSize' = [queueSize EXCEPT ![w] = size]
  /\ UNCHANGED <<taskState, attempt, previousWorker, assignmentWorker, normalTasks,
                 retryTasks, store, connected, assigned>>

\* Mutant of IsCurrent: any result for a known task counts.
IsKnown(t, assignee) == t \in Tasks

\* A result is about the current assignment when the worker it names as the
\* assignee has the task; who executed the task does not matter.
IsCurrent(t, assignee) == taskState[t] = "assigned" /\ t \in assigned[assignee]

Unassigned(t) == [w \in Workers |-> assigned[w] \ {t}]

\* Mutant of RecordSuccess: the value is not stored.
RecordSuccessUnstored(t) ==
  /\ assigned' = Unassigned(t)
  /\ taskState' = [taskState EXCEPT ![t] = "done"]
  /\ UNCHANGED <<attempt, previousWorker, assignmentWorker, normalTasks, retryTasks,
                 store, connected, queueSize>>

RecordSuccess(t) ==
  /\ assigned' = Unassigned(t)
  /\ store' = store \cup {t}
  /\ taskState' = [taskState EXCEPT ![t] = "done"]
  /\ UNCHANGED <<attempt, previousWorker, assignmentWorker, normalTasks, retryTasks,
                 connected, queueSize>>

\* Mutants of RecordFailure: the task stays in the assignee's set; the assignee
\* is erased from the task; an overflow counts as an attempt.
RecordFailureKeepingAssignment(reporter, t, overflow) ==
  /\ attempt' = IF overflow THEN attempt ELSE [attempt EXCEPT ![t] = @ + 1]
  /\ previousWorker' = [previousWorker EXCEPT ![t] = reporter]
  /\ taskState' = [taskState EXCEPT ![t] = "retry"]
  /\ retryTasks' = Append(retryTasks, t)
  /\ UNCHANGED <<assigned, assignmentWorker, normalTasks, store, connected, queueSize>>

RecordFailureErasingAssignee(reporter, t, overflow) ==
  /\ assigned' = Unassigned(t)
  /\ attempt' = IF overflow THEN attempt ELSE [attempt EXCEPT ![t] = @ + 1]
  /\ previousWorker' = [previousWorker EXCEPT ![t] = reporter]
  /\ assignmentWorker' = [assignmentWorker EXCEPT ![t] = Nobody]
  /\ taskState' = [taskState EXCEPT ![t] = "retry"]
  /\ retryTasks' = Append(retryTasks, t)
  /\ UNCHANGED <<normalTasks, store, connected, queueSize>>

RecordFailureCountingOverflow(reporter, t, overflow) ==
  /\ assigned' = Unassigned(t)
  /\ attempt' = [attempt EXCEPT ![t] = @ + 1]
  /\ previousWorker' = [previousWorker EXCEPT ![t] = reporter]
  /\ taskState' = [taskState EXCEPT ![t] = "retry"]
  /\ retryTasks' = Append(retryTasks, t)
  /\ UNCHANGED <<assignmentWorker, normalTasks, store, connected, queueSize>>

\* The worker that reports the failure is the one to avoid, even when it
\* only received the task from a peer.
RecordFailure(reporter, t, overflow) ==
  /\ assigned' = Unassigned(t)
  /\ attempt' = IF overflow THEN attempt ELSE [attempt EXCEPT ![t] = @ + 1]
  /\ previousWorker' = [previousWorker EXCEPT ![t] = reporter]
  /\ taskState' = [taskState EXCEPT ![t] = "retry"]
  /\ retryTasks' = Append(retryTasks, t)
  /\ UNCHANGED <<assignmentWorker, normalTasks, store, connected, queueSize>>

(***************************************************************************)
(* The tasks assigned to a lost worker go back, in whatever order the set  *)
(* is iterated.  Tasks it received from a peer are in the peer's set.      *)
(***************************************************************************)
Orders(S) == Bijection(1 .. Cardinality(S), S)

DisconnectWorker(w) ==
  IF ~ connected[w]
    THEN UNCHANGED coreVars
    ELSE LET lost == {t \in assigned[w] : taskState[t] = "assigned"}
         IN  /\ connected' = [connected EXCEPT ![w] = FALSE]
             /\ taskState' = [t \in Tasks |-> IF t \in lost THEN "retry" ELSE taskState[t]]
             /\ previousWorker' = [t \in Tasks |-> IF t \in lost THEN w ELSE previousWorker[t]]
             /\ \E order \in Orders(lost) : retryTasks' = retryTasks \o order
             /\ assigned' = [assigned EXCEPT ![w] = {}]
             /\ UNCHANGED <<attempt, assignmentWorker, normalTasks, store, queueSize>>

-----------------------------------------------------------------------------
(* Sections entered by the main thread, which distributes the tasks.       *)

\* Mutant of AllStored: nothing is left to send.
NothingWaits  == \A t \in Tasks : taskState[t] \in {"assigned", "done"}

AllStored     == Cardinality(store) = TaskCount
AnyConnected  == \E w \in Workers : connected[w]

\* What is left of a queue once the entries in another state are skipped.
FromFirst(s, state) ==
  LET live == {i \in DOMAIN s : taskState[s[i]] = state}
  IN  IF live = {} THEN <<>> ELSE SubSeq(s, Min(live), Len(s))

Retries   == FromFirst(retryTasks, "retry")
Pendings  == FromFirst(normalTasks, "pending")
\* Mutant of FromRetry: new tasks first.
FromRetryLast == Retries # <<>> /\ Pendings = <<>>
FromRetry == Retries # <<>>
HasTask   == Retries # <<>> \/ Pendings # <<>>
NextTask  == IF FromRetry THEN Head(Retries) ELSE Head(Pendings)

\* Mutants of Eligible: the worker that failed is not left out; a full worker
\* is taken.
EligibleAll(t) == {w \in Workers : connected[w] /\ queueSize[w] < Capacity}
EligibleFull(t) ==
  {w \in Workers : connected[w] /\ queueSize[w] <= Capacity /\ w # previousWorker[t]}

Eligible(t) ==
  {w \in Workers : connected[w] /\ queueSize[w] < Capacity /\ w # previousWorker[t]}

\* The most room, then the first id.
Chosen(t) ==
  CHOOSE w \in Eligible(t) : \A v \in Eligible(t) :
    queueSize[w] < queueSize[v] \/ (queueSize[w] = queueSize[v] /\ w <= v)

AssignNext(t, w) ==
  /\ HasTask
  /\ t = NextTask
  /\ Eligible(t) # {}
  /\ w = Chosen(t)
  /\ retryTasks' = IF FromRetry THEN Tail(Retries) ELSE <<>>
  /\ normalTasks' = IF FromRetry THEN normalTasks ELSE Tail(Pendings)
  /\ assignmentWorker' = [assignmentWorker EXCEPT ![t] = w]
  /\ taskState' = [taskState EXCEPT ![t] = "assigned"]
  /\ assigned' = [assigned EXCEPT ![w] = @ \cup {t}]
  /\ queueSize' = [queueSize EXCEPT ![w] = @ + 1]
  /\ UNCHANGED <<attempt, previousWorker, store, connected>>

\* Mutant of PutNextBack: a new task that found no worker joins the retries.
PutNextBackAsRetry ==
  /\ HasTask => Eligible(NextTask) = {}
  /\ retryTasks' = IF HasTask
                     THEN Append(IF FromRetry THEN Tail(Retries) ELSE <<>>, NextTask) ELSE <<>>
  /\ normalTasks' = IF FromRetry THEN normalTasks ELSE Pendings
  /\ UNCHANGED <<taskState, attempt, previousWorker, assignmentWorker, store, connected,
                 assigned, queueSize>>

\* No worker for the next task: a retry goes to the end of its queue, a new
\* task back to the front of its own; nothing else is tried.
PutNextBack ==
  /\ HasTask => Eligible(NextTask) = {}
  /\ retryTasks' = IF FromRetry THEN Append(Tail(Retries), NextTask) ELSE <<>>
  /\ normalTasks' = IF FromRetry THEN normalTasks ELSE Pendings
  /\ UNCHANGED <<taskState, attempt, previousWorker, assignmentWorker, store, connected,
                 assigned, queueSize>>

-----------------------------------------------------------------------------
CoreTypeOK ==
  /\ taskState \in [Tasks -> {"pending", "retry", "assigned", "done"}]
  /\ attempt \in [Tasks -> Nat]
  /\ previousWorker \in [Tasks -> Workers \cup {Nobody}]
  /\ assignmentWorker \in [Tasks -> Workers \cup {Nobody}]
  /\ normalTasks \in Seq(Tasks)
  /\ retryTasks \in Seq(Tasks)
  /\ store \in SUBSET Tasks
  /\ connected \in [Workers -> BOOLEAN]
  /\ assigned \in [Workers -> SUBSET Tasks]
  /\ queueSize \in [Workers -> 0 .. Capacity]

(* A task is assigned exactly when one worker has it, that worker is       *)
(* connected and is the one the task was addressed to, so no task is       *)
(* given to two workers, and none is left with a lost one                  *)
(* (_clear_assignment_locked, _disconnect_worker, _next_assignment_locked).*)
AssignedToOne ==
  /\ \A t \in Tasks, w \in Workers :
       t \in assigned[w] =>
         taskState[t] = "assigned" /\ assignmentWorker[t] = w /\ connected[w]
  /\ \A t \in Tasks : taskState[t] = "assigned" => \E w \in Workers : t \in assigned[w]

Lists(s, t)     == \E i \in DOMAIN s : s[i] = t
ListedOnce(s)   == \A i, j \in DOMAIN s : s[i] = s[j] => i = j

(* The two queues of the master hold exactly the tasks that wait, each     *)
(* once: a task in neither queue nor at a worker would never be sent, one  *)
(* listed twice would be sent twice, and the entries that                  *)
(* _next_task_locked skips never exist.                                    *)
QueuesMatchStates ==
  /\ ListedOnce(normalTasks)
  /\ ListedOnce(retryTasks)
  /\ \A t \in Tasks : Lists(normalTasks, t) <=> taskState[t] = "pending"
  /\ \A t \in Tasks : Lists(retryTasks, t) <=> taskState[t] = "retry"

(* The store holds the completed tasks and no other, whatever late or      *)
(* repeated results arrive: the count that ends the run is the right one.  *)
StoreMatchesStates == \A t \in Tasks : t \in store <=> taskState[t] = "done"

(* A task is never assigned to the worker that last failed or lost it.     *)
AvoidsPrevious ==
  \A t \in Tasks : taskState[t] = "assigned" => assignmentWorker[t] # previousWorker[t]

\* The worker that has each task, as the abstract ledger sees it.
Holder == [t \in Tasks |-> IF taskState[t] = "assigned" THEN assignmentWorker[t] ELSE Nobody]

(* Whatever the threads, the workers and the links do, the master keeps    *)
(* the promise of TaskLedger: a task is with one worker at a time, never   *)
(* again with the one that just gave it back, and stored for good.         *)
Ledger == INSTANCE TaskLedger WITH
  holder <- Holder, gaveBack <- previousWorker, stored <- store

ImplementsLedger == Ledger!Spec

\* What every critical section preserves.
CoreInv ==
  CoreTypeOK /\ AssignedToOne /\ QueuesMatchStates /\ StoreMatchesStates /\ AvoidsPrevious
=============================================================================
