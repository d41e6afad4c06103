------------------------------ MODULE KVStore ------------------------------
(***************************************************************************)
(* The whole system from the first assignment to the last stored task: the *)
(* master's bookkeeping (MasterCore), the workers' queues and transfers    *)
(* (P2PTransfer), and between them the TCP links, which deliver in order   *)
(* until they are lost.                                                    *)
(* QUEUE_STATUS messages are not queued: one may come at any moment and    *)
(* carry any size, for it may be old by then, or none may come although    *)
(* the size changed (StatusReports shows how).                             *)
(* A link is lost as a whole; the worker stops when its receiver notices.  *)
(***************************************************************************)
EXTENDS MasterCore, P2PTransfer

CONSTANTS MaxFailures,   \* bound on the tasks whose processing fails (20% rule)
          MaxLostLinks   \* bound on the links lost

ASSUME FaultsAssumption == MaxFailures \in Nat /\ MaxLostLinks \in Nat

VARIABLES sending,       \* the assignment the main thread is about to send
          toWorker,      \* TASK messages on their way to each worker
          toMaster,      \* results on their way from each worker
          reported,      \* has the processor reported the task it still holds?
          link,          \* is the connection between master and worker up?
          failures,      \* processing failures so far
          dropped,       \* tasks some TASK message of which was ignored as a
                         \*   duplicate
          stranded       \* tasks a copy or result of which was lost with a
                         \*   worker other than the assignee

linkVars == <<sending, toWorker, toMaster, reported, link, failures, dropped, stranded>>
vars == <<coreVars, p2pVars, linkVars>>

NotSending == [task |-> 0, worker |-> Nobody, retry |-> FALSE]

Init ==
  /\ CoreInit
  /\ P2PInit
  /\ sending = NotSending
  /\ toWorker = [w \in Workers |-> <<>>]
  /\ toMaster = [w \in Workers |-> <<>>]
  /\ reported = [w \in Workers |-> FALSE]
  /\ link = [w \in Workers |-> TRUE]
  /\ failures = 0
  /\ dropped = {}
  /\ stranded = {}

-----------------------------------------------------------------------------
(* The master.                                                             *)

Distribute ==
  /\ sending = NotSending
  /\ ~ AllStored
  /\ AnyConnected
  /\ \/ \E t \in Tasks, w \in Workers :
          /\ AssignNext(t, w)
          /\ sending' = [task |-> t, worker |-> w, retry |-> FromRetry]
     \/ PutNextBack /\ UNCHANGED sending
  /\ UNCHANGED <<p2pVars, toWorker, toMaster, reported, link, failures, dropped, stranded>>

SendTask ==
  LET w == sending.worker
      copy == [id |-> sending.task, by |-> assignmentWorker[sending.task]]
  IN  /\ sending # NotSending
      /\ sending' = NotSending
      /\ \/ /\ toWorker' = IF link[w]
                 THEN [toWorker EXCEPT ![w] = Append(@, [copy |-> copy, retry |-> sending.retry])]
                 ELSE toWorker
            /\ UNCHANGED coreVars
         \/ /\ ~ link[w]                     \* OSError
            /\ DisconnectWorker(w)
            /\ UNCHANGED toWorker
      /\ UNCHANGED <<p2pVars, toMaster, reported, link, failures, dropped, stranded>>

\* The master receives the next result of a worker, or the end of the stream.
ReceiveResult(w) ==
  LET m == Head(toMaster[w])
  IN  /\ toMaster[w] # <<>>
      /\ toMaster' = [toMaster EXCEPT ![w] = Tail(@)]
      /\ IF ~ IsCurrent(m.copy.id, m.copy.by) THEN UNCHANGED coreVars
         ELSE IF m.kind = "success" THEN RecordSuccess(m.copy.id)
         ELSE RecordFailure(w, m.copy.id, m.kind = "overflow")
      /\ UNCHANGED <<p2pVars, sending, toWorker, reported, link, failures, dropped, stranded>>

ReceiveEnd(w) ==
  /\ ~ link[w]
  /\ connected[w]
  /\ toMaster[w] = <<>>
  /\ DisconnectWorker(w)
  /\ UNCHANGED <<p2pVars, linkVars>>

\* Statuses, too, may be read after the link was lost.
LearnSize(w) ==
  /\ connected[w]
  /\ \E size \in (0 .. Capacity) \ {queueSize[w]} : UpdateStatus(w, size)
  /\ UNCHANGED <<p2pVars, linkVars>>

-----------------------------------------------------------------------------
(* A worker's receiver and processor.                                      *)

OnlyQueue(w, q) ==
  /\ queue' = [queue EXCEPT ![w] = q]
  /\ UNCHANGED <<monitor, backlog, handled, running, transfers, timeouts>>

\* A result written to a lost link is gone.
Report(w, copy, kind) ==
  /\ toMaster' = IF link[w] THEN [toMaster EXCEPT ![w] = Append(@, [copy |-> copy, kind |-> kind])]
                 ELSE toMaster
  /\ stranded' = IF link[w] \/ copy.by = w THEN stranded ELSE stranded \cup {copy.id}

\* A task it holds already is ignored: no answer tells the master so.
HandleTask(w) ==
  LET m == Head(toWorker[w])
      verdict == Verdict(queue[w], <<m.copy>>)
  IN  /\ running[w]
      /\ toWorker[w] # <<>>
      /\ toWorker' = [toWorker EXCEPT ![w] = Tail(@)]
      /\ \/ /\ verdict = "accepted"
            /\ OnlyQueue(w, Enqueued(queue[w], <<m.copy>>, m.retry))
            /\ UNCHANGED <<toMaster, dropped, stranded>>
         \/ /\ verdict = "full"
            /\ Report(w, m.copy, "overflow")
            /\ UNCHANGED <<p2pVars, dropped>>
         \/ /\ verdict = "duplicate"
            /\ dropped' = dropped \cup {m.copy.id}
            /\ UNCHANGED <<p2pVars, toMaster, stranded>>
      /\ UNCHANGED <<coreVars, sending, reported, link, failures>>

DequeueForProcessing(w) ==
  /\ running[w]
  /\ queue[w].processing = {}
  /\ CanDequeue(queue[w])
  /\ OnlyQueue(w, Dequeued(queue[w]))
  /\ UNCHANGED <<coreVars, linkVars>>

\* The result is sent first, and the task given up by the queue afterwards.
SendResult(w, kind) ==
  /\ running[w]
  /\ queue[w].processing # {}
  /\ ~ reported[w]
  /\ kind = "fail" => failures < MaxFailures
  /\ failures' = IF kind = "fail" THEN failures + 1 ELSE failures
  /\ reported' = [reported EXCEPT ![w] = TRUE]
  /\ \E copy \in queue[w].processing : Report(w, copy, kind)
  /\ UNCHANGED <<coreVars, p2pVars, sending, toWorker, link, dropped>>

MarkProcessingDone(w) ==
  /\ running[w]
  /\ reported[w]
  /\ reported' = [reported EXCEPT ![w] = FALSE]
  /\ OnlyQueue(w, MarkedDone(queue[w]))
  /\ UNCHANGED <<coreVars, sending, toWorker, toMaster, link, failures, dropped, stranded>>

-----------------------------------------------------------------------------
(* Faults.                                                                 *)

LostLinks == Cardinality({w \in Workers : ~ link[w]})

\* Some of the results already sent may never be read.
LoseLink(w) ==
  /\ link[w]
  /\ LostLinks < MaxLostLinks
  /\ link' = [link EXCEPT ![w] = FALSE]
  /\ toWorker' = [toWorker EXCEPT ![w] = <<>>]
  /\ \E n \in 0 .. Len(toMaster[w]) :
       LET lost == {toMaster[w][i].copy : i \in n + 1 .. Len(toMaster[w])}
       IN  /\ toMaster' = [toMaster EXCEPT ![w] = SubSeq(@, 1, n)]
           /\ stranded' = stranded \cup {c.id : c \in {d \in lost : d.by # w}}
  /\ UNCHANGED <<coreVars, p2pVars, sending, reported, failures, dropped>>

\* The worker's receiver reads the end of the stream; its threads stop, and
\* what its queue and its backlog hold is lost with it.
Unfinished(w) ==
  {queue[w].normal[i] : i \in DOMAIN queue[w].normal}
    \cup {queue[w].priority[i] : i \in DOMAIN queue[w].priority}
    \cup {r.copy : r \in queue[w].reserved}
    \cup (IF reported[w] THEN {} ELSE queue[w].processing)

StopWorker(w) ==
  /\ running[w]
  /\ ~ link[w]
  /\ running' = [running EXCEPT ![w] = FALSE]
  /\ backlog' = [backlog EXCEPT ![w] = <<>>]
  /\ stranded' = stranded \cup {c.id : c \in {d \in Unfinished(w) : d.by # w}}
  /\ UNCHANGED <<coreVars, queue, monitor, handled, transfers, timeouts, sending, toWorker,
                 toMaster, reported, link, failures, dropped>>

-----------------------------------------------------------------------------
P2PStep(w) == (Monitoring(w) \/ Serve(w)) /\ UNCHANGED <<coreVars, linkVars>>

Processing(w) ==
  DequeueForProcessing(w) \/ MarkProcessingDone(w)
    \/ \E kind \in {"success", "fail"} : SendResult(w, kind)

Next ==
  \/ Distribute
  \/ SendTask
  \/ \E w \in Workers :
       \/ ReceiveResult(w)
       \/ ReceiveEnd(w)
       \/ LearnSize(w)
       \/ HandleTask(w)
       \/ Processing(w)
       \/ P2PStep(w)
       \/ LoseLink(w)
       \/ StopWorker(w)

Spec == Init /\ [][Next]_vars

\* Every thread keeps running, and a link delivers what is on it; nothing is
\* assumed of the statuses.
FairSpec ==
  /\ Spec
  /\ WF_vars(Distribute)
  /\ WF_vars(SendTask)
  /\ \A w \in Workers :
       /\ WF_vars(ReceiveResult(w))
       /\ WF_vars(ReceiveEnd(w))
       /\ WF_vars(HandleTask(w))
       /\ WF_vars(Processing(w))
       /\ WF_vars(Monitoring(w) /\ UNCHANGED <<coreVars, linkVars>>)
       /\ WF_vars(Serve(w) /\ UNCHANGED <<coreVars, linkVars>>)
       /\ WF_vars(StopWorker(w))
-----------------------------------------------------------------------------
(* Properties.                                                             *)

TypeOK ==
  /\ CoreTypeOK
  /\ P2PTypeOK
  /\ sending \in [task : Tasks \cup {0}, worker : Workers \cup {Nobody}, retry : BOOLEAN]
  /\ \A w \in Workers : \A i \in DOMAIN toWorker[w] :
       toWorker[w][i] \in [copy : Copies, retry : BOOLEAN]
  /\ \A w \in Workers : \A i \in DOMAIN toMaster[w] :
       toMaster[w][i] \in [copy : Copies, kind : {"success", "fail", "overflow"}]
  /\ \A w \in Workers : reported[w] => queue[w].processing # {}
  /\ link \in [Workers -> BOOLEAN]
  /\ failures \in 0 .. MaxFailures
  /\ dropped \subseteq Tasks
  /\ stranded \subseteq Tasks

\* Where a task may still come to be executed, or its result is on its way.
\* A reserved task counts until the peer that accepted it has it.
Transferred(w) == monitor[w].answer = "accepted"

Places(t) ==
  {<<"sending", sending.worker>> : x \in {y \in {sending} : y.task = t}}
    \cup {<<"link", w>> : w \in {v \in Workers :
             \E i \in DOMAIN toWorker[v] : toWorker[v][i].copy.id = t}}
    \cup {<<"queue", w>> : w \in {v \in Workers :
             \E c \in Unfinished(v) : c.id = t
               /\ ~ (Transferred(v) /\ t \in ReservedIds(queue[v]))}}
    \cup {<<"result", w>> : w \in {v \in Workers :
             \E i \in DOMAIN toMaster[v] : toMaster[v][i].copy.id = t}}

(* Until a timeout or a lost link, a task is in at most one place where it *)
(* can be executed or its result awaited, and in none once it is stored or *)
(* back in the master's queues: no transfer, late confirmation, overflow   *)
(* or reassignment makes two workers do the same work.                     *)
NoDuplicateWork ==
  timeouts = 0 /\ LostLinks = 0 =>
    \A t \in Tasks :
      Cardinality(Places(t)) <= IF taskState[t] = "assigned" THEN 1 ELSE 0

\* The assignment of t can still be answered.
Answerable(t) ==
  LET copy == [id |-> t, by |-> assignmentWorker[t]]
  IN  \/ sending.task = t
      \/ \E w \in Workers :
           \/ \E i \in DOMAIN toWorker[w] : toWorker[w][i].copy = copy
           \/ running[w] /\ copy \in Unfinished(w)
           \/ \E i \in DOMAIN toMaster[w] : toMaster[w][i].copy = copy

(* A task the master waits for is on its way, held, or answered by a       *)
(* worker, unless the assignee's link is lost, and the task will be given  *)
(* back: what the documentation means by no task being lost.               *)
NoTaskLost ==
  \A t \in Tasks : taskState[t] = "assigned" => Answerable(t) \/ ~ link[assignmentWorker[t]]

(* There are two ways to lose a task and no third: its TASK message was    *)
(* ignored as a duplicate (_handle_task), or it was lost with a worker it  *)
(* had been moved to (_disconnect_worker).  No timeout, no crossing of     *)
(* transfers, no overflow loses one by itself.                             *)
LossesExplained ==
  \A t \in Tasks : taskState[t] = "assigned" =>
    Answerable(t) \/ ~ link[assignmentWorker[t]] \/ t \in dropped \/ t \in stranded

\* What the code does not guarantee: no status is out of date from some time
\* on, and the master keeps finding out what the size of a queue is.
SizesKnown ==
  /\ <>[][\A w \in Workers : LearnSize(w) => queueSize'[w] = Size(queue[w])]_vars
  /\ \A w \in Workers : []<>(link[w] => queueSize[w] = Size(queue[w]))

(* If no link is lost and the sizes of the queues become known, every task *)
(* is stored, through failures, overflows, transfers, timeouts and old     *)
(* statuses, unless a TASK for it was ignored as a duplicate.              *)
StoredUnlessDropped ==
  (\A w \in Workers : [] link[w]) /\ SizesKnown => <> (Tasks \subseteq store \cup dropped)

(* All tasks get stored, as long as one worker keeps its link (README.md   *)
(* and the requirements promise as much), and the sizes become known.      *)
EveryTaskStored ==
  (\E w \in Workers : [] link[w]) /\ SizesKnown => <> (store = Tasks)
=============================================================================
