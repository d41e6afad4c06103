--------------------------- MODULE StatusReports ---------------------------
(***************************************************************************)
(* One worker, its threads, and what the master knows of it.  A thread     *)
(* that changed the queue reads a snapshot, and sends it once it has the   *)
(* send lock; between the two, another thread may read and send a newer    *)
(* one.  `waiting' is the threads that have read and not sent, in the      *)
(* order they read.  A snapshot carries the size of the queue and the      *)
(* number of transfers sent, which the master treats differently; the      *)
(* number of tasks sent is raised and merged with it.  The two totals of   *)
(* what was received are not modelled: in the launcher's process the       *)
(* sending worker raises them, and the receiver tells with its next status.*)
(* Tasks are counted, not named: how the queue orders them is the subject  *)
(* of ReadyQueue, what the master does with results of Master, and how a   *)
(* worker ends of WorkerLaunch; here its registration succeeds, and once   *)
(* the link is up it stays up.  The P2P threads run before that.           *)
(***************************************************************************)
EXTENDS Integers, Sequences, FiniteSets, SequencesExt

CONSTANTS Capacity,      \* places in the queue (10 in the program)
          Overload,      \* transfers start above this size (7 in the program)
          MaxTransfer,   \* most tasks moved at once (3 in the program)
          MaxTasks,      \* bound on the tasks the master sends
          MaxTransfers,  \* bound on the transfers to peers
          MaxBatches,    \* bound on the transfers from peers
          MaxUnread      \* bound on the statuses the master has yet to read

ASSUME ReportsAssumption ==
  /\ Capacity \in Nat \ {0}
  /\ Overload \in Nat
  /\ MaxTransfer \in 1 .. Overload           \* a transfer leaves a task to process
  /\ MaxTasks \in Nat /\ MaxTransfers \in Nat /\ MaxBatches \in Nat
  /\ MaxUnread \in Nat \ {0}

VARIABLES linked,      \* is _socket set?
          size,        \* tasks in the Ready Queue
          reserved,    \* those of them that are held for a transfer
          sent,        \* p2p_transfers_sent, in the worker's statistics
          thread,      \* the step of each thread
          waiting,     \* snapshots read and not sent
          toMaster,    \* statuses on their way
          toWorker,    \* TASK messages on their way
          belief,      \* WorkerConnection.status and the master's statistics
          unreported,  \* history: the size changed without a status since the
                       \*   last snapshot was read
          tasks, transfers, batches    \* how often each happened so far

queueVars == <<size, reserved>>
knownVars == <<toWorker, belief, tasks>>
boundVars == <<transfers, batches>>
linkState == <<linked, unreported>>
reportVars == <<queueVars, sent, thread, waiting, toMaster, knownVars, boundVars, linkState>>

ReportingThreads == {"receiver", "processor", "monitor", "server"}
Statuses == [size : 0 .. Capacity, sent : Nat, overtaken : BOOLEAN]
            \* overtaken: a newer one was sent before it

ReportInit ==
  /\ linked = FALSE /\ unreported = FALSE
  /\ size = 0 /\ reserved = 0
  /\ sent = 0
  /\ thread = [t \in ReportingThreads |-> "idle"]
  /\ waiting = <<>>
  /\ toMaster = <<>>
  /\ toWorker = 0
  /\ belief = [size |-> 0, sent |-> 0, overtaken |-> FALSE]
  /\ tasks = 0 /\ transfers = 0 /\ batches = 0

Step(t, from, to) == thread[t] = from /\ thread' = [thread EXCEPT ![t] = to]

\* run() assigns the socket; the receiver and the processor start after it.
LinkUp ==
  /\ ~ linked
  /\ linked' = TRUE
  /\ UNCHANGED <<queueVars, sent, thread, waiting, toMaster, knownVars, boundVars, unreported>>

-----------------------------------------------------------------------------
(* Sending, as every thread does it: _send_queue_status and _send.         *)

Telling == {"tell", "report"}            \* a status is due

\* The processor tells twice: after taking a task, before its result is sent,
\* and after the task is done.
AfterStatus(t) == IF thread[t] = "tell" THEN "result" ELSE "idle"

Reads(t) == \E i \in DOMAIN waiting : waiting[i].thread = t

\* The two reads, of the queue and of the statistics, are one step here: the
\* master uses neither together with the other.
ReadSnapshot(t) ==
  /\ linked
  /\ thread[t] \in Telling
  /\ ~ Reads(t)
  /\ waiting' = Append(waiting, [thread |-> t, status |->
       [size |-> size, sent |-> sent, overtaken |-> FALSE]])
  /\ unreported' = FALSE
  /\ UNCHANGED <<queueVars, sent, thread, toMaster, knownVars, boundVars, linked>>

\* Without a socket there is nothing to send on: the status is left out.
SkipStatus(t) ==
  /\ ~ linked
  /\ thread[t] \in Telling
  /\ thread' = [thread EXCEPT ![t] = AfterStatus(t)]
  /\ unreported' = TRUE
  /\ UNCHANGED <<queueVars, sent, waiting, toMaster, knownVars, boundVars, linked>>

\* The snapshots read before the i-th, and still not sent, are older than it.
SentFrom(i) ==
  RemoveAt([j \in DOMAIN waiting |->
              [waiting[j] EXCEPT !.status.overtaken = @ \/ j < i]], i)

SendStatus(t) ==
  /\ Len(toMaster) < MaxUnread
  /\ \E i \in DOMAIN waiting :
       /\ waiting[i].thread = t
       /\ waiting' = SentFrom(i)
       /\ toMaster' = Append(toMaster, waiting[i].status)
  /\ thread' = [thread EXCEPT ![t] = AfterStatus(t)]
  /\ UNCHANGED <<queueVars, sent, knownVars, boundVars, linkState>>

\* RESULT_SUCCESS and RESULT_FAIL say nothing of the queue.
SendResult(t, from, to) ==
  /\ Step(t, from, to)
  /\ UNCHANGED <<queueVars, sent, waiting, toMaster, knownVars, boundVars, linkState>>

-----------------------------------------------------------------------------
(* The receiver and the processor.                                         *)

\* Mutant of HandleTask: an accepted task is not reported.
HandleTaskSilently ==
  /\ linked /\ toWorker > 0
  /\ toWorker' = toWorker - 1
  /\ IF size < Capacity
       THEN size' = size + 1 /\ Step("receiver", "idle", "idle")
       ELSE UNCHANGED size /\ Step("receiver", "idle", "refuse")
  /\ UNCHANGED <<reserved, sent, waiting, toMaster, belief, tasks, boundVars, linkState>>

HandleTask ==
  /\ linked /\ toWorker > 0
  /\ toWorker' = toWorker - 1
  /\ IF size < Capacity
       THEN size' = size + 1 /\ Step("receiver", "idle", "report")
       ELSE UNCHANGED size /\ Step("receiver", "idle", "refuse")
  /\ UNCHANGED <<reserved, sent, waiting, toMaster, belief, tasks, boundVars, linkState>>

\* The worker still has the task: nothing but a status answers it.
IgnoreDuplicate ==
  /\ linked /\ toWorker > 0
  /\ toWorker' = toWorker - 1
  /\ size > 0 \/ thread["processor"] \in {"tell", "result"}
  /\ Step("receiver", "idle", "report")
  /\ UNCHANGED <<queueVars, sent, waiting, toMaster, belief, tasks, boundVars, linkState>>

\* Mutant of DequeueForProcessing: a task held for a transfer is taken.
DequeueReserved ==
  /\ linked /\ size > 0
  /\ Step("processor", "idle", "tell")
  /\ size' = size - 1
  /\ UNCHANGED <<reserved, sent, waiting, toMaster, knownVars, boundVars, linkState>>

DequeueForProcessing ==
  /\ linked /\ size > reserved
  /\ Step("processor", "idle", "tell")
  /\ size' = size - 1
  /\ UNCHANGED <<reserved, sent, waiting, toMaster, knownVars, boundVars, linkState>>

-----------------------------------------------------------------------------
(* The P2P threads, as far as they change what is reported.                *)

\* The check comes first; then the peers are asked, one after the other.
NoticeOverload ==
  /\ transfers < MaxTransfers
  /\ size > Overload
  /\ Step("monitor", "idle", "ask")
  /\ UNCHANGED <<queueVars, sent, waiting, toMaster, knownVars, boundVars, linkState>>

\* No peer has room, or the tasks it could take are gone by now.
FindNothing ==
  /\ Step("monitor", "ask", "idle")
  /\ UNCHANGED <<queueVars, sent, waiting, toMaster, knownVars, boundVars, linkState>>

\* As many as are still there, whatever the size is by now.
Reserve(n) ==
  /\ n <= size
  /\ Step("monitor", "ask", "wait")
  /\ reserved' = n
  /\ transfers' = transfers + 1
  /\ UNCHANGED <<size, sent, waiting, toMaster, knownVars, batches, linkState>>

TransferAnswered(accepted) ==
  /\ Step("monitor", "wait", IF accepted THEN "confirm" ELSE "idle")
  /\ reserved' = IF accepted THEN reserved ELSE 0
  /\ UNCHANGED <<size, sent, waiting, toMaster, knownVars, boundVars, linkState>>

ConfirmNext ==
  /\ Step("monitor", "confirm", IF reserved = 1 THEN "record" ELSE "confirm")
  /\ size' = size - 1
  /\ reserved' = reserved - 1
  /\ UNCHANGED <<sent, waiting, toMaster, knownVars, boundVars, linkState>>

RecordTransfer ==
  /\ Step("monitor", "record", "report")
  /\ sent' = sent + 1
  /\ UNCHANGED <<queueVars, waiting, toMaster, knownVars, boundVars, linkState>>

\* If the ACK cannot be written the handler ends there: the tasks stay, and no
\* status follows.
AdmitBatch(n) ==
  /\ batches < MaxBatches
  /\ size + n <= Capacity
  /\ \/ Step("server", "idle", "report") /\ UNCHANGED unreported
     \/ Step("server", "idle", "idle") /\ unreported' = TRUE
  /\ size' = size + n
  /\ batches' = batches + 1
  /\ UNCHANGED <<reserved, sent, waiting, toMaster, knownVars, transfers, linked>>

-----------------------------------------------------------------------------
(* The master.                                                             *)

AssignTask ==
  /\ tasks < MaxTasks
  /\ belief.size < Capacity
  /\ tasks' = tasks + 1
  /\ belief' = [belief EXCEPT !.size = @ + 1]
  /\ toWorker' = toWorker + 1
  /\ UNCHANGED <<queueVars, sent, thread, waiting, toMaster, boundVars, linkState>>

Larger(m, n) == IF m < n THEN n ELSE m

\* Mutant of Merged: the last numbers count.
Replaced(status) == status

\* The size is replaced, the total only grows (update_p2p_snapshot).
Merged(status) ==
  [status EXCEPT !.sent = Larger(@, belief.sent)]

HandleStatus ==
  /\ toMaster # <<>>
  /\ toMaster' = Tail(toMaster)
  /\ belief' = Merged(Head(toMaster))
  /\ UNCHANGED <<queueVars, sent, thread, waiting, toWorker, tasks, boundVars, linkState>>

-----------------------------------------------------------------------------
Reporting(t) == ReadSnapshot(t) \/ SendStatus(t) \/ SkipStatus(t)

Receiver ==
  \/ Reporting("receiver")
  \/ HandleTask
  \/ IgnoreDuplicate
  \/ SendResult("receiver", "refuse", "idle")

\* mark_processing_done, which follows the result, does not change the size.
Processor ==
  \/ Reporting("processor")
  \/ DequeueForProcessing
  \/ SendResult("processor", "result", "report")

Monitor ==
  \/ Reporting("monitor")
  \/ NoticeOverload
  \/ FindNothing
  \/ \E n \in 1 .. MaxTransfer : Reserve(n)
  \/ \E accepted \in BOOLEAN : TransferAnswered(accepted)
  \/ ConfirmNext
  \/ RecordTransfer

ReportNext ==
  \/ LinkUp
  \/ Receiver
  \/ Processor
  \/ Monitor
  \/ Reporting("server")
  \/ \E n \in 1 .. MaxTransfer : AdmitBatch(n)
  \/ AssignTask
  \/ HandleStatus

ReportSpec == ReportInit /\ [][ReportNext]_reportVars

\* The threads run, and the master reads.  Nothing is assumed of the tasks and
\* the batches that come.
FairReportSpec ==
  /\ ReportSpec
  /\ WF_reportVars(LinkUp)
  /\ WF_reportVars(Receiver)
  /\ WF_reportVars(Processor)
  /\ WF_reportVars(Monitor)
  /\ WF_reportVars(Reporting("server"))
  /\ WF_reportVars(HandleStatus)

-----------------------------------------------------------------------------
ReportTypeOK ==
  /\ linked \in BOOLEAN /\ unreported \in BOOLEAN
  /\ size \in 0 .. Capacity /\ reserved \in 0 .. size
  /\ sent \in 0 .. transfers
  /\ waiting \in Seq([thread : ReportingThreads, status : Statuses])
  /\ \A i, j \in DOMAIN waiting : waiting[i].thread = waiting[j].thread => i = j
  /\ \A t \in ReportingThreads : Reads(t) => thread[t] \in Telling
  /\ toMaster \in Seq(Statuses) /\ Len(toMaster) <= MaxUnread
  /\ toWorker \in 0 .. tasks
  /\ belief \in Statuses
  /\ tasks \in 0 .. MaxTasks /\ transfers \in 0 .. MaxTransfers /\ batches \in 0 .. MaxBatches

\* Nothing is on its way, and no thread is between a change and its status.
Quiet ==
  /\ toWorker = 0 /\ toMaster = <<>>
  /\ \A t \in ReportingThreads : thread[t] \notin Telling \cup {"confirm", "record"}

(* Once a worker is quiet the master knows the size of its queue, however  *)
(* tasks, refusals, transfers and processing interleaved, with three       *)
(* exceptions: the last status to arrive had been read before one that was *)
(* sent earlier, the ACK of a batch could not be written, or there was no  *)
(* socket yet to send the status on (_send_queue_status,                   *)
(* _handle_connection, _next_assignment_locked).                           *)
SizeKnownWhenQuiet ==
  Quiet /\ ~ belief.overtaken /\ ~ unreported => belief.size = size

(* The master learns of every transfer the worker has recorded as sent,    *)
(* and does not forget it: the status that follows the record arrives, or, *)
(* if there is no socket yet, a later one; one that overtakes another or   *)
(* is overtaken takes nothing away (balance_once, _notify_queue_changed,   *)
(* update_p2p_snapshot).                                                   *)
SentTransfersBecomeKnown ==
  \A n \in 1 .. MaxTransfers : sent = n ~> [](belief.sent >= n)
=============================================================================
