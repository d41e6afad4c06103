# A verification project for the fault-tolerant key-value store

One master and four workers, written in Python with threads and TCP sockets,
process 5,000 tasks. The master hands the tasks out; a worker fails each
execution with probability 20 %; failed tasks go to other workers; overloaded
workers move waiting tasks to their peers; and workers may be lost. At the end
the master has stored one value per task. These modules model that program,
TLC checks them on small instances, and TLAPS proves the safety of the Ready
Queue, the master, the transfers, the start and the whole system for every number
of tasks and workers and every capacity.

Line references are to `src/kvstore/...` of the repository, at the commit the
project was written for. `PROJECT.json` maps each definition to its lines.

## 1. Inventory

| Part | State it keeps | Operations | Talks to |
|---|---|---|---|
| Ready Queue `worker/ready_queue.py` | two deques (normal, priority), reservations, ids in use, id being processed; one lock | `try_enqueue`, `try_enqueue_many`, `dequeue_for_processing`, `mark_processing_done`, `peek_transfer_candidates`, `reserve_for_transfer`, `confirm_removed`, `release_reservation` | called by the four threads of a worker |
| Master `master/runtime.py` | task states, attempts, previous and current assignee, normal queue, retry heap, store, per worker: connected, assigned tasks, believed queue size; one condition lock | distribute, send, handle status / success / failure, disconnect, report, terminate | TASK and TERMINATE to the workers, results and statuses from them |
| P2P service `worker/p2p.py` | answers to transfers handled so far | monitor: notice overload, ask peers, reserve, send, settle; server: answer a status request, admit a transfer | one short TCP connection per request, with a five-second timeout |
| Worker runtime `worker/runtime.py` | socket, send lock, shutdown flag | receive TASK / TERMINATE, process, report, send status, stop | master; its queue; its P2P service |
| Statistics `common/stats.py` | counters and names of events already counted | record success / failure / overflow / reallocation / transfer, snapshots, report | called by all threads |
| Registration `master/runtime.py` | listener, connections by id | accept, register, acknowledge or refuse, start, TERMINATE, stop | the workers, before anything else |
| Launcher `worker/launcher.py` | four runtimes, their threads, the errors | start, join, stop all after an error | `run` and `stop` of the runtimes |
| Framing `common/protocol.py`, clock `common/clock.py` | bytes received so far; a virtual time | encode, send, receive exactly; advance, read, observe | every connection; all threads of a process share one clock |
| Messages, logging, configuration, stub, smoke client | - | see `PROJECT.json` | - |

**What is hard.** In the order of how much it can cost:

* *Ownership of a task is spread over two kinds of node.* The master knows one
  assignee; a transfer moves the task without telling the master. The result
  carries `assignment_worker_id`, so that it is still accepted, but a lost
  worker and an ignored duplicate break the chain.
* *Nothing is held over a send.* The master sends outside the section that
  assigned; a worker reports before its queue gives the task up; the transfer
  thread releases the queue's lock between peek, reserve, send and settle.
* *Timeouts without cancellation.* A requester that gives up puts its tasks
  back; the peer may have accepted them or may accept them later.
* *Bounded queues filled from two sides*, on sizes that were read earlier.
* *Snapshots sent late.* Sizes and totals are read before the send lock is
  taken, so that statuses overtake each other.
* *Start and stop cross.* One failing worker stops the others, whatever step of
  their start they are in, the start of their P2P threads included; a worker gives
  up its registration while the master is entering it.
* *Retries.* A task goes round until it succeeds, never to the worker that
  failed last, in a queue served before the new tasks.

**What makes each part correct.**

* Ready Queue: a task is held once, in one place; the capacity holds through
  every transfer; no reservation outlives its transfer; no id is forgotten
  before the task was processed or handed over; transfers that keep failing keep
  no task in it for ever.
* Master: one worker answers for a task at a time; the queues hold exactly the
  waiting tasks; a result counts once; the store is what was completed; the end
  comes when everything is stored.
* P2P: no task disappears, none is executed twice unless a timeout is to blame,
  and transfers are always settled.
* Reports: a quiet worker's size is known unless two statuses overtook each
  other or one could not be sent; every transfer sent becomes known and stays so.
* Registration and launch: the distribution starts with as many acknowledged
  workers as are expected, each of which stays the one under its id; after the
  master's end every `run` returns; a worker that was told to stop stops.
* Framing: messages arrive whole, in order, with increasing times.
* System: a task the master waits for is somewhere it can be answered from;
  every task is stored.

The list of hazards with their lines is in `PROJECT.json`, "hazards", each with
the properties that cover it or the reason why none does yet.

## 2. The modules

```
                TaskLedger (abstract promise of the master)
                     ^ implemented by
   Deployment <- MasterCore <--- Master            (threads of the master)
      ^             ^
      |             +------------- KVStore         (the whole system)
      |                               |
      +-- P2PTransfer <---------------+
      |      ^     +--- P2PNetwork                 (transfers by themselves)
      |      |
   QueueCapacity <- ReadyQueueOps <--- ReadyQueue <--- MCReadyQueue
                                                   (one queue, four threads)

   StatusReports                                   (one worker's threads and its statuses)
   Registration <--- WorkerLaunch                  (the start and the end of everything)
   OrderedLink  <=== Framing                       (one connection; Framing implements it)

   proofs: ReadyQueueOpsProofs <- ReadyQueueProofs
                  ^------------- P2PTransferProofs <- P2PNetworkProofs
                                       ^------------- KVStoreProofs
           MasterCoreProofs <- MasterProofs     MasterCoreProofs <- KVStoreProofs
           WorkerProofs (of WorkerLaunch, StatusReports and Framing)
```

**ReadyQueueOps** is the queue as a record and its methods as operators that
return the record after the call. All methods run under one lock, so an
operator is what another thread can observe. `Size`, like `_size_locked`,
counts the reserved tasks and not the one being processed.

**ReadyQueue** runs one queue under its threads: arrivals from the master (one)
and from peers (a batch), the processor, and the steps of `balance_once`. The
variable `monitor` is the program counter of the transfer thread and its local
variables (candidates still to reserve, tasks reserved). Copies carry a stamp
of their order of arrival, which the code does not have and which only the
properties about order read.

**Deployment** declares the tasks and the workers; **QueueCapacity** the places of a
queue, which a queue by itself needs too.

**MasterCore** holds what the master protects with `_condition` and one action
per critical section: `UpdateStatus`, `RecordSuccess`, `RecordFailure`,
`DisconnectWorker`, `AssignNext`, `PutNextBack`. The retry heap is ordered by an
increasing number, so it is a sequence. The order in which the set of a lost
worker's tasks is iterated is not determined by the code: `Orders` takes every
permutation. Keys are drawn without repetition, so the store is the set of the
tasks whose value it holds.

**Master** adds the threads: the main thread (`main`: distribute, send, record,
report, terminate, closed or failed) and one receiver a worker (`receiver`:
reading, between accepting a result and counting it, exited). The workers are an
environment: any TASK that was sent may be answered, any number of times, by any
worker; a status carries any size; a link is lost at any moment. This is more
than the workers do, so what holds here holds with them. The loop of
`_distribute_tasks` has a second way out, `_stopped` (line 386), which the module
leaves out: only `stop` sets it, and `run` calls `stop` after that loop (line
115); the one other call in the repository is a test that cleans up.

**TaskLedger** is what the master promises: each task is with nobody, with one
worker, or stored; it is never given again to the worker that last gave it
back; what is stored stays stored. `Master` implements it with
`holder <- Holder` (the assignee of an assigned task),
`gaveBack <- previousWorker` and `stored <- store`.

**P2PTransfer** is the P2P service of all workers, on the queues of
ReadyQueueOps: the monitor's `NoticeOverload`, `AskPeer` (one peer at a time, the
answer is never looked at again), `ChoosePeer`, `ReserveNext`, `SendTransfer`,
`ReadAnswer`, `GiveUp`, `SettleNext`, and the server's `Serve`. A request waits in
the server's backlog; a requester that gives up may leave it there. Copies carry
the assignee (`by`), as `Task.assignment_worker_id` does.

**P2PNetwork** drives the transfers without a master: each task arrives once.
`ServeRepeated` delivers a request once more.

**KVStore** composes MasterCore, P2PTransfer and the worker's receiver and
processor over links that deliver in order until they are lost. `dropped` and
`stranded` are history variables: tasks whose TASK was ignored as a duplicate,
and tasks that were lost with a worker they had been moved to. Nothing reads
them but the properties. QUEUE_STATUS is not queued: `LearnSize` gives the master
any size at any time, which covers statuses that are old, overtaken, skipped or
read after the link was lost. What is needed of them for progress is a hypothesis
of the property that needs it (`SizesKnown`), not of the specification.

**StatusReports** is one worker's four threads, each of which changes the queue,
reads a snapshot (`ReadSnapshot`) and sends it when it gets the send lock
(`SendStatus`), and the master that reads them in the order of the link. A
snapshot that was read and not sent waits in `waiting`; a status that is sent
after a newer one is marked `overtaken`, which only the properties read. The P2P
threads run before the worker is registered: until `LinkUp` a status is left out
(`SkipStatus`). `AdmitBatch` has two ends, one with a status and one for an ACK that
cannot be written, after which none follows. Both silent paths set the history
variable `unreported`. `balance_once` is in steps: the overload check, the asking
of the peers, which may find nothing, and the reservation of what is there by then.
Tasks are counted and not named. Of the four totals in a status the module has the
one of transfers sent (the one of tasks sent is raised and merged with it). The
totals received are left out: in the launcher's process the *sender's* thread raises
them, in a collector that all the workers share, without a status of the receiver.

**Registration** is the master's main thread from the listener to `stop`:
`Accept`, `Register`, `Acknowledge` (a failed ACK undoes the entry through
`Reject`), `StartDistribution`, `SendTerminate`, `Stop`. `Register` may refuse any
connection: its id is taken, or its REGISTER was lost or did not come in time.
Connections are named by the worker process that opened them; a *stray* is a process
started by hand under any id, that of another worker or one of its own: the master
counts entries and does not look at their names.

**WorkerLaunch** adds the worker processes: `main` is the program counter of
each `run` inside the launcher's thread, `receiver` and `processor` its two
threads. The P2P service starts in steps, since each of its threads is assigned
before it is started (`BindPort`, `StartP2P`). `stopping` is the `stop` that the
thread of a `run` executes: for its own worker (the `finally` block does the same),
or in `stop_all` for each worker in turn. Its steps are those of the code: the flag,
the look at the listener, its close, the joins, the socket (`SetFlag`,
`LookForListener`, `CloseListener`, `JoinP2P`, `ShutSocket`). `StopRaises` is the
exception of a join of a thread that is not started, or of a listener that another
`stop` has cleared since the look at it; in `stop_all` it leaves out the runtimes that
follow ("cut short"). `stop` called by a worker's receiver or processor is one step:
the service is started by then, the socket assigned and broken already. Strays are an
environment: they are not the launcher's, nobody stops them, and the others see of a
stray's run the beginning and the end of its connection only (`StrayEnds`).

**Framing** is one direction of a connection: two sending threads under the send
lock, an environment that moves the shared clock, a wire that takes and gives
bytes in pieces and breaks anywhere, and the `_recv_exact` loop. A byte is known
by its message and its place in the frame; a header or a payload that is not made
of one frame's bytes makes `receive_message` raise. **OrderedLink** is what the
other modules assume of a connection; Framing implements it with
`over <- reader = "raised"`.

Mutants stand beside the definition they mutate, with a comment that says what
bug they are; the models do not use them.

## 3. The runs

| Run | Question | Bounds |
|---|---|---|
| `queue` | the queue's invariants with four threads; does every admitted task leave? | 4 tasks, 4 arrivals, capacity 3, transfers of 1 or 2 |
| `queue_order` (violation) | are the tasks processed in order? | the same |
| `master_safety` | all of the master's invariants, `RetriesFirst`, the refinement of TaskLedger | 2 tasks, 2 workers, capacity 1, one failure a task, one overflow, one lost link |
| `p2p` | capacity, no disappearance, executions against timeouts, settled transfers | 2 workers with one place, 3 tasks, 2 transfers, 1 timeout, 1 repeated request |
| `reports` | what does the master know of a worker's queue and transfers? | capacity 2, 1 task, 1 transfer, 2 batches from peers, 1 unread status |
| `launch` | whom does the master know, and which runs end? | 2 workers of a launcher, 1 stray with the id of one |
| `framing` | do frames arrive whole, in order, with increasing times? | 2 threads, 3 messages of 1 or 2 bytes, headers of 2, time up to 4 |
| `kv_safety` | types, capacities, how can a task be lost? | 2 tasks, 2 workers, capacity 1, 1 transfer, 1 timeout, 1 lost link |
| `kv_complete` | where can a task be executed, how can one be lost, and is every other one stored, if the sizes become known? | 2 tasks, 2 workers, capacity 1, 1 transfer, 1 failure, 1 timeout |
| `kv_duplicate`, `kv_stranded` (violations) | is no task ever lost? | 2 tasks, 1 transfer; a failure, or a lost link |
| `kv_stuck` (violation) | is every task stored by the worker that is left? | 2 tasks, 1 failure, 1 lost link |

**Why the bounds are enough.** The program's numbers (capacity 10, overload
above 7, transfers of 1 to 3) only matter through their order: a queue must be
able to be below the overload mark, above it, and full, and a transfer must be
able to take one task and more than one. The queue run has four tasks for three
places, so that a task may find the queue full because of a reservation; the
master run has two tasks for two workers with one place each, so that a full
worker, an excluded one and a lost one all make `PutNextBack` happen, and two
workers are enough for a result to come from somebody else than the assignee;
`p2p` has three tasks for two places (tasks arrive in the order of their
numbers, which loses nothing, since they differ in nothing else), so that the
room a requester was told of may be gone when the transfer arrives, and both
workers may wait for each other; transfers of more than one task happen only in
`queue`; the runs of the whole system have one place a worker (and are
overloaded by one waiting task), so that a TASK may find the place taken by a
transfer and come back as an overflow. In the whole system the sizes the master
believes take any value at any time. `kv_safety` puts a timeout and a lost link
together, `kv_complete` a timeout and a failure, `kv_stuck` a failure and a lost
link; the three at once are too many states for TLC and are left to the
theorems. In `reports` the task fills the queue beside a batch, so that a
transfer starts, and a second batch may fill the place it leaves; the receiver,
the processor, the monitor and the server hold snapshots at the same time. In
`launch` a failing worker meets the other in each step of its start and its
work, and a stray meets both the registration of its namesake and its absence;
strays with ids of their own are covered by the theorems only. In `framing`
every header and payload can be cut in two, and a third message shows that the
second left the stream in order. The bounds on failures, overflows, transfers,
timeouts, repeats and lost links (`MaxAttempts`, `MaxFailures`, `MaxOverflows`,
`MaxTransfers`, `MaxTimeouts`, `MaxRepeats`, `MaxLostLinks`, `MaxArrivals`,
`MaxTasks`, `MaxBatches`, `MaxUnread`, `MaxMessages`, `MaxClock`) are in guards
and make the state space finite: the program has no such limits. `TaskCount`,
`WorkerCount` and `Capacity` are the program's own parameters.

`CHECK_DEADLOCK FALSE` is set because the program ends, and because the bounds
make the environment of the queue and of the reports fall silent.

**What the passing runs show beside their names.** `SizeKnownWhenQuiet` admits
three exceptions, and the run without any one of them fails. Two threads of a
worker read their snapshots in one order and send them in the other, and the
master keeps the older size. The ACK of a batch cannot be written, and the
handler ends with the tasks admitted and nothing told. Or the batch comes before
the worker has its socket. In each case the master is wrong until the worker's
next status, which no timer sends. Totals suffer less, since they are merged by
maximum: what was recorded becomes known and stays known
(`SentTransfersBecomeKnown`), as long as the link is up. It says nothing of the
end of the run, when the last status races TERMINATE and the report.
`StartsWithConfirmed` is about acknowledgements *sent*: a worker that gives up
after five seconds while the master is entering it, or that dies after its ACK,
keeps its id until the run ends, and `_accept_workers`, which has no time limit,
may wait for ever for a last worker that was refused. The launch contains these
states; its liveness properties speak of the launcher's own workers only.
`StoppedWorkersEnd` is about the workers that were told to stop. That one
failure stops all the others is not stated, for the code does not do it: a
`stop_all` that meets a worker between the assignment and the start of a P2P
thread raises (`p2p.py:85` out of `launcher.py:79-82`), and the runtimes behind
that one are never told. With two workers nobody is left behind, since the flag
of the one it meets is set already. `AcceptedResultsCounted` is about the
counters, not about the final report: a success is counted after the lock is
released (`master/runtime.py:305`), so the main thread may print the report
before the last one is counted. `EveryTaskLeaves` is checked with the four
copies that arrive: whether a task waits for ever behind newer ones that keep
coming, are put back in front of it or have priority is not examined.
`ReadyQueue` assumes that a transfer leaves at least one of the tasks seen at
the overload check (`MaxTransfer <= Overload`, 3 and 7 in the program): without
it a task could be taken out and put back for ever while the processor finds the
queue empty.

**What the violation runs show.**

* `queue_order`: candidates are taken from the tail of the queue, and when the
  transfer fails they are put back in FRONT of it; the processor then takes the
  newest task while older ones wait.
* `kv_duplicate`: worker A sends a task to B; B accepts, processes and fails it;
  the master assigns it to A, the only worker other than B; A has not read B's
  ACK yet, still holds the id and ignores the TASK; then it reads the ACK and
  forgets the task. The master waits for ever.
* `kv_stranded`: a task moved from A to B is lost with B; the master gives back
  only what is assigned to B.
* `kv_stuck`: the last worker left is the one that failed the task.

`LossesExplained` says that the first two of the losses are all there is: a task
the master waits for is answerable, or its assignee is lost (and it will be given
back), or a TASK for it was ignored as a duplicate, or it went down with a worker
it had been moved to. There is a second way to have a TASK ignored, without any
transfer: a worker reports a failure before its processor calls
`mark_processing_done`, another worker gets the task and fails it too, and it is
back before that call. (`KVStore` with capacity and overload 2, no transfer and
two failures reaches it: `dropped` records both.) `NoDuplicateWork` says that
until a timeout or a lost link no task is in two places where it could be
executed. `StoredUnlessDropped` says that, while the links hold and the sizes become
known, every task is stored except those for which a TASK was ignored. The second
hypothesis (`SizesKnown`) is not true of the code: if "full" is sent after the "empty"
that is newer, a retry whose only eligible worker is the one believed full waits for
ever. The repository's README admits as much of its choice of a worker (line 81).
`EveryTaskStored` has it too, so that `kv_stuck` is about the excluded worker and not
about sizes.

`OnlyReturnedOvertake` says how far the order that `queue_order` misses is kept: a
failed transfer is the only way a task overtakes another in its deque.

**Fairness.** Only weak fairness is used. *Queue*: the processor is a loop with a
bounded wait (`dequeue_for_processing` with a timeout), and each wait of the
monitor ends with an answer or a socket timeout, so that `Monitoring` as a whole
keeps moving. Nothing is assumed about whether the four copies arrive or how
transfers end.

*P2P*: each worker's monitor and server threads keep running; a request is
answered or times out. Only the P2P threads are fair there: the receivers and
processors may stand still. At most one wait may end with a timeout, so at least
one of two crossing transfers is settled by its answer, and in the runs where
the timeout does not happen both are. *System*: the same, with the master's
threads, links that deliver what is on them, and the end of a worker whose link
is lost. No fairness is assumed of failures, lost links or statuses. *Reports*:
the worker gets its socket, its four threads keep running and get the send lock
when they wait for it, and the master reads; nothing is assumed of the tasks and
batches that come. *Launch*: the launcher's threads run and each of their waits
for the master is bounded by a socket timeout, each join of a P2P thread by a
second; nothing is assumed of the master and of strays. The threads take
finitely many steps altogether, so one weak fairness condition on their steps
together says the same as one for each. `SendFails` is not among them: a broken
link ends the receiver anyway. *Framing*: the holder of the send lock goes on,
and so does the receiver.

## 4. The proofs

TLAPS checks them for every `TaskCount` and `WorkerCount` above zero
(`CountsAssumption`), every `Capacity` above zero (`CapacityAssumption`) and every
bound on the faults (`BoundsAssumption`, `P2PAssumption`, `RepeatsAssumption`,
`FaultsAssumption`: natural numbers, and at least one task to a transfer); the queue
by itself for every number of tasks and `0 < MaxTransfer <= Overload`
(`LimitsAssumption`); the launch for every `WorkerCount` above zero and every set of
stray ids (`StartAssumption`); the reports for every capacity and every bound
(`ReportsAssumption`), the frames for every set of senders and every size of header
and frame (`FramingAssumption`). StatusReports and Framing call their specifications
`ReportSpec` and `FrameSpec`, so that WorkerProofs can extend them and WorkerLaunch.

| Module | Theorem | States |
|---|---|---|
| ReadyQueueProofs | `TypesHold` | `Spec => []TypeOK` |
| | `EachTaskHeldOnce` | `Spec => []HeldOnce` |
| | `CapacityHolds` | `Spec => []WithinCapacity` |
| | `ReservationsAreSettled` | `Spec => []NoReservationLeaks` |
| | `OnlyReturnsReorder` | `Spec => []OnlyReturnedOvertake` |
| | `ForgetsOnlyTheSettled` | `Spec => ForgottenOnlyWhenSettled` (an action property) |
| MasterProofs | `TypesHold` | `Spec => []TypeOK`; in particular no believed queue size exceeds the capacity |
| | `AssignmentsAreExclusive` | `Spec => []AssignedToOne` |
| | `QueuesAreExact` | `Spec => []QueuesMatchStates` |
| | `StoreIsExact` | `Spec => []StoreMatchesStates` |
| | `PreviousIsAvoided` | `Spec => []AvoidsPrevious` |
| | `MessagesNameAssignee` | `Spec => []SentToAssignee` |
| | `TerminationIsComplete` | `Spec => []TerminatesWhenAllStored` |
| | `ResultsAreCounted` | `Spec => []AcceptedResultsCounted` |
| | `RetriesGoFirst` | `Spec => RetriesFirst` (an action property) |
| | `MasterImplementsLedger` | `Spec => ImplementsLedger` (refinement of TaskLedger) |
| P2PNetworkProofs | `TypesHold` | `Spec => []TypeOK` |
| | `CapacityHolds` | `Spec => []QueuesWithinCapacity` |
| | `TasksAreNeverNowhere` | `Spec => []NeverNowhere` |
| | `ExtraExecutionsAreTimeouts` | `Spec => []ExtraExecutionsNeedTimeouts` |
| KVStoreProofs | `TypesHold` | `Spec => []TypeOK` |
| | `TasksAreAssignedToOne` | `Spec => []AssignedToOne` |
| | `CapacityHolds` | `Spec => []QueuesWithinCapacity` |
| | `LossesHaveReasons` | `Spec => []LossesExplained` |
| | `NoWorkIsDoubled` | `Spec => []NoDuplicateWork` |
| | `SystemImplementsLedger` | `Spec => ImplementsLedger` (the same refinement, by the whole system) |
| WorkerProofs | `LaunchTypesHold` | `Spec => []TypeOK` of WorkerLaunch |
| | `DistributionStartsConfirmed` | `Spec => []StartsWithConfirmed` |
| | `ConfirmedWorkersStay` | `Spec => []ConfirmedStaysRegistered` |
| | `ReportTypesHold` | `ReportSpec => []ReportTypeOK` |
| | `QuietSizesAreKnown` | `ReportSpec => []SizeKnownWhenQuiet` |
| | `FramingTypesHold` | `FrameSpec => []FrameTypeOK`; the reader never has more bytes than it asked for |
| | `ReceivedClocksIncrease` | `FrameSpec => []ClocksIncrease` |
| | `FramesAreMessages` | `FrameSpec => Link!Init /\ [][Link!Next]_(Link!vars)`: Framing implements OrderedLink, fairness aside |

**The queue.** `ReadyQueueOpsProofs` says of each method what it keeps of any queue:
`SoundQueue` (one place a task, and the ids in use are exactly those of the tasks
held) and the size. `ReadyQueueProofs` adds what the transfer thread knows between its
calls (`MonitorHoldsReserved`: it holds the reserved copies and those only; without
it `confirm_removed` could be called for a task the queue does not reserve) and
`OrderedByArrival`, that arrivals come behind what is there. The three parts of its
`Inv` are kept by every action of every thread.

**The transfers.** `P2PTransferProofs` has the invariant of the service, `P2PInv`,
and a lemma for each of its steps; it also shows what another thread of the worker
may do to the queue in between (`OtherQueueChange`). The part that a reader may not
expect is `AwaitedRequestsMatch`: a request that is still awaited lies at the peer
that was asked, *comes from the worker that awaits it* and carries the copies it
still holds. Without the middle part the invariant is not inductive: the answer of a
request that only has the same number would be taken for one's own. `AnswersMatch`
says that the answer that was read is the one the server noted under that request,
which is how a repeated request gets the first answer again. `P2PNetworkProofs`
counts: a *keeper* of a task is a worker whose queue answers for it, unless the
transfer it is in was accepted; a *stray* is a request nobody awaits and its server
has not handled. Executions, keepers and strays of a task together are at most one
more than the timeouts, and a task that arrived and was not executed has a keeper.
A transfer that is accepted moves the keeper, a timeout makes a stray of the request
while its sender stays the keeper, and a late acceptance makes a keeper of the stray.

**The whole system.** `KVStoreProofs` takes the lemmas of MasterCoreProofs and
P2PTransferProofs for the parts (`Basics`) and follows the copies of a task from
link to queue to peer to result. A copy is *firm* at a worker when its queue holds
it, no peer has accepted it and its result is not sent yet (`Firm`): such a copy stays
until it is answered, accepted or lost with its worker. `LossIsExplained` says
`LossesExplained` of firm copies; it is stronger than the property, which counts a
copy that was accepted or reported already, and that is what makes it inductive: the
copy a worker is about to forget was never what the explanation rested on.
`NoDuplicateWork` needs the places themselves: as long as the system is *quiet* (no
timeout, no lost link) a firm copy, a TASK, a result or the assignment being sent all
belong to the present assignment (`CopiesArePresent`), each copy is in one place of
one worker (`PlacesAreSingle`), every unhandled request is awaited
(`RequestsAreAwaited`), and nothing a peer accepted is put back
(`AcceptedIsConfirmed`). Each step of a quiet system moves one copy, or the copies of
one transfer, from one place to another. A failed task gets a new assignment only
when its result was read, and by then no other place has a copy of it.

**The master.** `CoreInv` is the conjunction of types, `AssignedToOne`,
`QueuesMatchStates`, `StoreMatchesStates` and `AvoidsPrevious`. None of these is
inductive alone: that a task can be appended to the retry queue without being
listed twice needs that an assigned task is in no queue; that a current result
concerns a task nobody else has needs `AssignedToOne`; that `Head` of a queue is a
waiting task needs `QueuesMatchStates`. `MasterCoreProofs` shows, one lemma a
critical section, that each section keeps `CoreInv`, whoever enters it. `Master`
needs one strengthening more: `SendingToAssignee`, that the assignment the main
thread is about to send still names the worker it goes to, because only the main
thread assigns. From it follows `SentToAssignee`, and the two with `TypeOK`,
`CoreInv` and `TerminatesWhenAllStored` form the inductive invariant `Inv`.

`FromFirst`, the loops that skip stale entries, is shown to skip nothing
(`FromFirstIsAll`): under `QueuesMatchStates` there are no stale entries. The
`CHOOSE` of a worker is shown to choose (`ChosenExists`) through the least
element of a set of naturals, lexicographically. For the refinement there is a
lemma a section: `AssignNext` is an `Assign`, `RecordSuccess` a `Store`,
`RecordFailure` a `GiveBack`, `DisconnectWorker` a `Lose`, and the others stutter.

`AcceptedResultsCounted` is inductive beside `Inv`: an accepted result and the state
of the thread that has still to record it change in one section, the counter and that
state in the other. It has a sum over the tasks, which the library defines by
recursion on subsets, and induction over data is out of the prover's reach. The
lemmas on sums (`SumsExist`, `SumAfterIncrement`) do without: a subset for which the
claim fails would make a smallest one, because the sizes are naturals and a set of
naturals has a least element (`LeastNatural`), and without its first element that one
would be smaller. The argument is made for these sums only.

**The launch** needs an invariant about connections that wait: each is in the backlog
once, or being served, or answered (`AnsweredOnce`); without it a connection could
be acknowledged and then be refused, and its entry removed. `EntriesMatchAnswers`
says that entries and ACKs are the same up to the one being sent, so that the number of
entries, which is all the loop looks at (`len(self._workers)`), counts acknowledged
workers, under whatever ids. `ThreadsFollowAck` ties the steps of `run` to the answer
it has read. The types say that a socket exists once `run` has assigned it, and
none before `run` connects: others may execute a worker's `stop` at each of its steps,
and shut what is assigned and no more.

**The reports.** `SizeKnownWhenQuiet` looks at a moment when nothing is on its way, and
the invariant says what holds before. `NewestIsRight` takes the snapshot that was read
last - the last that waits for the send lock, or else the last on its way, or else what
the master believes: unless some thread will read another before it is idle (`Due`), it
has the size of the queue, or else it was overtaken, which its mark says, or a change
was left unreported since (`unreported`). What the
master believes may be larger by the tasks it has assigned and the worker has not
read; a TASK that is refused as an overflow met a full queue, and the master, which
assigns only below the capacity, believes no more than that. `MonitorKnows` says how
far the transfer thread is, which changes the queue in one section and reports in
another; `ReadOnlyWhenLinked`, that no snapshot waits before there is a socket to send
it on.

**The connections.** `StreamIsRight` strings together the bytes that the reader has
got, those on the wire and those the holder of the lock has still to write: this
`Stream` is a piece of the frames of the messages sent (`InFrames`: each byte is
followed by the next of its frame, or the first of the next frame), it starts where
the reader stands (`NextByte`), and as long as the connection is not broken it ends
with the last frame. A step of the reader or of `sendall` moves bytes inside the
stream; `Encode` puts a frame behind it (`FrameAppended`); a break cuts its end off.
When `_recv_exact` has its bytes they are therefore a header or a payload and nothing
else (`FirstBytes`, `GotIsFrame`), so `receive_message` never raises because of
mixed-up frames, and with `ReceivedAsSent` each message read is the next one sent.
`TimesIncrease` says of the clock that a thread that holds the lock and has called
`advance` is ahead of every frame: others may move the clock on between `advance` and
`read`, never back.

**Model-checked only.** Liveness (`EveryTaskLeaves`, `TransfersSettle`,
`SentTransfersBecomeKnown`, `RunsEndWithMaster`, `StoppedWorkersEnd`,
`StoredUnlessDropped`, and the fairness of OrderedLink in `ImplementsLink`): temporal
reasoning with fairness and ENABLED is out of the prover's reach. Every other property
of a passing run is a theorem. `ImplementsLedger` is checked for Master, whose
environment is the wider one, and proved for Master and for the whole system.

## 5. What is not modelled

* JSON, validation of messages (`common/models.py`): range checks on data that the
  program's own senders always satisfy; messages are records.
* Log lines and the choice of those repeated on the console, waiting times, the
  layout of the report, the count of reallocations, the failure names in the
  workers' own statistics: nothing reads them but the report.
* Priorities inside a worker, once a task was moved to a peer: P2PTransfer has the
  demotion to the normal deque, no property is about it.
* The exit by `_stopped` in `_distribute_tasks`: nothing in the program
  calls `stop` while that loop runs.
* The statuses of the end of a run: a worker whose shutdown flag is set sends none, and
  the report does not wait for those on their way.
* The totals of transfers *received* (see StatusReports).
* The registration stub and the smoke client: not part of the running system.
* `LogicalClock.reset`: nothing calls it.
* A link is lost as a whole, with what is on its way to the worker and any
  suffix of what is on its way to the master; half-open connections that last
  for ever are not modelled (the program sets no timeout on them).
* A lost worker does not come back: the master accepts no registration after the
  last expected one.
* What TCP does to unread TERMINATE bytes when `stop` closes the socket at once.

## 6. Plan

Done: all the modules above, with their proofs. Left:

1. Results with the attempt they answer: which execution a stored value is from.
2. Whether a queued task can wait for ever while newer tasks keep arriving.
