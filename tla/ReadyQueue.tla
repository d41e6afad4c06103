----------------------------- MODULE ReadyQueue -----------------------------
(***************************************************************************)
(* The Ready Queue of one worker under its four threads:                   *)
(*   receiver   puts tasks sent by the master (try_enqueue);               *)
(*   server     puts batches sent by peers (try_enqueue_many);             *)
(*   processor  takes a task, works on it, reports, marks it done;         *)
(*   monitor    when the queue is overloaded, picks tasks to move, takes   *)
(*              them out of reach of the processor one by one, waits for   *)
(*              the peer's answer, and removes or puts back each of them.  *)
(* Each step is one critical section of the queue's lock; the monitor      *)
(* holds the lock for none of its gaps, so every other thread runs there.  *)
(* A copy is stamped with its order of arrival, so that the order in which *)
(* the deques hold the copies can be stated.                               *)
(***************************************************************************)
EXTENDS ReadyQueueOps

CONSTANTS Tasks,         \* task ids
          Overload,      \* the monitor acts above this size (7 in the program:
                         \*   2 seconds of work a task, more than 15 seconds)
          MaxTransfer,   \* most tasks moved at once (3 in the program)
          MaxArrivals    \* bound on the copies that ever arrive

ASSUME LimitsAssumption ==
  /\ Overload \in Nat
  /\ MaxTransfer \in 1 .. Overload      \* of the tasks seen at the check, one stays
  /\ MaxArrivals \in Nat

VARIABLES queue,         \* the queue
          monitor,       \* what the transfer thread does: its step, the ids it
                         \*   has yet to treat, the copies it has reserved
          arrived,       \* number of copies that arrived, the next stamp
          returned       \* stamps of the copies a failed transfer put back

vars == <<queue, monitor, arrived, returned>>

Stamps == 1 .. MaxArrivals
Copies == [id : Tasks, stamp : Stamps]

Idle == [step |-> "idle", todo |-> <<>>, held |-> <<>>]

Init ==
  /\ queue = EmptyQueue
  /\ monitor = Idle
  /\ arrived = 0
  /\ returned = {}

-----------------------------------------------------------------------------
(* The threads that put and take tasks.                                    *)

Stamped(ids) == [i \in DOMAIN ids |-> [id |-> ids[i], stamp |-> arrived + i]]

Arrive(ids, priority) ==
  LET batch == Stamped(ids)
  IN  /\ arrived + Len(ids) <= MaxArrivals
      /\ arrived' = arrived + Len(ids)
      /\ queue' = IF Verdict(queue, batch) = "accepted"
                    THEN Enqueued(queue, batch, priority) ELSE queue
      /\ UNCHANGED <<monitor, returned>>

TryEnqueue(t, priority) == Arrive(<<t>>, priority)

\* A batch from a peer always joins the normal deque.
TryEnqueueMany(ids) == Arrive(ids, FALSE)

DequeueForProcessing ==
  /\ queue.processing = {}
  /\ CanDequeue(queue)
  /\ queue' = Dequeued(queue)
  /\ UNCHANGED <<monitor, arrived, returned>>

MarkProcessingDone ==
  /\ queue.processing # {}
  /\ queue' = MarkedDone(queue)
  /\ UNCHANGED <<monitor, arrived, returned>>

-----------------------------------------------------------------------------
(* The transfer thread.                                                    *)

\* balance_once sees an overloaded queue and goes to ask the peers for room.
NoticeOverload ==
  /\ monitor.step = "idle"
  /\ Size(queue) > Overload
  /\ monitor' = [Idle EXCEPT !.step = "asking"]
  /\ UNCHANGED <<queue, arrived, returned>>

\* No peer has room, or none answers.
FindNoPeer ==
  /\ monitor.step = "asking"
  /\ monitor' = Idle
  /\ UNCHANGED <<queue, arrived, returned>>

\* A peer has room for n: the candidates are read from the queue as it is now.
PickCandidates(n) ==
  LET picked == Candidates(queue, n)
  IN  /\ monitor.step = "asking"
      /\ monitor' = [step |-> "reserving",
                     todo |-> [i \in DOMAIN picked |-> picked[i].id], held |-> <<>>]
      /\ UNCHANGED <<queue, arrived, returned>>

\* One candidate; the processor may have taken it since it was picked.
ReserveNext ==
  /\ monitor.step = "reserving"
  /\ monitor.todo # <<>>
  /\ LET id == Head(monitor.todo)
         after == Reserved(queue, id)
     IN  /\ queue' = after
         /\ monitor' = [monitor EXCEPT
              !.todo = Tail(@),
              !.held = IF id \in IdsIn(queue.normal) \cup IdsIn(queue.priority)
                         THEN Append(@, Reservation(after, id).copy) ELSE @]
  /\ UNCHANGED <<arrived, returned>>

\* Mutant of SendTransfer: a transfer of nothing is sent.
SendTransferAnyway ==
  /\ monitor.step = "reserving"
  /\ monitor.todo = <<>>
  /\ monitor' = [monitor EXCEPT !.step = "waiting"]
  /\ UNCHANGED <<queue, arrived, returned>>

SendTransfer ==
  /\ monitor.step = "reserving"
  /\ monitor.todo = <<>>
  /\ monitor' = IF monitor.held = <<>> THEN Idle ELSE [monitor EXCEPT !.step = "waiting"]
  /\ UNCHANGED <<queue, arrived, returned>>

\* Mutant of TransferAnswered: a refusal is taken for the end of the matter.
TransferAnsweredLeaking(accepted) ==
  /\ monitor.step = "waiting"
  /\ monitor' = IF accepted THEN [monitor EXCEPT !.step = "confirming"] ELSE Idle
  /\ UNCHANGED <<queue, arrived, returned>>

\* The peer's ACK, or its refusal, a lost connection, five seconds of silence.
TransferAnswered(accepted) ==
  /\ monitor.step = "waiting"
  /\ monitor' = [monitor EXCEPT !.step = IF accepted THEN "confirming" ELSE "releasing"]
  /\ UNCHANGED <<queue, arrived, returned>>

SettleNext ==
  /\ monitor.step \in {"confirming", "releasing"}
  /\ LET c == Head(monitor.held)
     IN  IF monitor.step = "confirming"
           THEN queue' = Confirmed(queue, c.id) /\ UNCHANGED returned
           ELSE queue' = Released(queue, c.id) /\ returned' = returned \cup {c.stamp}
  /\ monitor' = IF Len(monitor.held) = 1 THEN Idle ELSE [monitor EXCEPT !.held = Tail(@)]
  /\ UNCHANGED arrived

-----------------------------------------------------------------------------
Next ==
  \/ \E t \in Tasks, priority \in BOOLEAN : TryEnqueue(t, priority)
  \/ \E n \in 1 .. MaxTransfer : \E ids \in [1 .. n -> Tasks] : TryEnqueueMany(ids)
  \/ DequeueForProcessing
  \/ MarkProcessingDone
  \/ NoticeOverload
  \/ FindNoPeer
  \/ \E n \in 1 .. MaxTransfer : PickCandidates(n)
  \/ ReserveNext
  \/ SendTransfer
  \/ \E accepted \in BOOLEAN : TransferAnswered(accepted)
  \/ SettleNext

Monitoring ==
  \/ NoticeOverload
  \/ FindNoPeer
  \/ \E n \in 1 .. MaxTransfer : PickCandidates(n)
  \/ ReserveNext
  \/ SendTransfer
  \/ \E accepted \in BOOLEAN : TransferAnswered(accepted)
  \/ SettleNext

Spec == Init /\ [][Next]_vars

\* The processing thread keeps running, and every wait of the monitor is
\* bounded by a socket timeout.
FairSpec ==
  /\ Spec
  /\ WF_vars(DequeueForProcessing)
  /\ WF_vars(MarkProcessingDone)
  /\ WF_vars(Monitoring)
-----------------------------------------------------------------------------
(* Properties.                                                             *)

MonitorSteps == {"idle", "asking", "reserving", "waiting", "confirming", "releasing"}

(* Types; the monitor never waits for, nor settles, a transfer of nothing  *)
(* (p2p.py:140).                                                           *)
TypeOK ==
  /\ queue \in Queues(Copies)
  /\ monitor \in [step : MonitorSteps, todo : Seq(Tasks), held : Seq(Copies)]
  /\ monitor.step \in {"waiting", "confirming", "releasing"} => monitor.held # <<>>
  /\ arrived \in 0 .. MaxArrivals
  /\ returned \subseteq Stamps

(* The ids the queue refuses as duplicates are exactly those of the tasks  *)
(* it holds, and it holds each in one place only: a task reserved for a    *)
(* peer is out of reach of the processor, one being processed out of reach *)
(* of a transfer, and none is kept without being held nor held without     *)
(* being kept (_active_task_ids against the deques, _reserved and          *)
(* _processing_task_id).                                                   *)
HeldOnce == EachHeldOnce(queue)

(* The capacity holds through every transfer: room left by a reserved task *)
(* is not given away before the answer, so putting the task back never     *)
(* overfills the queue (_size_locked counts _reserved).                    *)
WithinCapacity ==
  Len(queue.normal) + Len(queue.priority) + Cardinality(queue.reserved) <= Capacity

(* A reservation lives exactly as long as the transfer it was made for:    *)
(* when the monitor is done, whatever the answer and whatever ran          *)
(* meanwhile, no task stays reserved (balance_once settles all).           *)
NoReservationLeaks ==
  /\ {r.copy : r \in queue.reserved} = ToSet(monitor.held)
  /\ monitor.step \in {"idle", "asking"} => queue.reserved = {}

(* Each deque is in order of arrival but for the copies that a failed      *)
(* transfer put back: those stand ahead of copies older than they are      *)
(* (release_reservation's appendleft).  It says how far the order that     *)
(* ProcessedInOrder asks for is kept.                                      *)
OnlyReturnedOvertake ==
  \A s \in {queue.normal, queue.priority} : \A i, j \in DOMAIN s :
    i < j /\ s[j].stamp < s[i].stamp => s[i].stamp \in returned

(* What docs/assignment-requirements.md:110 asks for: a worker processes   *)
(* the tasks of its queue in order, that is, none while an older one waits *)
(* in the same deque.                                                      *)
ProcessedInOrder ==
  [][\A c \in queue'.processing \ queue.processing :
       \A s \in {queue.normal, queue.priority} :
         c \in ToSet(s) => \A i \in DOMAIN s : c.stamp <= s[i].stamp]_vars

(* The queue stops answering for a task only when the processor has        *)
(* finished with it or a peer has acknowledged it: no other step, and no   *)
(* refused transfer, forgets a task.                                       *)
ForgottenOnlyWhenSettled ==
  [][\A id \in queue.active \ queue.active' :
       \/ id \in ProcessingIds(queue)
       \/ monitor.step = "confirming" /\ id = Head(monitor.held).id]_vars

\* The queue lets go of the task, processed or moved, whenever it has it.
Leaves(t) == t \in queue.active ~> t \notin queue.active
=============================================================================
