--------------------------- MODULE ReadyQueueOps ---------------------------
(***************************************************************************)
(* A worker's Ready Queue as a value, and its methods as operators that    *)
(* return the queue after the call.  Every method of the class runs under  *)
(* the queue's lock, so each is one indivisible operator.  A queue holds   *)
(* copies of tasks: records with at least the task's `id'; whatever else a *)
(* copy carries is the business of the modules that use this one.          *)
(***************************************************************************)
EXTENDS QueueCapacity, Integers, Sequences, FiniteSets, SequencesExt

(***************************************************************************)
(* `normal' and `priority' are the two deques, `reserved' the tasks held   *)
(* for a transfer with the deque they came from, `active' the ids the      *)
(* queue answers for, `processing' the copy the processing thread holds    *)
(* between taking it and reporting it (none or one).                       *)
(***************************************************************************)
EmptyQueue == [normal |-> <<>>, priority |-> <<>>, reserved |-> {},
               active |-> {}, processing |-> {}]

Queues(Copy) ==
  [normal : Seq(Copy), priority : Seq(Copy),
   reserved : SUBSET [copy : Copy, priority : BOOLEAN],
   active : SUBSET {c.id : c \in Copy}, processing : SUBSET Copy]

IdsIn(s)       == {s[i].id : i \in DOMAIN s}
ReservedIds(q) == {r.copy.id : r \in q.reserved}
ProcessingIds(q) == {c.id : c \in q.processing}

\* Mutant of Size: reserved tasks are not counted.
SizeOfDeques(q) == Len(q.normal) + Len(q.priority)

\* What counts against the capacity: not the task being processed.
Size(q) == Len(q.normal) + Len(q.priority) + Cardinality(q.reserved)

\* Mutant of Verdict: a batch is admitted when there is room for one.
VerdictOnFirst(q, batch) ==
  IF IdsIn(batch) \cap q.active # {} THEN "duplicate"
    ELSE IF Size(q) >= Capacity THEN "full" ELSE "accepted"

(* Admission, for one task from the master or a batch from a peer. *)
Verdict(q, batch) ==
  IF IdsIn(batch) \cap q.active # {} \/ Cardinality(IdsIn(batch)) # Len(batch)
    THEN "duplicate"
    ELSE IF Size(q) + Len(batch) > Capacity THEN "full" ELSE "accepted"

\* Mutant of Enqueued: a priority task goes in front of the earlier ones.
EnqueuedInFront(q, batch, priority) ==
  [q EXCEPT !.normal   = IF priority THEN @ ELSE @ \o batch,
            !.priority = IF priority THEN batch \o @ ELSE @,
            !.active   = @ \cup IdsIn(batch)]

Enqueued(q, batch, priority) ==
  [q EXCEPT !.normal   = IF priority THEN @ ELSE @ \o batch,
            !.priority = IF priority THEN @ \o batch ELSE @,
            !.active   = @ \cup IdsIn(batch)]

(* The processing thread: a priority task first, then the oldest normal one. *)
CanDequeue(q) == q.normal # <<>> \/ q.priority # <<>>

Dequeued(q) ==
  IF q.priority # <<>>
    THEN [q EXCEPT !.priority = Tail(@), !.processing = {Head(q.priority)}]
    ELSE [q EXCEPT !.normal = Tail(@), !.processing = {Head(q.normal)}]

\* Mutant of MarkedDone: the id is never given back.
MarkedIdle(q) == [q EXCEPT !.processing = {}]

MarkedDone(q) ==
  [q EXCEPT !.active = @ \ ProcessingIds(q), !.processing = {}]

(***************************************************************************)
(* The transfer thread: candidates from the tail of the normal deque, then *)
(* of the priority one; a reserved task leaves its deque, and comes back   *)
(* to its FRONT when the transfer fails.                                   *)
(***************************************************************************)
LastOf(s, n) == SubSeq(s, IF n < Len(s) THEN Len(s) - n + 1 ELSE 1, Len(s))

Candidates(q, n) ==
  LET tail == LastOf(q.normal, n)
  IN  tail \o LastOf(q.priority, n - Len(tail))

IndexOf(s, id) == CHOOSE i \in DOMAIN s : s[i].id = id
Taken(s, id)   == s[IndexOf(s, id)]
Without(s, id) == RemoveAt(s, IndexOf(s, id))

Reserved(q, id) ==
  IF id \in IdsIn(q.normal)
    THEN [q EXCEPT !.normal = Without(@, id),
                   !.reserved = @ \cup {[copy |-> Taken(q.normal, id), priority |-> FALSE]}]
  ELSE IF id \in IdsIn(q.priority)
    THEN [q EXCEPT !.priority = Without(@, id),
                   !.reserved = @ \cup {[copy |-> Taken(q.priority, id), priority |-> TRUE]}]
  ELSE q

Reservation(q, id) == CHOOSE r \in q.reserved : r.copy.id = id
WithoutReservation(q, id) == [q EXCEPT !.reserved = @ \ {Reservation(q, id)}]

\* Mutant of Released: the id is given back as if the transfer had worked.
ReleasedInactive(q, id) ==
  LET r == Reservation(q, id)
  IN  IF id \notin ReservedIds(q) THEN q
      ELSE [WithoutReservation(q, id) EXCEPT !.normal = <<r.copy>> \o @, !.active = @ \ {id}]

Released(q, id) ==
  LET r == Reservation(q, id)
  IN  IF id \notin ReservedIds(q) THEN q
      ELSE IF r.priority
        THEN [WithoutReservation(q, id) EXCEPT !.priority = <<r.copy>> \o @]
        ELSE [WithoutReservation(q, id) EXCEPT !.normal = <<r.copy>> \o @]

\* Mutant of Confirmed: the reservation is dropped, the id stays taken.
ConfirmedButActive(q, id) ==
  IF id \in ReservedIds(q) THEN WithoutReservation(q, id) ELSE q

Confirmed(q, id) ==
  IF id \in ReservedIds(q)
    THEN [WithoutReservation(q, id) EXCEPT !.active = @ \ {id}]
    ELSE q

-----------------------------------------------------------------------------
Distinct(s) == \A i, j \in DOMAIN s : s[i].id = s[j].id => i = j
Disjoint(A, B) == A \cap B = {}

Waiting(q) == IdsIn(q.normal) \cup IdsIn(q.priority)

\* Each task the queue holds is in one place of it, and its active ids are
\* those of the tasks it holds.
EachHeldOnce(q) ==
  /\ Distinct(q.normal)
  /\ Distinct(q.priority)
  /\ \A r, s \in q.reserved : r.copy.id = s.copy.id => r = s
  /\ \A c, d \in q.processing : c = d
  /\ Disjoint(IdsIn(q.normal), IdsIn(q.priority))
  /\ Disjoint(Waiting(q), ReservedIds(q))
  /\ Disjoint(ProcessingIds(q), Waiting(q) \cup ReservedIds(q))
  /\ q.active = Waiting(q) \cup ReservedIds(q) \cup ProcessingIds(q)
============================================================================
