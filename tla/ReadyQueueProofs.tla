-------------------------- MODULE ReadyQueueProofs --------------------------
(***************************************************************************)
(* The Ready Queue under its threads, for every number of tasks, every     *)
(* capacity and every size of a transfer: what one call keeps of a queue   *)
(* (ReadyQueueOpsProofs), together with what the monitor knows between its *)
(* calls, is kept by every interleaving of the threads.                    *)
(***************************************************************************)
EXTENDS ReadyQueue, ReadyQueueOpsProofs

-----------------------------------------------------------------------------
(* Order of arrival in a deque.                                            *)

\* A copy stands ahead of an older one only if a transfer put it back.
InOrder(s, back) ==
  \A i, j \in DOMAIN s : i < j /\ s[j].stamp < s[i].stamp => s[i].stamp \in back

(* Taking the head keeps the order. *)
LEMMA TailInOrder ==
  ASSUME NEW s \in Seq(Copies), s # <<>>, NEW back, InOrder(s, back)
  PROVE  InOrder(Tail(s), back)
<1> DEFINE r == Tail(s)
<1>1. /\ Len(s) \in Nat \ {0}
      /\ DOMAIN s = 1 .. Len(s) /\ DOMAIN r = 1 .. Len(s) - 1
      /\ \A i \in DOMAIN r : r[i] = s[i + 1]
  BY HeadTailProperties, LenProperties, EmptySeq
<1> HIDE DEF r
<1>2. SUFFICES ASSUME NEW i \in DOMAIN r, NEW j \in DOMAIN r,
                      i < j, r[j].stamp < r[i].stamp
               PROVE  r[i].stamp \in back
  BY DEF r, InOrder
<1>3. /\ i + 1 \in DOMAIN s /\ j + 1 \in DOMAIN s /\ i + 1 < j + 1
      /\ r[i] = s[i + 1] /\ r[j] = s[j + 1]
  BY <1>1, <1>2
<1>4. QED
  BY <1>2, <1>3 DEF InOrder

(* Taking a copy out from anywhere keeps the order. *)
LEMMA WithoutInOrder ==
  ASSUME NEW s \in Seq(Copies), NEW id \in IdsIn(s), NEW back, InOrder(s, back)
  PROVE  InOrder(Without(s, id), back)
<1> DEFINE r == Without(s, id)
           k == IndexOf(s, id)
           at(i) == IF i < k THEN i ELSE i + 1
<1>1. /\ k \in DOMAIN s
      /\ r \in Seq(Copies) /\ Len(r) = Len(s) - 1
      /\ \A i \in DOMAIN r : r[i] = s[IF i < k THEN i ELSE i + 1]
  BY WithoutElements
<1> HIDE DEF r, k
<1>2. Len(s) \in Nat /\ DOMAIN s = 1 .. Len(s) /\ DOMAIN r = 1 .. Len(s) - 1
  BY <1>1, LenProperties
<1>3. SUFFICES ASSUME NEW i \in DOMAIN r, NEW j \in DOMAIN r,
                      i < j, r[j].stamp < r[i].stamp
               PROVE  r[i].stamp \in back
  BY DEF r, InOrder
<1>4. at(i) \in DOMAIN s /\ at(j) \in DOMAIN s /\ at(i) < at(j)
  BY <1>1, <1>2, <1>3
<1>5. r[i] = s[at(i)] /\ r[j] = s[at(j)]
  BY <1>1
<1> HIDE DEF at
<1>6. QED
  BY <1>3, <1>4, <1>5 DEF InOrder

(* The stamps of a deque. *)
LEMMA StampsAreNumbers ==
  ASSUME NEW s \in Seq(Copies), NEW k \in DOMAIN s
  PROVE  s[k] \in Copies /\ s[k].stamp \in Stamps /\ s[k].stamp \in Nat
<1>1. s[k] \in Copies
  BY ElementOfSeq, LenProperties
<1>2. s[k].stamp \in Stamps
  BY <1>1 DEF Copies
<1>3. QED
  BY <1>1, <1>2, LimitsAssumption DEF Stamps

(* New arrivals, in order, at the end of a deque. *)
LEMMA ArrivalsInOrder ==
  ASSUME NEW s \in Seq(Copies), NEW t \in Seq(Copies), NEW back, InOrder(s, back),
         NEW n \in Nat,
         \A i \in DOMAIN s : s[i].stamp <= n,
         \A i \in DOMAIN t : t[i].stamp = n + i
  PROVE  InOrder(s \o t, back)
<1> DEFINE c == s \o t
<1>1. /\ Len(s) \in Nat /\ Len(t) \in Nat
      /\ DOMAIN s = 1 .. Len(s) /\ DOMAIN t = 1 .. Len(t)
      /\ DOMAIN c = 1 .. Len(s) + Len(t)
      /\ \A i \in 1 .. Len(s) + Len(t) : c[i] = IF i <= Len(s) THEN s[i] ELSE t[i - Len(s)]
  BY ConcatProperties, LenProperties
<1> HIDE DEF c
<1>2. SUFFICES ASSUME NEW i \in DOMAIN c, NEW j \in DOMAIN c,
                      i < j, c[j].stamp < c[i].stamp
               PROVE  c[i].stamp \in back
  BY DEF c, InOrder
<1>3. \A k \in DOMAIN s : s[k].stamp \in Nat
  BY <1>1, StampsAreNumbers
<1>4. CASE j <= Len(s)
  <2>1. i \in DOMAIN s /\ j \in DOMAIN s /\ c[i] = s[i] /\ c[j] = s[j]
    BY <1>1, <1>2, <1>4
  <2>2. QED
    BY <1>2, <2>1 DEF InOrder
<1>5. CASE i <= Len(s) /\ ~ (j <= Len(s))
  <2>1. i \in DOMAIN s /\ j - Len(s) \in DOMAIN t /\ c[i] = s[i] /\ c[j] = t[j - Len(s)]
    BY <1>1, <1>2, <1>5
  <2>2. c[i].stamp <= n /\ c[j].stamp = n + (j - Len(s)) /\ c[i].stamp \in Nat
    BY <1>3, <2>1
  <2>3. QED
    BY <1>1, <1>2, <1>5, <2>2
<1>6. CASE ~ (i <= Len(s)) /\ ~ (j <= Len(s))
  <2>1. /\ i - Len(s) \in DOMAIN t /\ j - Len(s) \in DOMAIN t
        /\ c[i] = t[i - Len(s)] /\ c[j] = t[j - Len(s)]
    BY <1>1, <1>2, <1>6
  <2>2. c[i].stamp = n + (i - Len(s)) /\ c[j].stamp = n + (j - Len(s))
    BY <2>1
  <2>3. QED
    BY <1>1, <1>2, <2>2
<1>7. QED
  BY <1>1, <1>2, <1>4, <1>5, <1>6

(* A copy that a transfer put back, in front of a deque. *)
LEMMA ReturnedInOrder ==
  ASSUME NEW s \in Seq(Copies), NEW c \in Copies, NEW back, InOrder(s, back)
  PROVE  InOrder(<<c>> \o s, back \cup {c.stamp})
<1> DEFINE u == <<c>>
           r == u \o s
<1>1. u \in Seq(Copies) /\ Len(u) = 1 /\ u[1] = c
  OBVIOUS
<1> HIDE DEF u
<1>2. /\ Len(s) \in Nat
      /\ DOMAIN s = 1 .. Len(s) /\ DOMAIN r = 1 .. 1 + Len(s)
      /\ \A i \in 1 .. 1 + Len(s) : r[i] = IF i <= 1 THEN u[i] ELSE s[i - 1]
  <2>1. Len(s) \in Nat /\ DOMAIN s = 1 .. Len(s)
    BY LenProperties
  <2>2. /\ r \in Seq(Copies) /\ Len(r) = Len(u) + Len(s)
        /\ \A i \in 1 .. Len(u) + Len(s) : r[i] = IF i <= Len(u) THEN u[i] ELSE s[i - Len(u)]
    BY <1>1, ConcatProperties
  <2> HIDE DEF r
  <2>3. DOMAIN r = 1 .. Len(r)
    BY <2>2, LenProperties
  <2>4. QED
    BY <1>1, <2>1, <2>2, <2>3
<1> HIDE DEF r
<1>3. SUFFICES ASSUME NEW i \in DOMAIN r, NEW j \in DOMAIN r,
                      i < j, r[j].stamp < r[i].stamp
               PROVE  r[i].stamp \in back \cup {c.stamp}
  BY DEF r, u, InOrder
<1>4. CASE i = 1
  BY <1>1, <1>2, <1>4
<1>5. CASE i # 1
  <2>1. /\ i - 1 \in DOMAIN s /\ j - 1 \in DOMAIN s /\ i - 1 < j - 1
        /\ r[i] = s[i - 1] /\ r[j] = s[j - 1]
    BY <1>2, <1>3, <1>5
  <2>2. QED
    BY <1>3, <2>1 DEF InOrder
<1>6. QED
  BY <1>4, <1>5

-----------------------------------------------------------------------------
(***************************************************************************)
(* The inductive invariant.  The runs' invariants are not inductive by     *)
(* themselves: a release puts back a copy the monitor holds, so the        *)
(* monitor's copies must be exactly the reserved ones, each held once; and *)
(* a new arrival stays behind the older ones only because its stamp is     *)
(* above that of every copy the queue holds.                               *)
(***************************************************************************)
QueueIsSafe ==
  /\ SoundQueue(Copies, queue)
  /\ Size(queue) <= Capacity

MonitorHoldsReserved ==
  /\ monitor \in [step : MonitorSteps, todo : Seq(Tasks), held : Seq(Copies)]
  /\ monitor.step \in {"waiting", "confirming", "releasing"} => monitor.held # <<>>
  /\ monitor.step \in {"idle", "asking"} => monitor.held = <<>>
  /\ HoldsReserved(monitor.held, queue)

OrderedByArrival ==
  /\ arrived \in 0 .. MaxArrivals
  /\ returned \subseteq Stamps
  /\ \A c \in KeptCopies(queue) : c.stamp <= arrived
  /\ InOrder(queue.normal, returned)
  /\ InOrder(queue.priority, returned)

Inv == QueueIsSafe /\ MonitorHoldsReserved /\ OrderedByArrival

-----------------------------------------------------------------------------
(* The deques after each call that changes them.                           *)

(* More copies put back forgive more. *)
LEMMA MoreReturned ==
  ASSUME NEW s, NEW back, NEW more, back \subseteq more, InOrder(s, back)
  PROVE  InOrder(s, more)
BY DEF InOrder

LEMMA KeptAreCopies ==
  ASSUME NEW q, SoundQueue(Copies, q), NEW c \in KeptCopies(q)
  PROVE  c \in Copies
<1>1. /\ q.normal \in Seq(Copies) /\ q.priority \in Seq(Copies)
      /\ q.reserved \subseteq [copy : Copies, priority : BOOLEAN]
      /\ q.processing \subseteq Copies
  BY DEF SoundQueue, Queues
<1>2. ToSet(q.normal) \subseteq Copies /\ ToSet(q.priority) \subseteq Copies
  BY <1>1, StampsAreNumbers DEF ToSet
<1>3. QED
  BY <1>1, <1>2 DEF KeptCopies

LEMMA EnqueuedDeques ==
  ASSUME NEW q \in Queues(Copies), NEW batch, NEW priority \in BOOLEAN
  PROVE  LET r == Enqueued(q, batch, priority)
         IN  /\ r.normal = IF priority THEN q.normal ELSE q.normal \o batch
             /\ r.priority = IF priority THEN q.priority \o batch ELSE q.priority
BY DEF Enqueued, Queues

LEMMA DequeuedDeques ==
  ASSUME NEW q \in Queues(Copies)
  PROVE  LET r == Dequeued(q)
         IN  /\ r.normal = IF q.priority # <<>> THEN q.normal ELSE Tail(q.normal)
             /\ r.priority = IF q.priority # <<>> THEN Tail(q.priority) ELSE q.priority
BY DEF Dequeued, Queues

LEMMA MarkedDoneDeques ==
  ASSUME NEW q \in Queues(Copies)
  PROVE  MarkedDone(q).normal = q.normal /\ MarkedDone(q).priority = q.priority
BY DEF MarkedDone, Queues

LEMMA ReservedDeques ==
  ASSUME NEW q \in Queues(Copies), NEW id \in Waiting(q)
  PROVE  LET r == Reserved(q, id)
         IN  /\ r.normal = IF id \in IdsIn(q.normal) THEN Without(q.normal, id) ELSE q.normal
             /\ r.priority = IF id \in IdsIn(q.normal) THEN q.priority
                             ELSE Without(q.priority, id)
BY DEF Reserved, Queues, Waiting

LEMMA ConfirmedDeques ==
  ASSUME NEW q \in Queues(Copies), NEW id
  PROVE  Confirmed(q, id).normal = q.normal /\ Confirmed(q, id).priority = q.priority
BY DEF Confirmed, WithoutReservation, Queues

-----------------------------------------------------------------------------
(* The first state, and the steps of the threads that put and take tasks.  *)

(* The monitor's knowledge does not depend on the rest of the queue. *)
LEMMA MonitorKeepsHolding ==
  ASSUME MonitorHoldsReserved, monitor' = monitor, queue'.reserved = queue.reserved
  PROVE  MonitorHoldsReserved'
BY DEF MonitorHoldsReserved, HoldsReserved

LEMMA InitInv == Init => Inv
<1>1. SUFFICES ASSUME Init PROVE Inv
  OBVIOUS
<1>2. SoundQueue(Copies, queue) /\ KeptCopies(queue) = {} /\ Size(queue) = 0
  BY <1>1, EmptyQueueIsSound DEF Init
<1>3. QueueIsSafe
  BY <1>2, CapacityAssumption DEF QueueIsSafe
<1>4. queue.normal = <<>> /\ queue.priority = <<>> /\ queue.reserved = {}
  BY <1>1 DEF Init, EmptyQueue
<1>5. monitor = [step |-> "idle", todo |-> <<>>, held |-> <<>>]
  BY <1>1 DEF Init, Idle
<1>6. <<>> \in Seq(Tasks) /\ <<>> \in Seq(Copies) /\ DOMAIN <<>> = {}
  BY EmptySeq
<1>7. Distinct(<<>>) /\ ToSet(<<>>) = {} /\ InOrder(<<>>, {})
  BY <1>6 DEF Distinct, ToSet, InOrder
<1>8. MonitorHoldsReserved
  BY <1>4, <1>5, <1>6, <1>7 DEF MonitorHoldsReserved, HoldsReserved, MonitorSteps
<1>9. OrderedByArrival
  BY <1>1, <1>2, <1>4, <1>7, LimitsAssumption DEF OrderedByArrival, Init
<1>10. QED
  BY <1>3, <1>8, <1>9 DEF Inv

(* A batch is stamped with the next orders of arrival. *)
LEMMA StampedBatch ==
  ASSUME NEW n \in Nat, NEW ids \in [1 .. n -> Tasks], arrived \in Nat,
         arrived + Len(ids) <= MaxArrivals
  PROVE  /\ Len(ids) = n
         /\ Stamped(ids) \in Seq(Copies)
         /\ Len(Stamped(ids)) = n
         /\ \A i \in DOMAIN Stamped(ids) : Stamped(ids)[i].stamp = arrived + i
         /\ \A c \in ToSet(Stamped(ids)) : c.stamp <= arrived + n
<1> DEFINE b == Stamped(ids)
<1>1. Len(ids) = n /\ DOMAIN ids = 1 .. n
  <2>1. ids \in Seq(Tasks) /\ DOMAIN ids = 1 .. n
    OBVIOUS
  <2>2. QED
    BY <2>1, LenProperties
<1>2. b = [i \in 1 .. n |-> [id |-> ids[i], stamp |-> arrived + i]]
  BY <1>1 DEF Stamped
<1> HIDE DEF b
<1>3. ASSUME NEW i \in 1 .. n
      PROVE  b[i] \in Copies /\ b[i].stamp = arrived + i
  <2>1. ids[i] \in Tasks /\ arrived + i \in 1 .. MaxArrivals
    BY <1>1, LimitsAssumption
  <2>2. b[i] = [id |-> ids[i], stamp |-> arrived + i]
    BY <1>2
  <2>3. QED
    BY <2>1, <2>2 DEF Copies, Stamps
<1>4. DOMAIN b = 1 .. n /\ b \in [1 .. n -> Copies]
  BY <1>2, <1>3
<1>5. b \in Seq(Copies) /\ Len(b) = n
  BY <1>4, SeqDef, LenProperties
<1>6. \A c \in ToSet(b) : c.stamp <= arrived + n
  BY <1>3, <1>4 DEF ToSet
<1>7. QED
  BY <1>1, <1>3, <1>4, <1>5, <1>6 DEF b

LEMMA ArriveKeepsInv ==
  ASSUME Inv, NEW n \in Nat, NEW ids \in [1 .. n -> Tasks], NEW priority \in BOOLEAN,
         Arrive(ids, priority)
  PROVE  Inv'
<1> DEFINE batch == Stamped(ids)
<1>1. /\ arrived \in Nat /\ arrived + Len(ids) <= MaxArrivals
      /\ arrived' = arrived + Len(ids)
      /\ queue' = IF Verdict(queue, batch) = "accepted"
                    THEN Enqueued(queue, batch, priority) ELSE queue
      /\ monitor' = monitor /\ returned' = returned
  BY LimitsAssumption DEF Arrive, Inv, OrderedByArrival
<1>2. /\ Len(ids) = n
      /\ batch \in Seq(Copies)
      /\ \A i \in DOMAIN batch : batch[i].stamp = arrived + i
      /\ \A c \in ToSet(batch) : c.stamp <= arrived + n
  BY <1>1, StampedBatch
<1> HIDE DEF batch
<1>3. arrived' \in 0 .. MaxArrivals /\ arrived <= arrived'
  BY <1>1, <1>2, LimitsAssumption
<1>4. ASSUME NEW c \in KeptCopies(queue) PROVE c.stamp <= arrived
  BY DEF Inv, OrderedByArrival
<1>5. SoundQueue(Copies, queue) /\ queue \in Queues(Copies)
  BY DEF Inv, QueueIsSafe, SoundQueue
<1>6. /\ queue.normal \in Seq(Copies) /\ queue.priority \in Seq(Copies)
      /\ InOrder(queue.normal, returned) /\ InOrder(queue.priority, returned)
  BY <1>5 DEF Inv, OrderedByArrival, Queues
<1>7. \A c \in ToSet(queue.normal) \cup ToSet(queue.priority) : c.stamp <= arrived
  BY <1>4 DEF KeptCopies
<1>8. /\ \A i \in DOMAIN queue.normal : queue.normal[i].stamp <= arrived
      /\ \A i \in DOMAIN queue.priority : queue.priority[i].stamp <= arrived
  BY <1>7 DEF ToSet
<1>9. ASSUME NEW c \in KeptCopies(queue) PROVE c.stamp <= arrived'
  <2>1. c \in Copies
    BY <1>5, KeptAreCopies
  <2>2. c.stamp \in Nat
    BY <2>1, LimitsAssumption DEF Copies, Stamps
  <2>3. QED
    BY <1>1, <1>3, <1>4, <2>2
<1>10. CASE Verdict(queue, batch) = "accepted"
  <2> DEFINE r == Enqueued(queue, batch, priority)
  <2>1. /\ SoundQueue(Copies, r) /\ Size(r) <= Capacity
        /\ KeptCopies(r) = KeptCopies(queue) \cup ToSet(batch)
        /\ r.reserved = queue.reserved
    BY <1>2, <1>5, <1>10, EnqueuedQueue
  <2>2. /\ r.normal = IF priority THEN queue.normal ELSE queue.normal \o batch
        /\ r.priority = IF priority THEN queue.priority \o batch ELSE queue.priority
    BY <1>5, EnqueuedDeques
  <2> HIDE DEF r
  <2>3. queue' = r
    BY <1>1, <1>10 DEF r
  <2>4. QueueIsSafe'
    BY <2>1, <2>3 DEF QueueIsSafe
  <2>5. MonitorHoldsReserved'
    BY <1>1, <2>1, <2>3, MonitorKeepsHolding DEF Inv
  <2>6. InOrder(queue.normal \o batch, returned) /\ InOrder(queue.priority \o batch, returned)
    <3>1. \A i \in DOMAIN batch : batch[i].stamp = arrived + i
      BY <1>2
    <3>2. \A s \in {queue.normal, queue.priority} :
            s \in Seq(Copies) /\ InOrder(s, returned)
      BY <1>6
    <3>3. \A s \in {queue.normal, queue.priority} :
            \A i \in DOMAIN s : s[i].stamp <= arrived
      BY <1>8
    <3>4. ASSUME NEW s \in {queue.normal, queue.priority}
          PROVE  InOrder(s \o batch, returned)
      <4>1. s \in Seq(Copies) /\ InOrder(s, returned)
        BY <3>2
      <4>2. \A i \in DOMAIN s : s[i].stamp <= arrived
        BY <3>3
      <4>3. arrived \in Nat /\ batch \in Seq(Copies)
        BY <1>1, <1>2
      <4>4. QED
        BY ONLY <3>1, <4>1, <4>2, <4>3, ArrivalsInOrder
    <3>5. QED
      BY <3>4
  <2>7. InOrder(r.normal, returned) /\ InOrder(r.priority, returned)
    BY <1>6, <2>2, <2>6
  <2>8. \A c \in KeptCopies(r) : c.stamp <= arrived'
    BY <1>1, <1>2, <2>1, <1>9
  <2>9. OrderedByArrival'
    BY <1>1, <1>3, <2>3, <2>7, <2>8 DEF Inv, OrderedByArrival
  <2>10. QED
    BY <2>4, <2>5, <2>9 DEF Inv
<1>11. CASE Verdict(queue, batch) # "accepted"
  <2>1. queue' = queue
    BY <1>1, <1>11
  <2>2. QueueIsSafe' /\ MonitorHoldsReserved'
    BY <1>1, <2>1, MonitorKeepsHolding DEF Inv, QueueIsSafe
  <2>3. OrderedByArrival'
    BY <1>1, <1>3, <2>1, <1>9 DEF Inv, OrderedByArrival
  <2>4. QED
    BY <2>2, <2>3 DEF Inv
<1>12. QED
  BY <1>10, <1>11

LEMMA DequeueKeepsInv ==
  ASSUME Inv, DequeueForProcessing
  PROVE  Inv'
<1> DEFINE r == Dequeued(queue)
<1>1. /\ queue.processing = {} /\ CanDequeue(queue) /\ queue' = r
      /\ monitor' = monitor /\ arrived' = arrived /\ returned' = returned
  BY DEF DequeueForProcessing
<1>2. /\ SoundQueue(Copies, queue) /\ queue \in Queues(Copies)
      /\ Size(queue) <= Capacity /\ Size(queue) \in Nat
  BY QueueFields DEF Inv, QueueIsSafe, SoundQueue
<1>3. /\ SoundQueue(Copies, r) /\ Size(r) = Size(queue) - 1
      /\ KeptCopies(r) = KeptCopies(queue) /\ r.reserved = queue.reserved
  BY <1>1, <1>2, DequeuedQueue
<1>4. /\ r.normal = IF queue.priority # <<>> THEN queue.normal ELSE Tail(queue.normal)
      /\ r.priority = IF queue.priority # <<>> THEN Tail(queue.priority) ELSE queue.priority
  BY <1>2, DequeuedDeques
<1> HIDE DEF r
<1>5. /\ queue.normal \in Seq(Copies) /\ queue.priority \in Seq(Copies)
      /\ InOrder(queue.normal, returned) /\ InOrder(queue.priority, returned)
  BY <1>2 DEF Inv, OrderedByArrival, Queues
<1>6. queue.normal # <<>> => InOrder(Tail(queue.normal), returned)
  BY <1>5, TailInOrder
<1>7. queue.priority # <<>> => InOrder(Tail(queue.priority), returned)
  BY <1>5, TailInOrder
<1>8. InOrder(r.normal, returned) /\ InOrder(r.priority, returned)
  BY <1>1, <1>4, <1>5, <1>6, <1>7 DEF CanDequeue
<1>9. QueueIsSafe'
  BY <1>1, <1>2, <1>3, CapacityAssumption DEF QueueIsSafe
<1>10. MonitorHoldsReserved'
  BY <1>1, <1>3, MonitorKeepsHolding DEF Inv
<1>11. OrderedByArrival'
  BY <1>1, <1>3, <1>8 DEF Inv, OrderedByArrival
<1>12. QED
  BY <1>9, <1>10, <1>11 DEF Inv

LEMMA MarkDoneKeepsInv ==
  ASSUME Inv, MarkProcessingDone
  PROVE  Inv'
<1> DEFINE r == MarkedDone(queue)
<1>1. /\ queue' = r
      /\ monitor' = monitor /\ arrived' = arrived /\ returned' = returned
  BY DEF MarkProcessingDone
<1>2. /\ SoundQueue(Copies, queue) /\ queue \in Queues(Copies)
      /\ Size(queue) <= Capacity
  BY DEF Inv, QueueIsSafe, SoundQueue
<1>3. /\ SoundQueue(Copies, r) /\ Size(r) = Size(queue)
      /\ KeptCopies(r) = KeptCopies(queue) \ queue.processing
      /\ r.reserved = queue.reserved
  BY <1>2, MarkedDoneQueue
<1>4. r.normal = queue.normal /\ r.priority = queue.priority
  BY <1>2, MarkedDoneDeques
<1> HIDE DEF r
<1>5. QueueIsSafe'
  BY <1>1, <1>2, <1>3 DEF QueueIsSafe
<1>6. MonitorHoldsReserved'
  BY <1>1, <1>3, MonitorKeepsHolding DEF Inv
<1>7. OrderedByArrival'
  BY <1>1, <1>3, <1>4 DEF Inv, OrderedByArrival
<1>8. QED
  BY <1>5, <1>6, <1>7 DEF Inv

-----------------------------------------------------------------------------
(* The steps of the transfer thread.                                       *)

(* A step that leaves the queue alone has only the monitor to answer for. *)
LEMMA QueueUntouched ==
  ASSUME Inv, UNCHANGED <<queue, arrived, returned>>, MonitorHoldsReserved'
  PROVE  Inv'
BY DEF Inv, QueueIsSafe, OrderedByArrival

(* What the monitor knows when it rests. *)
LEMMA IdleHoldsNothing ==
  ASSUME Inv, UNCHANGED queue, monitor.held = <<>>,
         NEW step \in {"idle", "asking", "reserving"}, NEW todo \in Seq(Tasks),
         monitor' = [step |-> step, todo |-> todo, held |-> <<>>]
  PROVE  MonitorHoldsReserved'
<1>1. <<>> \in Seq(Copies)
  BY EmptySeq
<1>2. HoldsReserved(<<>>, queue) /\ queue' = queue
  BY DEF Inv, MonitorHoldsReserved
<1>3. QED
  BY <1>1, <1>2 DEF MonitorHoldsReserved, MonitorSteps

LEMMA NoticeOverloadKeepsInv ==
  ASSUME Inv, NoticeOverload
  PROVE  Inv'
<1>1. monitor.held = <<>> /\ <<>> \in Seq(Tasks)
  BY EmptySeq DEF NoticeOverload, Inv, MonitorHoldsReserved
<1>2. /\ monitor' = [step |-> "asking", todo |-> <<>>, held |-> <<>>]
      /\ UNCHANGED <<queue, arrived, returned>>
  BY DEF NoticeOverload, Idle
<1>3. MonitorHoldsReserved'
  BY <1>1, <1>2, IdleHoldsNothing
<1>4. QED
  BY <1>2, <1>3, QueueUntouched

LEMMA FindNoPeerKeepsInv ==
  ASSUME Inv, FindNoPeer
  PROVE  Inv'
<1>1. monitor.held = <<>> /\ <<>> \in Seq(Tasks)
  BY EmptySeq DEF FindNoPeer, Inv, MonitorHoldsReserved
<1>2. /\ monitor' = [step |-> "idle", todo |-> <<>>, held |-> <<>>]
      /\ UNCHANGED <<queue, arrived, returned>>
  BY DEF FindNoPeer, Idle
<1>3. MonitorHoldsReserved'
  BY <1>1, <1>2, IdleHoldsNothing
<1>4. QED
  BY <1>2, <1>3, QueueUntouched

LEMMA PickCandidatesKeepsInv ==
  ASSUME Inv, NEW n \in Int, PickCandidates(n)
  PROVE  Inv'
<1> DEFINE picked == Candidates(queue, n)
           ids == [i \in DOMAIN picked |-> picked[i].id]
<1>1. /\ monitor.held = <<>>
      /\ monitor' = [step |-> "reserving", todo |-> ids, held |-> <<>>]
      /\ UNCHANGED <<queue, arrived, returned>>
  BY DEF PickCandidates, Inv, MonitorHoldsReserved
<1>2. picked \in Seq(Copies)
  BY CandidatesAreCopies DEF Inv, QueueIsSafe, SoundQueue
<1> HIDE DEF picked
<1>3. \A i \in DOMAIN picked : picked[i].id \in Tasks
  BY <1>2, StampsAreNumbers DEF Copies
<1>4. Len(picked) \in Nat /\ DOMAIN picked = 1 .. Len(picked)
  BY <1>2, LenProperties
<1>5. ids \in [1 .. Len(picked) -> Tasks]
  BY <1>3, <1>4
<1> HIDE DEF ids
<1>6. ids \in Seq(Tasks)
  BY <1>4, <1>5, SeqDef
<1>7. MonitorHoldsReserved'
  BY <1>1, <1>6, IdleHoldsNothing
<1>8. QED
  BY <1>1, <1>7, QueueUntouched

LEMMA SendTransferKeepsInv ==
  ASSUME Inv, SendTransfer
  PROVE  Inv'
<1>1. /\ monitor.step = "reserving"
      /\ monitor' = IF monitor.held = <<>> THEN Idle ELSE [monitor EXCEPT !.step = "waiting"]
      /\ UNCHANGED <<queue, arrived, returned>>
  BY DEF SendTransfer
<1>2. MonitorHoldsReserved'
  <2>1. CASE monitor.held = <<>>
    <3>1. /\ <<>> \in Seq(Tasks)
          /\ monitor' = [step |-> "idle", todo |-> <<>>, held |-> <<>>]
      BY <1>1, <2>1, EmptySeq DEF Idle
    <3>2. QED
      BY <1>1, <2>1, <3>1, IdleHoldsNothing
  <2>2. CASE monitor.held # <<>>
    BY <1>1, <2>2 DEF Inv, MonitorHoldsReserved, MonitorSteps
  <2>3. QED
    BY <2>1, <2>2
<1>3. QED
  BY <1>1, <1>2, QueueUntouched

LEMMA TransferAnsweredKeepsInv ==
  ASSUME Inv, NEW accepted \in BOOLEAN, TransferAnswered(accepted)
  PROVE  Inv'
<1>1. /\ monitor.step = "waiting"
      /\ monitor' = [monitor EXCEPT !.step = IF accepted THEN "confirming" ELSE "releasing"]
      /\ UNCHANGED <<queue, arrived, returned>>
  BY DEF TransferAnswered
<1>2. MonitorHoldsReserved'
  BY <1>1 DEF Inv, MonitorHoldsReserved, MonitorSteps
<1>3. QED
  BY <1>1, <1>2, QueueUntouched

LEMMA ReserveNextKeepsInv ==
  ASSUME Inv, ReserveNext
  PROVE  Inv'
<1> DEFINE id == Head(monitor.todo)
           r == Reserved(queue, id)
           e == Reservation(r, id)
           held == IF id \in Waiting(queue) THEN Append(monitor.held, e.copy) ELSE monitor.held
<1>1. /\ monitor.step = "reserving" /\ monitor.todo # <<>>
      /\ queue' = r
      /\ monitor' = [monitor EXCEPT !.todo = Tail(@), !.held = held]
      /\ UNCHANGED <<arrived, returned>>
  BY DEF ReserveNext, Waiting, Inv, MonitorHoldsReserved
<1>2. /\ SoundQueue(Copies, queue) /\ queue \in Queues(Copies) /\ Size(queue) <= Capacity
  BY DEF Inv, QueueIsSafe, SoundQueue
<1>3. /\ monitor \in [step : MonitorSteps, todo : Seq(Tasks), held : Seq(Copies)]
      /\ monitor.held \in Seq(Copies) /\ HoldsReserved(monitor.held, queue)
  BY DEF Inv, MonitorHoldsReserved
<1>4. Tail(monitor.todo) \in Seq(Tasks)
  BY <1>1, <1>3, HeadTailProperties
<1>5. /\ queue.normal \in Seq(Copies) /\ queue.priority \in Seq(Copies)
      /\ InOrder(queue.normal, returned) /\ InOrder(queue.priority, returned)
  BY <1>2 DEF Inv, OrderedByArrival, Queues
<1> HIDE DEF id
<1>6. CASE id \in Waiting(queue)
  <2>1. /\ SoundQueue(Copies, r) /\ Size(r) = Size(queue)
        /\ KeptCopies(r) = KeptCopies(queue)
    BY <1>2, <1>6, ReservedQueue
  <2>2. /\ r.normal = IF id \in IdsIn(queue.normal) THEN Without(queue.normal, id)
                      ELSE queue.normal
        /\ r.priority = IF id \in IdsIn(queue.normal) THEN queue.priority
                        ELSE Without(queue.priority, id)
    BY <1>2, <1>6, ReservedDeques
  <2>3. held \in Seq(Copies) /\ HoldsReserved(held, r)
    BY <1>2, <1>3, <1>6, ReserveOneMore
  <2> HIDE DEF r, e, held
  <2>4. QueueIsSafe'
    BY <1>1, <1>2, <2>1 DEF QueueIsSafe
  <2>5. monitor' = [step |-> "reserving", todo |-> Tail(monitor.todo), held |-> held]
    BY <1>1, <1>3
  <2>6. MonitorHoldsReserved'
    BY <1>1, <1>4, <2>3, <2>5 DEF MonitorHoldsReserved, MonitorSteps
  <2>7. CASE id \in IdsIn(queue.normal)
    <3>1. InOrder(Without(queue.normal, id), returned)
      BY <1>5, <2>7, WithoutInOrder
    <3>2. QED
      BY <1>1, <1>5, <2>1, <2>2, <2>4, <2>6, <2>7, <3>1 DEF Inv, OrderedByArrival
  <2>8. CASE id \notin IdsIn(queue.normal)
    <3>1. InOrder(Without(queue.priority, id), returned)
      BY <1>5, <1>6, <2>8, WithoutInOrder DEF Waiting
    <3>2. QED
      BY <1>1, <1>5, <2>1, <2>2, <2>4, <2>6, <2>8, <3>1 DEF Inv, OrderedByArrival
  <2>9. QED
    BY <2>7, <2>8
<1>7. CASE id \notin Waiting(queue)
  <2>1. r = queue /\ held = monitor.held
    BY <1>7 DEF Reserved, Waiting
  <2> HIDE DEF r, e, held
  <2>2. /\ UNCHANGED <<queue, arrived, returned>>
        /\ monitor' = [step |-> "reserving", todo |-> Tail(monitor.todo), held |-> monitor.held]
    BY <1>1, <1>3, <2>1
  <2>3. MonitorHoldsReserved'
    BY <1>3, <1>4, <2>2 DEF MonitorHoldsReserved, MonitorSteps
  <2>4. QED
    BY <2>2, <2>3, QueueUntouched
<1>8. QED
  BY <1>6, <1>7

(* The monitor after it settled one copy. *)
LEMMA SettledMonitor ==
  ASSUME Inv, monitor.step \in {"confirming", "releasing"},
         monitor' = IF Len(monitor.held) = 1 THEN Idle
                    ELSE [monitor EXCEPT !.held = Tail(@)],
         queue'.reserved = queue.reserved \ {Reservation(queue, Head(monitor.held).id)}
  PROVE  MonitorHoldsReserved'
<1>1. monitor.held # <<>>
  BY DEF Inv, MonitorHoldsReserved
<1>2. /\ SoundQueue(Copies, queue)
      /\ monitor.held \in Seq(Copies) /\ HoldsReserved(monitor.held, queue)
  BY DEF Inv, MonitorHoldsReserved, QueueIsSafe
<1> DEFINE rest == Tail(monitor.held)
<1>3. /\ rest \in Seq(Copies) /\ HoldsReserved(rest, queue')
      /\ Len(monitor.held) = 1 <=> rest = <<>>
  BY <1>1, <1>2, NextToSettle
<1> HIDE DEF rest
<1>4. CASE rest = <<>>
  <2>1. monitor' = [step |-> "idle", todo |-> <<>>, held |-> rest] /\ <<>> \in Seq(Tasks)
    BY <1>3, <1>4, EmptySeq DEF Idle
  <2>2. monitor' \in [step : MonitorSteps, todo : Seq(Tasks), held : Seq(Copies)]
    BY <1>3, <2>1 DEF MonitorSteps
  <2>3. monitor'.step = "idle" /\ monitor'.held = rest
    BY <2>1
  <2>4. QED
    BY <1>3, <1>4, <2>2, <2>3 DEF MonitorHoldsReserved
<1>5. CASE rest # <<>>
  <2>1. monitor' = [step |-> monitor.step, todo |-> monitor.todo, held |-> rest]
    BY <1>3, <1>5 DEF Inv, MonitorHoldsReserved, rest
  <2>2. monitor.todo \in Seq(Tasks) /\ monitor.step \in MonitorSteps
    BY DEF Inv, MonitorHoldsReserved
  <2>3. monitor' \in [step : MonitorSteps, todo : Seq(Tasks), held : Seq(Copies)]
    <3>1. rest \in Seq(Copies)
      BY <1>3
    <3>2. QED
      BY ONLY <2>1, <2>2, <3>1
  <2>4. monitor'.step \in {"confirming", "releasing"} /\ monitor'.held = rest
    BY <2>1
  <2>5. QED
    BY <1>3, <1>5, <2>3, <2>4 DEF MonitorHoldsReserved
<1>6. QED
  BY <1>4, <1>5

LEMMA SettleNextKeepsInv ==
  ASSUME Inv, SettleNext
  PROVE  Inv'
<1> DEFINE c == Head(monitor.held)
           e == Reservation(queue, c.id)
<1>1. /\ monitor.step \in {"confirming", "releasing"} /\ monitor.held # <<>>
      /\ monitor' = IF Len(monitor.held) = 1 THEN Idle
                    ELSE [monitor EXCEPT !.held = Tail(@)]
      /\ arrived' = arrived
  BY DEF SettleNext, Inv, MonitorHoldsReserved
<1>2. /\ SoundQueue(Copies, queue) /\ queue \in Queues(Copies)
      /\ Size(queue) <= Capacity /\ Size(queue) \in Nat
  BY QueueFields DEF Inv, QueueIsSafe, SoundQueue
<1>3. /\ c \in Copies /\ c.id \in ReservedIds(queue)
      /\ e \in queue.reserved /\ e.copy = c
  BY <1>1, <1>2, NextToSettle DEF Inv, MonitorHoldsReserved
<1>4. /\ queue.normal \in Seq(Copies) /\ queue.priority \in Seq(Copies)
      /\ InOrder(queue.normal, returned) /\ InOrder(queue.priority, returned)
  BY <1>2 DEF Inv, OrderedByArrival, Queues
<1>5. CASE monitor.step = "confirming"
  <2> DEFINE r == Confirmed(queue, c.id)
  <2>1. queue' = r /\ returned' = returned
    BY <1>5 DEF SettleNext
  <2>2. /\ SoundQueue(Copies, r) /\ Size(r) = Size(queue) - 1
        /\ KeptCopies(r) = KeptCopies(queue) \ {e.copy}
        /\ r.reserved = queue.reserved \ {e}
    BY <1>2, <1>3, ConfirmedQueue
  <2>3. r.normal = queue.normal /\ r.priority = queue.priority
    BY <1>2, ConfirmedDeques
  <2> HIDE DEF r
  <2>4. QueueIsSafe'
    BY <1>2, <2>1, <2>2, CapacityAssumption DEF QueueIsSafe
  <2>5. MonitorHoldsReserved'
    BY <1>1, <2>1, <2>2, SettledMonitor
  <2>6. OrderedByArrival'
    BY <1>1, <2>1, <2>2, <2>3 DEF Inv, OrderedByArrival
  <2>7. QED
    BY <2>4, <2>5, <2>6 DEF Inv
<1>6. CASE monitor.step = "releasing"
  <2> DEFINE r == Released(queue, c.id)
  <2>1. queue' = r /\ returned' = returned \cup {c.stamp}
    BY <1>6 DEF SettleNext
  <2>2. /\ SoundQueue(Copies, r) /\ Size(r) = Size(queue)
        /\ KeptCopies(r) = KeptCopies(queue)
        /\ r.reserved = queue.reserved \ {e}
        /\ r.normal = IF e.priority THEN queue.normal ELSE <<e.copy>> \o queue.normal
        /\ r.priority = IF e.priority THEN <<e.copy>> \o queue.priority ELSE queue.priority
    BY <1>2, <1>3, ReleasedQueue
  <2> HIDE DEF r
  <2>3. QueueIsSafe'
    BY <1>2, <2>1, <2>2 DEF QueueIsSafe
  <2>4. MonitorHoldsReserved'
    BY <1>1, <2>1, <2>2, SettledMonitor
  <2>5. /\ InOrder(queue.normal, returned') /\ InOrder(queue.priority, returned')
        /\ InOrder(<<c>> \o queue.normal, returned')
        /\ InOrder(<<c>> \o queue.priority, returned')
    <3>1. returned \subseteq returned'
      BY <2>1
    <3>2. QED
      BY <1>3, <1>4, <2>1, <3>1, MoreReturned, ReturnedInOrder
  <2>6. InOrder(r.normal, returned') /\ InOrder(r.priority, returned')
    BY <1>3, <2>2, <2>5
  <2>7. returned' \subseteq Stamps
    BY <1>3, <2>1 DEF Inv, OrderedByArrival, Copies
  <2>8. OrderedByArrival'
    BY <1>1, <2>1, <2>2, <2>6, <2>7 DEF Inv, OrderedByArrival
  <2>9. QED
    BY <2>3, <2>4, <2>8 DEF Inv
<1>7. QED
  BY <1>1, <1>5, <1>6

-----------------------------------------------------------------------------
(* The results.                                                            *)

LEMMA NextKeepsInv ==
  ASSUME Inv, [Next]_vars
  PROVE  Inv'
<1>1. MaxTransfer \in Nat
  BY LimitsAssumption
<1>2. ASSUME NEW t \in Tasks, NEW priority \in BOOLEAN, TryEnqueue(t, priority)
      PROVE  Inv'
  <2>1. <<t>> \in [1 .. 1 -> Tasks] /\ 1 \in Nat
    OBVIOUS
  <2>2. Arrive(<<t>>, priority)
    BY <1>2 DEF TryEnqueue
  <2>3. QED
    BY ONLY Inv, <2>1, <2>2, ArriveKeepsInv
<1>3. ASSUME NEW n \in 1 .. MaxTransfer, NEW ids \in [1 .. n -> Tasks], TryEnqueueMany(ids)
      PROVE  Inv'
  <2>1. n \in Nat /\ FALSE \in BOOLEAN
    BY <1>1
  <2>2. Arrive(ids, FALSE)
    BY <1>3 DEF TryEnqueueMany
  <2>3. QED
    BY ONLY Inv, ids \in [1 .. n -> Tasks], <2>1, <2>2, ArriveKeepsInv
<1>4. ASSUME NEW n \in 1 .. MaxTransfer, PickCandidates(n)
      PROVE  Inv'
  <2>1. n \in Int
    BY <1>1
  <2>2. QED
    BY <1>4, <2>1, PickCandidatesKeepsInv
<1>5. CASE DequeueForProcessing
  BY <1>5, DequeueKeepsInv
<1>6. CASE MarkProcessingDone
  BY <1>6, MarkDoneKeepsInv
<1>7. CASE NoticeOverload
  BY <1>7, NoticeOverloadKeepsInv
<1>8. CASE FindNoPeer
  BY <1>8, FindNoPeerKeepsInv
<1>9. CASE ReserveNext
  BY <1>9, ReserveNextKeepsInv
<1>10. CASE SendTransfer
  BY <1>10, SendTransferKeepsInv
<1>11. ASSUME NEW accepted \in BOOLEAN, TransferAnswered(accepted)
       PROVE  Inv'
  BY <1>11, TransferAnsweredKeepsInv
<1>12. CASE SettleNext
  BY <1>12, SettleNextKeepsInv
<1>13. CASE UNCHANGED vars
  <2>1. UNCHANGED <<queue, arrived, returned>> /\ monitor' = monitor
    BY <1>13 DEF vars
  <2>2. MonitorHoldsReserved'
    BY <2>1, MonitorKeepsHolding DEF Inv
  <2>3. QED
    BY <2>1, <2>2, QueueUntouched
<1>14. QED
  BY <1>2, <1>3, <1>4, <1>5, <1>6, <1>7, <1>8, <1>9, <1>10, <1>11, <1>12, <1>13 DEF Next

(* The inductive invariant holds whatever the threads do. *)
THEOREM QueueInvariant == Spec => []Inv
<1>1. Init => Inv
  BY InitInv
<1>2. Inv /\ [Next]_vars => Inv'
  BY NextKeepsInv
<1>3. QED
  BY <1>1, <1>2, PTL DEF Spec

(* Types; the monitor never waits for, nor settles, a transfer of nothing. *)
THEOREM TypesHold == Spec => []TypeOK
<1>1. Inv => TypeOK
  BY DEF Inv, TypeOK, QueueIsSafe, SoundQueue, MonitorHoldsReserved, OrderedByArrival
<1>2. QED
  BY <1>1, QueueInvariant, PTL

(* Each task is in one place of the queue, and the ids it refuses are      *)
(* those of the tasks it holds (_active_task_ids).                         *)
THEOREM EachTaskHeldOnce == Spec => []HeldOnce
<1>1. Inv => HeldOnce
  BY DEF Inv, HeldOnce, QueueIsSafe, SoundQueue
<1>2. QED
  BY <1>1, QueueInvariant, PTL

(* No release overfills the queue (_size_locked counts _reserved).         *)
THEOREM CapacityHolds == Spec => []WithinCapacity
<1>1. Inv => WithinCapacity
  BY DEF Inv, WithinCapacity, QueueIsSafe, Size
<1>2. QED
  BY <1>1, QueueInvariant, PTL

(* What is reserved is what the monitor still has to settle (balance_once). *)
THEOREM ReservationsAreSettled == Spec => []NoReservationLeaks
<1>1. ASSUME Inv, monitor.step \in {"idle", "asking"}
      PROVE  queue.reserved = {}
  <2>1. {r.copy : r \in queue.reserved} = ToSet(<<>>)
    BY <1>1 DEF Inv, MonitorHoldsReserved, HoldsReserved
  <2>2. ToSet(<<>>) = {}
    BY DEF ToSet
  <2>3. QED
    BY <2>1, <2>2
<1>2. Inv => NoReservationLeaks
  BY <1>1 DEF Inv, NoReservationLeaks, MonitorHoldsReserved, HoldsReserved
<1>3. QED
  BY <1>2, QueueInvariant, PTL

(* Only a failed transfer lets a copy stand ahead of an older one          *)
(* (release_reservation's appendleft).                                     *)
THEOREM OnlyReturnsReorder == Spec => []OnlyReturnedOvertake
<1>1. Inv => OnlyReturnedOvertake
  BY DEF Inv, OnlyReturnedOvertake, OrderedByArrival, InOrder
<1>2. QED
  BY <1>1, QueueInvariant, PTL

(* The ids the queue answers for after each call. *)
LEMMA ActiveAfterCalls ==
  ASSUME NEW q, SoundQueue(Copies, q)
  PROVE  /\ \A batch, priority : Enqueued(q, batch, priority).active = q.active \cup IdsIn(batch)
         /\ Dequeued(q).active = q.active
         /\ MarkedDone(q).active = q.active \ ProcessingIds(q)
         /\ \A id : Reserved(q, id).active = q.active
         /\ \A id : q.active \ {id} \subseteq Confirmed(q, id).active
         /\ \A id : Released(q, id).active = q.active
<1>1. q \in Queues(Copies)
  BY DEF SoundQueue
<1>2. ASSUME NEW batch, NEW priority
      PROVE  Enqueued(q, batch, priority).active = q.active \cup IdsIn(batch)
  BY <1>1 DEF Enqueued, Queues
<1>3. Dequeued(q).active = q.active
  BY <1>1 DEF Dequeued, Queues
<1>4. MarkedDone(q).active = q.active \ ProcessingIds(q)
  BY <1>1 DEF MarkedDone, Queues
<1>5. ASSUME NEW id
      PROVE  /\ Reserved(q, id).active = q.active
             /\ q.active \ {id} \subseteq Confirmed(q, id).active
             /\ Released(q, id).active = q.active
  <2>1. Reserved(q, id).active = q.active
    BY <1>1 DEF Reserved, Queues
  <2>2. q.active \ {id} \subseteq Confirmed(q, id).active
    BY <1>1 DEF Confirmed, WithoutReservation, Queues
  <2>3. Released(q, id).active = q.active
    BY <1>1 DEF Released, WithoutReservation, Queues
  <2>4. QED
    BY <2>1, <2>2, <2>3
<1>6. QED
  BY <1>2, <1>3, <1>4, <1>5

(* The queue forgets a task only when the processor has finished with it   *)
(* or a peer has acknowledged it (mark_processing_done,                    *)
(* confirm_reservation).                                                   *)
THEOREM ForgetsOnlyTheSettled == Spec => ForgottenOnlyWhenSettled
<1> DEFINE Settled(id) == \/ id \in ProcessingIds(queue)
                          \/ monitor.step = "confirming" /\ id = Head(monitor.held).id
           OnlyTheSettled == \A id \in queue.active \ queue'.active : Settled(id)
<1>1. ASSUME Inv, [Next]_vars
      PROVE  OnlyTheSettled
  <2>1. SoundQueue(Copies, queue)
    BY <1>1 DEF Inv, QueueIsSafe
  <2>2. ASSUME NEW ids, NEW priority, Arrive(ids, priority)
        PROVE  OnlyTheSettled
    BY <2>1, <2>2, ActiveAfterCalls DEF Arrive
  <2>3. CASE DequeueForProcessing
    BY <2>1, <2>3, ActiveAfterCalls DEF DequeueForProcessing
  <2>4. CASE MarkProcessingDone
    BY <2>1, <2>4, ActiveAfterCalls DEF MarkProcessingDone
  <2>5. CASE ReserveNext
    BY <2>1, <2>5, ActiveAfterCalls DEF ReserveNext
  <2>6. CASE SettleNext
    BY <2>1, <2>6, ActiveAfterCalls DEF SettleNext
  <2>7. CASE UNCHANGED queue
    BY <2>7
  <2>8. QED
    <3>1. [Next]_vars =>
            \/ \E ids, priority : Arrive(ids, priority)
            \/ DequeueForProcessing
            \/ MarkProcessingDone
            \/ ReserveNext
            \/ SettleNext
            \/ UNCHANGED queue
      BY DEF Next, vars, TryEnqueue, TryEnqueueMany, NoticeOverload, FindNoPeer,
             PickCandidates, SendTransfer, TransferAnswered
    <3>2. QED
      BY <1>1, <2>2, <2>3, <2>4, <2>5, <2>6, <2>7, <3>1
<1>2. Inv /\ [Next]_vars =>
        [\A id \in queue.active \ queue.active' :
            \/ id \in ProcessingIds(queue)
            \/ monitor.step = "confirming" /\ id = Head(monitor.held).id]_vars
  BY <1>1
<1>3. QED
  BY <1>2, QueueInvariant, PTL DEF Spec, ForgottenOnlyWhenSettled
=============================================================================
