------------------------- MODULE ReadyQueueOpsProofs -------------------------
(***************************************************************************)
(* What each method of the Ready Queue does to a queue in which every task *)
(* is held once: it keeps it so, and says which copies join or leave.      *)
(***************************************************************************)
EXTENDS ReadyQueueOps, TLAPS, FiniteSetTheorems, SequenceTheorems

-----------------------------------------------------------------------------
(* Deques, as sequences of copies with distinct ids.                       *)

(* Putting two deques together. *)
LEMMA ConcatCopies ==
  ASSUME NEW Copy, NEW s \in Seq(Copy), NEW t \in Seq(Copy)
  PROVE  /\ s \o t \in Seq(Copy)
         /\ Len(s \o t) = Len(s) + Len(t)
         /\ ToSet(s \o t) = ToSet(s) \cup ToSet(t)
         /\ IdsIn(s \o t) = IdsIn(s) \cup IdsIn(t)
         /\ Distinct(s) /\ Distinct(t) /\ Disjoint(IdsIn(s), IdsIn(t)) => Distinct(s \o t)
<1> DEFINE c == s \o t
<1>1. /\ c \in Seq(Copy)
      /\ Len(s) \in Nat /\ Len(t) \in Nat
      /\ Len(c) = Len(s) + Len(t)
      /\ DOMAIN s = 1 .. Len(s) /\ DOMAIN t = 1 .. Len(t)
      /\ DOMAIN c = 1 .. Len(s) + Len(t)
      /\ \A i \in 1 .. Len(s) + Len(t) : c[i] = IF i <= Len(s) THEN s[i] ELSE t[i - Len(s)]
  BY ConcatProperties, LenProperties
<1> HIDE DEF c
<1>2. \A i \in DOMAIN s : i \in DOMAIN c /\ c[i] = s[i]
  BY <1>1
<1>3. \A i \in DOMAIN t : i + Len(s) \in DOMAIN c /\ c[i + Len(s)] = t[i]
  BY <1>1
<1>4. \A i \in DOMAIN c : \/ i \in DOMAIN s /\ c[i] = s[i]
                          \/ i - Len(s) \in DOMAIN t /\ c[i] = t[i - Len(s)]
  BY <1>1
<1>5. ToSet(c) = ToSet(s) \cup ToSet(t)
  BY <1>2, <1>3, <1>4 DEF ToSet
<1>6. IdsIn(c) = IdsIn(s) \cup IdsIn(t)
  BY <1>2, <1>3, <1>4 DEF IdsIn
<1>7. ASSUME Distinct(s), Distinct(t), Disjoint(IdsIn(s), IdsIn(t)) PROVE Distinct(c)
  <2> SUFFICES ASSUME NEW i \in DOMAIN c, NEW j \in DOMAIN c, c[i].id = c[j].id
               PROVE  i = j
    BY DEF Distinct
  <2>1. \A k \in DOMAIN s, l \in DOMAIN t : s[k].id # t[l].id
    BY <1>7 DEF Disjoint, IdsIn
  <2>2. CASE i \in DOMAIN s /\ c[i] = s[i] /\ j \in DOMAIN s /\ c[j] = s[j]
    BY <2>2, <1>7 DEF Distinct
  <2>3. CASE /\ i - Len(s) \in DOMAIN t /\ c[i] = t[i - Len(s)]
             /\ j - Len(s) \in DOMAIN t /\ c[j] = t[j - Len(s)]
    <3>1. i - Len(s) = j - Len(s)
      BY <2>3, <1>7 DEF Distinct
    <3>2. QED
      BY <3>1, <1>1
  <2>4. QED
    BY <2>1, <2>2, <2>3, <1>4
<1>8. QED
  BY <1>1, <1>5, <1>6, <1>7 DEF c

(* Taking the oldest copy. *)
LEMMA TailCopies ==
  ASSUME NEW Copy, NEW s \in Seq(Copy), s # <<>>, Distinct(s)
  PROVE  /\ Head(s) \in Copy
         /\ Head(s) \in ToSet(s)
         /\ Tail(s) \in Seq(Copy)
         /\ Len(Tail(s)) = Len(s) - 1
         /\ Distinct(Tail(s))
         /\ ToSet(s) = ToSet(Tail(s)) \cup {Head(s)}
         /\ IdsIn(Tail(s)) = IdsIn(s) \ {Head(s).id}
         /\ Head(s).id \in IdsIn(s)
<1> DEFINE r == Tail(s)
<1>1. /\ Head(s) \in Copy /\ Head(s) = s[1]
      /\ r \in Seq(Copy)
      /\ Len(s) \in Nat \ {0}
      /\ Len(r) = Len(s) - 1
      /\ DOMAIN s = 1 .. Len(s) /\ DOMAIN r = 1 .. Len(s) - 1
      /\ \A i \in DOMAIN r : r[i] = s[i + 1]
  BY HeadTailProperties, LenProperties, EmptySeq
<1> HIDE DEF r
<1>2. 1 \in DOMAIN s
  BY <1>1
<1>3. \A i \in DOMAIN r : i + 1 \in DOMAIN s /\ r[i] = s[i + 1] /\ i + 1 # 1
  BY <1>1
<1>4. \A i \in DOMAIN s : i = 1 \/ (i - 1 \in DOMAIN r /\ s[i] = r[i - 1])
  BY <1>1
<1>5. Distinct(r)
  <2> SUFFICES ASSUME NEW i \in DOMAIN r, NEW j \in DOMAIN r, r[i].id = r[j].id
               PROVE  i = j
    BY DEF Distinct
  <2>1. i + 1 = j + 1
    BY <1>3 DEF Distinct
  <2>2. QED
    BY <1>1, <2>1
<1>6. ToSet(s) = ToSet(r) \cup {s[1]}
  BY <1>2, <1>3, <1>4 DEF ToSet
<1>7. \A i \in DOMAIN r : r[i].id # s[1].id
  BY <1>2, <1>3 DEF Distinct
<1>8. IdsIn(r) = IdsIn(s) \ {s[1].id}
  BY <1>2, <1>3, <1>4, <1>7 DEF IdsIn
<1>9. QED
  BY <1>1, <1>2, <1>5, <1>6, <1>8 DEF r, ToSet, IdsIn

(* A sequence after one of its elements is gone. *)
LEMMA RemovedElement ==
  ASSUME NEW Copy, NEW s \in Seq(Copy), NEW k \in DOMAIN s
  PROVE  /\ RemoveAt(s, k) \in Seq(Copy)
         /\ Len(RemoveAt(s, k)) = Len(s) - 1
         /\ DOMAIN RemoveAt(s, k) = 1 .. Len(s) - 1
         /\ \A i \in 1 .. Len(s) - 1 : RemoveAt(s, k)[i] = s[IF i < k THEN i ELSE i + 1]
<1> DEFINE a == SubSeq(s, 1, k - 1)
           b == SubSeq(s, k + 1, Len(s))
<1>1. DOMAIN s = 1 .. Len(s) /\ Len(s) \in Nat /\ \A i \in 1 .. Len(s) : s[i] \in Copy
  BY LenProperties, ElementOfSeq
<1>2. k \in 1 .. Len(s)
  BY <1>1
<1>3. /\ a \in Seq(Copy)
      /\ Len(a) = k - 1
      /\ \A i \in 1 .. k - 1 : a[i] = s[i]
  BY <1>1, <1>2, SubSeqProperties
<1>4. /\ b \in Seq(Copy)
      /\ Len(b) = Len(s) - k
      /\ \A i \in 1 .. Len(s) - k : b[i] = s[k + i]
  <2>1. \A i \in k + 1 .. Len(s) : s[i] \in Copy
    BY <1>1, <1>2
  <2>2. k + 1 \in Int /\ Len(s) \in Int
    BY <1>1, <1>2
  <2> HIDE DEF b
  <2>3. /\ b \in Seq(Copy)
        /\ Len(b) = IF k + 1 <= Len(s) THEN Len(s) - (k + 1) + 1 ELSE 0
        /\ \A i \in 1 .. Len(s) - (k + 1) + 1 : b[i] = s[(k + 1) + i - 1]
    BY <2>1, <2>2, SubSeqProperties DEF b
  <2>4. Len(b) = Len(s) - k
    <3>1. Len(s) \in Int /\ k \in Int /\ k <= Len(s)
      BY <1>1, <1>2
    <3>2. Len(b) = IF k + 1 <= Len(s) THEN Len(s) - (k + 1) + 1 ELSE 0
      BY <2>3
    <3>3. QED
      BY <3>1, <3>2
  <2>5. \A i \in 1 .. Len(s) - k : i \in 1 .. Len(s) - (k + 1) + 1 /\ (k + 1) + i - 1 = k + i
    BY <1>1, <1>2
  <2>6. \A i \in 1 .. Len(s) - k : b[i] = s[k + i]
    BY <2>3, <2>5
  <2>7. QED
    BY <2>3, <2>4, <2>6
<1>5. RemoveAt(s, k) = a \o b
  BY DEF RemoveAt
<1> HIDE DEF a, b
<1>6. /\ a \o b \in Seq(Copy)
      /\ Len(a \o b) = Len(s) - 1
      /\ DOMAIN (a \o b) = 1 .. Len(s) - 1
  <2>1. a \o b \in Seq(Copy) /\ Len(a \o b) = Len(a) + Len(b)
    BY <1>3, <1>4, ConcatProperties
  <2>2. Len(a \o b) = Len(s) - 1
    BY <2>1, <1>1, <1>2, <1>3, <1>4
  <2>3. QED
    BY <2>1, <2>2, LenProperties
<1>7. \A i \in 1 .. Len(s) - 1 : (a \o b)[i] = s[IF i < k THEN i ELSE i + 1]
  <2> TAKE i \in 1 .. Len(s) - 1
  <2>1. (a \o b)[i] = IF i <= Len(a) THEN a[i] ELSE b[i - Len(a)]
    BY <1>1, <1>2, <1>3, <1>4, ConcatProperties
  <2>2. CASE i < k
    <3>1. i <= Len(a) /\ i \in 1 .. k - 1
      BY <1>1, <1>2, <1>3, <2>2
    <3>2. QED
      BY <1>3, <2>1, <2>2, <3>1
  <2>3. CASE ~ (i < k)
    <3>1. ~ (i <= Len(a)) /\ i - Len(a) \in 1 .. Len(s) - k /\ k + (i - Len(a)) = i + 1
      BY <1>1, <1>2, <1>3, <2>3
    <3>2. QED
      BY <1>4, <2>1, <2>3, <3>1
  <2>4. QED
    BY <2>2, <2>3
<1>8. QED
  BY <1>5, <1>6, <1>7

(* Where an id is in a deque, and the deque without it. *)
LEMMA WithoutElements ==
  ASSUME NEW Copy, NEW s \in Seq(Copy), NEW id \in IdsIn(s)
  PROVE  /\ IndexOf(s, id) \in DOMAIN s
         /\ Taken(s, id) = s[IndexOf(s, id)]
         /\ Taken(s, id).id = id
         /\ Taken(s, id) \in Copy
         /\ Without(s, id) \in Seq(Copy)
         /\ Len(Without(s, id)) = Len(s) - 1
         /\ \A i \in DOMAIN Without(s, id) :
              Without(s, id)[i] = s[IF i < IndexOf(s, id) THEN i ELSE i + 1]
<1> DEFINE k == IndexOf(s, id)
<1>1. k \in DOMAIN s /\ s[k].id = id
  BY DEF IdsIn, IndexOf
<1>2. Taken(s, id) = s[k] /\ Without(s, id) = RemoveAt(s, k)
  BY DEF Taken, Without
<1> HIDE DEF k
<1>3. s[k] \in Copy
  BY <1>1, ElementOfSeq, LenProperties
<1>4. /\ RemoveAt(s, k) \in Seq(Copy)
      /\ Len(RemoveAt(s, k)) = Len(s) - 1
      /\ DOMAIN RemoveAt(s, k) = 1 .. Len(s) - 1
      /\ \A i \in 1 .. Len(s) - 1 : RemoveAt(s, k)[i] = s[IF i < k THEN i ELSE i + 1]
  BY <1>1, RemovedElement
<1>5. QED
  BY <1>1, <1>2, <1>3, <1>4 DEF k

(* A copy taken out of a deque of distinct ones. *)
LEMMA WithoutCopies ==
  ASSUME NEW Copy, NEW s \in Seq(Copy), NEW id \in IdsIn(s), Distinct(s)
  PROVE  /\ Taken(s, id) \in ToSet(s)
         /\ Distinct(Without(s, id))
         /\ ToSet(s) = ToSet(Without(s, id)) \cup {Taken(s, id)}
         /\ IdsIn(Without(s, id)) = IdsIn(s) \ {id}
<1> DEFINE k == IndexOf(s, id)
           r == Without(s, id)
<1>1. /\ k \in DOMAIN s
      /\ Taken(s, id) = s[k] /\ s[k].id = id
      /\ r \in Seq(Copy)
      /\ Len(r) = Len(s) - 1
      /\ \A i \in DOMAIN r : r[i] = s[IF i < k THEN i ELSE i + 1]
  BY WithoutElements
<1> HIDE DEF k, r
<1>2. Len(s) \in Nat /\ DOMAIN s = 1 .. Len(s) /\ DOMAIN r = 1 .. Len(s) - 1
  BY <1>1, LenProperties
<1>3. \A i \in DOMAIN r : \E j \in DOMAIN s :
        j # k /\ j = (IF i < k THEN i ELSE i + 1) /\ r[i] = s[j]
  BY <1>1, <1>2
<1>4. \A j \in DOMAIN s : j # k => \E i \in DOMAIN r : j = (IF i < k THEN i ELSE i + 1)
  <2> SUFFICES ASSUME NEW j \in DOMAIN s, j # k
               PROVE  \E i \in DOMAIN r : j = (IF i < k THEN i ELSE i + 1)
    OBVIOUS
  <2>1. CASE j < k
    BY <2>1, <1>1, <1>2
  <2>2. CASE j > k
    <3>1. j - 1 \in DOMAIN r /\ j = (IF j - 1 < k THEN j - 1 ELSE (j - 1) + 1)
      BY <2>2, <1>1, <1>2
    <3>2. QED
      BY <3>1
  <2>3. QED
    BY <2>1, <2>2, <1>1, <1>2
<1>5. \A j \in DOMAIN s : j = k \/ \E i \in DOMAIN r : r[i] = s[j]
  BY <1>1, <1>4
<1>6. Distinct(r)
  <2> SUFFICES ASSUME NEW i \in DOMAIN r, NEW j \in DOMAIN r, r[i].id = r[j].id
               PROVE  i = j
    BY DEF Distinct
  <2>1. (IF i < k THEN i ELSE i + 1) = (IF j < k THEN j ELSE j + 1)
    BY <1>3 DEF Distinct
  <2>2. QED
    BY <2>1, <1>1, <1>2
<1>7. ToSet(s) = ToSet(r) \cup {s[k]}
  <2>1. ToSet(r) \subseteq ToSet(s) /\ s[k] \in ToSet(s)
    BY <1>1, <1>3 DEF ToSet
  <2>2. ToSet(s) \subseteq ToSet(r) \cup {s[k]}
    BY <1>5 DEF ToSet
  <2>3. QED
    BY <2>1, <2>2
<1>8. \A i \in DOMAIN r : r[i].id # id
  BY <1>1, <1>3 DEF Distinct
<1>9. IdsIn(r) = IdsIn(s) \ {id}
  BY <1>1, <1>3, <1>5, <1>8 DEF IdsIn
<1>10. QED
  BY <1>1, <1>6, <1>7, <1>9 DEF r, ToSet

(* A batch without repetition is one of distinct copies. *)
LEMMA BatchIsDistinct ==
  ASSUME NEW Copy, NEW batch \in Seq(Copy), Cardinality(IdsIn(batch)) = Len(batch)
  PROVE  Distinct(batch)
<1> DEFINE n == Len(batch)
           f == [i \in 1 .. n |-> batch[i].id]
<1>1. n \in Nat /\ DOMAIN batch = 1 .. n
  BY LenProperties
<1>2. f \in Surjection(1 .. n, IdsIn(batch))
  BY <1>1 DEF Surjection, IdsIn
<1>3. IsFiniteSet(1 .. n) /\ Cardinality(1 .. n) = n
  <2> HIDE DEF n
  <2>1. IsFiniteSet(1 .. n) /\ Cardinality(1 .. n) = IF 1 > n THEN 0 ELSE n - 1 + 1
    <3>1. 1 \in Int /\ n \in Int
      BY <1>1
    <3>2. QED
      BY ONLY <3>1, FS_Interval
  <2>2. QED
    BY <2>1, <1>1
<1>4. f \in Injection(1 .. n, IdsIn(batch))
  BY <1>2, <1>3, FS_SurjSameCardinalityImpliesInj
<1>5. \A i, j \in 1 .. n : f[i] = f[j] => i = j
  BY <1>4 DEF Injection, IsInjective
<1>6. QED
  BY <1>1, <1>5 DEF Distinct

-----------------------------------------------------------------------------
(* The methods.                                                            *)

\* The copies that the queue holds, wherever.
KeptCopies(q) ==
  ToSet(q.normal) \cup ToSet(q.priority) \cup {r.copy : r \in q.reserved} \cup q.processing

\* What every method keeps of a queue.
SoundQueue(Copy, q) == q \in Queues(Copy) /\ EachHeldOnce(q) /\ IsFiniteSet(q.reserved)

(* The fields of a queue. *)
LEMMA QueueFields ==
  ASSUME NEW Copy, NEW q \in Queues(Copy), IsFiniteSet(q.reserved)
  PROVE  /\ q.normal \in Seq(Copy) /\ Len(q.normal) \in Nat
         /\ q.priority \in Seq(Copy) /\ Len(q.priority) \in Nat
         /\ q.reserved \in SUBSET [copy : Copy, priority : BOOLEAN]
         /\ Cardinality(q.reserved) \in Nat
         /\ q.processing \in SUBSET Copy
         /\ Size(q) \in Nat
<1>1. /\ q.normal \in Seq(Copy) /\ q.priority \in Seq(Copy)
      /\ q.reserved \in SUBSET [copy : Copy, priority : BOOLEAN]
      /\ q.processing \in SUBSET Copy
  BY DEF Queues
<1>2. Len(q.normal) \in Nat /\ Len(q.priority) \in Nat
  BY <1>1, LenProperties
<1>3. Cardinality(q.reserved) \in Nat
  BY FS_CardinalityType
<1>4. Size(q) \in Nat
  <2> DEFINE a == Len(q.normal)
             b == Len(q.priority)
             c == Cardinality(q.reserved)
  <2>1. Size(q) = a + b + c
    BY DEF Size
  <2>2. a \in Nat /\ b \in Nat /\ c \in Nat
    BY <1>2, <1>3
  <2> HIDE DEF a, b, c
  <2>3. QED
    BY <2>1, <2>2
<1>5. QED
  BY <1>1, <1>2, <1>3, <1>4

(* The size after a change of the three numbers it is the sum of. *)
LEMMA SizeChanges ==
  ASSUME NEW q, NEW r, NEW a \in Int, NEW b \in Int, NEW c \in Int,
         Len(q.normal) \in Nat, Len(q.priority) \in Nat, Cardinality(q.reserved) \in Nat,
         Len(r.normal) = Len(q.normal) + a,
         Len(r.priority) = Len(q.priority) + b,
         Cardinality(r.reserved) = Cardinality(q.reserved) + c
  PROVE  Size(r) = Size(q) + a + b + c
<1> DEFINE n == Len(q.normal)
           p == Len(q.priority)
           k == Cardinality(q.reserved)
<1>1. n \in Nat /\ p \in Nat /\ k \in Nat
  OBVIOUS
<1>2. Size(q) = n + p + k /\ Size(r) = (n + a) + (p + b) + (k + c)
  BY DEF Size
<1> HIDE DEF n, p, k
<1>3. QED
  BY <1>1, <1>2

(* The empty queue. *)
LEMMA EmptyQueueIsSound ==
  ASSUME NEW Copy
  PROVE  SoundQueue(Copy, EmptyQueue) /\ KeptCopies(EmptyQueue) = {} /\ Size(EmptyQueue) = 0
<1>1. EmptyQueue \in Queues(Copy)
  BY EmptySeq DEF EmptyQueue, Queues
<1>2. ToSet(<<>>) = {} /\ IdsIn(<<>>) = {} /\ Distinct(<<>>)
  BY DEF ToSet, IdsIn, Distinct
<1>3. EachHeldOnce(EmptyQueue)
  BY <1>2 DEF EmptyQueue, EachHeldOnce, Waiting, ReservedIds, ProcessingIds, Disjoint
<1>4. KeptCopies(EmptyQueue) = {}
  BY <1>2 DEF EmptyQueue, KeptCopies
<1>5. IsFiniteSet(EmptyQueue.reserved) /\ Cardinality(EmptyQueue.reserved) = 0
  BY FS_EmptySet DEF EmptyQueue
<1>6. Size(EmptyQueue) = 0
  BY <1>5, EmptySeq DEF EmptyQueue, Size
<1>7. QED
  BY <1>1, <1>3, <1>4, <1>5, <1>6 DEF SoundQueue

(* The ids of what a queue holds are its active ones. *)
LEMMA ActiveAreHeld ==
  ASSUME NEW Copy, NEW q, SoundQueue(Copy, q)
  PROVE  q.active = {c.id : c \in KeptCopies(q)}
<1>1. q.active = Waiting(q) \cup ReservedIds(q) \cup ProcessingIds(q)
  BY DEF SoundQueue, EachHeldOnce
<1>2. Waiting(q) = {c.id : c \in ToSet(q.normal) \cup ToSet(q.priority)}
  BY DEF Waiting, IdsIn, ToSet
<1>3. ReservedIds(q) = {c.id : c \in {r.copy : r \in q.reserved}}
  BY DEF ReservedIds
<1>4. QED
  BY <1>1, <1>2, <1>3 DEF ProcessingIds, KeptCopies

(* An admitted batch joins one deque, within the capacity. *)
LEMMA EnqueuedQueue ==
  ASSUME NEW Copy, NEW q, SoundQueue(Copy, q),
         NEW batch \in Seq(Copy), NEW priority \in BOOLEAN, Verdict(q, batch) = "accepted"
  PROVE  LET r == Enqueued(q, batch, priority)
         IN  /\ SoundQueue(Copy, r)
             /\ Size(r) <= Capacity
             /\ KeptCopies(r) = KeptCopies(q) \cup ToSet(batch)
             /\ r.reserved = q.reserved /\ r.processing = q.processing
<1> DEFINE r == Enqueued(q, batch, priority)
<1>1. /\ q \in Queues(Copy) /\ IsFiniteSet(q.reserved) /\ EachHeldOnce(q)
      /\ q.normal \in Seq(Copy) /\ q.priority \in Seq(Copy)
      /\ Len(q.normal) \in Nat /\ Len(q.priority) \in Nat
      /\ Cardinality(q.reserved) \in Nat /\ Len(batch) \in Nat /\ Size(q) \in Nat
  BY QueueFields, LenProperties DEF SoundQueue
<1>2. /\ IdsIn(batch) \cap q.active = {}
      /\ Cardinality(IdsIn(batch)) = Len(batch)
      /\ ~ (Size(q) + Len(batch) > Capacity)
  BY DEF Verdict
<1>3. Distinct(batch)
  BY <1>2, BatchIsDistinct
<1> DEFINE normal == IF priority THEN q.normal ELSE q.normal \o batch
           first  == IF priority THEN q.priority \o batch ELSE q.priority
<1>a. r = [normal |-> normal, priority |-> first, reserved |-> q.reserved,
           active |-> q.active \cup IdsIn(batch), processing |-> q.processing]
  <2> HIDE DEF normal, first
  <2>1. r = [q EXCEPT !.normal = normal, !.priority = first,
                      !.active = q.active \cup IdsIn(batch)]
    BY DEF Enqueued, normal, first
  <2> HIDE DEF r
  <2>2. QED
    BY <2>1, <1>1 DEF Queues
<1> HIDE DEF r
<1>4. /\ r.normal = normal /\ r.priority = first
      /\ r.active = q.active \cup IdsIn(batch)
      /\ r.reserved = q.reserved /\ r.processing = q.processing
  BY <1>a
<1>5. /\ IdsIn(q.normal) \subseteq q.active
      /\ IdsIn(q.priority) \subseteq q.active
      /\ Distinct(q.normal) /\ Distinct(q.priority)
  BY <1>1 DEF EachHeldOnce, Waiting
<1>6. Disjoint(IdsIn(q.normal), IdsIn(batch)) /\ Disjoint(IdsIn(q.priority), IdsIn(batch))
  BY <1>2, <1>5 DEF Disjoint
<1>7. /\ r.normal \in Seq(Copy) /\ r.priority \in Seq(Copy)
      /\ Distinct(r.normal) /\ Distinct(r.priority)
  BY <1>1, <1>3, <1>4, <1>5, <1>6, ConcatCopies
<1>8. /\ Size(r) = Size(q) + Len(batch)
      /\ ToSet(r.normal) \cup ToSet(r.priority)
           = ToSet(q.normal) \cup ToSet(q.priority) \cup ToSet(batch)
  <2> DEFINE n == Len(batch)
  <2>1. n \in Nat
    BY <1>1
  <2>2. Cardinality(r.reserved) = Cardinality(q.reserved) + 0
    BY <1>1, <1>4
  <2>3. CASE priority
    <3>1. /\ Len(r.priority) = Len(q.priority) + n
          /\ ToSet(r.priority) = ToSet(q.priority) \cup ToSet(batch)
          /\ r.normal = q.normal
      BY <2>3, <1>1, <1>4, ConcatCopies DEF normal, first
    <3>2. Len(r.normal) = Len(q.normal) + 0
      BY <3>1, <1>1
    <3> HIDE DEF n
    <3>3. Size(r) = Size(q) + 0 + n + 0
      BY <3>1, <3>2, <2>1, <2>2, <1>1, SizeChanges
    <3>4. QED
      BY <3>1, <3>3, <2>1, <1>1 DEF n
  <2>4. CASE ~ priority
    <3>1. /\ Len(r.normal) = Len(q.normal) + n
          /\ ToSet(r.normal) = ToSet(q.normal) \cup ToSet(batch)
          /\ r.priority = q.priority
      BY <2>4, <1>1, <1>4, ConcatCopies DEF normal, first
    <3>2. Len(r.priority) = Len(q.priority) + 0
      BY <3>1, <1>1
    <3> HIDE DEF n
    <3>3. Size(r) = Size(q) + n + 0 + 0
      BY <3>1, <3>2, <2>1, <2>2, <1>1, SizeChanges
    <3>4. QED
      BY <3>1, <3>3, <2>1, <1>1 DEF n
  <2>5. QED
    BY <2>3, <2>4
<1>9. \/ IdsIn(r.normal) = IdsIn(q.normal) \cup IdsIn(batch) /\ IdsIn(r.priority) = IdsIn(q.priority)
      \/ IdsIn(r.normal) = IdsIn(q.normal) /\ IdsIn(r.priority) = IdsIn(q.priority) \cup IdsIn(batch)
  BY <1>1, <1>4, ConcatCopies
<1>10. Size(r) <= Capacity
  BY <1>1, <1>2, <1>8, CapacityAssumption DEF CapacityAssumption
<1>11. KeptCopies(r) = KeptCopies(q) \cup ToSet(batch)
  BY <1>4, <1>8 DEF KeptCopies
<1>12. IdsIn(batch) \subseteq {c.id : c \in Copy}
  BY LenProperties DEF IdsIn
<1>13. r \in Queues(Copy)
  <2>1. q.active \cup IdsIn(batch) \in SUBSET {c.id : c \in Copy}
    BY <1>1, <1>12 DEF Queues
  <2>2. /\ q.reserved \in SUBSET [copy : Copy, priority : BOOLEAN]
        /\ q.processing \in SUBSET Copy
    BY <1>1 DEF Queues
  <2>3. QED
    BY <1>a, <1>4, <1>7, <2>1, <2>2 DEF Queues
<1>14. EachHeldOnce(r)
  <2>1. ReservedIds(r) = ReservedIds(q) /\ ProcessingIds(r) = ProcessingIds(q)
    BY <1>4 DEF ReservedIds, ProcessingIds
  <2>2. Waiting(r) = Waiting(q) \cup IdsIn(batch)
    BY <1>9 DEF Waiting
  <2>3. Disjoint(IdsIn(r.normal), IdsIn(r.priority))
    BY <1>1, <1>6, <1>9 DEF EachHeldOnce, Disjoint
  <2>4. /\ Disjoint(Waiting(r), ReservedIds(r))
        /\ Disjoint(ProcessingIds(r), Waiting(r) \cup ReservedIds(r))
        /\ r.active = Waiting(r) \cup ReservedIds(r) \cup ProcessingIds(r)
    BY <1>1, <1>2, <1>4, <2>1, <2>2 DEF EachHeldOnce, Disjoint
  <2>5. QED
    BY <1>1, <1>4, <1>7, <2>3, <2>4 DEF EachHeldOnce
<1>15. QED
  BY <1>1, <1>4, <1>10, <1>11, <1>13, <1>14 DEF SoundQueue, r

(* The same without the copies. *)
LEMMA EnqueuedKeepsQueue ==
  ASSUME NEW Copy, NEW q, SoundQueue(Copy, q), NEW batch \in Seq(Copy),
         Verdict(q, batch) = "accepted"
  PROVE  LET r == Enqueued(q, batch, FALSE)
         IN  /\ SoundQueue(Copy, r)
             /\ Size(r) <= Capacity
             /\ r.active = q.active \cup IdsIn(batch)
             /\ r.reserved = q.reserved /\ r.processing = q.processing
<1> DEFINE r == Enqueued(q, batch, FALSE)
<1>1. FALSE \in BOOLEAN
  OBVIOUS
<1>2. /\ SoundQueue(Copy, r) /\ Size(r) <= Capacity
      /\ KeptCopies(r) = KeptCopies(q) \cup ToSet(batch)
      /\ r.reserved = q.reserved /\ r.processing = q.processing
  BY <1>1, EnqueuedQueue
<1>3. r.active = q.active \cup IdsIn(batch)
  BY DEF Enqueued, SoundQueue, Queues
<1>4. QED
  BY <1>2, <1>3

(* The processing thread takes the head of a deque. *)
LEMMA DequeuedQueue ==
  ASSUME NEW Copy, NEW q, SoundQueue(Copy, q), q.processing = {}, CanDequeue(q)
  PROVE  LET r == Dequeued(q)
         IN  /\ SoundQueue(Copy, r)
             /\ Size(r) = Size(q) - 1
             /\ KeptCopies(r) = KeptCopies(q)
             /\ r.reserved = q.reserved /\ r.processing # {}
<1> DEFINE r == Dequeued(q)
           Good == /\ SoundQueue(Copy, r) /\ Size(r) = Size(q) - 1
                   /\ KeptCopies(r) = KeptCopies(q) /\ r.reserved = q.reserved
                   /\ r.processing # {}
<1>1. /\ q \in Queues(Copy) /\ IsFiniteSet(q.reserved) /\ EachHeldOnce(q)
      /\ q.normal \in Seq(Copy) /\ q.priority \in Seq(Copy)
      /\ Len(q.normal) \in Nat /\ Len(q.priority) \in Nat
      /\ Cardinality(q.reserved) \in Nat /\ Size(q) \in Nat
  BY QueueFields DEF SoundQueue
<1>2. /\ Distinct(q.normal) /\ Distinct(q.priority)
      /\ Disjoint(IdsIn(q.normal), IdsIn(q.priority))
      /\ Disjoint(Waiting(q), ReservedIds(q))
      /\ ProcessingIds(q) = {}
      /\ q.active = Waiting(q) \cup ReservedIds(q)
  BY <1>1 DEF EachHeldOnce, ProcessingIds
<1>3. ASSUME NEW h \in Copy,
             r.processing = {h},
             r.reserved = q.reserved, r.active = q.active,
             r.normal \in Seq(Copy), r.priority \in Seq(Copy),
             Distinct(r.normal), Distinct(r.priority),
             ToSet(q.normal) \cup ToSet(q.priority)
               = ToSet(r.normal) \cup ToSet(r.priority) \cup {h},
             Waiting(r) = Waiting(q) \ {h.id}, h.id \in Waiting(q),
             IdsIn(r.normal) \subseteq IdsIn(q.normal),
             IdsIn(r.priority) \subseteq IdsIn(q.priority),
             r = [normal |-> r.normal, priority |-> r.priority, reserved |-> r.reserved,
                  active |-> r.active, processing |-> r.processing],
             Size(r) = Size(q) - 1
      PROVE  Good
  <2> HIDE DEF r
  <2>1. r \in Queues(Copy)
    BY <1>1, <1>3 DEF Queues
  <2>2. ReservedIds(r) = ReservedIds(q) /\ ProcessingIds(r) = {h.id}
    BY <1>3 DEF ReservedIds, ProcessingIds
  <2>3. EachHeldOnce(r)
    <3>1. \A c, d \in r.processing : c = d
      BY <1>3
    <3>2. \A c, d \in r.reserved : c.copy.id = d.copy.id => c = d
      BY <1>1, <1>3 DEF EachHeldOnce
    <3>3. /\ Disjoint(IdsIn(r.normal), IdsIn(r.priority))
          /\ Disjoint(Waiting(r), ReservedIds(r))
          /\ Disjoint(ProcessingIds(r), Waiting(r) \cup ReservedIds(r))
      BY <1>2, <1>3, <2>2 DEF Disjoint
    <3>4. r.active = Waiting(r) \cup ReservedIds(r) \cup ProcessingIds(r)
      BY <1>2, <1>3, <2>2
    <3>5. QED
      BY <1>3, <3>1, <3>2, <3>3, <3>4 DEF EachHeldOnce
  <2>4. KeptCopies(r) = KeptCopies(q)
    BY <1>3 DEF KeptCopies
  <2>5. QED
    BY <1>1, <1>3, <2>1, <2>3, <2>4 DEF SoundQueue
<1>4. ASSUME q.priority # <<>> PROVE Good
  <2> DEFINE h == Head(q.priority)
  <2>1. r = [normal |-> q.normal, priority |-> Tail(q.priority), reserved |-> q.reserved,
             active |-> q.active, processing |-> {h}]
    BY <1>4, <1>1 DEF Dequeued, Queues
  <2>2. /\ h \in Copy /\ Tail(q.priority) \in Seq(Copy)
        /\ Len(Tail(q.priority)) = Len(q.priority) - 1
        /\ Distinct(Tail(q.priority))
        /\ ToSet(q.priority) = ToSet(Tail(q.priority)) \cup {h}
        /\ IdsIn(Tail(q.priority)) = IdsIn(q.priority) \ {h.id}
        /\ h.id \in IdsIn(q.priority)
    BY <1>1, <1>2, <1>4, TailCopies
  <2> HIDE DEF h, r
  <2>3. Size(r) = Size(q) - 1
    <3>1. /\ Len(r.normal) = Len(q.normal) + 0
          /\ Len(r.priority) = Len(q.priority) + (0 - 1)
          /\ Cardinality(r.reserved) = Cardinality(q.reserved) + 0
      BY <1>1, <2>1, <2>2
    <3>2. Size(r) = Size(q) + 0 + (0 - 1) + 0
      BY <3>1, <1>1, SizeChanges
    <3>3. QED
      BY <3>2, <1>1
  <2>4. Waiting(r) = Waiting(q) \ {h.id} /\ h.id \in Waiting(q)
    BY <1>2, <2>1, <2>2 DEF Waiting, Disjoint
  <2>5. /\ r.processing = {h}
        /\ r.reserved = q.reserved /\ r.active = q.active
        /\ r.normal \in Seq(Copy) /\ r.priority \in Seq(Copy)
        /\ Distinct(r.normal) /\ Distinct(r.priority)
        /\ r = [normal |-> r.normal, priority |-> r.priority, reserved |-> r.reserved,
                active |-> r.active, processing |-> r.processing]
    BY <1>1, <1>2, <2>1, <2>2
  <2>6. /\ ToSet(q.normal) \cup ToSet(q.priority)
             = ToSet(r.normal) \cup ToSet(r.priority) \cup {h}
        /\ IdsIn(r.normal) \subseteq IdsIn(q.normal)
        /\ IdsIn(r.priority) \subseteq IdsIn(q.priority)
    BY <2>1, <2>2
  <2> HIDE DEF Good
  <2>7. QED
    BY <1>3, <2>2, <2>3, <2>4, <2>5, <2>6
<1>5. ASSUME q.priority = <<>> PROVE Good
  <2> DEFINE h == Head(q.normal)
  <2>1. r = [normal |-> Tail(q.normal), priority |-> q.priority, reserved |-> q.reserved,
             active |-> q.active, processing |-> {h}]
    BY <1>5, <1>1 DEF Dequeued, Queues
  <2>2. /\ h \in Copy /\ Tail(q.normal) \in Seq(Copy)
        /\ Len(Tail(q.normal)) = Len(q.normal) - 1
        /\ Distinct(Tail(q.normal))
        /\ ToSet(q.normal) = ToSet(Tail(q.normal)) \cup {h}
        /\ IdsIn(Tail(q.normal)) = IdsIn(q.normal) \ {h.id}
        /\ h.id \in IdsIn(q.normal)
    BY <1>1, <1>2, <1>5, TailCopies DEF CanDequeue
  <2> HIDE DEF h, r
  <2>3. Size(r) = Size(q) - 1
    <3>1. /\ Len(r.normal) = Len(q.normal) + (0 - 1)
          /\ Len(r.priority) = Len(q.priority) + 0
          /\ Cardinality(r.reserved) = Cardinality(q.reserved) + 0
      BY <1>1, <2>1, <2>2
    <3>2. Size(r) = Size(q) + (0 - 1) + 0 + 0
      BY <3>1, <1>1, SizeChanges
    <3>3. QED
      BY <3>2, <1>1
  <2>4. Waiting(r) = Waiting(q) \ {h.id} /\ h.id \in Waiting(q)
    BY <1>2, <2>1, <2>2 DEF Waiting, Disjoint
  <2>5. /\ r.processing = {h}
        /\ r.reserved = q.reserved /\ r.active = q.active
        /\ r.normal \in Seq(Copy) /\ r.priority \in Seq(Copy)
        /\ Distinct(r.normal) /\ Distinct(r.priority)
        /\ r = [normal |-> r.normal, priority |-> r.priority, reserved |-> r.reserved,
                active |-> r.active, processing |-> r.processing]
    BY <1>1, <1>2, <2>1, <2>2
  <2>6. /\ ToSet(q.normal) \cup ToSet(q.priority)
             = ToSet(r.normal) \cup ToSet(r.priority) \cup {h}
        /\ IdsIn(r.normal) \subseteq IdsIn(q.normal)
        /\ IdsIn(r.priority) \subseteq IdsIn(q.priority)
    BY <2>1, <2>2
  <2> HIDE DEF Good
  <2>7. QED
    BY <1>3, <2>2, <2>3, <2>4, <2>5, <2>6
<1>6. QED
  BY <1>4, <1>5

(* The processing thread is done with its task. *)
LEMMA MarkedDoneQueue ==
  ASSUME NEW Copy, NEW q, SoundQueue(Copy, q)
  PROVE  LET r == MarkedDone(q)
         IN  /\ SoundQueue(Copy, r)
             /\ Size(r) = Size(q)
             /\ KeptCopies(r) = KeptCopies(q) \ q.processing
             /\ r.active = q.active \ ProcessingIds(q)
             /\ r.reserved = q.reserved /\ r.processing = {}
<1> DEFINE r == MarkedDone(q)
<1>1. q \in Queues(Copy) /\ IsFiniteSet(q.reserved) /\ EachHeldOnce(q)
  BY DEF SoundQueue
<1>2. r = [normal |-> q.normal, priority |-> q.priority, reserved |-> q.reserved,
           active |-> q.active \ ProcessingIds(q), processing |-> {}]
  <2>1. r = [q EXCEPT !.active = @ \ ProcessingIds(q), !.processing = {}]
    BY DEF MarkedDone
  <2> HIDE DEF r
  <2>2. QED
    BY <2>1, <1>1 DEF Queues
<1> HIDE DEF r
<1>3. r \in Queues(Copy)
  BY <1>1, <1>2 DEF Queues
<1>4. /\ Waiting(r) = Waiting(q) /\ ReservedIds(r) = ReservedIds(q) /\ ProcessingIds(r) = {}
      /\ Size(r) = Size(q)
  BY <1>2 DEF Waiting, ReservedIds, ProcessingIds, Size
<1>5. EachHeldOnce(r)
  BY <1>1, <1>2, <1>4 DEF EachHeldOnce, Disjoint
<1>6. KeptCopies(r) = KeptCopies(q) \ q.processing
  <2> DEFINE kept == ToSet(q.normal) \cup ToSet(q.priority) \cup {e.copy : e \in q.reserved}
  <2>1. {c.id : c \in kept} = Waiting(q) \cup ReservedIds(q)
    <3>1. Waiting(q) = {c.id : c \in ToSet(q.normal) \cup ToSet(q.priority)}
      BY DEF Waiting, IdsIn, ToSet
    <3>2. ReservedIds(q) = {c.id : c \in {e.copy : e \in q.reserved}}
      BY DEF ReservedIds
    <3>3. QED
      BY <3>1, <3>2
  <2>2. Disjoint(ProcessingIds(q), {c.id : c \in kept})
    BY <1>1, <2>1 DEF EachHeldOnce
  <2> HIDE DEF kept
  <2>3. \A c \in q.processing : c \notin kept
    BY <2>2 DEF ProcessingIds, Disjoint
  <2>4. KeptCopies(r) = kept /\ KeptCopies(q) = kept \cup q.processing
    BY <1>2 DEF KeptCopies, kept
  <2>5. QED
    BY <2>3, <2>4
<1>7. /\ SoundQueue(Copy, r) /\ r.active = q.active \ ProcessingIds(q)
      /\ r.reserved = q.reserved /\ r.processing = {}
  BY <1>1, <1>2, <1>3, <1>5 DEF SoundQueue
<1>8. QED
  BY <1>4, <1>6, <1>7 DEF r
(* Reserving a waiting task moves its copy out of its deque. *)
LEMMA ReservedQueue ==
  ASSUME NEW Copy, NEW q, SoundQueue(Copy, q), NEW id \in Waiting(q)
  PROVE  LET r == Reserved(q, id)
             e == Reservation(r, id)
         IN  /\ SoundQueue(Copy, r)
             /\ Size(r) = Size(q)
             /\ KeptCopies(r) = KeptCopies(q)
             /\ r.processing = q.processing
             /\ r.reserved = q.reserved \cup {e}
             /\ e.copy \in KeptCopies(q) /\ e.copy \in Copy /\ e.copy.id = id
             /\ e \notin q.reserved
             /\ id \notin ReservedIds(q)
             /\ r # q
<1> DEFINE r == Reserved(q, id)
           Good == \E e \in [copy : Copy, priority : BOOLEAN] :
                     /\ SoundQueue(Copy, r) /\ Size(r) = Size(q)
                     /\ KeptCopies(r) = KeptCopies(q) /\ r.processing = q.processing
                     /\ r.reserved = q.reserved \cup {e}
                     /\ e.copy \in KeptCopies(q) /\ e.copy.id = id
                     /\ e \notin q.reserved
<1>1. /\ q \in Queues(Copy) /\ IsFiniteSet(q.reserved) /\ EachHeldOnce(q)
      /\ q.normal \in Seq(Copy) /\ q.priority \in Seq(Copy)
      /\ q.reserved \in SUBSET [copy : Copy, priority : BOOLEAN]
      /\ Len(q.normal) \in Nat /\ Len(q.priority) \in Nat
      /\ Cardinality(q.reserved) \in Nat /\ Size(q) \in Nat
  BY QueueFields DEF SoundQueue
<1>2. /\ Distinct(q.normal) /\ Distinct(q.priority)
      /\ Disjoint(IdsIn(q.normal), IdsIn(q.priority))
      /\ Disjoint(Waiting(q), ReservedIds(q))
      /\ Disjoint(ProcessingIds(q), Waiting(q) \cup ReservedIds(q))
      /\ q.active = Waiting(q) \cup ReservedIds(q) \cup ProcessingIds(q)
  BY <1>1 DEF EachHeldOnce
<1>3. id \notin ReservedIds(q)
  BY <1>2 DEF Disjoint
<1>4. ASSUME NEW e \in [copy : Copy, priority : BOOLEAN], e.copy.id = id
      PROVE  /\ IsFiniteSet(q.reserved \cup {e})
             /\ Cardinality(q.reserved \cup {e}) = Cardinality(q.reserved) + 1
  <2>1. e \notin q.reserved
    BY <1>3, <1>4 DEF ReservedIds
  <2>2. QED
    BY <2>1, <1>1, FS_AddElement
<1>5. ASSUME NEW e \in [copy : Copy, priority : BOOLEAN],
             e.copy.id = id,
             r.reserved = q.reserved \cup {e},
             r.active = q.active, r.processing = q.processing,
             r.normal \in Seq(Copy), r.priority \in Seq(Copy),
             Distinct(r.normal), Distinct(r.priority),
             ToSet(q.normal) \cup ToSet(q.priority)
               = ToSet(r.normal) \cup ToSet(r.priority) \cup {e.copy},
             Waiting(r) = Waiting(q) \ {id},
             IdsIn(r.normal) \subseteq IdsIn(q.normal),
             IdsIn(r.priority) \subseteq IdsIn(q.priority),
             r = [normal |-> r.normal, priority |-> r.priority, reserved |-> r.reserved,
                  active |-> r.active, processing |-> r.processing],
             Size(r) = Size(q)
      PROVE  Good
  <2> HIDE DEF r
  <2>1. r \in Queues(Copy)
    BY <1>1, <1>5 DEF Queues
  <2>2. ReservedIds(r) = ReservedIds(q) \cup {id} /\ ProcessingIds(r) = ProcessingIds(q)
    BY <1>5 DEF ReservedIds, ProcessingIds
  <2>3. e \notin q.reserved
    BY <1>3, <1>5 DEF ReservedIds
  <2>4. EachHeldOnce(r)
    <3>1. \A c, d \in r.processing : c = d
      BY <1>1, <1>5 DEF EachHeldOnce
    <3>2. \A c, d \in r.reserved : c.copy.id = d.copy.id => c = d
      <4>1. \A c \in q.reserved : c.copy.id # id
        BY <1>3 DEF ReservedIds
      <4>2. QED
        BY <4>1, <1>1, <1>5 DEF EachHeldOnce
    <3>3. /\ Disjoint(IdsIn(r.normal), IdsIn(r.priority))
          /\ Disjoint(Waiting(r), ReservedIds(r))
          /\ Disjoint(ProcessingIds(r), Waiting(r) \cup ReservedIds(r))
      BY <1>2, <1>5, <2>2 DEF Disjoint
    <3>4. r.active = Waiting(r) \cup ReservedIds(r) \cup ProcessingIds(r)
      BY <1>2, <1>5, <2>2
    <3>5. QED
      BY <1>5, <3>1, <3>2, <3>3, <3>4 DEF EachHeldOnce
  <2>5. KeptCopies(r) = KeptCopies(q) /\ e.copy \in KeptCopies(q)
    BY <1>5 DEF KeptCopies
  <2>6. IsFiniteSet(r.reserved)
    BY <1>5, <1>4
  <2>7. QED
    BY <1>5, <2>1, <2>3, <2>4, <2>5, <2>6 DEF SoundQueue
<1>6. ASSUME id \in IdsIn(q.normal) PROVE Good
  <2> DEFINE e == [copy |-> Taken(q.normal, id), priority |-> FALSE]
             s == Without(q.normal, id)
  <2>1. r = [q EXCEPT !.normal = s, !.reserved = @ \cup {e}]
    BY <1>6 DEF Reserved
  <2>2. /\ Taken(q.normal, id) \in Copy /\ Taken(q.normal, id).id = id
        /\ s \in Seq(Copy) /\ Len(s) = Len(q.normal) - 1
    BY <1>1, <1>6, WithoutElements
  <2>3. /\ Distinct(s) /\ ToSet(q.normal) = ToSet(s) \cup {Taken(q.normal, id)}
        /\ IdsIn(s) = IdsIn(q.normal) \ {id}
    BY <1>1, <1>2, <1>6, WithoutCopies
  <2>4. e \in [copy : Copy, priority : BOOLEAN] /\ e.copy = Taken(q.normal, id)
    BY <2>2
  <2> HIDE DEF e, s, r
  <2>5. r = [normal |-> s, priority |-> q.priority, reserved |-> q.reserved \cup {e},
             active |-> q.active, processing |-> q.processing]
    BY <2>1, <1>1 DEF Queues
  <2>6. Size(r) = Size(q)
    <3>1. /\ Len(r.normal) = Len(q.normal) + (0 - 1)
          /\ Len(r.priority) = Len(q.priority) + 0
          /\ Cardinality(r.reserved) = Cardinality(q.reserved) + 1
      <4>1. e.copy.id = id
        BY <2>2, <2>4
      <4>2. Cardinality(q.reserved \cup {e}) = Cardinality(q.reserved) + 1
        BY <4>1, <2>4, <1>4
      <4>3. QED
        BY <4>2, <1>1, <2>2, <2>5
    <3>2. Size(r) = Size(q) + (0 - 1) + 0 + 1
      BY <3>1, <1>1, SizeChanges
    <3>3. QED
      BY <3>2, <1>1
  <2>7. Waiting(r) = Waiting(q) \ {id}
    BY <1>2, <1>6, <2>3, <2>5 DEF Waiting, Disjoint
  <2>8. /\ r.reserved = q.reserved \cup {e}
        /\ r.active = q.active /\ r.processing = q.processing
        /\ r.normal \in Seq(Copy) /\ r.priority \in Seq(Copy)
        /\ Distinct(r.normal) /\ Distinct(r.priority)
        /\ r = [normal |-> r.normal, priority |-> r.priority, reserved |-> r.reserved,
                active |-> r.active, processing |-> r.processing]
    BY <1>1, <1>2, <2>2, <2>3, <2>5
  <2>9. /\ ToSet(q.normal) \cup ToSet(q.priority)
             = ToSet(r.normal) \cup ToSet(r.priority) \cup {e.copy}
        /\ IdsIn(r.normal) \subseteq IdsIn(q.normal)
        /\ IdsIn(r.priority) \subseteq IdsIn(q.priority)
    BY <2>3, <2>4, <2>5
  <2> HIDE DEF Good
  <2>10. QED
    BY <1>5, <2>2, <2>4, <2>6, <2>7, <2>8, <2>9
<1>7. ASSUME id \notin IdsIn(q.normal) PROVE Good
  <2> DEFINE e == [copy |-> Taken(q.priority, id), priority |-> TRUE]
             s == Without(q.priority, id)
  <2>0. id \in IdsIn(q.priority)
    BY <1>7 DEF Waiting
  <2>1. r = [q EXCEPT !.priority = s, !.reserved = @ \cup {e}]
    BY <1>7, <2>0 DEF Reserved
  <2>2. /\ Taken(q.priority, id) \in Copy /\ Taken(q.priority, id).id = id
        /\ s \in Seq(Copy) /\ Len(s) = Len(q.priority) - 1
    BY <1>1, <2>0, WithoutElements
  <2>3. /\ Distinct(s) /\ ToSet(q.priority) = ToSet(s) \cup {Taken(q.priority, id)}
        /\ IdsIn(s) = IdsIn(q.priority) \ {id}
    BY <1>1, <1>2, <2>0, WithoutCopies
  <2>4. e \in [copy : Copy, priority : BOOLEAN] /\ e.copy = Taken(q.priority, id)
    BY <2>2
  <2> HIDE DEF e, s, r
  <2>5. r = [normal |-> q.normal, priority |-> s, reserved |-> q.reserved \cup {e},
             active |-> q.active, processing |-> q.processing]
    BY <2>1, <1>1 DEF Queues
  <2>6. Size(r) = Size(q)
    <3>1. /\ Len(r.normal) = Len(q.normal) + 0
          /\ Len(r.priority) = Len(q.priority) + (0 - 1)
          /\ Cardinality(r.reserved) = Cardinality(q.reserved) + 1
      <4>1. e.copy.id = id
        BY <2>2, <2>4
      <4>2. Cardinality(q.reserved \cup {e}) = Cardinality(q.reserved) + 1
        BY <4>1, <2>4, <1>4
      <4>3. QED
        BY <4>2, <1>1, <2>2, <2>5
    <3>2. Size(r) = Size(q) + 0 + (0 - 1) + 1
      BY <3>1, <1>1, SizeChanges
    <3>3. QED
      BY <3>2, <1>1
  <2>7. Waiting(r) = Waiting(q) \ {id}
    BY <1>2, <1>7, <2>3, <2>5 DEF Waiting, Disjoint
  <2>8. /\ r.reserved = q.reserved \cup {e}
        /\ r.active = q.active /\ r.processing = q.processing
        /\ r.normal \in Seq(Copy) /\ r.priority \in Seq(Copy)
        /\ Distinct(r.normal) /\ Distinct(r.priority)
        /\ r = [normal |-> r.normal, priority |-> r.priority, reserved |-> r.reserved,
                active |-> r.active, processing |-> r.processing]
    BY <1>1, <1>2, <2>2, <2>3, <2>5
  <2>9. /\ ToSet(q.normal) \cup ToSet(q.priority)
             = ToSet(r.normal) \cup ToSet(r.priority) \cup {e.copy}
        /\ IdsIn(r.normal) \subseteq IdsIn(q.normal)
        /\ IdsIn(r.priority) \subseteq IdsIn(q.priority)
    BY <2>3, <2>4, <2>5
  <2> HIDE DEF Good
  <2>10. QED
    BY <1>5, <2>2, <2>4, <2>6, <2>7, <2>8, <2>9
<1>8. PICK e \in [copy : Copy, priority : BOOLEAN] :
        /\ SoundQueue(Copy, r) /\ Size(r) = Size(q)
        /\ KeptCopies(r) = KeptCopies(q) /\ r.processing = q.processing
        /\ r.reserved = q.reserved \cup {e}
        /\ e.copy \in KeptCopies(q) /\ e.copy.id = id
        /\ e \notin q.reserved
  BY <1>6, <1>7
<1> HIDE DEF r
<1>9. Reservation(r, id) = e
  <2>1. \A d \in r.reserved : d.copy.id = id => d = e
    BY <1>8 DEF SoundQueue, EachHeldOnce
  <2>2. QED
    BY <1>8, <2>1 DEF Reservation
<1>10. e.copy \in Copy /\ r # q
  BY <1>8
<1>11. QED
  BY <1>3, <1>8, <1>9, <1>10 DEF r

(* The reservation of an id, and the queue without it. *)
LEMMA ReservationOf ==
  ASSUME NEW Copy, NEW q, SoundQueue(Copy, q), NEW id \in ReservedIds(q)
  PROVE  LET e == Reservation(q, id)
         IN  /\ e \in q.reserved /\ e.copy.id = id
             /\ e \in [copy : Copy, priority : BOOLEAN]
             /\ e.copy \in KeptCopies(q)
             /\ \A d \in q.reserved : d.copy.id = id => d = e
             /\ IsFiniteSet(q.reserved \ {e})
             /\ Cardinality(q.reserved \ {e}) = Cardinality(q.reserved) - 1
<1> DEFINE e == Reservation(q, id)
<1>1. /\ q \in Queues(Copy) /\ IsFiniteSet(q.reserved) /\ EachHeldOnce(q)
  BY DEF SoundQueue
<1>2. e \in q.reserved /\ e.copy.id = id
  BY DEF ReservedIds, Reservation
<1> HIDE DEF e
<1>3. e \in [copy : Copy, priority : BOOLEAN] /\ e.copy \in KeptCopies(q)
  BY <1>1, <1>2 DEF Queues, KeptCopies
<1>4. \A d \in q.reserved : d.copy.id = id => d = e
  BY <1>1, <1>2 DEF EachHeldOnce
<1>5. /\ IsFiniteSet(q.reserved \ {e})
      /\ Cardinality(q.reserved \ {e}) = Cardinality(q.reserved) - 1
  BY <1>1, <1>2, FS_RemoveElement
<1>6. QED
  BY <1>2, <1>3, <1>4, <1>5 DEF e
(* A confirmed transfer takes the copy and its id out of the queue. *)
LEMMA ConfirmedQueue ==
  ASSUME NEW Copy, NEW q, SoundQueue(Copy, q), NEW id \in ReservedIds(q)
  PROVE  LET r == Confirmed(q, id)
             e == Reservation(q, id)
         IN  /\ SoundQueue(Copy, r)
             /\ Size(r) = Size(q) - 1
             /\ KeptCopies(r) = KeptCopies(q) \ {e.copy}
             /\ r.active = q.active \ {id}
             /\ r.reserved = q.reserved \ {e}
             /\ r.processing = q.processing
<1> DEFINE r == Confirmed(q, id)
           e == Reservation(q, id)
<1>1. /\ q \in Queues(Copy) /\ IsFiniteSet(q.reserved) /\ EachHeldOnce(q)
      /\ Len(q.normal) \in Nat /\ Len(q.priority) \in Nat
      /\ Cardinality(q.reserved) \in Nat /\ Size(q) \in Nat
  BY QueueFields DEF SoundQueue
<1>2. /\ e \in q.reserved /\ e.copy.id = id
      /\ \A d \in q.reserved : d.copy.id = id => d = e
      /\ IsFiniteSet(q.reserved \ {e})
      /\ Cardinality(q.reserved \ {e}) = Cardinality(q.reserved) - 1
  BY ReservationOf
<1>3. r = [q EXCEPT !.reserved = @ \ {e}, !.active = @ \ {id}]
  BY <1>1 DEF Confirmed, WithoutReservation, Queues
<1> HIDE DEF r, e
<1>4. r = [normal |-> q.normal, priority |-> q.priority, reserved |-> q.reserved \ {e},
           active |-> q.active \ {id}, processing |-> q.processing]
  BY <1>1, <1>3 DEF Queues
<1>5. r \in Queues(Copy)
  BY <1>1, <1>4 DEF Queues
<1>6. Size(r) = Size(q) - 1
  <2>1. /\ Len(r.normal) = Len(q.normal) + 0
        /\ Len(r.priority) = Len(q.priority) + 0
        /\ Cardinality(r.reserved) = Cardinality(q.reserved) + (0 - 1)
    BY <1>1, <1>2, <1>4
  <2>2. Size(r) = Size(q) + 0 + 0 + (0 - 1)
    BY <2>1, <1>1, SizeChanges
  <2>3. QED
    BY <2>2, <1>1
<1>7. /\ Waiting(r) = Waiting(q) /\ ProcessingIds(r) = ProcessingIds(q)
      /\ ReservedIds(r) = ReservedIds(q) \ {id}
  BY <1>2, <1>4 DEF Waiting, ProcessingIds, ReservedIds
<1>8. id \in ReservedIds(q)
  OBVIOUS
<1>9. EachHeldOnce(r)
  <2>1. /\ Distinct(r.normal) /\ Distinct(r.priority)
        /\ Disjoint(IdsIn(r.normal), IdsIn(r.priority))
        /\ \A c, d \in r.processing : c = d
        /\ \A c, d \in r.reserved : c.copy.id = d.copy.id => c = d
    BY <1>1, <1>4 DEF EachHeldOnce
  <2>2. /\ Disjoint(Waiting(r), ReservedIds(r))
        /\ Disjoint(ProcessingIds(r), Waiting(r) \cup ReservedIds(r))
        /\ r.active = Waiting(r) \cup ReservedIds(r) \cup ProcessingIds(r)
    BY <1>1, <1>4, <1>7, <1>8 DEF EachHeldOnce, Disjoint
  <2>3. QED
    BY <2>1, <2>2 DEF EachHeldOnce
<1>10. KeptCopies(r) = KeptCopies(q) \ {e.copy}
  <2> DEFINE kept == ToSet(q.normal) \cup ToSet(q.priority) \cup q.processing
  <2>1. {c.id : c \in kept} = Waiting(q) \cup ProcessingIds(q)
    <3>1. Waiting(q) = {c.id : c \in ToSet(q.normal) \cup ToSet(q.priority)}
      BY DEF Waiting, IdsIn, ToSet
    <3>2. QED
      BY <3>1 DEF ProcessingIds
  <2>2. id \notin {c.id : c \in kept}
    BY <1>1, <1>8, <2>1 DEF EachHeldOnce, Disjoint
  <2> HIDE DEF kept
  <2>3. e.copy \notin kept
    BY <1>2, <2>2
  <2>4. {d.copy : d \in q.reserved \ {e}} = {d.copy : d \in q.reserved} \ {e.copy}
    <3>1. \A d \in q.reserved : d.copy = e.copy => d = e
      BY <1>2
    <3>2. QED
      BY <3>1
  <2>5. /\ KeptCopies(r) = kept \cup {d.copy : d \in q.reserved \ {e}}
        /\ KeptCopies(q) = kept \cup {d.copy : d \in q.reserved}
    BY <1>4 DEF KeptCopies, kept
  <2>6. QED
    BY <2>3, <2>4, <2>5
<1>11. /\ SoundQueue(Copy, r) /\ r.active = q.active \ {id}
       /\ r.reserved = q.reserved \ {e} /\ r.processing = q.processing
  BY <1>2, <1>4, <1>5, <1>9 DEF SoundQueue
<1>12. QED
  BY <1>6, <1>10, <1>11 DEF r, e

(* A failed transfer puts the copy back in front of the deque it came from. *)
LEMMA ReleasedQueue ==
  ASSUME NEW Copy, NEW q, SoundQueue(Copy, q), NEW id \in ReservedIds(q)
  PROVE  LET r == Released(q, id)
             e == Reservation(q, id)
         IN  /\ SoundQueue(Copy, r)
             /\ Size(r) = Size(q)
             /\ KeptCopies(r) = KeptCopies(q)
             /\ r.active = q.active
             /\ r.reserved = q.reserved \ {e}
             /\ r.processing = q.processing
             /\ r.normal = IF e.priority THEN q.normal ELSE <<e.copy>> \o q.normal
             /\ r.priority = IF e.priority THEN <<e.copy>> \o q.priority ELSE q.priority
<1> DEFINE r == Released(q, id)
           e == Reservation(q, id)
           normal == IF e.priority THEN q.normal ELSE <<e.copy>> \o q.normal
           first  == IF e.priority THEN <<e.copy>> \o q.priority ELSE q.priority
<1>1. /\ q \in Queues(Copy) /\ IsFiniteSet(q.reserved) /\ EachHeldOnce(q)
      /\ q.normal \in Seq(Copy) /\ q.priority \in Seq(Copy)
      /\ Len(q.normal) \in Nat /\ Len(q.priority) \in Nat
      /\ Cardinality(q.reserved) \in Nat /\ Size(q) \in Nat
  BY QueueFields DEF SoundQueue
<1>2. /\ e \in q.reserved /\ e.copy.id = id
      /\ e \in [copy : Copy, priority : BOOLEAN]
      /\ \A d \in q.reserved : d.copy.id = id => d = e
      /\ IsFiniteSet(q.reserved \ {e})
      /\ Cardinality(q.reserved \ {e}) = Cardinality(q.reserved) - 1
  BY ReservationOf
<1>3. r = [normal |-> normal, priority |-> first, reserved |-> q.reserved \ {e},
           active |-> q.active, processing |-> q.processing]
  <2>1. CASE e.priority
    <3>1. r = [[q EXCEPT !.reserved = @ \ {e}] EXCEPT !.priority = <<e.copy>> \o @]
      BY <2>1 DEF Released, WithoutReservation
    <3> HIDE DEF r, e
    <3>2. QED
      BY <2>1, <3>1, <1>1 DEF Queues
  <2>2. CASE ~ e.priority
    <3>1. r = [[q EXCEPT !.reserved = @ \ {e}] EXCEPT !.normal = <<e.copy>> \o @]
      BY <2>2 DEF Released, WithoutReservation
    <3> HIDE DEF r, e
    <3>2. QED
      BY <2>2, <3>1, <1>1 DEF Queues
  <2>3. QED
    BY <2>1, <2>2
<1> DEFINE c == e.copy
<1>4. /\ <<c>> \in Seq(Copy) /\ Len(<<c>>) = 1
      /\ ToSet(<<c>>) = {c} /\ IdsIn(<<c>>) = {id} /\ Distinct(<<c>>)
  <2> HIDE DEF e
  <2>1. c \in Copy /\ c.id = id
    BY <1>2
  <2> HIDE DEF c
  <2>2. <<c>> \in Seq(Copy) /\ Len(<<c>>) = 1 /\ DOMAIN <<c>> = {1} /\ <<c>>[1] = c
    BY <2>1
  <2>3. QED
    BY <2>1, <2>2 DEF ToSet, IdsIn, Distinct
<1>5. id \notin Waiting(q) /\ id \in ReservedIds(q)
  BY <1>1 DEF EachHeldOnce, Disjoint
<1>6. ASSUME NEW s \in Seq(Copy), Distinct(s), id \notin IdsIn(s)
      PROVE  /\ <<c>> \o s \in Seq(Copy) /\ Distinct(<<c>> \o s)
             /\ Len(<<c>> \o s) = 1 + Len(s)
             /\ ToSet(<<c>> \o s) = {c} \cup ToSet(s)
             /\ IdsIn(<<c>> \o s) = {id} \cup IdsIn(s)
  <2>1. Disjoint(IdsIn(<<c>>), IdsIn(s))
    BY <1>4, <1>6 DEF Disjoint
  <2> DEFINE u == <<c>>
  <2>2. /\ u \in Seq(Copy) /\ Len(u) = 1
        /\ ToSet(u) = {c} /\ IdsIn(u) = {id} /\ Distinct(u)
        /\ Disjoint(IdsIn(u), IdsIn(s))
    BY <2>1, <1>4
  <2> HIDE DEF u, c
  <2>3. /\ u \o s \in Seq(Copy) /\ Distinct(u \o s)
        /\ Len(u \o s) = Len(u) + Len(s)
        /\ ToSet(u \o s) = ToSet(u) \cup ToSet(s)
        /\ IdsIn(u \o s) = IdsIn(u) \cup IdsIn(s)
    <3>1. s \in Seq(Copy) /\ Distinct(s)
      BY <1>6
    <3>2. u \o s \in Seq(Copy) /\ Len(u \o s) = Len(u) + Len(s)
      BY ONLY <2>2, <3>1, ConcatCopies
    <3>3. u \in Seq(Copy) /\ s \in Seq(Copy)
      BY <2>2, <3>1
    <3>4. ToSet(u \o s) = ToSet(u) \cup ToSet(s) /\ IdsIn(u \o s) = IdsIn(u) \cup IdsIn(s)
      BY ONLY <3>3, ConcatCopies
    <3>5. Distinct(u \o s)
      BY ONLY <2>2, <3>1, ConcatCopies, Zenon
    <3>6. QED
      BY <3>2, <3>4, <3>5
  <2>4. QED
    BY <2>2, <2>3 DEF u
<1>7. /\ Distinct(q.normal) /\ Distinct(q.priority)
      /\ id \notin IdsIn(q.normal) /\ id \notin IdsIn(q.priority)
  BY <1>1, <1>5 DEF EachHeldOnce, Waiting
<1> HIDE DEF r, e
<1>8. /\ r.normal \in Seq(Copy) /\ r.priority \in Seq(Copy)
      /\ Distinct(r.normal) /\ Distinct(r.priority)
      /\ Size(r) = Size(q)
      /\ ToSet(r.normal) \cup ToSet(r.priority)
           = ToSet(q.normal) \cup ToSet(q.priority) \cup {c}
      /\ Waiting(r) = Waiting(q) \cup {id}
      /\ Disjoint(IdsIn(r.normal), IdsIn(r.priority))
  <2>0. Disjoint(IdsIn(q.normal), IdsIn(q.priority))
    BY <1>1 DEF EachHeldOnce
  <2>1. CASE e.priority
    <3> DEFINE s == <<c>> \o q.priority
    <3>1. /\ s \in Seq(Copy) /\ Distinct(s)
          /\ Len(s) = 1 + Len(q.priority)
          /\ ToSet(s) = {c} \cup ToSet(q.priority)
          /\ IdsIn(s) = {id} \cup IdsIn(q.priority)
      BY <1>1, <1>6, <1>7
    <3>2. r.normal = q.normal /\ r.priority = s /\ r.reserved = q.reserved \ {e}
      BY <1>3, <2>1
    <3> HIDE DEF s, c
    <3>3. Size(r) = Size(q) + 0 + 1 + (0 - 1)
      <4>1. /\ Len(r.normal) = Len(q.normal) + 0
            /\ Len(r.priority) = Len(q.priority) + 1
            /\ Cardinality(r.reserved) = Cardinality(q.reserved) + (0 - 1)
        BY <1>1, <1>2, <3>1, <3>2
      <4>2. QED
        BY <4>1, <1>1, SizeChanges
    <3>4. Size(r) = Size(q)
      BY <3>3, <1>1
    <3>5. QED
      BY <1>1, <1>7, <2>0, <3>1, <3>2, <3>4 DEF Waiting, Disjoint
  <2>2. CASE ~ e.priority
    <3> DEFINE s == <<c>> \o q.normal
    <3>1. /\ s \in Seq(Copy) /\ Distinct(s)
          /\ Len(s) = 1 + Len(q.normal)
          /\ ToSet(s) = {c} \cup ToSet(q.normal)
          /\ IdsIn(s) = {id} \cup IdsIn(q.normal)
      BY <1>1, <1>6, <1>7
    <3>2. r.normal = s /\ r.priority = q.priority /\ r.reserved = q.reserved \ {e}
      BY <1>3, <2>2
    <3> HIDE DEF s, c
    <3>3. Size(r) = Size(q) + 1 + 0 + (0 - 1)
      <4>1. /\ Len(r.normal) = Len(q.normal) + 1
            /\ Len(r.priority) = Len(q.priority) + 0
            /\ Cardinality(r.reserved) = Cardinality(q.reserved) + (0 - 1)
        BY <1>1, <1>2, <3>1, <3>2
      <4>2. QED
        BY <4>1, <1>1, SizeChanges
    <3>4. Size(r) = Size(q)
      BY <3>3, <1>1
    <3>5. QED
      BY <1>1, <1>7, <2>0, <3>1, <3>2, <3>4 DEF Waiting, Disjoint
  <2>3. QED
    BY <2>1, <2>2
<1>9. /\ r.active = q.active /\ r.processing = q.processing
      /\ r.reserved = q.reserved \ {e}
      /\ r = [normal |-> r.normal, priority |-> r.priority, reserved |-> r.reserved,
              active |-> r.active, processing |-> r.processing]
  BY <1>3
<1>10. r \in Queues(Copy)
  <2>1. /\ r.reserved \in SUBSET [copy : Copy, priority : BOOLEAN]
        /\ r.active \in SUBSET {d.id : d \in Copy} /\ r.processing \in SUBSET Copy
    BY <1>1, <1>9 DEF Queues
  <2>2. QED
    BY <1>8, <1>9, <2>1 DEF Queues
<1>11. EachHeldOnce(r)
  <2>1. ReservedIds(r) = ReservedIds(q) \ {id} /\ ProcessingIds(r) = ProcessingIds(q)
    BY <1>2, <1>9 DEF ReservedIds, ProcessingIds
  <2>2. /\ \A d, g \in r.processing : d = g
        /\ \A d, g \in r.reserved : d.copy.id = g.copy.id => d = g
    BY <1>1, <1>9 DEF EachHeldOnce
  <2>3. /\ Disjoint(Waiting(r), ReservedIds(r))
        /\ Disjoint(ProcessingIds(r), Waiting(r) \cup ReservedIds(r))
        /\ r.active = Waiting(r) \cup ReservedIds(r) \cup ProcessingIds(r)
    BY <1>1, <1>5, <1>8, <1>9, <2>1 DEF EachHeldOnce, Disjoint
  <2>4. QED
    BY <1>8, <2>2, <2>3 DEF EachHeldOnce
<1>12. KeptCopies(r) = KeptCopies(q)
  <2>1. {d.copy : d \in q.reserved} = {d.copy : d \in q.reserved \ {e}} \cup {c}
    BY <1>2
  <2>2. QED
    BY <2>1, <1>8, <1>9 DEF KeptCopies
<1>13. SoundQueue(Copy, r)
  BY <1>2, <1>9, <1>10, <1>11 DEF SoundQueue
<1>14. r.normal = normal /\ r.priority = first
  BY <1>3
<1>15. QED
  BY <1>8, <1>9, <1>12, <1>13, <1>14 DEF r, e

(* The same, where it does not matter to which end of which deque. *)
LEMMA ReleasedKeepsQueue ==
  ASSUME NEW Copy, NEW q, SoundQueue(Copy, q), NEW id \in ReservedIds(q)
  PROVE  LET r == Released(q, id)
         IN  /\ SoundQueue(Copy, r)
             /\ Size(r) = Size(q)
             /\ r.active = q.active
             /\ r.reserved = q.reserved \ {Reservation(q, id)}
<1> DEFINE r == Released(q, id)
           e == Reservation(q, id)
<1>1. /\ SoundQueue(Copy, r) /\ Size(r) = Size(q)
      /\ KeptCopies(r) = KeptCopies(q) /\ r.active = q.active
      /\ r.reserved = q.reserved \ {e} /\ r.processing = q.processing
      /\ r.normal = IF e.priority THEN q.normal ELSE <<e.copy>> \o q.normal
      /\ r.priority = IF e.priority THEN <<e.copy>> \o q.priority ELSE q.priority
  BY ReleasedQueue
<1>2. QED
  BY <1>1

(* The candidates are copies of the two deques. *)
LEMMA CandidatesAreCopies ==
  ASSUME NEW Copy, NEW q \in Queues(Copy), NEW n \in Int
  PROVE  Candidates(q, n) \in Seq(Copy)
<1>1. ASSUME NEW s \in Seq(Copy), NEW k \in Int
      PROVE  LastOf(s, k) \in Seq(Copy)
  <2> DEFINE m == IF k < Len(s) THEN Len(s) - k + 1 ELSE 1
  <2>1. Len(s) \in Nat
    BY LenProperties
  <2>2. m \in Int /\ m >= 1
    BY <2>1
  <2> HIDE DEF m
  <2>3. SubSeq(s, m, Len(s)) \in Seq(Copy)
    BY <2>1, <2>2, SubSeqProperties
  <2>4. QED
    BY <2>3 DEF LastOf, m
<1> DEFINE tail == LastOf(q.normal, n)
<1>2. q.normal \in Seq(Copy) /\ q.priority \in Seq(Copy)
  BY DEF Queues
<1>3. tail \in Seq(Copy)
  BY <1>1, <1>2
<1>4. Candidates(q, n) = tail \o LastOf(q.priority, n - Len(tail))
  BY DEF Candidates
<1> HIDE DEF tail
<1>5. n - Len(tail) \in Int
  BY <1>3, LenProperties
<1>6. LastOf(q.priority, n - Len(tail)) \in Seq(Copy)
  BY <1>1, <1>2, <1>5
<1>7. QED
  BY <1>3, <1>4, <1>6, ConcatProperties

-----------------------------------------------------------------------------
(* The copies a transfer holds, in the order it reserved them.             *)

\* They are the reserved ones, each once.
HoldsReserved(held, q) ==
  /\ Distinct(held)
  /\ {r.copy : r \in q.reserved} = ToSet(held)

(* One more copy at the end of what is held. *)
LEMMA HeldOneMore ==
  ASSUME NEW Copy, NEW s \in Seq(Copy), NEW c \in Copy, Distinct(s), c.id \notin IdsIn(s)
  PROVE  /\ Append(s, c) \in Seq(Copy)
         /\ Distinct(Append(s, c))
         /\ ToSet(Append(s, c)) = ToSet(s) \cup {c}
<1> DEFINE u == <<c>>
<1>1. Append(s, c) = s \o u
  BY AppendIsConcat
<1>2. u \in Seq(Copy) /\ DOMAIN u = {1} /\ u[1] = c
  OBVIOUS
<1> HIDE DEF u
<1>3. ToSet(u) = {c} /\ IdsIn(u) = {c.id} /\ Distinct(u)
  BY <1>2 DEF ToSet, IdsIn, Distinct
<1>4. Disjoint(IdsIn(s), IdsIn(u))
  BY <1>3 DEF Disjoint
<1>5. /\ s \o u \in Seq(Copy)
      /\ ToSet(s \o u) = ToSet(s) \cup ToSet(u)
      /\ Distinct(s) /\ Distinct(u) /\ Disjoint(IdsIn(s), IdsIn(u)) => Distinct(s \o u)
  BY ONLY s \in Seq(Copy), <1>2, ConcatCopies
<1>6. QED
  BY <1>1, <1>3, <1>4, <1>5

(* Reserving one more copy. *)
LEMMA ReserveOneMore ==
  ASSUME NEW Copy, NEW q, SoundQueue(Copy, q), NEW id \in Waiting(q),
         NEW held \in Seq(Copy), HoldsReserved(held, q)
  PROVE  LET r == Reserved(q, id)
             more == Append(held, Reservation(r, id).copy)
         IN  /\ more \in Seq(Copy) /\ more # <<>>
             /\ HoldsReserved(more, r)
             /\ ToSet(more) = ToSet(held) \cup {Reservation(r, id).copy}
<1> DEFINE r == Reserved(q, id)
           e == Reservation(r, id)
           more == Append(held, e.copy)
<1>1. /\ r.reserved = q.reserved \cup {e}
      /\ e.copy \in Copy /\ e.copy.id = id
      /\ id \notin ReservedIds(q)
  BY ReservedQueue
<1> HIDE DEF r, e
<1>2. IdsIn(held) = ReservedIds(q)
  <2>1. IdsIn(held) = {c.id : c \in ToSet(held)}
    BY DEF IdsIn, ToSet
  <2>2. ReservedIds(q) = {c.id : c \in {d.copy : d \in q.reserved}}
    BY DEF ReservedIds
  <2>3. QED
    BY <2>1, <2>2 DEF HoldsReserved
<1>3. /\ more \in Seq(Copy) /\ Distinct(more)
      /\ ToSet(more) = ToSet(held) \cup {e.copy}
  BY <1>1, <1>2, HeldOneMore DEF HoldsReserved
<1>4. more # <<>>
  BY <1>1, AppendProperties
<1> HIDE DEF more
<1>5. {d.copy : d \in r.reserved} = ToSet(more)
  BY <1>1, <1>3 DEF HoldsReserved
<1>6. QED
  BY <1>3, <1>4, <1>5 DEF HoldsReserved, r, e, more

(* The copy settled next is the reserved one of its id, and what is held   *)
(* afterwards are the other reserved copies.                               *)
LEMMA NextToSettle ==
  ASSUME NEW Copy, NEW q, SoundQueue(Copy, q),
         NEW h \in Seq(Copy), h # <<>>, HoldsReserved(h, q)
  PROVE  LET c == Head(h)
             e == Reservation(q, c.id)
         IN  /\ c \in Copy /\ c \in ToSet(h) /\ c.id \in ReservedIds(q)
             /\ e \in q.reserved /\ e.copy = c
             /\ Tail(h) \in Seq(Copy)
             /\ ToSet(Tail(h)) = ToSet(h) \ {c}
             /\ Len(h) = 1 <=> Tail(h) = <<>>
             /\ \A r : r.reserved = q.reserved \ {e} => HoldsReserved(Tail(h), r)
<1> DEFINE c == Head(h)
           rest == Tail(h)
           e == Reservation(q, c.id)
<1>1. Distinct(h) /\ {d.copy : d \in q.reserved} = ToSet(h)
  BY DEF HoldsReserved
<1>2. /\ c \in Copy /\ c \in ToSet(h)
      /\ rest \in Seq(Copy) /\ Len(rest) = Len(h) - 1 /\ Distinct(rest)
      /\ ToSet(h) = ToSet(rest) \cup {c}
      /\ IdsIn(rest) = IdsIn(h) \ {c.id}
  BY ONLY h \in Seq(Copy), h # <<>>, <1>1, TailCopies
<1> HIDE DEF c, rest
<1>3. PICK d \in q.reserved : d.copy = c
  BY <1>1, <1>2
<1>4. c.id \in ReservedIds(q)
  BY <1>3 DEF ReservedIds
<1>5. /\ e \in q.reserved
      /\ \A f \in q.reserved : f.copy.id = c.id => f = e
  BY <1>4, ReservationOf
<1> HIDE DEF e
<1>6. e.copy = c
  BY <1>3, <1>5
<1>7. c \notin ToSet(rest)
  BY <1>2 DEF ToSet, IdsIn
<1>8. {f.copy : f \in q.reserved \ {e}} = ToSet(h) \ {c}
  <2>1. \A f \in q.reserved \ {e} : f.copy # c
    BY <1>5
  <2>2. QED
    BY <1>1, <1>6, <2>1
<1>9. ToSet(h) \ {c} = ToSet(rest)
  BY <1>2, <1>7
<1>10. Len(h) = 1 <=> rest = <<>>
  <2>1. Len(h) \in Nat /\ Len(rest) \in Nat
    BY <1>2, LenProperties
  <2>2. Len(rest) = 0 <=> rest = <<>>
    BY <1>2, EmptySeq
  <2>3. QED
    BY <1>2, <2>1, <2>2
<1>11. ASSUME NEW r, r.reserved = q.reserved \ {e}
       PROVE  HoldsReserved(rest, r)
  BY <1>2, <1>8, <1>9, <1>11 DEF HoldsReserved
<1>12. QED
  BY <1>2, <1>4, <1>5, <1>6, <1>9, <1>10, <1>11 DEF c, rest, e
=============================================================================
