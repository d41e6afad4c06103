-------------------------- MODULE MasterCoreProofs --------------------------
(***************************************************************************)
(* Every critical section of the master preserves what its condition lock  *)
(* protects, whoever enters the sections and in whatever order.            *)
(***************************************************************************)
EXTENDS MasterCore, TLAPS, FiniteSetTheorems, SequenceTheorems,
        WellFoundedInduction

LEMMA TasksFinite == IsFiniteSet(Tasks) /\ Cardinality(Tasks) = TaskCount
<1>1. TaskCount \in Int /\ TaskCount >= 1
  BY CountsAssumption DEF CountsAssumption
<1>2. QED
  BY <1>1, FS_Interval DEF Tasks

-----------------------------------------------------------------------------
(* The queues of the master, as sequences without repetition.              *)

(* A task that a queue does not list may be appended to it. *)
LEMMA ListsAppend ==
  ASSUME NEW s \in Seq(Tasks), NEW t \in Tasks, ListedOnce(s), ~ Lists(s, t)
  PROVE  /\ Append(s, t) \in Seq(Tasks)
         /\ ListedOnce(Append(s, t))
         /\ \A u : Lists(Append(s, t), u) <=> Lists(s, u) \/ u = t
<1> DEFINE a == Append(s, t)
<1>1. /\ a \in Seq(Tasks)
      /\ Len(s) \in Nat
      /\ Len(a) = Len(s) + 1
      /\ DOMAIN s = 1 .. Len(s)
      /\ DOMAIN a = 1 .. Len(s) + 1
      /\ \A i \in 1 .. Len(s) : a[i] = s[i]
      /\ a[Len(s) + 1] = t
  BY AppendProperties, LenProperties
<1>2. \A i \in DOMAIN a : i \in DOMAIN s \/ i = Len(s) + 1
  BY <1>1
<1> HIDE DEF a
<1>3. ListedOnce(a)
  BY <1>1, <1>2 DEF ListedOnce, Lists
<1>4. \A u : Lists(a, u) <=> Lists(s, u) \/ u = t
  BY <1>1, <1>2 DEF Lists
<1>5. QED
  BY <1>1, <1>3, <1>4 DEF a

(* Taking the head of a queue removes that task and no other. *)
LEMMA ListsTail ==
  ASSUME NEW s \in Seq(Tasks), ListedOnce(s), s # <<>>
  PROVE  /\ Head(s) \in Tasks
         /\ Lists(s, Head(s))
         /\ Tail(s) \in Seq(Tasks)
         /\ ListedOnce(Tail(s))
         /\ \A u : Lists(Tail(s), u) <=> Lists(s, u) /\ u # Head(s)
<1> DEFINE r == Tail(s)
<1>1. /\ Head(s) \in Tasks
      /\ r \in Seq(Tasks)
      /\ Len(s) \in Nat \ {0}
      /\ Len(r) = Len(s) - 1
      /\ \A i \in 1 .. Len(s) - 1 : r[i] = s[i + 1]
      /\ DOMAIN s = 1 .. Len(s)
      /\ DOMAIN r = 1 .. Len(s) - 1
      /\ Head(s) = s[1]
  BY HeadTailProperties, LenProperties, EmptySeq
<1> HIDE DEF r
<1>2. 1 \in DOMAIN s /\ \A i \in DOMAIN r : i + 1 \in DOMAIN s /\ r[i] = s[i + 1] /\ i + 1 # 1
  BY <1>1
<1>3. \A i \in DOMAIN s : i = 1 \/ (i - 1 \in DOMAIN r /\ s[i] = r[i - 1])
  BY <1>1
<1>4. ListedOnce(r)
  <2> SUFFICES ASSUME NEW i \in DOMAIN r, NEW j \in DOMAIN r, r[i] = r[j]
               PROVE  i = j
    BY DEF ListedOnce
  <2>1. i + 1 = j + 1
    BY <1>2 DEF ListedOnce
  <2>2. QED
    BY <1>1, <2>1
<1>5. \A u : Lists(r, u) <=> Lists(s, u) /\ u # Head(s)
  <2>1. ASSUME NEW u, Lists(r, u) PROVE Lists(s, u) /\ u # Head(s)
    <3>1. PICK i \in DOMAIN r : r[i] = u
      BY <2>1 DEF Lists
    <3>2. i + 1 \in DOMAIN s /\ s[i + 1] = u /\ i + 1 # 1
      BY <3>1, <1>2
    <3>3. s[i + 1] # s[1]
      BY <3>2, <1>2 DEF ListedOnce
    <3>4. QED
      BY <3>2, <3>3, <1>1 DEF Lists
  <2>2. ASSUME NEW u, Lists(s, u), u # Head(s) PROVE Lists(r, u)
    BY <2>2, <1>1, <1>3 DEF Lists
  <2>3. QED
    BY <2>1, <2>2
<1>6. QED
  BY <1>1, <1>2, <1>4, <1>5 DEF r, Lists

(* Tasks that a queue does not list may join it in any order. *)
LEMMA ListsConcat ==
  ASSUME NEW s \in Seq(Tasks), NEW S \in SUBSET Tasks, NEW order \in Orders(S),
         ListedOnce(s), \A t \in S : ~ Lists(s, t)
  PROVE  /\ s \o order \in Seq(Tasks)
         /\ ListedOnce(s \o order)
         /\ \A u : Lists(s \o order, u) <=> Lists(s, u) \/ u \in S
<1> DEFINE n == Cardinality(S)
           c == s \o order
<1>1. n \in Nat
  BY TasksFinite, FS_Subset, FS_CardinalityType
<1>2. /\ order \in [1 .. n -> S]
      /\ \A i, j \in 1 .. n : order[i] = order[j] => i = j
      /\ \A t \in S : \E i \in 1 .. n : order[i] = t
  BY DEF Orders, Bijection, Injection, Surjection, IsInjective
<1>3. order \in Seq(Tasks) /\ Len(order) = n
  <2>1. order \in [1 .. n -> Tasks]
    BY <1>2
  <2>2. QED
    BY <1>1, <2>1, SeqDef
<1>4. /\ c \in Seq(Tasks)
      /\ Len(s) \in Nat
      /\ DOMAIN s = 1 .. Len(s)
      /\ DOMAIN c = 1 .. Len(s) + n
      /\ \A i \in 1 .. Len(s) + n : c[i] = IF i <= Len(s) THEN s[i] ELSE order[i - Len(s)]
  <2>1. c \in Seq(Tasks) /\ Len(c) = Len(s) + n
    BY <1>3, ConcatProperties
  <2>2. Len(s) \in Nat /\ DOMAIN s = 1 .. Len(s) /\ DOMAIN c = 1 .. Len(s) + n
    BY <2>1, LenProperties
  <2>3. \A i \in 1 .. Len(s) + n : c[i] = IF i <= Len(s) THEN s[i] ELSE order[i - Len(s)]
    BY <1>3, ConcatProperties
  <2>4. QED
    BY <2>1, <2>2, <2>3
<1> HIDE DEF n, c
<1>5. \A i \in DOMAIN c : \/ i \in DOMAIN s /\ c[i] = s[i]
                          \/ i - Len(s) \in 1 .. n /\ c[i] = order[i - Len(s)]
  BY <1>1, <1>4
<1>6. \A i \in DOMAIN s : i \in DOMAIN c /\ c[i] = s[i]
  BY <1>1, <1>4
<1>7. \A i \in 1 .. n : i + Len(s) \in DOMAIN c /\ c[i + Len(s)] = order[i]
  BY <1>1, <1>4
<1>8. \A i \in DOMAIN s, j \in 1 .. n : s[i] # order[j]
  BY <1>2 DEF Lists
<1>9. ListedOnce(c)
  <2> SUFFICES ASSUME NEW i \in DOMAIN c, NEW j \in DOMAIN c, c[i] = c[j]
               PROVE  i = j
    BY DEF ListedOnce
  <2>1. CASE i \in DOMAIN s /\ c[i] = s[i] /\ j \in DOMAIN s /\ c[j] = s[j]
    BY <2>1 DEF ListedOnce
  <2>2. CASE /\ i - Len(s) \in 1 .. n /\ c[i] = order[i - Len(s)]
             /\ j - Len(s) \in 1 .. n /\ c[j] = order[j - Len(s)]
    <3>1. i - Len(s) = j - Len(s)
      BY <2>2, <1>2
    <3>2. QED
      BY <3>1, <1>4, <1>1
  <2>3. QED
    BY <2>1, <2>2, <1>5, <1>8
<1>10. \A u : Lists(c, u) <=> Lists(s, u) \/ u \in S
  <2>1. ASSUME NEW u, Lists(c, u) PROVE Lists(s, u) \/ u \in S
    BY <2>1, <1>5, <1>2 DEF Lists
  <2>2. ASSUME NEW u, Lists(s, u) PROVE Lists(c, u)
    BY <2>2, <1>6 DEF Lists
  <2>3. ASSUME NEW u, u \in S PROVE Lists(c, u)
    BY <2>3, <1>7, <1>2 DEF Lists
  <2>4. QED
    BY <2>1, <2>2, <2>3
<1>11. QED
  BY <1>4, <1>9, <1>10 DEF c

(* The entries that _next_task_locked skips do not exist: what is left of  *)
(* a queue after skipping them is the queue.                               *)
LEMMA FromFirstIsAll ==
  ASSUME NEW s \in Seq(Tasks), NEW state,
         \A t \in Tasks : Lists(s, t) => taskState[t] = state
  PROVE  FromFirst(s, state) = s
<1> DEFINE live == {i \in DOMAIN s : taskState[s[i]] = state}
<1>1. DOMAIN s = 1 .. Len(s) /\ Len(s) \in Nat /\ \A i \in DOMAIN s : s[i] \in Tasks
  BY LenProperties, ElementOfSeq
<1>2. live = 1 .. Len(s)
  BY <1>1 DEF Lists
<1>3. CASE s = <<>>
  <2>1. live = {}
    BY <1>2, <1>3, EmptySeq
  <2>2. QED
    BY <2>1, <1>3 DEF FromFirst
<1>4. CASE s # <<>>
  <2>1. Len(s) >= 1
    BY <1>4, <1>1, EmptySeq
  <2>2. 1 \in live /\ \A i \in live : 1 <= i
    BY <1>1, <1>2, <2>1
  <2>3. Min(live) = 1
    <3>1. \A x \in live : (\A y \in live : x <= y) => x = 1
      BY <2>2, <1>2
    <3>2. QED
      BY <2>2, <3>1 DEF Min
  <2>4. FromFirst(s, state) = SubSeq(s, 1, Len(s))
    BY <2>2, <2>3 DEF FromFirst
  <2>5. QED
    BY <2>4, SubSeqFull
<1>5. QED
  BY <1>3, <1>4

(* The master skips no entry of its queues: all of them wait. *)
LEMMA QueuesAreLive ==
  ASSUME CoreInv
  PROVE  Retries = retryTasks /\ Pendings = normalTasks
<1>1. retryTasks \in Seq(Tasks) /\ normalTasks \in Seq(Tasks)
  BY DEF CoreInv, CoreTypeOK
<1>2. /\ \A t \in Tasks : Lists(retryTasks, t) => taskState[t] = "retry"
      /\ \A t \in Tasks : Lists(normalTasks, t) => taskState[t] = "pending"
  BY DEF CoreInv, QueuesMatchStates
<1>3. QED
  BY <1>1, <1>2, FromFirstIsAll DEF Retries, Pendings

(* The task that is next: listed first in the queue it is taken from. *)
LEMMA NextTaskIsFirst ==
  ASSUME CoreInv, HasTask
  PROVE  /\ NextTask \in Tasks
         /\ FromRetry => retryTasks # <<>> /\ NextTask = Head(retryTasks)
                           /\ taskState[NextTask] = "retry"
         /\ ~ FromRetry => retryTasks = <<>> /\ normalTasks # <<>>
                             /\ NextTask = Head(normalTasks)
                             /\ taskState[NextTask] = "pending"
<1>1. Retries = retryTasks /\ Pendings = normalTasks
  BY QueuesAreLive
<1>2. retryTasks \in Seq(Tasks) /\ normalTasks \in Seq(Tasks)
  BY DEF CoreInv, CoreTypeOK
<1>3. QueuesMatchStates
  BY DEF CoreInv
<1>4. CASE FromRetry
  <2>1. retryTasks # <<>> /\ NextTask = Head(retryTasks)
    BY <1>1, <1>4 DEF FromRetry, NextTask
  <2>2. NextTask \in Tasks /\ Lists(retryTasks, NextTask)
    BY <2>1, <1>2, <1>3, ListsTail DEF QueuesMatchStates
  <2>3. QED
    BY <2>1, <2>2, <1>3, <1>4 DEF QueuesMatchStates
<1>5. CASE ~ FromRetry
  <2>1. retryTasks = <<>> /\ normalTasks # <<>> /\ NextTask = Head(normalTasks)
    BY <1>1, <1>5 DEF FromRetry, NextTask, HasTask
  <2>2. NextTask \in Tasks /\ Lists(normalTasks, NextTask)
    BY <2>1, <1>2, <1>3, ListsTail DEF QueuesMatchStates
  <2>3. QED
    BY <2>1, <2>2, <1>3, <1>5 DEF QueuesMatchStates
<1>6. QED
  BY <1>4, <1>5

-----------------------------------------------------------------------------
(* One lemma a section.                                                    *)

(* The state that _prepare_tasks leaves. *)
LEMMA CoreInitInv == CoreInit => CoreInv
<1> SUFFICES ASSUME CoreInit PROVE CoreInv
  OBVIOUS
<1> USE DEF CoreInit
<1>1. normalTasks \in Seq(Tasks) /\ DOMAIN normalTasks = Tasks
  <2>1. normalTasks \in [1 .. TaskCount -> Tasks] /\ TaskCount \in Nat
    BY CountsAssumption DEF CountsAssumption, Tasks
  <2>2. QED
    BY <2>1, SeqDef DEF Tasks
<1>2. retryTasks \in Seq(Tasks) /\ DOMAIN retryTasks = {}
  BY EmptySeq
<1>3. CoreTypeOK
  <2>1. 0 \in 0 .. Capacity
    BY CapacityAssumption DEF CapacityAssumption
  <2>2. QED
    BY <1>1, <1>2, <2>1 DEF CoreTypeOK
<1>4. AssignedToOne
  BY DEF AssignedToOne
<1>5. QueuesMatchStates
  BY <1>1, <1>2 DEF QueuesMatchStates, ListedOnce, Lists
<1>6. StoreMatchesStates /\ AvoidsPrevious
  BY DEF StoreMatchesStates, AvoidsPrevious
<1>7. QED
  BY <1>3, <1>4, <1>5, <1>6 DEF CoreInv

(* Steps of other threads outside of the sections. *)
LEMMA StutterInv == CoreInv /\ UNCHANGED coreVars => CoreInv'
BY DEF CoreInv, CoreTypeOK, AssignedToOne, QueuesMatchStates, Lists, ListedOnce,
       StoreMatchesStates, AvoidsPrevious, coreVars

(* A QUEUE_STATUS changes a size and nothing that the rest depends on. *)
LEMMA UpdateStatusInv ==
  ASSUME CoreInv, NEW w \in Workers, NEW size \in 0 .. Capacity, UpdateStatus(w, size)
  PROVE  CoreInv'
<1>1. CoreTypeOK'
  BY DEF CoreInv, CoreTypeOK, UpdateStatus
<1>2. (AssignedToOne /\ QueuesMatchStates /\ StoreMatchesStates /\ AvoidsPrevious)'
  BY DEF CoreInv, AssignedToOne, QueuesMatchStates, Lists, ListedOnce,
         StoreMatchesStates, AvoidsPrevious, UpdateStatus
<1>3. QED
  BY <1>1, <1>2 DEF CoreInv

(* What a current result says about the task. *)
LEMMA CurrentTask ==
  ASSUME CoreInv, NEW t \in Tasks, NEW a \in Workers, IsCurrent(t, a)
  PROVE  /\ taskState[t] = "assigned"
         /\ assignmentWorker[t] = a
         /\ ~ Lists(retryTasks, t)
         /\ ~ Lists(normalTasks, t)
         /\ \A w \in Workers : t \in assigned[w] => w = a
BY DEF CoreInv, AssignedToOne, QueuesMatchStates, IsCurrent

(* A current success moves one task from its worker to the store. *)
LEMMA RecordSuccessInv ==
  ASSUME CoreInv, NEW t \in Tasks, NEW a \in Workers, IsCurrent(t, a), RecordSuccess(t)
  PROVE  CoreInv'
<1> USE DEF CoreInv, RecordSuccess, Unassigned
<1>1. taskState[t] = "assigned" /\ ~ Lists(retryTasks, t) /\ ~ Lists(normalTasks, t)
  BY CurrentTask
<1>2. \A u \in Tasks : taskState'[u] = IF u = t THEN "done" ELSE taskState[u]
  BY DEF CoreTypeOK
<1>3. CoreTypeOK'
  BY DEF CoreTypeOK
<1>4. AssignedToOne'
  <2>1. \A v \in Workers : assigned'[v] = assigned[v] \ {t}
    OBVIOUS
  <2>2. QED
    BY <2>1, <1>2 DEF AssignedToOne
<1>5. QueuesMatchStates'
  BY <1>1, <1>2 DEF QueuesMatchStates, Lists, ListedOnce
<1>6. StoreMatchesStates' /\ AvoidsPrevious'
  BY <1>2 DEF StoreMatchesStates, AvoidsPrevious
<1>7. QED
  BY <1>3, <1>4, <1>5, <1>6

(* A current failure moves one task from its worker to the retry queue. *)
LEMMA RecordFailureInv ==
  ASSUME CoreInv, NEW t \in Tasks, NEW a \in Workers, IsCurrent(t, a),
         NEW reporter \in Workers, NEW overflow \in BOOLEAN,
         RecordFailure(reporter, t, overflow)
  PROVE  CoreInv'
<1> USE DEF CoreInv, RecordFailure, Unassigned
<1>1. taskState[t] = "assigned" /\ ~ Lists(retryTasks, t) /\ ~ Lists(normalTasks, t)
  BY CurrentTask
<1>2. \A u \in Tasks : taskState'[u] = IF u = t THEN "retry" ELSE taskState[u]
  BY DEF CoreTypeOK
<1>3. /\ retryTasks' \in Seq(Tasks)
      /\ ListedOnce(retryTasks')
      /\ \A u \in Tasks : Lists(retryTasks', u) <=> Lists(retryTasks, u) \/ u = t
  BY <1>1, ListsAppend DEF CoreTypeOK, QueuesMatchStates
<1>4. CoreTypeOK'
  BY <1>3 DEF CoreTypeOK
<1>5. AssignedToOne'
  BY <1>2 DEF AssignedToOne, CoreTypeOK
<1>6. QueuesMatchStates'
  BY <1>1, <1>2, <1>3 DEF QueuesMatchStates
<1>7. StoreMatchesStates' /\ AvoidsPrevious'
  BY <1>1, <1>2 DEF StoreMatchesStates, AvoidsPrevious, CoreTypeOK
<1>8. QED
  BY <1>4, <1>5, <1>6, <1>7

(* A lost worker gives back all its tasks, each to the retry queue once. *)
LEMMA DisconnectWorkerInv ==
  ASSUME CoreInv, NEW w \in Workers, DisconnectWorker(w)
  PROVE  CoreInv'
<1> DEFINE lost == {t \in assigned[w] : taskState[t] = "assigned"}
<1>1. CASE ~ connected[w]
  BY <1>1, StutterInv DEF DisconnectWorker
<1>2. CASE connected[w]
  <2> USE DEF CoreInv
  <2>1. /\ connected' = [connected EXCEPT ![w] = FALSE]
        /\ taskState' = [t \in Tasks |-> IF t \in lost THEN "retry" ELSE taskState[t]]
        /\ previousWorker' = [t \in Tasks |-> IF t \in lost THEN w ELSE previousWorker[t]]
        /\ \E order \in Orders(lost) : retryTasks' = retryTasks \o order
        /\ assigned' = [assigned EXCEPT ![w] = {}]
        /\ UNCHANGED <<attempt, assignmentWorker, normalTasks, store, queueSize>>
    BY <1>2 DEF DisconnectWorker
  <2>2. lost \in SUBSET Tasks /\ lost = assigned[w]
    BY DEF CoreTypeOK, AssignedToOne
  <2>3. \A t \in lost : /\ taskState[t] = "assigned"
                        /\ ~ Lists(retryTasks, t)
                        /\ ~ Lists(normalTasks, t)
    BY <2>2 DEF QueuesMatchStates
  <2>4. /\ retryTasks' \in Seq(Tasks)
        /\ ListedOnce(retryTasks')
        /\ \A u \in Tasks : Lists(retryTasks', u) <=> Lists(retryTasks, u) \/ u \in lost
    <3>1. PICK order \in Orders(lost) : retryTasks' = retryTasks \o order
      BY <2>1
    <3>2. retryTasks \in Seq(Tasks) /\ ListedOnce(retryTasks)
      BY DEF CoreTypeOK, QueuesMatchStates
    <3> HIDE DEF lost
    <3>3. QED
      BY <3>1, <3>2, <2>2, <2>3, ListsConcat
  <2>5. \A t \in Tasks : t \in lost <=> taskState[t] = "assigned" /\ assignmentWorker[t] = w
    BY <2>2 DEF AssignedToOne
  <2> HIDE DEF lost
  <2>6. CoreTypeOK'
    BY <2>1, <2>2, <2>4 DEF CoreTypeOK
  <2>7. AssignedToOne'
    <3>1. \A v \in Workers : assigned'[v] = IF v = w THEN {} ELSE assigned[v]
      BY <2>1 DEF CoreTypeOK
    <3>2. \A v \in Workers : connected'[v] = IF v = w THEN FALSE ELSE connected[v]
      BY <2>1 DEF CoreTypeOK
    <3>3. \A t \in Tasks : taskState'[t] = IF t \in lost THEN "retry" ELSE taskState[t]
      BY <2>1
    <3>4. ASSUME NEW t \in Tasks, NEW v \in Workers, t \in assigned'[v]
          PROVE  taskState'[t] = "assigned" /\ assignmentWorker'[t] = v /\ connected'[v]
      BY <3>1, <3>2, <3>3, <3>4, <2>1, <2>5 DEF AssignedToOne
    <3>5. ASSUME NEW t \in Tasks, taskState'[t] = "assigned"
          PROVE  \E v \in Workers : t \in assigned'[v]
      <4>1. t \notin lost /\ taskState[t] = "assigned"
        BY <3>3, <3>5
      <4>2. PICK v \in Workers : t \in assigned[v]
        BY <4>1 DEF AssignedToOne
      <4>3. v # w
        BY <4>1, <4>2, <2>2
      <4>4. QED
        BY <4>2, <4>3, <3>1
    <3>6. QED
      BY <3>4, <3>5 DEF AssignedToOne
  <2>8. QueuesMatchStates'
    BY <2>1, <2>3, <2>4 DEF QueuesMatchStates
  <2>9. StoreMatchesStates'
    BY <2>1, <2>3 DEF StoreMatchesStates
  <2>10. AvoidsPrevious'
    BY <2>1 DEF AvoidsPrevious
  <2>11. QED
    BY <2>6, <2>7, <2>8, <2>9, <2>10
<1>3. QED
  BY <1>1, <1>2

(* A set of naturals has a least element: the CHOOSE below chooses one. *)
LEMMA LeastNatural ==
  ASSUME NEW T \in SUBSET Nat, T # {}
  PROVE  \E x \in T : \A y \in T : x <= y
<1>1. PICK R : IsWellFoundedOn(R, Nat) /\ \A x, y \in Nat : y < x => <<y, x>> \in R
  <2>1. \A x, y \in Nat : y < x => <<y, x>> \in OpToRel(<, Nat)
    BY DEF OpToRel
  <2>2. QED
    BY <2>1, NatLessThanWellFounded
<1>2. PICK x \in T : \A y \in T : ~ (<<y, x>> \in R)
  BY <1>1, WFMin
<1>3. \A y \in T : ~ (y < x)
  BY <1>1, <1>2
<1>4. QED
  BY <1>3

(* The ordering of the eligible workers has a first one. *)
LEMMA ChosenExists ==
  ASSUME CoreInv, NEW t \in Tasks, Eligible(t) # {}
  PROVE  \E w \in Eligible(t) : \A v \in Eligible(t) :
           queueSize[w] < queueSize[v] \/ (queueSize[w] = queueSize[v] /\ w <= v)
<1> DEFINE E == Eligible(t)
           Sizes == {queueSize[w] : w \in E}
           Emptiest(m) == {w \in E : queueSize[w] = m}
<1>1. E \in SUBSET Workers /\ \A w \in E : w \in Nat /\ queueSize[w] \in Nat
  <2>1. E \in SUBSET Workers
    BY DEF Eligible
  <2>2. \A w \in Workers : w \in Nat /\ queueSize[w] \in Nat
    BY CountsAssumption, CapacityAssumption
       DEF Workers, CoreInv, CoreTypeOK, CountsAssumption, CapacityAssumption
  <2> HIDE DEF E
  <2>3. QED
    BY <2>1, <2>2
<1> HIDE DEF E
<1>2. Sizes \in SUBSET Nat /\ Sizes # {}
  BY <1>1 DEF E
<1>3. PICK m \in Sizes : \A k \in Sizes : m <= k
  <2> HIDE DEF Sizes
  <2>1. QED
    BY <1>2, LeastNatural
<1>4. Emptiest(m) \in SUBSET Nat /\ Emptiest(m) # {}
  BY <1>1
<1>5. PICK w \in Emptiest(m) : \A v \in Emptiest(m) : w <= v
  <2> HIDE DEF Emptiest
  <2>1. QED
    BY <1>4, LeastNatural
<1>6. m \in Nat /\ w \in E /\ queueSize[w] = m
  BY <1>2
<1>7. ASSUME NEW v \in E
      PROVE  queueSize[w] < queueSize[v] \/ (queueSize[w] = queueSize[v] /\ w <= v)
  <2>1. queueSize[v] \in Sizes /\ queueSize[v] \in Nat
    BY <1>1
  <2>2. CASE queueSize[v] = m
    BY <2>2, <1>5, <1>6
  <2>3. CASE queueSize[v] # m
    BY <2>1, <2>3, <1>3, <1>6
  <2>4. QED
    BY <2>2, <2>3
<1>8. QED
  BY <1>6, <1>7 DEF E

(* What the choice of a worker says about it. *)
LEMMA ChosenIsEligible ==
  ASSUME CoreInv, NEW t \in Tasks, NEW w \in Workers, AssignNext(t, w)
  PROVE  connected[w] /\ queueSize[w] + 1 \in 0 .. Capacity /\ w # previousWorker[t]
<1>1. Eligible(t) # {} /\ w = Chosen(t)
  BY DEF AssignNext
<1>2. w \in Eligible(t)
  BY <1>1, ChosenExists DEF Chosen
<1>3. QED
  BY <1>2, CapacityAssumption DEF Eligible, CoreInv, CoreTypeOK, CapacityAssumption

(* The next task goes from its queue to the chosen worker. *)
LEMMA AssignNextInv ==
  ASSUME CoreInv, NEW t \in Tasks, NEW w \in Workers, AssignNext(t, w)
  PROVE  CoreInv'
<1> USE DEF CoreInv
<1>1. /\ t = NextTask
      /\ retryTasks' = IF FromRetry THEN Tail(retryTasks) ELSE <<>>
      /\ normalTasks' = IF FromRetry THEN normalTasks ELSE Tail(normalTasks)
      /\ assignmentWorker' = [assignmentWorker EXCEPT ![t] = w]
      /\ taskState' = [taskState EXCEPT ![t] = "assigned"]
      /\ assigned' = [assigned EXCEPT ![w] = @ \cup {t}]
      /\ queueSize' = [queueSize EXCEPT ![w] = @ + 1]
      /\ UNCHANGED <<attempt, previousWorker, store, connected>>
      /\ HasTask
  BY QueuesAreLive DEF AssignNext
<1>2. connected[w] /\ queueSize[w] + 1 \in 0 .. Capacity /\ w # previousWorker[t]
  BY ChosenIsEligible
<1>3. /\ retryTasks' \in Seq(Tasks) /\ normalTasks' \in Seq(Tasks)
      /\ ListedOnce(retryTasks') /\ ListedOnce(normalTasks')
      /\ \A u \in Tasks : Lists(retryTasks', u) <=> Lists(retryTasks, u) /\ u # t
      /\ \A u \in Tasks : Lists(normalTasks', u) <=> Lists(normalTasks, u) /\ u # t
      /\ taskState[t] \in {"retry", "pending"}
  <2>1. retryTasks \in Seq(Tasks) /\ normalTasks \in Seq(Tasks)
    BY DEF CoreTypeOK
  <2>2. CASE FromRetry
    <3>1. retryTasks # <<>> /\ t = Head(retryTasks) /\ taskState[t] = "retry"
      BY <1>1, <2>2, NextTaskIsFirst
    <3>2. ~ Lists(normalTasks, t)
      BY <3>1 DEF QueuesMatchStates
    <3>3. QED
      BY <1>1, <2>1, <2>2, <3>1, <3>2, ListsTail DEF QueuesMatchStates
  <2>3. CASE ~ FromRetry
    <3>1. /\ retryTasks = <<>> /\ normalTasks # <<>>
          /\ t = Head(normalTasks) /\ taskState[t] = "pending"
      BY <1>1, <2>3, NextTaskIsFirst
    <3>2. retryTasks' = retryTasks /\ ~ Lists(retryTasks, t)
      BY <1>1, <2>3, <3>1 DEF QueuesMatchStates
    <3>3. QED
      BY <1>1, <2>1, <2>3, <3>1, <3>2, ListsTail DEF QueuesMatchStates
  <2>4. QED
    BY <2>2, <2>3
<1>4. \A u \in Tasks : taskState'[u] = IF u = t THEN "assigned" ELSE taskState[u]
  BY <1>1 DEF CoreTypeOK
<1>5. CoreTypeOK'
  BY <1>1, <1>2, <1>3 DEF CoreTypeOK
<1>6. AssignedToOne'
  <2>1. \A v \in Workers : assigned'[v] = IF v = w THEN assigned[v] \cup {t} ELSE assigned[v]
    BY <1>1 DEF CoreTypeOK
  <2>2. \A u \in Tasks : assignmentWorker'[u] = IF u = t THEN w ELSE assignmentWorker[u]
    BY <1>1 DEF CoreTypeOK
  <2>3. \A v \in Workers : t \notin assigned[v]
    BY <1>3 DEF AssignedToOne
  <2>4. ASSUME NEW u \in Tasks, NEW v \in Workers, u \in assigned'[v]
        PROVE  taskState'[u] = "assigned" /\ assignmentWorker'[u] = v /\ connected'[v]
    <3>1. CASE u = t
      BY <3>1, <2>4, <1>1, <1>2, <1>4, <2>1, <2>2, <2>3
    <3>2. CASE u # t
      BY <3>2, <2>4, <1>1, <1>4, <2>1, <2>2 DEF AssignedToOne
    <3>3. QED
      BY <3>1, <3>2
  <2>5. ASSUME NEW u \in Tasks, taskState'[u] = "assigned"
        PROVE  \E v \in Workers : u \in assigned'[v]
    BY <2>5, <1>4, <2>1 DEF AssignedToOne
  <2>6. QED
    BY <2>4, <2>5 DEF AssignedToOne
<1>7. QueuesMatchStates'
  BY <1>3, <1>4 DEF QueuesMatchStates
<1>8. StoreMatchesStates'
  BY <1>1, <1>3, <1>4 DEF StoreMatchesStates
<1>9. AvoidsPrevious'
  BY <1>1, <1>2, <1>4 DEF AvoidsPrevious, CoreTypeOK
<1>10. QED
  BY <1>5, <1>6, <1>7, <1>8, <1>9

(* A task without a worker goes back to the queue it came from. *)
LEMMA PutNextBackInv ==
  ASSUME CoreInv, PutNextBack
  PROVE  CoreInv'
<1> USE DEF CoreInv
<1>1. retryTasks \in Seq(Tasks) /\ normalTasks \in Seq(Tasks)
  BY DEF CoreTypeOK
<1>2. /\ normalTasks' = normalTasks
      /\ retryTasks' = IF FromRetry THEN Append(Tail(retryTasks), NextTask) ELSE <<>>
      /\ UNCHANGED <<taskState, attempt, previousWorker, assignmentWorker, store, connected,
                     assigned, queueSize>>
  BY QueuesAreLive DEF PutNextBack
<1>3. /\ retryTasks' \in Seq(Tasks)
      /\ ListedOnce(retryTasks')
      /\ \A u \in Tasks : Lists(retryTasks', u) <=> Lists(retryTasks, u)
  <2>1. CASE FromRetry
    <3>1. HasTask /\ retryTasks # <<>>
      BY <2>1, QueuesAreLive DEF HasTask, FromRetry
    <3>2. NextTask = Head(retryTasks)
      BY <2>1, <3>1, NextTaskIsFirst
    <3>3. /\ Tail(retryTasks) \in Seq(Tasks) /\ ListedOnce(Tail(retryTasks))
          /\ NextTask \in Tasks /\ Lists(retryTasks, NextTask)
          /\ \A u : Lists(Tail(retryTasks), u) <=> Lists(retryTasks, u) /\ u # NextTask
      BY <1>1, <3>1, <3>2, ListsTail DEF QueuesMatchStates
    <3>4. QED
      BY <1>2, <2>1, <3>3, ListsAppend
  <2>2. CASE ~ FromRetry
    <3>1. retryTasks = <<>>
      BY <2>2, QueuesAreLive DEF FromRetry
    <3>2. retryTasks' = retryTasks
      BY <1>2, <2>2, <3>1
    <3>3. QED
      BY <3>2, <1>1 DEF QueuesMatchStates
  <2>3. QED
    BY <2>1, <2>2
<1>4. CoreTypeOK'
  BY <1>1, <1>2, <1>3 DEF CoreTypeOK
<1>5. AssignedToOne' /\ StoreMatchesStates' /\ AvoidsPrevious'
  BY <1>2 DEF AssignedToOne, StoreMatchesStates, AvoidsPrevious
<1>6. QueuesMatchStates'
  BY <1>2, <1>3 DEF QueuesMatchStates
<1>7. QED
  BY <1>4, <1>5, <1>6

-----------------------------------------------------------------------------
(* Every section is a step of the abstract ledger, or none.                *)

(* The initial state of the master is that of the ledger. *)
LEMMA LedgerInit == CoreInit => Ledger!Init
BY DEF CoreInit, Ledger!Init, Holder

(* A section that changes one task changes its holder and no other. *)
LEMMA HolderOfOne ==
  ASSUME NEW t \in Tasks, NEW h,
         h = IF taskState'[t] = "assigned" THEN assignmentWorker'[t] ELSE Nobody,
         \A u \in Tasks \ {t} : /\ taskState'[u] = taskState[u]
                                /\ assignmentWorker'[u] = assignmentWorker[u]
  PROVE  Holder' = [Holder EXCEPT ![t] = h]
BY DEF Holder

(* Steps outside of the sections are stutters of the ledger. *)
LEMMA LedgerStutter == UNCHANGED coreVars => UNCHANGED Ledger!vars
BY DEF coreVars, Ledger!vars, Holder

(* A QUEUE_STATUS is a stutter of the ledger. *)
LEMMA LedgerUpdateStatus ==
  ASSUME NEW w, NEW size, UpdateStatus(w, size) PROVE UNCHANGED Ledger!vars
BY DEF UpdateStatus, Ledger!vars, Holder

(* A current success is a Store of the ledger. *)
LEMMA LedgerRecordSuccess ==
  ASSUME CoreInv, NEW t \in Tasks, NEW a \in Workers, IsCurrent(t, a), RecordSuccess(t)
  PROVE  Ledger!Next
<1>1. taskState[t] = "assigned" /\ assignmentWorker[t] # Nobody
  BY CurrentTask DEF Workers, Nobody
<1>2. \A u \in Tasks : taskState'[u] = IF u = t THEN "done" ELSE taskState[u]
  BY DEF RecordSuccess, CoreInv, CoreTypeOK
<1>3. Holder[t] # Nobody
  BY <1>1 DEF Holder
<1>4. Holder' = [Holder EXCEPT ![t] = Nobody]
  BY <1>2, HolderOfOne DEF RecordSuccess
<1>5. Ledger!Store(t)
  BY <1>3, <1>4 DEF Ledger!Store, RecordSuccess
<1>6. QED
  BY <1>5 DEF Ledger!Next

(* A current failure is a GiveBack by the reporting worker. *)
LEMMA LedgerRecordFailure ==
  ASSUME CoreInv, NEW t \in Tasks, NEW a \in Workers, IsCurrent(t, a),
         NEW reporter \in Workers, NEW overflow \in BOOLEAN,
         RecordFailure(reporter, t, overflow)
  PROVE  Ledger!Next
<1>1. taskState[t] = "assigned" /\ assignmentWorker[t] # Nobody
  BY CurrentTask DEF Workers, Nobody
<1>2. \A u \in Tasks : taskState'[u] = IF u = t THEN "retry" ELSE taskState[u]
  BY DEF RecordFailure, CoreInv, CoreTypeOK
<1>3. Holder[t] # Nobody
  BY <1>1 DEF Holder
<1>4. Holder' = [Holder EXCEPT ![t] = Nobody]
  BY <1>2, HolderOfOne DEF RecordFailure
<1>5. Ledger!GiveBack(t, reporter)
  BY <1>3, <1>4 DEF Ledger!GiveBack, RecordFailure
<1>6. QED
  BY <1>5 DEF Ledger!Next

(* A disconnection is a Lose, or a stutter when it was known already. *)
LEMMA LedgerDisconnectWorker ==
  ASSUME CoreInv, NEW w \in Workers, DisconnectWorker(w)
  PROVE  Ledger!Next \/ UNCHANGED Ledger!vars
<1> DEFINE lost == {t \in assigned[w] : taskState[t] = "assigned"}
<1>1. CASE ~ connected[w]
  BY <1>1, LedgerStutter DEF DisconnectWorker
<1>2. CASE connected[w]
  <2>1. /\ taskState' = [t \in Tasks |-> IF t \in lost THEN "retry" ELSE taskState[t]]
        /\ previousWorker' = [t \in Tasks |-> IF t \in lost THEN w ELSE previousWorker[t]]
        /\ UNCHANGED <<assignmentWorker, store>>
    BY <1>2 DEF DisconnectWorker
  <2>2. \A t \in Tasks : t \in lost <=> taskState[t] = "assigned" /\ assignmentWorker[t] = w
    BY DEF CoreInv, CoreTypeOK, AssignedToOne
  <2>3. w # Nobody
    BY DEF Workers, Nobody
  <2> HIDE DEF lost
  <2>4. Ledger!Lose(w)
    BY <2>1, <2>2, <2>3 DEF Ledger!Lose, Holder
  <2>5. QED
    BY <2>4 DEF Ledger!Next
<1>3. QED
  BY <1>1, <1>2

(* An assignment is an Assign. *)
LEMMA LedgerAssignNext ==
  ASSUME CoreInv, NEW t \in Tasks, NEW w \in Workers, AssignNext(t, w)
  PROVE  Ledger!Next
<1>1. taskState[t] \in {"retry", "pending"}
  BY NextTaskIsFirst DEF AssignNext
<1>2. t \notin store
  BY <1>1 DEF CoreInv, StoreMatchesStates
<1>3. /\ assignmentWorker' = [assignmentWorker EXCEPT ![t] = w]
      /\ taskState' = [taskState EXCEPT ![t] = "assigned"]
      /\ UNCHANGED <<previousWorker, store>>
  BY DEF AssignNext
<1>4. \A u \in Tasks : /\ taskState'[u] = IF u = t THEN "assigned" ELSE taskState[u]
                       /\ assignmentWorker'[u] = IF u = t THEN w ELSE assignmentWorker[u]
  BY <1>3 DEF CoreInv, CoreTypeOK
<1>5. w # previousWorker[t]
  BY ChosenIsEligible
<1>6. Holder[t] = Nobody
  BY <1>1 DEF Holder
<1>7. Holder' = [Holder EXCEPT ![t] = w]
  BY <1>4, HolderOfOne
<1>8. Ledger!Assign(t, w)
  BY <1>2, <1>3, <1>5, <1>6, <1>7 DEF Ledger!Assign
<1>9. QED
  BY <1>8 DEF Ledger!Next

(* Putting a task back is a stutter of the ledger. *)
LEMMA LedgerPutNextBack ==
  ASSUME PutNextBack PROVE UNCHANGED Ledger!vars
BY DEF PutNextBack, Ledger!vars, Holder
=============================================================================
