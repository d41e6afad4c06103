-------------------------- MODULE P2PNetworkProofs --------------------------
(***************************************************************************)
(* What the transfer protocol by itself keeps, for any number of workers,  *)
(* tasks, transfers, timeouts and repeated requests.                       *)
(***************************************************************************)
EXTENDS P2PNetwork, P2PTransferProofs

-----------------------------------------------------------------------------
(***************************************************************************)
(* Where a task is, as the protocol sees it.  A worker keeps a task that   *)
(* its queue answers for, unless the transfer it is in has been accepted   *)
(* already and its giver knows or will know: from then on the taker keeps  *)
(* it.  A request astray is one that nobody waits for any more and that    *)
(* its server has yet to handle: it may still make one more keeper.  A     *)
(* task is processed once for each keeper and request astray at most, and  *)
(* only a timeout makes their number grow.                                 *)
(***************************************************************************)
Committed(w, t) ==
  /\ t \in IdsIn(monitor[w].held)
  /\ \/ monitor[w].step = "confirming"
     \/ monitor[w].step = "waiting" /\ monitor[w].answer = "accepted"

Keeps(w, t) == t \in queue[w].active /\ ~ Committed(w, t)
Keepers(t)  == {w \in Workers : Keeps(w, t)}

\* Request n lies astray at worker p with task t.
Astray(p, n, t) ==
  \E i \in DOMAIN backlog[p] :
    /\ backlog[p][i].request = n
    /\ t \in IdsIn(backlog[p][i].tasks)
    /\ n \notin DOMAIN handled[p]
    /\ ~ Awaits(backlog[p][i].from, backlog[p][i])

Strays(t) == {x \in Workers \X (1 .. transfers) : Astray(x[1], x[2], t)}

\* Somewhere in the network.
Present(t) ==
  \E w \in Workers :
    \/ t \in queue[w].active
    \/ \E i \in DOMAIN backlog[w] : t \in IdsIn(backlog[w][i].tasks)

TaskIsSafe(t) ==
  /\ t \in fresh => executions[t] = 0 /\ ~ Present(t)
  /\ t \notin fresh /\ executions[t] = 0 => Keepers(t) # {}
  /\ executions[t] + Cardinality(Keepers(t)) + Cardinality(Strays(t)) <= 1 + timeouts

TasksAreSafe == \A t \in Tasks : TaskIsSafe(t)

\* Nobody leaves here.
AllRun == \A w \in Workers : running[w]

NetworkTypes ==
  /\ fresh \subseteq Tasks
  /\ executions \in [Tasks -> Nat]
  /\ repeats \in 0 .. MaxRepeats

Inv == P2PInv /\ NetworkTypes /\ AllRun /\ TasksAreSafe

-----------------------------------------------------------------------------
(* The services stay safe, whatever the processing threads do.             *)

\* A task that arrives, at the worker it is assigned to.
Batch(w, t) == <<[id |-> t, by |-> w]>>

LEMMA BatchOfOne ==
  ASSUME NEW w \in Workers, NEW t \in Tasks
  PROVE  Batch(w, t) \in Seq(Copies) /\ IdsIn(Batch(w, t)) = {t}
<1> DEFINE c == [id |-> t, by |-> w]
<1>1. c \in Copies /\ c.id = t
  BY DEF Copies
<1> HIDE DEF c
<1>2. <<c>> \in Seq(Copies) /\ DOMAIN <<c>> = {1} /\ <<c>>[1] = c
  BY <1>1
<1>3. IdsIn(<<c>>) = {t}
  BY <1>1, <1>2 DEF IdsIn
<1>4. QED
  BY <1>2, <1>3 DEF Batch, c

LEMMA ArriveKeepsP2PInv ==
  ASSUME P2PInv, NEW w \in Workers, NEW t \in Tasks, Arrive(w, t)
  PROVE  P2PInv' /\ queue' = [queue EXCEPT ![w] = queue'[w]]
         /\ queue'[w].active = queue[w].active \cup {t}
<1> DEFINE q == Enqueued(queue[w], Batch(w, t), FALSE)
<1>1. /\ Verdict(queue[w], Batch(w, t)) = "accepted"
      /\ queue' = [queue EXCEPT ![w] = q]
      /\ UNCHANGED <<monitor, backlog, handled, running, transfers, timeouts>>
  BY DEF Arrive, Batch
<1>2. SoundQueue(Copies, queue[w]) /\ queue \in [Workers -> Queues(Copies)]
  BY OfOneWorker DEF P2PInv, QueuesAreSafe
<1>3. Batch(w, t) \in Seq(Copies) /\ IdsIn(Batch(w, t)) = {t}
  BY BatchOfOne
<1> DEFINE batch == Batch(w, t)
           before == queue[w]
<1>4. SoundQueue(Copies, before) /\ batch \in Seq(Copies) /\ Verdict(before, batch) = "accepted"
  BY <1>1, <1>2, <1>3
<1> HIDE DEF batch, before
<1> DEFINE r == Enqueued(before, batch, FALSE)
<1>5. /\ SoundQueue(Copies, r) /\ Size(r) <= Capacity
      /\ r.active = before.active \cup IdsIn(batch)
      /\ r.reserved = before.reserved /\ r.processing = before.processing
  BY ONLY <1>4, EnqueuedKeepsQueue
<1>6. q = r
  BY DEF batch, before
<1> HIDE DEF r, q
<1>7. /\ SoundQueue(Copies, q) /\ Size(q) <= Capacity /\ q.reserved = queue[w].reserved
      /\ q.active = queue[w].active \cup {t}
  BY <1>3, <1>5, <1>6 DEF batch, before
<1>8. P2PInv'
  BY <1>1, <1>7, OtherQueueChange
<1>9. QED
  BY <1>1, <1>2, <1>7, <1>8

LEMMA TakeKeepsP2PInv ==
  ASSUME P2PInv, NEW w \in Workers, Take(w)
  PROVE  P2PInv' /\ queue' = [queue EXCEPT ![w] = queue'[w]]
         /\ queue'[w].active = queue[w].active
<1> DEFINE q == Dequeued(queue[w])
<1>1. /\ queue[w].processing = {} /\ CanDequeue(queue[w])
      /\ queue' = [queue EXCEPT ![w] = q]
      /\ UNCHANGED <<monitor, backlog, handled, running, transfers, timeouts>>
  BY DEF Take
<1>2. /\ SoundQueue(Copies, queue[w]) /\ queue[w] \in Queues(Copies)
      /\ Size(queue[w]) \in Nat /\ Size(queue[w]) <= Capacity
      /\ queue \in [Workers -> Queues(Copies)]
  BY OfOneWorker DEF P2PInv, QueuesAreSafe
<1>3. /\ SoundQueue(Copies, q) /\ Size(q) = Size(queue[w]) - 1
      /\ KeptCopies(q) = KeptCopies(queue[w])
      /\ q.reserved = queue[w].reserved /\ q.processing # {}
  BY <1>1, <1>2, DequeuedQueue
<1>4. q.active = queue[w].active
  BY <1>2 DEF Dequeued, Queues
<1> HIDE DEF q
<1>5. Size(q) <= Capacity
  BY <1>2, <1>3, CapacityAssumption
<1>6. P2PInv'
  BY <1>1, <1>3, <1>5, OtherQueueChange
<1>7. QED
  BY <1>1, <1>2, <1>4, <1>6

LEMMA FinishKeepsP2PInv ==
  ASSUME P2PInv, NEW w \in Workers, Finish(w)
  PROVE  P2PInv' /\ queue' = [queue EXCEPT ![w] = queue'[w]]
         /\ queue'[w].active = queue[w].active \ ProcessingIds(queue[w])
<1> DEFINE q == MarkedDone(queue[w])
<1>1. /\ queue' = [queue EXCEPT ![w] = q]
      /\ UNCHANGED <<monitor, backlog, handled, running, transfers, timeouts>>
  BY DEF Finish
<1>2. /\ SoundQueue(Copies, queue[w]) /\ Size(queue[w]) <= Capacity
      /\ queue \in [Workers -> Queues(Copies)]
  BY OfOneWorker DEF P2PInv, QueuesAreSafe
<1>3. /\ SoundQueue(Copies, q) /\ Size(q) = Size(queue[w])
      /\ KeptCopies(q) = KeptCopies(queue[w]) \ queue[w].processing
      /\ q.active = queue[w].active \ ProcessingIds(queue[w])
      /\ q.reserved = queue[w].reserved /\ q.processing = {}
  BY <1>2, MarkedDoneQueue
<1> HIDE DEF q
<1>4. Size(q) <= Capacity
  BY <1>2, <1>3
<1>5. P2PInv'
  BY <1>1, <1>3, <1>4, OtherQueueChange
<1>6. QED
  BY <1>1, <1>2, <1>3, <1>5

LEMMA ServeRepeatedKeepsP2PInv ==
  ASSUME P2PInv, NEW p \in Workers, ServeRepeated(p)
  PROVE  P2PInv'
<1>1. /\ backlog[p] # <<>> /\ Handle(p, Head(backlog[p]))
      /\ UNCHANGED <<backlog, running, transfers, timeouts>>
  BY DEF ServeRepeated
<1>2. 1 \in DOMAIN backlog[p] /\ Handle(p, backlog[p][1])
  BY <1>1, FirstRequest
<1>3. backlog' \in [Workers -> Seq(Requests)]
  BY <1>1, OfOneWorker
<1>4. \A v \in Workers : \A i \in DOMAIN backlog'[v] :
        \E j \in DOMAIN backlog[v] : backlog'[v][i] = backlog[v][j]
  BY <1>1
<1>5. QED
  BY <1>1, <1>2, <1>3, <1>4, HandleKeepsInv

\* What every step does with the state that the proofs of the parts share.
LEMMA PartsAreKept ==
  ASSUME P2PInv, NetworkTypes, AllRun, [Next]_vars
  PROVE  P2PInv' /\ NetworkTypes' /\ AllRun'
<1>1. CASE UNCHANGED vars
  <2>1. /\ UNCHANGED <<queue, monitor, backlog, handled, running, transfers, timeouts>>
        /\ UNCHANGED <<fresh, executions, repeats>>
    BY <1>1 DEF vars, p2pVars
  <2>2. QueuesAreSafe' /\ MonitorsAreSafe' /\ ServersAreSafe'
    BY <2>1 DEF P2PInv, QueuesAreSafe, MonitorsAreSafe, ServersAreSafe
  <2>3. AwaitedRequestsMatch' /\ AnswersMatch' /\ BoundsAreKept'
    BY <2>1 DEF P2PInv, AwaitedRequestsMatch, Awaits, AnswersMatch, BoundsAreKept, Preparing
  <2>4. NetworkTypes' /\ AllRun'
    BY <2>1 DEF NetworkTypes, AllRun
  <2>5. QED
    BY <2>2, <2>3, <2>4 DEF P2PInv
<1>2. ASSUME NEW w \in Workers, NEW t \in Tasks, Arrive(w, t)
      PROVE  P2PInv' /\ NetworkTypes' /\ AllRun'
  <2>1. P2PInv'
    BY <1>2, ArriveKeepsP2PInv
  <2>2. QED
    BY <1>2, <2>1 DEF Arrive, NetworkTypes, AllRun
<1>3. ASSUME NEW w \in Workers, Take(w)
      PROVE  P2PInv' /\ NetworkTypes' /\ AllRun'
  <2>1. P2PInv'
    BY <1>3, TakeKeepsP2PInv
  <2>2. QED
    BY <1>3, <2>1 DEF Take, NetworkTypes, AllRun
<1>4. ASSUME NEW w \in Workers, Finish(w)
      PROVE  P2PInv' /\ NetworkTypes' /\ AllRun'
  <2>1. P2PInv'
    BY <1>4, FinishKeepsP2PInv
  <2>2. executions' \in [Tasks -> Nat]
    BY <1>4 DEF Finish, NetworkTypes
  <2>3. QED
    BY <1>4, <2>1, <2>2 DEF Finish, NetworkTypes, AllRun
<1>5. ASSUME NEW w \in Workers, Monitoring(w), UNCHANGED <<fresh, executions, repeats>>
      PROVE  P2PInv' /\ NetworkTypes' /\ AllRun'
  <2>1. P2PInv'
    BY <1>5, MonitoringKeepsInv
  <2>2. running' = running
    BY <1>5 DEF Monitoring, NoticeOverload, AskPeer, ChoosePeer, ReserveNext, SendTransfer,
                ReadAnswer, GiveUp, SettleNext
  <2>3. QED
    BY <1>5, <2>1, <2>2 DEF NetworkTypes, AllRun
<1>6. ASSUME NEW w \in Workers, Serve(w), UNCHANGED <<fresh, executions, repeats>>
      PROVE  P2PInv' /\ NetworkTypes' /\ AllRun'
  <2>1. P2PInv'
    BY <1>6, ServeKeepsInv
  <2>2. QED
    BY <1>6, <2>1 DEF Serve, NetworkTypes, AllRun
<1>7. ASSUME NEW w \in Workers, ServeRepeated(w)
      PROVE  P2PInv' /\ NetworkTypes' /\ AllRun'
  <2>1. P2PInv'
    BY <1>7, ServeRepeatedKeepsP2PInv
  <2>2. repeats' \in 0 .. MaxRepeats
    BY <1>7, RepeatsAssumption DEF ServeRepeated, NetworkTypes
  <2>3. QED
    BY <1>7, <2>1, <2>2 DEF ServeRepeated, NetworkTypes, AllRun
<1>8. QED
  BY <1>1, <1>2, <1>3, <1>4, <1>5, <1>6, <1>7 DEF Next

-----------------------------------------------------------------------------
(* Counting keepers and requests astray.                                   *)

LEMMA SetsAreFinite ==
  ASSUME NEW K \in SUBSET Workers, NEW n \in Nat, NEW S \in SUBSET (Workers \X (1 .. n))
  PROVE  /\ IsFiniteSet(K) /\ Cardinality(K) \in Nat
         /\ IsFiniteSet(S) /\ Cardinality(S) \in Nat
<1>1. 1 \in Int /\ n \in Int
  OBVIOUS
<1>2. IsFiniteSet(1 .. n)
  BY ONLY <1>1, FS_Interval
<1>3. IsFiniteSet(Workers \X (1 .. n))
  BY <1>2, WorkersAreFinite, FS_Product
<1>4. IsFiniteSet(S) /\ Cardinality(S) \in Nat
  BY <1>3, FS_Subset, FS_CardinalityType
<1>5. QED
  BY <1>4, WorkersAreFinite

(* The size of a set after one element left it, joined it, or both. *)
LEMMA ChangedSize ==
  ASSUME NEW A, IsFiniteSet(A), NEW B, IsFiniteSet(B)
  PROVE  /\ Cardinality(A) \in Nat /\ Cardinality(B) \in Nat
         /\ B \subseteq A => Cardinality(B) <= Cardinality(A)
         /\ \A e : B \subseteq A \cup {e} => Cardinality(B) <= Cardinality(A) + 1
         /\ \A e \in A : B \subseteq A \ {e} => Cardinality(B) <= Cardinality(A) - 1
         /\ \A e \in A : \A d : B \subseteq (A \ {e}) \cup {d} => Cardinality(B) <= Cardinality(A)
<1>1. Cardinality(A) \in Nat /\ Cardinality(B) \in Nat
  BY FS_CardinalityType
<1>2. ASSUME NEW C, IsFiniteSet(C), B \subseteq C PROVE Cardinality(B) <= Cardinality(C)
  BY <1>2, FS_Subset
<1>3. ASSUME NEW C, IsFiniteSet(C), NEW e
      PROVE  /\ IsFiniteSet(C \cup {e}) /\ Cardinality(C \cup {e}) \in Nat
             /\ Cardinality(C \cup {e}) <= Cardinality(C) + 1
             /\ Cardinality(C) \in Nat
  <2>1. /\ IsFiniteSet(C \cup {e})
        /\ Cardinality(C \cup {e}) = Cardinality(C) \/ Cardinality(C \cup {e}) = Cardinality(C) + 1
    BY <1>3, FS_AddElement
  <2>2. Cardinality(C \cup {e}) \in Nat /\ Cardinality(C) \in Nat
    BY <1>3, <2>1, FS_CardinalityType
  <2>3. QED
    BY <2>1, <2>2
<1>4. ASSUME NEW e \in A
      PROVE  IsFiniteSet(A \ {e}) /\ Cardinality(A \ {e}) = Cardinality(A) - 1
  BY FS_RemoveElement
<1>5. ASSUME NEW e, B \subseteq A \cup {e} PROVE Cardinality(B) <= Cardinality(A) + 1
  <2>1. /\ IsFiniteSet(A \cup {e}) /\ Cardinality(A \cup {e}) \in Nat
        /\ Cardinality(A \cup {e}) <= Cardinality(A) + 1
    BY <1>3
  <2>2. Cardinality(B) <= Cardinality(A \cup {e})
    BY <1>2, <1>5, <2>1
  <2>3. QED
    BY <1>1, <2>1, <2>2
<1>6. ASSUME NEW e \in A, B \subseteq A \ {e} PROVE Cardinality(B) <= Cardinality(A) - 1
  BY <1>2, <1>4, <1>6
<1>7. ASSUME NEW e \in A, NEW d, B \subseteq (A \ {e}) \cup {d}
      PROVE  Cardinality(B) <= Cardinality(A)
  <2> DEFINE C == A \ {e}
  <2>1. IsFiniteSet(C) /\ Cardinality(C) = Cardinality(A) - 1
    BY <1>4
  <2>2. B \subseteq C \cup {d}
    BY <1>7
  <2> HIDE DEF C
  <2>3. /\ IsFiniteSet(C \cup {d}) /\ Cardinality(C \cup {d}) \in Nat
        /\ Cardinality(C \cup {d}) <= Cardinality(C) + 1
    BY <1>3, <2>1
  <2>4. Cardinality(B) <= Cardinality(C \cup {d})
    BY <1>2, <2>2, <2>3
  <2>5. QED
    BY <1>1, <2>1, <2>3, <2>4
<1>8. ASSUME B \subseteq A PROVE Cardinality(B) <= Cardinality(A)
  BY <1>2, <1>8
<1>9. QED
  BY <1>1, <1>5, <1>6, <1>7, <1>8

(* The counts before and after a step. *)
LEMMA CountsAreNumbers ==
  ASSUME P2PInv, P2PInv', NetworkTypes, NetworkTypes', NEW t \in Tasks
  PROVE  /\ executions[t] \in Nat /\ executions'[t] \in Nat
         /\ timeouts \in Nat /\ timeouts' \in Nat
         /\ IsFiniteSet(Keepers(t)) /\ IsFiniteSet(Keepers(t)')
         /\ IsFiniteSet(Strays(t)) /\ IsFiniteSet(Strays(t)')
         /\ Cardinality(Keepers(t)) \in Nat /\ Cardinality(Keepers(t)') \in Nat
         /\ Cardinality(Strays(t)) \in Nat /\ Cardinality(Strays(t)') \in Nat
<1>1. transfers \in Nat /\ transfers' \in Nat
  BY DEF P2PInv, BoundsAreKept
<1>2. timeouts \in 0 .. MaxTimeouts /\ timeouts' \in 0 .. MaxTimeouts
  BY DEF P2PInv, BoundsAreKept
<1>3. Keepers(t) \in SUBSET Workers /\ Strays(t) \in SUBSET (Workers \X (1 .. transfers))
  BY DEF Keepers, Strays
<1>4. Keepers(t)' \in SUBSET Workers /\ Strays(t)' \in SUBSET (Workers \X (1 .. transfers'))
  BY DEF Keepers, Strays
<1> DEFINE K == Keepers(t)'
           S == Strays(t)'
           n == transfers'
<1> HIDE DEF K, S, n
<1>5. K \in SUBSET Workers /\ n \in Nat /\ S \in SUBSET (Workers \X (1 .. n))
  BY <1>1, <1>4 DEF K, S, n
<1>6. IsFiniteSet(K) /\ Cardinality(K) \in Nat /\ IsFiniteSet(S) /\ Cardinality(S) \in Nat
  BY <1>5, SetsAreFinite
<1>7. /\ IsFiniteSet(Keepers(t)) /\ Cardinality(Keepers(t)) \in Nat
      /\ IsFiniteSet(Strays(t)) /\ Cardinality(Strays(t)) \in Nat
  BY <1>1, <1>3, SetsAreFinite
<1>8. executions[t] \in Nat /\ executions'[t] \in Nat /\ timeouts \in Nat /\ timeouts' \in Nat
  BY <1>2 DEF NetworkTypes
<1>9. QED
  BY <1>6, <1>7, <1>8 DEF K, S

(* A step that makes no new keeper, and no new request astray, of a task. *)
LEMMA TaskLeftAlone ==
  ASSUME P2PInv, P2PInv', NetworkTypes, NetworkTypes', NEW t \in Tasks, TaskIsSafe(t),
         t \in fresh' <=> t \in fresh, executions'[t] = executions[t],
         timeouts' = timeouts \/ timeouts' = timeouts + 1,
         Keepers(t)' = Keepers(t), Strays(t)' \subseteq Strays(t), Present(t)' => Present(t)
  PROVE  TaskIsSafe(t)'
<1> DEFINE K == Cardinality(Keepers(t))
           S == Cardinality(Strays(t))
           R == Cardinality(Strays(t)')
<1>1. /\ executions[t] \in Nat /\ timeouts \in Nat
      /\ IsFiniteSet(Strays(t)) /\ IsFiniteSet(Strays(t)')
      /\ K \in Nat /\ S \in Nat /\ R \in Nat
  BY CountsAreNumbers
<1>2. R <= S
  BY <1>1, FS_Subset
<1>3. executions[t] + K + S <= 1 + timeouts
  BY DEF TaskIsSafe
<1> HIDE DEF K, S, R
<1>4. executions[t] + K + R <= 1 + timeouts'
  BY <1>1, <1>2, <1>3
<1>5. executions'[t] + Cardinality(Keepers(t)') + Cardinality(Strays(t)') <= 1 + timeouts'
  BY <1>4 DEF K, R
<1>6. QED
  BY <1>5 DEF TaskIsSafe

-----------------------------------------------------------------------------
(* What the steps of a monitor do to the tasks.                            *)

(* A monitor stops waiting, or does not wait: the only request that may    *)
(* thereby go astray is the one it has waited for.                         *)
LEMMA MonitorsStrays ==
  ASSUME P2PInv, NEW w \in Workers, NEW m, m.step # "waiting",
         monitor' = [monitor EXCEPT ![w] = m], handled' = handled,
         \A v \in Workers : \A i \in DOMAIN backlog'[v] :
           \E j \in DOMAIN backlog[v] : backlog'[v][i] = backlog[v][j],
         NEW p \in Workers, NEW n, NEW t, Astray(p, n, t)'
  PROVE  \/ Astray(p, n, t)
         \/ /\ monitor[w].step = "waiting" /\ monitor[w].request = n /\ monitor[w].peer = p
            /\ n \notin DOMAIN handled[p]
<1>1. PICK i \in DOMAIN backlog'[p] :
        /\ backlog'[p][i].request = n
        /\ t \in IdsIn(backlog'[p][i].tasks)
        /\ n \notin DOMAIN handled'[p]
        /\ ~ (/\ monitor'[backlog'[p][i].from].step = "waiting"
              /\ monitor'[backlog'[p][i].from].request = backlog'[p][i].request)
  BY DEF Astray, Awaits
<1>2. PICK j \in DOMAIN backlog[p] : backlog'[p][i] = backlog[p][j]
  OBVIOUS
<1> DEFINE e == backlog[p][j]
<1>3. e.request = n /\ t \in IdsIn(e.tasks) /\ n \notin DOMAIN handled[p]
  BY <1>1, <1>2
<1>4. e.from \in Workers
  BY OfOneRequest
<1>5. CASE Awaits(e.from, e)
  <2>1. e.from = w
    <3>1. SUFFICES ASSUME e.from # w PROVE FALSE
      OBVIOUS
    <3>2. monitor'[e.from] = monitor[e.from]
      BY <1>4, <3>1 DEF P2PInv, MonitorsAreSafe
    <3>3. QED
      BY <1>1, <1>2, <1>5, <3>2 DEF Awaits
  <2>2. monitor[w].peer = p
    BY <1>5, <2>1 DEF P2PInv, AwaitedRequestsMatch
  <2>3. QED
    BY <1>3, <1>5, <2>1, <2>2 DEF Awaits
<1>6. CASE ~ Awaits(e.from, e)
  BY <1>3, <1>6 DEF Astray
<1>7. QED
  BY <1>5, <1>6

(* The other workers keep what they kept. *)
LEMMA OthersKeep ==
  ASSUME P2PInv, NEW w \in Workers, NEW m, monitor' = [monitor EXCEPT ![w] = m],
         NEW v \in Workers \ {w}, queue'[v] = queue[v], NEW t
  PROVE  Keeps(v, t)' <=> Keeps(v, t)
<1>1. monitor'[v] = monitor[v]
  BY DEF P2PInv, MonitorsAreSafe
<1>2. QED
  BY <1>1 DEF Keeps, Committed

(* A step in which a monitor is neither waiting nor confirming, before and *)
(* after, and no queue answers for other tasks than before.                *)
LEMMA QuietMonitorStep ==
  ASSUME P2PInv, P2PInv', NetworkTypes, NetworkTypes', NEW t \in Tasks, TaskIsSafe(t),
         UNCHANGED <<fresh, executions>>, NEW w \in Workers, NEW m,
         monitor[w].step \notin {"waiting", "confirming"},
         m.step \notin {"waiting", "confirming"},
         monitor' = [monitor EXCEPT ![w] = m],
         \A v \in Workers : queue'[v].active = queue[v].active,
         UNCHANGED <<backlog, handled, transfers>>,
         timeouts' = timeouts \/ timeouts' = timeouts + 1
  PROVE  TaskIsSafe(t)'
<1>1. /\ monitor'[w] = m /\ \A v \in Workers \ {w} : monitor'[v] = monitor[v]
  BY DEF P2PInv, MonitorsAreSafe
<1>2. \A v \in Workers : Keeps(v, t)' <=> Keeps(v, t)
  <2>1. \A v \in Workers : Committed(v, t)' <=> Committed(v, t)
    BY <1>1 DEF Committed
  <2>2. QED
    BY <2>1 DEF Keeps
<1>3. Keepers(t)' = Keepers(t)
  BY <1>2 DEF Keepers
<1>4. m.step # "waiting" /\ handled' = handled
      /\ \A v \in Workers : \A i \in DOMAIN backlog'[v] :
           \E j \in DOMAIN backlog[v] : backlog'[v][i] = backlog[v][j]
  OBVIOUS
<1>5. \A p \in Workers : \A n : Astray(p, n, t)' => Astray(p, n, t)
  BY <1>4, MonitorsStrays
<1>6. Strays(t)' \subseteq Strays(t)
  BY <1>5 DEF Strays
<1>7. Present(t)' => Present(t)
  BY DEF Present
<1>8. QED
  BY <1>3, <1>6, <1>7, TaskLeftAlone

\* The premises that all the lemmas on the steps of a monitor share.
TaskUpToHere(t) ==
  /\ P2PInv /\ NetworkTypes /\ TaskIsSafe(t)
  /\ P2PInv' /\ NetworkTypes'
  /\ UNCHANGED <<fresh, executions>>

LEMMA PreparingKeepsTask ==
  ASSUME NEW t \in Tasks, TaskUpToHere(t), NEW w \in Workers,
         \/ NoticeOverload(w)
         \/ AskPeer(w)
         \/ \E n \in 1 .. MaxTransfer : ChoosePeer(w, n)
         \/ ReserveNext(w)
  PROVE  TaskIsSafe(t)'
<1>1. /\ P2PInv /\ P2PInv' /\ NetworkTypes /\ NetworkTypes' /\ TaskIsSafe(t)
      /\ UNCHANGED <<fresh, executions>>
  BY DEF TaskUpToHere
<1>2. CASE NoticeOverload(w)
  <2> DEFINE m == [Idle EXCEPT !.step = "asking"]
  <2>1. /\ monitor[w].step = "idle" /\ monitor' = [monitor EXCEPT ![w] = m]
        /\ UNCHANGED <<queue, backlog, handled, transfers, timeouts>>
    BY <1>2 DEF NoticeOverload, At, Continue
  <2>2. m.step = "asking"
    BY DEF Idle
  <2> HIDE DEF m
  <2>3. QED
    BY <1>1, <2>1, <2>2, QuietMonitorStep
<1>3. CASE AskPeer(w)
  <2>1. PICK m : /\ m.step = "asking" /\ monitor[w].step = "asking"
                 /\ monitor' = [monitor EXCEPT ![w] = m]
                 /\ UNCHANGED <<queue, backlog, handled, transfers>>
                 /\ timeouts' = timeouts \/ timeouts' = timeouts + 1
    <3> DEFINE unasked == Peers(w) \ DOMAIN monitor[w].room
               p == CHOOSE q \in unasked : \A v \in unasked : q <= v
    <3>1. PICK room \in 0 .. Capacity :
            /\ monitor[w].step = "asking" /\ Answers(p, room)
            /\ monitor' = [monitor EXCEPT ![w] =
                             [monitor[w] EXCEPT !.room = Extended(@, p, room)]]
            /\ UNCHANGED <<queue, backlog, handled, transfers>>
      BY <1>3 DEF AskPeer, At, Continue
    <3> DEFINE m == [monitor[w] EXCEPT !.room = Extended(@, p, room)]
    <3>2. timeouts' = timeouts \/ timeouts' = timeouts + 1
      BY <3>1 DEF Answers
    <3> HIDE DEF p
    <3>3. monitor[w] \in MonitorStates
      BY <1>1, OfOneWorker
    <3>4. m.step = "asking"
      BY <3>1, <3>3 DEF MonitorStates
    <3>5. monitor' = [monitor EXCEPT ![w] = m]
      BY <3>1
    <3> HIDE DEF m
    <3>6. QED
      BY <3>1, <3>2, <3>4, <3>5
  <2>2. \A v \in Workers : queue'[v].active = queue[v].active
    BY <2>1
  <2>3. QED
    BY <1>1, <2>1, <2>2, QuietMonitorStep
<1>4. ASSUME NEW n \in 1 .. MaxTransfer, ChoosePeer(w, n)
      PROVE  TaskIsSafe(t)'
  <2>1. PICK m : /\ m.step \in {"idle", "reserving"} /\ monitor[w].step = "asking"
                 /\ monitor' = [monitor EXCEPT ![w] = m]
                 /\ UNCHANGED <<queue, backlog, handled, transfers, timeouts>>
    <3> DEFINE room == monitor[w].room
               open == {p \in DOMAIN room : room[p] > 0}
               best == CHOOSE p \in open : \A v \in open :
                         room[p] > room[v] \/ (room[p] = room[v] /\ p <= v)
               picked == Candidates(queue[w], IF n < room[best] THEN n ELSE room[best])
               ids == [i \in DOMAIN picked |-> picked[i].id]
               m == IF open = {} THEN Idle
                    ELSE [Idle EXCEPT !.step = "reserving", !.peer = best, !.todo = ids]
    <3>1. /\ monitor[w].step = "asking" /\ monitor' = [monitor EXCEPT ![w] = m]
          /\ UNCHANGED <<queue, backlog, handled, transfers, timeouts>>
      BY <1>4 DEF ChoosePeer, At, Continue
    <3> HIDE DEF best, open, picked, ids
    <3>2. m.step \in {"idle", "reserving"}
      BY DEF Idle
    <3> HIDE DEF m
    <3>3. QED
      BY <3>1, <3>2
  <2>2. \A v \in Workers : queue'[v].active = queue[v].active
    BY <2>1
  <2>3. QED
    BY <1>1, <2>1, <2>2, QuietMonitorStep
<1>5. CASE ReserveNext(w)
  <2> DEFINE id == Head(monitor[w].todo)
             q == Reserved(queue[w], id)
             held == IF q = queue[w] THEN monitor[w].held
                     ELSE Append(monitor[w].held, Reservation(q, id).copy)
             m == [monitor[w] EXCEPT !.todo = Tail(monitor[w].todo), !.held = held]
  <2>1. /\ monitor[w].step = "reserving"
        /\ queue' = [queue EXCEPT ![w] = q]
        /\ monitor' = [monitor EXCEPT ![w] = m]
        /\ UNCHANGED <<backlog, handled, transfers, timeouts>>
    BY <1>5 DEF ReserveNext, At, Continue
  <2> HIDE DEF id
  <2>2. /\ queue[w] \in Queues(Copies) /\ monitor[w] \in MonitorStates
        /\ queue \in [Workers -> Queues(Copies)]
    BY <1>1, OfOneWorker DEF P2PInv, QueuesAreSafe
  <2>3. q.active = queue[w].active
    BY <2>2 DEF Reserved, Queues
  <2> HIDE DEF q, held
  <2>4. m.step = "reserving"
    BY <2>1, <2>2 DEF MonitorStates
  <2> HIDE DEF m
  <2>5. \A v \in Workers : queue'[v].active = queue[v].active
    BY <2>1, <2>2, <2>3
  <2>6. QED
    BY <1>1, <2>1, <2>4, <2>5, QuietMonitorStep
<1>6. QED
  BY <1>2, <1>3, <1>4, <1>5

(* What a monitor holds is what its queue has reserved, and answers for. *)
LEMMA HeldAreActive ==
  ASSUME P2PInv, NEW w \in Workers
  PROVE  /\ IdsIn(monitor[w].held) = ReservedIds(queue[w])
         /\ IdsIn(monitor[w].held) \subseteq queue[w].active
<1>1. SoundQueue(Copies, queue[w]) /\ HoldsReserved(monitor[w].held, queue[w])
  BY OfOneWorker DEF MonitorIsSafe
<1>2. {r.copy : r \in queue[w].reserved} = ToSet(monitor[w].held)
  BY <1>1 DEF HoldsReserved
<1>3. IdsIn(monitor[w].held) = {c.id : c \in ToSet(monitor[w].held)}
  BY DEF IdsIn, ToSet
<1>4. ReservedIds(queue[w]) = {c.id : c \in {r.copy : r \in queue[w].reserved}}
  BY DEF ReservedIds
<1>5. ReservedIds(queue[w]) \subseteq queue[w].active
  BY <1>1 DEF SoundQueue, EachHeldOnce
<1>6. QED
  BY <1>2, <1>3, <1>4, <1>5

LEMMA SendTransferKeepsTask ==
  ASSUME NEW t \in Tasks, TaskUpToHere(t), NEW w \in Workers, SendTransfer(w)
  PROVE  TaskIsSafe(t)'
<1>1. /\ P2PInv /\ P2PInv' /\ NetworkTypes /\ NetworkTypes' /\ TaskIsSafe(t)
      /\ UNCHANGED <<fresh, executions>>
  BY DEF TaskUpToHere
<1>2. /\ monitor[w].step = "reserving" /\ UNCHANGED <<queue, handled, timeouts>>
      /\ monitor[w] \in MonitorStates /\ monitor[w].answer = "none"
      /\ monitor \in [Workers -> MonitorStates] /\ transfers \in Nat
      /\ \A v \in Workers : queue'[v].active = queue[v].active
  <2>1. monitor[w].step = "reserving" /\ UNCHANGED <<queue, handled, timeouts>>
    BY DEF SendTransfer, At
  <2>2. /\ monitor[w] \in MonitorStates /\ monitor[w].answer = "none"
        /\ monitor \in [Workers -> MonitorStates] /\ transfers \in Nat
    BY <1>1, <2>1, OfOneWorker DEF P2PInv, MonitorsAreSafe, MonitorIsSafe
  <2>3. QED
    BY <2>1, <2>2
<1>3. monitor[w].step \notin {"waiting", "confirming"} /\ timeouts' = timeouts
  BY <1>2
<1>4. CASE monitor' = [monitor EXCEPT ![w] = Idle] /\ UNCHANGED <<backlog, transfers>>
  <2>1. Idle.step \notin {"waiting", "confirming"}
    BY DEF Idle
  <2>2. UNCHANGED <<backlog, handled, transfers>>
    BY <1>2, <1>4
  <2>3. QED
    BY <1>1, <1>2, <1>3, <1>4, <2>1, <2>2, QuietMonitorStep
<1> DEFINE released == [monitor[w] EXCEPT !.step = "releasing"]
<1>5. CASE monitor' = [monitor EXCEPT ![w] = released] /\ UNCHANGED <<backlog, transfers>>
  <2>1. released.step = "releasing"
    BY <1>2 DEF MonitorStates
  <2> HIDE DEF released
  <2>2. released.step \notin {"waiting", "confirming"}
    BY <2>1
  <2>3. UNCHANGED <<backlog, handled, transfers>>
    BY <1>2, <1>5
  <2>4. QED
    BY <1>1, <1>2, <1>3, <1>5, <2>2, <2>3, QuietMonitorStep
<1> DEFINE p == monitor[w].peer
           r == [request |-> transfers + 1, from |-> w, tasks |-> monitor[w].held]
           m == [monitor[w] EXCEPT !.step = "waiting", !.request = transfers + 1]
<1>6. ASSUME transfers' = transfers + 1,
             backlog' = [backlog EXCEPT ![p] = Append(backlog[p], r)],
             monitor' = [monitor EXCEPT ![w] = m]
      PROVE  TaskIsSafe(t)'
  <2>1. /\ p \in Workers /\ monitor[w].held \in Seq(Copies)
        /\ backlog \in [Workers -> Seq(Requests)]
    BY <1>1, <1>2, OfOneWorker DEF MonitorIsSafe, MonitorStates
  <2>2. r \in Requests /\ r.request = transfers + 1 /\ r.from = w /\ r.tasks = monitor[w].held
    BY <1>2, <2>1 DEF Requests
  <2>3. /\ m.step = "waiting" /\ m.request = transfers + 1 /\ m.answer = "none"
        /\ m.held = monitor[w].held
    BY <1>2 DEF MonitorStates
  <2> HIDE DEF m, r, p
  <2>4. /\ monitor'[w] = m /\ \A v \in Workers \ {w} : monitor'[v] = monitor[v]
    BY <1>2, <1>6
  <2>5. \A v \in Workers : \A i \in DOMAIN backlog'[v] :
          \/ backlog'[v][i] = r
          \/ i \in DOMAIN backlog[v] /\ backlog'[v][i] = backlog[v][i]
    <3> DEFINE longer == Append(backlog[p], r)
    <3>1. \A i \in DOMAIN longer : longer[i] = r \/ (i \in DOMAIN backlog[p] /\ longer[i] = backlog[p][i])
      BY <2>1, <2>2, OneMoreRequest
    <3>2. backlog' = [backlog EXCEPT ![p] = longer]
      BY <1>6
    <3> HIDE DEF longer
    <3>3. backlog'[p] = longer /\ \A v \in Workers \ {p} : backlog'[v] = backlog[v]
      BY <2>1, <3>2
    <3>4. QED
      BY <3>1, <3>3
  <2>6. Keepers(t)' = Keepers(t)
    <3>1. ASSUME NEW v \in Workers PROVE Keeps(v, t)' <=> Keeps(v, t)
      <4>1. CASE v = w
        BY <1>2, <2>3, <2>4, <4>1 DEF Keeps, Committed
      <4>2. CASE v # w
        <5>1. monitor'[v] = monitor[v] /\ queue'[v] = queue[v]
          BY <1>2, <2>4, <4>2
        <5>2. QED
          BY <5>1 DEF Keeps, Committed
      <4>3. QED
        BY <4>1, <4>2
    <3>2. QED
      BY <3>1 DEF Keepers
  <2>7. ASSUME NEW v \in Workers, NEW n, Astray(v, n, t)'
        PROVE  Astray(v, n, t) /\ n \in 1 .. transfers
    <3>1. PICK i \in DOMAIN backlog'[v] :
            /\ backlog'[v][i].request = n
            /\ t \in IdsIn(backlog'[v][i].tasks)
            /\ n \notin DOMAIN handled[v]
            /\ ~ (/\ monitor'[backlog'[v][i].from].step = "waiting"
                  /\ monitor'[backlog'[v][i].from].request = backlog'[v][i].request)
      BY <1>2, <2>7 DEF Astray, Awaits
    <3>2. backlog'[v][i] # r
      BY <2>2, <2>3, <2>4, <3>1
    <3>3. i \in DOMAIN backlog[v] /\ backlog'[v][i] = backlog[v][i]
      BY <2>5, <3>2
    <3>4. backlog[v][i].from \in Workers /\ backlog[v][i].request \in 1 .. transfers
      BY <1>1, <3>3, OfOneRequest
    <3>5. ~ Awaits(backlog[v][i].from, backlog[v][i])
      BY <1>2, <2>4, <3>1, <3>3, <3>4 DEF Awaits
    <3>6. QED
      BY <3>1, <3>3, <3>4, <3>5 DEF Astray
  <2>8. Strays(t)' \subseteq Strays(t)
    BY <2>7 DEF Strays
  <2>9. Present(t)' => Present(t)
    <3>1. SUFFICES ASSUME NEW v \in Workers, NEW i \in DOMAIN backlog'[v],
                          t \in IdsIn(backlog'[v][i].tasks)
                   PROVE  Present(t)
      BY <1>2 DEF Present
    <3>2. CASE backlog'[v][i] = r
      <4>1. t \in queue[w].active
        BY <1>1, <2>2, <3>1, <3>2, HeldAreActive
      <4>2. QED
        BY <4>1 DEF Present
    <3>3. CASE i \in DOMAIN backlog[v] /\ backlog'[v][i] = backlog[v][i]
      BY <3>1, <3>3 DEF Present
    <3>4. QED
      BY <2>5, <3>2, <3>3
  <2>10. QED
    BY <1>1, <1>2, <2>6, <2>8, <2>9, TaskLeftAlone
<1>7. QED
  BY <1>4, <1>5, <1>6 DEF SendTransfer, Continue

(* The giver learns the answer: what was on its way is now known, and the  *)
(* request it answers has been handled.                                    *)
LEMMA ReadAnswerKeepsTask ==
  ASSUME NEW t \in Tasks, TaskUpToHere(t), NEW w \in Workers, ReadAnswer(w)
  PROVE  TaskIsSafe(t)'
<1> DEFINE m == [monitor[w] EXCEPT
                   !.step = IF monitor[w].answer = "accepted" THEN "confirming" ELSE "releasing"]
<1>1. /\ P2PInv /\ P2PInv' /\ NetworkTypes /\ NetworkTypes' /\ TaskIsSafe(t)
      /\ UNCHANGED <<fresh, executions>>
  BY DEF TaskUpToHere
<1>2. /\ monitor[w].step = "waiting" /\ monitor[w].answer # "none"
      /\ monitor' = [monitor EXCEPT ![w] = m]
      /\ UNCHANGED <<queue, backlog, handled, transfers, timeouts>>
  BY DEF ReadAnswer, At, Continue
<1>3. monitor[w] \in MonitorStates
  BY <1>1, OfOneWorker
<1>4. /\ m.step = IF monitor[w].answer = "accepted" THEN "confirming" ELSE "releasing"
      /\ m.held = monitor[w].held
  BY <1>3 DEF MonitorStates
<1> HIDE DEF m
<1>5. monitor'[w] = m
  BY <1>1, <1>2 DEF P2PInv, MonitorsAreSafe
<1>6. ASSUME NEW v \in Workers PROVE Keeps(v, t)' <=> Keeps(v, t)
  <2>1. CASE v = w
    BY <1>2, <1>4, <1>5, <2>1 DEF Keeps, Committed
  <2>2. CASE v # w
    BY <1>1, <1>2, <2>2, OthersKeep
  <2>3. QED
    BY <2>1, <2>2
<1>7. Keepers(t)' = Keepers(t)
  BY <1>6 DEF Keepers
<1>8. monitor[w].request \in DOMAIN handled[monitor[w].peer]
  BY <1>1, <1>2 DEF P2PInv, AnswersMatch
<1>9. /\ m.step # "waiting" /\ handled' = handled
      /\ \A v \in Workers : \A i \in DOMAIN backlog'[v] :
           \E j \in DOMAIN backlog[v] : backlog'[v][i] = backlog[v][j]
  BY <1>2, <1>4
<1>10. ASSUME NEW p \in Workers, NEW n, Astray(p, n, t)'
       PROVE  Astray(p, n, t)
  <2>1. \/ Astray(p, n, t)
        \/ /\ monitor[w].step = "waiting" /\ monitor[w].request = n /\ monitor[w].peer = p
           /\ n \notin DOMAIN handled[p]
    BY <1>1, <1>2, <1>9, <1>10, MonitorsStrays
  <2>2. QED
    BY <1>8, <2>1
<1>11. Strays(t)' \subseteq Strays(t)
  BY <1>2, <1>10 DEF Strays
<1>12. Present(t)' => Present(t)
  BY <1>2 DEF Present
<1>13. QED
  BY <1>1, <1>2, <1>7, <1>11, <1>12, TaskLeftAlone

(* The giver takes back what it was about to lose to the taker, or leaves  *)
(* its request astray: one more keeper, or one more request astray, for a  *)
(* timeout more.                                                           *)
LEMMA GiveUpKeepsTask ==
  ASSUME NEW t \in Tasks, TaskUpToHere(t), AllRun, NEW w \in Workers, GiveUp(w)
  PROVE  TaskIsSafe(t)'
<1> DEFINE m == [monitor[w] EXCEPT !.step = "releasing"]
           p == monitor[w].peer
<1>1. /\ P2PInv /\ P2PInv' /\ NetworkTypes /\ NetworkTypes' /\ TaskIsSafe(t)
      /\ UNCHANGED <<fresh, executions>>
  BY DEF TaskUpToHere
<1>2. monitor[w] \in MonitorStates /\ MonitorIsSafe(w, monitor[w], queue[w])
  BY <1>1, OfOneWorker
<1>3. monitor[w].step = "waiting"
  BY DEF GiveUp, At
<1>4. p \in Workers
  BY <1>2, <1>3 DEF MonitorIsSafe
<1>5. /\ monitor' = [monitor EXCEPT ![w] = m]
      /\ UNCHANGED <<queue, handled, transfers>>
      /\ timeouts' = timeouts + 1
      /\ \/ backlog' = backlog
         \/ \E i \in DOMAIN backlog[p] : backlog' = [backlog EXCEPT ![p] = RemoveAt(@, i)]
  BY <1>4 DEF GiveUp, Continue, AllRun
<1>6. m.step = "releasing" /\ m.held = monitor[w].held
  BY <1>2 DEF MonitorStates
<1> HIDE DEF m
<1>7. monitor'[w] = m
  BY <1>1, <1>5 DEF P2PInv, MonitorsAreSafe
<1> HIDE DEF p
<1>8. ASSUME NEW v \in Workers, NEW i \in DOMAIN backlog'[v]
      PROVE  \E j \in DOMAIN backlog[v] : backlog'[v][i] = backlog[v][j]
  <2>1. CASE backlog' = backlog
    BY <2>1
  <2>2. ASSUME NEW k \in DOMAIN backlog[p], backlog' = [backlog EXCEPT ![p] = RemoveAt(@, k)]
        PROVE  \E j \in DOMAIN backlog[v] : backlog'[v][i] = backlog[v][j]
    <3>1. backlog \in [Workers -> Seq(Requests)]
      BY <1>1, OfOneWorker
    <3>2. \A n \in DOMAIN RemoveAt(backlog[p], k) :
            \E j \in DOMAIN backlog[p] : RemoveAt(backlog[p], k)[n] = backlog[p][j]
      BY <1>4, <3>1, RemovedFrom
    <3>3. backlog'[v] = IF v = p THEN RemoveAt(backlog[p], k) ELSE backlog[v]
      BY <2>2, <3>1
    <3>4. QED
      BY <3>2, <3>3
  <2>3. QED
    BY <1>5, <2>1, <2>2
<1>9. m.step # "waiting" /\ handled' = handled
  BY <1>5, <1>6
<1>10. ASSUME NEW v \in Workers, NEW n, Astray(v, n, t)'
       PROVE  \/ Astray(v, n, t)
              \/ v = p /\ n = monitor[w].request /\ n \notin DOMAIN handled[p]
  <2>1. \/ Astray(v, n, t)
        \/ /\ monitor[w].step = "waiting" /\ monitor[w].request = n /\ monitor[w].peer = v
           /\ n \notin DOMAIN handled[v]
    BY <1>1, <1>5, <1>8, <1>9, <1>10, MonitorsStrays
  <2>2. QED
    BY <2>1 DEF p
<1>11. Present(t)' => Present(t)
  BY <1>5, <1>8 DEF Present
<1>12. \A v \in Workers \ {w} : Keeps(v, t)' <=> Keeps(v, t)
  BY <1>1, <1>5, OthersKeep
<1>13. Keeps(w, t) => Keeps(w, t)'
  BY <1>5, <1>6, <1>7 DEF Keeps, Committed
<1>14. Keepers(t) \subseteq Keepers(t)'
  BY <1>12, <1>13 DEF Keepers
<1> DEFINE K == Cardinality(Keepers(t))
           S == Cardinality(Strays(t))
           L == Cardinality(Keepers(t)')
           R == Cardinality(Strays(t)')
<1>15. /\ executions[t] \in Nat /\ timeouts \in Nat
       /\ IsFiniteSet(Keepers(t)) /\ IsFiniteSet(Keepers(t)')
       /\ IsFiniteSet(Strays(t)) /\ IsFiniteSet(Strays(t)')
       /\ K \in Nat /\ S \in Nat /\ L \in Nat /\ R \in Nat
  BY <1>1, CountsAreNumbers
<1>16. L + R <= K + S + 1
  <2>1. CASE monitor[w].answer = "accepted"
    <3>1. monitor[w].request \in DOMAIN handled[p]
      BY <1>1, <1>3, <2>1 DEF P2PInv, AnswersMatch, p
    <3>2. Strays(t)' \subseteq Strays(t)
      BY <1>5, <1>10, <3>1 DEF Strays
    <3>3. Keepers(t)' \subseteq Keepers(t) \cup {w}
      BY <1>12 DEF Keepers
    <3>4. R <= S /\ L <= K + 1
      BY <1>15, <3>2, <3>3, ChangedSize
    <3> HIDE DEF K, S, L, R
    <3>5. QED
      BY <1>15, <3>4
  <2>2. CASE monitor[w].answer # "accepted"
    <3>1. Keeps(w, t)' <=> Keeps(w, t)
      BY <1>3, <1>5, <1>6, <1>7, <2>2 DEF Keeps, Committed
    <3>2. Keepers(t)' = Keepers(t)
      BY <1>12, <3>1 DEF Keepers
    <3>3. Strays(t)' \subseteq Strays(t) \cup {<<p, monitor[w].request>>}
      BY <1>5, <1>10 DEF Strays
    <3>4. R <= S + 1
      BY <1>15, <3>3, ChangedSize
    <3>5. L = K
      BY <3>2
    <3> HIDE DEF K, S, L, R
    <3>6. QED
      BY <1>15, <3>4, <3>5
  <2>3. QED
    BY <2>1, <2>2
<1>17. executions[t] + K + S <= 1 + timeouts
  BY <1>1 DEF TaskIsSafe
<1>18. executions'[t] + L + R <= 1 + timeouts'
  <2> HIDE DEF K, S, L, R
  <2>1. executions[t] + L + R <= 1 + timeouts + 1
    BY <1>15, <1>16, <1>17
  <2>2. QED
    BY <1>1, <1>5, <1>15, <2>1
<1>19. /\ t \in fresh' => executions'[t] = 0 /\ ~ Present(t)'
       /\ t \notin fresh' /\ executions'[t] = 0 => Keepers(t)' # {}
  BY <1>1, <1>11, <1>14 DEF TaskIsSafe
<1>20. QED
  BY <1>18, <1>19 DEF TaskIsSafe

(* A confirmed copy is one that its taker keeps already. *)
LEMMA SettleNextKeepsTask ==
  ASSUME NEW t \in Tasks, TaskUpToHere(t), NEW w \in Workers, SettleNext(w)
  PROVE  TaskIsSafe(t)'
<1> DEFINE h == monitor[w].held
           id == Head(h).id
           rest == [monitor[w] EXCEPT !.held = Tail(h)]
           m == IF Len(h) = 1 THEN Idle ELSE rest
<1>1. /\ P2PInv /\ P2PInv' /\ NetworkTypes /\ NetworkTypes' /\ TaskIsSafe(t)
      /\ UNCHANGED <<fresh, executions>>
  BY DEF TaskUpToHere
<1>2. /\ monitor[w].step \in {"confirming", "releasing"}
      /\ monitor' = [monitor EXCEPT ![w] = m]
      /\ UNCHANGED <<backlog, handled, transfers, timeouts>>
  BY DEF SettleNext, At, Continue
<1>3. /\ queue' = [queue EXCEPT ![w] = IF monitor[w].step = "confirming"
                                         THEN Confirmed(queue[w], id)
                                         ELSE Released(queue[w], id)]
      /\ queue \in [Workers -> Queues(Copies)]
  BY <1>1 DEF SettleNext, P2PInv, QueuesAreSafe
<1>4. /\ SoundQueue(Copies, queue[w]) /\ monitor[w] \in MonitorStates
      /\ h \in Seq(Copies) /\ h # <<>> /\ Distinct(h)
      /\ IdsIn(h) = ReservedIds(queue[w])
  <2>1. MonitorIsSafe(w, monitor[w], queue[w]) /\ SoundQueue(Copies, queue[w])
        /\ monitor[w] \in MonitorStates
    BY <1>1, OfOneWorker
  <2>2. IdsIn(h) = ReservedIds(queue[w])
    BY <1>1, HeldAreActive
  <2>3. QED
    BY <1>2, <2>1, <2>2 DEF MonitorIsSafe, MonitorStates, HoldsReserved
<1> HIDE DEF h
<1>5. /\ Tail(h) \in Seq(Copies) /\ Len(Tail(h)) = Len(h) - 1
      /\ IdsIn(Tail(h)) = IdsIn(h) \ {id} /\ id \in IdsIn(h)
  BY <1>4, TailCopies
<1>6. Len(h) = 1 => IdsIn(Tail(h)) = {}
  <2>1. SUFFICES ASSUME Len(h) = 1 PROVE IdsIn(Tail(h)) = {}
    OBVIOUS
  <2>2. Len(Tail(h)) = 0
    BY <1>5, <2>1
  <2>3. Tail(h) = <<>>
    BY <1>5, <2>2, EmptySeq
  <2>4. QED
    BY <2>3 DEF IdsIn
<1>7. /\ rest.step = monitor[w].step /\ rest.held = Tail(h)
  BY <1>4, <1>5 DEF MonitorStates
<1>8. Idle.step = "idle"
  BY DEF Idle
<1> HIDE DEF rest, id
<1>9. m.step # "waiting" /\ m.step \in {monitor[w].step, "idle"}
      /\ (Len(h) # 1 => m.step = monitor[w].step /\ m.held = Tail(h))
      /\ (Len(h) = 1 => m.step = "idle")
  BY <1>2, <1>7, <1>8
<1> HIDE DEF m
<1>10. /\ monitor'[w] = m /\ \A v \in Workers \ {w} : monitor'[v] = monitor[v]
       /\ \A v \in Workers \ {w} : queue'[v] = queue[v]
  BY <1>1, <1>2, <1>3 DEF P2PInv, MonitorsAreSafe
<1>11. CASE monitor[w].step = "releasing"
  <2>1. Released(queue[w], id).active = queue[w].active
    BY <1>4, <1>5, ReleasedKeepsQueue
  <2>2. queue'[w] = Released(queue[w], id)
    BY <1>3, <1>11
  <2>3. \A v \in Workers : queue'[v].active = queue[v].active
    BY <1>10, <2>1, <2>2
  <2>4. m.step \notin {"waiting", "confirming"} /\ monitor[w].step \notin {"waiting", "confirming"}
    BY <1>9, <1>11
  <2>5. QED
    BY <1>1, <1>2, <2>3, <2>4, QuietMonitorStep
<1>12. CASE monitor[w].step = "confirming"
  <2>1. Confirmed(queue[w], id).active = queue[w].active \ {id}
    <3> DEFINE q == queue[w]
               r == Confirmed(q, id)
               e == Reservation(q, id)
    <3>1. /\ SoundQueue(Copies, r) /\ Size(r) = Size(q) - 1
          /\ KeptCopies(r) = KeptCopies(q) \ {e.copy}
          /\ r.active = q.active \ {id}
          /\ r.reserved = q.reserved \ {e} /\ r.processing = q.processing
      BY <1>4, <1>5, ConfirmedQueue
    <3>2. QED
      BY <3>1
  <2>2. queue'[w].active = queue[w].active \ {id}
    <3>1. queue'[w] = Confirmed(queue[w], id)
      BY <1>3, <1>12
    <3>2. QED
      BY <2>1, <3>1
  <2>3. Committed(w, t) <=> t \in IdsIn(h)
    BY <1>12 DEF Committed, h
  <2>4. Committed(w, t)' <=> t \in IdsIn(Tail(h))
    <3>1. Committed(w, t)' <=> /\ t \in IdsIn(m.held)
                               /\ \/ m.step = "confirming"
                                  \/ m.step = "waiting" /\ m.answer = "accepted"
      BY <1>10 DEF Committed
    <3>2. CASE Len(h) = 1
      BY <1>6, <1>9, <3>1, <3>2
    <3>3. CASE Len(h) # 1
      BY <1>9, <1>12, <3>1, <3>3
    <3>4. QED
      BY <3>2, <3>3
  <2>5. Keeps(w, t)' <=> Keeps(w, t)
    BY <1>5, <2>2, <2>3, <2>4 DEF Keeps
  <2>6. Keepers(t)' = Keepers(t)
    <3>1. \A v \in Workers \ {w} : Keeps(v, t)' <=> Keeps(v, t)
      BY <1>10 DEF Keeps, Committed
    <3>2. QED
      BY <2>5, <3>1 DEF Keepers
  <2>7. /\ m.step # "waiting" /\ handled' = handled
        /\ \A v \in Workers : \A i \in DOMAIN backlog'[v] :
             \E j \in DOMAIN backlog[v] : backlog'[v][i] = backlog[v][j]
    BY <1>2, <1>9
  <2>8. ASSUME NEW p \in Workers, NEW n, Astray(p, n, t)'
        PROVE  Astray(p, n, t)
    <3>1. \/ Astray(p, n, t)
          \/ /\ monitor[w].step = "waiting" /\ monitor[w].request = n /\ monitor[w].peer = p
             /\ n \notin DOMAIN handled[p]
      BY <1>1, <1>2, <2>7, <2>8, MonitorsStrays
    <3>2. QED
      BY <1>12, <3>1
  <2>9. Strays(t)' \subseteq Strays(t)
    BY <1>2, <2>8 DEF Strays
  <2>10. Present(t)' => Present(t)
    <3>1. \A v \in Workers : queue'[v].active \subseteq queue[v].active
      BY <1>10, <2>2
    <3>2. QED
      BY <1>2, <3>1 DEF Present
  <2>11. QED
    BY <1>1, <1>2, <2>6, <2>9, <2>10, TaskLeftAlone
<1>13. QED
  BY <1>2, <1>11, <1>12

LEMMA MonitoringKeepsTask ==
  ASSUME NEW t \in Tasks, TaskUpToHere(t), AllRun, NEW w \in Workers, Monitoring(w)
  PROVE  TaskIsSafe(t)'
<1>1. CASE \/ NoticeOverload(w)
           \/ AskPeer(w)
           \/ \E n \in 1 .. MaxTransfer : ChoosePeer(w, n)
           \/ ReserveNext(w)
  BY <1>1, PreparingKeepsTask
<1>2. CASE SendTransfer(w)
  BY <1>2, SendTransferKeepsTask
<1>3. CASE ReadAnswer(w)
  BY <1>3, ReadAnswerKeepsTask
<1>4. CASE GiveUp(w)
  BY <1>4, GiveUpKeepsTask
<1>5. CASE SettleNext(w)
  BY <1>5, SettleNextKeepsTask
<1>6. QED
  BY <1>1, <1>2, <1>3, <1>4, <1>5 DEF Monitoring

-----------------------------------------------------------------------------
(* What the server does to the tasks.                                      *)

(***************************************************************************)
(* An accepted request that is awaited moves a task from its giver to its  *)
(* taker; one that is not awaited was astray, and makes a keeper.  Nothing *)
(* else changes who keeps a task: an answer given before is given again.   *)
(***************************************************************************)
LEMMA HandleKeepsTask ==
  ASSUME NEW t \in Tasks, TaskUpToHere(t), AllRun, NEW p \in Workers,
         NEW k \in DOMAIN backlog[p], Handle(p, backlog[p][k]),
         \A v \in Workers : \A i \in DOMAIN backlog'[v] :
           \E j \in DOMAIN backlog[v] : backlog'[v][i] = backlog[v][j],
         UNCHANGED <<running, transfers, timeouts>>
  PROVE  TaskIsSafe(t)'
<1> DEFINE r == backlog[p][k]
           f == r.from
           n == r.request
<1>1. /\ P2PInv /\ P2PInv' /\ NetworkTypes /\ NetworkTypes' /\ TaskIsSafe(t)
      /\ UNCHANGED <<fresh, executions>>
  BY DEF TaskUpToHere
<1>2. r \in Requests /\ n \in 1 .. transfers /\ f \in Workers /\ r.tasks \in Seq(Copies)
  BY <1>1, OfOneRequest
<1>3. HandleEffect(p, r)
  BY <1>1, <1>2, HandleChanges
<1>4. \A v \in Workers : Awaits(v, r) => v = f /\ monitor[v].peer = p /\ monitor[v].held = r.tasks
  BY <1>1 DEF P2PInv, AwaitedRequestsMatch
<1>5. t \in IdsIn(r.tasks) /\ n \notin DOMAIN handled[p] /\ ~ Awaits(f, r) => Astray(p, n, t)
  BY DEF Astray
<1>6. t \in IdsIn(r.tasks) => Present(t)
  BY DEF Present
<1> HIDE DEF r
<1> DEFINE new == n \notin DOMAIN handled[p]
           accepted == IsAccepted(p, r)
           a == AnswerTo(p, r)
<1>7. queue'[p] = IF new /\ accepted THEN Enqueued(queue[p], r.tasks, FALSE) ELSE queue[p]
  BY <1>3 DEF HandleEffect
<1>8. \A v \in Workers \ {p} : queue'[v] = queue[v]
  <2>1. queue' = [queue EXCEPT ![p] = queue'[p]]
    BY <1>3 DEF HandleEffect
  <2>2. queue \in [Workers -> Queues(Copies)]
    BY <1>1 DEF P2PInv, QueuesAreSafe
  <2>3. QED
    BY <2>1, <2>2
<1>9. /\ \A v \in Workers : DOMAIN handled[v] \subseteq DOMAIN handled'[v]
      /\ n \in DOMAIN handled'[p]
  BY <1>3 DEF HandleEffect
<1>10. ASSUME NEW v \in Workers
       PROVE  /\ monitor[v] \in MonitorStates
              /\ monitor'[v] = IF v = f /\ Awaits(v, r) THEN [monitor[v] EXCEPT !.answer = a]
                                                        ELSE monitor[v]
              /\ monitor'[v].step = monitor[v].step /\ monitor'[v].held = monitor[v].held
              /\ monitor'[v].request = monitor[v].request
              /\ monitor'[v].answer = IF v = f /\ Awaits(v, r) THEN a ELSE monitor[v].answer
  <2>1. monitor[v] \in MonitorStates
    BY <1>1, OfOneWorker
  <2>2. monitor'[v] = IF v = f /\ Awaits(v, r) THEN [monitor[v] EXCEPT !.answer = a]
                                               ELSE monitor[v]
    BY <1>3 DEF HandleEffect, AllRun
  <2> HIDE DEF a, f
  <2>3. CASE v = f /\ Awaits(v, r)
    BY <2>1, <2>2, <2>3 DEF MonitorStates
  <2>4. CASE ~ (v = f /\ Awaits(v, r))
    BY <2>1, <2>2, <2>4
  <2>5. QED
    BY <2>1, <2>2, <2>3, <2>4
<1>11. new /\ accepted => Verdict(queue[p], r.tasks) = "accepted"
  BY DEF IsAccepted
<1>12. Awaits(f, r) => monitor[f].step = "waiting" /\ monitor[f].request = n
  BY DEF Awaits
<1>13. Awaits(f, r) /\ new => monitor[f].answer = "none"
  BY <1>1, <1>2, <1>4, <1>12 DEF P2PInv, AnswersMatch
<1>14. Awaits(f, r) /\ ~ new => monitor[f].answer = a
  <2>1. SUFFICES ASSUME Awaits(f, r), ~ new PROVE monitor[f].answer = a
    OBVIOUS
  <2>2. monitor[f].peer = p /\ running[f] /\ n \in DOMAIN handled[p]
    BY <1>2, <1>4, <2>1 DEF AllRun
  <2>3. monitor[f].answer = IF handled[p][n] THEN "accepted" ELSE "refused"
    BY <1>1, <1>2, <1>12, <2>1, <2>2 DEF P2PInv, AnswersMatch
  <2>4. QED
    BY <2>1, <2>3 DEF AnswerTo, IsAccepted
<1>15. a = IF accepted THEN "accepted" ELSE "refused"
  BY DEF AnswerTo
<1> HIDE DEF f, n, accepted, a
<1>16. ASSUME NEW v \in Workers, NEW x, Astray(v, x, t)'
       PROVE  Astray(v, x, t) /\ <<v, x>> # <<p, n>>
  <2>1. PICK i \in DOMAIN backlog'[v] :
          /\ backlog'[v][i].request = x
          /\ t \in IdsIn(backlog'[v][i].tasks)
          /\ x \notin DOMAIN handled'[v]
          /\ ~ (/\ monitor'[backlog'[v][i].from].step = "waiting"
                /\ monitor'[backlog'[v][i].from].request = backlog'[v][i].request)
    BY <1>16 DEF Astray, Awaits
  <2>2. PICK j \in DOMAIN backlog[v] : backlog'[v][i] = backlog[v][j]
    OBVIOUS
  <2>3. backlog[v][j].from \in Workers
    BY <1>1, OfOneRequest
  <2>4. ~ Awaits(backlog[v][j].from, backlog[v][j])
    BY <1>10, <2>1, <2>2, <2>3 DEF Awaits
  <2>5. x \notin DOMAIN handled[v]
    BY <1>9, <2>1
  <2>6. Astray(v, x, t)
    BY <2>1, <2>2, <2>4, <2>5 DEF Astray
  <2>7. <<v, x>> # <<p, n>>
    BY <1>9, <2>1
  <2>8. QED
    BY <2>6, <2>7
<1>17. Strays(t)' \subseteq Strays(t) \ {<<p, n>>}
  BY <1>16 DEF Strays
<1>18. CASE new /\ accepted /\ t \in IdsIn(r.tasks)
  <2>1. /\ t \notin queue[p].active
        /\ queue'[p].active = queue[p].active \cup IdsIn(r.tasks)
    <3>1. IdsIn(r.tasks) \cap queue[p].active = {}
      BY <1>11, <1>18 DEF Verdict
    <3>2. queue[p] \in Queues(Copies)
      BY <1>1, OfOneWorker
    <3>3. Enqueued(queue[p], r.tasks, FALSE).active = queue[p].active \cup IdsIn(r.tasks)
      BY <3>2 DEF Enqueued, Queues
    <3>4. QED
      BY <1>7, <1>18, <3>1, <3>3
  <2>2. ~ Keeps(p, t) /\ Keeps(p, t)'
    <3>1. t \notin IdsIn(monitor[p].held)
      BY <1>1, <2>1, HeldAreActive
    <3>2. t \notin IdsIn(monitor'[p].held)
      BY <1>10, <3>1
    <3>3. QED
      BY <1>18, <2>1, <3>2 DEF Keeps, Committed
  <2>3. \A v \in Workers \ {p} : v # f \/ ~ Awaits(f, r) => (Keeps(v, t)' <=> Keeps(v, t))
    BY <1>8, <1>10 DEF Keeps, Committed
  <2> DEFINE K == Keepers(t)
             L == Keepers(t)'
             S == Strays(t)
             R == Strays(t)'
  <2>4. /\ executions[t] \in Nat /\ timeouts \in Nat
        /\ IsFiniteSet(K) /\ IsFiniteSet(L) /\ IsFiniteSet(S) /\ IsFiniteSet(R)
        /\ Cardinality(K) \in Nat /\ Cardinality(S) \in Nat
        /\ Cardinality(L) \in Nat /\ Cardinality(R) \in Nat
    BY <1>1, CountsAreNumbers
  <2>5. Cardinality(L) + Cardinality(R) <= Cardinality(K) + Cardinality(S)
    <3>1. CASE Awaits(f, r)
      <4>1. f # p /\ t \in queue[f].active
        <5>1. monitor[f].peer = p /\ monitor[f].held = r.tasks /\ monitor[f].peer # f
          BY <1>1, <1>2, <1>4, <3>1, OfOneWorker DEF MonitorIsSafe, f
        <5>2. t \in IdsIn(monitor[f].held) /\ f \in Workers
          BY <1>2, <1>18, <5>1 DEF f
        <5>3. QED
          BY <1>1, <5>1, <5>2, HeldAreActive
      <4>2. PICK g \in Workers : g = f
        BY <1>2 DEF f
      <4>3. Keeps(g, t)
        BY <1>12, <1>13, <1>18, <3>1, <4>1, <4>2 DEF Keeps, Committed
      <4>4. ~ Keeps(g, t)'
        <5>1. monitor'[g].answer = "accepted" /\ monitor'[g].step = "waiting"
          BY <1>10, <1>12, <1>15, <1>18, <3>1, <4>2
        <5>2. t \in IdsIn(monitor'[g].held)
          BY <1>4, <1>10, <1>18, <3>1, <4>2
        <5>3. QED
          BY <5>1, <5>2 DEF Keeps, Committed
      <4>5. g \in K /\ L \subseteq (K \ {g}) \cup {p}
        BY <2>3, <4>2, <4>3, <4>4 DEF Keepers
      <4>6. R \subseteq S
        BY <1>17
      <4> HIDE DEF K, L, S, R
      <4>7. Cardinality(L) <= Cardinality(K) /\ Cardinality(R) <= Cardinality(S)
        BY <2>4, <4>5, <4>6, ChangedSize
      <4>8. QED
        BY <2>4, <4>7
    <3>2. CASE ~ Awaits(f, r)
      <4>1. L \subseteq K \cup {p}
        BY <2>3, <3>2 DEF Keepers
      <4>2. <<p, n>> \in S
        <5>1. Astray(p, n, t) /\ n \in 1 .. transfers
          BY <1>2, <1>5, <1>18, <3>2 DEF f, n
        <5>2. QED
          BY <5>1 DEF Strays
      <4>3. R \subseteq S \ {<<p, n>>}
        BY <1>17
      <4> HIDE DEF K, L, S, R
      <4>4. Cardinality(L) <= Cardinality(K) + 1
        BY <2>4, <4>1, ChangedSize
      <4>5. Cardinality(R) <= Cardinality(S) - 1
        BY <2>4, <4>2, <4>3, ChangedSize
      <4>6. QED
        BY <2>4, <4>4, <4>5
    <3>3. QED
      BY <3>1, <3>2
  <2>6. executions[t] + Cardinality(K) + Cardinality(S) <= 1 + timeouts
    BY <1>1 DEF TaskIsSafe
  <2>7. p \in L
    BY <2>2 DEF Keepers
  <2> HIDE DEF K, L, S, R
  <2>8. executions[t] + Cardinality(L) + Cardinality(R) <= 1 + timeouts
    BY <2>4, <2>5, <2>6
  <2>9. executions'[t] + Cardinality(Keepers(t)') + Cardinality(Strays(t)') <= 1 + timeouts'
    BY <1>1, <2>8 DEF L, R
  <2>10. t \notin fresh'
    BY <1>1, <1>6, <1>18 DEF TaskIsSafe
  <2>11. Keepers(t)' # {}
    BY <2>7 DEF L
  <2>12. QED
    BY <2>9, <2>10, <2>11 DEF TaskIsSafe
<1>19. CASE ~ (new /\ accepted /\ t \in IdsIn(r.tasks))
  <2>1. \A v \in Workers : t \in queue'[v].active <=> t \in queue[v].active
    <3>1. queue[p] \in Queues(Copies)
      BY <1>1, OfOneWorker
    <3>2. Enqueued(queue[p], r.tasks, FALSE).active = queue[p].active \cup IdsIn(r.tasks)
      BY <3>1 DEF Enqueued, Queues
    <3>3. t \in queue'[p].active <=> t \in queue[p].active
      BY <1>7, <1>19, <3>2
    <3>4. QED
      BY <1>8, <3>3
  <2>2. ASSUME NEW v \in Workers PROVE Committed(v, t)' <=> Committed(v, t)
    <3>1. CASE v = f /\ Awaits(v, r)
      <4>1. CASE ~ new
        <5>1. monitor'[v].answer = monitor[v].answer
          BY <1>10, <1>14, <3>1, <4>1
        <5>2. QED
          BY <1>10, <5>1 DEF Committed
      <4>2. CASE new /\ ~ accepted
        <5>1. monitor'[v].answer = "refused" /\ monitor[v].answer = "none"
          BY <1>10, <1>13, <1>15, <3>1, <4>2
        <5>2. QED
          BY <1>10, <5>1 DEF Committed
      <4>3. CASE t \notin IdsIn(r.tasks)
        <5>1. t \notin IdsIn(monitor[v].held) /\ t \notin IdsIn(monitor'[v].held)
          BY <1>4, <1>10, <3>1, <4>3
        <5>2. QED
          BY <5>1 DEF Committed
      <4>4. QED
        BY <1>19, <4>1, <4>2, <4>3
    <3>2. CASE ~ (v = f /\ Awaits(v, r))
      BY <1>10, <3>2 DEF Committed
    <3>3. QED
      BY <3>1, <3>2
  <2>3. Keepers(t)' = Keepers(t)
    BY <2>1, <2>2 DEF Keepers, Keeps
  <2>4. Present(t)' => Present(t)
    BY <2>1 DEF Present
  <2>5. Strays(t)' \subseteq Strays(t)
    BY <1>17
  <2>6. QED
    BY <1>1, <2>3, <2>4, <2>5, TaskLeftAlone
<1>20. QED
  BY <1>18, <1>19

-----------------------------------------------------------------------------
(* What arrivals and the processing threads do to the tasks.               *)

(* A step that changes one worker's queue only. *)
LEMMA OneQueueOnly ==
  ASSUME P2PInv, NEW t \in Tasks, NEW w \in Workers, queue' = [queue EXCEPT ![w] = queue'[w]],
         UNCHANGED <<monitor, backlog, handled, transfers>>
  PROVE  /\ Strays(t)' = Strays(t)
         /\ \A v \in Workers : Committed(v, t)' <=> Committed(v, t)
         /\ \A v \in Workers \ {w} : queue'[v] = queue[v]
         /\ (t \in queue'[w].active <=> t \in queue[w].active)
              => Keepers(t)' = Keepers(t) /\ (Present(t)' <=> Present(t))
<1>1. queue \in [Workers -> Queues(Copies)]
  BY DEF P2PInv, QueuesAreSafe
<1>2. \A v \in Workers \ {w} : queue'[v] = queue[v]
  BY <1>1
<1>3. \A p, n : Astray(p, n, t)' <=> Astray(p, n, t)
  BY DEF Astray, Awaits
<1>4. Strays(t)' = Strays(t)
  BY <1>3 DEF Strays
<1>5. \A v \in Workers : Committed(v, t)' <=> Committed(v, t)
  BY DEF Committed
<1>6. ASSUME t \in queue'[w].active <=> t \in queue[w].active
      PROVE  Keepers(t)' = Keepers(t) /\ (Present(t)' <=> Present(t))
  <2>1. \A v \in Workers : t \in queue'[v].active <=> t \in queue[v].active
    BY <1>2, <1>6
  <2>2. QED
    BY <1>5, <2>1 DEF Keepers, Keeps, Present
<1>7. QED
  BY <1>2, <1>4, <1>5, <1>6

LEMMA ArriveKeepsTask ==
  ASSUME P2PInv, P2PInv', NetworkTypes, NetworkTypes', NEW t \in Tasks, TaskIsSafe(t),
         NEW w \in Workers, NEW u \in Tasks, Arrive(w, u)
  PROVE  TaskIsSafe(t)'
<1>1. /\ u \in fresh /\ fresh' = fresh \ {u}
      /\ UNCHANGED <<monitor, backlog, handled, transfers, timeouts, executions>>
  BY DEF Arrive
<1>2. /\ queue' = [queue EXCEPT ![w] = queue'[w]]
      /\ queue'[w].active = queue[w].active \cup {u}
  BY ArriveKeepsP2PInv
<1>3. /\ Strays(t)' = Strays(t)
      /\ \A v \in Workers : Committed(v, t)' <=> Committed(v, t)
      /\ \A v \in Workers \ {w} : queue'[v] = queue[v]
      /\ (t \in queue'[w].active <=> t \in queue[w].active)
           => Keepers(t)' = Keepers(t) /\ (Present(t)' <=> Present(t))
  BY <1>1, <1>2, OneQueueOnly
<1>4. CASE u # t
  <2>1. Keepers(t)' = Keepers(t) /\ (Present(t)' <=> Present(t))
    BY <1>2, <1>3, <1>4
  <2>2. t \in fresh' <=> t \in fresh
    BY <1>1, <1>4
  <2>3. Strays(t)' \subseteq Strays(t)
    BY <1>3
  <2>4. QED
    BY <1>1, <2>1, <2>2, <2>3, TaskLeftAlone
<1>5. CASE u = t
  <2>1. executions[t] = 0 /\ ~ Present(t)
    BY <1>1, <1>5 DEF TaskIsSafe
  <2>2. Strays(t) = {}
    <3>1. \A p \in Workers : \A n : ~ Astray(p, n, t)
      BY <2>1 DEF Present, Astray
    <3>2. QED
      BY <3>1 DEF Strays
  <2>3. Keepers(t)' = {w}
    <3>1. \A v \in Workers : t \notin queue[v].active
      BY <2>1 DEF Present
    <3>2. ~ Committed(w, t)
      BY <3>1, HeldAreActive DEF Committed
    <3>3. Keeps(w, t)'
      BY <1>2, <1>3, <1>5, <3>2 DEF Keeps
    <3>4. \A v \in Workers \ {w} : ~ Keeps(v, t)'
      BY <1>3, <3>1 DEF Keeps
    <3>5. QED
      BY <3>3, <3>4 DEF Keepers
  <2>4. Cardinality(Keepers(t)') = 1 /\ Cardinality(Strays(t)') = 0
    BY <1>3, <2>2, <2>3, FS_Singleton, FS_EmptySet
  <2>5. executions'[t] = 0 /\ timeouts \in Nat /\ timeouts' = timeouts
    BY <1>1, <2>1, CountsAreNumbers
  <2>6. executions'[t] + Cardinality(Keepers(t)') + Cardinality(Strays(t)') <= 1 + timeouts'
    BY <2>4, <2>5
  <2>7. t \notin fresh' /\ Keepers(t)' # {}
    BY <1>1, <1>5, <2>3
  <2>8. QED
    BY <2>6, <2>7 DEF TaskIsSafe
<1>6. QED
  BY <1>4, <1>5

LEMMA TakeKeepsTask ==
  ASSUME P2PInv, P2PInv', NetworkTypes, NetworkTypes', NEW t \in Tasks, TaskIsSafe(t),
         NEW w \in Workers, Take(w)
  PROVE  TaskIsSafe(t)'
<1>1. UNCHANGED <<monitor, backlog, handled, transfers, timeouts, fresh, executions>>
  BY DEF Take
<1>2. /\ queue' = [queue EXCEPT ![w] = queue'[w]]
      /\ queue'[w].active = queue[w].active
  BY TakeKeepsP2PInv
<1>3. /\ Strays(t)' = Strays(t)
      /\ (t \in queue'[w].active <=> t \in queue[w].active)
           => Keepers(t)' = Keepers(t) /\ (Present(t)' <=> Present(t))
  BY <1>1, <1>2, OneQueueOnly
<1>4. Keepers(t)' = Keepers(t) /\ (Present(t)' <=> Present(t)) /\ Strays(t)' \subseteq Strays(t)
  BY <1>2, <1>3
<1>5. QED
  BY <1>1, <1>4, TaskLeftAlone

(* A processed copy is one that its worker keeps: what is being given away *)
(* is reserved, and cannot be taken by the processing thread.              *)
LEMMA FinishKeepsTask ==
  ASSUME P2PInv, P2PInv', NetworkTypes, NetworkTypes', NEW t \in Tasks, TaskIsSafe(t),
         NEW w \in Workers, Finish(w)
  PROVE  TaskIsSafe(t)'
<1>1. /\ UNCHANGED <<monitor, backlog, handled, transfers, timeouts, fresh>>
      /\ executions'[t] = executions[t] + IF t \in ProcessingIds(queue[w]) THEN 1 ELSE 0
  BY DEF Finish
<1>2. /\ queue' = [queue EXCEPT ![w] = queue'[w]]
      /\ queue'[w].active = queue[w].active \ ProcessingIds(queue[w])
  BY FinishKeepsP2PInv
<1>3. /\ Strays(t)' = Strays(t)
      /\ \A v \in Workers : Committed(v, t)' <=> Committed(v, t)
      /\ \A v \in Workers \ {w} : queue'[v] = queue[v]
      /\ (t \in queue'[w].active <=> t \in queue[w].active)
           => Keepers(t)' = Keepers(t) /\ (Present(t)' <=> Present(t))
  BY <1>1, <1>2, OneQueueOnly
<1>4. SoundQueue(Copies, queue[w])
  BY OfOneWorker
<1> DEFINE K == Keepers(t)
           L == Keepers(t)'
<1>5. /\ executions[t] \in Nat /\ executions'[t] \in Nat /\ timeouts \in Nat
      /\ IsFiniteSet(K) /\ IsFiniteSet(L)
      /\ Cardinality(K) \in Nat /\ Cardinality(L) \in Nat /\ Cardinality(Strays(t)) \in Nat
  BY CountsAreNumbers
<1>6. CASE t \in ProcessingIds(queue[w])
  <2>1. t \in queue[w].active /\ t \notin ReservedIds(queue[w])
    BY <1>4, <1>6 DEF SoundQueue, EachHeldOnce, Disjoint
  <2>2. Keeps(w, t)
    BY <2>1, HeldAreActive DEF Keeps, Committed
  <2>3. ~ Keeps(w, t)'
    BY <1>2, <1>6 DEF Keeps
  <2>4. w \in K /\ L \subseteq K \ {w}
    <3>1. \A v \in Workers \ {w} : Keeps(v, t)' <=> Keeps(v, t)
      BY <1>3 DEF Keeps
    <3>2. QED
      BY <2>2, <2>3, <3>1 DEF Keepers
  <2>5. executions[t] + Cardinality(K) + Cardinality(Strays(t)) <= 1 + timeouts
    BY DEF TaskIsSafe
  <2>6. t \notin fresh'
    BY <1>1, <2>1 DEF TaskIsSafe, Present
  <2> HIDE DEF K, L
  <2>7. Cardinality(L) <= Cardinality(K) - 1
    BY <1>5, <2>4, ChangedSize
  <2> DEFINE x == executions'[t]
             S == Cardinality(Strays(t))
  <2>8. x = executions[t] + 1 /\ S \in Nat /\ executions[t] + Cardinality(K) + S <= 1 + timeouts
    BY <1>1, <1>5, <1>6, <2>5
  <2> HIDE DEF x, S
  <2>9. x + Cardinality(L) + S <= 1 + timeouts /\ x # 0
    BY <1>5, <2>7, <2>8
  <2>10. executions'[t] + Cardinality(Keepers(t)') + Cardinality(Strays(t)') <= 1 + timeouts'
    BY <1>1, <1>3, <2>9 DEF x, S, L
  <2>11. executions'[t] # 0
    BY <2>9 DEF x
  <2>12. QED
    BY <2>6, <2>10, <2>11 DEF TaskIsSafe
<1>7. CASE t \notin ProcessingIds(queue[w])
  <2>1. executions'[t] = executions[t]
    BY <1>1, <1>5, <1>7
  <2>2. Keepers(t)' = Keepers(t) /\ (Present(t)' <=> Present(t)) /\ Strays(t)' \subseteq Strays(t)
    BY <1>2, <1>3, <1>7
  <2>3. QED
    BY <1>1, <2>1, <2>2, TaskLeftAlone
<1>8. QED
  BY <1>6, <1>7

-----------------------------------------------------------------------------
(* The invariant, and what it is for.                                      *)

LEMMA InitInv == Init => Inv
<1>1. SUFFICES ASSUME Init PROVE Inv
  OBVIOUS
<1>2. P2PInit /\ fresh = Tasks /\ executions = [t \in Tasks |-> 0] /\ repeats = 0
  BY <1>1 DEF Init
<1>3. P2PInv
  BY <1>2, InitP2PInv
<1>4. NetworkTypes
  BY <1>2, RepeatsAssumption DEF NetworkTypes
<1>5. /\ \A w \in Workers : queue[w].active = {} /\ DOMAIN backlog[w] = {}
      /\ AllRun /\ timeouts = 0
  BY <1>2, EmptySeq DEF P2PInit, EmptyQueue, AllRun
<1>6. ASSUME NEW t \in Tasks PROVE TaskIsSafe(t)
  <2>1. Keepers(t) = {} /\ ~ Present(t)
    BY <1>5 DEF Keepers, Keeps, Present
  <2>2. Strays(t) = {}
    <3>1. \A p \in Workers : \A n : ~ Astray(p, n, t)
      BY <1>5 DEF Astray
    <3>2. QED
      BY <3>1 DEF Strays
  <2>3. Cardinality(Keepers(t)) = 0 /\ Cardinality(Strays(t)) = 0
    BY <2>1, <2>2, FS_EmptySet
  <2>4. executions[t] = 0 /\ t \in fresh
    BY <1>2
  <2>5. QED
    BY <1>5, <2>1, <2>3, <2>4 DEF TaskIsSafe
<1>7. QED
  BY <1>3, <1>4, <1>5, <1>6 DEF Inv, TasksAreSafe

LEMMA NextKeepsInv == Inv /\ [Next]_vars => Inv'
<1>1. SUFFICES ASSUME Inv, [Next]_vars PROVE Inv'
  OBVIOUS
<1>2. P2PInv /\ NetworkTypes /\ AllRun
  BY <1>1 DEF Inv
<1>3. P2PInv' /\ NetworkTypes' /\ AllRun'
  BY <1>1, <1>2, PartsAreKept
<1>4. ASSUME NEW t \in Tasks PROVE TaskIsSafe(t)'
  <2>1. TaskIsSafe(t)
    BY <1>1 DEF Inv, TasksAreSafe
  <2>2. CASE UNCHANGED vars
    <3>1. /\ UNCHANGED <<queue, monitor, backlog, handled, running, transfers, timeouts>>
          /\ UNCHANGED <<fresh, executions, repeats>>
      BY <2>2 DEF vars, p2pVars
    <3>2. Keepers(t)' = Keepers(t) /\ Strays(t)' = Strays(t) /\ (Present(t)' <=> Present(t))
      BY <3>1 DEF Keepers, Keeps, Committed, Strays, Astray, Awaits, Present
    <3>3. QED
      BY <1>2, <1>3, <2>1, <3>1, <3>2, TaskLeftAlone
  <2>3. ASSUME NEW w \in Workers, NEW u \in Tasks, Arrive(w, u) PROVE TaskIsSafe(t)'
    BY <1>2, <1>3, <2>1, <2>3, ArriveKeepsTask
  <2>4. ASSUME NEW w \in Workers, Take(w) PROVE TaskIsSafe(t)'
    BY <1>2, <1>3, <2>1, <2>4, TakeKeepsTask
  <2>5. ASSUME NEW w \in Workers, Finish(w) PROVE TaskIsSafe(t)'
    BY <1>2, <1>3, <2>1, <2>5, FinishKeepsTask
  <2>6. ASSUME NEW w \in Workers, Monitoring(w), UNCHANGED <<fresh, executions, repeats>>
        PROVE  TaskIsSafe(t)'
    <3>1. TaskUpToHere(t)
      BY <1>2, <1>3, <2>1, <2>6 DEF TaskUpToHere
    <3>2. QED
      BY <1>2, <2>6, <3>1, MonitoringKeepsTask
  <2>7. ASSUME NEW w \in Workers, Serve(w), UNCHANGED <<fresh, executions, repeats>>
        PROVE  TaskIsSafe(t)'
    <3>1. TaskUpToHere(t)
      BY <1>2, <1>3, <2>1, <2>7 DEF TaskUpToHere
    <3>2. /\ backlog[w] # <<>> /\ backlog' = [backlog EXCEPT ![w] = Tail(backlog[w])]
          /\ Handle(w, Head(backlog[w])) /\ UNCHANGED <<running, transfers, timeouts>>
      BY <2>7 DEF Serve
    <3>3. /\ 1 \in DOMAIN backlog[w] /\ Head(backlog[w]) = backlog[w][1]
          /\ \A i \in DOMAIN Tail(backlog[w]) :
               i + 1 \in DOMAIN backlog[w] /\ Tail(backlog[w])[i] = backlog[w][i + 1]
      BY <1>2, <3>2, FirstRequest
    <3>4. backlog \in [Workers -> Seq(Requests)]
      BY <1>2, OfOneWorker
    <3>5. ASSUME NEW v \in Workers, NEW i \in DOMAIN backlog'[v]
          PROVE  \E j \in DOMAIN backlog[v] : backlog'[v][i] = backlog[v][j]
      <4>1. backlog'[v] = IF v = w THEN Tail(backlog[w]) ELSE backlog[v]
        BY <3>2, <3>4
      <4>2. CASE v = w
        <5>1. i \in DOMAIN Tail(backlog[w]) /\ backlog'[v][i] = Tail(backlog[w])[i]
          BY <4>1, <4>2
        <5>2. QED
          BY <3>3, <4>2, <5>1
      <4>3. CASE v # w
        BY <4>1, <4>3
      <4>4. QED
        BY <4>2, <4>3
    <3>6. Handle(w, backlog[w][1])
      BY <3>2, <3>3
    <3>7. QED
      BY <1>2, <3>1, <3>2, <3>3, <3>5, <3>6, HandleKeepsTask
  <2>8. ASSUME NEW w \in Workers, ServeRepeated(w) PROVE TaskIsSafe(t)'
    <3>1. /\ backlog[w] # <<>> /\ Handle(w, Head(backlog[w]))
          /\ UNCHANGED <<backlog, running, transfers, timeouts, fresh, executions>>
      BY <2>8 DEF ServeRepeated
    <3>2. TaskUpToHere(t)
      BY <1>2, <1>3, <2>1, <3>1 DEF TaskUpToHere
    <3>3. 1 \in DOMAIN backlog[w] /\ Handle(w, backlog[w][1])
      BY <1>2, <3>1, FirstRequest
    <3>4. \A v \in Workers : \A i \in DOMAIN backlog'[v] :
            \E j \in DOMAIN backlog[v] : backlog'[v][i] = backlog[v][j]
      BY <3>1
    <3>5. QED
      BY <1>2, <3>1, <3>2, <3>3, <3>4, HandleKeepsTask
  <2>9. QED
    BY <1>1, <2>2, <2>3, <2>4, <2>5, <2>6, <2>7, <2>8 DEF Next
<1>5. QED
  BY <1>3, <1>4 DEF Inv, TasksAreSafe

(* Every reachable state satisfies the invariant. *)
THEOREM NetworkInvariant == Spec => []Inv
<1>1. QED
  BY InitInv, NextKeepsInv, PTL DEF Spec

(* The queues, monitors, backlogs and counters have their types, and the   *)
(* transfers stay within the ids that are kept for them.                   *)
THEOREM TypesHold == Spec => []TypeOK
<1>1. Inv => TypeOK
  BY P2PTypesHold DEF Inv, NetworkTypes, TypeOK
<1>2. QED
  BY <1>1, NetworkInvariant, PTL

(* No queue holds more than its capacity, whatever size its worker gave    *)
(* when it was asked (try_enqueue_many).                                   *)
THEOREM CapacityHolds == Spec => []QueuesWithinCapacity
<1>1. Inv => QueuesWithinCapacity
  BY QueuesStayWithinCapacity DEF Inv
<1>2. QED
  BY <1>1, NetworkInvariant, PTL

(* From its arrival until it is processed, a task is at some worker,       *)
(* through every refused, late, lost or repeated request (balance_once,    *)
(* _handle_connection).                                                    *)
THEOREM TasksAreNeverNowhere == Spec => []NeverNowhere
<1>1. ASSUME Inv, NEW t \in Tasks \ fresh, executions[t] = 0
      PROVE  \E w \in Workers : HeldAt(w, t)
  <2>1. PICK w \in Workers : t \in queue[w].active
    BY <1>1 DEF Inv, TasksAreSafe, TaskIsSafe, Keepers, Keeps
  <2>2. SoundQueue(Copies, queue[w])
    BY <1>1, OfOneWorker DEF Inv
  <2>3. HeldAt(w, t)
    BY <2>1, <2>2 DEF SoundQueue, EachHeldOnce, Waiting, HeldAt
  <2>4. QED
    BY <2>3
<1>2. Inv => NeverNowhere
  BY <1>1 DEF NeverNowhere
<1>3. QED
  BY <1>2, NetworkInvariant, PTL

(* A task is processed more than once only for requests that went          *)
(* unanswered, at most once more for each: crossing transfers, refusals    *)
(* and repeated requests cost nothing (_handled_transfers).                *)
THEOREM ExtraExecutionsAreTimeouts == Spec => []ExtraExecutionsNeedTimeouts
<1>1. ASSUME Inv, NEW t \in Tasks
      PROVE  executions[t] <= 1 + timeouts
  <2>1. transfers \in Nat /\ timeouts \in Nat /\ executions[t] \in Nat
    BY <1>1 DEF Inv, P2PInv, BoundsAreKept, NetworkTypes
  <2>2. Keepers(t) \in SUBSET Workers /\ Strays(t) \in SUBSET (Workers \X (1 .. transfers))
    BY DEF Keepers, Strays
  <2>3. Cardinality(Keepers(t)) \in Nat /\ Cardinality(Strays(t)) \in Nat
    BY <2>1, <2>2, SetsAreFinite
  <2>4. executions[t] + Cardinality(Keepers(t)) + Cardinality(Strays(t)) <= 1 + timeouts
    BY <1>1 DEF Inv, TasksAreSafe, TaskIsSafe
  <2>5. QED
    BY <2>1, <2>3, <2>4
<1>2. Inv => ExtraExecutionsNeedTimeouts
  BY <1>1 DEF ExtraExecutionsNeedTimeouts
<1>3. QED
  BY <1>2, NetworkInvariant, PTL
=============================================================================
