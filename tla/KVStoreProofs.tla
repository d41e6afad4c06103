--------------------------- MODULE KVStoreProofs ---------------------------
(***************************************************************************)
(* The whole system, for any number of tasks and workers, any capacity and *)
(* any bounds on the faults: who has a task, where it can be executed, and *)
(* how it can be lost.  The master's and the P2P service's invariants are  *)
(* kept whoever enters their sections; what is shown here is how a copy of *)
(* a task moves between sections, links, queues and peers.                 *)
(***************************************************************************)
EXTENDS KVStore, MasterCoreProofs, P2PTransferProofs

-----------------------------------------------------------------------------
(* What the links carry.                                                   *)

Commands == [copy : Copies, retry : BOOLEAN]
Results  == [copy : Copies, kind : {"success", "fail", "overflow"}]

LinkTypes ==
  /\ sending \in [task : Tasks \cup {0}, worker : Workers \cup {Nobody}, retry : BOOLEAN]
  /\ toWorker \in [Workers -> Seq(Commands)]
  /\ toMaster \in [Workers -> Seq(Results)]
  /\ reported \in [Workers -> BOOLEAN]
  /\ \A w \in Workers : reported[w] => queue[w].processing # {}
  /\ link \in [Workers -> BOOLEAN]
  /\ failures \in 0 .. MaxFailures
  /\ dropped \subseteq Tasks
  /\ stranded \subseteq Tasks

\* A TASK goes to the worker that the task is assigned to, and names it.
CommandsAreAddressed ==
  /\ sending # NotSending =>
       /\ sending.task \in Tasks /\ sending.worker \in Workers
       /\ assignmentWorker[sending.task] = sending.worker
  /\ \A w \in Workers : \A i \in DOMAIN toWorker[w] : toWorker[w][i].copy.by = w

\* Only the end of its link ends a worker.
LinkedWorkersRun == \A w \in Workers : link[w] => running[w]

-----------------------------------------------------------------------------
(***************************************************************************)
(* The copies that count: those a queue keeps, but not the reserved ones a *)
(* peer has accepted already, nor the one whose result was sent.           *)
(***************************************************************************)
ReservedCopies(q) == {r.copy : r \in q.reserved}

KeptBy(q, m) ==
  KeptCopies(q) \ (IF m.answer = "accepted" THEN ReservedCopies(q) ELSE {})
Kept(w) == KeptBy(queue[w], monitor[w])

Firm(w) == Kept(w) \ (IF reported[w] THEN queue[w].processing ELSE {})

CopyOf(t) == [id |-> t, by |-> assignmentWorker[t]]

\* The assignment of t can be answered, by a copy that nobody gives up soon.
FirmlyAnswerable(t) ==
  \/ sending.task = t
  \/ \E w \in Workers :
       \/ \E i \in DOMAIN toWorker[w] : toWorker[w][i].copy = CopyOf(t)
       \/ running[w] /\ CopyOf(t) \in Firm(w)
       \/ \E i \in DOMAIN toMaster[w] : toMaster[w][i].copy = CopyOf(t)

LossIsExplained(t) ==
  taskState[t] = "assigned" =>
    FirmlyAnswerable(t) \/ ~ link[assignmentWorker[t]] \/ t \in dropped \/ t \in stranded

LossesAreExplained == \A t \in Tasks : LossIsExplained(t)

-----------------------------------------------------------------------------
(***************************************************************************)
(* Without timeouts and lost links, a copy that counts belongs to the      *)
(* present assignment of its task, and no other copy of the task counts.   *)
(***************************************************************************)
AllLinked == \A w \in Workers : link[w]
Quiet     == timeouts = 0 /\ AllLinked

\* A request that was not handled yet is waited for.
RequestsAreAwaited ==
  \A p \in Workers : \A i \in DOMAIN backlog[p] :
    \/ backlog[p][i].request \in DOMAIN handled[p]
    \/ Awaits(backlog[p][i].from, backlog[p][i])

\* What a peer has accepted is not put back.
AcceptedIsConfirmed ==
  \A w \in Workers : ~ (monitor[w].step = "releasing" /\ monitor[w].answer = "accepted")

IsPresent(c) == taskState[c.id] = "assigned" /\ c.by = assignmentWorker[c.id]

OnLink(s, c) == \E i \in DOMAIN s : s[i].copy = c
OnceOnLink(s) == \A i, j \in DOMAIN s : s[i].copy = s[j].copy => i = j

\* Where a copy can be: about to be sent, or, of one worker, on the link, in
\* the queue, or on the way back as a result.
Kinds   == {"sending", "link", "queue", "result"}
Holders == Workers \cup {Nobody}

Holds(kind, v, c) ==
  \/ /\ kind = "sending" /\ v = Nobody
     /\ sending # NotSending /\ CopyOf(sending.task) = c
  \/ v \in Workers /\
       \/ kind = "link" /\ OnLink(toWorker[v], c)
       \/ kind = "queue" /\ c \in Firm(v)
       \/ kind = "result" /\ OnLink(toMaster[v], c)

CopiesArePresent ==
  \A c \in Copies, kind \in Kinds, v \in Holders : Holds(kind, v, c) => IsPresent(c)

PlacesAreSingle ==
  /\ \A w \in Workers : OnceOnLink(toWorker[w]) /\ OnceOnLink(toMaster[w])
  /\ \A c \in Copies, k, l \in Kinds, u, v \in Holders :
       Holds(k, u, c) /\ Holds(l, v, c) => k = l /\ u = v

QuietInv ==
  Quiet => RequestsAreAwaited /\ AcceptedIsConfirmed /\ CopiesArePresent /\ PlacesAreSingle

-----------------------------------------------------------------------------
Inv ==
  /\ CoreInv
  /\ P2PInv
  /\ LinkTypes
  /\ CommandsAreAddressed
  /\ LinkedWorkersRun
  /\ LossesAreExplained
  /\ QuietInv

-----------------------------------------------------------------------------
(* What a monitor's steps do with the copies its queue keeps.              *)

(* A step that leaves the queue and the answer as they are. *)
LEMMA SameAnswer ==
  ASSUME P2PInv, NEW w \in Workers, NEW m, m.answer = monitor[w].answer,
         queue' = queue, monitor' = [monitor EXCEPT ![w] = m]
  PROVE  /\ \A v \in Workers : queue'[v] = queue[v] /\ Kept(v)' = Kept(v)
         /\ \A v \in Workers \ {w} : monitor'[v] = monitor[v]
         /\ monitor'[w] = m
<1>1. DOMAIN monitor = Workers
  BY DEF P2PInv, MonitorsAreSafe
<1>2. /\ monitor'[w] = m
      /\ \A v \in Workers \ {w} : monitor'[v] = monitor[v]
  BY <1>1
<1>3. \A v \in Workers : monitor'[v].answer = monitor[v].answer
  BY <1>2
<1>4. QED
  BY <1>2, <1>3 DEF Kept, KeptBy

(* What a step of w's monitor leaves alone. *)
OthersStay(w) ==
  /\ \A v \in Workers \ {w} :
       queue'[v] = queue[v] /\ monitor'[v] = monitor[v] /\ Kept(v)' = Kept(v)
  /\ queue'[w].processing = queue[w].processing

LEMMA QuietStepKeepsCopies ==
  ASSUME P2PInv, NEW w \in Workers,
         \/ NoticeOverload(w) \/ AskPeer(w) \/ (\E n \in 1 .. MaxTransfer : ChoosePeer(w, n))
         \/ SendTransfer(w) \/ ReadAnswer(w) \/ GiveUp(w)
  PROVE  OthersStay(w) /\ Kept(w)' = Kept(w)
<1>1. /\ monitor[w] \in MonitorStates
      /\ monitor[w].step \in {"idle", "asking", "reserving"} => monitor[w].answer = "none"
  BY OfOneWorker DEF MonitorIsSafe
<1>2. Idle.answer = "none"
  BY DEF Idle
<1>3. ASSUME NEW m, m.answer = monitor[w].answer, queue' = queue,
             monitor' = [monitor EXCEPT ![w] = m]
      PROVE  OthersStay(w) /\ Kept(w)' = Kept(w)
  BY <1>3, SameAnswer DEF OthersStay
<1>4. CASE NoticeOverload(w)
  <2>1. [Idle EXCEPT !.step = "asking"].answer = "none"
    BY DEF Idle
  <2>2. QED
    BY <1>1, <1>3, <1>4, <2>1 DEF NoticeOverload, At, Continue
<1>5. CASE AskPeer(w)
  <2>1. PICK room : Continue(w, [monitor[w] EXCEPT !.room = room])
    BY <1>5 DEF AskPeer
  <2>2. [monitor[w] EXCEPT !.room = room].answer = monitor[w].answer
    BY <1>1 DEF MonitorStates
  <2>3. QED
    BY <1>3, <1>5, <2>1, <2>2 DEF AskPeer, Continue
<1>6. CASE \E n \in 1 .. MaxTransfer : ChoosePeer(w, n)
  <2>1. PICK n \in 1 .. MaxTransfer : ChoosePeer(w, n)
    BY <1>6
  <2>2. monitor[w].answer = "none" /\ queue' = queue
    BY <1>1, <2>1 DEF ChoosePeer, At
  <2>3. PICK p, todo :
          Continue(w, [Idle EXCEPT !.step = "reserving", !.peer = p, !.todo = todo])
            \/ Continue(w, Idle)
    BY <2>1 DEF ChoosePeer
  <2>4. [Idle EXCEPT !.step = "reserving", !.peer = p, !.todo = todo].answer = "none"
    BY DEF Idle
  <2>5. QED
    BY <1>2, <1>3, <2>2, <2>3, <2>4 DEF Continue
<1>7. CASE SendTransfer(w)
  <2>1. monitor[w].answer = "none" /\ queue' = queue
    BY <1>1, <1>7 DEF SendTransfer, At
  <2>2. \/ Continue(w, Idle)
        \/ Continue(w, [monitor[w] EXCEPT !.step = "releasing"])
        \/ Continue(w, [monitor[w] EXCEPT !.step = "waiting", !.request = transfers + 1])
    BY <1>7 DEF SendTransfer
  <2> DEFINE n == transfers + 1
  <2>3. /\ [monitor[w] EXCEPT !.step = "releasing"].answer = monitor[w].answer
        /\ \A x : [monitor[w] EXCEPT !.step = "waiting", !.request = x].answer
                    = monitor[w].answer
    BY <1>1 DEF MonitorStates
  <2>4. QED
    BY <1>2, <1>3, <2>1, <2>2, <2>3 DEF Continue
<1>8. CASE ReadAnswer(w) \/ GiveUp(w)
  <2>1. PICK x : Continue(w, [monitor[w] EXCEPT !.step = x])
    BY <1>8 DEF ReadAnswer, GiveUp
  <2>2. [monitor[w] EXCEPT !.step = x].answer = monitor[w].answer
    BY <1>1 DEF MonitorStates
  <2>3. QED
    BY <1>3, <1>8, <2>1, <2>2 DEF ReadAnswer, GiveUp, Continue
<1>9. QED
  BY <1>4, <1>5, <1>6, <1>7, <1>8

LEMMA ReserveNextKeepsCopies ==
  ASSUME P2PInv, NEW w \in Workers, ReserveNext(w)
  PROVE  OthersStay(w) /\ Kept(w)' = Kept(w)
<1> DEFINE id == Head(monitor[w].todo)
           q == Reserved(queue[w], id)
<1>1. /\ SoundQueue(Copies, queue[w]) /\ monitor[w] \in MonitorStates
      /\ MonitorIsSafe(w, monitor[w], queue[w])
  BY OfOneWorker
<1>2. /\ DOMAIN queue = Workers /\ DOMAIN monitor = Workers
      /\ monitor[w].answer = "none"
      /\ queue' = [queue EXCEPT ![w] = q]
  BY <1>1 DEF P2PInv, QueuesAreSafe, MonitorsAreSafe, MonitorIsSafe, ReserveNext, At
<1>3. PICK held : Continue(w, [monitor[w] EXCEPT !.todo = Tail(@), !.held = held])
  BY DEF ReserveNext
<1>4. /\ queue'[w] = q /\ \A v \in Workers \ {w} : queue'[v] = queue[v]
      /\ \A v \in Workers \ {w} : monitor'[v] = monitor[v]
      /\ monitor'[w] = [monitor[w] EXCEPT !.todo = Tail(@), !.held = held]
  BY <1>2, <1>3 DEF Continue
<1>5. monitor'[w].answer = "none"
  BY <1>1, <1>2, <1>4 DEF MonitorStates
<1>6. KeptCopies(q) = KeptCopies(queue[w]) /\ q.processing = queue[w].processing
  <2>1. CASE id \in Waiting(queue[w])
    BY ONLY <1>1, <2>1, ReservedQueue
  <2>2. CASE id \notin Waiting(queue[w])
    BY <2>2 DEF Waiting, Reserved
  <2>3. QED
    BY <2>1, <2>2
<1>7. QED
  BY <1>2, <1>4, <1>5, <1>6 DEF OthersStay, Kept, KeptBy

(* A confirmed copy did not count any more; one put back counts, even if a *)
(* late answer had been an acceptance.                                     *)
LEMMA SettleNextKeepsCopies ==
  ASSUME P2PInv, NEW w \in Workers, SettleNext(w)
  PROVE  /\ OthersStay(w) /\ Kept(w) \subseteq Kept(w)'
         /\ ~ (monitor[w].step = "releasing" /\ monitor[w].answer = "accepted")
              => Kept(w)' = Kept(w)
<1> DEFINE h == monitor[w].held
           c == Head(h)
           q0 == queue[w]
           q == IF monitor[w].step = "confirming" THEN Confirmed(q0, c.id) ELSE Released(q0, c.id)
           e == Reservation(q0, c.id)
<1>1. /\ SoundQueue(Copies, queue[w]) /\ monitor[w] \in MonitorStates
      /\ MonitorIsSafe(w, monitor[w], queue[w])
  BY OfOneWorker
<1>2. /\ h \in Seq(Copies) /\ h # <<>> /\ HoldsReserved(h, q0)
      /\ monitor[w].step \in {"confirming", "releasing"}
      /\ monitor[w].step = "confirming" => monitor[w].answer = "accepted"
  BY <1>1 DEF MonitorIsSafe, MonitorStates, SettleNext, At
<1>3. /\ DOMAIN queue = Workers /\ DOMAIN monitor = Workers
      /\ queue' = [queue EXCEPT ![w] = q]
      /\ Continue(w, IF Len(h) = 1 THEN Idle ELSE [monitor[w] EXCEPT !.held = Tail(@)])
  BY DEF P2PInv, QueuesAreSafe, MonitorsAreSafe, SettleNext
<1>4. LET k == Head(h)
          d == Reservation(q0, k.id)
      IN  /\ k \in Copies /\ k \in ToSet(h) /\ k.id \in ReservedIds(q0)
          /\ d \in q0.reserved /\ d.copy = k
          /\ Tail(h) \in Seq(Copies)
          /\ ToSet(Tail(h)) = ToSet(h) \ {k}
          /\ Len(h) = 1 <=> Tail(h) = <<>>
          /\ \A r : r.reserved = q0.reserved \ {d} => HoldsReserved(Tail(h), r)
  <2>1. SoundQueue(Copies, q0)
    BY <1>1
  <2> HIDE DEF q0, h
  <2>2. QED
    BY ONLY <1>2, <2>1, NextToSettle
<1>5. /\ c.id \in ReservedIds(q0) /\ e.copy = c
      /\ Len(h) = 1 <=> Tail(h) = <<>>
      /\ \A r : r.reserved = q0.reserved \ {e} => HoldsReserved(Tail(h), r)
  BY <1>4
<1>6. SoundQueue(Copies, q0)
  BY <1>1
<1>7. \A v \in Workers \ {w} : queue'[v] = queue[v] /\ monitor'[v] = monitor[v]
  BY <1>3 DEF Continue
<1>8. /\ queue'[w] = q
      /\ monitor'[w] = IF Len(h) = 1 THEN Idle ELSE [monitor[w] EXCEPT !.held = Tail(@)]
  BY <1>3 DEF Continue
<1>9. monitor'[w].answer = IF Len(h) = 1 THEN "none" ELSE monitor[w].answer
  BY <1>1, <1>8 DEF MonitorStates, Idle
<1>10. /\ q.reserved = q0.reserved \ {e} /\ q.processing = q0.processing
       /\ monitor[w].step = "confirming" => KeptCopies(q) = KeptCopies(q0) \ {c}
       /\ monitor[w].step # "confirming" => KeptCopies(q) = KeptCopies(q0)
  <2> HIDE DEF q0
  <2>1. monitor[w].step = "confirming" =>
          LET r == Confirmed(q0, c.id)
              d == Reservation(q0, c.id)
          IN  /\ SoundQueue(Copies, r)
              /\ Size(r) = Size(q0) - 1
              /\ KeptCopies(r) = KeptCopies(q0) \ {d.copy}
              /\ r.active = q0.active \ {c.id}
              /\ r.reserved = q0.reserved \ {d}
              /\ r.processing = q0.processing
    <3> HIDE DEF c
    <3>1. QED
      BY ONLY <1>5, <1>6, ConfirmedQueue
  <2>2. LET r == Released(q0, c.id)
            d == Reservation(q0, c.id)
        IN  /\ SoundQueue(Copies, r)
            /\ Size(r) = Size(q0)
            /\ KeptCopies(r) = KeptCopies(q0)
            /\ r.active = q0.active
            /\ r.reserved = q0.reserved \ {d}
            /\ r.processing = q0.processing
            /\ r.normal = IF d.priority THEN q0.normal ELSE <<d.copy>> \o q0.normal
            /\ r.priority = IF d.priority THEN <<d.copy>> \o q0.priority ELSE q0.priority
    <3> HIDE DEF c
    <3>1. QED
      BY ONLY <1>5, <1>6, ReleasedQueue
  <2>3. QED
    BY <1>5, <2>1, <2>2
<1>11. /\ ReservedCopies(q) \cup {c} = ReservedCopies(q0)
       /\ c \notin ReservedCopies(q)
       /\ ReservedCopies(q0) \subseteq KeptCopies(q0)
       /\ Len(h) = 1 => ReservedCopies(q) = {}
  <2>1. e \in q0.reserved /\ \A d \in q0.reserved : d.copy = c => d = e
    BY <1>4, <1>6 DEF SoundQueue, EachHeldOnce
  <2>2. ReservedCopies(q) \cup {c} = ReservedCopies(q0) /\ c \notin ReservedCopies(q)
    BY <1>5, <1>10, <2>1 DEF ReservedCopies
  <2>3. HoldsReserved(Tail(h), q)
    BY <1>5, <1>10
  <2>4. ToSet(<<>>) = {}
    BY DEF ToSet
  <2>5. Len(h) = 1 => ReservedCopies(q) = {}
    BY <1>5, <2>3, <2>4 DEF HoldsReserved, ReservedCopies
  <2>6. QED
    BY <2>2, <2>5 DEF ReservedCopies, KeptCopies
<1> HIDE DEF q, q0, c, h, e
<1>12. /\ Kept(w) = KeptCopies(q0)
                      \ (IF monitor[w].answer = "accepted" THEN ReservedCopies(q0) ELSE {})
       /\ Kept(w)' = KeptCopies(q)
                      \ (IF monitor'[w].answer = "accepted" THEN ReservedCopies(q) ELSE {})
  BY <1>8 DEF Kept, KeptBy, q0
<1>13. \A v \in Workers \ {w} : Kept(v)' = Kept(v)
  BY <1>7 DEF Kept
<1>14. OthersStay(w)
  BY <1>7, <1>8, <1>10, <1>13 DEF OthersStay, q0
<1>15. CASE monitor[w].step = "confirming"
  BY <1>2, <1>9, <1>10, <1>11, <1>12, <1>14, <1>15
<1>16. CASE monitor[w].step = "releasing"
  BY <1>9, <1>10, <1>11, <1>12, <1>14, <1>16
<1>17. QED
  BY <1>2, <1>15, <1>16

(* Whatever a monitor does, no copy stops counting. *)
LEMMA MonitoringKeepsCopies ==
  ASSUME P2PInv, NEW w \in Workers, Monitoring(w)
  PROVE  /\ OthersStay(w) /\ Kept(w) \subseteq Kept(w)'
         /\ ~ (monitor[w].step = "releasing" /\ monitor[w].answer = "accepted")
              => Kept(w)' = Kept(w)
<1>1. CASE ReserveNext(w)
  BY <1>1, ReserveNextKeepsCopies
<1>2. CASE SettleNext(w)
  BY <1>2, SettleNextKeepsCopies
<1>3. CASE \/ NoticeOverload(w) \/ AskPeer(w) \/ (\E n \in 1 .. MaxTransfer : ChoosePeer(w, n))
           \/ SendTransfer(w) \/ ReadAnswer(w) \/ GiveUp(w)
  BY <1>3, QuietStepKeepsCopies
<1>4. QED
  BY <1>1, <1>2, <1>3 DEF Monitoring

-----------------------------------------------------------------------------
(* What a server's step does with the copies of its queue and of the queue *)
(* of the requester.                                                       *)

\* The requester still waits, and is told.
IsToldBy(v, r) == v = r.from /\ running[v] /\ Awaits(v, r)

(* A repeated answer is the answer the monitor has: what it does not wait  *)
(* for, it is not told.                                                    *)
LEMMA AnswersAreNews ==
  ASSUME P2PInv, NEW p \in Workers, NEW k \in DOMAIN backlog[p], NEW v \in Workers,
         IsToldBy(v, backlog[p][k])
  PROVE  LET r == backlog[p][k]
         IN  /\ v # p /\ monitor[v].held = r.tasks
             /\ r.request \notin DOMAIN handled[p] => monitor[v].answer = "none"
             /\ r.request \in DOMAIN handled[p] => monitor[v].answer = AnswerTo(p, r)
<1> DEFINE r == backlog[p][k]
<1>1. monitor[v].step = "waiting" /\ monitor[v].request = r.request /\ running[v]
  BY DEF IsToldBy, Awaits
<1>2. monitor[v].peer = p /\ monitor[v].held = r.tasks
  BY DEF P2PInv, AwaitedRequestsMatch, IsToldBy
<1>3. monitor[v].peer # v /\ monitor[v].answer \in {"none", "accepted", "refused"}
  BY OfOneWorker DEF MonitorIsSafe, MonitorStates
<1>4. /\ r.request \in DOMAIN handled[p] => monitor[v].answer # "none"
      /\ monitor[v].answer # "none" =>
           /\ r.request \in DOMAIN handled[p]
           /\ monitor[v].answer = IF handled[p][r.request] THEN "accepted" ELSE "refused"
  BY <1>1, <1>2 DEF P2PInv, AnswersMatch
<1>5. QED
  BY <1>2, <1>3, <1>4 DEF AnswerTo, IsAccepted

\* What p admits comes to count there, and stops counting at the requester,
\* if that one is told.
MovesCopies(p, r) ==
  LET B == ToSet(r.tasks)
  IN  /\ r.request \notin DOMAIN handled[p] /\ Verdict(queue[p], r.tasks) = "accepted"
      /\ \A c \in B : c.id \notin queue[p].active
      /\ Kept(p)' = Kept(p) \cup B
      /\ \A v \in Workers \ {p} :
           IF IsToldBy(v, r) THEN B \subseteq ReservedCopies(queue[v]) /\ Kept(v)' = Kept(v) \ B
                                  /\ B \subseteq Kept(v)
           ELSE Kept(v)' = Kept(v)

LEMMA ServeMovesCopies ==
  ASSUME P2PInv, NEW p \in Workers, Serve(p)
  PROVE  /\ backlog[p] # <<>> /\ 1 \in DOMAIN backlog[p]
         /\ Head(backlog[p]) = backlog[p][1] /\ backlog[p][1] \in Requests
         /\ HandleEffect(p, backlog[p][1])
         /\ \A v \in Workers : queue'[v].processing = queue[v].processing
         /\ \/ \A v \in Workers : Kept(v)' = Kept(v)
            \/ MovesCopies(p, backlog[p][1])
<1> DEFINE r == backlog[p][1]
<1>1. /\ backlog[p] # <<>> /\ 1 \in DOMAIN backlog[p] /\ Head(backlog[p]) = backlog[p][1]
      /\ Handle(p, r)
  BY FirstRequest DEF Serve
<1>2. r \in Requests
  BY <1>1, OfOneRequest
<1> HIDE DEF r
<1>3. HandleEffect(p, r)
  BY <1>1, <1>2, HandleChanges
<1>4. /\ \A v \in Workers \ {p} : queue'[v] = queue[v]
      /\ queue'[p] = IF r.request \notin DOMAIN handled[p] /\ IsAccepted(p, r)
                       THEN Enqueued(queue[p], r.tasks, FALSE) ELSE queue[p]
      /\ queue'[p].reserved = queue[p].reserved
      /\ queue'[p].processing = queue[p].processing
      /\ \A v \in Workers : monitor'[v] =
           IF v = r.from /\ running[v] /\ Awaits(v, r)
             THEN [monitor[v] EXCEPT !.answer = AnswerTo(p, r)] ELSE monitor[v]
  <2>1. DOMAIN queue = Workers /\ queue' = [queue EXCEPT ![p] = queue'[p]]
    BY <1>3 DEF P2PInv, QueuesAreSafe, HandleEffect
  <2>2. PICK q : queue'[p] = q
    OBVIOUS
  <2>3. \A v \in Workers \ {p} : queue'[v] = queue[v]
    BY <2>1, <2>2
  <2>4. QED
    BY <1>3, <2>3 DEF HandleEffect
<1>5. \A v \in Workers : queue'[v].processing = queue[v].processing
  BY <1>4
<1>6. \A v \in Workers : monitor[v] \in MonitorStates
  BY OfOneWorker
<1>7. \A v \in Workers : monitor'[v].answer =
        IF IsToldBy(v, r) THEN AnswerTo(p, r) ELSE monitor[v].answer
  <2>1. ASSUME NEW v \in Workers, NEW x PROVE [monitor[v] EXCEPT !.answer = x].answer = x
    <3>1. monitor[v] \in MonitorStates
      BY <1>6
    <3>2. QED
      BY ONLY <3>1 DEF MonitorStates
  <2>2. ASSUME NEW v \in Workers
        PROVE  monitor'[v].answer = IF IsToldBy(v, r) THEN AnswerTo(p, r) ELSE monitor[v].answer
    <3>1. [monitor[v] EXCEPT !.answer = AnswerTo(p, r)].answer = AnswerTo(p, r)
      BY <2>1
    <3>2. monitor'[v] = IF IsToldBy(v, r) THEN [monitor[v] EXCEPT !.answer = AnswerTo(p, r)]
                        ELSE monitor[v]
      BY <1>4 DEF IsToldBy
    <3>3. QED
      BY <3>1, <3>2
  <2>3. QED
    BY <2>2
<1>8. \A v \in Workers : IsToldBy(v, r) =>
         /\ v # p /\ monitor[v].held = r.tasks
         /\ r.request \notin DOMAIN handled[p] => monitor[v].answer = "none"
         /\ r.request \in DOMAIN handled[p] => monitor[v].answer = AnswerTo(p, r)
  BY <1>1, AnswersAreNews DEF r
<1>9. CASE ~ (r.request \notin DOMAIN handled[p] /\ IsAccepted(p, r))
  <2>1. \A v \in Workers : queue'[v] = queue[v]
    BY <1>4, <1>9
  <2>2. \A v \in Workers : monitor'[v].answer = "accepted" <=> monitor[v].answer = "accepted"
    BY <1>7, <1>8, <1>9 DEF AnswerTo
  <2>3. \A v \in Workers : Kept(v)' = Kept(v)
    BY <2>1, <2>2 DEF Kept, KeptBy
  <2>4. QED
    BY <1>1, <1>2, <1>3, <1>5, <2>3 DEF r
<1>10. CASE r.request \notin DOMAIN handled[p] /\ IsAccepted(p, r)
  <2> DEFINE B == ToSet(r.tasks)
             q == Enqueued(queue[p], r.tasks, FALSE)
  <2>1. /\ Verdict(queue[p], r.tasks) = "accepted" /\ AnswerTo(p, r) = "accepted"
        /\ r.tasks \in Seq(Copies) /\ SoundQueue(Copies, queue[p])
    BY <1>2, <1>10, OfOneWorker DEF IsAccepted, AnswerTo, Requests
  <2>2. KeptCopies(q) = KeptCopies(queue[p]) \cup B
    <3>1. FALSE \in BOOLEAN
      OBVIOUS
    <3>2. LET x == Enqueued(queue[p], r.tasks, FALSE)
          IN  /\ SoundQueue(Copies, x)
              /\ Size(x) <= Capacity
              /\ KeptCopies(x) = KeptCopies(queue[p]) \cup ToSet(r.tasks)
              /\ x.reserved = queue[p].reserved /\ x.processing = queue[p].processing
      BY ONLY <2>1, <3>1, EnqueuedQueue
    <3>3. QED
      BY <3>2
  <2>3. \A c \in B : c.id \notin queue[p].active
    <3>1. Disjoint(IdsIn(r.tasks), queue[p].active)
      BY <2>1 DEF Verdict, Disjoint
    <3>2. \A c \in B : c.id \in IdsIn(r.tasks)
      BY DEF ToSet, IdsIn
    <3>3. QED
      BY <3>1, <3>2 DEF Disjoint
  <2>4. \A c \in ReservedCopies(queue[p]) : c.id \in queue[p].active
    BY <2>1 DEF SoundQueue, EachHeldOnce, ReservedIds, ReservedCopies
  <2>5. queue'[p] = q /\ ReservedCopies(queue'[p]) = ReservedCopies(queue[p])
    BY <1>4, <1>10 DEF ReservedCopies
  <2>6. monitor'[p].answer = monitor[p].answer
    BY <1>7, <1>8
  <2> HIDE DEF q, B
  <2>7. Kept(p)' = Kept(p) \cup B
    BY <2>2, <2>3, <2>4, <2>5, <2>6 DEF Kept, KeptBy
  <2>8. ASSUME NEW v \in Workers \ {p}
        PROVE  IF IsToldBy(v, r)
                 THEN B \subseteq ReservedCopies(queue[v]) /\ Kept(v)' = Kept(v) \ B
                      /\ B \subseteq Kept(v)
                 ELSE Kept(v)' = Kept(v)
    <3>1. CASE IsToldBy(v, r)
      <4>1. monitor[v].answer = "none" /\ monitor'[v].answer = "accepted"
        BY <1>7, <1>8, <1>10, <2>1, <3>1
      <4>2. ReservedCopies(queue[v]) = B /\ queue'[v] = queue[v]
        BY <1>4, <1>8, <3>1, OfOneWorker DEF MonitorIsSafe, HoldsReserved, ReservedCopies, B
      <4>3. B \subseteq KeptCopies(queue[v])
        BY <4>2 DEF ReservedCopies, KeptCopies
      <4>4. QED
        BY <3>1, <4>1, <4>2, <4>3 DEF Kept, KeptBy
    <3>2. CASE ~ IsToldBy(v, r)
      BY <1>4, <1>7, <3>2 DEF Kept, KeptBy
    <3>3. QED
      BY <3>1, <3>2
  <2>9. MovesCopies(p, r)
    BY <1>10, <2>1, <2>3, <2>7, <2>8 DEF MovesCopies, B
  <2>10. QED
    BY <1>1, <1>2, <1>3, <1>5, <2>9 DEF r
<1>11. QED
  BY <1>9, <1>10

-----------------------------------------------------------------------------
(* What every step keeps of the parts: the master's bookkeeping, the P2P   *)
(* service, the types of the links and whom a TASK is addressed to.        *)

Basics == CoreInv /\ P2PInv /\ LinkTypes /\ CommandsAreAddressed /\ LinkedWorkersRun

LEMMA InitBasics == Init => Basics
<1>1. SUFFICES ASSUME Init PROVE Basics
  OBVIOUS
<1>2. CoreInv /\ P2PInv
  BY <1>1, CoreInitInv, InitP2PInv DEF Init
<1>3. \A S : <<>> \in Seq(S)
  BY EmptySeq
<1>4. NotSending \in [task : Tasks \cup {0}, worker : Workers \cup {Nobody}, retry : BOOLEAN]
  BY DEF NotSending
<1>5. 0 \in 0 .. MaxFailures
  BY FaultsAssumption
<1>6. LinkTypes
  BY <1>1, <1>3, <1>4, <1>5 DEF Init, LinkTypes
<1>7. CommandsAreAddressed /\ LinkedWorkersRun
  BY <1>1 DEF Init, P2PInit, CommandsAreAddressed, LinkedWorkersRun
<1>8. QED
  BY <1>2, <1>6, <1>7 DEF Basics

(* The P2P service while others move. *)
LEMMA P2PStutter == P2PInv /\ UNCHANGED p2pVars => P2PInv'
BY DEF P2PInv, QueuesAreSafe, MonitorsAreSafe, ServersAreSafe, AwaitedRequestsMatch, Awaits,
       AnswersMatch, BoundsAreKept, Preparing, p2pVars

(* The end of a worker takes its requests with it. *)
LEMMA StopKeepsP2PInv ==
  ASSUME P2PInv, NEW w \in Workers,
         running' = [running EXCEPT ![w] = FALSE], backlog' = [backlog EXCEPT ![w] = <<>>],
         UNCHANGED <<queue, monitor, handled, transfers, timeouts>>
  PROVE  P2PInv'
<1>1. /\ backlog \in [Workers -> Seq(Requests)] /\ running \in [Workers -> BOOLEAN]
      /\ <<>> \in Seq(Requests) /\ DOMAIN <<>> = {}
  BY EmptySeq DEF P2PInv, ServersAreSafe, BoundsAreKept
<1>2. /\ backlog' \in [Workers -> Seq(Requests)] /\ running' \in [Workers -> BOOLEAN]
      /\ \A v \in Workers : \A i \in DOMAIN backlog'[v] :
           i \in DOMAIN backlog[v] /\ backlog'[v][i] = backlog[v][i]
      /\ \A v \in Workers : running'[v] => running[v]
  BY <1>1
<1>3. QueuesAreSafe' /\ MonitorsAreSafe'
  BY DEF P2PInv, QueuesAreSafe, MonitorsAreSafe
<1>4. ServersAreSafe'
  BY <1>2 DEF P2PInv, ServersAreSafe
<1>5. AwaitedRequestsMatch'
  BY <1>2 DEF P2PInv, AwaitedRequestsMatch, Awaits
<1>6. AnswersMatch'
  BY <1>2 DEF P2PInv, AnswersMatch
<1>7. BoundsAreKept'
  BY <1>2 DEF P2PInv, BoundsAreKept, Preparing
<1>8. QED
  BY <1>3, <1>4, <1>5, <1>6, <1>7 DEF P2PInv

(* One queue changes, and the reservations in it do not. *)
LEMMA QueueStepKeepsP2PInv ==
  ASSUME P2PInv, NEW w \in Workers, NEW q,
         SoundQueue(Copies, q), Size(q) <= Capacity, q.reserved = queue[w].reserved,
         OnlyQueue(w, q)
  PROVE  /\ P2PInv'
         /\ queue'[w] = q /\ \A v \in Workers \ {w} : queue'[v] = queue[v]
         /\ UNCHANGED <<monitor, backlog, handled, running, transfers, timeouts>>
<1>1. /\ queue' = [queue EXCEPT ![w] = q]
      /\ UNCHANGED <<monitor, backlog, handled, running, transfers, timeouts>>
  BY DEF OnlyQueue
<1>2. DOMAIN queue = Workers
  BY DEF P2PInv, QueuesAreSafe
<1>3. P2PInv'
  BY ONLY <1>1, OtherQueueChange, P2PInv, SoundQueue(Copies, q), Size(q) <= Capacity,
     q.reserved = queue[w].reserved
<1>4. QED
  BY <1>1, <1>2, <1>3

(* A message at the front of a link, and the others. *)
LEMMA FirstOnLink ==
  ASSUME NEW S, NEW s \in Seq(S), s # <<>>
  PROVE  /\ 1 \in DOMAIN s /\ Head(s) = s[1] /\ Head(s) \in S
         /\ Tail(s) \in Seq(S)
         /\ \A i \in DOMAIN Tail(s) : i + 1 \in DOMAIN s /\ Tail(s)[i] = s[i + 1]
         /\ \A i \in DOMAIN s : i # 1 => i - 1 \in DOMAIN Tail(s)
<1>1. /\ Len(s) \in Nat /\ DOMAIN s = 1 .. Len(s) /\ Len(s) # 0
  BY LenProperties, EmptySeq
<1>2. /\ Head(s) = s[1] /\ Tail(s) \in Seq(S) /\ Len(Tail(s)) = Len(s) - 1
      /\ DOMAIN Tail(s) = 1 .. Len(s) - 1
      /\ \A i \in 1 .. Len(s) - 1 : Tail(s)[i] = s[i + 1]
  BY HeadTailProperties, LenProperties
<1>3. \A i \in DOMAIN s : s[i] \in S
  BY ElementOfSeq, <1>1
<1>4. QED
  BY <1>1, <1>2, <1>3

(* A message more at the end of a link. *)
LEMMA LastOnLink ==
  ASSUME NEW S, NEW s \in Seq(S), NEW m \in S
  PROVE  /\ Append(s, m) \in Seq(S)
         /\ \A i \in DOMAIN s : i \in DOMAIN Append(s, m) /\ Append(s, m)[i] = s[i]
         /\ Len(s) + 1 \in DOMAIN Append(s, m) /\ Append(s, m)[Len(s) + 1] = m
         /\ \A i \in DOMAIN Append(s, m) : i \in DOMAIN s \/ i = Len(s) + 1
         /\ Len(s) + 1 \notin DOMAIN s
<1>1. /\ Len(s) \in Nat /\ DOMAIN s = 1 .. Len(s)
  BY LenProperties
<1>2. /\ Append(s, m) \in Seq(S) /\ Len(Append(s, m)) = Len(s) + 1
      /\ DOMAIN Append(s, m) = 1 .. Len(s) + 1
      /\ \A i \in 1 .. Len(s) : Append(s, m)[i] = s[i]
      /\ Append(s, m)[Len(s) + 1] = m
  BY AppendProperties, LenProperties
<1>3. QED
  BY <1>1, <1>2

-----------------------------------------------------------------------------
(* The master's steps keep the basics.                                     *)

\* What the master's steps leave alone of the workers.
WorkersStay == UNCHANGED <<queue, monitor, backlog, handled, running, transfers, timeouts>>

LEMMA WorkersStayInv ==
  ASSUME P2PInv, WorkersStay
  PROVE  P2PInv' /\ \A w \in Workers : queue'[w] = queue[w] /\ Kept(w)' = Kept(w)
<1>1. UNCHANGED p2pVars
  BY DEF WorkersStay, p2pVars
<1>2. \A w \in Workers : Kept(w)' = Kept(w)
  BY DEF WorkersStay, Kept
<1>3. QED
  BY <1>1, <1>2, P2PStutter DEF WorkersStay

LEMMA DistributeKeepsBasics ==
  ASSUME Basics, Distribute
  PROVE  Basics'
<1>1. /\ WorkersStay /\ sending = NotSending
      /\ UNCHANGED <<toWorker, toMaster, reported, link, failures, dropped, stranded>>
  BY DEF Distribute, p2pVars, WorkersStay
<1>2. P2PInv' /\ \A w \in Workers : queue'[w] = queue[w]
  BY <1>1, WorkersStayInv DEF Basics
<1>3. LinkedWorkersRun'
  BY <1>1 DEF Basics, LinkedWorkersRun, WorkersStay
<1>4. CASE \E t \in Tasks, w \in Workers :
             AssignNext(t, w) /\ sending' = [task |-> t, worker |-> w, retry |-> FromRetry]
  <2>1. PICK t \in Tasks, w \in Workers :
               AssignNext(t, w) /\ sending' = [task |-> t, worker |-> w, retry |-> FromRetry]
    BY <1>4
  <2>2. CoreInv'
    BY <2>1, AssignNextInv DEF Basics
  <2>3. FromRetry \in BOOLEAN
    BY DEF FromRetry
  <2>4. sending' \in [task : Tasks \cup {0}, worker : Workers \cup {Nobody}, retry : BOOLEAN]
    BY <2>1, <2>3
  <2>5. LinkTypes'
    BY <1>1, <1>2, <2>4 DEF Basics, LinkTypes
  <2>6. assignmentWorker'[t] = w
    BY <2>1 DEF Basics, CoreInv, CoreTypeOK, AssignNext
  <2>7. CommandsAreAddressed'
    BY <1>1, <2>1, <2>6 DEF Basics, CommandsAreAddressed
  <2>8. QED
    BY <1>2, <1>3, <2>2, <2>5, <2>7 DEF Basics
<1>5. CASE PutNextBack /\ UNCHANGED sending
  <2>1. CoreInv'
    BY <1>5, PutNextBackInv DEF Basics
  <2>2. LinkTypes' /\ CommandsAreAddressed'
    BY <1>1, <1>2, <1>5 DEF Basics, LinkTypes, CommandsAreAddressed
  <2>3. QED
    BY <1>2, <1>3, <2>1, <2>2 DEF Basics
<1>6. QED
  BY <1>4, <1>5 DEF Distribute

(* A section of the master that assigns nothing. *)
LEMMA DisconnectStays ==
  ASSUME NEW w, DisconnectWorker(w)
  PROVE  UNCHANGED assignmentWorker
BY DEF DisconnectWorker, coreVars

(* The copy that a TASK carries. *)
LEMMA SentCopy ==
  ASSUME Basics, sending # NotSending
  PROVE  /\ sending.worker \in Workers /\ sending.task \in Tasks /\ sending.retry \in BOOLEAN
         /\ assignmentWorker[sending.task] = sending.worker
         /\ [id |-> sending.task, by |-> assignmentWorker[sending.task]] \in Copies
         /\ [copy |-> CopyOf(sending.task), retry |-> sending.retry] \in Commands
<1>1. /\ sending.worker \in Workers /\ sending.task \in Tasks /\ sending.retry \in BOOLEAN
      /\ assignmentWorker[sending.task] = sending.worker
  BY DEF Basics, CommandsAreAddressed, LinkTypes
<1>2. QED
  BY <1>1 DEF Copies, Commands, CopyOf

LEMMA SendTaskKeepsBasics ==
  ASSUME Basics, SendTask
  PROVE  Basics'
<1> DEFINE w == sending.worker
           c == [copy |-> CopyOf(sending.task), retry |-> sending.retry]
<1>1. /\ sending # NotSending /\ sending' = NotSending /\ WorkersStay
      /\ UNCHANGED <<toMaster, reported, link, failures, dropped, stranded>>
      /\ \/ /\ toWorker' = IF link[w] THEN [toWorker EXCEPT ![w] = Append(@, c)] ELSE toWorker
            /\ UNCHANGED coreVars
         \/ DisconnectWorker(w) /\ UNCHANGED toWorker
  BY DEF SendTask, p2pVars, WorkersStay, CopyOf
<1>2. P2PInv' /\ \A v \in Workers : queue'[v] = queue[v]
  BY <1>1, WorkersStayInv DEF Basics
<1>3. w \in Workers /\ c \in Commands /\ c.copy.by = w
  BY <1>1, SentCopy DEF CopyOf
<1> HIDE DEF w, c
<1>4. CoreInv' /\ UNCHANGED assignmentWorker
  BY <1>1, <1>3, StutterInv, DisconnectWorkerInv, DisconnectStays DEF Basics, coreVars
<1>5. NotSending \in [task : Tasks \cup {0}, worker : Workers \cup {Nobody}, retry : BOOLEAN]
  BY DEF NotSending
<1>6. /\ toWorker' \in [Workers -> Seq(Commands)]
      /\ \A v \in Workers : \A i \in DOMAIN toWorker'[v] : toWorker'[v][i].copy.by = v
  <2>1. /\ toWorker \in [Workers -> Seq(Commands)] /\ toWorker[w] \in Seq(Commands)
        /\ \A v \in Workers : \A i \in DOMAIN toWorker[v] : toWorker[v][i].copy.by = v
    BY <1>3 DEF Basics, LinkTypes, CommandsAreAddressed
  <2>2. CASE toWorker' = toWorker
    BY <2>1, <2>2
  <2>3. CASE toWorker' = [toWorker EXCEPT ![w] = Append(@, c)]
    <3> DEFINE s == Append(toWorker[w], c)
    <3>1. /\ s \in Seq(Commands)
          /\ \A i \in DOMAIN s :
               (s[i] = toWorker[w][i] /\ i \in DOMAIN toWorker[w]) \/ s[i] = c
      BY <1>3, <2>1, LastOnLink
    <3> HIDE DEF s
    <3>2. /\ toWorker'[w] = s /\ \A v \in Workers \ {w} : toWorker'[v] = toWorker[v]
          /\ toWorker' \in [Workers -> Seq(Commands)]
      BY <1>3, <2>1, <2>3, <3>1 DEF s
    <3>3. \A i \in DOMAIN s : s[i].copy.by = w
      BY <1>3, <2>1, <3>1
    <3>4. QED
      BY <2>1, <3>2, <3>3
  <2>4. QED
    BY <1>1, <2>2, <2>3
<1>7. LinkTypes'
  BY <1>1, <1>2, <1>5, <1>6 DEF Basics, LinkTypes
<1>8. CommandsAreAddressed' /\ LinkedWorkersRun'
  BY <1>1, <1>4, <1>6 DEF Basics, CommandsAreAddressed, LinkedWorkersRun, WorkersStay
<1>9. QED
  BY <1>2, <1>4, <1>7, <1>8 DEF Basics

(* The first result on a link. *)
LEMMA FirstResult ==
  ASSUME Basics, NEW w \in Workers, toMaster[w] # <<>>
  PROVE  LET m == Head(toMaster[w])
         IN  /\ m \in Results /\ m.copy \in Copies
             /\ m.copy.id \in Tasks /\ m.copy.by \in Workers
             /\ m.kind \in {"success", "fail", "overflow"}
             /\ Tail(toMaster[w]) \in Seq(Results)
<1>1. toMaster[w] \in Seq(Results)
  BY DEF Basics, LinkTypes
<1>2. Head(toMaster[w]) \in Results /\ Tail(toMaster[w]) \in Seq(Results)
  BY <1>1, FirstOnLink
<1>3. QED
  BY <1>2 DEF Results, Copies

LEMMA ReceiveResultKeepsBasics ==
  ASSUME Basics, NEW w \in Workers, ReceiveResult(w)
  PROVE  Basics'
<1> DEFINE m == Head(toMaster[w])
<1>1. /\ toMaster[w] # <<>> /\ toMaster' = [toMaster EXCEPT ![w] = Tail(@)] /\ WorkersStay
      /\ UNCHANGED <<sending, toWorker, reported, link, failures, dropped, stranded>>
  BY DEF ReceiveResult, p2pVars, WorkersStay
<1>2. P2PInv' /\ \A v \in Workers : queue'[v] = queue[v]
  BY <1>1, WorkersStayInv DEF Basics
<1>3. /\ m.copy.id \in Tasks /\ m.copy.by \in Workers /\ Tail(toMaster[w]) \in Seq(Results)
  BY <1>1, FirstResult
<1>4. CoreInv' /\ UNCHANGED assignmentWorker
  <2>1. CASE ~ IsCurrent(m.copy.id, m.copy.by)
    BY <2>1, StutterInv DEF ReceiveResult, Basics, coreVars
  <2>2. CASE IsCurrent(m.copy.id, m.copy.by) /\ m.kind = "success"
    <3>1. RecordSuccess(m.copy.id)
      BY <2>2 DEF ReceiveResult
    <3>2. QED
      BY <1>3, <2>2, <3>1, RecordSuccessInv DEF Basics, RecordSuccess
  <2>3. CASE IsCurrent(m.copy.id, m.copy.by) /\ m.kind # "success"
    <3>1. RecordFailure(w, m.copy.id, m.kind = "overflow") /\ (m.kind = "overflow") \in BOOLEAN
      BY <2>3 DEF ReceiveResult
    <3>2. QED
      BY <1>3, <2>3, <3>1, RecordFailureInv DEF Basics, RecordFailure
  <2>4. QED
    BY <2>1, <2>2, <2>3
<1>5. toMaster' \in [Workers -> Seq(Results)]
  BY <1>1, <1>3 DEF Basics, LinkTypes
<1>6. LinkTypes'
  BY <1>1, <1>2, <1>5 DEF Basics, LinkTypes
<1>7. CommandsAreAddressed' /\ LinkedWorkersRun'
  BY <1>1, <1>4 DEF Basics, CommandsAreAddressed, LinkedWorkersRun, WorkersStay
<1>8. QED
  BY <1>2, <1>4, <1>6, <1>7 DEF Basics

LEMMA ReceiveEndKeepsBasics ==
  ASSUME Basics, NEW w \in Workers, ReceiveEnd(w)
  PROVE  Basics'
<1>1. DisconnectWorker(w) /\ WorkersStay /\ UNCHANGED linkVars
  BY DEF ReceiveEnd, p2pVars, WorkersStay
<1>2. CoreInv' /\ UNCHANGED assignmentWorker
  BY <1>1, DisconnectWorkerInv, DisconnectStays DEF Basics
<1>3. P2PInv' /\ \A v \in Workers : queue'[v] = queue[v]
  BY <1>1, WorkersStayInv DEF Basics
<1>4. LinkTypes' /\ CommandsAreAddressed' /\ LinkedWorkersRun'
  BY <1>1, <1>2, <1>3 DEF Basics, LinkTypes, CommandsAreAddressed, LinkedWorkersRun,
     WorkersStay, linkVars
<1>5. QED
  BY <1>2, <1>3, <1>4 DEF Basics

LEMMA LearnSizeKeepsBasics ==
  ASSUME Basics, NEW w \in Workers, LearnSize(w)
  PROVE  Basics'
<1>1. WorkersStay /\ UNCHANGED linkVars
  BY DEF LearnSize, p2pVars, WorkersStay
<1>2. PICK size \in 0 .. Capacity : UpdateStatus(w, size)
  BY DEF LearnSize
<1>3. CoreInv' /\ UNCHANGED assignmentWorker
  BY <1>2, UpdateStatusInv DEF Basics, UpdateStatus
<1>4. P2PInv' /\ \A v \in Workers : queue'[v] = queue[v]
  BY <1>1, WorkersStayInv DEF Basics
<1>5. LinkTypes' /\ CommandsAreAddressed' /\ LinkedWorkersRun'
  BY <1>1, <1>3, <1>4 DEF Basics, LinkTypes, CommandsAreAddressed, LinkedWorkersRun,
     WorkersStay, linkVars
<1>6. QED
  BY <1>3, <1>4, <1>5 DEF Basics

-----------------------------------------------------------------------------
(* What a worker's receiver and processor do with the copies of its queue. *)

\* What such a step leaves alone.
ServiceStays == UNCHANGED <<monitor, backlog, handled, running, transfers, timeouts>>

OtherQueuesStay(w) == \A v \in Workers \ {w} : queue'[v] = queue[v] /\ Kept(v)' = Kept(v)

LEMMA QueueStepKeepsCopies ==
  ASSUME P2PInv, NEW w \in Workers, NEW q,
         SoundQueue(Copies, q), Size(q) <= Capacity, q.reserved = queue[w].reserved,
         OnlyQueue(w, q)
  PROVE  /\ P2PInv' /\ ServiceStays /\ OtherQueuesStay(w)
         /\ queue'[w] = q
         /\ Kept(w)' = KeptCopies(q) \ (IF monitor[w].answer = "accepted"
                                         THEN ReservedCopies(queue[w]) ELSE {})
<1>1. /\ P2PInv'
      /\ queue'[w] = q /\ \A v \in Workers \ {w} : queue'[v] = queue[v]
      /\ UNCHANGED <<monitor, backlog, handled, running, transfers, timeouts>>
  BY QueueStepKeepsP2PInv
<1>2. OtherQueuesStay(w)
  BY <1>1 DEF OtherQueuesStay, Kept
<1>3. QED
  BY <1>1, <1>2 DEF ServiceStays, Kept, KeptBy, ReservedCopies

(* Reserved copies and the one being processed have active ids, and are    *)
(* not the same.                                                           *)
LEMMA ActiveCopies ==
  ASSUME P2PInv, NEW w \in Workers
  PROVE  /\ \A c \in KeptCopies(queue[w]) : c.id \in queue[w].active /\ c \in Copies
         /\ ReservedCopies(queue[w]) \subseteq KeptCopies(queue[w])
         /\ queue[w].processing \subseteq KeptCopies(queue[w])
         /\ \A c \in KeptCopies(queue[w]), d \in KeptCopies(queue[w]) : c.id = d.id => c = d
         /\ ReservedCopies(queue[w]) \cap queue[w].processing = {}
         /\ \A c, d \in queue[w].processing : c = d
<1> DEFINE q == queue[w]
<1>1. SoundQueue(Copies, q) /\ EachHeldOnce(q) /\ q \in Queues(Copies)
  BY OfOneWorker DEF SoundQueue
<1>2. q.active = {c.id : c \in KeptCopies(q)}
  BY <1>1, ActiveAreHeld
<1>3. /\ q.normal \in Seq(Copies) /\ q.priority \in Seq(Copies)
      /\ q.reserved \in SUBSET [copy : Copies, priority : BOOLEAN]
      /\ q.processing \in SUBSET Copies
  BY <1>1 DEF Queues
<1> HIDE DEF q
<1>4. ToSet(q.normal) \subseteq Copies /\ ToSet(q.priority) \subseteq Copies
  BY <1>3, ElementOfSeq, LenProperties DEF ToSet
<1>5. \A c \in KeptCopies(q) : c \in Copies
  BY <1>3, <1>4 DEF KeptCopies
<1>6. /\ Distinct(q.normal) /\ Distinct(q.priority)
      /\ \A r, s \in q.reserved : r.copy.id = s.copy.id => r = s
      /\ \A c, d \in q.processing : c = d
      /\ Disjoint(IdsIn(q.normal), IdsIn(q.priority))
      /\ Disjoint(Waiting(q), ReservedIds(q))
      /\ Disjoint(ProcessingIds(q), Waiting(q) \cup ReservedIds(q))
  BY <1>1 DEF EachHeldOnce
<1>7. /\ \A c, d \in ToSet(q.normal) : c.id = d.id => c = d
      /\ \A c, d \in ToSet(q.priority) : c.id = d.id => c = d
      /\ \A c, d \in ReservedCopies(q) : c.id = d.id => c = d
      /\ \A c, d \in q.processing : c = d
  BY <1>6 DEF Distinct, ToSet, ReservedCopies
<1>8. /\ \A c \in ToSet(q.normal) : c.id \in IdsIn(q.normal) /\ c.id \in Waiting(q)
      /\ \A c \in ToSet(q.priority) : c.id \in IdsIn(q.priority) /\ c.id \in Waiting(q)
      /\ \A c \in ReservedCopies(q) : c.id \in ReservedIds(q)
      /\ \A c \in q.processing : c.id \in ProcessingIds(q)
  BY DEF ToSet, IdsIn, ReservedCopies, ReservedIds, ProcessingIds, Waiting
<1>9. KeptCopies(q) = ToSet(q.normal) \cup ToSet(q.priority) \cup ReservedCopies(q) \cup q.processing
  BY DEF KeptCopies, ReservedCopies
<1>10. \A c \in KeptCopies(q), d \in KeptCopies(q) : c.id = d.id => c = d
  BY <1>6, <1>7, <1>8, <1>9 DEF Disjoint
<1>11. ReservedCopies(q) \cap q.processing = {}
  BY <1>6, <1>8 DEF Disjoint
<1>12. QED
  BY <1>2, <1>5, <1>7, <1>9, <1>10, <1>11 DEF q

(* A TASK is admitted. *)
LEMMA AdmittedCopy ==
  ASSUME P2PInv, NEW w \in Workers, NEW c \in Copies, NEW retry \in BOOLEAN,
         Verdict(queue[w], <<c>>) = "accepted",
         OnlyQueue(w, Enqueued(queue[w], <<c>>, retry))
  PROVE  /\ P2PInv' /\ ServiceStays /\ OtherQueuesStay(w)
         /\ queue'[w].processing = queue[w].processing
         /\ Kept(w)' = Kept(w) \cup {c} /\ c.id \notin queue[w].active
<1> DEFINE q == Enqueued(queue[w], <<c>>, retry)
           b == <<c>>
<1>1. /\ b \in Seq(Copies) /\ SoundQueue(Copies, queue[w])
      /\ IdsIn(b) = {c.id} /\ ToSet(b) = {c} /\ Verdict(queue[w], b) = "accepted"
  BY OfOneWorker DEF IdsIn, ToSet
<1> HIDE DEF b
<1>2. LET x == Enqueued(queue[w], b, retry)
      IN  /\ SoundQueue(Copies, x)
          /\ Size(x) <= Capacity
          /\ KeptCopies(x) = KeptCopies(queue[w]) \cup ToSet(b)
          /\ x.reserved = queue[w].reserved /\ x.processing = queue[w].processing
  BY ONLY <1>1, retry \in BOOLEAN, EnqueuedQueue
<1>3. /\ SoundQueue(Copies, q) /\ Size(q) <= Capacity
      /\ KeptCopies(q) = KeptCopies(queue[w]) \cup {c}
      /\ q.reserved = queue[w].reserved /\ q.processing = queue[w].processing
  BY <1>1, <1>2 DEF b
<1>4. OnlyQueue(w, q)
  OBVIOUS
<1> HIDE DEF q
<1>5. /\ P2PInv' /\ ServiceStays /\ OtherQueuesStay(w)
      /\ queue'[w] = q
      /\ Kept(w)' = KeptCopies(q) \ (IF monitor[w].answer = "accepted"
                                       THEN ReservedCopies(queue[w]) ELSE {})
  BY <1>3, <1>4, QueueStepKeepsCopies
<1>6. c.id \notin queue[w].active
  BY <1>1 DEF Verdict
<1>7. c \notin ReservedCopies(queue[w])
  BY <1>6, ActiveCopies
<1>8. Kept(w)' = Kept(w) \cup {c}
  BY <1>3, <1>5, <1>7 DEF Kept, KeptBy
<1>9. QED
  BY <1>3, <1>5, <1>6, <1>8

LEMMA DequeuedCopy ==
  ASSUME P2PInv, NEW w \in Workers, queue[w].processing = {}, CanDequeue(queue[w]),
         OnlyQueue(w, Dequeued(queue[w]))
  PROVE  /\ P2PInv' /\ ServiceStays /\ OtherQueuesStay(w)
         /\ queue'[w].processing # {} /\ Kept(w)' = Kept(w)
<1> DEFINE q == Dequeued(queue[w])
<1>1. SoundQueue(Copies, queue[w]) /\ Size(queue[w]) \in Nat /\ Size(queue[w]) <= Capacity
  BY OfOneWorker
<1>2. LET r == Dequeued(queue[w])
      IN  /\ SoundQueue(Copies, r)
          /\ Size(r) = Size(queue[w]) - 1
          /\ KeptCopies(r) = KeptCopies(queue[w])
          /\ r.reserved = queue[w].reserved /\ r.processing # {}
  BY <1>1, DequeuedQueue
<1>3. /\ SoundQueue(Copies, q) /\ Size(q) <= Capacity
      /\ KeptCopies(q) = KeptCopies(queue[w])
      /\ q.reserved = queue[w].reserved /\ q.processing # {}
  <2>1. Size(q) = Size(queue[w]) - 1
    BY <1>2
  <2> HIDE DEF q
  <2>2. Size(q) <= Capacity
    BY <1>1, <2>1, CapacityAssumption
  <2>3. QED
    BY <1>2, <2>2 DEF q
<1>4. OnlyQueue(w, q)
  OBVIOUS
<1> HIDE DEF q
<1>5. /\ P2PInv' /\ ServiceStays /\ OtherQueuesStay(w)
      /\ queue'[w] = q
      /\ Kept(w)' = KeptCopies(q) \ (IF monitor[w].answer = "accepted"
                                       THEN ReservedCopies(queue[w]) ELSE {})
  BY <1>3, <1>4, QueueStepKeepsCopies
<1>6. QED
  BY <1>3, <1>5 DEF Kept, KeptBy

LEMMA FinishedCopy ==
  ASSUME P2PInv, NEW w \in Workers, OnlyQueue(w, MarkedDone(queue[w]))
  PROVE  /\ P2PInv' /\ ServiceStays /\ OtherQueuesStay(w)
         /\ queue'[w].processing = {} /\ Kept(w)' = Kept(w) \ queue[w].processing
<1> DEFINE q == MarkedDone(queue[w])
<1>1. SoundQueue(Copies, queue[w]) /\ Size(queue[w]) \in Nat /\ Size(queue[w]) <= Capacity
  BY OfOneWorker
<1>2. LET r == MarkedDone(queue[w])
      IN  /\ SoundQueue(Copies, r)
          /\ Size(r) = Size(queue[w])
          /\ KeptCopies(r) = KeptCopies(queue[w]) \ queue[w].processing
          /\ r.active = queue[w].active \ ProcessingIds(queue[w])
          /\ r.reserved = queue[w].reserved /\ r.processing = {}
  BY <1>1, MarkedDoneQueue
<1>3. /\ SoundQueue(Copies, q) /\ Size(q) <= Capacity
      /\ KeptCopies(q) = KeptCopies(queue[w]) \ queue[w].processing
      /\ q.reserved = queue[w].reserved /\ q.processing = {}
  BY <1>1, <1>2
<1>4. OnlyQueue(w, q)
  OBVIOUS
<1> HIDE DEF q
<1>5. /\ P2PInv' /\ ServiceStays /\ OtherQueuesStay(w)
      /\ queue'[w] = q
      /\ Kept(w)' = KeptCopies(q) \ (IF monitor[w].answer = "accepted"
                                       THEN ReservedCopies(queue[w]) ELSE {})
  BY <1>3, <1>4, QueueStepKeepsCopies
<1>6. QED
  BY <1>3, <1>5 DEF Kept, KeptBy

-----------------------------------------------------------------------------
(* The workers' steps and the faults keep the basics.                      *)

LEMMA TypesOfBasics ==
  ASSUME Basics
  PROVE  /\ P2PInv
         /\ toWorker \in [Workers -> Seq(Commands)] /\ toMaster \in [Workers -> Seq(Results)]
         /\ reported \in [Workers -> BOOLEAN] /\ link \in [Workers -> BOOLEAN]
         /\ \A w \in Workers : reported[w] => queue[w].processing # {}
         /\ failures \in 0 .. MaxFailures /\ dropped \subseteq Tasks /\ stranded \subseteq Tasks
BY DEF Basics, LinkTypes

(* A result is written to the link, or lost with it. *)
LEMMA ReportedResult ==
  ASSUME Basics, NEW w \in Workers, NEW c \in Copies,
         NEW kind \in {"success", "fail", "overflow"}, Report(w, c, kind)
  PROVE  /\ toMaster' \in [Workers -> Seq(Results)] /\ stranded' \subseteq Tasks
         /\ stranded \subseteq stranded'
         /\ \A v \in Workers \ {w} : toMaster'[v] = toMaster[v]
         /\ IF link[w] THEN /\ toMaster'[w] = Append(toMaster[w], [copy |-> c, kind |-> kind])
                            /\ stranded' = stranded
            ELSE toMaster' = toMaster /\ (c.by = w \/ c.id \in stranded')
         /\ [copy |-> c, kind |-> kind] \in Results
<1> DEFINE m == [copy |-> c, kind |-> kind]
<1>1. /\ toMaster \in [Workers -> Seq(Results)] /\ stranded \subseteq Tasks
      /\ m \in Results /\ c.id \in Tasks
  BY TypesOfBasics DEF Results, Copies
<1>2. /\ toMaster' = IF link[w] THEN [toMaster EXCEPT ![w] = Append(@, m)] ELSE toMaster
      /\ stranded' = IF link[w] \/ c.by = w THEN stranded ELSE stranded \cup {c.id}
  BY DEF Report
<1>3. m = [copy |-> c, kind |-> kind]
  OBVIOUS
<1> HIDE DEF m
<1>4. Append(toMaster[w], m) \in Seq(Results)
  BY <1>1, AppendProperties
<1>5. QED
  BY <1>1, <1>2, <1>3, <1>4

LEMMA HandleTaskKeepsBasics ==
  ASSUME Basics, NEW w \in Workers, HandleTask(w)
  PROVE  Basics'
<1> DEFINE m == Head(toWorker[w])
<1>1. /\ running[w] /\ toWorker[w] # <<>>
      /\ toWorker' = [toWorker EXCEPT ![w] = Tail(@)]
      /\ UNCHANGED <<coreVars, sending, reported, link, failures>>
  BY DEF HandleTask
<1>2. /\ toWorker \in [Workers -> Seq(Commands)] /\ toWorker[w] \in Seq(Commands)
      /\ dropped \subseteq Tasks /\ stranded \subseteq Tasks /\ P2PInv
  BY TypesOfBasics
<1>3. /\ m \in Commands /\ Tail(toWorker[w]) \in Seq(Commands)
      /\ \A i \in DOMAIN Tail(toWorker[w]) :
           i + 1 \in DOMAIN toWorker[w] /\ Tail(toWorker[w])[i] = toWorker[w][i + 1]
  BY <1>1, <1>2, FirstOnLink
<1>4. m.copy \in Copies /\ m.copy.id \in Tasks /\ m.retry \in BOOLEAN
  BY <1>3 DEF Commands, Copies
<1>5. /\ toWorker' \in [Workers -> Seq(Commands)]
      /\ \A v \in Workers : \A i \in DOMAIN toWorker'[v] : toWorker'[v][i].copy.by = v
  BY <1>1, <1>2, <1>3 DEF Basics, CommandsAreAddressed
<1>6. /\ P2PInv' /\ running' = running
      /\ \A v \in Workers : queue'[v].processing = queue[v].processing
      /\ toMaster' \in [Workers -> Seq(Results)] /\ dropped' \subseteq Tasks
      /\ stranded' \subseteq Tasks
  <2>1. CASE /\ Verdict(queue[w], <<m.copy>>) = "accepted"
             /\ OnlyQueue(w, Enqueued(queue[w], <<m.copy>>, m.retry))
             /\ UNCHANGED <<toMaster, dropped, stranded>>
    <3>1. /\ P2PInv' /\ ServiceStays /\ OtherQueuesStay(w)
          /\ queue'[w].processing = queue[w].processing
      BY <1>2, <1>4, <2>1, AdmittedCopy
    <3>2. QED
      BY <1>2, <2>1, <3>1, TypesOfBasics DEF ServiceStays, OtherQueuesStay
  <2>2. CASE /\ Report(w, m.copy, "overflow") /\ UNCHANGED <<p2pVars, dropped>>
    <3>1. P2PInv' /\ UNCHANGED <<queue, running>>
      BY <1>2, <2>2, P2PStutter DEF p2pVars
    <3>2. toMaster' \in [Workers -> Seq(Results)] /\ stranded' \subseteq Tasks
      BY <1>4, <2>2, ReportedResult
    <3>3. QED
      BY <1>2, <2>2, <3>1, <3>2
  <2>3. CASE /\ dropped' = dropped \cup {m.copy.id} /\ UNCHANGED <<p2pVars, toMaster, stranded>>
    <3>1. P2PInv' /\ UNCHANGED <<queue, running>>
      BY <1>2, <2>3, P2PStutter DEF p2pVars
    <3>2. QED
      BY <1>2, <1>4, <2>3, <3>1, TypesOfBasics
  <2>4. QED
    BY <2>1, <2>2, <2>3 DEF HandleTask
<1>7. CoreInv' /\ assignmentWorker' = assignmentWorker
  BY <1>1, StutterInv DEF Basics, coreVars
<1>8. LinkTypes'
  BY <1>1, <1>5, <1>6 DEF Basics, LinkTypes
<1>9. CommandsAreAddressed' /\ LinkedWorkersRun'
  BY <1>1, <1>5, <1>6, <1>7 DEF Basics, CommandsAreAddressed, LinkedWorkersRun
<1>10. QED
  BY <1>6, <1>7, <1>8, <1>9 DEF Basics

(* The steps in which neither the master nor a link to a worker moves. *)
LEMMA LocalStepKeepsBasics ==
  ASSUME Basics, P2PInv', UNCHANGED <<coreVars, sending, toWorker, link, dropped, running>>,
         toMaster' \in [Workers -> Seq(Results)], reported' \in [Workers -> BOOLEAN],
         \A w \in Workers : reported'[w] => queue'[w].processing # {},
         failures' \in 0 .. MaxFailures, stranded' \subseteq Tasks
  PROVE  Basics'
<1>1. CoreInv' /\ assignmentWorker' = assignmentWorker
  BY StutterInv DEF Basics, coreVars
<1>2. LinkTypes'
  BY DEF Basics, LinkTypes
<1>3. CommandsAreAddressed' /\ LinkedWorkersRun'
  BY <1>1 DEF Basics, CommandsAreAddressed, LinkedWorkersRun
<1>4. QED
  BY <1>1, <1>2, <1>3 DEF Basics

LEMMA ProcessingKeepsBasics ==
  ASSUME Basics, NEW w \in Workers, Processing(w)
  PROVE  Basics'
<1>1. CASE DequeueForProcessing(w)
  <2>1. /\ UNCHANGED <<coreVars, linkVars>> /\ OnlyQueue(w, Dequeued(queue[w]))
        /\ queue[w].processing = {} /\ CanDequeue(queue[w])
    BY <1>1 DEF DequeueForProcessing
  <2>2. /\ P2PInv' /\ ServiceStays /\ OtherQueuesStay(w)
        /\ queue'[w].processing # {} /\ Kept(w)' = Kept(w)
    BY <2>1, DequeuedCopy DEF Basics
  <2>3. QED
    BY <2>1, <2>2, TypesOfBasics, LocalStepKeepsBasics
       DEF linkVars, ServiceStays, OtherQueuesStay
<1>2. CASE MarkProcessingDone(w)
  <2>1. /\ UNCHANGED <<coreVars, sending, toWorker, toMaster, link, failures, dropped, stranded>>
        /\ OnlyQueue(w, MarkedDone(queue[w])) /\ reported' = [reported EXCEPT ![w] = FALSE]
    BY <1>2 DEF MarkProcessingDone
  <2>2. /\ P2PInv' /\ ServiceStays /\ OtherQueuesStay(w)
        /\ queue'[w].processing = {} /\ Kept(w)' = Kept(w) \ queue[w].processing
    BY <2>1, FinishedCopy DEF Basics
  <2>3. /\ reported' \in [Workers -> BOOLEAN]
        /\ \A v \in Workers : reported'[v] => queue'[v].processing # {}
    BY <2>1, <2>2, TypesOfBasics DEF OtherQueuesStay
  <2>4. QED
    BY <2>1, <2>2, <2>3, TypesOfBasics, LocalStepKeepsBasics DEF ServiceStays
<1>3. ASSUME NEW kind \in {"success", "fail"}, SendResult(w, kind)
      PROVE  Basics'
  <2>1. /\ UNCHANGED <<coreVars, p2pVars, sending, toWorker, link, dropped>>
        /\ queue[w].processing # {} /\ reported' = [reported EXCEPT ![w] = TRUE]
        /\ failures' = failures
             \/ (failures < MaxFailures /\ failures' = failures + 1)
    BY <1>3 DEF SendResult
  <2>2. PICK c \in queue[w].processing : Report(w, c, kind)
    BY <1>3 DEF SendResult
  <2>3. c \in Copies
    BY <2>2, ActiveCopies DEF Basics
  <2>4. toMaster' \in [Workers -> Seq(Results)] /\ stranded' \subseteq Tasks
    BY <1>3, <2>2, <2>3, ReportedResult
  <2>5. P2PInv' /\ queue' = queue /\ running' = running
    BY <2>1, P2PStutter DEF Basics, p2pVars
  <2>6. failures' \in 0 .. MaxFailures
    BY <2>1, TypesOfBasics, FaultsAssumption
  <2>7. /\ reported' \in [Workers -> BOOLEAN]
        /\ \A v \in Workers : reported'[v] => queue'[v].processing # {}
    BY <2>1, <2>5, TypesOfBasics
  <2>8. QED
    BY <2>1, <2>4, <2>5, <2>6, <2>7, LocalStepKeepsBasics
<1>4. QED
  BY <1>1, <1>2, <1>3 DEF Processing

LEMMA P2PStepKeepsBasics ==
  ASSUME Basics, NEW w \in Workers, P2PStep(w)
  PROVE  Basics'
<1>1. UNCHANGED <<coreVars, linkVars>>
  BY DEF P2PStep
<1>2. /\ P2PInv' /\ running' = running
      /\ \A v \in Workers : queue'[v].processing = queue[v].processing
  <2>1. CASE Monitoring(w)
    <3>1. P2PInv' /\ OthersStay(w)
      BY <2>1, MonitoringKeepsInv, MonitoringKeepsCopies DEF Basics
    <3>2. running' = running
      BY <2>1 DEF Monitoring, NoticeOverload, AskPeer, ChoosePeer, ReserveNext, SendTransfer,
         ReadAnswer, GiveUp, SettleNext
    <3>3. QED
      BY <3>1, <3>2 DEF OthersStay
  <2>2. CASE Serve(w)
    BY <2>2, ServeKeepsInv, ServeMovesCopies DEF Basics, Serve
  <2>3. QED
    BY <2>1, <2>2 DEF P2PStep
<1>3. QED
  BY <1>1, <1>2, TypesOfBasics, LocalStepKeepsBasics DEF linkVars

(* What is left of the results on a lost link. *)
LEMMA CutLink ==
  ASSUME NEW S, NEW s \in Seq(S), NEW n \in 0 .. Len(s)
  PROVE  /\ SubSeq(s, 1, n) \in Seq(S)
         /\ \A i \in DOMAIN SubSeq(s, 1, n) : i \in DOMAIN s /\ SubSeq(s, 1, n)[i] = s[i]
         /\ \A i \in DOMAIN s : i \in DOMAIN SubSeq(s, 1, n) \/ i \in n + 1 .. Len(s)
         /\ \A i \in n + 1 .. Len(s) : i \in DOMAIN s /\ s[i] \in S
<1>1. Len(s) \in Nat /\ DOMAIN s = 1 .. Len(s) /\ \A i \in 1 .. Len(s) : s[i] \in S
  BY LenProperties, ElementOfSeq
<1>2. /\ SubSeq(s, 1, n) \in Seq(S) /\ Len(SubSeq(s, 1, n)) = n
      /\ DOMAIN SubSeq(s, 1, n) = 1 .. n
      /\ \A i \in 1 .. n : SubSeq(s, 1, n)[i] = s[i]
  <2>1. 1 \in Int /\ n \in Int /\ \A i \in 1 .. n : s[i] \in S
    BY <1>1
  <2>2. /\ SubSeq(s, 1, n) \in Seq(S)
        /\ Len(SubSeq(s, 1, n)) = IF 1 <= n THEN n - 1 + 1 ELSE 0
        /\ \A i \in 1 .. n - 1 + 1 : SubSeq(s, 1, n)[i] = s[1 + i - 1]
    BY <2>1, SubSeqProperties, <1>1
  <2>3. DOMAIN SubSeq(s, 1, n) = 1 .. Len(SubSeq(s, 1, n))
    BY <2>2, LenProperties
  <2>4. QED
    BY <1>1, <2>2, <2>3
<1>3. QED
  BY <1>1, <1>2

(* What is lost with a worker is what its queue keeps, but for the copy    *)
(* whose result was sent.                                                  *)
LEMMA UnfinishedCopies ==
  ASSUME P2PInv, NEW w \in Workers
  PROVE  Unfinished(w)
           = KeptCopies(queue[w]) \ (IF reported[w] THEN queue[w].processing ELSE {})
<1> DEFINE q == queue[w]
<1>1. EachHeldOnce(q)
  BY OfOneWorker DEF SoundQueue
<1>2. Unfinished(w) = ToSet(q.normal) \cup ToSet(q.priority) \cup ReservedCopies(q)
                        \cup (IF reported[w] THEN {} ELSE q.processing)
  BY DEF Unfinished, ToSet, ReservedCopies
<1>3. KeptCopies(q) = ToSet(q.normal) \cup ToSet(q.priority) \cup ReservedCopies(q) \cup q.processing
  BY DEF KeptCopies, ReservedCopies
<1> HIDE DEF q
<1>4. /\ \A c \in ToSet(q.normal) \cup ToSet(q.priority) : c.id \in Waiting(q)
      /\ \A c \in ReservedCopies(q) : c.id \in ReservedIds(q)
      /\ \A c \in q.processing : c.id \in ProcessingIds(q)
  BY DEF ToSet, IdsIn, ReservedCopies, ReservedIds, ProcessingIds, Waiting
<1>5. \A c \in q.processing :
        c \notin ToSet(q.normal) \cup ToSet(q.priority) \cup ReservedCopies(q)
  BY <1>1, <1>4 DEF EachHeldOnce, Disjoint
<1>6. QED
  BY <1>2, <1>3, <1>5 DEF q

LEMMA LoseLinkKeepsBasics ==
  ASSUME Basics, NEW w \in Workers, LoseLink(w)
  PROVE  Basics'
<1>1. /\ link' = [link EXCEPT ![w] = FALSE] /\ toWorker' = [toWorker EXCEPT ![w] = <<>>]
      /\ UNCHANGED <<coreVars, p2pVars, sending, reported, failures, dropped>>
  BY DEF LoseLink
<1>2. PICK n \in 0 .. Len(toMaster[w]) :
        LET lost == {toMaster[w][i].copy : i \in n + 1 .. Len(toMaster[w])}
        IN  /\ toMaster' = [toMaster EXCEPT ![w] = SubSeq(@, 1, n)]
            /\ stranded' = stranded \cup {c.id : c \in {d \in lost : d.by # w}}
  BY DEF LoseLink
<1>3. /\ toWorker \in [Workers -> Seq(Commands)] /\ toMaster \in [Workers -> Seq(Results)]
      /\ link \in [Workers -> BOOLEAN] /\ stranded \subseteq Tasks /\ P2PInv
  BY TypesOfBasics
<1>4. /\ SubSeq(toMaster[w], 1, n) \in Seq(Results)
      /\ \A i \in n + 1 .. Len(toMaster[w]) : toMaster[w][i] \in Results
  <2>1. toMaster[w] \in Seq(Results)
    BY <1>3
  <2> DEFINE s == toMaster[w]
  <2>2. s \in Seq(Results) /\ n \in 0 .. Len(s)
    BY <2>1
  <2> HIDE DEF s
  <2>3. /\ SubSeq(s, 1, n) \in Seq(Results)
        /\ \A i \in DOMAIN SubSeq(s, 1, n) : i \in DOMAIN s /\ SubSeq(s, 1, n)[i] = s[i]
        /\ \A i \in DOMAIN s : i \in DOMAIN SubSeq(s, 1, n) \/ i \in n + 1 .. Len(s)
        /\ \A i \in n + 1 .. Len(s) : i \in DOMAIN s /\ s[i] \in Results
    BY ONLY <2>2, CutLink
  <2>4. QED
    BY <2>3 DEF s
<1>5. toMaster' \in [Workers -> Seq(Results)]
  BY <1>2, <1>3, <1>4
<1>6. stranded' \subseteq Tasks
  BY <1>2, <1>3, <1>4 DEF Results, Copies
<1>7. /\ toWorker' \in [Workers -> Seq(Commands)] /\ link' \in [Workers -> BOOLEAN]
      /\ \A v \in Workers : \A i \in DOMAIN toWorker'[v] : toWorker'[v][i].copy.by = v
      /\ \A v \in Workers : link'[v] => link[v]
  <2>1. <<>> \in Seq(Commands) /\ DOMAIN <<>> = {}
    BY EmptySeq
  <2>2. QED
    BY <1>1, <1>3, <2>1 DEF Basics, CommandsAreAddressed
<1>8. CoreInv' /\ P2PInv' /\ assignmentWorker' = assignmentWorker /\ queue' = queue
      /\ running' = running
  BY <1>1, StutterInv, P2PStutter DEF Basics, coreVars, p2pVars
<1>9. LinkTypes'
  BY <1>1, <1>5, <1>6, <1>7, <1>8 DEF Basics, LinkTypes
<1>10. CommandsAreAddressed' /\ LinkedWorkersRun'
  BY <1>1, <1>7, <1>8 DEF Basics, CommandsAreAddressed, LinkedWorkersRun
<1>11. QED
  BY <1>8, <1>9, <1>10 DEF Basics

LEMMA StopWorkerKeepsBasics ==
  ASSUME Basics, NEW w \in Workers, StopWorker(w)
  PROVE  Basics'
<1>1. /\ ~ link[w] /\ running' = [running EXCEPT ![w] = FALSE]
      /\ backlog' = [backlog EXCEPT ![w] = <<>>]
      /\ stranded' = stranded \cup {c.id : c \in {d \in Unfinished(w) : d.by # w}}
      /\ UNCHANGED <<coreVars, queue, monitor, handled, transfers, timeouts, sending, toWorker,
                     toMaster, reported, link, failures, dropped>>
  BY DEF StopWorker
<1>2. P2PInv'
  BY <1>1, StopKeepsP2PInv DEF Basics
<1>3. stranded' \subseteq Tasks
  <2>1. Unfinished(w) \subseteq Copies
    BY UnfinishedCopies, ActiveCopies DEF Basics
  <2>2. QED
    BY <1>1, <2>1, TypesOfBasics DEF Copies
<1>4. CoreInv' /\ assignmentWorker' = assignmentWorker
  BY <1>1, StutterInv DEF Basics, coreVars
<1>5. LinkTypes'
  BY <1>1, <1>3 DEF Basics, LinkTypes
<1>6. CommandsAreAddressed' /\ LinkedWorkersRun'
  <2>1. \A v \in Workers : link[v] => running'[v]
    BY <1>1 DEF Basics, LinkedWorkersRun, P2PInv, BoundsAreKept
  <2>2. QED
    BY <1>1, <1>4, <2>1 DEF Basics, CommandsAreAddressed, LinkedWorkersRun
<1>7. QED
  BY <1>2, <1>4, <1>5, <1>6 DEF Basics

(* Every step keeps the basics. *)
LEMMA NextKeepsBasics ==
  ASSUME Basics, [Next]_vars
  PROVE  Basics'
<1>1. CASE UNCHANGED vars
  <2>1. UNCHANGED <<coreVars, p2pVars, linkVars>>
    BY <1>1 DEF vars
  <2>2. P2PInv' /\ queue' = queue /\ running' = running
    BY <2>1, P2PStutter DEF Basics, p2pVars
  <2>3. QED
    BY <2>1, <2>2, TypesOfBasics, LocalStepKeepsBasics DEF linkVars
<1>2. CASE Distribute
  BY <1>2, DistributeKeepsBasics
<1>3. CASE SendTask
  BY <1>3, SendTaskKeepsBasics
<1>4. ASSUME NEW w \in Workers,
             \/ ReceiveResult(w) \/ ReceiveEnd(w) \/ LearnSize(w) \/ HandleTask(w)
             \/ Processing(w) \/ P2PStep(w) \/ LoseLink(w) \/ StopWorker(w)
      PROVE  Basics'
  BY <1>4, ReceiveResultKeepsBasics, ReceiveEndKeepsBasics, LearnSizeKeepsBasics,
     HandleTaskKeepsBasics, ProcessingKeepsBasics, P2PStepKeepsBasics, LoseLinkKeepsBasics,
     StopWorkerKeepsBasics
<1>5. QED
  BY <1>1, <1>2, <1>3, <1>4 DEF Next

-----------------------------------------------------------------------------
(* The losses: what every step does to the answer of one assignment.       *)

LEMMA AssigneeIsWorker ==
  ASSUME Basics, NEW t \in Tasks, taskState[t] = "assigned"
  PROVE  assignmentWorker[t] \in Workers /\ IsCurrent(t, assignmentWorker[t])
BY DEF Basics, CoreInv, AssignedToOne, IsCurrent

(* A step that assigns nothing and repairs nothing: the answer stays, or   *)
(* its end is explained.                                                   *)
LEMMA StillExplained ==
  ASSUME Basics, NEW t \in Tasks, LossIsExplained(t),
         taskState'[t] = "assigned" => taskState[t] = "assigned",
         assignmentWorker'[t] = assignmentWorker[t],
         \A w \in Workers : link'[w] => link[w],
         dropped \subseteq dropped', stranded \subseteq stranded',
         taskState[t] = "assigned" /\ taskState'[t] = "assigned" /\ FirmlyAnswerable(t) =>
           FirmlyAnswerable(t)' \/ ~ link'[assignmentWorker[t]] \/ t \in dropped' \/ t \in stranded'
  PROVE  LossIsExplained(t)'
BY AssigneeIsWorker DEF LossIsExplained

(* The workers do not move. *)
LEMMA FirmStays ==
  ASSUME P2PInv, WorkersStay, reported' = reported
  PROVE  \A w \in Workers : Firm(w)' = Firm(w) /\ running'[w] = running[w]
BY WorkersStayInv DEF Firm, WorkersStay

LEMMA DistributeExplains ==
  ASSUME Basics, Distribute, NEW t \in Tasks, LossIsExplained(t)
  PROVE  LossIsExplained(t)'
<1>1. /\ WorkersStay /\ sending = NotSending
      /\ UNCHANGED <<toWorker, toMaster, reported, link, failures, dropped, stranded>>
  BY DEF Distribute, p2pVars, WorkersStay
<1>2. \A w \in Workers : Firm(w)' = Firm(w) /\ running'[w] = running[w]
  BY <1>1, FirmStays DEF Basics
<1>3. sending.task # t
  BY <1>1 DEF NotSending, Tasks
<1>4. assignmentWorker'[t] = assignmentWorker[t] /\ FirmlyAnswerable(t) => FirmlyAnswerable(t)'
  BY <1>1, <1>2, <1>3 DEF FirmlyAnswerable, CopyOf
<1>5. CASE PutNextBack /\ UNCHANGED sending
  BY <1>1, <1>4, <1>5, StillExplained DEF PutNextBack
<1>6. ASSUME NEW x \in Tasks, NEW w \in Workers, AssignNext(x, w),
             sending' = [task |-> x, worker |-> w, retry |-> FromRetry]
      PROVE  LossIsExplained(t)'
  <2>1. CASE x = t
    BY <1>6, <2>1 DEF LossIsExplained, FirmlyAnswerable
  <2>2. CASE x # t
    <3>1. taskState'[t] = taskState[t] /\ assignmentWorker'[t] = assignmentWorker[t]
      BY <1>6, <2>2 DEF AssignNext, Basics, CoreInv, CoreTypeOK
    <3>2. QED
      BY <1>1, <1>4, <3>1, StillExplained
  <2>3. QED
    BY <2>1, <2>2
<1>7. QED
  BY <1>5, <1>6 DEF Distribute

(* The sections that end assignments do not make any. *)
LEMMA DisconnectEnds ==
  ASSUME NEW w, DisconnectWorker(w), NEW t \in Tasks
  PROVE  /\ taskState'[t] = "assigned" => taskState[t] = "assigned"
         /\ assignmentWorker'[t] = assignmentWorker[t]
BY DEF DisconnectWorker, coreVars

LEMMA SendTaskExplains ==
  ASSUME Basics, SendTask, NEW t \in Tasks, LossIsExplained(t)
  PROVE  LossIsExplained(t)'
<1> DEFINE w == sending.worker
           c == [copy |-> CopyOf(sending.task), retry |-> sending.retry]
<1>1. /\ sending # NotSending /\ WorkersStay
      /\ UNCHANGED <<toMaster, reported, link, failures, dropped, stranded>>
      /\ UNCHANGED coreVars \/ DisconnectWorker(w)
      /\ \/ link[w] /\ toWorker' = [toWorker EXCEPT ![w] = Append(@, c)]
         \/ ~ link[w] /\ toWorker' = toWorker
  BY DEF SendTask, p2pVars, WorkersStay, CopyOf
<1>2. \A v \in Workers : Firm(v)' = Firm(v) /\ running'[v] = running[v]
  BY <1>1, FirmStays DEF Basics
<1>3. w \in Workers /\ c \in Commands /\ assignmentWorker[sending.task] = w
  BY <1>1, SentCopy
<1>4. c.copy = CopyOf(sending.task)
  OBVIOUS
<1> HIDE DEF w, c
<1>5. /\ taskState'[t] = "assigned" => taskState[t] = "assigned"
      /\ assignmentWorker'[t] = assignmentWorker[t]
  BY <1>1, DisconnectEnds DEF coreVars
<1>6. /\ \A v \in Workers : \A i \in DOMAIN toWorker[v] :
           \E j \in DOMAIN toWorker'[v] : toWorker'[v][j] = toWorker[v][i]
      /\ \/ \E j \in DOMAIN toWorker'[w] : toWorker'[w][j] = c
         \/ ~ link[w]
  <2>1. toWorker \in [Workers -> Seq(Commands)] /\ toWorker[w] \in Seq(Commands)
    BY <1>3, TypesOfBasics
  <2>2. CASE ~ link[w] /\ toWorker' = toWorker
    BY <2>2
  <2>3. CASE toWorker' = [toWorker EXCEPT ![w] = Append(@, c)]
    <3> DEFINE s == Append(toWorker[w], c)
    <3>1. /\ \A i \in DOMAIN toWorker[w] : i \in DOMAIN s /\ s[i] = toWorker[w][i]
          /\ Len(toWorker[w]) + 1 \in DOMAIN s /\ s[Len(toWorker[w]) + 1] = c
      BY <1>3, <2>1, LastOnLink
    <3> HIDE DEF s
    <3>2. toWorker'[w] = s /\ \A v \in Workers \ {w} : toWorker'[v] = toWorker[v]
      BY <1>3, <2>1, <2>3 DEF s
    <3>3. ASSUME NEW v \in Workers, NEW i \in DOMAIN toWorker[v]
          PROVE  \E j \in DOMAIN toWorker'[v] : toWorker'[v][j] = toWorker[v][i]
      BY <3>1, <3>2
    <3>4. QED
      BY <1>3, <3>1, <3>2, <3>3
  <2>4. QED
    BY <1>1, <2>2, <2>3
<1>7. SUFFICES ASSUME taskState[t] = "assigned", taskState'[t] = "assigned", FirmlyAnswerable(t)
               PROVE  FirmlyAnswerable(t)' \/ ~ link[assignmentWorker[t]]
  BY <1>1, <1>5, StillExplained
<1>8. CopyOf(t)' = CopyOf(t)
  BY <1>5 DEF CopyOf
<1>9. CASE sending.task = t
  <2>1. ~ link[w] => ~ link[assignmentWorker[t]]
    BY <1>3, <1>9
  <2>2. CASE \E j \in DOMAIN toWorker'[w] : toWorker'[w][j] = c
    BY <1>3, <1>4, <1>8, <1>9, <2>2 DEF FirmlyAnswerable
  <2>3. QED
    BY <1>6, <2>1, <2>2
<1>10. CASE sending.task # t
  <2>1. \/ \E v \in Workers : \E i \in DOMAIN toWorker[v] : toWorker[v][i].copy = CopyOf(t)
        \/ \E v \in Workers : running[v] /\ CopyOf(t) \in Firm(v)
        \/ \E v \in Workers : \E i \in DOMAIN toMaster[v] : toMaster[v][i].copy = CopyOf(t)
    BY <1>7, <1>10 DEF FirmlyAnswerable
  <2>2. CASE \E v \in Workers : \E i \in DOMAIN toWorker[v] : toWorker[v][i].copy = CopyOf(t)
    BY <1>6, <1>8, <2>2 DEF FirmlyAnswerable
  <2>3. CASE \E v \in Workers : running[v] /\ CopyOf(t) \in Firm(v)
    BY <1>2, <1>8, <2>3 DEF FirmlyAnswerable
  <2>4. CASE \E v \in Workers : \E i \in DOMAIN toMaster[v] : toMaster[v][i].copy = CopyOf(t)
    BY <1>1, <1>8, <2>4 DEF FirmlyAnswerable
  <2>5. QED
    BY <2>1, <2>2, <2>3, <2>4
<1>11. QED
  BY <1>9, <1>10

(* A result of the present assignment ends it; others do not matter. *)
LEMMA ReceiveResultExplains ==
  ASSUME Basics, NEW w \in Workers, ReceiveResult(w), NEW t \in Tasks, LossIsExplained(t)
  PROVE  LossIsExplained(t)'
<1> DEFINE m == Head(toMaster[w])
<1>1. /\ toMaster[w] # <<>> /\ toMaster' = [toMaster EXCEPT ![w] = Tail(@)] /\ WorkersStay
      /\ UNCHANGED <<sending, toWorker, reported, link, failures, dropped, stranded>>
  BY DEF ReceiveResult, p2pVars, WorkersStay
<1>2. \A v \in Workers : Firm(v)' = Firm(v) /\ running'[v] = running[v]
  BY <1>1, FirmStays DEF Basics
<1>3. /\ m.copy.id \in Tasks /\ m.copy.by \in Workers
      /\ toMaster \in [Workers -> Seq(Results)] /\ toMaster[w] \in Seq(Results)
  BY <1>1, FirstResult, TypesOfBasics
<1>4. /\ m = toMaster[w][1]
      /\ \A i \in DOMAIN toMaster[w] : i # 1 => i - 1 \in DOMAIN Tail(toMaster[w])
      /\ \A i \in DOMAIN Tail(toMaster[w]) :
           i + 1 \in DOMAIN toMaster[w] /\ Tail(toMaster[w])[i] = toMaster[w][i + 1]
      /\ DOMAIN toMaster[w] \subseteq Nat
  <2>1. DOMAIN toMaster[w] = 1 .. Len(toMaster[w])
    BY <1>3, LenProperties
  <2>2. QED
    BY <1>1, <1>3, <2>1, FirstOnLink
<1>5. /\ ~ IsCurrent(m.copy.id, m.copy.by) => UNCHANGED coreVars
      /\ IsCurrent(m.copy.id, m.copy.by) =>
           taskState'[m.copy.id] # "assigned" /\ UNCHANGED assignmentWorker
             /\ \A x \in Tasks \ {m.copy.id} : taskState'[x] = taskState[x]
  BY <1>3 DEF ReceiveResult, RecordSuccess, RecordFailure, Basics, CoreInv, CoreTypeOK
<1> HIDE DEF m
<1>6. /\ taskState'[t] = "assigned" => taskState[t] = "assigned"
      /\ assignmentWorker'[t] = assignmentWorker[t]
  BY <1>3, <1>5 DEF coreVars
<1>7. SUFFICES ASSUME taskState[t] = "assigned", taskState'[t] = "assigned", FirmlyAnswerable(t)
               PROVE  FirmlyAnswerable(t)'
  BY <1>1, <1>6, StillExplained
<1>8. m.copy # CopyOf(t)
  <2>1. SUFFICES ASSUME m.copy = CopyOf(t) PROVE FALSE
    OBVIOUS
  <2>2. m.copy.id = t /\ m.copy.by = assignmentWorker[t]
    BY <2>1 DEF CopyOf
  <2>3. IsCurrent(m.copy.id, m.copy.by)
    BY <1>7, <2>2, AssigneeIsWorker
  <2>4. QED
    BY <1>5, <1>7, <2>2, <2>3
<1>9. CopyOf(t)' = CopyOf(t)
  BY <1>6 DEF CopyOf
<1>10. ASSUME NEW v \in Workers, NEW i \in DOMAIN toMaster[v], toMaster[v][i].copy = CopyOf(t)
       PROVE  \E j \in DOMAIN toMaster'[v] : toMaster'[v][j].copy = CopyOf(t)
  <2>1. CASE v # w
    BY <1>1, <1>3, <1>10, <2>1
  <2>2. CASE v = w
    <3>1. i # 1 /\ i \in Nat
      BY <1>4, <1>8, <1>10, <2>2
    <3>2. i - 1 \in DOMAIN Tail(toMaster[w]) /\ Tail(toMaster[w])[i - 1] = toMaster[w][i - 1 + 1]
      BY <1>4, <1>10, <2>2, <3>1
    <3>3. i - 1 + 1 = i
      BY <3>1
    <3>4. toMaster'[w] = Tail(toMaster[w])
      BY <1>1, <1>3
    <3>5. QED
      BY <1>10, <2>2, <3>2, <3>3, <3>4
  <2>3. QED
    BY <2>1, <2>2
<1>11. QED
  BY <1>1, <1>2, <1>7, <1>9, <1>10 DEF FirmlyAnswerable

(* The steps of the master that read no message. *)
LEMMA MastersOtherStepsExplain ==
  ASSUME Basics, NEW w \in Workers, ReceiveEnd(w) \/ LearnSize(w),
         NEW t \in Tasks, LossIsExplained(t)
  PROVE  LossIsExplained(t)'
<1>1. /\ WorkersStay /\ UNCHANGED linkVars
      /\ DisconnectWorker(w) \/ \E size \in 0 .. Capacity : UpdateStatus(w, size)
  BY DEF ReceiveEnd, LearnSize, p2pVars, WorkersStay
<1>2. \A v \in Workers : Firm(v)' = Firm(v) /\ running'[v] = running[v]
  BY <1>1, FirmStays DEF Basics, linkVars
<1>3. /\ taskState'[t] = "assigned" => taskState[t] = "assigned"
      /\ assignmentWorker'[t] = assignmentWorker[t]
  BY <1>1, DisconnectEnds DEF UpdateStatus
<1>4. FirmlyAnswerable(t) => FirmlyAnswerable(t)'
  BY <1>1, <1>2, <1>3 DEF FirmlyAnswerable, CopyOf, linkVars
<1>5. QED
  BY <1>1, <1>3, <1>4, StillExplained DEF linkVars

(* The message that was first has gone; the others have moved up. *)
LEMMA RestOnLink ==
  ASSUME NEW S, NEW s \in Seq(S), s # <<>>
  PROVE  \A i \in DOMAIN s : i = 1 \/ \E j \in DOMAIN Tail(s) : Tail(s)[j] = s[i]
<1>1. /\ \A i \in DOMAIN Tail(s) : i + 1 \in DOMAIN s /\ Tail(s)[i] = s[i + 1]
      /\ \A i \in DOMAIN s : i # 1 => i - 1 \in DOMAIN Tail(s)
  BY FirstOnLink
<1>2. DOMAIN s \subseteq Nat
  BY LenProperties
<1>3. ASSUME NEW i \in DOMAIN s, i # 1
      PROVE  \E j \in DOMAIN Tail(s) : Tail(s)[j] = s[i]
  <2>1. i - 1 \in DOMAIN Tail(s) /\ Tail(s)[i - 1] = s[i - 1 + 1] /\ i - 1 + 1 = i
    BY <1>1, <1>2, <1>3
  <2>2. QED
    BY <2>1
<1>4. QED
  BY <1>3

(* A TASK becomes a copy in the queue, an overflow on the link, or is      *)
(* dropped.                                                                *)
LEMMA HandleTaskExplains ==
  ASSUME Basics, NEW w \in Workers, HandleTask(w), NEW t \in Tasks, LossIsExplained(t)
  PROVE  LossIsExplained(t)'
<1> DEFINE m == Head(toWorker[w])
<1>1. /\ running[w] /\ toWorker[w] # <<>>
      /\ toWorker' = [toWorker EXCEPT ![w] = Tail(@)]
      /\ UNCHANGED <<coreVars, sending, reported, link, failures>>
  BY DEF HandleTask
<1>2. /\ toWorker \in [Workers -> Seq(Commands)] /\ toWorker[w] \in Seq(Commands) /\ P2PInv
  BY TypesOfBasics
<1>3. /\ m \in Commands /\ m = toWorker[w][1]
      /\ m.copy \in Copies /\ m.copy.id \in Tasks /\ m.retry \in BOOLEAN
  <2>1. LET s == toWorker[w]
        IN  /\ 1 \in DOMAIN s /\ Head(s) = s[1] /\ Head(s) \in Commands
            /\ Tail(s) \in Seq(Commands)
            /\ \A i \in DOMAIN Tail(s) : i + 1 \in DOMAIN s /\ Tail(s)[i] = s[i + 1]
            /\ \A i \in DOMAIN s : i # 1 => i - 1 \in DOMAIN Tail(s)
    BY ONLY <1>1, <1>2, FirstOnLink
  <2>2. m \in Commands /\ m = toWorker[w][1] /\ 1 \in DOMAIN toWorker[w]
    BY <2>1
  <2>3. QED
    BY <2>2 DEF Commands, Copies
<1>4. m.copy.by = w
  BY <1>1, <1>2, <1>3, FirstOnLink DEF Basics, CommandsAreAddressed
<1>5. taskState' = taskState /\ assignmentWorker' = assignmentWorker /\ CopyOf(t)' = CopyOf(t)
  BY <1>1 DEF coreVars, CopyOf
<1>6. \A v \in Workers : \A i \in DOMAIN toWorker[v] :
         \/ v = w /\ i = 1
         \/ \E j \in DOMAIN toWorker'[v] : toWorker'[v][j] = toWorker[v][i]
  <2>1. \A i \in DOMAIN toWorker[w] :
          i = 1 \/ \E j \in DOMAIN Tail(toWorker[w]) : Tail(toWorker[w])[j] = toWorker[w][i]
    BY ONLY <1>1, <1>2, RestOnLink
  <2>2. toWorker'[w] = Tail(toWorker[w]) /\ \A v \in Workers \ {w} : toWorker'[v] = toWorker[v]
    BY <1>1, <1>2
  <2>3. QED
    BY <2>1, <2>2
\* What a step must do with the first TASK and the rest.
<1> DEFINE Goal == FirmlyAnswerable(t)' \/ ~ link[assignmentWorker[t]]
                     \/ t \in dropped' \/ t \in stranded'
<1>7. ASSUME dropped \subseteq dropped', stranded \subseteq stranded',
             FirmlyAnswerable(t) => Goal
      PROVE  LossIsExplained(t)'
  BY <1>1, <1>5, <1>7, StillExplained
<1>8. ASSUME \A v \in Workers : \A i \in DOMAIN toMaster[v] :
               \E j \in DOMAIN toMaster'[v] : toMaster'[v][j] = toMaster[v][i],
             \A v \in Workers : running[v] /\ CopyOf(t) \in Firm(v) =>
               running'[v] /\ CopyOf(t) \in Firm(v)',
             m.copy = CopyOf(t) => Goal, FirmlyAnswerable(t)
      PROVE  Goal
  <2>1. CASE sending.task = t
    BY <1>1, <2>1 DEF FirmlyAnswerable
  <2>2. ASSUME NEW v \in Workers, NEW i \in DOMAIN toWorker[v], toWorker[v][i].copy = CopyOf(t)
        PROVE  Goal
    <3>1. CASE v = w /\ i = 1
      BY <1>3, <1>8, <2>2, <3>1
    <3>2. CASE \E j \in DOMAIN toWorker'[v] : toWorker'[v][j] = toWorker[v][i]
      BY <1>5, <2>2, <3>2 DEF FirmlyAnswerable
    <3>3. QED
      BY <1>6, <3>1, <3>2
  <2>3. ASSUME NEW v \in Workers, running[v], CopyOf(t) \in Firm(v)
        PROVE  Goal
    BY <1>5, <1>8, <2>3 DEF FirmlyAnswerable
  <2>4. ASSUME NEW v \in Workers, NEW i \in DOMAIN toMaster[v], toMaster[v][i].copy = CopyOf(t)
        PROVE  Goal
    BY <1>5, <1>8, <2>4 DEF FirmlyAnswerable
  <2>5. QED
    BY <1>8, <2>1, <2>2, <2>3, <2>4 DEF FirmlyAnswerable
<1> HIDE DEF m
<1>9. CASE /\ Verdict(queue[w], <<m.copy>>) = "accepted"
           /\ OnlyQueue(w, Enqueued(queue[w], <<m.copy>>, m.retry))
           /\ UNCHANGED <<toMaster, dropped, stranded>>
  <2>1. /\ P2PInv' /\ ServiceStays /\ OtherQueuesStay(w)
        /\ queue'[w].processing = queue[w].processing
        /\ Kept(w)' = Kept(w) \cup {m.copy} /\ m.copy.id \notin queue[w].active
    BY <1>2, <1>3, <1>9, AdmittedCopy
  <2>2. \A v \in Workers : Firm(v) \subseteq Firm(v)' /\ running'[v] = running[v]
    BY <1>1, <2>1 DEF Firm, ServiceStays, OtherQueuesStay
  <2>3. m.copy \in Firm(w)'
    <3>1. m.copy \notin queue[w].processing
      BY <1>2, <2>1, ActiveCopies
    <3>2. QED
      BY <2>1, <3>1 DEF Firm
  <2>4. m.copy = CopyOf(t) => Goal
    BY <1>1, <1>5, <2>2, <2>3 DEF FirmlyAnswerable
  <2>5. FirmlyAnswerable(t) => Goal
    BY <1>8, <1>9, <2>2, <2>4
  <2>6. QED
    BY <1>7, <1>9, <2>5
<1>10. ASSUME UNCHANGED p2pVars
       PROVE  \A v \in Workers : Firm(v)' = Firm(v) /\ running'[v] = running[v]
  <2>1. WorkersStay
    BY <1>10 DEF WorkersStay, p2pVars
  <2>2. QED
    BY <1>1, <1>2, <2>1, FirmStays
<1>11. CASE Report(w, m.copy, "overflow") /\ UNCHANGED <<p2pVars, dropped>>
  <2> DEFINE x == [copy |-> m.copy, kind |-> "overflow"]
  <2>1. /\ stranded \subseteq stranded'
        /\ \A v \in Workers \ {w} : toMaster'[v] = toMaster[v]
        /\ IF link[w] THEN toMaster'[w] = Append(toMaster[w], x) /\ stranded' = stranded
           ELSE toMaster' = toMaster /\ (m.copy.by = w \/ m.copy.id \in stranded')
        /\ x \in Results
    BY <1>3, <1>11, ReportedResult
  <2>2. x.copy = m.copy
    OBVIOUS
  <2> HIDE DEF x
  <2>3. /\ \A i \in DOMAIN toMaster[w] : \E j \in DOMAIN toMaster'[w] : toMaster'[w][j] = toMaster[w][i]
        /\ link[w] => \E j \in DOMAIN toMaster'[w] : toMaster'[w][j] = x
    <3>1. toMaster[w] \in Seq(Results)
      BY TypesOfBasics
    <3>2. LET s == toMaster[w]
          IN  /\ Append(s, x) \in Seq(Results)
              /\ \A i \in DOMAIN s : i \in DOMAIN Append(s, x) /\ Append(s, x)[i] = s[i]
              /\ Len(s) + 1 \in DOMAIN Append(s, x) /\ Append(s, x)[Len(s) + 1] = x
              /\ \A i \in DOMAIN Append(s, x) : i \in DOMAIN s \/ i = Len(s) + 1
              /\ Len(s) + 1 \notin DOMAIN s
      BY ONLY <2>1, <3>1, LastOnLink
    <3>3. QED
      BY <2>1, <3>2
  <2>4. m.copy = CopyOf(t) => Goal
    <3>1. CASE link[w]
      BY <1>5, <2>2, <2>3, <3>1 DEF FirmlyAnswerable
    <3>2. CASE ~ link[w]
      BY <1>4, <3>2 DEF CopyOf
    <3>3. QED
      BY <3>1, <3>2
  <2>5. \A v \in Workers : \A i \in DOMAIN toMaster[v] :
          \E j \in DOMAIN toMaster'[v] : toMaster'[v][j] = toMaster[v][i]
    BY <2>1, <2>3
  <2>6. FirmlyAnswerable(t) => Goal
    BY <1>8, <1>10, <1>11, <2>4, <2>5
  <2>7. QED
    BY <1>7, <1>11, <2>1, <2>6
<1>12. CASE /\ dropped' = dropped \cup {m.copy.id} /\ UNCHANGED <<p2pVars, toMaster, stranded>>
  <2>1. m.copy = CopyOf(t) => Goal
    BY <1>12 DEF CopyOf
  <2>2. FirmlyAnswerable(t) => Goal
    BY <1>8, <1>10, <1>12, <2>1
  <2>3. QED
    BY <1>7, <1>12, <2>2
<1>13. QED
  BY <1>9, <1>11, <1>12 DEF HandleTask, m

(* A step in which the master and the links to the workers stay as they    *)
(* are: what happens to the copies that count is all that matters.         *)
LEMMA WorkersStepExplains ==
  ASSUME Basics, NEW t \in Tasks, LossIsExplained(t),
         UNCHANGED <<coreVars, sending, toWorker, link, dropped>>, stranded \subseteq stranded',
         \A v \in Workers : \A i \in DOMAIN toMaster[v] :
           \E j \in DOMAIN toMaster'[v] : toMaster'[v][j] = toMaster[v][i],
         \A w \in Workers : running[w] /\ CopyOf(t) \in Firm(w) =>
           \/ \E v \in Workers : running'[v] /\ CopyOf(t) \in Firm(v)'
           \/ \E v \in Workers : \E j \in DOMAIN toMaster'[v] : toMaster'[v][j].copy = CopyOf(t)
           \/ ~ link[assignmentWorker[t]] \/ t \in stranded'
  PROVE  LossIsExplained(t)'
<1>1. /\ taskState' = taskState /\ assignmentWorker' = assignmentWorker
      /\ CopyOf(t)' = CopyOf(t) /\ sending' = sending /\ toWorker' = toWorker /\ link' = link
  BY DEF coreVars, CopyOf
<1>2. SUFFICES ASSUME FirmlyAnswerable(t)
               PROVE  FirmlyAnswerable(t)' \/ ~ link[assignmentWorker[t]] \/ t \in stranded'
  BY <1>1, StillExplained
<1>3. CASE \/ sending.task = t
           \/ \E v \in Workers : \E i \in DOMAIN toWorker[v] : toWorker[v][i].copy = CopyOf(t)
           \/ \E v \in Workers : \E i \in DOMAIN toMaster[v] : toMaster[v][i].copy = CopyOf(t)
  BY <1>1, <1>3 DEF FirmlyAnswerable
<1>4. CASE \E w \in Workers : running[w] /\ CopyOf(t) \in Firm(w)
  BY <1>1, <1>4 DEF FirmlyAnswerable
<1>5. QED
  BY <1>2, <1>3, <1>4 DEF FirmlyAnswerable

(* The processor: the copies that count stay, or one becomes a result. *)
ReportsCopy(w, c, kind) ==
  /\ c \in Firm(w) /\ Report(w, c, kind)
  /\ Firm(w)' = Firm(w) \ {c}
  /\ \A v \in Workers \ {w} : Firm(v)' = Firm(v)

LEMMA ProcessingMoves ==
  ASSUME Basics, NEW w \in Workers, Processing(w)
  PROVE  /\ UNCHANGED <<coreVars, sending, toWorker, link, dropped, running>>
         /\ \/ UNCHANGED <<toMaster, stranded>> /\ \A v \in Workers : Firm(v)' = Firm(v)
            \/ \E kind \in {"success", "fail"} : \E c \in Copies : ReportsCopy(w, c, kind)
<1>1. CASE DequeueForProcessing(w)
  <2>1. /\ UNCHANGED <<coreVars, linkVars>> /\ OnlyQueue(w, Dequeued(queue[w]))
        /\ queue[w].processing = {} /\ CanDequeue(queue[w])
    BY <1>1 DEF DequeueForProcessing
  <2>2. /\ ServiceStays /\ OtherQueuesStay(w)
        /\ queue'[w].processing # {} /\ Kept(w)' = Kept(w)
    BY <2>1, DequeuedCopy DEF Basics
  <2>3. ~ reported[w] /\ reported' = reported
    BY <2>1, TypesOfBasics DEF linkVars
  <2>4. \A v \in Workers : Firm(v)' = Firm(v)
    BY <2>2, <2>3 DEF Firm, OtherQueuesStay
  <2>5. QED
    BY <2>1, <2>2, <2>4 DEF linkVars, ServiceStays
<1>2. CASE MarkProcessingDone(w)
  <2>1. /\ UNCHANGED <<coreVars, sending, toWorker, toMaster, link, failures, dropped, stranded>>
        /\ OnlyQueue(w, MarkedDone(queue[w])) /\ reported' = [reported EXCEPT ![w] = FALSE]
        /\ reported[w]
    BY <1>2 DEF MarkProcessingDone
  <2>2. /\ ServiceStays /\ OtherQueuesStay(w)
        /\ queue'[w].processing = {} /\ Kept(w)' = Kept(w) \ queue[w].processing
    BY <2>1, FinishedCopy DEF Basics
  <2>3. ~ reported'[w] /\ \A v \in Workers \ {w} : reported'[v] = reported[v]
    BY <2>1, TypesOfBasics
  <2>4. \A v \in Workers : Firm(v)' = Firm(v)
    BY <2>1, <2>2, <2>3 DEF Firm, OtherQueuesStay
  <2>5. QED
    BY <2>1, <2>2, <2>4 DEF ServiceStays
<1>3. ASSUME NEW kind \in {"success", "fail"}, SendResult(w, kind)
      PROVE  /\ UNCHANGED <<coreVars, sending, toWorker, link, dropped, running>>
             /\ \E c \in Copies : ReportsCopy(w, c, kind)
  <2>1. /\ UNCHANGED <<coreVars, p2pVars, sending, toWorker, link, dropped>>
        /\ queue[w].processing # {} /\ reported' = [reported EXCEPT ![w] = TRUE]
        /\ ~ reported[w]
    BY <1>3 DEF SendResult
  <2>2. PICK c \in queue[w].processing : Report(w, c, kind)
    BY <1>3 DEF SendResult
  <2>3. /\ c \in Copies /\ queue[w].processing = {c} /\ c \in Firm(w)
    BY <2>1, <2>2, ActiveCopies DEF Basics, Firm, Kept, KeptBy
  <2>4. /\ reported'[w] /\ \A v \in Workers \ {w} : reported'[v] = reported[v]
        /\ queue' = queue /\ monitor' = monitor /\ running' = running
    BY <2>1, TypesOfBasics DEF p2pVars
  <2>5. \A v \in Workers : Kept(v)' = Kept(v)
    BY <2>4 DEF Kept
  <2>6. /\ Firm(w)' = Firm(w) \ {c} /\ \A v \in Workers \ {w} : Firm(v)' = Firm(v)
    BY <2>1, <2>3, <2>4, <2>5 DEF Firm
  <2>7. QED
    BY <2>1, <2>2, <2>3, <2>4, <2>6 DEF ReportsCopy
<1>4. QED
  BY <1>1, <1>2, <1>3 DEF Processing

(* A copy that no longer counts has been answered, or was stranded with    *)
(* its answer.                                                             *)
LEMMA ProcessingExplains ==
  ASSUME Basics, NEW w \in Workers, Processing(w), NEW t \in Tasks, LossIsExplained(t)
  PROVE  LossIsExplained(t)'
<1>1. /\ UNCHANGED <<coreVars, sending, toWorker, link, dropped>> /\ running' = running
      /\ \/ UNCHANGED <<toMaster, stranded>> /\ \A v \in Workers : Firm(v)' = Firm(v)
         \/ \E kind \in {"success", "fail"} : \E c \in Copies : ReportsCopy(w, c, kind)
  BY ProcessingMoves
<1>2. CASE UNCHANGED <<toMaster, stranded>> /\ \A v \in Workers : Firm(v)' = Firm(v)
  BY <1>1, <1>2, WorkersStepExplains
<1>3. ASSUME NEW kind \in {"success", "fail"}, NEW c \in Copies, ReportsCopy(w, c, kind)
      PROVE  LossIsExplained(t)'
  <2> DEFINE x == [copy |-> c, kind |-> kind]
  <2>1. /\ Firm(w)' = Firm(w) \ {c} /\ \A v \in Workers \ {w} : Firm(v)' = Firm(v)
        /\ Report(w, c, kind)
    BY <1>3 DEF ReportsCopy
  <2>2. /\ stranded \subseteq stranded'
        /\ \A v \in Workers \ {w} : toMaster'[v] = toMaster[v]
        /\ IF link[w] THEN toMaster'[w] = Append(toMaster[w], x) /\ stranded' = stranded
           ELSE toMaster' = toMaster /\ (c.by = w \/ c.id \in stranded')
        /\ x \in Results
    BY <2>1, ReportedResult
  <2>3. x.copy = c
    OBVIOUS
  <2> HIDE DEF x
  <2>4. /\ \A i \in DOMAIN toMaster[w] : \E j \in DOMAIN toMaster'[w] : toMaster'[w][j] = toMaster[w][i]
        /\ link[w] => \E j \in DOMAIN toMaster'[w] : toMaster'[w][j] = x
    <3>1. toMaster[w] \in Seq(Results)
      BY TypesOfBasics
    <3>2. LET s == toMaster[w]
          IN  /\ Append(s, x) \in Seq(Results)
              /\ \A i \in DOMAIN s : i \in DOMAIN Append(s, x) /\ Append(s, x)[i] = s[i]
              /\ Len(s) + 1 \in DOMAIN Append(s, x) /\ Append(s, x)[Len(s) + 1] = x
              /\ \A i \in DOMAIN Append(s, x) : i \in DOMAIN s \/ i = Len(s) + 1
              /\ Len(s) + 1 \notin DOMAIN s
      BY ONLY <2>2, <3>1, LastOnLink
    <3>3. QED
      BY <2>2, <3>2
  <2>5. /\ \A v \in Workers : \A i \in DOMAIN toMaster[v] :
             \E j \in DOMAIN toMaster'[v] : toMaster'[v][j] = toMaster[v][i]
        /\ link[w] => \E j \in DOMAIN toMaster'[w] : toMaster'[w][j].copy = c
    BY <2>2, <2>3, <2>4
  <2>6. ASSUME NEW u \in Workers, running[u], CopyOf(t) \in Firm(u)
        PROVE  \/ \E v \in Workers : running'[v] /\ CopyOf(t) \in Firm(v)'
               \/ \E v \in Workers : \E j \in DOMAIN toMaster'[v] :
                    toMaster'[v][j].copy = CopyOf(t)
               \/ ~ link[assignmentWorker[t]] \/ t \in stranded'
    <3>1. CASE u # w \/ CopyOf(t) # c
      <4>1. PICK d : d = CopyOf(t)
        OBVIOUS
      <4>2. d \in Firm(u)' /\ running'[u]
        BY <1>1, <2>1, <2>6, <3>1, <4>1
      <4>3. QED
        BY <4>1, <4>2
    <3>2. CASE u = w /\ CopyOf(t) = c
      <4>1. CASE link[w]
        BY <2>5, <3>2, <4>1
      <4>2. CASE ~ link[w]
        BY <2>2, <3>2, <4>2 DEF CopyOf
      <4>3. QED
        BY <4>1, <4>2
    <3>3. QED
      BY <3>1, <3>2
  <2>7. QED
    BY <1>1, <2>2, <2>5, <2>6, WorkersStepExplains
<1>4. QED
  BY <1>1, <1>2, <1>3

(* The service moves the copies that count, and loses none of them. *)
LEMMA P2PStepKeepsFirm ==
  ASSUME Basics, NEW w \in Workers, P2PStep(w)
  PROVE  /\ running' = running
         /\ \/ \A v \in Workers :
                 Firm(v) \subseteq Firm(v)' /\ (AcceptedIsConfirmed => Firm(v)' = Firm(v))
            \/ /\ Serve(w) /\ MovesCopies(w, backlog[w][1]) /\ running[w]
               /\ Firm(w)' = Firm(w) \cup ToSet(backlog[w][1].tasks)
               /\ \A v \in Workers \ {w} :
                    Firm(v)' = Firm(v) \ (IF IsToldBy(v, backlog[w][1])
                                            THEN ToSet(backlog[w][1].tasks) ELSE {})
<1>1. UNCHANGED reported
  BY DEF P2PStep, linkVars
<1>2. CASE Monitoring(w)
  <2>1. /\ OthersStay(w) /\ Kept(w) \subseteq Kept(w)'
        /\ AcceptedIsConfirmed => Kept(w)' = Kept(w)
    BY <1>2, MonitoringKeepsCopies DEF Basics, AcceptedIsConfirmed
  <2>2. running' = running
    BY <1>2 DEF Monitoring, NoticeOverload, AskPeer, ChoosePeer, ReserveNext, SendTransfer,
       ReadAnswer, GiveUp, SettleNext
  <2>3. \A v \in Workers :
          Firm(v) \subseteq Firm(v)' /\ (AcceptedIsConfirmed => Firm(v)' = Firm(v))
    BY <1>1, <2>1 DEF OthersStay, Firm
  <2>4. QED
    BY <2>2, <2>3
<1>3. CASE Serve(w)
  <2>1. PICK r : r = backlog[w][1]
    OBVIOUS
  <2>2. /\ \A v \in Workers : queue'[v].processing = queue[v].processing
        /\ \/ \A v \in Workers : Kept(v)' = Kept(v)
           \/ MovesCopies(w, r)
    BY <1>3, <2>1, ServeMovesCopies DEF Basics
  <2>3. running' = running /\ running[w]
    BY <1>3 DEF Serve
  <2>4. CASE \A v \in Workers : Kept(v)' = Kept(v)
    BY <1>1, <2>2, <2>3, <2>4 DEF Firm
  <2>5. CASE MovesCopies(w, r)
    <3> DEFINE B == ToSet(r.tasks)
    <3>1. /\ \A c \in B : c.id \notin queue[w].active
          /\ Kept(w)' = Kept(w) \cup B
          /\ \A v \in Workers \ {w} :
               Kept(v)' = Kept(v) \ (IF IsToldBy(v, r) THEN B ELSE {})
      BY <2>5 DEF MovesCopies
    <3> HIDE DEF B
    <3>2. \A c \in B : c \notin queue[w].processing
      BY <3>1, ActiveCopies DEF Basics
    <3>3. Firm(w)' = Firm(w) \cup B
      BY <1>1, <2>2, <3>1, <3>2 DEF Firm
    <3>4. \A v \in Workers \ {w} : Firm(v)' = Firm(v) \ (IF IsToldBy(v, r) THEN B ELSE {})
      BY <1>1, <2>2, <3>1 DEF Firm
    <3>5. QED
      BY <1>3, <2>1, <2>3, <2>5, <3>3, <3>4 DEF B
  <2>6. QED
    BY <2>2, <2>4, <2>5
<1>4. QED
  BY <1>2, <1>3 DEF P2PStep

LEMMA P2PStepExplains ==
  ASSUME Basics, NEW w \in Workers, P2PStep(w), NEW t \in Tasks, LossIsExplained(t)
  PROVE  LossIsExplained(t)'
<1>1. UNCHANGED <<coreVars, linkVars>>
  BY DEF P2PStep
<1>2. PICK c : c = CopyOf(t)
  OBVIOUS
<1>3. PICK B : B = ToSet(backlog[w][1].tasks)
  OBVIOUS
<1>4. /\ running' = running
      /\ \/ \A v \in Workers : Firm(v) \subseteq Firm(v)'
         \/ /\ running[w] /\ Firm(w)' = Firm(w) \cup B
            /\ \A v \in Workers \ {w} : Firm(v) \ B \subseteq Firm(v)'
  BY <1>3, P2PStepKeepsFirm
<1>5. ASSUME NEW u \in Workers, running[u], c \in Firm(u)
      PROVE  \E v \in Workers : running'[v] /\ c \in Firm(v)'
  <2>1. CASE \A v \in Workers : Firm(v) \subseteq Firm(v)'
    BY <1>4, <1>5, <2>1
  <2>2. CASE /\ running[w] /\ Firm(w)' = Firm(w) \cup B
             /\ \A v \in Workers \ {w} : Firm(v) \ B \subseteq Firm(v)'
    <3>1. c \in Firm(w)' \/ (u # w /\ c \in Firm(u)')
      BY <1>5, <2>2
    <3>2. QED
      BY <1>4, <1>5, <2>2, <3>1
  <2>3. QED
    BY <1>4, <2>1, <2>2
<1>6. QED
  BY <1>1, <1>2, <1>5, WorkersStepExplains DEF linkVars

(* What a worker that ends still had, others assigned it to, is stranded;  *)
(* the rest was its own, and its link is lost.                             *)
LEMMA StopWorkerExplains ==
  ASSUME Basics, NEW w \in Workers, StopWorker(w), NEW t \in Tasks, LossIsExplained(t)
  PROVE  LossIsExplained(t)'
<1>1. /\ ~ link[w] /\ running' = [running EXCEPT ![w] = FALSE]
      /\ stranded' = stranded \cup {c.id : c \in {d \in Unfinished(w) : d.by # w}}
      /\ UNCHANGED <<coreVars, queue, monitor, sending, toWorker, toMaster, reported, link,
                     dropped>>
  BY DEF StopWorker
<1>2. \A v \in Workers : Firm(v)' = Firm(v)
  BY <1>1 DEF Firm, Kept
<1>3. Firm(w) \subseteq Unfinished(w)
  BY UnfinishedCopies DEF Basics, Firm, Kept, KeptBy
<1>4. PICK c : c = CopyOf(t)
  OBVIOUS
<1>5. ASSUME NEW u \in Workers, running[u], c \in Firm(u)
      PROVE  \/ \E v \in Workers : running'[v] /\ c \in Firm(v)'
             \/ ~ link[assignmentWorker[t]] \/ t \in stranded'
  <2>1. CASE u = w
    <3>1. c \in Unfinished(w) /\ c.id = t /\ c.by = assignmentWorker[t]
      BY <1>3, <1>4, <1>5, <2>1 DEF CopyOf
    <3>2. CASE c.by = w
      BY <1>1, <3>1, <3>2
    <3>3. CASE c.by # w
      BY <1>1, <3>1, <3>3
    <3>4. QED
      BY <3>2, <3>3
  <2>2. CASE u # w
    <3>1. running'[u] /\ c \in Firm(u)'
      BY <1>1, <1>2, <1>5, <2>2 DEF Basics, P2PInv, BoundsAreKept
    <3>2. QED
      BY <3>1
  <2>3. QED
    BY <2>1, <2>2
<1>6. QED
  BY <1>1, <1>4, <1>5, WorkersStepExplains

(* What a lost link carried was for its worker, was of its worker, or is   *)
(* stranded.                                                               *)
LEMMA LoseLinkExplains ==
  ASSUME Basics, NEW w \in Workers, LoseLink(w), NEW t \in Tasks, LossIsExplained(t)
  PROVE  LossIsExplained(t)'
<1>1. /\ link' = [link EXCEPT ![w] = FALSE] /\ toWorker' = [toWorker EXCEPT ![w] = <<>>]
      /\ UNCHANGED <<coreVars, p2pVars, sending, reported, dropped>>
  BY DEF LoseLink
<1>2. PICK n \in 0 .. Len(toMaster[w]) :
        LET lost == {toMaster[w][i].copy : i \in n + 1 .. Len(toMaster[w])}
        IN  /\ toMaster' = [toMaster EXCEPT ![w] = SubSeq(@, 1, n)]
            /\ stranded' = stranded \cup {c.id : c \in {d \in lost : d.by # w}}
  BY DEF LoseLink
<1>3. /\ toWorker \in [Workers -> Seq(Commands)] /\ toMaster \in [Workers -> Seq(Results)]
      /\ link \in [Workers -> BOOLEAN]
  BY TypesOfBasics
<1>4. /\ ~ link'[w] /\ \A v \in Workers : link'[v] => link[v]
      /\ \A v \in Workers \ {w} : toWorker'[v] = toWorker[v] /\ toMaster'[v] = toMaster[v]
      /\ toMaster'[w] = SubSeq(toMaster[w], 1, n)
      /\ stranded \subseteq stranded'
  BY <1>1, <1>2, <1>3
<1>5. \A i \in DOMAIN toMaster[w] :
        \/ i \in DOMAIN toMaster'[w] /\ toMaster'[w][i] = toMaster[w][i]
        \/ i \in n + 1 .. Len(toMaster[w])
  <2> DEFINE s == toMaster[w]
  <2>1. s \in Seq(Results) /\ n \in 0 .. Len(s)
    BY <1>3
  <2> HIDE DEF s
  <2>2. /\ SubSeq(s, 1, n) \in Seq(Results)
        /\ \A i \in DOMAIN SubSeq(s, 1, n) : i \in DOMAIN s /\ SubSeq(s, 1, n)[i] = s[i]
        /\ \A i \in DOMAIN s : i \in DOMAIN SubSeq(s, 1, n) \/ i \in n + 1 .. Len(s)
        /\ \A i \in n + 1 .. Len(s) : i \in DOMAIN s /\ s[i] \in Results
    BY ONLY <2>1, CutLink
  <2>3. QED
    BY <1>4, <2>2 DEF s
<1>6. \A v \in Workers : Firm(v)' = Firm(v) /\ running'[v] = running[v]
  BY <1>1 DEF p2pVars, Firm, Kept
<1>7. taskState' = taskState /\ assignmentWorker' = assignmentWorker /\ CopyOf(t)' = CopyOf(t)
      /\ sending' = sending
  BY <1>1 DEF coreVars, CopyOf
<1> DEFINE Goal == FirmlyAnswerable(t)' \/ ~ link'[assignmentWorker[t]] \/ t \in stranded'
<1>8. ASSUME sending.task = t PROVE Goal
  BY <1>7, <1>8 DEF FirmlyAnswerable
<1>9. ASSUME NEW v \in Workers, NEW i \in DOMAIN toWorker[v], toWorker[v][i].copy = CopyOf(t)
      PROVE  Goal
  <2>1. CASE v = w
    <3>1. assignmentWorker[t] = w
      BY <1>9, <2>1 DEF Basics, CommandsAreAddressed, CopyOf
    <3>2. QED
      BY <1>4, <3>1
  <2>2. CASE v # w
    BY <1>4, <1>7, <1>9, <2>2 DEF FirmlyAnswerable
  <2>3. QED
    BY <2>1, <2>2
<1>10. ASSUME NEW v \in Workers, running[v], CopyOf(t) \in Firm(v)
       PROVE  Goal
  BY <1>6, <1>7, <1>10 DEF FirmlyAnswerable
<1>11. ASSUME NEW v \in Workers, NEW i \in DOMAIN toMaster[v], toMaster[v][i].copy = CopyOf(t)
       PROVE  Goal
  <2>1. CASE v # w \/ (i \in DOMAIN toMaster'[w] /\ toMaster'[w][i] = toMaster[w][i])
    BY <1>4, <1>7, <1>11, <2>1 DEF FirmlyAnswerable
  <2>2. CASE v = w /\ i \in n + 1 .. Len(toMaster[w])
    <3>1. toMaster[w][i].copy.id = t /\ toMaster[w][i].copy.by = assignmentWorker[t]
      BY <1>11, <2>2 DEF CopyOf
    <3>2. CASE assignmentWorker[t] = w
      BY <1>4, <3>2
    <3>3. CASE assignmentWorker[t] # w
      BY <1>2, <2>2, <3>1, <3>3
    <3>4. QED
      BY <3>2, <3>3
  <2>3. QED
    BY <1>5, <1>11, <2>1, <2>2
<1>12. FirmlyAnswerable(t) => Goal
  BY <1>8, <1>9, <1>10, <1>11 DEF FirmlyAnswerable
<1>13. QED
  BY <1>1, <1>4, <1>7, <1>12, StillExplained

LEMMA NextKeepsLosses ==
  ASSUME Basics, LossesAreExplained, [Next]_vars
  PROVE  LossesAreExplained'
<1>1. SUFFICES ASSUME NEW t \in Tasks, LossIsExplained(t) PROVE LossIsExplained(t)'
  BY DEF LossesAreExplained
<1>2. CASE UNCHANGED vars
  BY <1>1, <1>2 DEF vars, coreVars, p2pVars, linkVars, LossIsExplained, FirmlyAnswerable, CopyOf,
     Firm, Kept
<1>3. CASE Distribute
  BY <1>1, <1>3, DistributeExplains
<1>4. CASE SendTask
  BY <1>1, <1>4, SendTaskExplains
<1>5. ASSUME NEW w \in Workers,
             \/ ReceiveResult(w) \/ ReceiveEnd(w) \/ LearnSize(w) \/ HandleTask(w)
             \/ Processing(w) \/ P2PStep(w) \/ LoseLink(w) \/ StopWorker(w)
      PROVE  LossIsExplained(t)'
  BY <1>1, <1>5, ReceiveResultExplains, MastersOtherStepsExplain, HandleTaskExplains,
     ProcessingExplains, P2PStepExplains, LoseLinkExplains, StopWorkerExplains
<1>6. QED
  BY <1>2, <1>3, <1>4, <1>5 DEF Next

-----------------------------------------------------------------------------
(* Without timeouts and lost links: what the P2P service keeps.            *)

\* One monitor changes; the servers do not.
MonitorChange(w, m) ==
  /\ monitor' = [monitor EXCEPT ![w] = m]
  /\ UNCHANGED <<backlog, handled, running>>

LEMMA MonitorChangeStaysQuiet ==
  ASSUME P2PInv, RequestsAreAwaited, AcceptedIsConfirmed, NEW w \in Workers, NEW m,
         MonitorChange(w, m), m.step = "releasing" => m.answer # "accepted",
         \A p \in Workers : \A i \in DOMAIN backlog[p] :
           Awaits(w, backlog[p][i]) => backlog[p][i].request \in DOMAIN handled[p]
  PROVE  RequestsAreAwaited' /\ AcceptedIsConfirmed'
<1>1. /\ monitor'[w] = m /\ \A v \in Workers \ {w} : monitor'[v] = monitor[v]
      /\ backlog' = backlog /\ handled' = handled
  BY DEF MonitorChange, P2PInv, MonitorsAreSafe
<1>2. AcceptedIsConfirmed'
  BY <1>1 DEF AcceptedIsConfirmed
<1>3. ASSUME NEW p \in Workers, NEW i \in DOMAIN backlog[p]
      PROVE  \/ backlog[p][i].request \in DOMAIN handled[p]
             \/ Awaits(backlog[p][i].from, backlog[p][i])'
  <2>1. backlog[p][i].from \in Workers
    BY OfOneRequest
  <2>2. CASE backlog[p][i].from = w
    BY <1>1, <2>2 DEF RequestsAreAwaited
  <2>3. CASE backlog[p][i].from # w
    BY <1>1, <2>1, <2>3 DEF RequestsAreAwaited, Awaits
  <2>4. QED
    BY <2>2, <2>3
<1>4. RequestsAreAwaited'
  BY <1>1, <1>3 DEF RequestsAreAwaited
<1>5. QED
  BY <1>2, <1>4

(* A monitor gives up no request, and puts back nothing that was accepted. *)
LEMMA MonitoringStaysQuiet ==
  ASSUME P2PInv, RequestsAreAwaited, AcceptedIsConfirmed, \A v \in Workers : running[v],
         timeouts' = 0, NEW w \in Workers, Monitoring(w)
  PROVE  RequestsAreAwaited' /\ AcceptedIsConfirmed'
<1>1. /\ monitor[w] \in MonitorStates
      /\ monitor[w].step \in {"idle", "asking", "reserving"} => monitor[w].answer = "none"
      /\ monitor[w].step \notin {"idle", "asking"} => monitor[w].peer \in Workers
      /\ timeouts \in Nat
  BY OfOneWorker DEF MonitorIsSafe
<1>2. Idle.step = "idle"
  BY DEF Idle
<1>3. ASSUME monitor[w].step # "waiting", NEW m, MonitorChange(w, m),
             m.step = "releasing" => m.answer # "accepted"
      PROVE  RequestsAreAwaited' /\ AcceptedIsConfirmed'
  <2>1. \A p \in Workers : \A i \in DOMAIN backlog[p] : ~ Awaits(w, backlog[p][i])
    BY <1>3 DEF Awaits
  <2>2. QED
    BY <1>3, <2>1, MonitorChangeStaysQuiet
<1>4. CASE NoticeOverload(w)
  <2>1. [Idle EXCEPT !.step = "asking"].step = "asking"
    BY DEF Idle
  <2>2. QED
    BY <1>3, <1>4, <2>1 DEF NoticeOverload, At, Continue, MonitorChange
<1>5. CASE AskPeer(w)
  <2>1. PICK room : Continue(w, [monitor[w] EXCEPT !.room = room])
    BY <1>5 DEF AskPeer
  <2>2. [monitor[w] EXCEPT !.room = room].step = monitor[w].step
    BY <1>1 DEF MonitorStates
  <2>3. QED
    BY <1>3, <1>5, <2>1, <2>2 DEF AskPeer, At, Continue, MonitorChange
<1>6. CASE \E n \in 1 .. MaxTransfer : ChoosePeer(w, n)
  <2>1. PICK n \in 1 .. MaxTransfer : ChoosePeer(w, n)
    BY <1>6
  <2>2. PICK peer, todo :
          Continue(w, Idle)
            \/ Continue(w, [Idle EXCEPT !.step = "reserving", !.peer = peer, !.todo = todo])
    BY <2>1 DEF ChoosePeer
  <2>3. [Idle EXCEPT !.step = "reserving", !.peer = peer, !.todo = todo].step = "reserving"
    BY DEF Idle
  <2>4. QED
    BY <1>2, <1>3, <2>1, <2>2, <2>3 DEF ChoosePeer, At, Continue, MonitorChange
<1>7. CASE ReserveNext(w)
  <2>1. PICK todo, held : Continue(w, [monitor[w] EXCEPT !.todo = todo, !.held = held])
    BY <1>7 DEF ReserveNext
  <2>2. [monitor[w] EXCEPT !.todo = todo, !.held = held].step = monitor[w].step
    BY <1>1 DEF MonitorStates
  <2>3. QED
    BY <1>3, <1>7, <2>1, <2>2 DEF ReserveNext, At, Continue, MonitorChange
<1>8. CASE SettleNext(w)
  <2>1. PICK held : Continue(w, Idle) \/ Continue(w, [monitor[w] EXCEPT !.held = held])
    BY <1>8 DEF SettleNext
  <2>2. /\ [monitor[w] EXCEPT !.held = held].step = monitor[w].step
        /\ [monitor[w] EXCEPT !.held = held].answer = monitor[w].answer
    BY <1>1 DEF MonitorStates
  <2>3. ~ (monitor[w].step = "releasing" /\ monitor[w].answer = "accepted")
    BY DEF AcceptedIsConfirmed
  <2>4. QED
    BY <1>2, <1>3, <1>8, <2>1, <2>2, <2>3 DEF SettleNext, At, Continue, MonitorChange
<1>9. CASE GiveUp(w)
  <2>1. running[monitor[w].peer]
    BY <1>1, <1>9 DEF GiveUp, At
  <2>2. timeouts' = timeouts + 1
    BY <1>9, <2>1 DEF GiveUp
  <2>3. QED
    BY <1>1, <2>2
<1>10. CASE ReadAnswer(w)
  <2> DEFINE m == [monitor[w] EXCEPT
                     !.step = IF monitor[w].answer = "accepted" THEN "confirming" ELSE "releasing"]
  <2>1. /\ MonitorChange(w, m) /\ monitor[w].step = "waiting" /\ monitor[w].answer # "none"
    BY <1>10 DEF ReadAnswer, At, Continue, MonitorChange
  <2>2. m.answer = monitor[w].answer /\ (m.step = "releasing" => monitor[w].answer # "accepted")
    BY <1>1 DEF MonitorStates
  <2> HIDE DEF m
  <2>3. monitor[w].request \in DOMAIN handled[monitor[w].peer]
    BY <2>1 DEF P2PInv, AnswersMatch
  <2>4. \A p \in Workers : \A i \in DOMAIN backlog[p] :
          Awaits(w, backlog[p][i]) => backlog[p][i].request \in DOMAIN handled[p]
    BY <2>3 DEF P2PInv, AwaitedRequestsMatch, Awaits
  <2>5. QED
    BY <2>1, <2>2, <2>4, MonitorChangeStaysQuiet
<1>11. CASE SendTransfer(w)
  <2>1. CASE monitor[w].held = <<>> /\ Continue(w, Idle) /\ UNCHANGED <<backlog, transfers>>
    BY <1>2, <1>3, <1>11, <2>1 DEF SendTransfer, At, Continue, MonitorChange
  <2>2. CASE ~ running[monitor[w].peer]
    BY <1>1, <1>11, <2>2 DEF SendTransfer, At
  <2>3. CASE /\ transfers' = transfers + 1
             /\ backlog' = [backlog EXCEPT ![monitor[w].peer] =
                  Append(@, [request |-> transfers + 1, from |-> w, tasks |-> monitor[w].held])]
             /\ Continue(w, [monitor[w] EXCEPT !.step = "waiting", !.request = transfers + 1])
    <3> DEFINE n == [request |-> transfers + 1, from |-> w, tasks |-> monitor[w].held]
               m == [monitor[w] EXCEPT !.step = "waiting", !.request = transfers + 1]
    <3>1. /\ monitor[w].step = "reserving" /\ monitor[w].peer \in Workers
          /\ handled' = handled
      BY <1>1, <1>11 DEF SendTransfer, At
    <3>2. PICK p \in Workers : p = monitor[w].peer
      BY <3>1
    <3>3. /\ backlog \in [Workers -> Seq(Requests)] /\ backlog[p] \in Seq(Requests)
          /\ transfers \in Nat
      BY OfOneWorker
    <3>4. n \in Requests
      BY <1>1, <3>3 DEF Requests, MonitorStates
    <3>5. m.step = "waiting" /\ m.request = transfers + 1
      BY <1>1 DEF MonitorStates
    <3>6. n.from = w /\ n.request = transfers + 1
      OBVIOUS
    <3>7. backlog' = [backlog EXCEPT ![p] = Append(@, n)] /\ monitor' = [monitor EXCEPT ![w] = m]
      BY <2>3, <3>2 DEF Continue
    <3> HIDE DEF n, m
    <3>8. LET s == backlog[p]
          IN  /\ Append(s, n) \in Seq(Requests)
              /\ \A i \in DOMAIN s : i \in DOMAIN Append(s, n) /\ Append(s, n)[i] = s[i]
              /\ Len(s) + 1 \in DOMAIN Append(s, n) /\ Append(s, n)[Len(s) + 1] = n
              /\ \A i \in DOMAIN Append(s, n) : i \in DOMAIN s \/ i = Len(s) + 1
              /\ Len(s) + 1 \notin DOMAIN s
      BY ONLY <3>3, <3>4, LastOnLink
    <3>9. /\ monitor'[w] = m /\ \A v \in Workers \ {w} : monitor'[v] = monitor[v]
          /\ backlog'[p] = Append(backlog[p], n)
          /\ \A q \in Workers \ {p} : backlog'[q] = backlog[q]
      BY <3>3, <3>7 DEF P2PInv, MonitorsAreSafe
    <3>10. ASSUME NEW q \in Workers, NEW i \in DOMAIN backlog'[q]
           PROVE  (i \in DOMAIN backlog[q] /\ backlog'[q][i] = backlog[q][i]) \/ backlog'[q][i] = n
      BY <3>8, <3>9
    <3>11. ASSUME NEW q \in Workers, NEW i \in DOMAIN backlog[q]
           PROVE  \/ backlog[q][i].request \in DOMAIN handled[q]
                  \/ /\ monitor'[backlog[q][i].from].step = "waiting"
                     /\ monitor'[backlog[q][i].from].request = backlog[q][i].request
      <4>1. backlog[q][i].from \in Workers
        BY OfOneRequest
      <4>2. PICK r : r = backlog[q][i]
        OBVIOUS
      <4>3. r.request \in DOMAIN handled[q] \/ Awaits(r.from, r)
        BY <4>2 DEF RequestsAreAwaited
      <4>4. Awaits(r.from, r) => r.from # w
        BY <3>1 DEF Awaits
      <4>5. Awaits(r.from, r) => Awaits(r.from, r)'
        BY <3>9, <4>1, <4>2, <4>4 DEF Awaits
      <4>6. Awaits(r.from, r) =>
              /\ monitor'[backlog[q][i].from].step = "waiting"
              /\ monitor'[backlog[q][i].from].request = backlog[q][i].request
        BY <4>2, <4>5 DEF Awaits
      <4>7. QED
        BY <4>2, <4>3, <4>6
    <3>12. RequestsAreAwaited'
      <4>1. ASSUME NEW q \in Workers, NEW i \in DOMAIN backlog'[q]
            PROVE  \/ backlog'[q][i].request \in DOMAIN handled'[q]
                   \/ /\ monitor'[backlog'[q][i].from].step = "waiting"
                      /\ monitor'[backlog'[q][i].from].request = backlog'[q][i].request
        BY <3>1, <3>5, <3>6, <3>9, <3>10, <3>11 DEF Awaits
      <4>2. QED
        BY <4>1 DEF RequestsAreAwaited, Awaits
    <3>13. AcceptedIsConfirmed'
      BY <3>5, <3>9 DEF AcceptedIsConfirmed
    <3>14. QED
      BY <3>12, <3>13
  <2>4. QED
    BY <1>11, <2>1, <2>2, <2>3 DEF SendTransfer
<1>12. QED
  BY <1>4, <1>5, <1>6, <1>7, <1>8, <1>9, <1>10, <1>11 DEF Monitoring

(* Every request still to be handled is one that was waiting before. *)
LEMMA ServeStaysQuiet ==
  ASSUME P2PInv, RequestsAreAwaited, AcceptedIsConfirmed, NEW p \in Workers, Serve(p)
  PROVE  RequestsAreAwaited' /\ AcceptedIsConfirmed'
<1>1. PICK r \in Requests : r = backlog[p][1]
  BY ServeMovesCopies
<1>2. HandleEffect(p, r) /\ backlog[p] # <<>>
  BY <1>1, ServeMovesCopies
<1>3. /\ backlog' = [backlog EXCEPT ![p] = Tail(@)] /\ backlog \in [Workers -> Seq(Requests)]
  BY OfOneWorker DEF Serve
<1>4. \A i \in DOMAIN Tail(backlog[p]) :
        i + 1 \in DOMAIN backlog[p] /\ Tail(backlog[p])[i] = backlog[p][i + 1]
  BY <1>2, FirstRequest
<1>5. \A q \in Workers : \A i \in DOMAIN backlog'[q] :
        \E j \in DOMAIN backlog[q] : backlog'[q][i] = backlog[q][j]
  BY <1>3, <1>4
<1>6. ASSUME NEW v \in Workers
      PROVE  /\ monitor'[v].step = monitor[v].step /\ monitor'[v].request = monitor[v].request
             /\ monitor[v].step # "waiting" => monitor'[v].answer = monitor[v].answer
  <2>1. monitor[v] \in MonitorStates
    BY OfOneWorker
  <2>2. ASSUME NEW x
        PROVE  /\ [monitor[v] EXCEPT !.answer = x].step = monitor[v].step
               /\ [monitor[v] EXCEPT !.answer = x].request = monitor[v].request
    BY ONLY <2>1 DEF MonitorStates
  <2>3. CASE monitor'[v] = monitor[v]
    BY <2>3
  <2>4. CASE Awaits(v, r) /\ monitor'[v] = [monitor[v] EXCEPT !.answer = AnswerTo(p, r)]
    BY <2>2, <2>4 DEF Awaits
  <2>5. QED
    BY <1>2, <2>3, <2>4 DEF HandleEffect
<1>7. \A q \in Workers : DOMAIN handled[q] \subseteq DOMAIN handled'[q]
  BY <1>2 DEF HandleEffect
<1>8. ASSUME NEW q \in Workers, NEW i \in DOMAIN backlog'[q]
      PROVE  \/ backlog'[q][i].request \in DOMAIN handled'[q]
             \/ /\ monitor'[backlog'[q][i].from].step = "waiting"
                /\ monitor'[backlog'[q][i].from].request = backlog'[q][i].request
  <2>1. PICK j \in DOMAIN backlog[q] : backlog'[q][i] = backlog[q][j]
    BY <1>5
  <2>2. backlog[q][j].from \in Workers
    BY OfOneRequest
  <2>3. \/ backlog[q][j].request \in DOMAIN handled[q]
        \/ Awaits(backlog[q][j].from, backlog[q][j])
    BY DEF RequestsAreAwaited
  <2>4. QED
    BY <1>6, <1>7, <2>1, <2>2, <2>3 DEF Awaits
<1>9. RequestsAreAwaited'
  BY <1>8 DEF RequestsAreAwaited, Awaits
<1>10. AcceptedIsConfirmed'
  BY <1>6 DEF AcceptedIsConfirmed
<1>11. QED
  BY <1>9, <1>10

(* A link that is up was up, and nothing was cut short before.             *)
LEMMA QuietBefore ==
  ASSUME Basics, Next, Quiet'
  PROVE  /\ Quiet
         /\ \A v \in Workers : running[v] /\ link'[v] /\ link[v]
         /\ \/ Distribute \/ SendTask
            \/ \E w \in Workers :
                 \/ ReceiveResult(w) \/ LearnSize(w) \/ HandleTask(w)
                 \/ Processing(w) \/ P2PStep(w)
<1>1. \A v \in Workers : link'[v]
  BY DEF Quiet, AllLinked
<1>2. link \in [Workers -> BOOLEAN] /\ timeouts \in Nat
  BY TypesOfBasics DEF P2PInv, BoundsAreKept
<1>3. ~ \E w \in Workers : ReceiveEnd(w) \/ LoseLink(w) \/ StopWorker(w)
  BY <1>1, <1>2 DEF ReceiveEnd, LoseLink, StopWorker, linkVars
<1>4. \/ Distribute \/ SendTask
      \/ \E w \in Workers :
           \/ ReceiveResult(w) \/ LearnSize(w) \/ HandleTask(w) \/ Processing(w) \/ P2PStep(w)
  BY <1>3 DEF Next
<1>5. link' = link /\ (timeouts' = timeouts \/ timeouts' = timeouts + 1)
  <2>1. CASE Distribute \/ SendTask
    BY <2>1 DEF Distribute, SendTask, p2pVars
  <2>2. ASSUME NEW w \in Workers, ReceiveResult(w) \/ LearnSize(w)
        PROVE  link' = link /\ timeouts' = timeouts
    BY <2>2 DEF ReceiveResult, LearnSize, p2pVars, linkVars
  <2>3. ASSUME NEW w \in Workers, HandleTask(w) \/ Processing(w)
        PROVE  link' = link /\ timeouts' = timeouts
    BY <2>3 DEF HandleTask, Processing, DequeueForProcessing, MarkProcessingDone, SendResult,
       OnlyQueue, p2pVars, linkVars
  <2>4. ASSUME NEW w \in Workers, P2PStep(w)
        PROVE  link' = link /\ (timeouts' = timeouts \/ timeouts' = timeouts + 1)
    <3>1. link' = link
      BY <2>4 DEF P2PStep, linkVars
    <3>2. CASE AskPeer(w)
      BY <3>1, <3>2 DEF AskPeer, Answers
    <3>3. CASE GiveUp(w)
      BY <3>1, <3>3 DEF GiveUp
    <3>4. CASE ~ AskPeer(w) /\ ~ GiveUp(w)
      BY <2>4, <3>1, <3>4 DEF P2PStep, Serve, Monitoring, NoticeOverload, ChoosePeer, ReserveNext,
         SendTransfer, ReadAnswer, SettleNext
    <3>5. QED
      BY <3>2, <3>3, <3>4
  <2>5. QED
    BY <1>4, <2>1, <2>2, <2>3, <2>4
<1>6. Quiet
  BY <1>1, <1>2, <1>5 DEF Quiet, AllLinked
<1>7. QED
  BY <1>1, <1>4, <1>5, <1>6 DEF Basics, LinkedWorkersRun

LEMMA ServiceStaysQuiet ==
  ASSUME Basics, Next, Quiet', RequestsAreAwaited, AcceptedIsConfirmed
  PROVE  RequestsAreAwaited' /\ AcceptedIsConfirmed'
<1>1. /\ \A v \in Workers : running[v]
      /\ \/ Distribute \/ SendTask
         \/ \E w \in Workers :
              \/ ReceiveResult(w) \/ LearnSize(w) \/ HandleTask(w)
              \/ Processing(w) \/ P2PStep(w)
  BY QuietBefore
<1>2. ASSUME UNCHANGED <<monitor, backlog, handled>>
      PROVE  RequestsAreAwaited' /\ AcceptedIsConfirmed'
  BY <1>2 DEF RequestsAreAwaited, AcceptedIsConfirmed, Awaits
<1>3. CASE Distribute \/ SendTask
  BY <1>2, <1>3 DEF Distribute, SendTask, p2pVars
<1>4. ASSUME NEW w \in Workers, ReceiveResult(w) \/ LearnSize(w) \/ HandleTask(w) \/ Processing(w)
      PROVE  RequestsAreAwaited' /\ AcceptedIsConfirmed'
  BY <1>2, <1>4 DEF ReceiveResult, LearnSize, HandleTask, Processing, DequeueForProcessing,
     MarkProcessingDone, SendResult, OnlyQueue, p2pVars
<1>5. ASSUME NEW w \in Workers, P2PStep(w)
      PROVE  RequestsAreAwaited' /\ AcceptedIsConfirmed'
  <2>1. P2PInv /\ timeouts' = 0
    BY DEF Basics, Quiet
  <2>2. QED
    BY <1>1, <1>5, <2>1, MonitoringStaysQuiet, ServeStaysQuiet DEF P2PStep
<1>6. QED
  BY <1>1, <1>3, <1>4, <1>5

-----------------------------------------------------------------------------
(* Where a copy is: what a move of one copy does to the places of all.     *)

(* Two present copies of a task are the same. *)
LEMMA SamePresent ==
  ASSUME NEW c \in Copies, NEW d \in Copies, IsPresent(c), IsPresent(d), c.id = d.id
  PROVE  c = d
BY DEF IsPresent, Copies

\* A copy that is only where it was before, or in one place, if it was in any.
OnlyWhereItWas(c) == \A k \in Kinds, v \in Holders : Holds(k, v, c)' => Holds(k, v, c)
InOnePlace(c) ==
  \E k \in Kinds, v \in Holders : \A l \in Kinds, u \in Holders :
    Holds(l, u, c)' => l = k /\ u = v
WasSomewhere(c) == \E k \in Kinds, v \in Holders : Holds(k, v, c)

Settles(c) == OnlyWhereItWas(c) \/ (WasSomewhere(c) /\ InOnePlace(c))

LinksAreOnce == \A w \in Workers : OnceOnLink(toWorker[w]) /\ OnceOnLink(toMaster[w])

LEMMA SettledCopies ==
  ASSUME CopiesArePresent, PlacesAreSingle, taskState' = taskState,
         assignmentWorker' = assignmentWorker, LinksAreOnce', \A c \in Copies : Settles(c)
  PROVE  CopiesArePresent' /\ PlacesAreSingle'
<1>1. ASSUME NEW c \in Copies, NEW k \in Kinds, NEW v \in Holders, Holds(k, v, c)'
      PROVE  IsPresent(c)'
  <2>1. WasSomewhere(c)
    BY <1>1 DEF Settles, OnlyWhereItWas, WasSomewhere
  <2>2. IsPresent(c)
    BY <2>1 DEF WasSomewhere, CopiesArePresent
  <2>3. QED
    BY <2>2 DEF IsPresent
<1>2. CopiesArePresent'
  BY <1>1 DEF CopiesArePresent
<1>3. ASSUME NEW c \in Copies, NEW k \in Kinds, NEW l \in Kinds, NEW u \in Holders,
             NEW v \in Holders, Holds(k, u, c)', Holds(l, v, c)'
      PROVE  k = l /\ u = v
  <2>1. CASE OnlyWhereItWas(c)
    BY <1>3, <2>1 DEF OnlyWhereItWas, PlacesAreSingle
  <2>2. CASE InOnePlace(c)
    BY <1>3, <2>2 DEF InOnePlace
  <2>3. QED
    BY <2>1, <2>2 DEF Settles
<1>4. PlacesAreSingle'
  BY <1>3 DEF PlacesAreSingle, LinksAreOnce
<1>5. QED
  BY <1>2, <1>4

(* One copy moves from one place to another, or leaves. *)
LEMMA OneCopyMoves ==
  ASSUME CopiesArePresent, PlacesAreSingle, taskState' = taskState,
         assignmentWorker' = assignmentWorker, LinksAreOnce',
         NEW x \in Copies, NEW k \in Kinds, NEW u \in Holders, NEW l \in Kinds, NEW v \in Holders,
         Holds(k, u, x),
         \A c \in Copies, n \in Kinds, z \in Holders : Holds(n, z, c)' =>
           \/ Holds(n, z, c) /\ ~ (c = x /\ n = k /\ z = u)
           \/ c = x /\ n = l /\ z = v
  PROVE  CopiesArePresent' /\ PlacesAreSingle'
<1>1. ASSUME NEW c \in Copies, c # x
      PROVE  Settles(c)
  BY <1>1 DEF Settles, OnlyWhereItWas
<1>2. \A n \in Kinds, z \in Holders : Holds(n, z, x) => n = k /\ z = u
  BY DEF PlacesAreSingle
<1>3. InOnePlace(x)
  BY <1>2 DEF InOnePlace
<1>4. WasSomewhere(x)
  BY DEF WasSomewhere
<1>5. QED
  BY <1>1, <1>3, <1>4, SettledCopies DEF Settles

LEMMA PlacesStay ==
  ASSUME CopiesArePresent, PlacesAreSingle, taskState' = taskState,
         assignmentWorker' = assignmentWorker, LinksAreOnce',
         \A c \in Copies, n \in Kinds, z \in Holders : Holds(n, z, c)' => Holds(n, z, c)
  PROVE  CopiesArePresent' /\ PlacesAreSingle'
BY SettledCopies DEF Settles, OnlyWhereItWas

(* A link loses its first message, or gains one. *)
LEMMA RestIsOnce ==
  ASSUME NEW S, NEW s \in Seq(S), s # <<>>, OnceOnLink(s)
  PROVE  /\ OnceOnLink(Tail(s)) /\ OnLink(s, Head(s).copy) /\ ~ OnLink(Tail(s), Head(s).copy)
         /\ \A c : OnLink(Tail(s), c) => OnLink(s, c)
<1>1. /\ 1 \in DOMAIN s /\ Head(s) = s[1]
      /\ \A i \in DOMAIN Tail(s) : i + 1 \in DOMAIN s /\ Tail(s)[i] = s[i + 1]
  BY FirstOnLink
<1>2. Tail(s) \in Seq(S)
  BY FirstOnLink
<1>3. /\ DOMAIN Tail(s) = 1 .. Len(Tail(s)) /\ Len(Tail(s)) \in Nat
  BY <1>2, LenProperties
<1>4. OnceOnLink(Tail(s))
  BY <1>1, <1>3 DEF OnceOnLink
<1>5. OnLink(s, Head(s).copy) /\ \A c : OnLink(Tail(s), c) => OnLink(s, c)
  BY <1>1 DEF OnLink
<1>6. ~ OnLink(Tail(s), Head(s).copy)
  BY <1>1, <1>3 DEF OnLink, OnceOnLink
<1>7. QED
  BY <1>4, <1>5, <1>6

LEMMA MoreIsOnce ==
  ASSUME NEW S, NEW s \in Seq(S), NEW m \in S, OnceOnLink(s), ~ OnLink(s, m.copy)
  PROVE  /\ OnceOnLink(Append(s, m))
         /\ \A c : OnLink(Append(s, m), c) => OnLink(s, c) \/ c = m.copy
<1>1. /\ \A i \in DOMAIN s : i \in DOMAIN Append(s, m) /\ Append(s, m)[i] = s[i]
      /\ Len(s) + 1 \in DOMAIN Append(s, m) /\ Append(s, m)[Len(s) + 1] = m
      /\ \A i \in DOMAIN Append(s, m) : i \in DOMAIN s \/ i = Len(s) + 1
  BY LastOnLink
<1>2. OnceOnLink(Append(s, m))
  BY <1>1 DEF OnceOnLink, OnLink
<1>3. \A c : OnLink(Append(s, m), c) => OnLink(s, c) \/ c = m.copy
  BY <1>1 DEF OnLink
<1>4. QED
  BY <1>2, <1>3

(* The holders of a copy, place by place; and what a step leaves alone. *)
LEMMA HoldersNext ==
  ASSUME NEW k, NEW v, NEW c
  PROVE  Holds(k, v, c)' <=>
           \/ /\ k = "sending" /\ v = Nobody
              /\ sending' # NotSending /\ CopyOf(sending.task)' = c
           \/ v \in Workers /\
                \/ k = "link" /\ OnLink(toWorker'[v], c)
                \/ k = "queue" /\ c \in Firm(v)'
                \/ k = "result" /\ OnLink(toMaster'[v], c)
BY DEF Holds, OnLink

LEMMA OnceStays ==
  ASSUME PlacesAreSingle, toWorker' = toWorker, toMaster' = toMaster
  PROVE  LinksAreOnce'
BY DEF LinksAreOnce, PlacesAreSingle

(* A task about to be assigned has no copy anywhere. *)
LEMMA DistributeKeepsPlaces ==
  ASSUME Basics, CopiesArePresent, PlacesAreSingle, Distribute
  PROVE  CopiesArePresent' /\ PlacesAreSingle'
<1>1. /\ WorkersStay /\ sending = NotSending
      /\ UNCHANGED <<toWorker, toMaster, reported, link, failures, dropped, stranded>>
  BY DEF Distribute, p2pVars, WorkersStay
<1>2. \A v \in Workers : Firm(v)' = Firm(v)
  BY <1>1, FirmStays DEF Basics
<1>3. LinksAreOnce'
  BY <1>1, OnceStays
<1>4. ASSUME NEW k \in Kinds, NEW v \in Holders, NEW c \in Copies, Holds(k, v, c)',
             k # "sending"
      PROVE  Holds(k, v, c)
  BY <1>1, <1>2, <1>4, HoldersNext DEF Holds
<1>5. CASE PutNextBack /\ UNCHANGED sending
  <2>1. UNCHANGED <<taskState, assignmentWorker, sending>>
    BY <1>5 DEF PutNextBack
  <2>2. \A c \in Copies, k \in Kinds, v \in Holders : Holds(k, v, c)' => Holds(k, v, c)
    BY <1>1, <1>4, <2>1, HoldersNext
  <2>3. QED
    BY <1>3, <2>1, <2>2, PlacesStay
<1>6. ASSUME NEW t \in Tasks, NEW w \in Workers, AssignNext(t, w),
             sending' = [task |-> t, worker |-> w, retry |-> FromRetry]
      PROVE  CopiesArePresent' /\ PlacesAreSingle'
  <2>1. taskState[t] # "assigned"
    BY <1>6, NextTaskIsFirst DEF AssignNext, Basics
  <2>2. /\ taskState'[t] = "assigned" /\ assignmentWorker'[t] = w
        /\ \A x \in Tasks \ {t} :
             taskState'[x] = taskState[x] /\ assignmentWorker'[x] = assignmentWorker[x]
    BY <1>6 DEF AssignNext, Basics, CoreInv, CoreTypeOK
  <2>3. \A c \in Copies : c.id \in Tasks
    BY DEF Copies
  <2>4. \A c \in Copies, k \in Kinds, v \in Holders : Holds(k, v, c) => c.id # t
    BY <2>1 DEF CopiesArePresent, IsPresent
  <2>5. CopyOf(sending.task)' = [id |-> t, by |-> w]
    BY <1>6, <2>2 DEF CopyOf
  <2>6. \A c \in Copies, k \in Kinds, v \in Holders : Holds(k, v, c)' =>
          \/ Holds(k, v, c) /\ c.id # t
          \/ k = "sending" /\ v = Nobody /\ c = [id |-> t, by |-> w]
    BY <1>4, <2>4, <2>5, HoldersNext
  <2>7. CopiesArePresent'
    <3>1. ASSUME NEW c \in Copies, NEW k \in Kinds, NEW v \in Holders, Holds(k, v, c)'
          PROVE  IsPresent(c)'
      <4>1. CASE Holds(k, v, c) /\ c.id # t
        <5>1. IsPresent(c) /\ taskState'[c.id] = taskState[c.id]
              /\ assignmentWorker'[c.id] = assignmentWorker[c.id]
          BY <2>2, <2>3, <4>1 DEF CopiesArePresent
        <5>2. QED
          BY <5>1 DEF IsPresent
      <4>2. CASE c = [id |-> t, by |-> w]
        BY <2>2, <4>2 DEF IsPresent
      <4>3. QED
        BY <2>6, <3>1, <4>1, <4>2
    <3>2. QED
      BY <3>1 DEF CopiesArePresent
  <2>8. ASSUME NEW c \in Copies, NEW k \in Kinds, NEW l \in Kinds, NEW u \in Holders,
               NEW v \in Holders, Holds(k, u, c)', Holds(l, v, c)'
        PROVE  k = l /\ u = v
    <3>1. CASE c.id # t
      BY <2>6, <2>8, <3>1 DEF PlacesAreSingle
    <3>2. CASE c.id = t
      BY <2>6, <2>8, <3>2
    <3>3. QED
      BY <3>1, <3>2
  <2>9. PlacesAreSingle'
    BY <1>3, <2>8 DEF PlacesAreSingle, LinksAreOnce
  <2>10. QED
    BY <2>7, <2>9
<1>7. QED
  BY <1>5, <1>6 DEF Distribute

(* The main thread's copy goes to the link. *)
LEMMA SendTaskKeepsPlaces ==
  ASSUME Basics, AllLinked, CopiesArePresent, PlacesAreSingle, SendTask
  PROVE  CopiesArePresent' /\ PlacesAreSingle'
<1> DEFINE w == sending.worker
           x == CopyOf(sending.task)
           m == [copy |-> x, retry |-> sending.retry]
<1>1. /\ w \in Workers /\ m \in Commands /\ x \in Copies
  BY SentCopy DEF SendTask, CopyOf
<1>2. /\ sending # NotSending /\ WorkersStay /\ sending' = NotSending
      /\ UNCHANGED <<toMaster, reported, taskState, assignmentWorker>>
      /\ toWorker' = [toWorker EXCEPT ![w] = Append(@, m)]
  BY <1>1 DEF SendTask, p2pVars, WorkersStay, CopyOf, AllLinked, coreVars
<1>3. m.copy = x
  OBVIOUS
<1>4. Holds("sending", Nobody, x)
  BY <1>2 DEF Holds
<1> HIDE DEF w, x, m
<1>5. toWorker \in [Workers -> Seq(Commands)] /\ toWorker[w] \in Seq(Commands)
  BY <1>1, TypesOfBasics
<1>6. "sending" \in Kinds /\ "link" \in Kinds /\ w \in Holders /\ Nobody \in Holders
  BY <1>1 DEF Kinds, Holders
<1>7. ~ OnLink(toWorker[w], m.copy) /\ OnceOnLink(toWorker[w])
  <2>1. OnLink(toWorker[w], x) => Holds("link", w, x)
    BY <1>1 DEF Holds
  <2>2. ~ Holds("link", w, x)
    BY <1>1, <1>4, <1>6 DEF PlacesAreSingle
  <2>3. QED
    BY <1>1, <1>3, <2>1, <2>2 DEF PlacesAreSingle
<1>8. /\ OnceOnLink(Append(toWorker[w], m))
      /\ \A c : OnLink(Append(toWorker[w], m), c) => OnLink(toWorker[w], c) \/ c = x
  <2>1. /\ OnceOnLink(Append(toWorker[w], m))
        /\ \A c : OnLink(Append(toWorker[w], m), c) => OnLink(toWorker[w], c) \/ c = m.copy
    BY ONLY <1>1, <1>5, <1>7, MoreIsOnce
  <2>2. QED
    BY <1>3, <2>1
<1>9. /\ toWorker'[w] = Append(toWorker[w], m)
      /\ \A v \in Workers \ {w} : toWorker'[v] = toWorker[v]
  BY <1>1, <1>2, <1>5
<1>10. LinksAreOnce'
  BY <1>2, <1>8, <1>9 DEF LinksAreOnce, PlacesAreSingle
<1>11. \A v \in Workers : Firm(v)' = Firm(v)
  BY <1>2, FirmStays DEF Basics
<1>12. ASSUME NEW c \in Copies, NEW n \in Kinds, NEW z \in Holders, Holds(n, z, c)'
       PROVE  \/ Holds(n, z, c) /\ ~ (c = x /\ n = "sending" /\ z = Nobody)
              \/ c = x /\ n = "link" /\ z = w
  BY <1>2, <1>8, <1>9, <1>11, <1>12, HoldersNext DEF Holds
<1>13. QED
  BY <1>1, <1>2, <1>4, <1>6, <1>10, <1>12, OneCopyMoves

(* A result that arrives ends the assignment: it was the only copy. *)
LEMMA ReceiveResultKeepsPlaces ==
  ASSUME Basics, CopiesArePresent, PlacesAreSingle, NEW w \in Workers, ReceiveResult(w)
  PROVE  CopiesArePresent' /\ PlacesAreSingle'
<1> DEFINE m == Head(toMaster[w])
           x == m.copy
<1>1. /\ toMaster[w] # <<>> /\ toMaster' = [toMaster EXCEPT ![w] = Tail(@)] /\ WorkersStay
      /\ UNCHANGED <<sending, toWorker, reported>>
  BY DEF ReceiveResult, p2pVars, WorkersStay
<1>2. x \in Copies /\ x.id \in Tasks /\ x.by \in Workers
  BY <1>1, FirstResult
<1>3. /\ toMaster \in [Workers -> Seq(Results)] /\ toMaster[w] \in Seq(Results)
      /\ OnceOnLink(toMaster[w])
  BY TypesOfBasics DEF PlacesAreSingle
<1>4. /\ OnceOnLink(Tail(toMaster[w])) /\ OnLink(toMaster[w], x) /\ ~ OnLink(Tail(toMaster[w]), x)
      /\ \A c : OnLink(Tail(toMaster[w]), c) => OnLink(toMaster[w], c)
  <2> DEFINE s == toMaster[w]
  <2>1. s \in Seq(Results) /\ s # <<>> /\ OnceOnLink(s)
    BY <1>1, <1>3
  <2> HIDE DEF s
  <2>2. /\ OnceOnLink(Tail(s)) /\ OnLink(s, Head(s).copy) /\ ~ OnLink(Tail(s), Head(s).copy)
        /\ \A c : OnLink(Tail(s), c) => OnLink(s, c)
    BY ONLY <2>1, RestIsOnce
  <2>3. QED
    BY <2>2 DEF s
<1>5. Holds("result", w, x)
  BY <1>4 DEF Holds
<1>6. "result" \in Kinds /\ w \in Holders
  BY DEF Kinds, Holders
<1>7. IsPresent(x)
  BY <1>2, <1>5, <1>6 DEF CopiesArePresent
<1>8. IsCurrent(x.id, x.by)
  BY <1>2, <1>7, AssigneeIsWorker DEF IsPresent
<1>9. /\ assignmentWorker' = assignmentWorker
      /\ \A t \in Tasks \ {x.id} : taskState'[t] = taskState[t]
  BY <1>2, <1>8 DEF ReceiveResult, RecordSuccess, RecordFailure, Basics, CoreInv, CoreTypeOK
<1> HIDE DEF x, m
<1>10. /\ toMaster'[w] = Tail(toMaster[w]) /\ \A v \in Workers \ {w} : toMaster'[v] = toMaster[v]
  BY <1>1, <1>3
<1>11. LinksAreOnce'
  BY <1>1, <1>4, <1>10 DEF LinksAreOnce, PlacesAreSingle
<1>12. \A v \in Workers : Firm(v)' = Firm(v)
  BY <1>1, FirmStays DEF Basics
<1>13. CopyOf(sending.task)' = CopyOf(sending.task)
  BY <1>1, <1>9 DEF CopyOf
<1>14. ASSUME NEW c \in Copies, NEW n \in Kinds, NEW z \in Holders, Holds(n, z, c)'
       PROVE  Holds(n, z, c) /\ c.id # x.id
  <2>1. Holds(n, z, c) /\ ~ (c = x /\ n = "result" /\ z = w)
    BY <1>1, <1>4, <1>10, <1>12, <1>13, <1>14, HoldersNext DEF Holds
  <2>2. c # x
    BY <1>2, <1>5, <1>6, <2>1 DEF PlacesAreSingle
  <2>3. IsPresent(c)
    BY <2>1 DEF CopiesArePresent
  <2>4. QED
    BY <1>2, <1>7, <2>1, <2>2, <2>3, SamePresent
<1>15. CopiesArePresent'
  <2>1. ASSUME NEW c \in Copies, NEW k \in Kinds, NEW v \in Holders, Holds(k, v, c)'
        PROVE  IsPresent(c)'
    <3>1. IsPresent(c) /\ c.id \in Tasks \ {x.id}
      BY <1>14, <2>1 DEF CopiesArePresent, Copies
    <3>2. QED
      BY <1>9, <3>1 DEF IsPresent
  <2>2. QED
    BY <2>1 DEF CopiesArePresent
<1>16. ASSUME NEW c \in Copies, NEW k \in Kinds, NEW l \in Kinds, NEW u \in Holders,
              NEW v \in Holders, Holds(k, u, c)', Holds(l, v, c)'
       PROVE  k = l /\ u = v
  BY <1>14, <1>16 DEF PlacesAreSingle
<1>17. PlacesAreSingle'
  BY <1>11, <1>16 DEF PlacesAreSingle, LinksAreOnce
<1>18. QED
  BY <1>15, <1>17

LEMMA LearnSizeKeepsPlaces ==
  ASSUME Basics, CopiesArePresent, PlacesAreSingle, NEW w \in Workers, LearnSize(w)
  PROVE  CopiesArePresent' /\ PlacesAreSingle'
<1>1. /\ WorkersStay /\ UNCHANGED <<sending, toWorker, toMaster, reported>>
      /\ UNCHANGED <<taskState, assignmentWorker>>
  BY DEF LearnSize, p2pVars, linkVars, WorkersStay, UpdateStatus
<1>2. \A v \in Workers : Firm(v)' = Firm(v)
  BY <1>1, FirmStays DEF Basics
<1>3. CopyOf(sending.task)' = CopyOf(sending.task)
  BY <1>1 DEF CopyOf
<1>4. \A c \in Copies, n \in Kinds, z \in Holders : Holds(n, z, c)' => Holds(n, z, c)
  BY <1>1, <1>2, <1>3, HoldersNext DEF Holds
<1>5. LinksAreOnce'
  BY <1>1, OnceStays
<1>6. QED
  BY <1>1, <1>4, <1>5, PlacesStay

(* What is reported goes to the link that is up. *)
LEMMA ReportedPlace ==
  ASSUME Basics, PlacesAreSingle, NEW w \in Workers, link[w], NEW c \in Copies,
         NEW kind \in {"success", "fail", "overflow"}, Report(w, c, kind),
         ~ OnLink(toMaster[w], c)
  PROVE  /\ \A v \in Workers : OnceOnLink(toMaster'[v])
         /\ \A v \in Workers : \A d :
              OnLink(toMaster'[v], d) => OnLink(toMaster[v], d) \/ (v = w /\ d = c)
<1> DEFINE x == [copy |-> c, kind |-> kind]
<1>1. /\ \A v \in Workers \ {w} : toMaster'[v] = toMaster[v]
      /\ toMaster'[w] = Append(toMaster[w], x) /\ x \in Results
  BY ReportedResult
<1>2. x.copy = c
  OBVIOUS
<1> HIDE DEF x
<1>3. toMaster[w] \in Seq(Results) /\ OnceOnLink(toMaster[w]) /\ ~ OnLink(toMaster[w], x.copy)
  BY <1>2, TypesOfBasics DEF PlacesAreSingle
<1>4. /\ OnceOnLink(Append(toMaster[w], x))
      /\ \A d : OnLink(Append(toMaster[w], x), d) => OnLink(toMaster[w], d) \/ d = x.copy
  BY ONLY <1>1, <1>3, MoreIsOnce
<1>5. QED
  BY <1>1, <1>2, <1>4 DEF PlacesAreSingle

(* A TASK leaves the link, for the queue or, as an overflow, for the way   *)
(* back.                                                                   *)
LEMMA HandleTaskKeepsPlaces ==
  ASSUME Basics, AllLinked, CopiesArePresent, PlacesAreSingle, NEW w \in Workers, HandleTask(w)
  PROVE  CopiesArePresent' /\ PlacesAreSingle'
<1> DEFINE m == Head(toWorker[w])
           x == m.copy
<1>1. /\ toWorker[w] # <<>> /\ toWorker' = [toWorker EXCEPT ![w] = Tail(@)] /\ link[w]
      /\ UNCHANGED <<sending, reported, taskState, assignmentWorker>>
  BY DEF HandleTask, coreVars, AllLinked
<1>2. /\ toWorker \in [Workers -> Seq(Commands)] /\ toWorker[w] \in Seq(Commands)
      /\ OnceOnLink(toWorker[w]) /\ P2PInv
  BY TypesOfBasics DEF PlacesAreSingle
<1>3. m \in Commands
  <2> DEFINE s == toWorker[w]
  <2>1. s \in Seq(Commands) /\ s # <<>>
    BY <1>1, <1>2
  <2> HIDE DEF s
  <2>2. /\ 1 \in DOMAIN s /\ Head(s) = s[1] /\ Head(s) \in Commands
        /\ Tail(s) \in Seq(Commands)
        /\ \A i \in DOMAIN Tail(s) : i + 1 \in DOMAIN s /\ Tail(s)[i] = s[i + 1]
        /\ \A i \in DOMAIN s : i # 1 => i - 1 \in DOMAIN Tail(s)
    BY ONLY <2>1, FirstOnLink
  <2>3. QED
    BY <2>2 DEF s
<1>4. x \in Copies /\ m.retry \in BOOLEAN
  BY <1>3 DEF Commands
<1>5. /\ OnceOnLink(Tail(toWorker[w])) /\ OnLink(toWorker[w], x) /\ ~ OnLink(Tail(toWorker[w]), x)
      /\ \A c : OnLink(Tail(toWorker[w]), c) => OnLink(toWorker[w], c)
  <2> DEFINE s == toWorker[w]
  <2>1. s \in Seq(Commands) /\ s # <<>> /\ OnceOnLink(s)
    BY <1>1, <1>2
  <2> HIDE DEF s
  <2>2. /\ OnceOnLink(Tail(s)) /\ OnLink(s, Head(s).copy) /\ ~ OnLink(Tail(s), Head(s).copy)
        /\ \A c : OnLink(Tail(s), c) => OnLink(s, c)
    BY ONLY <2>1, RestIsOnce
  <2>3. QED
    BY <2>2 DEF s
<1>6. /\ "link" \in Kinds /\ "queue" \in Kinds /\ "result" \in Kinds /\ w \in Holders
      /\ Holds("link", w, x)
  BY <1>5 DEF Kinds, Holders, Holds
<1>7. ~ Holds("result", w, x)
  BY <1>4, <1>6 DEF PlacesAreSingle
<1>8. CopyOf(sending.task)' = CopyOf(sending.task)
  BY <1>1 DEF CopyOf
<1>9. \/ /\ Verdict(queue[w], <<m.copy>>) = "accepted"
         /\ OnlyQueue(w, Enqueued(queue[w], <<m.copy>>, m.retry))
         /\ UNCHANGED <<toMaster, dropped, stranded>>
      \/ Report(w, m.copy, "overflow") /\ UNCHANGED <<p2pVars, dropped>>
      \/ UNCHANGED <<p2pVars, toMaster, stranded>>
  BY DEF HandleTask
<1> HIDE DEF m
<1>10. /\ toWorker'[w] = Tail(toWorker[w]) /\ \A v \in Workers \ {w} : toWorker'[v] = toWorker[v]
  BY <1>1, <1>2
<1>11. \A v \in Workers : OnceOnLink(toWorker'[v])
  BY <1>5, <1>10 DEF PlacesAreSingle
<1>12. ASSUME UNCHANGED p2pVars
       PROVE  \A v \in Workers : Firm(v)' = Firm(v)
  BY <1>1, <1>2, <1>12, FirmStays DEF p2pVars, WorkersStay
<1>13. CASE /\ Verdict(queue[w], <<x>>) = "accepted"
            /\ OnlyQueue(w, Enqueued(queue[w], <<x>>, m.retry))
            /\ UNCHANGED <<toMaster, dropped, stranded>>
  <2>1. /\ OtherQueuesStay(w) /\ queue'[w].processing = queue[w].processing
        /\ Kept(w)' = Kept(w) \cup {x}
    BY <1>2, <1>4, <1>13, AdmittedCopy
  <2> HIDE DEF x
  <2>2. \A v \in Workers : \A c : c \in Firm(v)' => c \in Firm(v) \/ (v = w /\ c = x)
    BY <1>1, <2>1 DEF Firm, OtherQueuesStay
  <2>3. LinksAreOnce'
    BY <1>11, <1>13 DEF LinksAreOnce, PlacesAreSingle
  <2>4. ASSUME NEW c \in Copies, NEW n \in Kinds, NEW z \in Holders, Holds(n, z, c)'
        PROVE  \/ Holds(n, z, c) /\ ~ (c = x /\ n = "link" /\ z = w)
               \/ c = x /\ n = "queue" /\ z = w
    BY <1>1, <1>5, <1>8, <1>10, <1>13, <2>2, <2>4, HoldersNext DEF Holds
  <2>5. QED
    BY <1>1, <1>4, <1>6, <2>3, <2>4, OneCopyMoves
<1>14. CASE Report(w, x, "overflow") /\ UNCHANGED <<p2pVars, dropped>>
  <2>1. ~ OnLink(toMaster[w], x)
    BY <1>7 DEF Holds
  <2> HIDE DEF x
  <2>2. /\ \A v \in Workers : OnceOnLink(toMaster'[v])
        /\ \A v \in Workers : \A d :
             OnLink(toMaster'[v], d) => OnLink(toMaster[v], d) \/ (v = w /\ d = x)
    BY <1>1, <1>4, <1>14, <2>1, ReportedPlace
  <2>3. LinksAreOnce'
    BY <1>11, <2>2 DEF LinksAreOnce
  <2>4. \A v \in Workers : Firm(v)' = Firm(v)
    BY <1>12, <1>14
  <2>5. ASSUME NEW c \in Copies, NEW n \in Kinds, NEW z \in Holders, Holds(n, z, c)'
        PROVE  \/ Holds(n, z, c) /\ ~ (c = x /\ n = "link" /\ z = w)
               \/ c = x /\ n = "result" /\ z = w
    BY <1>1, <1>5, <1>8, <1>10, <2>2, <2>4, <2>5, HoldersNext DEF Holds
  <2>6. QED
    BY <1>1, <1>4, <1>6, <2>3, <2>5, OneCopyMoves
<1>15. CASE UNCHANGED <<p2pVars, toMaster, stranded>>
  <2>1. \A v \in Workers : Firm(v)' = Firm(v)
    BY <1>12, <1>15
  <2>2. LinksAreOnce'
    BY <1>11, <1>15 DEF LinksAreOnce, PlacesAreSingle
  <2>3. \A c \in Copies, n \in Kinds, z \in Holders : Holds(n, z, c)' => Holds(n, z, c)
    BY <1>1, <1>5, <1>8, <1>10, <1>15, <2>1, HoldersNext DEF Holds
  <2>4. QED
    BY <1>1, <2>2, <2>3, PlacesStay
<1>16. QED
  BY <1>9, <1>13, <1>14, <1>15

(* The copy being processed becomes a result. *)
LEMMA ProcessingKeepsPlaces ==
  ASSUME Basics, AllLinked, CopiesArePresent, PlacesAreSingle, NEW w \in Workers, Processing(w)
  PROVE  CopiesArePresent' /\ PlacesAreSingle'
<1>1. /\ UNCHANGED <<taskState, assignmentWorker, sending, toWorker>> /\ link[w]
      /\ \/ UNCHANGED <<toMaster, stranded>> /\ \A v \in Workers : Firm(v)' = Firm(v)
         \/ \E kind \in {"success", "fail"} : \E c \in Copies : ReportsCopy(w, c, kind)
  BY ProcessingMoves DEF coreVars, AllLinked
<1>2. CopyOf(sending.task)' = CopyOf(sending.task)
  BY <1>1 DEF CopyOf
<1>3. CASE UNCHANGED <<toMaster, stranded>> /\ \A v \in Workers : Firm(v)' = Firm(v)
  <2>1. \A c \in Copies, n \in Kinds, z \in Holders : Holds(n, z, c)' => Holds(n, z, c)
    BY <1>1, <1>2, <1>3, HoldersNext DEF Holds
  <2>2. LinksAreOnce'
    BY <1>1, <1>3, OnceStays
  <2>3. QED
    BY <1>1, <2>1, <2>2, PlacesStay
<1>4. ASSUME NEW kind \in {"success", "fail"}, NEW x \in Copies, ReportsCopy(w, x, kind)
      PROVE  CopiesArePresent' /\ PlacesAreSingle'
  <2>1. /\ x \in Firm(w) /\ Report(w, x, kind) /\ Firm(w)' = Firm(w) \ {x}
        /\ \A v \in Workers \ {w} : Firm(v)' = Firm(v)
    BY <1>4 DEF ReportsCopy
  <2>2. /\ "queue" \in Kinds /\ "result" \in Kinds /\ w \in Holders
        /\ Holds("queue", w, x)
    BY <2>1 DEF Kinds, Holders, Holds
  <2>3. ~ OnLink(toMaster[w], x)
    <3>1. ~ Holds("result", w, x)
      BY <2>2 DEF PlacesAreSingle
    <3>2. QED
      BY <3>1 DEF Holds
  <2>4. /\ \A v \in Workers : OnceOnLink(toMaster'[v])
        /\ \A v \in Workers : \A d :
             OnLink(toMaster'[v], d) => OnLink(toMaster[v], d) \/ (v = w /\ d = x)
    BY <1>1, <2>1, <2>3, ReportedPlace
  <2>5. LinksAreOnce'
    BY <1>1, <2>4 DEF LinksAreOnce, PlacesAreSingle
  <2>6. ASSUME NEW c \in Copies, NEW n \in Kinds, NEW z \in Holders, Holds(n, z, c)'
        PROVE  \/ Holds(n, z, c) /\ ~ (c = x /\ n = "queue" /\ z = w)
               \/ c = x /\ n = "result" /\ z = w
    BY <1>1, <1>2, <2>1, <2>4, <2>6, HoldersNext DEF Holds
  <2>7. QED
    BY <1>1, <2>2, <2>5, <2>6, OneCopyMoves
<1>5. QED
  BY <1>1, <1>3, <1>4

(* What a peer admits comes from the queue of the worker that waits.       *)
LEMMA P2PStepKeepsPlaces ==
  ASSUME Basics, CopiesArePresent, PlacesAreSingle, RequestsAreAwaited, AcceptedIsConfirmed,
         \A v \in Workers : running[v], NEW w \in Workers, P2PStep(w)
  PROVE  CopiesArePresent' /\ PlacesAreSingle'
<1>1. UNCHANGED <<taskState, assignmentWorker, sending, toWorker, toMaster>>
  BY DEF P2PStep, coreVars, linkVars
<1>2. LinksAreOnce'
  BY <1>1, OnceStays
<1>3. CopyOf(sending.task)' = CopyOf(sending.task)
  BY <1>1 DEF CopyOf
<1>4. PICK r : r = backlog[w][1]
  OBVIOUS
<1>5. PICK B : B = ToSet(r.tasks)
  OBVIOUS
<1>6. \/ \A v \in Workers : Firm(v)' = Firm(v)
      \/ /\ Serve(w) /\ MovesCopies(w, r)
         /\ Firm(w)' = Firm(w) \cup B
         /\ \A v \in Workers \ {w} : Firm(v)' = Firm(v) \ (IF IsToldBy(v, r) THEN B ELSE {})
  BY <1>4, <1>5, P2PStepKeepsFirm
<1>7. CASE \A v \in Workers : Firm(v)' = Firm(v)
  <2>1. \A c \in Copies, n \in Kinds, z \in Holders : Holds(n, z, c)' => Holds(n, z, c)
    BY <1>1, <1>3, <1>7, HoldersNext DEF Holds
  <2>2. QED
    BY <1>1, <1>2, <2>1, PlacesStay
<1>8. CASE /\ Serve(w) /\ MovesCopies(w, r)
           /\ Firm(w)' = Firm(w) \cup B
           /\ \A v \in Workers \ {w} : Firm(v)' = Firm(v) \ (IF IsToldBy(v, r) THEN B ELSE {})
  <2>1. /\ P2PInv /\ 1 \in DOMAIN backlog[w] /\ r \in Requests
    BY <1>4, <1>8, ServeMovesCopies DEF Basics
  <2>2. PICK u \in Workers : u = r.from
    BY <2>1 DEF Requests
  <2>3. r.request \notin DOMAIN handled[w]
    BY <1>8 DEF MovesCopies
  <2>4. IsToldBy(u, r)
    BY <1>4, <2>1, <2>2, <2>3 DEF RequestsAreAwaited, IsToldBy
  <2>5. u # w
    BY <1>4, <2>1, <2>4, AnswersAreNews
  <2>6. B \subseteq ReservedCopies(queue[u]) /\ B \subseteq Kept(u)
    BY <1>5, <1>8, <2>4, <2>5 DEF MovesCopies
  <2>7. B \subseteq Firm(u)
    BY <2>1, <2>6, ActiveCopies DEF Firm
  <2>8. /\ Firm(u)' = Firm(u) \ B
        /\ \A v \in Workers : v # u /\ v # w => Firm(v)' = Firm(v)
    BY <1>8, <2>2, <2>4, <2>5 DEF IsToldBy
  <2>9. "queue" \in Kinds /\ u \in Holders /\ w \in Holders
    BY DEF Kinds, Holders
  <2>10. ASSUME NEW c \in Copies, NEW n \in Kinds, NEW z \in Holders, Holds(n, z, c)'
         PROVE  \/ Holds(n, z, c) /\ ~ (c \in B /\ n = "queue" /\ z = u)
                \/ c \in B /\ n = "queue" /\ z = w
    BY <1>1, <1>3, <1>8, <2>5, <2>8, <2>10, HoldersNext DEF Holds
  <2>11. ASSUME NEW c \in Copies
         PROVE  Settles(c)
    <3>1. CASE c \notin B
      BY <2>10, <3>1 DEF Settles, OnlyWhereItWas
    <3>2. CASE c \in B
      <4>1. Holds("queue", u, c)
        BY <2>7, <3>2 DEF Holds
      <4>2. \A n \in Kinds, z \in Holders : Holds(n, z, c) => n = "queue" /\ z = u
        BY <2>9, <4>1 DEF PlacesAreSingle
      <4>3. \A n \in Kinds, z \in Holders : Holds(n, z, c)' => n = "queue" /\ z = w
        BY <2>10, <3>2, <4>2
      <4>4. WasSomewhere(c)
        BY <2>9, <4>1 DEF WasSomewhere
      <4>5. InOnePlace(c)
        BY <2>9, <4>3 DEF InOnePlace
      <4>6. QED
        BY <4>4, <4>5 DEF Settles
    <3>3. QED
      BY <3>1, <3>2
  <2>12. QED
    BY <1>1, <1>2, <2>11, SettledCopies
<1>9. QED
  BY <1>6, <1>7, <1>8

(* Every step that leaves the system quiet keeps each copy in one place. *)
LEMMA NextKeepsQuiet ==
  ASSUME Basics, QuietInv, [Next]_vars
  PROVE  QuietInv'
<1>1. SUFFICES ASSUME Quiet'
               PROVE  RequestsAreAwaited' /\ AcceptedIsConfirmed' /\ CopiesArePresent'
                        /\ PlacesAreSingle'
  BY DEF QuietInv
<1>2. CASE UNCHANGED vars
  <2>1. Quiet
    BY <1>1, <1>2 DEF Quiet, AllLinked, vars, p2pVars, linkVars
  <2>2. RequestsAreAwaited /\ AcceptedIsConfirmed /\ CopiesArePresent /\ PlacesAreSingle
    BY <2>1 DEF QuietInv
  <2>3. RequestsAreAwaited' /\ AcceptedIsConfirmed'
    BY <1>2, <2>2 DEF RequestsAreAwaited, AcceptedIsConfirmed, Awaits, vars, p2pVars
  <2>4. UNCHANGED <<taskState, assignmentWorker, sending, toWorker, toMaster, queue, monitor,
                    reported>>
    BY <1>2 DEF vars, coreVars, p2pVars, linkVars
  <2>5. \A v \in Workers : Firm(v)' = Firm(v)
    BY <2>4 DEF Firm, Kept
  <2>6. CopyOf(sending.task)' = CopyOf(sending.task)
    BY <2>4 DEF CopyOf
  <2>7. \A c \in Copies, n \in Kinds, z \in Holders : Holds(n, z, c)' => Holds(n, z, c)
    BY <2>4, <2>5, <2>6, HoldersNext DEF Holds
  <2>8. LinksAreOnce'
    BY <2>2, <2>4, OnceStays
  <2>9. QED
    BY <2>2, <2>3, <2>4, <2>7, <2>8, PlacesStay
<1>3. CASE Next
  <2>1. /\ Quiet /\ \A v \in Workers : running[v]
        /\ \/ Distribute \/ SendTask
           \/ \E w \in Workers :
                \/ ReceiveResult(w) \/ LearnSize(w) \/ HandleTask(w)
                \/ Processing(w) \/ P2PStep(w)
    BY <1>1, <1>3, QuietBefore
  <2>2. /\ RequestsAreAwaited /\ AcceptedIsConfirmed /\ CopiesArePresent /\ PlacesAreSingle
        /\ AllLinked
    BY <2>1 DEF QuietInv, Quiet
  <2>3. RequestsAreAwaited' /\ AcceptedIsConfirmed'
    BY <1>1, <1>3, <2>2, ServiceStaysQuiet
  <2>4. CASE Distribute \/ SendTask
    BY <2>2, <2>3, <2>4, DistributeKeepsPlaces, SendTaskKeepsPlaces
  <2>5. ASSUME NEW w \in Workers,
               \/ ReceiveResult(w) \/ LearnSize(w) \/ HandleTask(w)
               \/ Processing(w) \/ P2PStep(w)
        PROVE  CopiesArePresent' /\ PlacesAreSingle'
    BY <2>1, <2>2, <2>5, ReceiveResultKeepsPlaces, LearnSizeKeepsPlaces, HandleTaskKeepsPlaces,
       ProcessingKeepsPlaces, P2PStepKeepsPlaces
  <2>6. QED
    BY <2>1, <2>3, <2>4, <2>5
<1>4. QED
  BY <1>2, <1>3

-----------------------------------------------------------------------------
(* Every reachable state satisfies the invariant.                          *)

LEMMA InitInv == Init => Inv
<1>1. SUFFICES ASSUME Init PROVE Inv
  OBVIOUS
<1>2. Basics
  BY <1>1, InitBasics
<1>3. /\ sending = NotSending
      /\ \A w \in Workers :
           /\ queue[w] = EmptyQueue /\ monitor[w] = Idle /\ backlog[w] = <<>>
           /\ toWorker[w] = <<>> /\ toMaster[w] = <<>>
      /\ \A t \in Tasks : taskState[t] # "assigned"
  BY <1>1 DEF Init, P2PInit, CoreInit
<1>4. DOMAIN <<>> = {}
  OBVIOUS
<1>5. LossesAreExplained
  BY <1>3 DEF LossesAreExplained, LossIsExplained
<1>6. \A w \in Workers : Firm(w) = {}
  <2>1. KeptCopies(EmptyQueue) = {}
    BY EmptyQueueIsSound
  <2>2. QED
    BY <1>3, <2>1 DEF Firm, Kept, KeptBy
<1>7. \A c \in Copies, k \in Kinds, v \in Holders : ~ Holds(k, v, c)
  BY <1>3, <1>4, <1>6 DEF Holds, OnLink
<1>8. CopiesArePresent /\ PlacesAreSingle
  BY <1>3, <1>4, <1>7 DEF CopiesArePresent, PlacesAreSingle, OnceOnLink
<1>9. RequestsAreAwaited /\ AcceptedIsConfirmed
  BY <1>3, <1>4 DEF RequestsAreAwaited, AcceptedIsConfirmed, Idle
<1>10. QED
  BY <1>2, <1>5, <1>8, <1>9 DEF Inv, Basics, QuietInv

(* Whatever the workers do, and whatever is lost, each part keeps its      *)
(* invariant, every loss has one of its two explanations, and in a quiet   *)
(* system each copy is in one place.                                       *)
THEOREM SystemInvariant == Spec => []Inv
<1>1. Inv /\ [Next]_vars => Inv'
  <2>1. SUFFICES ASSUME Inv, [Next]_vars PROVE Inv'
    OBVIOUS
  <2>2. Basics /\ LossesAreExplained /\ QuietInv
    BY <2>1 DEF Inv, Basics
  <2>3. Basics' /\ LossesAreExplained' /\ QuietInv'
    BY <2>1, <2>2, NextKeepsBasics, NextKeepsLosses, NextKeepsQuiet
  <2>4. QED
    BY <2>3 DEF Inv, Basics
<1>2. QED
  BY <1>1, InitInv, PTL DEF Spec

-----------------------------------------------------------------------------
(* What the invariant says of the runs' properties.                        *)

(* The master's records, the queues, the monitors, the links and the       *)
(* counters of the faults have their types.                                *)
THEOREM TypesHold == Spec => []TypeOK
<1>1. ASSUME Inv PROVE TypeOK
  <2>1. CoreTypeOK /\ P2PTypeOK
    BY <1>1, P2PTypesHold DEF Inv, CoreInv
  <2>2. ASSUME NEW w \in Workers
        PROVE  /\ \A i \in DOMAIN toWorker[w] :
                    toWorker[w][i] \in [copy : Copies, retry : BOOLEAN]
               /\ \A i \in DOMAIN toMaster[w] :
                    toMaster[w][i] \in [copy : Copies, kind : {"success", "fail", "overflow"}]
    <3>1. toWorker[w] \in Seq(Commands) /\ toMaster[w] \in Seq(Results)
      BY <1>1 DEF Inv, LinkTypes
    <3>2. \A i \in DOMAIN toWorker[w] : toWorker[w][i] \in Commands
      BY <3>1, ElementOfSeq, LenProperties
    <3>3. \A i \in DOMAIN toMaster[w] : toMaster[w][i] \in Results
      BY <3>1, ElementOfSeq, LenProperties
    <3>4. QED
      BY <3>2, <3>3 DEF Commands, Results
  <2>3. QED
    BY <1>1, <2>1, <2>2 DEF Inv, LinkTypes, TypeOK
<1>2. QED
  BY <1>1, SystemInvariant, PTL

(* In the whole system too, a task is assigned to one worker, the one the  *)
(* master addressed it to, and that one is connected                       *)
(* (_clear_assignment_locked, _disconnect_worker).                         *)
THEOREM TasksAreAssignedToOne == Spec => []AssignedToOne
<1>1. Inv => AssignedToOne
  BY DEF Inv, CoreInv
<1>2. QED
  BY <1>1, SystemInvariant, PTL

(* No queue holds more than its capacity, with the master, the peers and   *)
(* its own processor all at work on it (try_enqueue, try_enqueue_many).    *)
THEOREM CapacityHolds == Spec => []QueuesWithinCapacity
<1>1. Inv => QueuesWithinCapacity
  BY QueuesStayWithinCapacity DEF Inv
<1>2. QED
  BY <1>1, SystemInvariant, PTL

(* A task the master waits for can be answered, or its assignee's link is  *)
(* lost, or it was ignored as a duplicate (_handle_task), or it was lost   *)
(* with a worker it had been moved to (_disconnect_worker).                *)
THEOREM LossesHaveReasons == Spec => []LossesExplained
<1>1. ASSUME Inv PROVE LossesExplained
  <2>1. ASSUME NEW t \in Tasks, FirmlyAnswerable(t) PROVE Answerable(t)
    <3>1. \A w \in Workers : Firm(w) \subseteq Unfinished(w)
      BY <1>1, UnfinishedCopies DEF Inv, Firm, Kept, KeptBy
    <3>2. QED
      BY <2>1, <3>1 DEF FirmlyAnswerable, Answerable, CopyOf
  <2>2. QED
    BY <1>1, <2>1 DEF Inv, LossesAreExplained, LossIsExplained, LossesExplained
<1>2. QED
  BY <1>1, SystemInvariant, PTL

(* What Places counts is where copies of the task are. *)
LEMMA PlacesHoldCopies ==
  ASSUME Inv, NEW t \in Tasks, NEW p \in Places(t)
  PROVE  \E k \in Kinds, v \in Holders, c \in Copies :
           /\ Holds(k, v, c) /\ c.id = t
           /\ p = <<k, IF k = "sending" THEN sending.worker ELSE v>>
<1>1. Basics
  BY DEF Inv, Basics
<1>2. /\ "sending" \in Kinds /\ "link" \in Kinds /\ "queue" \in Kinds /\ "result" \in Kinds
      /\ Nobody \in Holders /\ Workers \subseteq Holders
  BY DEF Kinds, Holders
<1>3. CASE sending.task = t /\ p = <<"sending", sending.worker>>
  <2>1. sending # NotSending
    BY <1>3, CountsAssumption DEF NotSending, Tasks
  <2>2. CopyOf(t) \in Copies /\ CopyOf(t).id = t
    BY <1>1, <1>3, <2>1, SentCopy DEF CopyOf
  <2>3. Holds("sending", Nobody, CopyOf(t))
    BY <1>3, <2>1 DEF Holds
  <2>4. QED
    BY <1>2, <1>3, <2>2, <2>3
<1>4. ASSUME NEW w \in Workers, NEW i \in DOMAIN toWorker[w], toWorker[w][i].copy.id = t,
             p = <<"link", w>>
      PROVE  \E k \in Kinds, v \in Holders, c \in Copies :
               /\ Holds(k, v, c) /\ c.id = t
               /\ p = <<k, IF k = "sending" THEN sending.worker ELSE v>>
  <2>1. toWorker[w] \in Seq(Commands)
    BY <1>1, TypesOfBasics
  <2>2. toWorker[w][i].copy \in Copies
    <3>1. toWorker[w][i] \in Commands
      BY <2>1, ElementOfSeq, LenProperties
    <3>2. QED
      BY <3>1 DEF Commands
  <2>3. Holds("link", w, toWorker[w][i].copy)
    BY DEF Holds, OnLink
  <2>4. QED
    BY <1>2, <1>4, <2>2, <2>3
<1>5. ASSUME NEW w \in Workers, NEW c \in Unfinished(w), c.id = t,
             ~ (Transferred(w) /\ t \in ReservedIds(queue[w])), p = <<"queue", w>>
      PROVE  \E k \in Kinds, v \in Holders, d \in Copies :
               /\ Holds(k, v, d) /\ d.id = t
               /\ p = <<k, IF k = "sending" THEN sending.worker ELSE v>>
  <2>1. /\ c \in KeptCopies(queue[w]) /\ c \in Copies
        /\ ~ (reported[w] /\ c \in queue[w].processing)
    BY <1>1, UnfinishedCopies, ActiveCopies DEF Basics
  <2>2. c \in ReservedCopies(queue[w]) => t \in ReservedIds(queue[w])
    BY <1>5 DEF ReservedCopies, ReservedIds
  <2>3. c \in Firm(w)
    BY <1>5, <2>1, <2>2 DEF Firm, Kept, KeptBy, Transferred
  <2>4. Holds("queue", w, c)
    BY <2>3 DEF Holds
  <2>5. QED
    BY <1>2, <1>5, <2>1, <2>4
<1>6. ASSUME NEW w \in Workers, NEW i \in DOMAIN toMaster[w], toMaster[w][i].copy.id = t,
             p = <<"result", w>>
      PROVE  \E k \in Kinds, v \in Holders, c \in Copies :
               /\ Holds(k, v, c) /\ c.id = t
               /\ p = <<k, IF k = "sending" THEN sending.worker ELSE v>>
  <2>1. toMaster[w] \in Seq(Results)
    BY <1>1, TypesOfBasics
  <2>2. toMaster[w][i].copy \in Copies
    <3>1. toMaster[w][i] \in Results
      BY <2>1, ElementOfSeq, LenProperties
    <3>2. QED
      BY <3>1 DEF Results
  <2>3. Holds("result", w, toMaster[w][i].copy)
    BY DEF Holds, OnLink
  <2>4. QED
    BY <1>2, <1>6, <2>2, <2>3
<1>7. QED
  BY <1>3, <1>4, <1>5, <1>6 DEF Places

(* Until a timeout or a lost link, a task is in at most one place where it *)
(* can be executed or its result awaited, and in none unless the master    *)
(* waits for it: overflows, failures, transfers and reassignments make no  *)
(* two workers do the same work (try_enqueue_many, confirm_transfer,       *)
(* _clear_assignment_locked).                                              *)
THEOREM NoWorkIsDoubled == Spec => []NoDuplicateWork
<1>1. ASSUME Inv, timeouts = 0, LostLinks = 0, NEW t \in Tasks
      PROVE  Cardinality(Places(t)) <= IF taskState[t] = "assigned" THEN 1 ELSE 0
  <2>1. AllLinked
    <3>1. IsFiniteSet({w \in Workers : ~ link[w]})
      BY WorkersAreFinite, FS_Subset
    <3>2. {w \in Workers : ~ link[w]} = {}
      BY <1>1, <3>1, FS_EmptySet DEF LostLinks
    <3>3. QED
      BY <3>2 DEF AllLinked
  <2>2. CopiesArePresent /\ PlacesAreSingle
    BY <1>1, <2>1 DEF Inv, QuietInv, Quiet
  <2>3. ASSUME NEW p \in Places(t)
        PROVE  taskState[t] = "assigned"
    BY <1>1, <2>2, PlacesHoldCopies DEF CopiesArePresent, IsPresent
  <2>4. ASSUME NEW p \in Places(t), NEW q \in Places(t)
        PROVE  p = q
    <3>1. PICK k \in Kinds, v \in Holders, c \in Copies :
            /\ Holds(k, v, c) /\ c.id = t
            /\ p = <<k, IF k = "sending" THEN sending.worker ELSE v>>
      BY <1>1, PlacesHoldCopies
    <3>2. PICK l \in Kinds, u \in Holders, d \in Copies :
            /\ Holds(l, u, d) /\ d.id = t
            /\ q = <<l, IF l = "sending" THEN sending.worker ELSE u>>
      BY <1>1, PlacesHoldCopies
    <3>3. c = d
      BY <2>2, <3>1, <3>2, SamePresent DEF CopiesArePresent
    <3>4. k = l /\ v = u
      BY <2>2, <3>1, <3>2, <3>3 DEF PlacesAreSingle
    <3>5. QED
      BY <3>1, <3>2, <3>4
  <2>5. CASE Places(t) = {}
    <3>1. Cardinality(Places(t)) = 0
      BY <2>5, FS_EmptySet
    <3>2. QED
      BY <3>1
  <2>6. CASE Places(t) # {}
    <3>1. PICK p : p \in Places(t)
      BY <2>6
    <3>2. Places(t) = {p}
      BY <2>4, <3>1
    <3>3. Cardinality(Places(t)) = 1
      BY <3>2, FS_Singleton
    <3>4. taskState[t] = "assigned"
      BY <2>3, <3>1
    <3>5. QED
      BY <3>3, <3>4
  <2>7. QED
    BY <2>5, <2>6
<1>2. Inv => NoDuplicateWork
  BY <1>1 DEF NoDuplicateWork
<1>3. QED
  BY <1>2, SystemInvariant, PTL

-----------------------------------------------------------------------------
(* The master's promise, kept by the whole system.                         *)

LEMMA LedgerNext == Inv /\ [Next]_vars => [Ledger!Next]_(Ledger!vars)
<1>1. SUFFICES ASSUME Inv, [Next]_vars PROVE Ledger!Next \/ UNCHANGED Ledger!vars
  OBVIOUS
<1>2. CoreInv /\ Basics
  BY <1>1 DEF Inv, Basics
<1>3. ASSUME UNCHANGED coreVars PROVE UNCHANGED Ledger!vars
  BY <1>3, LedgerStutter
<1>4. CASE UNCHANGED vars
  BY <1>3, <1>4 DEF vars
<1>5. CASE Distribute
  BY <1>2, <1>5, LedgerAssignNext, LedgerPutNextBack DEF Distribute
<1>6. CASE SendTask
  <2>1. UNCHANGED coreVars \/ DisconnectWorker(sending.worker)
    BY <1>6 DEF SendTask
  <2>2. sending.worker \in Workers
    BY <1>2, <1>6, SentCopy DEF SendTask
  <2>3. QED
    BY <1>2, <1>3, <2>1, <2>2, LedgerDisconnectWorker
<1>7. ASSUME NEW w \in Workers, ReceiveResult(w)
      PROVE  Ledger!Next \/ UNCHANGED Ledger!vars
  <2> DEFINE m == Head(toMaster[w])
  <2>1. m.copy.id \in Tasks /\ m.copy.by \in Workers
    BY <1>2, <1>7, FirstResult DEF ReceiveResult
  <2>2. IF ~ IsCurrent(m.copy.id, m.copy.by) THEN UNCHANGED coreVars
        ELSE IF m.kind = "success" THEN RecordSuccess(m.copy.id)
        ELSE RecordFailure(w, m.copy.id, m.kind = "overflow")
    BY <1>7 DEF ReceiveResult
  <2>3. (m.kind = "overflow") \in BOOLEAN
    OBVIOUS
  <2> HIDE DEF m
  <2>4. CASE ~ IsCurrent(m.copy.id, m.copy.by)
    BY <1>3, <2>2, <2>4
  <2>5. CASE IsCurrent(m.copy.id, m.copy.by)
    BY <1>2, <2>1, <2>2, <2>3, <2>5, LedgerRecordSuccess, LedgerRecordFailure
  <2>6. QED
    BY <2>4, <2>5
<1>8. ASSUME NEW w \in Workers, ReceiveEnd(w) \/ LearnSize(w)
      PROVE  Ledger!Next \/ UNCHANGED Ledger!vars
  BY <1>2, <1>8, LedgerDisconnectWorker, LedgerUpdateStatus DEF ReceiveEnd, LearnSize
<1>9. ASSUME NEW w \in Workers,
             HandleTask(w) \/ Processing(w) \/ P2PStep(w) \/ LoseLink(w) \/ StopWorker(w)
      PROVE  UNCHANGED coreVars
  BY <1>9 DEF HandleTask, Processing, DequeueForProcessing, MarkProcessingDone, SendResult,
     P2PStep, LoseLink, StopWorker
<1>10. QED
  BY <1>1, <1>3, <1>4, <1>5, <1>6, <1>7, <1>8, <1>9 DEF Next

(* With real queues, transfers and links around it, the master still does  *)
(* what TaskLedger promises: a task is with one worker at a time, never    *)
(* with the one that gave it back last, and what is stored stays stored    *)
(* (_record_success, _record_failure, _disconnect_worker).                 *)
THEOREM SystemImplementsLedger == Spec => ImplementsLedger
<1>1. Init => Ledger!Init
  BY LedgerInit DEF Init
<1>2. QED
  BY <1>1, LedgerNext, SystemInvariant, PTL DEF Spec, ImplementsLedger, Ledger!Spec
=============================================================================
