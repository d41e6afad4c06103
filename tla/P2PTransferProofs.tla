------------------------- MODULE P2PTransferProofs -------------------------
(***************************************************************************)
(* What every step of the workers' P2P service keeps, for any number of    *)
(* workers, any capacity and whatever else happens on the workers between  *)
(* two of its steps.  The specifications that the service is a part of use *)
(* these lemmas.                                                           *)
(***************************************************************************)
EXTENDS P2PTransfer, ReadyQueueOpsProofs, WellFoundedInduction

-----------------------------------------------------------------------------
(***************************************************************************)
(* The inductive invariant of the service.  A worker's queue is safe only  *)
(* together with its monitor's copies being the reserved ones; an answer   *)
(* is right only because a request that is still awaited lies at the peer  *)
(* it was sent to, carries what is still held, and has been answered just  *)
(* as the peer has noted; and the transfers keep their ids within their    *)
(* bound because those being prepared count already.                       *)
(***************************************************************************)
QueuesAreSafe ==
  /\ queue \in [Workers -> Queues(Copies)]
  /\ \A w \in Workers : SoundQueue(Copies, queue[w]) /\ Size(queue[w]) <= Capacity

Rooms == UNION {[peers -> 0 .. Capacity] : peers \in SUBSET Workers}

MonitorStates ==
  [step : Steps, room : Rooms, peer : Workers \cup {Nobody}, todo : Seq(Tasks),
   held : Seq(Copies), request : Nat, answer : {"none", "accepted", "refused"}]

\* A monitor m of worker w, whose queue is q.
MonitorIsSafe(w, m, q) ==
  /\ m \in MonitorStates
  /\ m.peer # w
  /\ m.step \notin {"idle", "asking"} => m.peer \in Workers
  /\ m.step \in {"waiting", "confirming", "releasing"} => m.held # <<>>
  /\ m.step \in {"idle", "asking"} => m.held = <<>>
  /\ m.step \in {"idle", "asking", "reserving"} => m.answer = "none"
  /\ m.step = "confirming" => m.answer = "accepted"
  /\ HoldsReserved(m.held, q)

MonitorsAreSafe ==
  /\ DOMAIN monitor = Workers /\ monitor \in [Workers -> MonitorStates]
  /\ \A w \in Workers : MonitorIsSafe(w, monitor[w], queue[w])

Requests == [request : Nat \ {0}, from : Workers, tasks : Seq(Copies)]

\* Only requests that were sent are known.
ServersAreSafe ==
  /\ backlog \in [Workers -> Seq(Requests)]
  /\ DOMAIN handled = Workers
  /\ \A w \in Workers : monitor[w].request <= transfers
  /\ \A w \in Workers : \A i \in DOMAIN backlog[w] : backlog[w][i].request <= transfers
  /\ \A w \in Workers :
       /\ DOMAIN handled[w] \subseteq 1 .. transfers
       /\ \A r \in DOMAIN handled[w] : handled[w][r] \in BOOLEAN

Awaits(v, r) == monitor[v].step = "waiting" /\ monitor[v].request = r.request

AwaitedRequestsMatch ==
  \A w \in Workers : \A i \in DOMAIN backlog[w] : \A v \in Workers :
    Awaits(v, backlog[w][i]) =>
      /\ backlog[w][i].from = v
      /\ monitor[v].peer = w
      /\ monitor[v].held = backlog[w][i].tasks

AnswersMatch ==
  \A w \in Workers : monitor[w].step = "waiting" =>
    LET answers == handled[monitor[w].peer]
        request == monitor[w].request
    IN  /\ running[w] /\ request \in DOMAIN answers => monitor[w].answer # "none"
        /\ monitor[w].answer # "none" =>
             /\ request \in DOMAIN answers
             /\ monitor[w].answer = IF answers[request] THEN "accepted" ELSE "refused"

BoundsAreKept ==
  /\ running \in [Workers -> BOOLEAN]
  /\ transfers \in Nat
  /\ transfers + Cardinality({v \in Workers : Preparing(v)}) <= MaxTransfers
  /\ timeouts \in 0 .. MaxTimeouts

P2PInv ==
  /\ QueuesAreSafe
  /\ MonitorsAreSafe
  /\ ServersAreSafe
  /\ AwaitedRequestsMatch
  /\ AnswersMatch
  /\ BoundsAreKept

-----------------------------------------------------------------------------
(* Finite sets, least elements, and the first state.                       *)

LEMMA WorkersAreFinite ==
  /\ IsFiniteSet(Workers) /\ Cardinality(Workers) \in Nat
  /\ \A S \in SUBSET Workers : IsFiniteSet(S) /\ Cardinality(S) \in Nat
<1>1. 1 \in Int /\ WorkerCount \in Int
  BY CountsAssumption
<1>2. IsFiniteSet(1 .. WorkerCount)
  BY ONLY <1>1, FS_Interval
<1>3. IsFiniteSet(Workers)
  BY <1>2 DEF Workers
<1>4. QED
  BY <1>3, FS_Subset, FS_CardinalityType

(* What remains of a sequence was in it. *)
LEMMA RemovedFrom ==
  ASSUME NEW S, NEW s \in Seq(S), NEW k \in DOMAIN s
  PROVE  /\ RemoveAt(s, k) \in Seq(S)
         /\ \A i \in DOMAIN RemoveAt(s, k) : \E j \in DOMAIN s : RemoveAt(s, k)[i] = s[j]
<1> DEFINE r == RemoveAt(s, k)
<1>1. /\ r \in Seq(S) /\ DOMAIN r = 1 .. Len(s) - 1
      /\ \A i \in 1 .. Len(s) - 1 : r[i] = s[IF i < k THEN i ELSE i + 1]
  BY RemovedElement
<1> HIDE DEF r
<1>2. Len(s) \in Nat /\ DOMAIN s = 1 .. Len(s)
  BY LenProperties
<1>3. ASSUME NEW i \in DOMAIN r
      PROVE  \E j \in DOMAIN s : r[i] = s[j]
  <2>1. i \in DOMAIN s /\ i + 1 \in DOMAIN s
    BY <1>1, <1>2
  <2>2. r[i] = s[i] \/ r[i] = s[i + 1]
    BY <1>1
  <2>3. QED
    BY <2>1, <2>2
<1>4. QED
  BY <1>1, <1>3 DEF r

(* A set of numbers has a least one. *)
LEMMA LeastExists ==
  ASSUME NEW S \in SUBSET Nat, S # {}
  PROVE  \E m \in S : \A v \in S : m <= v
<1> DEFINE R == OpToRel(<, Nat)
<1>1. IsWellFoundedOn(R, Nat)
  BY NatLessThanWellFounded
<1>2. R = {ss \in Nat \X Nat : ss[1] < ss[2]}
  BY DEF OpToRel
<1> HIDE DEF R
<1>3. PICK m \in S : \A v \in S : <<v, m>> \notin R
  BY <1>1, WFMin
<1>4. ASSUME NEW v \in S PROVE m <= v
  <2>1. <<v, m>> \notin R /\ <<v, m>> \in Nat \X Nat
    BY <1>3
  <2>2. ~ (v < m)
    BY <1>2, <2>1
  <2>3. QED
    BY <2>2
<1>5. QED
  BY <1>4

LEMMA InitP2PInv == P2PInit => P2PInv
<1>1. SUFFICES ASSUME P2PInit PROVE P2PInv
  OBVIOUS
<1>2. SoundQueue(Copies, EmptyQueue) /\ KeptCopies(EmptyQueue) = {} /\ Size(EmptyQueue) = 0
  BY EmptyQueueIsSound
<1>3. queue = [w \in Workers |-> EmptyQueue] /\ EmptyQueue.reserved = {}
  BY <1>1 DEF P2PInit, EmptyQueue
<1>4. QueuesAreSafe
  BY <1>2, <1>3, CapacityAssumption DEF QueuesAreSafe, SoundQueue
<1>5. <<>> \in Seq(Tasks) /\ <<>> \in Seq(Copies) /\ <<>> \in Seq(Requests) /\ DOMAIN <<>> = {}
  BY EmptySeq
<1>6. NoAnswers \in Rooms
  <2>1. NoAnswers \in [{} -> 0 .. Capacity] /\ {} \in SUBSET Workers
    BY DEF NoAnswers
  <2>2. QED
    BY <2>1 DEF Rooms
<1>7. Idle \in MonitorStates
  BY <1>5, <1>6 DEF Idle, MonitorStates, Steps
<1>8. ASSUME NEW q, q.reserved = {}
      PROVE  HoldsReserved(<<>>, q)
  BY <1>8 DEF HoldsReserved, Distinct, ToSet
<1>9. \A w \in Workers : MonitorIsSafe(w, Idle, queue[w])
  <2>1. \A w \in Workers : w # Nobody
    BY DEF Workers, Nobody
  <2>2. \A w \in Workers : HoldsReserved(<<>>, queue[w])
    BY <1>3, <1>8
  <2>3. QED
    BY <1>7, <2>1, <2>2 DEF MonitorIsSafe, Idle
<1>10. monitor = [w \in Workers |-> Idle] /\ Idle.step = "idle" /\ Idle.request = 0
  BY <1>1 DEF P2PInit, Idle
<1>11. MonitorsAreSafe
  BY <1>7, <1>9, <1>10 DEF MonitorsAreSafe
<1>12. ServersAreSafe
  BY <1>1, <1>5, <1>10 DEF ServersAreSafe, P2PInit
<1>13. AwaitedRequestsMatch /\ AnswersMatch
  BY <1>1, <1>5, <1>10 DEF AwaitedRequestsMatch, AnswersMatch, P2PInit
<1>14. BoundsAreKept
  <2>1. {v \in Workers : Preparing(v)} = {}
    BY <1>10 DEF Preparing
  <2>2. Cardinality({v \in Workers : Preparing(v)}) = 0
    BY <2>1, FS_EmptySet
  <2>3. QED
    BY <1>1, <2>2, P2PAssumption DEF BoundsAreKept, P2PInit
<1>15. QED
  BY <1>4, <1>11, <1>12, <1>13, <1>14 DEF P2PInv

-----------------------------------------------------------------------------
(* The parts of the invariant that a step of one worker keeps.             *)

PreparingWorkers == {v \in Workers : Preparing(v)}

(* A new queue and a new monitor of one worker. *)
LEMMA OneQueueChanges ==
  ASSUME QueuesAreSafe, MonitorsAreSafe, NEW w \in Workers, NEW q, NEW m,
         SoundQueue(Copies, q), Size(q) <= Capacity, MonitorIsSafe(w, m, q),
         queue' = [queue EXCEPT ![w] = q],
         monitor' = [monitor EXCEPT ![w] = m]
  PROVE  QueuesAreSafe' /\ MonitorsAreSafe'
<1>1. queue \in [Workers -> Queues(Copies)] /\ q \in Queues(Copies)
  BY DEF QueuesAreSafe, SoundQueue
<1>2. /\ queue' \in [Workers -> Queues(Copies)]
      /\ queue'[w] = q /\ \A v \in Workers \ {w} : queue'[v] = queue[v]
  BY <1>1
<1>3. monitor \in [Workers -> MonitorStates] /\ m \in MonitorStates
  BY DEF MonitorsAreSafe, MonitorIsSafe
<1>4. /\ monitor' \in [Workers -> MonitorStates]
      /\ monitor'[w] = m /\ \A v \in Workers \ {w} : monitor'[v] = monitor[v]
  BY <1>3
<1>5. QueuesAreSafe'
  BY <1>2 DEF QueuesAreSafe
<1>6. \A v \in Workers : MonitorIsSafe(v, monitor'[v], queue'[v])
  BY <1>2, <1>4 DEF MonitorsAreSafe
<1>7. MonitorsAreSafe'
  BY <1>4, <1>6 DEF MonitorsAreSafe
<1>8. QED
  BY <1>5, <1>7

(* A monitor counts as preparing only while the bound leaves it an id. *)
LEMMA PreparingKeepsBound ==
  ASSUME BoundsAreKept, MonitorsAreSafe, NEW w \in Workers, NEW m,
         monitor' = [monitor EXCEPT ![w] = m],
         m.step \in {"asking", "reserving"} =>
           Preparing(w) \/ transfers + Cardinality(PreparingWorkers) < MaxTransfers,
         transfers' = transfers
  PROVE  transfers' + Cardinality(PreparingWorkers') <= MaxTransfers
<1> DEFINE A == PreparingWorkers
           B == PreparingWorkers'
<1>1. /\ monitor'[w] = m /\ \A v \in Workers \ {w} : monitor'[v] = monitor[v]
  BY DEF MonitorsAreSafe
<1>2. /\ A = {v \in Workers : monitor[v].step \in {"asking", "reserving"}}
      /\ B = {v \in Workers : monitor'[v].step \in {"asking", "reserving"}}
  BY DEF PreparingWorkers, Preparing
<1>3. w \in A <=> Preparing(w)
  BY <1>2 DEF Preparing
<1>4. B \subseteq A \cup {w} /\ (m.step \notin {"asking", "reserving"} => B \subseteq A)
  BY <1>1, <1>2
<1>5. /\ IsFiniteSet(A) /\ Cardinality(A) \in Nat /\ Cardinality(B) \in Nat
      /\ IsFiniteSet(A \cup {w})
  <2>1. A \in SUBSET Workers /\ B \in SUBSET Workers /\ A \cup {w} \in SUBSET Workers
    BY <1>2
  <2>2. QED
    BY <2>1, WorkersAreFinite
<1>6. transfers \in Nat /\ transfers + Cardinality(A) <= MaxTransfers
  BY DEF BoundsAreKept, PreparingWorkers
<1>7. CASE B \subseteq A
  <2>1. Cardinality(B) <= Cardinality(A)
    BY <1>5, <1>7, FS_Subset
  <2>2. QED
    BY <1>5, <1>6, <2>1, P2PAssumption
<1>8. CASE ~ (B \subseteq A)
  <2>1. w \notin A /\ m.step \in {"asking", "reserving"}
    BY <1>4, <1>8
  <2>2. transfers + Cardinality(A) < MaxTransfers
    BY <1>3, <2>1
  <2>3. Cardinality(A \cup {w}) = Cardinality(A) + 1
    BY <1>5, <2>1, FS_AddElement
  <2>4. Cardinality(B) <= Cardinality(A \cup {w})
    BY <1>4, <1>5, FS_Subset
  <2>5. QED
    BY <1>5, <1>6, <2>2, <2>3, <2>4, P2PAssumption
<1>9. QED
  BY <1>7, <1>8

(* A step of a monitor after which it does not wait; requests may be lost  *)
(* meanwhile.                                                              *)
LEMMA OneMonitorMoves ==
  ASSUME P2PInv, NEW w \in Workers, NEW q, NEW m,
         SoundQueue(Copies, q), Size(q) <= Capacity, MonitorIsSafe(w, m, q),
         m.step # "waiting", m.request <= transfers,
         m.step \in {"asking", "reserving"} =>
           Preparing(w) \/ transfers + Cardinality(PreparingWorkers) < MaxTransfers,
         queue' = [queue EXCEPT ![w] = q],
         monitor' = [monitor EXCEPT ![w] = m],
         backlog' \in [Workers -> Seq(Requests)],
         \A v \in Workers : \A i \in DOMAIN backlog'[v] :
           \E j \in DOMAIN backlog[v] : backlog'[v][i] = backlog[v][j],
         handled' = handled, running' = running, transfers' = transfers,
         timeouts' \in 0 .. MaxTimeouts
  PROVE  P2PInv'
<1>1. QueuesAreSafe' /\ MonitorsAreSafe'
  BY OneQueueChanges DEF P2PInv
<1>2. BoundsAreKept'
  BY PreparingKeepsBound DEF P2PInv, BoundsAreKept, PreparingWorkers
<1>3. /\ monitor \in [Workers -> MonitorStates]
      /\ monitor'[w] = m /\ \A v \in Workers \ {w} : monitor'[v] = monitor[v]
  BY DEF P2PInv, MonitorsAreSafe
<1>4. ServersAreSafe'
  BY <1>3 DEF P2PInv, ServersAreSafe
<1>5. ASSUME NEW v \in Workers, monitor'[v].step = "waiting"
      PROVE  v # w /\ monitor'[v] = monitor[v]
  BY <1>3, <1>5
<1>6. AwaitedRequestsMatch'
  <2>1. SUFFICES ASSUME NEW v \in Workers, NEW i \in DOMAIN backlog'[v], NEW u \in Workers,
                        monitor'[u].step = "waiting",
                        monitor'[u].request = backlog'[v][i].request
                 PROVE  /\ backlog'[v][i].from = u
                        /\ monitor'[u].peer = v
                        /\ monitor'[u].held = backlog'[v][i].tasks
    BY DEF AwaitedRequestsMatch, Awaits
  <2>2. PICK j \in DOMAIN backlog[v] : backlog'[v][i] = backlog[v][j]
    BY <2>1
  <2>3. monitor'[u] = monitor[u]
    BY <1>5, <2>1
  <2>4. Awaits(u, backlog[v][j])
    BY <2>1, <2>2, <2>3 DEF Awaits
  <2>5. /\ backlog[v][j].from = u
        /\ monitor[u].peer = v
        /\ monitor[u].held = backlog[v][j].tasks
    BY <2>4 DEF P2PInv, AwaitedRequestsMatch
  <2>6. QED
    BY <2>2, <2>3, <2>5
<1>7. AnswersMatch'
  BY <1>5 DEF P2PInv, AnswersMatch
<1>8. QED
  BY <1>1, <1>2, <1>4, <1>6, <1>7 DEF P2PInv

-----------------------------------------------------------------------------
(* The steps of a monitor, until it sends a transfer.                      *)

(* What the invariant says of one worker. *)
LEMMA OfOneWorker ==
  ASSUME P2PInv, NEW w \in Workers
  PROVE  /\ SoundQueue(Copies, queue[w]) /\ queue[w] \in Queues(Copies)
         /\ Size(queue[w]) \in Nat /\ Size(queue[w]) <= Capacity
         /\ queue = [queue EXCEPT ![w] = queue[w]]
         /\ monitor[w] \in MonitorStates
         /\ MonitorIsSafe(w, monitor[w], queue[w])
         /\ monitor[w].request \in Nat /\ monitor[w].request <= transfers
         /\ transfers \in Nat
         /\ backlog \in [Workers -> Seq(Requests)]
         /\ timeouts \in 0 .. MaxTimeouts
<1>1. /\ SoundQueue(Copies, queue[w]) /\ queue[w] \in Queues(Copies)
      /\ Size(queue[w]) <= Capacity
      /\ queue \in [Workers -> Queues(Copies)]
  BY DEF P2PInv, QueuesAreSafe
<1>2. Size(queue[w]) \in Nat
  BY <1>1, QueueFields DEF SoundQueue
<1>3. monitor[w] \in MonitorStates /\ MonitorIsSafe(w, monitor[w], queue[w])
  BY DEF P2PInv, MonitorsAreSafe
<1>4. monitor[w].request \in Nat /\ monitor[w].request <= transfers
  BY <1>3 DEF P2PInv, ServersAreSafe, MonitorStates
<1>5. /\ backlog \in [Workers -> Seq(Requests)] /\ transfers \in Nat
      /\ timeouts \in 0 .. MaxTimeouts
  BY DEF P2PInv, ServersAreSafe, BoundsAreKept
<1>6. QED
  BY <1>1, <1>2, <1>3, <1>4, <1>5

(* A step in which nobody's queue changes and no request is lost. *)
LEMMA OnlyMonitorMoves ==
  ASSUME P2PInv, NEW w \in Workers, NEW m,
         MonitorIsSafe(w, m, queue[w]),
         m.step # "waiting", m.request <= transfers,
         m.step \in {"asking", "reserving"} =>
           Preparing(w) \/ transfers + Cardinality(PreparingWorkers) < MaxTransfers,
         monitor' = [monitor EXCEPT ![w] = m],
         UNCHANGED <<queue, backlog, handled, running, transfers>>,
         timeouts' \in 0 .. MaxTimeouts
  PROVE  P2PInv'
<1>1. /\ SoundQueue(Copies, queue[w]) /\ Size(queue[w]) <= Capacity
      /\ queue' = [queue EXCEPT ![w] = queue[w]]
      /\ backlog' \in [Workers -> Seq(Requests)]
  BY OfOneWorker
<1>2. \A v \in Workers : \A i \in DOMAIN backlog'[v] :
        \E j \in DOMAIN backlog[v] : backlog'[v][i] = backlog[v][j]
  OBVIOUS
<1>3. handled' = handled /\ running' = running /\ transfers' = transfers
  OBVIOUS
<1>4. QED
  BY <1>1, <1>2, <1>3, OneMonitorMoves

(* The monitor that has put everything away. *)
LEMMA IdleMonitor ==
  ASSUME P2PInv, NEW w \in Workers, NEW q, HoldsReserved(<<>>, q)
  PROVE  /\ MonitorIsSafe(w, Idle, q)
         /\ MonitorIsSafe(w, [Idle EXCEPT !.step = "asking"], q)
         /\ Idle.request <= transfers /\ Idle.request = 0
<1>1. <<>> \in Seq(Tasks) /\ <<>> \in Seq(Copies)
  BY EmptySeq
<1>2. NoAnswers \in Rooms
  <2>1. NoAnswers \in [{} -> 0 .. Capacity] /\ {} \in SUBSET Workers
    BY DEF NoAnswers
  <2>2. QED
    BY <2>1 DEF Rooms
<1>3. w # Nobody
  BY DEF Workers, Nobody
<1>4. transfers \in Nat
  BY DEF P2PInv, BoundsAreKept
<1> DEFINE asking == [Idle EXCEPT !.step = "asking"]
<1>5. /\ Idle.step = "idle" /\ Idle.peer = Nobody /\ Idle.held = <<>>
      /\ Idle.answer = "none" /\ Idle.request = 0
      /\ asking.step = "asking" /\ asking.peer = Nobody /\ asking.held = <<>>
      /\ asking.answer = "none"
  BY DEF Idle
<1>6. Idle \in MonitorStates /\ asking \in MonitorStates
  BY <1>1, <1>2 DEF Idle, MonitorStates, Steps
<1> HIDE DEF asking
<1>7. MonitorIsSafe(w, Idle, q) /\ MonitorIsSafe(w, asking, q)
  BY <1>3, <1>5, <1>6 DEF MonitorIsSafe
<1>8. QED
  BY <1>4, <1>5, <1>7 DEF asking

LEMMA NoticeOverloadKeepsInv ==
  ASSUME P2PInv, NEW w \in Workers, NoticeOverload(w)
  PROVE  P2PInv'
<1> DEFINE m == [Idle EXCEPT !.step = "asking"]
<1>1. /\ monitor[w].step = "idle"
      /\ transfers + Cardinality(PreparingWorkers) < MaxTransfers
      /\ monitor' = [monitor EXCEPT ![w] = m]
      /\ UNCHANGED <<queue, backlog, handled, running, transfers, timeouts>>
  BY DEF NoticeOverload, At, Continue, PreparingWorkers
<1>2. HoldsReserved(<<>>, queue[w])
  BY <1>1, OfOneWorker DEF MonitorIsSafe
<1>3. MonitorIsSafe(w, m, queue[w])
  BY <1>2, IdleMonitor
<1>4. m.step = "asking" /\ m.request = 0 /\ transfers \in Nat
  BY OfOneWorker DEF Idle
<1> HIDE DEF m
<1>5. m.step # "waiting" /\ m.request <= transfers
  BY <1>4
<1>6. timeouts' \in 0 .. MaxTimeouts
  BY <1>1, OfOneWorker
<1>7. QED
  BY <1>1, <1>3, <1>5, <1>6, OnlyMonitorMoves

(* The room that a peer answers with is added to the earlier answers. *)
LEMMA OneMoreRoom ==
  ASSUME NEW room \in Rooms, NEW p \in Workers, NEW n \in 0 .. Capacity
  PROVE  Extended(room, p, n) \in Rooms
<1>1. PICK peers \in SUBSET Workers : room \in [peers -> 0 .. Capacity]
  BY DEF Rooms
<1>2. Extended(room, p, n) \in [peers \cup {p} -> 0 .. Capacity]
  BY <1>1 DEF Extended
<1>3. peers \cup {p} \in SUBSET Workers
  BY <1>1
<1>4. QED
  BY <1>2, <1>3 DEF Rooms

LEMMA AskPeerKeepsInv ==
  ASSUME P2PInv, NEW w \in Workers, AskPeer(w)
  PROVE  P2PInv'
<1> DEFINE unasked == Peers(w) \ DOMAIN monitor[w].room
           p == CHOOSE q \in unasked : \A v \in unasked : q <= v
<1>1. PICK room \in 0 .. Capacity :
        /\ monitor[w].step = "asking" /\ unasked # {}
        /\ Answers(p, room)
        /\ monitor' = [monitor EXCEPT ![w] =
                         [monitor[w] EXCEPT !.room = Extended(@, p, room)]]
        /\ UNCHANGED <<queue, backlog, handled, running, transfers>>
  BY DEF AskPeer, At, Continue
<1>2. p \in Workers
  <2>1. unasked \in SUBSET Nat /\ unasked \subseteq Workers
    BY DEF Peers, Workers
  <2>2. \E q \in unasked : \A v \in unasked : q <= v
    BY <1>1, <2>1, LeastExists
  <2>3. QED
    BY <2>1, <2>2
<1>3. timeouts' \in 0 .. MaxTimeouts
  BY <1>1, OfOneWorker, P2PAssumption DEF Answers
<1> HIDE DEF unasked, p
<1>4. /\ monitor[w] \in MonitorStates /\ MonitorIsSafe(w, monitor[w], queue[w])
      /\ monitor[w].request <= transfers /\ monitor[w].room \in Rooms
  BY OfOneWorker DEF MonitorStates
<1> DEFINE m == [monitor[w] EXCEPT !.room = Extended(@, p, room)]
<1>5. Extended(monitor[w].room, p, room) \in Rooms
  BY <1>2, <1>4, OneMoreRoom
<1>6. /\ m \in MonitorStates
      /\ m.step = "asking" /\ m.request = monitor[w].request
      /\ m.peer = monitor[w].peer /\ m.held = monitor[w].held /\ m.answer = monitor[w].answer
  BY <1>1, <1>4, <1>5 DEF MonitorStates
<1>7. monitor' = [monitor EXCEPT ![w] = m]
  BY <1>1
<1> HIDE DEF m
<1>8. MonitorIsSafe(w, m, queue[w])
  BY <1>1, <1>4, <1>6 DEF MonitorIsSafe
<1>9. Preparing(w)
  BY <1>1 DEF Preparing
<1>10. m.step # "waiting" /\ m.request <= transfers
  BY <1>4, <1>6
<1>11. QED
  BY <1>1, <1>3, <1>7, <1>8, <1>9, <1>10, OnlyMonitorMoves

(* The peer with the most room, and of those the first. *)
LEMMA BestPeerExists ==
  ASSUME NEW room \in Rooms,
         {p \in DOMAIN room : room[p] > 0} # {}
  PROVE  LET open == {p \in DOMAIN room : room[p] > 0}
         IN  \E p \in open : \A v \in open :
               room[p] > room[v] \/ (room[p] = room[v] /\ p <= v)
<1> DEFINE open == {p \in DOMAIN room : room[p] > 0}
           lacks == {Capacity - room[p] : p \in open}
<1>1. /\ open # {} /\ open \in SUBSET Nat
      /\ \A p \in open : room[p] \in 0 .. Capacity
  <2>1. PICK peers \in SUBSET Workers : room \in [peers -> 0 .. Capacity]
    BY DEF Rooms
  <2>2. \A p \in peers : room[p] \in 0 .. Capacity /\ p \in Nat
    BY <2>1 DEF Workers
  <2>3. open \subseteq peers
    BY <2>1
  <2> HIDE DEF open
  <2>4. QED
    BY <2>2, <2>3 DEF open
<1> HIDE DEF open
<1>2. lacks # {} /\ lacks \in SUBSET Nat
  <2>1. \A p \in open : Capacity - room[p] \in Nat
    BY <1>1, CapacityAssumption
  <2>2. QED
    BY <1>1, <2>1
<1>3. PICK least \in lacks : \A n \in lacks : least <= n
  BY <1>2, LeastExists
<1> DEFINE ties == {p \in open : Capacity - room[p] = least}
<1>4. ties # {} /\ ties \in SUBSET Nat
  BY <1>1, <1>3
<1>5. PICK p \in ties : \A v \in ties : p <= v
  BY <1>4, LeastExists
<1>6. ASSUME NEW v \in open
      PROVE  room[p] > room[v] \/ (room[p] = room[v] /\ p <= v)
  <2>1. /\ room[p] \in 0 .. Capacity /\ room[v] \in 0 .. Capacity
        /\ Capacity - room[p] = least
    BY <1>1, <1>5
  <2>2. least <= Capacity - room[v]
    BY <1>3
  <2>3. CASE room[v] = room[p]
    BY <1>5, <2>1, <2>3
  <2>4. CASE room[v] # room[p]
    BY <2>1, <2>2, <2>4, CapacityAssumption
  <2>5. QED
    BY <2>3, <2>4
<1>7. QED
  BY <1>5, <1>6 DEF open

LEMMA ChoosePeerKeepsInv ==
  ASSUME P2PInv, NEW w \in Workers, NEW n \in Int, ChoosePeer(w, n)
  PROVE  P2PInv'
<1> DEFINE room == monitor[w].room
           open == {p \in DOMAIN room : room[p] > 0}
           best == CHOOSE p \in open : \A v \in open :
                     room[p] > room[v] \/ (room[p] = room[v] /\ p <= v)
           k == IF n < room[best] THEN n ELSE room[best]
           picked == Candidates(queue[w], k)
           ids == [i \in DOMAIN picked |-> picked[i].id]
           m == [Idle EXCEPT !.step = "reserving", !.peer = best, !.todo = ids]
<1>1. /\ monitor[w].step = "asking" /\ DOMAIN room = Peers(w)
      /\ monitor' = [monitor EXCEPT ![w] = IF open = {} THEN Idle ELSE m]
      /\ UNCHANGED <<queue, backlog, handled, running, transfers>>
      /\ timeouts' = timeouts
  BY DEF ChoosePeer, At, Continue
<1>2. timeouts' \in 0 .. MaxTimeouts
  BY <1>1, OfOneWorker
<1>3. HoldsReserved(<<>>, queue[w])
  BY <1>1, OfOneWorker DEF MonitorIsSafe
<1>4. MonitorIsSafe(w, Idle, queue[w]) /\ Idle.request <= transfers /\ Idle.request = 0
  BY <1>3, IdleMonitor
<1>5. CASE open = {}
  <2>1. Idle.step = "idle"
    BY DEF Idle
  <2>2. monitor' = [monitor EXCEPT ![w] = Idle]
    BY <1>1, <1>5
  <2>3. QED
    BY <1>1, <1>2, <1>4, <2>1, <2>2, OnlyMonitorMoves
<1>6. CASE open # {}
  <2>1. room \in Rooms
    BY OfOneWorker DEF MonitorStates
  <2>2. best \in open
    <3>1. \E p \in open : \A v \in open : room[p] > room[v] \/ (room[p] = room[v] /\ p <= v)
      BY <1>6, <2>1, BestPeerExists
    <3>2. QED
      BY <3>1
  <2> HIDE DEF best
  <2>3. best \in Workers \ {w} /\ k \in Int
    <3>1. PICK peers \in SUBSET Workers : room \in [peers -> 0 .. Capacity]
      BY <2>1 DEF Rooms
    <3>2. QED
      BY <1>1, <2>2, <3>1 DEF Peers
  <2> HIDE DEF k
  <2>4. picked \in Seq(Copies)
    BY <2>3, OfOneWorker, CandidatesAreCopies
  <2> HIDE DEF picked
  <2>5. Len(picked) \in Nat /\ DOMAIN picked = 1 .. Len(picked)
    BY <2>4, LenProperties
  <2>6. \A i \in DOMAIN picked : picked[i] \in Copies
    BY <2>4, <2>5, ElementOfSeq
  <2>7. ids \in [1 .. Len(picked) -> Tasks]
    BY <2>5, <2>6 DEF Copies
  <2> HIDE DEF ids
  <2>8. ids \in Seq(Tasks)
    BY <2>5, <2>7, SeqDef
  <2>9. /\ m.step = "reserving" /\ m.peer = best /\ m.held = <<>>
        /\ m.answer = "none" /\ m.request = 0
    BY DEF Idle
  <2>10. m \in MonitorStates
    BY <1>4, <2>3, <2>8 DEF MonitorIsSafe, MonitorStates, Steps
  <2> HIDE DEF m
  <2>11. MonitorIsSafe(w, m, queue[w])
    BY <1>3, <2>3, <2>9, <2>10 DEF MonitorIsSafe
  <2>12. Preparing(w) /\ m.step # "waiting" /\ m.request <= transfers
    BY <1>1, <1>4, <2>9 DEF Preparing
  <2>13. monitor' = [monitor EXCEPT ![w] = m]
    BY <1>1, <1>6
  <2>14. QED
    BY <1>1, <1>2, <2>11, <2>12, <2>13, OnlyMonitorMoves
<1>7. QED
  BY <1>5, <1>6

(* Reserving a copy, or finding that the processor has taken it. *)
LEMMA ReserveNextKeepsInv ==
  ASSUME P2PInv, NEW w \in Workers, ReserveNext(w)
  PROVE  P2PInv'
<1> DEFINE id == Head(monitor[w].todo)
           q == Reserved(queue[w], id)
           held == IF q = queue[w] THEN monitor[w].held
                   ELSE Append(monitor[w].held, Reservation(q, id).copy)
           m == [monitor[w] EXCEPT !.todo = Tail(monitor[w].todo), !.held = held]
<1>1. /\ monitor[w].step = "reserving" /\ monitor[w].todo # <<>>
      /\ queue' = [queue EXCEPT ![w] = q]
      /\ monitor' = [monitor EXCEPT ![w] = m]
      /\ UNCHANGED <<backlog, handled, running, transfers, timeouts>>
  BY DEF ReserveNext, At, Continue
<1>2. /\ SoundQueue(Copies, queue[w]) /\ Size(queue[w]) <= Capacity
      /\ monitor[w] \in MonitorStates /\ MonitorIsSafe(w, monitor[w], queue[w])
      /\ monitor[w].request <= transfers
      /\ backlog \in [Workers -> Seq(Requests)] /\ timeouts \in 0 .. MaxTimeouts
  BY OfOneWorker
<1>3. /\ monitor[w].held \in Seq(Copies) /\ HoldsReserved(monitor[w].held, queue[w])
      /\ monitor[w].todo \in Seq(Tasks)
  BY <1>2 DEF MonitorIsSafe, MonitorStates
<1> HIDE DEF id
<1>4. /\ SoundQueue(Copies, q) /\ Size(q) = Size(queue[w])
      /\ held \in Seq(Copies) /\ HoldsReserved(held, q)
  <2>1. CASE id \in Waiting(queue[w])
    <3>1. SoundQueue(Copies, q) /\ Size(q) = Size(queue[w]) /\ q # queue[w]
      BY <1>2, <2>1, ReservedQueue
    <3>2. held = Append(monitor[w].held, Reservation(q, id).copy)
      BY <3>1
    <3>3. held \in Seq(Copies) /\ HoldsReserved(held, q)
      BY <1>2, <1>3, <2>1, <3>2, ReserveOneMore
    <3>4. QED
      BY <3>1, <3>3
  <2>2. CASE id \notin Waiting(queue[w])
    <3>1. q = queue[w] /\ held = monitor[w].held
      BY <2>2 DEF Reserved, Waiting
    <3> HIDE DEF q, held
    <3>2. QED
      BY <1>2, <1>3, <3>1
  <2>3. QED
    BY <2>1, <2>2
<1> HIDE DEF q, held
<1>5. Tail(monitor[w].todo) \in Seq(Tasks)
  BY <1>1, <1>3, HeadTailProperties
<1>6. /\ m \in MonitorStates
      /\ m.step = "reserving" /\ m.peer = monitor[w].peer /\ m.answer = monitor[w].answer
      /\ m.held = held /\ m.request = monitor[w].request
  BY <1>1, <1>2, <1>4, <1>5 DEF MonitorStates
<1> HIDE DEF m
<1>7. MonitorIsSafe(w, m, q)
  BY <1>1, <1>2, <1>4, <1>6 DEF MonitorIsSafe
<1>8. /\ m.step # "waiting" /\ m.request <= transfers /\ Preparing(w)
      /\ Size(q) <= Capacity
  BY <1>1, <1>2, <1>4, <1>6 DEF Preparing
<1>9. /\ backlog' \in [Workers -> Seq(Requests)] /\ timeouts' \in 0 .. MaxTimeouts
      /\ handled' = handled /\ running' = running /\ transfers' = transfers
  BY <1>1, <1>2
<1>10. \A v \in Workers : \A i \in DOMAIN backlog'[v] :
         \E j \in DOMAIN backlog[v] : backlog'[v][i] = backlog[v][j]
  BY <1>1
<1>11. QED
  BY <1>1, <1>4, <1>7, <1>8, <1>9, <1>10, OneMonitorMoves

(* The answer is read. *)
LEMMA ReadAnswerKeepsInv ==
  ASSUME P2PInv, NEW w \in Workers, ReadAnswer(w)
  PROVE  P2PInv'
<1> DEFINE step == IF monitor[w].answer = "accepted" THEN "confirming" ELSE "releasing"
           m == [monitor[w] EXCEPT !.step = step]
<1>1. /\ monitor[w].step = "waiting"
      /\ monitor' = [monitor EXCEPT ![w] = m]
      /\ UNCHANGED <<queue, backlog, handled, running, transfers, timeouts>>
  BY DEF ReadAnswer, At, Continue
<1>2. /\ monitor[w] \in MonitorStates /\ MonitorIsSafe(w, monitor[w], queue[w])
      /\ monitor[w].request <= transfers /\ timeouts \in 0 .. MaxTimeouts
  BY OfOneWorker
<1>3. /\ m \in MonitorStates
      /\ m.step = step /\ m.peer = monitor[w].peer /\ m.answer = monitor[w].answer
      /\ m.held = monitor[w].held /\ m.request = monitor[w].request
  BY <1>2 DEF MonitorStates, Steps
<1> HIDE DEF m
<1>4. MonitorIsSafe(w, m, queue[w])
  BY <1>1, <1>2, <1>3 DEF MonitorIsSafe
<1>5. m.step \notin {"waiting", "asking", "reserving"} /\ m.request <= transfers
  BY <1>2, <1>3
<1>6. timeouts' \in 0 .. MaxTimeouts
  BY <1>1, <1>2
<1>7. QED
  BY <1>1, <1>4, <1>5, <1>6, OnlyMonitorMoves

(* No answer came in time; the request may be lost with it. *)
LEMMA GiveUpKeepsInv ==
  ASSUME P2PInv, NEW w \in Workers, GiveUp(w)
  PROVE  P2PInv'
<1> DEFINE p == monitor[w].peer
           m == [monitor[w] EXCEPT !.step = "releasing"]
<1>1. /\ monitor[w].step = "waiting"
      /\ monitor' = [monitor EXCEPT ![w] = m]
      /\ UNCHANGED <<queue, handled, running, transfers>>
      /\ timeouts' = timeouts \/ (timeouts < MaxTimeouts /\ timeouts' = timeouts + 1)
      /\ \/ backlog' = backlog
         \/ \E i \in DOMAIN backlog[p] : backlog' = [backlog EXCEPT ![p] = RemoveAt(@, i)]
  BY DEF GiveUp, At, Continue
<1>2. /\ SoundQueue(Copies, queue[w]) /\ Size(queue[w]) <= Capacity
      /\ queue' = [queue EXCEPT ![w] = queue[w]]
      /\ monitor[w] \in MonitorStates /\ MonitorIsSafe(w, monitor[w], queue[w])
      /\ monitor[w].request <= transfers
      /\ backlog \in [Workers -> Seq(Requests)] /\ timeouts \in 0 .. MaxTimeouts
  BY <1>1, OfOneWorker
<1>3. timeouts' \in 0 .. MaxTimeouts
  BY <1>1, <1>2, P2PAssumption
<1>4. /\ m \in MonitorStates
      /\ m.step = "releasing" /\ m.peer = monitor[w].peer /\ m.answer = monitor[w].answer
      /\ m.held = monitor[w].held /\ m.request = monitor[w].request
  BY <1>2 DEF MonitorStates, Steps
<1> HIDE DEF m
<1>5. MonitorIsSafe(w, m, queue[w])
  BY <1>1, <1>2, <1>4 DEF MonitorIsSafe
<1>6. p \in Workers
  BY <1>1, <1>2 DEF MonitorIsSafe
<1> HIDE DEF p
<1>7. /\ backlog' \in [Workers -> Seq(Requests)]
      /\ \A v \in Workers : \A i \in DOMAIN backlog'[v] :
           \E j \in DOMAIN backlog[v] : backlog'[v][i] = backlog[v][j]
  <2>1. CASE backlog' = backlog
    BY <1>2, <2>1
  <2>2. ASSUME NEW k \in DOMAIN backlog[p], backlog' = [backlog EXCEPT ![p] = RemoveAt(@, k)]
        PROVE  /\ backlog' \in [Workers -> Seq(Requests)]
               /\ \A v \in Workers : \A i \in DOMAIN backlog'[v] :
                    \E j \in DOMAIN backlog[v] : backlog'[v][i] = backlog[v][j]
    <3>1. backlog[p] \in Seq(Requests)
      BY <1>2, <1>6
    <3>2. /\ RemoveAt(backlog[p], k) \in Seq(Requests)
          /\ \A i \in DOMAIN RemoveAt(backlog[p], k) :
               \E j \in DOMAIN backlog[p] : RemoveAt(backlog[p], k)[i] = backlog[p][j]
      BY <2>2, <3>1, RemovedFrom
    <3>3. /\ backlog'[p] = RemoveAt(backlog[p], k)
          /\ \A v \in Workers \ {p} : backlog'[v] = backlog[v]
          /\ backlog' \in [Workers -> Seq(Requests)]
      BY <1>2, <1>6, <2>2, <3>2
    <3>4. ASSUME NEW v \in Workers, NEW i \in DOMAIN backlog'[v]
          PROVE  \E j \in DOMAIN backlog[v] : backlog'[v][i] = backlog[v][j]
      <4>1. CASE v = p
        BY <3>2, <3>3, <3>4, <4>1
      <4>2. CASE v # p
        <5>1. backlog'[v] = backlog[v]
          BY <3>3, <4>2
        <5>2. QED
          BY <3>4, <5>1
      <4>3. QED
        BY <4>1, <4>2
    <3>5. QED
      BY <3>3, <3>4
  <2>3. QED
    BY <1>1, <2>1, <2>2
<1>8. m.step \notin {"waiting", "asking", "reserving"} /\ m.request <= transfers
  BY <1>2, <1>4
<1>9. handled' = handled /\ running' = running /\ transfers' = transfers
  BY <1>1
<1>10. QED
  BY <1>1, <1>2, <1>3, <1>5, <1>7, <1>8, <1>9, OneMonitorMoves

(* What is held after one settled copy. *)
LEMMA RestIsHeld ==
  ASSUME P2PInv, NEW w \in Workers, monitor[w].held # <<>>, NEW q,
         q.reserved = queue[w].reserved
                        \ {Reservation(queue[w], Head(monitor[w].held).id)}
  PROVE  LET h == monitor[w].held
         IN  /\ HoldsReserved(Tail(h), q) /\ Tail(h) \in Seq(Copies)
             /\ Len(h) = 1 <=> Tail(h) = <<>>
             /\ Head(h) \in Copies /\ Head(h) \in ToSet(h)
             /\ Head(h).id \in ReservedIds(queue[w])
             /\ Reservation(queue[w], Head(h).id).copy = Head(h)
<1> DEFINE h == monitor[w].held
<1>1. SoundQueue(Copies, queue[w]) /\ h \in Seq(Copies) /\ h # <<>> /\ HoldsReserved(h, queue[w])
  BY OfOneWorker DEF MonitorIsSafe, MonitorStates
<1> HIDE DEF h
<1>2. q.reserved = queue[w].reserved \ {Reservation(queue[w], Head(h).id)}
  BY DEF h
<1>3. /\ Head(h) \in Copies /\ Head(h) \in ToSet(h) /\ Head(h).id \in ReservedIds(queue[w])
      /\ Reservation(queue[w], Head(h).id).copy = Head(h)
      /\ Tail(h) \in Seq(Copies) /\ (Len(h) = 1 <=> Tail(h) = <<>>)
      /\ \A r : r.reserved = queue[w].reserved \ {Reservation(queue[w], Head(h).id)}
                  => HoldsReserved(Tail(h), r)
  BY ONLY <1>1, NextToSettle
<1>4. HoldsReserved(Tail(h), q)
  BY <1>2, <1>3
<1>5. QED
  BY <1>3, <1>4 DEF h

(* A copy is confirmed or put back; after the last one the monitor is idle. *)
LEMMA SettleNextKeepsInv ==
  ASSUME P2PInv, NEW w \in Workers, SettleNext(w)
  PROVE  P2PInv'
<1> DEFINE h == monitor[w].held
           id == Head(h).id
           q == IF monitor[w].step = "confirming" THEN Confirmed(queue[w], id)
                                                  ELSE Released(queue[w], id)
           rest == [monitor[w] EXCEPT !.held = Tail(h)]
           m == IF Len(h) = 1 THEN Idle ELSE rest
<1>1. /\ monitor[w].step \in {"confirming", "releasing"}
      /\ queue' = [queue EXCEPT ![w] = q]
      /\ monitor' = [monitor EXCEPT ![w] = m]
      /\ UNCHANGED <<backlog, handled, running, transfers, timeouts>>
  BY DEF SettleNext, At, Continue
<1>2. /\ SoundQueue(Copies, queue[w]) /\ Size(queue[w]) <= Capacity /\ Size(queue[w]) \in Nat
      /\ monitor[w] \in MonitorStates /\ MonitorIsSafe(w, monitor[w], queue[w])
      /\ monitor[w].request <= transfers
      /\ backlog \in [Workers -> Seq(Requests)] /\ timeouts \in 0 .. MaxTimeouts
  BY OfOneWorker
<1>3. h # <<>>
  BY <1>1, <1>2 DEF MonitorIsSafe
<1>4. id \in ReservedIds(queue[w])
  <2>1. queue[w].reserved \ {Reservation(queue[w], id)}
          = [queue[w] EXCEPT !.reserved = @ \ {Reservation(queue[w], id)}].reserved
    BY <1>2 DEF SoundQueue, Queues
  <2>2. QED
    BY <1>3, <2>1, RestIsHeld
<1>5. /\ SoundQueue(Copies, q) /\ Size(q) <= Capacity
      /\ q.reserved = queue[w].reserved \ {Reservation(queue[w], id)}
  <2>1. CASE monitor[w].step = "confirming"
    <3>1. q = Confirmed(queue[w], id)
      BY <2>1
    <3> HIDE DEF q, id
    <3>2. /\ SoundQueue(Copies, q) /\ Size(q) = Size(queue[w]) - 1
          /\ q.reserved = queue[w].reserved \ {Reservation(queue[w], id)}
      BY <1>2, <1>4, <3>1, ConfirmedQueue
    <3>3. QED
      BY <1>2, <3>2, CapacityAssumption
  <2>2. CASE monitor[w].step # "confirming"
    <3>1. q = Released(queue[w], id)
      BY <2>2
    <3> HIDE DEF q, id
    <3>2. /\ SoundQueue(Copies, q) /\ Size(q) = Size(queue[w])
          /\ q.reserved = queue[w].reserved \ {Reservation(queue[w], id)}
      BY <1>2, <1>4, <3>1, ReleasedKeepsQueue
    <3>3. QED
      BY <1>2, <3>2
  <2>3. QED
    BY <2>1, <2>2
<1> HIDE DEF q
<1>6. /\ HoldsReserved(Tail(h), q) /\ Tail(h) \in Seq(Copies)
      /\ Len(h) = 1 <=> Tail(h) = <<>>
  BY <1>3, <1>5, RestIsHeld
<1> HIDE DEF h, id
<1>7. /\ rest \in MonitorStates
      /\ rest.step = monitor[w].step /\ rest.peer = monitor[w].peer
      /\ rest.answer = monitor[w].answer
      /\ rest.held = Tail(h) /\ rest.request = monitor[w].request
  BY <1>2, <1>6 DEF MonitorStates
<1> HIDE DEF rest
<1>8. /\ MonitorIsSafe(w, m, q)
      /\ m.step \notin {"waiting", "asking", "reserving"} /\ m.request <= transfers
  <2>1. CASE Len(h) = 1
    <3>1. HoldsReserved(<<>>, q)
      BY <1>6, <2>1
    <3>2. MonitorIsSafe(w, Idle, q) /\ Idle.request <= transfers /\ Idle.step = "idle"
      BY <3>1, IdleMonitor DEF Idle
    <3>3. m = Idle
      BY <2>1
    <3>4. QED
      BY <3>2, <3>3
  <2>2. CASE Len(h) # 1
    <3>1. m = rest /\ Tail(h) # <<>>
      BY <1>6, <2>2
    <3> HIDE DEF m
    <3>2. QED
      BY <1>1, <1>2, <1>6, <1>7, <3>1 DEF MonitorIsSafe
  <2>3. QED
    BY <2>1, <2>2
<1> HIDE DEF m
<1>9. /\ backlog' \in [Workers -> Seq(Requests)] /\ timeouts' \in 0 .. MaxTimeouts
      /\ handled' = handled /\ running' = running /\ transfers' = transfers
  BY <1>1, <1>2
<1>10. \A v \in Workers : \A i \in DOMAIN backlog'[v] :
         \E j \in DOMAIN backlog[v] : backlog'[v][i] = backlog[v][j]
  BY <1>1
<1>11. m.step # "waiting"
       /\ (m.step \in {"asking", "reserving"} =>
             Preparing(w) \/ transfers + Cardinality(PreparingWorkers) < MaxTransfers)
  BY <1>8
<1>12. QED
  BY <1>1, <1>5, <1>8, <1>9, <1>10, <1>11, OneMonitorMoves

(* One more request at the end of a backlog. *)
LEMMA OneMoreRequest ==
  ASSUME NEW S, NEW s \in Seq(S), NEW e \in S
  PROVE  /\ Append(s, e) \in Seq(S)
         /\ DOMAIN s \subseteq DOMAIN Append(s, e)
         /\ \A i \in DOMAIN s : Append(s, e)[i] = s[i]
         /\ \A i \in DOMAIN Append(s, e) :
              Append(s, e)[i] = e \/ (i \in DOMAIN s /\ Append(s, e)[i] = s[i])
         /\ \E i \in DOMAIN Append(s, e) : Append(s, e)[i] = e
<1>1. /\ Append(s, e) \in Seq(S) /\ Len(Append(s, e)) = Len(s) + 1
      /\ \A i \in 1 .. Len(s) : Append(s, e)[i] = s[i]
      /\ Append(s, e)[Len(s) + 1] = e
  BY AppendProperties
<1>2. Len(s) \in Nat /\ DOMAIN s = 1 .. Len(s)
  BY LenProperties
<1>3. DOMAIN Append(s, e) = 1 .. Len(s) + 1
  BY <1>1, LenProperties
<1>4. QED
  BY <1>1, <1>2, <1>3

(* A transfer leaves for a running peer: it uses the id that was kept for  *)
(* it, which no server has seen and no other monitor waits for.            *)
LEMMA SentTransferKeepsInv ==
  ASSUME P2PInv, NEW w \in Workers,
         monitor[w].step = "reserving", monitor[w].held # <<>>,
         running[monitor[w].peer],
         transfers' = transfers + 1,
         backlog' = [backlog EXCEPT ![monitor[w].peer] =
           Append(@, [request |-> transfers + 1, from |-> w, tasks |-> monitor[w].held])],
         monitor' = [monitor EXCEPT ![w] =
           [monitor[w] EXCEPT !.step = "waiting", !.request = transfers + 1]],
         UNCHANGED <<queue, handled, running, timeouts>>
  PROVE  P2PInv'
<1> DEFINE p == monitor[w].peer
           r == [request |-> transfers + 1, from |-> w, tasks |-> monitor[w].held]
           m == [monitor[w] EXCEPT !.step = "waiting", !.request = transfers + 1]
<1>1. /\ SoundQueue(Copies, queue[w]) /\ Size(queue[w]) <= Capacity
      /\ queue' = [queue EXCEPT ![w] = queue[w]]
      /\ monitor[w] \in MonitorStates /\ MonitorIsSafe(w, monitor[w], queue[w])
      /\ backlog \in [Workers -> Seq(Requests)] /\ transfers \in Nat
      /\ timeouts \in 0 .. MaxTimeouts
  BY OfOneWorker
<1>2. p \in Workers /\ p # w /\ monitor[w].held \in Seq(Copies) /\ monitor[w].answer = "none"
  BY <1>1 DEF MonitorIsSafe, MonitorStates
<1>3. /\ r \in Requests /\ r.request = transfers + 1 /\ r.from = w
      /\ r.tasks = monitor[w].held
  BY <1>1, <1>2 DEF Requests
<1>4. /\ m \in MonitorStates
      /\ m.step = "waiting" /\ m.request = transfers + 1 /\ m.peer = p
      /\ m.held = monitor[w].held /\ m.answer = "none"
  <2>1. transfers + 1 \in Nat
    BY <1>1
  <2> DEFINE n == transfers + 1
             k == [monitor[w] EXCEPT !.step = "waiting", !.request = n]
  <2>2. n \in Nat
    BY <2>1
  <2> HIDE DEF n
  <2>3. /\ k \in MonitorStates
        /\ k.step = "waiting" /\ k.request = n /\ k.peer = monitor[w].peer
        /\ k.held = monitor[w].held /\ k.answer = monitor[w].answer
    BY <1>1, <2>2 DEF MonitorStates, Steps
  <2>4. QED
    BY <1>2, <2>3 DEF n
<1>5. backlog' = [backlog EXCEPT ![p] = Append(backlog[p], r)]
  OBVIOUS
<1>6. monitor' = [monitor EXCEPT ![w] = m]
  OBVIOUS
<1>7. running[p]
  OBVIOUS
<1> HIDE DEF m, r, p
<1>8. MonitorIsSafe(w, m, queue[w])
  BY <1>1, <1>2, <1>4 DEF MonitorIsSafe
<1>9. QueuesAreSafe' /\ MonitorsAreSafe'
  BY <1>1, <1>6, <1>8, OneQueueChanges DEF P2PInv
<1>10. /\ monitor \in [Workers -> MonitorStates]
       /\ monitor'[w] = m /\ \A v \in Workers \ {w} : monitor'[v] = monitor[v]
  BY <1>6 DEF P2PInv, MonitorsAreSafe
<1>11. /\ backlog' \in [Workers -> Seq(Requests)]
       /\ \A v \in Workers : \A i \in DOMAIN backlog'[v] :
            \/ v = p /\ backlog'[v][i] = r
            \/ i \in DOMAIN backlog[v] /\ backlog'[v][i] = backlog[v][i]
  <2>1. backlog[p] \in Seq(Requests)
    BY <1>1, <1>2
  <2>2. /\ Append(backlog[p], r) \in Seq(Requests)
        /\ \A i \in DOMAIN Append(backlog[p], r) :
             Append(backlog[p], r)[i] = r
               \/ (i \in DOMAIN backlog[p] /\ Append(backlog[p], r)[i] = backlog[p][i])
    BY <1>3, <2>1, OneMoreRequest
  <2> DEFINE longer == Append(backlog[p], r)
  <2> HIDE DEF longer
  <2>3. backlog' = [backlog EXCEPT ![p] = longer] /\ longer \in Seq(Requests)
    BY <1>5, <2>2 DEF longer
  <2>4. /\ backlog'[p] = longer
        /\ \A v \in Workers \ {p} : backlog'[v] = backlog[v]
        /\ backlog' \in [Workers -> Seq(Requests)]
    BY <1>1, <1>2, <2>3
  <2>5. \A i \in DOMAIN longer : longer[i] = r \/ (i \in DOMAIN backlog[p] /\ longer[i] = backlog[p][i])
    BY <2>2 DEF longer
  <2>6. QED
    BY <2>4, <2>5
<1>12. /\ \A v \in Workers : monitor[v].request \in Nat /\ monitor[v].request <= transfers
       /\ \A v \in Workers : \A i \in DOMAIN backlog[v] :
            /\ backlog[v][i].request \in Nat /\ backlog[v][i].request <= transfers
            /\ backlog[v][i].from \in Workers
       /\ \A v \in Workers : DOMAIN handled[v] \subseteq 1 .. transfers
  <2>1. ASSUME NEW v \in Workers, NEW i \in DOMAIN backlog[v]
        PROVE  backlog[v][i] \in Requests
    BY <1>1, ElementOfSeq, LenProperties
  <2>2. QED
    BY <1>10, <2>1 DEF P2PInv, ServersAreSafe, Requests, MonitorStates
<1>13. ServersAreSafe'
  <2>1. DOMAIN handled' = Workers
    BY DEF P2PInv, ServersAreSafe
  <2>2. \A v \in Workers : monitor'[v].request <= transfers'
    <3>1. ASSUME NEW v \in Workers PROVE monitor'[v].request <= transfers + 1
      <4>1. CASE v = w
        BY <1>1, <1>4, <1>10, <4>1
      <4>2. CASE v # w
        <5>1. monitor'[v] = monitor[v]
          BY <1>10, <4>2
        <5>2. QED
          BY <1>1, <1>12, <5>1
      <4>3. QED
        BY <4>1, <4>2
    <3>2. QED
      BY <3>1
  <2>3. ASSUME NEW v \in Workers, NEW i \in DOMAIN backlog'[v]
        PROVE  backlog'[v][i].request <= transfers + 1
    <3>1. CASE backlog'[v][i] = r
      BY <1>1, <1>3, <3>1
    <3>2. CASE i \in DOMAIN backlog[v] /\ backlog'[v][i] = backlog[v][i]
      BY <1>1, <1>12, <3>2
    <3>3. QED
      BY <1>11, <3>1, <3>2
  <2>4. ASSUME NEW v \in Workers
        PROVE  /\ DOMAIN handled'[v] \subseteq 1 .. transfers'
               /\ \A n \in DOMAIN handled'[v] : handled'[v][n] \in BOOLEAN
    <3>1. 1 .. transfers \subseteq 1 .. transfers + 1
      BY <1>1
    <3>2. \A n \in DOMAIN handled[v] : handled[v][n] \in BOOLEAN
      BY DEF P2PInv, ServersAreSafe
    <3>3. QED
      BY <1>12, <3>1, <3>2
  <2>5. QED
    BY <1>11, <2>1, <2>2, <2>3, <2>4 DEF ServersAreSafe
<1>14. AwaitedRequestsMatch'
  <2>1. SUFFICES ASSUME NEW v \in Workers, NEW i \in DOMAIN backlog'[v], NEW u \in Workers,
                        monitor'[u].step = "waiting",
                        monitor'[u].request = backlog'[v][i].request
                 PROVE  /\ backlog'[v][i].from = u
                        /\ monitor'[u].peer = v
                        /\ monitor'[u].held = backlog'[v][i].tasks
    BY DEF AwaitedRequestsMatch, Awaits
  <2>2. CASE v = p /\ backlog'[v][i] = r
    <3>1. u = w
      BY <1>1, <1>3, <1>10, <1>12, <2>1, <2>2
    <3>2. QED
      BY <1>3, <1>4, <1>10, <2>2, <3>1
  <2>3. CASE i \in DOMAIN backlog[v] /\ backlog'[v][i] = backlog[v][i]
    <3>1. backlog[v][i].request \in Nat /\ backlog[v][i].request <= transfers
      BY <1>12, <2>3
    <3>2. u # w
      BY <1>1, <1>4, <1>10, <2>1, <2>3, <3>1
    <3>3. monitor'[u] = monitor[u]
      BY <1>10, <3>2
    <3>4. Awaits(u, backlog[v][i])
      BY <2>1, <2>3, <3>3 DEF Awaits
    <3>5. /\ backlog[v][i].from = u
          /\ monitor[u].peer = v
          /\ monitor[u].held = backlog[v][i].tasks
      BY <2>3, <3>4 DEF P2PInv, AwaitedRequestsMatch
    <3>6. QED
      BY <2>3, <3>3, <3>5
  <2>4. QED
    BY <1>11, <2>2, <2>3
<1>15. AnswersMatch'
  <2>1. SUFFICES ASSUME NEW v \in Workers, monitor'[v].step = "waiting"
                 PROVE  LET answers == handled[monitor'[v].peer]
                            request == monitor'[v].request
                        IN  /\ running[v] /\ request \in DOMAIN answers
                                 => monitor'[v].answer # "none"
                            /\ monitor'[v].answer # "none" =>
                                 /\ request \in DOMAIN answers
                                 /\ monitor'[v].answer =
                                      IF answers[request] THEN "accepted" ELSE "refused"
    BY DEF AnswersMatch
  <2>2. CASE v = w
    <3>1. transfers + 1 \notin DOMAIN handled[p]
      BY <1>1, <1>2, <1>12
    <3>2. QED
      BY <1>4, <1>10, <2>2, <3>1
  <2>3. CASE v # w
    <3>1. monitor'[v] = monitor[v]
      BY <1>10, <2>3
    <3>2. QED
      BY <2>1, <3>1 DEF P2PInv, AnswersMatch
  <2>4. QED
    BY <2>2, <2>3
<1>16. BoundsAreKept'
  <2> DEFINE A == PreparingWorkers
             B == PreparingWorkers'
  <2>1. /\ A = {v \in Workers : monitor[v].step \in {"asking", "reserving"}}
        /\ B = {v \in Workers : monitor'[v].step \in {"asking", "reserving"}}
    BY DEF PreparingWorkers, Preparing
  <2>2. B = A \ {w} /\ w \in A
    BY <1>4, <1>10, <2>1
  <2>3. IsFiniteSet(A) /\ Cardinality(A) \in Nat
    <3>1. A \in SUBSET Workers
      BY <2>1
    <3>2. QED
      BY <3>1, WorkersAreFinite
  <2>4. transfers + Cardinality(A) <= MaxTransfers
    BY DEF P2PInv, BoundsAreKept, PreparingWorkers
  <2> HIDE DEF A, B
  <2>5. Cardinality(B) = Cardinality(A) - 1
    BY <2>2, <2>3, FS_RemoveElement
  <2>6. transfers' + Cardinality(B) <= MaxTransfers
    BY <1>1, <2>3, <2>4, <2>5, P2PAssumption
  <2>7. transfers' + Cardinality({v \in Workers : Preparing(v)}') <= MaxTransfers
    BY <2>6 DEF B, PreparingWorkers
  <2>8. running' \in [Workers -> BOOLEAN] /\ transfers' \in Nat /\ timeouts' \in 0 .. MaxTimeouts
    BY <1>1 DEF P2PInv, BoundsAreKept
  <2>9. QED
    BY <2>7, <2>8 DEF BoundsAreKept
<1>17. QED
  BY <1>9, <1>13, <1>14, <1>15, <1>16 DEF P2PInv

LEMMA SendTransferKeepsInv ==
  ASSUME P2PInv, NEW w \in Workers, SendTransfer(w)
  PROVE  P2PInv'
<1>1. /\ monitor[w].step = "reserving"
      /\ UNCHANGED <<queue, handled, running, timeouts>>
  BY DEF SendTransfer, At
<1>2. /\ monitor[w] \in MonitorStates /\ MonitorIsSafe(w, monitor[w], queue[w])
      /\ monitor[w].request <= transfers /\ timeouts' \in 0 .. MaxTimeouts
  BY <1>1, OfOneWorker
<1>3. CASE /\ monitor[w].held = <<>> /\ monitor' = [monitor EXCEPT ![w] = Idle]
           /\ UNCHANGED <<backlog, transfers>>
  <2>1. HoldsReserved(<<>>, queue[w])
    BY <1>2, <1>3 DEF MonitorIsSafe
  <2>2. MonitorIsSafe(w, Idle, queue[w]) /\ Idle.request <= transfers /\ Idle.step = "idle"
    BY <2>1, IdleMonitor DEF Idle
  <2>3. QED
    BY <1>1, <1>2, <1>3, <2>2, OnlyMonitorMoves
<1> DEFINE m == [monitor[w] EXCEPT !.step = "releasing"]
<1>4. CASE /\ monitor[w].held # <<>> /\ monitor' = [monitor EXCEPT ![w] = m]
           /\ UNCHANGED <<backlog, transfers>>
  <2>1. /\ m \in MonitorStates
        /\ m.step = "releasing" /\ m.peer = monitor[w].peer /\ m.answer = monitor[w].answer
        /\ m.held = monitor[w].held /\ m.request = monitor[w].request
    BY <1>2 DEF MonitorStates, Steps
  <2> HIDE DEF m
  <2>2. MonitorIsSafe(w, m, queue[w])
    BY <1>1, <1>2, <1>4, <2>1 DEF MonitorIsSafe
  <2>3. m.step \notin {"waiting", "asking", "reserving"} /\ m.request <= transfers
    BY <1>2, <2>1
  <2>4. QED
    BY <1>1, <1>2, <1>4, <2>2, <2>3, OnlyMonitorMoves
<1>5. CASE /\ monitor[w].held # <<>> /\ running[monitor[w].peer]
           /\ transfers' = transfers + 1
           /\ backlog' = [backlog EXCEPT ![monitor[w].peer] =
                Append(@, [request |-> transfers + 1, from |-> w, tasks |-> monitor[w].held])]
           /\ monitor' = [monitor EXCEPT ![w] =
                [monitor[w] EXCEPT !.step = "waiting", !.request = transfers + 1]]
  BY <1>1, <1>5, SentTransferKeepsInv
<1>6. QED
  BY <1>3, <1>4, <1>5 DEF SendTransfer, Continue

(* Whatever a monitor does. *)
LEMMA MonitoringKeepsInv ==
  ASSUME P2PInv, NEW w \in Workers, Monitoring(w)
  PROVE  P2PInv'
<1>1. CASE NoticeOverload(w)
  BY <1>1, NoticeOverloadKeepsInv
<1>2. CASE AskPeer(w)
  BY <1>2, AskPeerKeepsInv
<1>3. ASSUME NEW n \in 1 .. MaxTransfer, ChoosePeer(w, n)
      PROVE  P2PInv'
  <2>1. n \in Int
    OBVIOUS
  <2>2. QED
    BY <1>3, <2>1, ChoosePeerKeepsInv
<1>4. CASE ReserveNext(w)
  BY <1>4, ReserveNextKeepsInv
<1>5. CASE SendTransfer(w)
  BY <1>5, SendTransferKeepsInv
<1>6. CASE ReadAnswer(w)
  BY <1>6, ReadAnswerKeepsInv
<1>7. CASE GiveUp(w)
  BY <1>7, GiveUpKeepsInv
<1>8. CASE SettleNext(w)
  BY <1>8, SettleNextKeepsInv
<1>9. QED
  BY <1>1, <1>2, <1>3, <1>4, <1>5, <1>6, <1>7, <1>8 DEF Monitoring

-----------------------------------------------------------------------------
(* The server, and the other threads of a worker.                          *)

(* Any other step on one queue that leaves its reservations alone.         *)
LEMMA OtherQueueChange ==
  ASSUME P2PInv, NEW w \in Workers, NEW q,
         SoundQueue(Copies, q), Size(q) <= Capacity, q.reserved = queue[w].reserved,
         queue' = [queue EXCEPT ![w] = q],
         UNCHANGED <<monitor, backlog, handled, running, transfers, timeouts>>
  PROVE  P2PInv'
<1>1. MonitorIsSafe(w, monitor[w], q)
  BY OfOneWorker DEF MonitorIsSafe, HoldsReserved
<1>2. monitor' = [monitor EXCEPT ![w] = monitor[w]]
  BY DEF P2PInv, MonitorsAreSafe
<1>3. QueuesAreSafe' /\ MonitorsAreSafe'
  BY <1>1, <1>2, OneQueueChanges DEF P2PInv
<1>4. ServersAreSafe' /\ AwaitedRequestsMatch' /\ AnswersMatch' /\ BoundsAreKept'
  BY DEF P2PInv, ServersAreSafe, AwaitedRequestsMatch, Awaits, AnswersMatch, BoundsAreKept,
         Preparing
<1>5. QED
  BY <1>3, <1>4 DEF P2PInv

(* A request in a backlog. *)
LEMMA OfOneRequest ==
  ASSUME P2PInv, NEW p \in Workers, NEW i \in DOMAIN backlog[p]
  PROVE  /\ backlog[p][i] \in Requests
         /\ backlog[p][i].request \in 1 .. transfers
         /\ backlog[p][i].from \in Workers
         /\ backlog[p][i].tasks \in Seq(Copies)
<1>1. backlog[p] \in Seq(Requests) /\ backlog[p][i].request <= transfers /\ transfers \in Nat
  BY DEF P2PInv, ServersAreSafe, BoundsAreKept
<1>2. backlog[p][i] \in Requests
  BY <1>1, ElementOfSeq, LenProperties
<1>3. QED
  BY <1>1, <1>2 DEF Requests

(* The first request of a backlog, and the others. *)
LEMMA FirstRequest ==
  ASSUME P2PInv, NEW p \in Workers, backlog[p] # <<>>
  PROVE  /\ 1 \in DOMAIN backlog[p] /\ Head(backlog[p]) = backlog[p][1]
         /\ Tail(backlog[p]) \in Seq(Requests)
         /\ \A i \in DOMAIN Tail(backlog[p]) :
              i + 1 \in DOMAIN backlog[p] /\ Tail(backlog[p])[i] = backlog[p][i + 1]
<1> DEFINE s == backlog[p]
<1>1. s \in Seq(Requests) /\ s # <<>>
  BY OfOneWorker
<1> HIDE DEF s
<1>2. /\ Head(s) = s[1] /\ Tail(s) \in Seq(Requests)
      /\ Len(Tail(s)) = Len(s) - 1
      /\ \A i \in 1 .. Len(Tail(s)) : Tail(s)[i] = s[i + 1]
  BY <1>1, HeadTailProperties
<1>3. Len(s) \in Nat \ {0} /\ DOMAIN s = 1 .. Len(s) /\ DOMAIN Tail(s) = 1 .. Len(Tail(s))
  BY <1>1, <1>2, LenProperties, EmptySeq
<1>4. QED
  BY <1>2, <1>3 DEF s

(* The answer that a handled request gets, and what a server notes of it. *)
IsAccepted(p, r) ==
  IF r.request \notin DOMAIN handled[p] THEN Verdict(queue[p], r.tasks) = "accepted"
                                        ELSE handled[p][r.request]

AnswerTo(p, r) == IF IsAccepted(p, r) THEN "accepted" ELSE "refused"

(* What handling a request changes, in the queue of its server, in what it *)
(* notes, and in the monitor that waits for the answer.                    *)
HandleEffect(p, r) ==
  /\ queue' = [queue EXCEPT ![p] = queue'[p]]
  /\ queue'[p] = IF r.request \notin DOMAIN handled[p] /\ IsAccepted(p, r)
                   THEN Enqueued(queue[p], r.tasks, FALSE) ELSE queue[p]
  /\ SoundQueue(Copies, queue'[p]) /\ Size(queue'[p]) <= Capacity
  /\ queue'[p].reserved = queue[p].reserved
  /\ queue'[p].processing = queue[p].processing
  /\ DOMAIN handled' = Workers
  /\ \A v \in Workers \ {p} : handled'[v] = handled[v]
  /\ DOMAIN handled'[p] = DOMAIN handled[p] \cup {r.request}
  /\ \A n \in DOMAIN handled[p] : handled'[p][n] = handled[p][n]
  /\ handled'[p][r.request] = IsAccepted(p, r)
  /\ IsAccepted(p, r) \in BOOLEAN
  /\ \A v \in Workers : monitor'[v] =
       IF v = r.from /\ running[v] /\ Awaits(v, r)
         THEN [monitor[v] EXCEPT !.answer = AnswerTo(p, r)] ELSE monitor[v]
  /\ monitor' = [v \in Workers |-> monitor'[v]]

LEMMA HandleChanges ==
  ASSUME P2PInv, NEW p \in Workers, NEW r \in Requests, Handle(p, r)
  PROVE  HandleEffect(p, r)
<1>1. /\ SoundQueue(Copies, queue[p]) /\ Size(queue[p]) <= Capacity
      /\ queue \in [Workers -> Queues(Copies)]
  BY OfOneWorker DEF P2PInv, QueuesAreSafe
<1>2. r.tasks \in Seq(Copies) /\ r.from \in Workers
  BY DEF Requests
<1> DEFINE new == r.request \notin DOMAIN handled[p]
           accepted == IF new THEN Verdict(queue[p], r.tasks) = "accepted"
                       ELSE handled[p][r.request]
<1>3. /\ accepted = IsAccepted(p, r) /\ accepted \in BOOLEAN
  BY DEF IsAccepted, P2PInv, ServersAreSafe
<1>4. /\ queue' = IF new /\ accepted
                    THEN [queue EXCEPT ![p] = Enqueued(queue[p], r.tasks, FALSE)] ELSE queue
      /\ handled' = [handled EXCEPT ![p] = Extended(handled[p], r.request, accepted)]
      /\ monitor' = IF At(r.from, "waiting") /\ monitor[r.from].request = r.request
                      THEN [monitor EXCEPT ![r.from] =
                              [monitor[r.from] EXCEPT !.answer =
                                 IF accepted THEN "accepted" ELSE "refused"]]
                      ELSE monitor
  BY DEF Handle
<1>5. new /\ accepted => Verdict(queue[p], r.tasks) = "accepted"
  OBVIOUS
<1> HIDE DEF accepted
<1>6. /\ queue' = [queue EXCEPT ![p] = queue'[p]]
      /\ queue'[p] = IF new /\ accepted THEN Enqueued(queue[p], r.tasks, FALSE) ELSE queue[p]
  BY <1>1, <1>4
<1>7. /\ SoundQueue(Copies, queue'[p]) /\ Size(queue'[p]) <= Capacity
      /\ queue'[p].reserved = queue[p].reserved /\ queue'[p].processing = queue[p].processing
  <2>1. CASE new /\ accepted
    <3> DEFINE before == queue[p]
               batch == r.tasks
               q == Enqueued(before, batch, FALSE)
    <3>1. /\ SoundQueue(Copies, q) /\ Size(q) <= Capacity
          /\ q.active = before.active \cup IdsIn(batch)
          /\ q.reserved = before.reserved /\ q.processing = before.processing
      <4>1. /\ SoundQueue(Copies, before) /\ batch \in Seq(Copies)
            /\ Verdict(before, batch) = "accepted"
        BY <1>1, <1>2, <1>5, <2>1
      <4> HIDE DEF before, batch
      <4>2. QED
        BY ONLY <4>1, EnqueuedKeepsQueue
    <3>2. queue'[p] = q
      BY <1>6, <2>1
    <3> HIDE DEF q
    <3>3. QED
      BY <3>1, <3>2
  <2>2. CASE ~ (new /\ accepted)
    BY <1>1, <1>6, <2>2
  <2>3. QED
    BY <2>1, <2>2
<1>8. /\ DOMAIN handled' = Workers
      /\ \A v \in Workers \ {p} : handled'[v] = handled[v]
      /\ handled'[p] = Extended(handled[p], r.request, accepted)
  BY <1>4 DEF P2PInv, ServersAreSafe
<1>9. /\ DOMAIN handled'[p] = DOMAIN handled[p] \cup {r.request}
      /\ handled'[p][r.request] = accepted
      /\ \A n \in DOMAIN handled[p] : n # r.request => handled'[p][n] = handled[p][n]
  BY <1>8 DEF Extended
<1>10. r.request \in DOMAIN handled[p] => accepted = handled[p][r.request]
  BY DEF accepted
<1>11. \A n \in DOMAIN handled[p] : handled'[p][n] = handled[p][n]
  BY <1>9, <1>10
<1>12. (IF accepted THEN "accepted" ELSE "refused") = AnswerTo(p, r)
  BY <1>3 DEF AnswerTo
<1>13. /\ \A v \in Workers : monitor'[v] =
            IF v = r.from /\ running[v] /\ Awaits(v, r)
              THEN [monitor[v] EXCEPT !.answer = AnswerTo(p, r)] ELSE monitor[v]
       /\ monitor' = [v \in Workers |-> monitor'[v]]
  <2>1. DOMAIN monitor = Workers /\ monitor \in [Workers -> MonitorStates]
    BY DEF P2PInv, MonitorsAreSafe
  <2> DEFINE m == [monitor[r.from] EXCEPT !.answer = AnswerTo(p, r)]
  <2>2. monitor' = IF running[r.from] /\ Awaits(r.from, r) THEN [monitor EXCEPT ![r.from] = m]
                                                           ELSE monitor
    BY <1>4, <1>12 DEF At, Awaits
  <2>3. m = [monitor[r.from] EXCEPT !.answer = AnswerTo(p, r)]
    OBVIOUS
  <2> HIDE DEF m
  <2>4. CASE running[r.from] /\ Awaits(r.from, r)
    BY <1>2, <2>1, <2>2, <2>3, <2>4
  <2>5. CASE ~ (running[r.from] /\ Awaits(r.from, r))
    BY <1>2, <2>1, <2>2, <2>5
  <2>6. QED
    BY <2>4, <2>5
<1>14. QED
  BY <1>3, <1>6, <1>7, <1>8, <1>9, <1>11, <1>13 DEF HandleEffect

(* A request of the backlog is handled; the backlog may lose it.  Who waits *)
(* for its answer is told what the server notes, and nobody else waits for  *)
(* an answer to it.                                                         *)
LEMMA HandleKeepsInv ==
  ASSUME P2PInv, NEW p \in Workers, NEW k \in DOMAIN backlog[p],
         Handle(p, backlog[p][k]),
         backlog' \in [Workers -> Seq(Requests)],
         \A v \in Workers : \A i \in DOMAIN backlog'[v] :
           \E j \in DOMAIN backlog[v] : backlog'[v][i] = backlog[v][j],
         UNCHANGED <<running, transfers, timeouts>>
  PROVE  P2PInv'
<1> DEFINE r == backlog[p][k]
<1>1. r \in Requests /\ r.request \in 1 .. transfers /\ r.from \in Workers
  BY OfOneRequest
<1>2. Handle(p, r)
  OBVIOUS
<1>3. \A v \in Workers : Awaits(v, r) => v = r.from /\ monitor[v].peer = p
  BY DEF P2PInv, AwaitedRequestsMatch
<1> HIDE DEF r
<1> DEFINE a == AnswerTo(p, r)
           new == r.request \notin DOMAIN handled[p]
<1>4. /\ queue' = [queue EXCEPT ![p] = queue'[p]]
      /\ SoundQueue(Copies, queue'[p]) /\ Size(queue'[p]) <= Capacity
      /\ queue'[p] = IF r.request \notin DOMAIN handled[p] /\ IsAccepted(p, r)
                       THEN Enqueued(queue[p], r.tasks, FALSE) ELSE queue[p]
      /\ queue'[p].reserved = queue[p].reserved
      /\ queue'[p].processing = queue[p].processing
      /\ DOMAIN handled' = Workers
      /\ \A v \in Workers \ {p} : handled'[v] = handled[v]
      /\ DOMAIN handled'[p] = DOMAIN handled[p] \cup {r.request}
      /\ \A n \in DOMAIN handled[p] : handled'[p][n] = handled[p][n]
      /\ handled'[p][r.request] = IsAccepted(p, r)
      /\ IsAccepted(p, r) \in BOOLEAN
      /\ \A v \in Workers : monitor'[v] =
           IF v = r.from /\ running[v] /\ Awaits(v, r)
             THEN [monitor[v] EXCEPT !.answer = AnswerTo(p, r)] ELSE monitor[v]
      /\ monitor' = [v \in Workers |-> monitor'[v]]
  <2>1. HandleEffect(p, r)
    BY <1>1, <1>2, HandleChanges
  <2>2. QED
    BY <2>1 DEF HandleEffect
<1>5. /\ queue \in [Workers -> Queues(Copies)]
      /\ \A v \in Workers : SoundQueue(Copies, queue[v]) /\ Size(queue[v]) <= Capacity
      /\ monitor \in [Workers -> MonitorStates]
      /\ \A v \in Workers : MonitorIsSafe(v, monitor[v], queue[v])
  BY DEF P2PInv, QueuesAreSafe, MonitorsAreSafe
<1>6. \A v \in Workers \ {p} : queue'[v] = queue[v]
  BY <1>4, <1>5
<1>7. QueuesAreSafe'
  <2>1. queue'[p] \in Queues(Copies)
    BY <1>4 DEF SoundQueue
  <2>2. queue' \in [Workers -> Queues(Copies)]
    BY <1>4, <1>5, <2>1
  <2>3. QED
    BY <1>4, <1>5, <1>6, <2>2 DEF QueuesAreSafe
<1>8. /\ a \in {"accepted", "refused"} /\ a # "none"
      /\ a = IF handled'[p][r.request] THEN "accepted" ELSE "refused"
  BY <1>4 DEF AnswerTo
<1>9. ASSUME NEW v \in Workers
      PROVE  /\ monitor'[v] \in MonitorStates
             /\ monitor'[v].step = monitor[v].step /\ monitor'[v].peer = monitor[v].peer
             /\ monitor'[v].held = monitor[v].held /\ monitor'[v].request = monitor[v].request
             /\ monitor'[v].answer = IF v = r.from /\ running[v] /\ Awaits(v, r)
                                       THEN a ELSE monitor[v].answer
             /\ monitor'[v].answer # monitor[v].answer => monitor[v].step = "waiting"
  <2>1. monitor[v] \in MonitorStates
    BY <1>5
  <2>2. CASE v = r.from /\ running[v] /\ Awaits(v, r)
    <3>1. monitor'[v] = [monitor[v] EXCEPT !.answer = a]
      BY <1>4, <2>2
    <3> HIDE DEF a
    <3>2. QED
      BY <1>8, <2>1, <2>2, <3>1 DEF MonitorStates, Awaits
  <2>3. CASE ~ (v = r.from /\ running[v] /\ Awaits(v, r))
    <3>1. monitor'[v] = monitor[v]
      BY <1>4, <2>3
    <3>2. QED
      BY <2>1, <2>3, <3>1
  <2>4. QED
    BY <2>2, <2>3
<1> HIDE DEF a
<1>10. MonitorsAreSafe'
  <2>1. ASSUME NEW v \in Workers PROVE MonitorIsSafe(v, monitor'[v], queue'[v])
    <3>1. queue'[v].reserved = queue[v].reserved
      BY <1>4, <1>6
    <3>2. HoldsReserved(monitor[v].held, queue'[v])
      BY <1>5, <3>1 DEF MonitorIsSafe, HoldsReserved
    <3>3. monitor[v].step \in {"idle", "asking", "reserving", "confirming"}
            => monitor'[v].answer = monitor[v].answer
      BY <1>9
    <3>4. MonitorIsSafe(v, monitor[v], queue[v])
      BY <1>5
    <3>5. QED
      BY <1>9, <3>2, <3>3, <3>4 DEF MonitorIsSafe
  <2>2. monitor' \in [Workers -> MonitorStates]
    BY <1>4, <1>9
  <2>3. QED
    BY <1>4, <2>1, <2>2 DEF MonitorsAreSafe
<1>11. ServersAreSafe'
  <2>1. ASSUME NEW v \in Workers
        PROVE  /\ DOMAIN handled'[v] \subseteq 1 .. transfers
               /\ \A n \in DOMAIN handled'[v] : handled'[v][n] \in BOOLEAN
    <3>1. /\ DOMAIN handled[v] \subseteq 1 .. transfers
          /\ \A n \in DOMAIN handled[v] : handled[v][n] \in BOOLEAN
      BY DEF P2PInv, ServersAreSafe
    <3>2. QED
      BY <1>1, <1>4, <3>1
  <2>2. \A v \in Workers : monitor'[v].request <= transfers
    BY <1>9 DEF P2PInv, ServersAreSafe
  <2>3. \A v \in Workers : \A i \in DOMAIN backlog'[v] : backlog'[v][i].request <= transfers
    BY DEF P2PInv, ServersAreSafe
  <2>4. QED
    BY <1>4, <2>1, <2>2, <2>3 DEF ServersAreSafe
<1>12. AwaitedRequestsMatch'
  <2>1. SUFFICES ASSUME NEW v \in Workers, NEW i \in DOMAIN backlog'[v], NEW u \in Workers,
                        monitor'[u].step = "waiting",
                        monitor'[u].request = backlog'[v][i].request
                 PROVE  /\ backlog'[v][i].from = u
                        /\ monitor'[u].peer = v
                        /\ monitor'[u].held = backlog'[v][i].tasks
    BY DEF AwaitedRequestsMatch, Awaits
  <2>2. PICK j \in DOMAIN backlog[v] : backlog'[v][i] = backlog[v][j]
    OBVIOUS
  <2>3. Awaits(u, backlog[v][j])
    BY <1>9, <2>1, <2>2 DEF Awaits
  <2>4. /\ backlog[v][j].from = u
        /\ monitor[u].peer = v
        /\ monitor[u].held = backlog[v][j].tasks
    BY <2>3 DEF P2PInv, AwaitedRequestsMatch
  <2>5. QED
    BY <1>9, <2>2, <2>4
<1>13. AnswersMatch'
  <2>1. SUFFICES ASSUME NEW v \in Workers, monitor[v].step = "waiting"
                 PROVE  LET answers == handled'[monitor[v].peer]
                            request == monitor[v].request
                        IN  /\ running[v] /\ request \in DOMAIN answers
                                 => monitor'[v].answer # "none"
                            /\ monitor'[v].answer # "none" =>
                                 /\ request \in DOMAIN answers
                                 /\ monitor'[v].answer =
                                      IF answers[request] THEN "accepted" ELSE "refused"
    BY <1>9 DEF AnswersMatch
  <2> DEFINE s == monitor[v].peer
             n == monitor[v].request
  <2>2. /\ running[v] /\ n \in DOMAIN handled[s] => monitor[v].answer # "none"
        /\ monitor[v].answer # "none" =>
             /\ n \in DOMAIN handled[s]
             /\ monitor[v].answer = IF handled[s][n] THEN "accepted" ELSE "refused"
    BY <2>1 DEF P2PInv, AnswersMatch
  <2>3. s \in Workers
    BY <1>5, <2>1 DEF MonitorIsSafe
  <2>4. Awaits(v, r) <=> n = r.request
    BY <2>1 DEF Awaits
  <2>5. CASE n = r.request
    <3>1. v = r.from /\ s = p
      BY <1>3, <2>4, <2>5
    <3>2. CASE running[v]
      <4>1. monitor'[v].answer = a
        BY <1>9, <2>4, <2>5, <3>1, <3>2
      <4>2. QED
        BY <1>4, <1>8, <2>5, <3>1, <4>1
    <3>3. CASE ~ running[v]
      <4>1. monitor'[v].answer = monitor[v].answer
        BY <1>9, <3>3
      <4>2. n \in DOMAIN handled[s] => n \in DOMAIN handled'[s] /\ handled'[s][n] = handled[s][n]
        BY <1>4, <3>1
      <4> HIDE DEF s, n
      <4>3. QED
        BY <2>2, <3>3, <4>1, <4>2 DEF s, n
    <3>4. QED
      BY <3>2, <3>3
  <2>6. CASE n # r.request
    <3>1. monitor'[v].answer = monitor[v].answer
      BY <1>9, <2>4, <2>6
    <3>2. /\ n \in DOMAIN handled'[s] <=> n \in DOMAIN handled[s]
          /\ n \in DOMAIN handled[s] => handled'[s][n] = handled[s][n]
      BY <1>4, <2>3, <2>6
    <3> HIDE DEF s, n
    <3>3. QED
      BY <2>2, <3>1, <3>2 DEF s, n
  <2>7. QED
    BY <2>5, <2>6
<1>14. BoundsAreKept'
  <2>1. {v \in Workers : Preparing(v)}' = {v \in Workers : Preparing(v)}
    BY <1>9 DEF Preparing
  <2>2. QED
    BY <2>1 DEF P2PInv, BoundsAreKept
<1>15. QED
  BY <1>7, <1>10, <1>11, <1>12, <1>13, <1>14 DEF P2PInv

LEMMA ServeKeepsInv ==
  ASSUME P2PInv, NEW p \in Workers, Serve(p)
  PROVE  P2PInv'
<1>1. /\ backlog[p] # <<>>
      /\ backlog' = [backlog EXCEPT ![p] = Tail(backlog[p])]
      /\ Handle(p, Head(backlog[p]))
      /\ UNCHANGED <<running, transfers, timeouts>>
  BY DEF Serve
<1>2. /\ 1 \in DOMAIN backlog[p] /\ Head(backlog[p]) = backlog[p][1]
      /\ Tail(backlog[p]) \in Seq(Requests)
      /\ \A i \in DOMAIN Tail(backlog[p]) :
           i + 1 \in DOMAIN backlog[p] /\ Tail(backlog[p])[i] = backlog[p][i + 1]
  BY <1>1, FirstRequest
<1>3. backlog \in [Workers -> Seq(Requests)]
  BY OfOneWorker
<1>4. /\ backlog' \in [Workers -> Seq(Requests)]
      /\ backlog'[p] = Tail(backlog[p]) /\ \A v \in Workers \ {p} : backlog'[v] = backlog[v]
  BY <1>1, <1>2, <1>3
<1>5. ASSUME NEW v \in Workers, NEW i \in DOMAIN backlog'[v]
      PROVE  \E j \in DOMAIN backlog[v] : backlog'[v][i] = backlog[v][j]
  <2>1. CASE v = p
    <3>1. i \in DOMAIN Tail(backlog[p]) /\ backlog'[v][i] = Tail(backlog[p])[i]
      BY <1>4, <2>1
    <3>2. i + 1 \in DOMAIN backlog[p] /\ Tail(backlog[p])[i] = backlog[p][i + 1]
      BY <1>2, <3>1
    <3>3. QED
      BY <2>1, <3>1, <3>2
  <2>2. CASE v # p
    BY <1>4, <2>2
  <2>3. QED
    BY <2>1, <2>2
<1>6. Handle(p, backlog[p][1])
  BY <1>1, <1>2
<1>7. QED
  BY <1>1, <1>2, <1>4, <1>5, <1>6, HandleKeepsInv

-----------------------------------------------------------------------------
(* What the invariant is for.                                              *)

LEMMA P2PTypesHold == P2PInv => P2PTypeOK
<1>1. SUFFICES ASSUME P2PInv PROVE P2PTypeOK
  OBVIOUS
<1>2. queue \in [Workers -> Queues(Copies)]
  BY <1>1 DEF P2PInv, QueuesAreSafe
<1>3. ASSUME NEW w \in Workers
      PROVE  /\ monitor[w].step \in Steps
             /\ DOMAIN monitor[w].room \subseteq Workers
             /\ monitor[w].peer \in (Workers \cup {Nobody}) \ {w}
             /\ monitor[w].todo \in Seq(Tasks)
             /\ monitor[w].held \in Seq(Copies)
             /\ monitor[w].request \in 0 .. transfers
             /\ monitor[w].answer \in {"none", "accepted", "refused"}
  <2>1. /\ monitor[w] \in MonitorStates /\ monitor[w].peer # w
        /\ monitor[w].request \in Nat /\ monitor[w].request <= transfers
        /\ transfers \in Nat
    BY <1>1, OfOneWorker DEF MonitorIsSafe
  <2>2. monitor[w].room \in Rooms
    BY <2>1 DEF MonitorStates
  <2>3. DOMAIN monitor[w].room \subseteq Workers
    BY <2>2 DEF Rooms
  <2>4. QED
    BY <2>1, <2>3 DEF MonitorStates
<1>4. ASSUME NEW w \in Workers, NEW i \in DOMAIN backlog[w]
      PROVE  backlog[w][i] \in [request : 1 .. transfers, from : Workers, tasks : Seq(Copies)]
  BY <1>1, OfOneRequest DEF Requests
<1>5. \A w \in Workers : /\ DOMAIN handled[w] \subseteq 1 .. transfers
                         /\ \A r \in DOMAIN handled[w] : handled[w][r] \in BOOLEAN
  BY <1>1 DEF P2PInv, ServersAreSafe
<1>6. running \in [Workers -> BOOLEAN] /\ transfers \in 0 .. MaxTransfers /\ timeouts \in 0 .. MaxTimeouts
  <2>1. /\ running \in [Workers -> BOOLEAN] /\ transfers \in Nat
        /\ transfers + Cardinality(PreparingWorkers) <= MaxTransfers
        /\ timeouts \in 0 .. MaxTimeouts
    BY <1>1 DEF P2PInv, BoundsAreKept, PreparingWorkers
  <2>2. Cardinality(PreparingWorkers) \in Nat
    <3>1. PreparingWorkers \in SUBSET Workers
      BY DEF PreparingWorkers
    <3>2. QED
      BY <3>1, WorkersAreFinite
  <2>3. QED
    BY <2>1, <2>2, P2PAssumption
<1>7. QED
  BY <1>2, <1>3, <1>4, <1>5, <1>6 DEF P2PTypeOK

LEMMA QueuesStayWithinCapacity == P2PInv => QueuesWithinCapacity
  BY DEF P2PInv, QueuesAreSafe, QueuesWithinCapacity, Size
=============================================================================
