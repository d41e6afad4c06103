---------------------------- MODULE P2PTransfer ----------------------------
(***************************************************************************)
(* The P2P service of the workers: on each, a monitor thread that moves    *)
(* waiting tasks to a peer when the queue is overloaded, and a server      *)
(* thread that takes the tasks of other workers, one connection at a time. *)
(* A transfer is a request over a connection of its own, with an id of its *)
(* own, and an answer; a requester waits five seconds, then puts the tasks *)
(* back, whether the request was lost, is still in the server's backlog,   *)
(* or was accepted and its ACK is late.                                    *)
(***************************************************************************)
EXTENDS Deployment, ReadyQueueOps, Sequences, FiniteSets

CONSTANTS Overload,      \* the monitor acts above this size (7 in the program)
          MaxTransfer,   \* most tasks moved at once (3 in the program)
          MaxTransfers,  \* bound on the transfers ever sent, their ids
          MaxTimeouts    \* bound on the requests that go unanswered

ASSUME P2PAssumption ==
  /\ Overload \in Nat
  /\ MaxTransfer \in Nat \ {0}
  /\ MaxTransfers \in Nat
  /\ MaxTimeouts \in Nat

VARIABLES queue,         \* the Ready Queue of each worker
          monitor,       \* what its monitor thread does
          backlog,       \* transfer requests its server has yet to handle
          handled,       \* _handled_transfers: the answer given to each request
          running,       \* is the worker running?
          transfers,     \* transfers sent so far
          timeouts       \* requests that went unanswered so far

p2pVars == <<queue, monitor, backlog, handled, running, transfers, timeouts>>

Copies == [id : Tasks, by : Workers]     \* by: assignment_worker_id

\* Mutant of Peers: a worker is given itself as a peer.
PeersAndSelf(w) == Workers
Peers(w) == Workers \ {w}

\* A dictionary after one more assignment.
Extended(f, x, y) == [z \in DOMAIN f \cup {x} |-> IF z = x THEN y ELSE f[z]]

NoAnswers == [p \in {} |-> 0]
Idle == [step |-> "idle", room |-> NoAnswers, peer |-> Nobody, todo |-> <<>>,
         held |-> <<>>, request |-> 0, answer |-> "none"]

P2PInit ==
  /\ queue = [w \in Workers |-> EmptyQueue]
  /\ monitor = [w \in Workers |-> Idle]
  /\ backlog = [w \in Workers |-> <<>>]
  /\ handled = [w \in Workers |-> [r \in {} |-> TRUE]]
  /\ running = [w \in Workers |-> TRUE]
  /\ transfers = 0
  /\ timeouts = 0

-----------------------------------------------------------------------------
(* The monitor thread: balance_once.                                       *)

At(w, step) == running[w] /\ monitor[w].step = step
Continue(w, next) == monitor' = [monitor EXCEPT ![w] = next]

\* A transfer not sent yet; the bound leaves each of them its id.
Preparing(v) == monitor[v].step \in {"asking", "reserving"}

NoticeOverload(w) ==
  /\ At(w, "idle")
  /\ Size(queue[w]) > Overload
  /\ transfers + Cardinality({v \in Workers : Preparing(v)}) < MaxTransfers
  /\ Continue(w, [Idle EXCEPT !.step = "asking"])
  /\ UNCHANGED <<queue, backlog, handled, running, transfers, timeouts>>

\* The peers are asked one after the other; the answer is the room the peer
\* has at that moment, and will not be looked at again.
Answers(p, room) ==
  \/ running[p] /\ room = Capacity - Size(queue[p]) /\ UNCHANGED timeouts
  \/ ~ running[p] /\ room = 0 /\ UNCHANGED timeouts
  \/ running[p] /\ timeouts < MaxTimeouts /\ room = 0 /\ timeouts' = timeouts + 1

AskPeer(w) ==
  LET unasked == Peers(w) \ DOMAIN monitor[w].room
      p == CHOOSE q \in unasked : \A v \in unasked : q <= v
  IN  /\ At(w, "asking")
      /\ unasked # {}
      /\ \E room \in 0 .. Capacity :
           /\ Answers(p, room)
           /\ Continue(w, [monitor[w] EXCEPT !.room = Extended(@, p, room)])
      /\ UNCHANGED <<queue, backlog, handled, running, transfers>>

\* The peer with the most room, then the first id; at most n tasks, no more
\* than the room it had, from the tail of the queue as it is now.
ChoosePeer(w, n) ==
  LET room == monitor[w].room
      open == {p \in DOMAIN room : room[p] > 0}
      best == CHOOSE p \in open : \A v \in open :
                room[p] > room[v] \/ (room[p] = room[v] /\ p <= v)
      picked == Candidates(queue[w], IF n < room[best] THEN n ELSE room[best])
  IN  /\ At(w, "asking")
      /\ DOMAIN room = Peers(w)
      /\ Continue(w, IF open = {} THEN Idle
                     ELSE [Idle EXCEPT !.step = "reserving", !.peer = best,
                             !.todo = [i \in DOMAIN picked |-> picked[i].id]])
      /\ UNCHANGED <<queue, backlog, handled, running, transfers, timeouts>>

ReserveNext(w) ==
  LET id == Head(monitor[w].todo)
      after == Reserved(queue[w], id)
  IN  /\ At(w, "reserving")
      /\ monitor[w].todo # <<>>
      /\ queue' = [queue EXCEPT ![w] = after]
      /\ Continue(w, [monitor[w] EXCEPT !.todo = Tail(@),
                        !.held = IF after = queue[w] THEN @
                                 ELSE Append(@, Reservation(after, id).copy)])
      /\ UNCHANGED <<backlog, handled, running, transfers, timeouts>>

\* Nothing could be reserved, the peer refuses the connection, or the request
\* is on its way.
SendTransfer(w) ==
  LET p == monitor[w].peer
      request == transfers + 1
  IN  /\ At(w, "reserving")
      /\ monitor[w].todo = <<>>
      /\ \/ /\ monitor[w].held = <<>>
            /\ Continue(w, Idle)
            /\ UNCHANGED <<backlog, transfers>>
         \/ /\ monitor[w].held # <<>> /\ ~ running[p]
            /\ Continue(w, [monitor[w] EXCEPT !.step = "releasing"])
            /\ UNCHANGED <<backlog, transfers>>
         \/ /\ monitor[w].held # <<>> /\ running[p]
            /\ transfers' = request
            /\ backlog' = [backlog EXCEPT ![p] =
                 Append(@, [request |-> request, from |-> w, tasks |-> monitor[w].held])]
            /\ Continue(w, [monitor[w] EXCEPT !.step = "waiting", !.request = request])
      /\ UNCHANGED <<queue, handled, running, timeouts>>

\* Mutant of ReadAnswer: any answer is taken for an acceptance.
ReadAnswerAsAck(w) ==
  /\ At(w, "waiting")
  /\ monitor[w].answer # "none"
  /\ Continue(w, [monitor[w] EXCEPT !.step = "confirming"])
  /\ UNCHANGED <<queue, backlog, handled, running, transfers, timeouts>>

ReadAnswer(w) ==
  /\ At(w, "waiting")
  /\ monitor[w].answer # "none"
  /\ Continue(w, [monitor[w] EXCEPT
       !.step = IF monitor[w].answer = "accepted" THEN "confirming" ELSE "releasing"])
  /\ UNCHANGED <<queue, backlog, handled, running, transfers, timeouts>>

\* Mutant of GiveUp: silence is taken for an acceptance.
GiveUpAsAck(w) ==
  LET p == monitor[w].peer
  IN  /\ At(w, "waiting")
      /\ IF running[p] THEN timeouts < MaxTimeouts /\ timeouts' = timeouts + 1
                       ELSE UNCHANGED timeouts
      /\ Continue(w, [monitor[w] EXCEPT !.step = "confirming"])
      /\ \/ UNCHANGED backlog
         \/ \E i \in DOMAIN backlog[p] :
              /\ backlog[p][i].request = monitor[w].request
              /\ backlog' = [backlog EXCEPT ![p] = RemoveAt(@, i)]
      /\ UNCHANGED <<queue, handled, running, transfers>>

\* No answer in time.  The request may have been lost, or be handled later;
\* the answer may be on its way.  A stopped peer answers nothing.
GiveUp(w) ==
  LET p == monitor[w].peer
  IN  /\ At(w, "waiting")
      /\ IF running[p] THEN timeouts < MaxTimeouts /\ timeouts' = timeouts + 1
                       ELSE UNCHANGED timeouts
      /\ Continue(w, [monitor[w] EXCEPT !.step = "releasing"])
      /\ \/ UNCHANGED backlog
         \/ \E i \in DOMAIN backlog[p] :
              /\ backlog[p][i].request = monitor[w].request
              /\ backlog' = [backlog EXCEPT ![p] = RemoveAt(@, i)]
      /\ UNCHANGED <<queue, handled, running, transfers>>

SettleNext(w) ==
  LET id == Head(monitor[w].held).id
  IN  /\ At(w, "confirming") \/ At(w, "releasing")
      /\ queue' = [queue EXCEPT ![w] =
           IF monitor[w].step = "confirming" THEN Confirmed(@, id) ELSE Released(@, id)]
      /\ Continue(w, IF Len(monitor[w].held) = 1 THEN Idle
                     ELSE [monitor[w] EXCEPT !.held = Tail(@)])
      /\ UNCHANGED <<backlog, handled, running, transfers, timeouts>>

-----------------------------------------------------------------------------
(* The server thread: a request handled before gets the same answer again; *)
(* otherwise all its tasks are admitted, or none.  Nobody reads the answer *)
(* of a request that was given up.                                         *)

\* Mutant of Handle: a request is treated anew whenever it arrives.
HandleAnew(p, r) ==
  LET accepted == Verdict(queue[p], r.tasks) = "accepted"
  IN  /\ queue' = IF accepted THEN [queue EXCEPT ![p] = Enqueued(@, r.tasks, FALSE)] ELSE queue
      /\ handled' = [handled EXCEPT ![p] = Extended(@, r.request, accepted)]
      /\ monitor' = IF At(r.from, "waiting") /\ monitor[r.from].request = r.request
                      THEN [monitor EXCEPT ![r.from].answer =
                              IF accepted THEN "accepted" ELSE "refused"]
                      ELSE monitor

\* Mutant of Handle: the answer is lost with the connection it came on.
HandleUnanswered(p, r) ==
  LET accepted == Verdict(queue[p], r.tasks) = "accepted"
  IN  /\ queue' = IF accepted THEN [queue EXCEPT ![p] = Enqueued(@, r.tasks, FALSE)] ELSE queue
      /\ handled' = [handled EXCEPT ![p] = Extended(@, r.request, accepted)]
      /\ UNCHANGED monitor

Handle(p, r) ==
  LET new == r.request \notin DOMAIN handled[p]
      accepted == IF new THEN Verdict(queue[p], r.tasks) = "accepted"
                  ELSE handled[p][r.request]
  IN  /\ queue' = IF new /\ accepted
                    THEN [queue EXCEPT ![p] = Enqueued(@, r.tasks, FALSE)] ELSE queue
      /\ handled' = [handled EXCEPT ![p] = Extended(@, r.request, accepted)]
      /\ monitor' = IF At(r.from, "waiting") /\ monitor[r.from].request = r.request
                      THEN [monitor EXCEPT ![r.from].answer =
                              IF accepted THEN "accepted" ELSE "refused"]
                      ELSE monitor

Serve(p) ==
  /\ running[p]
  /\ backlog[p] # <<>>
  /\ backlog' = [backlog EXCEPT ![p] = Tail(@)]
  /\ Handle(p, Head(backlog[p]))
  /\ UNCHANGED <<running, transfers, timeouts>>

Monitoring(w) ==
  \/ NoticeOverload(w)
  \/ AskPeer(w)
  \/ \E n \in 1 .. MaxTransfer : ChoosePeer(w, n)
  \/ ReserveNext(w)
  \/ SendTransfer(w)
  \/ ReadAnswer(w)
  \/ GiveUp(w)
  \/ SettleNext(w)

-----------------------------------------------------------------------------
Steps == {"idle", "asking", "reserving", "waiting", "confirming", "releasing"}

P2PTypeOK ==
  /\ queue \in [Workers -> Queues(Copies)]
  /\ \A w \in Workers :
       /\ monitor[w].step \in Steps
       /\ DOMAIN monitor[w].room \subseteq Workers
       /\ monitor[w].peer \in (Workers \cup {Nobody}) \ {w}
       /\ monitor[w].todo \in Seq(Tasks)
       /\ monitor[w].held \in Seq(Copies)
       /\ monitor[w].request \in 0 .. transfers
       /\ monitor[w].answer \in {"none", "accepted", "refused"}
  /\ \A w \in Workers : \A i \in DOMAIN backlog[w] :
       backlog[w][i] \in [request : 1 .. transfers, from : Workers, tasks : Seq(Copies)]
  /\ \A w \in Workers :
       DOMAIN handled[w] \subseteq 1 .. transfers /\ \A r \in DOMAIN handled[w] : handled[w][r] \in BOOLEAN
  /\ running \in [Workers -> BOOLEAN]
  /\ transfers \in 0 .. MaxTransfers
  /\ timeouts \in 0 .. MaxTimeouts

(* No queue ever holds more than its capacity, although a peer decides how *)
(* many tasks to send on a size it read long before (balance_once,         *)
(* try_enqueue_many): the batch is weighed again on arrival.               *)
QueuesWithinCapacity ==
  \A w \in Workers :
    Len(queue[w].normal) + Len(queue[w].priority) + Cardinality(queue[w].reserved) <= Capacity
=============================================================================
