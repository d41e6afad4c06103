----------------------------- MODULE P2PNetwork -----------------------------
(***************************************************************************)
(* The P2P services of the workers at work, without the master: each task  *)
(* arrives once, at some worker, and is processed; the monitors move tasks *)
(* between the queues meanwhile.  It shows what the transfer protocol by   *)
(* itself keeps and what a timeout can do to it.                           *)
(***************************************************************************)
EXTENDS P2PTransfer

CONSTANT MaxRepeats      \* bound on the requests delivered again

ASSUME RepeatsAssumption == MaxRepeats \in Nat

VARIABLES fresh,         \* tasks that have not arrived yet
          executions,    \* how many times each task was processed
          repeats        \* requests delivered again so far

vars == <<p2pVars, fresh, executions, repeats>>

Init ==
  /\ P2PInit
  /\ fresh = Tasks
  /\ executions = [t \in Tasks |-> 0]
  /\ repeats = 0

\* The tasks are numbered in the order they arrive.
Arrive(w, t) ==
  LET batch == <<[id |-> t, by |-> w]>>
  IN  /\ t \in fresh
      /\ \A u \in fresh : t <= u
      /\ Verdict(queue[w], batch) = "accepted"
      /\ fresh' = fresh \ {t}
      /\ queue' = [queue EXCEPT ![w] = Enqueued(@, batch, FALSE)]
      /\ UNCHANGED <<monitor, backlog, handled, running, transfers, timeouts, executions, repeats>>

Take(w) ==
  /\ queue[w].processing = {}
  /\ CanDequeue(queue[w])
  /\ queue' = [queue EXCEPT ![w] = Dequeued(@)]
  /\ UNCHANGED <<monitor, backlog, handled, running, transfers, timeouts, fresh, executions, repeats>>

Finish(w) ==
  /\ queue[w].processing # {}
  /\ queue' = [queue EXCEPT ![w] = MarkedDone(@)]
  /\ executions' = [t \in Tasks |->
       executions[t] + IF t \in ProcessingIds(queue[w]) THEN 1 ELSE 0]
  /\ UNCHANGED <<monitor, backlog, handled, running, transfers, timeouts, fresh, repeats>>

\* The same request arrives, and will arrive once more.
ServeRepeated(p) ==
  /\ repeats < MaxRepeats
  /\ repeats' = repeats + 1
  /\ backlog[p] # <<>>
  /\ Handle(p, Head(backlog[p]))
  /\ UNCHANGED <<backlog, running, transfers, timeouts, fresh, executions>>

Next ==
  \E w \in Workers :
    \/ \E t \in Tasks : Arrive(w, t)
    \/ Take(w)
    \/ Finish(w)
    \/ Monitoring(w) /\ UNCHANGED <<fresh, executions, repeats>>
    \/ Serve(w) /\ UNCHANGED <<fresh, executions, repeats>>
    \/ ServeRepeated(w)

Spec == Init /\ [][Next]_vars

\* The P2P threads keep running, whatever the other threads do; a requester's
\* wait ends with an answer or with the timeout.
FairSpec ==
  /\ Spec
  /\ \A w \in Workers :
       /\ WF_vars(Monitoring(w) /\ UNCHANGED <<fresh, executions, repeats>>)
       /\ WF_vars(Serve(w) /\ UNCHANGED <<fresh, executions, repeats>>)

-----------------------------------------------------------------------------
TypeOK ==
  /\ P2PTypeOK
  /\ fresh \subseteq Tasks
  /\ executions \in [Tasks -> Nat]
  /\ repeats \in 0 .. MaxRepeats

HeldAt(w, t) ==
  t \in IdsIn(queue[w].normal) \cup IdsIn(queue[w].priority)
          \cup ReservedIds(queue[w]) \cup ProcessingIds(queue[w])

(* From its arrival until it is processed, a task is at some worker,       *)
(* through every refused, late, lost or repeated request: the giver keeps  *)
(* it until the ACK, the taker holds it from then on (balance_once,        *)
(* _handle_connection).                                                    *)
NeverNowhere ==
  \A t \in Tasks \ fresh : executions[t] = 0 => \E w \in Workers : HeldAt(w, t)

(* Every request that goes unanswered may cost one more execution of a     *)
(* task, and nothing else does: without timeouts each task is processed    *)
(* once, although transfers cross each other and requests repeat           *)
(* (_handled_transfers).                                                   *)
ExtraExecutionsNeedTimeouts == \A t \in Tasks : executions[t] <= 1 + timeouts

(* The transfer threads never wait on each other for good, even when two   *)
(* overloaded workers send to one another: every transfer that was begun   *)
(* is settled (one server thread and one monitor thread a worker).         *)
TransfersSettle ==
  \A w \in Workers : monitor[w].step # "idle" ~> monitor[w].step = "idle"
=============================================================================
