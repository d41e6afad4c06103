------------------------------- MODULE Master -------------------------------
(***************************************************************************)
(* The master process: the main thread that distributes tasks, reports and *)
(* terminates the workers, and one receiver thread a worker.  Between two  *)
(* critical sections of MasterCore a thread holds no lock: the TASK is     *)
(* sent after the section that assigned it, and statistics are recorded    *)
(* after the section that accepted the result.                             *)
(* The workers are an environment: a task that was sent may be reported,   *)
(* any number of times, by any worker (it may have been moved or copied    *)
(* from peer to peer), with the assignee its TASK message named; a status  *)
(* may carry any size; a link may be lost at any moment.                   *)
(***************************************************************************)
EXTENDS MasterCore

CONSTANTS MaxAttempts,     \* bound on the processing failures of one task
          MaxOverflows,    \* bound on the "queue overflow" answers
          MaxLostLinks     \* bound on the links lost before the end

ASSUME BoundsAssumption ==
  MaxAttempts \in Nat /\ MaxOverflows \in Nat /\ MaxLostLinks \in Nat

VARIABLES main,            \* what the main thread does
          sending,         \* the assignment it is about to send
          toTerminate,     \* workers it has yet to send TERMINATE to
          receiver,        \* what each receiver thread does
          terminating,     \* WorkerConnection.termination_requested
          link,            \* is the worker at the other end of its socket?
          sent,            \* TASK messages that reached a worker, with the
                           \*   assignee they name
          stats,           \* successes, failures and overflows recorded
          report,          \* number of completed tasks in the final report
          lostLinks        \* links lost so far

threadVars == <<main, sending, toTerminate, receiver, terminating>>
statVars   == <<stats, report>>
worldVars  == <<link, sent, lostLinks>>
vars == <<coreVars, threadVars, statVars, worldVars>>

NoTask  == [task |-> 0, worker |-> Nobody, retry |-> FALSE]
Kinds   == {"success", "fail", "overflow"}
NoReport == 0 - 1

Init ==
  /\ CoreInit
  /\ main = "distribute"
  /\ sending = NoTask
  /\ toTerminate = {}
  /\ receiver = [w \in Workers |-> "reading"]
  /\ terminating = [w \in Workers |-> FALSE]
  /\ link = [w \in Workers |-> TRUE]
  /\ sent = {}
  /\ stats = [k \in Kinds |-> 0]
  /\ report = NoReport
  /\ lostLinks = 0

\* Results of a kind the master has accepted, their statistics recorded or not.
Tally(kind) == stats[kind] + Cardinality({w \in Workers : receiver[w] = kind})

Stopped == main \in {"closed", "failed"}    \* _stopped is set, the sockets closed

-----------------------------------------------------------------------------
(* The main thread.                                                        *)

\* The loop also ends when _stopped is set.  run() sets it after the loop only;
\* it takes a stop() from outside to end the loop so, and no program makes one.
Distribute ==
  /\ main = "distribute"
  /\ \/ /\ AllStored
        /\ main' = "report"
        /\ UNCHANGED <<coreVars, sending>>
     \/ /\ ~ AllStored /\ ~ AnyConnected     \* RuntimeError, then stop()
        /\ main' = "failed"
        /\ UNCHANGED <<coreVars, sending>>
     \/ /\ ~ AllStored /\ AnyConnected
        /\ \E t \in Tasks, w \in Workers :
             /\ AssignNext(t, w)
             /\ sending' = [task |-> t, worker |-> w, retry |-> FromRetry]
        /\ main' = "send"
     \/ /\ ~ AllStored /\ AnyConnected
        /\ PutNextBack
        /\ UNCHANGED <<main, sending>>
  /\ UNCHANGED <<toTerminate, receiver, terminating, statVars, worldVars>>

\* The message is built from the task as it is now.  Writing to a lost link
\* may still succeed, into the void.
SendTask ==
  /\ main = "send"
  /\ \/ /\ sent' = IF link[sending.worker]
                     THEN sent \cup {[task |-> sending.task, to |-> sending.worker,
                                      assignee |-> assignmentWorker[sending.task]]}
                     ELSE sent
        /\ main' = IF sending.retry THEN "record" ELSE "distribute"
        /\ UNCHANGED coreVars
     \/ /\ ~ link[sending.worker]            \* OSError
        /\ DisconnectWorker(sending.worker)
        /\ main' = "distribute"
        /\ UNCHANGED sent
  /\ sending' = IF main' = "record" THEN sending ELSE NoTask
  /\ UNCHANGED <<toTerminate, receiver, terminating, statVars, link, lostLinks>>

\* After a task of the retry queue the reallocation is counted; the count is
\* for the report only and left out.
RecordReallocation ==
  /\ main = "record"
  /\ main' = "distribute"
  /\ sending' = NoTask
  /\ UNCHANGED <<coreVars, toTerminate, receiver, terminating, statVars, worldVars>>

EmitStatistics ==
  /\ main = "report"
  /\ main' = "terminate"
  /\ report' = stats["success"]
  /\ toTerminate' = Workers
  /\ UNCHANGED <<coreVars, sending, receiver, terminating, stats, worldVars>>

SendTerminate(w) ==
  /\ main = "terminate"
  /\ w \in toTerminate
  /\ toTerminate' = toTerminate \ {w}
  /\ \/ /\ connected[w]
        /\ terminating' = [terminating EXCEPT ![w] = TRUE]
        /\ UNCHANGED coreVars
     \/ /\ connected[w] /\ ~ link[w]         \* OSError
        /\ DisconnectWorker(w)
        /\ UNCHANGED terminating
     \/ ~ connected[w] /\ UNCHANGED <<coreVars, terminating>>
  /\ UNCHANGED <<main, sending, receiver, statVars, worldVars>>

Stop ==
  /\ main = "terminate"
  /\ toTerminate = {}
  /\ main' = "closed"
  /\ UNCHANGED <<coreVars, sending, toTerminate, receiver, terminating, statVars, worldVars>>

-----------------------------------------------------------------------------
(* The receiver threads.                                                   *)

Reading(w) == receiver[w] = "reading" /\ ~ Stopped

\* The condition lock is released before the statistics are updated.
Accepted(w, kind) == receiver' = [receiver EXCEPT ![w] = kind]

HandleStatus(w, size) ==
  /\ Reading(w)
  /\ UpdateStatus(w, size)
  /\ UNCHANGED <<threadVars, statVars, worldVars>>

HandleSuccess(w, m) ==
  /\ Reading(w)
  /\ m \in sent
  /\ IF IsCurrent(m.task, m.assignee)
       THEN RecordSuccess(m.task) /\ Accepted(w, "success")
       ELSE UNCHANGED <<coreVars, receiver>>
  /\ UNCHANGED <<main, sending, toTerminate, terminating, statVars, worldVars>>

HandleFailure(w, m, overflow) ==
  /\ Reading(w)
  /\ m \in sent
  /\ overflow => w = m.to         \* refused on arrival, not by a peer
  /\ IF overflow THEN Tally("overflow") < MaxOverflows ELSE attempt[m.task] < MaxAttempts
  /\ IF IsCurrent(m.task, m.assignee)
       THEN /\ RecordFailure(w, m.task, overflow)
            /\ Accepted(w, IF overflow THEN "overflow" ELSE "fail")
       ELSE UNCHANGED <<coreVars, receiver>>
  /\ UNCHANGED <<main, sending, toTerminate, terminating, statVars, worldVars>>

RecordStatistics(w) ==
  /\ receiver[w] \in Kinds
  /\ stats' = [stats EXCEPT ![receiver[w]] = @ + 1]
  /\ receiver' = [receiver EXCEPT ![w] = "reading"]
  /\ UNCHANGED <<coreVars, main, sending, toTerminate, terminating, report, worldVars>>

\* End of file, or a socket the main thread has closed.
ReadEnd(w) ==
  /\ receiver[w] = "reading"
  /\ ~ link[w] \/ Stopped
  /\ receiver' = [receiver EXCEPT ![w] = "exited"]
  /\ IF terminating[w] \/ Stopped THEN UNCHANGED coreVars ELSE DisconnectWorker(w)
  /\ UNCHANGED <<main, sending, toTerminate, terminating, statVars, worldVars>>

-----------------------------------------------------------------------------
(* The workers' end of the links: lost, or closed after TERMINATE.         *)

LoseLink(w) ==
  /\ link[w]
  /\ terminating[w] \/ lostLinks < MaxLostLinks
  /\ link' = [link EXCEPT ![w] = FALSE]
  /\ lostLinks' = IF terminating[w] THEN lostLinks ELSE lostLinks + 1
  /\ UNCHANGED <<coreVars, threadVars, statVars, sent>>

-----------------------------------------------------------------------------
Next ==
  \/ Distribute
  \/ SendTask
  \/ RecordReallocation
  \/ EmitStatistics
  \/ \E w \in Workers :
       \/ SendTerminate(w)
       \/ \E size \in 0 .. Capacity : HandleStatus(w, size)
       \/ \E m \in sent : HandleSuccess(w, m)
       \/ \E m \in sent, overflow \in BOOLEAN : HandleFailure(w, m, overflow)
       \/ RecordStatistics(w)
       \/ ReadEnd(w)
       \/ LoseLink(w)
  \/ Stop

Spec == Init /\ [][Next]_vars

-----------------------------------------------------------------------------
(* Properties, with those of MasterCore.                                   *)

(* Types; the master never believes that a worker holds more than its      *)
(* capacity, and while a TASK is sent, or its reallocation recorded, the   *)
(* assignment names a task and a worker.                                   *)
TypeOK ==
  /\ CoreTypeOK
  /\ main \in {"distribute", "send", "record", "report", "terminate", "closed", "failed"}
  /\ sending \in [task : Tasks \cup {0}, worker : Workers \cup {Nobody}, retry : BOOLEAN]
  /\ main \in {"send", "record"} => sending.task \in Tasks /\ sending.worker \in Workers
  /\ toTerminate \subseteq Workers
  /\ receiver \in [Workers -> {"reading", "exited"} \cup Kinds]
  /\ terminating \in [Workers -> BOOLEAN]
  /\ link \in [Workers -> BOOLEAN]
  /\ sent \subseteq [task : Tasks, to : Workers, assignee : Workers \cup {Nobody}]
  /\ stats \in [Kinds -> Nat]
  /\ report \in Nat \cup {NoReport}
  /\ lostLinks \in 0 .. MaxLostLinks

(* Whatever happened between the section that assigned a task and the send *)
(* that follows it (a late result, a lost link), the TASK message names    *)
(* the worker it goes to as the assignee; a result that named another      *)
(* would be ignored and the task never completed (master/runtime.py:397).  *)
SentToAssignee == \A m \in sent : m.to = m.assignee

(* Each accepted result is counted once, and nothing else is: successes    *)
(* match the store, failures the attempts, although the counters are       *)
(* updated outside of the section that accepts (_handle_success,           *)
(* _handle_failure).                                                       *)
AcceptedResultsCounted ==
  /\ Tally("success") = Cardinality(store)
  /\ Tally("fail") = MapThenSumSet(LAMBDA t : attempt[t], Tasks)

(* No worker is told to stop, and the run does not end, before every task  *)
(* is stored (run, _send_terminate).                                       *)
TerminatesWhenAllStored ==
  main \in {"report", "terminate", "closed"} \/ (\E w \in Workers : terminating[w])
    => store = Tasks

(* A new task is never assigned while a failed one waits.                  *)
RetriesFirst ==
  [][(\E t \in Tasks : taskState[t] = "pending" /\ taskState'[t] = "assigned")
       => \A t \in Tasks : taskState[t] # "retry"]_vars
=============================================================================
