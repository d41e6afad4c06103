---------------------------- MODULE MasterProofs ----------------------------
(***************************************************************************)
(* The master keeps its invariants for any number of tasks and workers,    *)
(* any capacity and any bound on the faults.                               *)
(***************************************************************************)
EXTENDS Master, MasterCoreProofs

(* The worker that the main thread is about to write to is the assignee of *)
(* the task, whatever happens to the task in the meantime.                 *)
SendingToAssignee == main = "send" => assignmentWorker[sending.task] = sending.worker

Inv ==
  /\ TypeOK
  /\ CoreInv
  /\ SendingToAssignee
  /\ SentToAssignee
  /\ TerminatesWhenAllStored

(* The state in which the distribution starts. *)
LEMMA InitInv == Init => Inv
<1> SUFFICES ASSUME Init PROVE Inv
  OBVIOUS
<1>1. CoreInv
  BY CoreInitInv DEF Init
<1>2. TypeOK
  <2>1. CoreTypeOK
    BY <1>1 DEF CoreInv
  <2>2. 0 \in 0 .. MaxLostLinks
    BY BoundsAssumption DEF BoundsAssumption
  <2>3. QED
    BY <2>1, <2>2 DEF Init, TypeOK, NoTask, Kinds, NoReport, Nobody
<1>3. SendingToAssignee /\ SentToAssignee /\ TerminatesWhenAllStored
  BY DEF Init, SendingToAssignee, SentToAssignee, TerminatesWhenAllStored
<1>4. QED
  BY <1>1, <1>2, <1>3 DEF Inv

-----------------------------------------------------------------------------
(* What the critical sections leave alone.                                 *)

(* A disconnection touches neither the store nor the address of a task. *)
LEMMA DisconnectKeeps ==
  ASSUME NEW w \in Workers, DisconnectWorker(w)
  PROVE  UNCHANGED <<assignmentWorker, store>>
BY DEF DisconnectWorker, coreVars

(* Every task is stored exactly when the store has as many entries. *)
LEMMA AllStoredMeansAll ==
  ASSUME store \in SUBSET Tasks, AllStored
  PROVE  store = Tasks
BY TasksFinite, FS_Subset DEF AllStored

-----------------------------------------------------------------------------
(* One lemma a thread's step.                                              *)

(* The main thread: assignment, putting back, end of the distribution. *)
LEMMA DistributeInv == Inv /\ Distribute => Inv'
<1> SUFFICES ASSUME Inv, Distribute PROVE Inv'
  OBVIOUS
<1> USE DEF Inv
<1>1. CASE AllStored /\ main' = "report" /\ UNCHANGED <<coreVars, sending>>
  <2>1. CoreInv'
    BY <1>1, StutterInv
  <2>2. store = Tasks
    BY <1>1, AllStoredMeansAll DEF TypeOK, CoreTypeOK
  <2>3. QED
    BY <1>1, <2>1, <2>2 DEF Distribute, CoreInv, TypeOK, coreVars, statVars, worldVars,
       SendingToAssignee, SentToAssignee, TerminatesWhenAllStored
<1>2. CASE main' = "failed" /\ UNCHANGED <<coreVars, sending>>
  <2>1. CoreInv'
    BY <1>2, StutterInv
  <2>2. QED
    BY <1>2, <2>1 DEF Distribute, CoreInv, TypeOK, coreVars, statVars, worldVars,
       SendingToAssignee, SentToAssignee, TerminatesWhenAllStored
<1>3. ASSUME NEW t \in Tasks, NEW w \in Workers, AssignNext(t, w),
             sending' = [task |-> t, worker |-> w, retry |-> FromRetry], main' = "send"
      PROVE  Inv'
  <2>1. CoreInv'
    BY <1>3, AssignNextInv
  <2>2. assignmentWorker'[t] = w /\ UNCHANGED store
    BY <1>3 DEF AssignNext, TypeOK, CoreTypeOK
  <2>3. FromRetry \in BOOLEAN
    BY DEF FromRetry
  <2>4. TypeOK'
    BY <1>3, <2>1, <2>3 DEF Distribute, CoreInv, TypeOK, statVars, worldVars
  <2>5. SendingToAssignee'
    BY <1>3, <2>2 DEF SendingToAssignee
  <2>6. SentToAssignee'
    BY DEF Distribute, SentToAssignee, worldVars
  <2>7. TerminatesWhenAllStored'
    BY <1>3, <2>2 DEF Distribute, TerminatesWhenAllStored
  <2>8. QED
    BY <2>1, <2>4, <2>5, <2>6, <2>7
<1>4. CASE PutNextBack /\ UNCHANGED <<main, sending>>
  <2>1. CoreInv'
    BY <1>4, PutNextBackInv
  <2>2. UNCHANGED <<assignmentWorker, store>>
    BY <1>4 DEF PutNextBack
  <2>3. QED
    BY <1>4, <2>1, <2>2 DEF Distribute, CoreInv, TypeOK, statVars, worldVars,
       SendingToAssignee, SentToAssignee, TerminatesWhenAllStored
<1>5. QED
  BY <1>1, <1>2, <1>3, <1>4 DEF Distribute

(* The send after the lock was released, or its failure. *)
LEMMA SendTaskInv == Inv /\ SendTask => Inv'
<1> SUFFICES ASSUME Inv, SendTask PROVE Inv'
  OBVIOUS
<1> USE DEF Inv
<1> DEFINE m == [task |-> sending.task, to |-> sending.worker,
                 assignee |-> assignmentWorker[sending.task]]
<1>1. /\ main = "send" /\ main' \in {"record", "distribute"}
      /\ sending' = IF main' = "record" THEN sending ELSE NoTask
      /\ sending.task \in Tasks /\ sending.worker \in Workers
      /\ UNCHANGED <<toTerminate, receiver, terminating, statVars, link, lostLinks>>
  BY DEF SendTask, TypeOK
<1>2. m.to = m.assignee /\ m \in [task : Tasks, to : Workers, assignee : Workers \cup {Nobody}]
  BY <1>1 DEF SendingToAssignee
<1>3. CoreInv' /\ UNCHANGED store
  <2>1. CASE UNCHANGED coreVars
    BY <2>1, StutterInv DEF coreVars
  <2>2. CASE DisconnectWorker(sending.worker)
    BY <2>2, <1>1, DisconnectWorkerInv, DisconnectKeeps
  <2>3. QED
    BY <2>1, <2>2 DEF SendTask
<1>4. sent' \in {sent, sent \cup {m}}
  BY DEF SendTask
<1> HIDE DEF m
<1>5. TypeOK'
  <2>1. sent' \subseteq [task : Tasks, to : Workers, assignee : Workers \cup {Nobody}]
    BY <1>2, <1>4 DEF TypeOK
  <2>2. sending' \in [task : Tasks \cup {0}, worker : Workers \cup {Nobody}, retry : BOOLEAN]
    BY <1>1 DEF NoTask, TypeOK
  <2>3. QED
    BY <1>1, <1>3, <2>1, <2>2 DEF TypeOK, CoreInv, statVars
<1>6. SendingToAssignee'
  BY <1>1 DEF SendingToAssignee
<1>7. SentToAssignee'
  BY <1>2, <1>4 DEF SentToAssignee
<1>8. TerminatesWhenAllStored'
  BY <1>1, <1>3 DEF TerminatesWhenAllStored
<1>9. QED
  BY <1>3, <1>5, <1>6, <1>7, <1>8

(* The count of a reallocation after the send. *)
LEMMA RecordReallocationInv == Inv /\ RecordReallocation => Inv'
<1> SUFFICES ASSUME Inv, RecordReallocation PROVE Inv'
  OBVIOUS
<1> USE DEF Inv, RecordReallocation
<1>1. CoreInv'
  BY StutterInv
<1>2. TypeOK'
  BY <1>1 DEF TypeOK, CoreInv, statVars, worldVars, NoTask
<1>3. (SendingToAssignee /\ SentToAssignee /\ TerminatesWhenAllStored)'
  BY DEF SendingToAssignee, SentToAssignee, TerminatesWhenAllStored, coreVars, worldVars
<1>4. QED
  BY <1>1, <1>2, <1>3

(* Report, TERMINATE and the closing of the sockets. *)
LEMMA MainThreadEndInv ==
  Inv /\ (EmitStatistics \/ Stop \/ \E w \in Workers : SendTerminate(w)) => Inv'
<1> USE DEF Inv
<1>1. ASSUME Inv, EmitStatistics PROVE Inv'
  <2>1. CoreInv'
    BY <1>1, StutterInv DEF EmitStatistics
  <2>2. stats["success"] \in Nat
    BY <1>1 DEF TypeOK, Kinds
  <2>3. QED
    BY <1>1, <2>1, <2>2 DEF EmitStatistics, CoreInv, TypeOK, coreVars, worldVars,
       SendingToAssignee, SentToAssignee, TerminatesWhenAllStored
<1>2. ASSUME Inv, Stop PROVE Inv'
  <2>1. CoreInv'
    BY <1>2, StutterInv DEF Stop
  <2>2. QED
    BY <1>2, <2>1 DEF Stop, CoreInv, TypeOK, coreVars, statVars, worldVars,
       SendingToAssignee, SentToAssignee, TerminatesWhenAllStored
<1>3. ASSUME Inv, NEW w \in Workers, SendTerminate(w) PROVE Inv'
  <2>1. /\ main = "terminate"
        /\ toTerminate' = toTerminate \ {w}
        /\ terminating' \in {terminating, [terminating EXCEPT ![w] = TRUE]}
        /\ UNCHANGED <<main, sending, receiver, statVars, worldVars>>
    BY <1>3 DEF SendTerminate
  <2>2. CoreInv' /\ UNCHANGED store
    <3>1. CASE UNCHANGED coreVars
      BY <1>3, <3>1, StutterInv DEF coreVars
    <3>2. CASE DisconnectWorker(w)
      BY <1>3, <3>2, DisconnectWorkerInv, DisconnectKeeps
    <3>3. QED
      BY <1>3, <3>1, <3>2 DEF SendTerminate
  <2>3. TypeOK'
    BY <1>3, <2>1, <2>2 DEF TypeOK, CoreInv, statVars, worldVars
  <2>4. (SendingToAssignee /\ SentToAssignee /\ TerminatesWhenAllStored)'
    BY <1>3, <2>1, <2>2
       DEF SendingToAssignee, SentToAssignee, TerminatesWhenAllStored, worldVars
  <2>5. QED
    BY <2>2, <2>3, <2>4
<1>4. QED
  BY <1>1, <1>2, <1>3

(* A section that keeps the assignees and forgets no value preserves what  *)
(* the messages and the end of the run depend on.                          *)
LEMMA ReceiverKeeps ==
  ASSUME Inv, CoreInv',
         UNCHANGED assignmentWorker, store \subseteq store',
         UNCHANGED <<main, sending, toTerminate, terminating, statVars, sent, link>>,
         receiver' \in [Workers -> {"reading", "exited"} \cup Kinds],
         lostLinks' = lostLinks
  PROVE  Inv'
<1> USE DEF Inv
<1>1. TypeOK'
  BY DEF TypeOK, CoreInv, statVars
<1>2. TerminatesWhenAllStored'
  BY DEF TerminatesWhenAllStored, CoreInv, CoreTypeOK
<1>3. QED
  BY <1>1, <1>2 DEF SendingToAssignee, SentToAssignee

(* The three messages a receiver thread handles. *)
LEMMA HandleInv ==
  Inv /\ (\E w \in Workers : \/ \E size \in 0 .. Capacity : HandleStatus(w, size)
                             \/ \E m \in sent : HandleSuccess(w, m)
                             \/ \E m \in sent, overflow \in BOOLEAN : HandleFailure(w, m, overflow))
    => Inv'
<1> SUFFICES ASSUME Inv, NEW w \in Workers PROVE
       /\ \A size \in 0 .. Capacity : HandleStatus(w, size) => Inv'
       /\ \A m \in sent : HandleSuccess(w, m) => Inv'
       /\ \A m \in sent, overflow \in BOOLEAN : HandleFailure(w, m, overflow) => Inv'
  OBVIOUS
<1> USE DEF Inv
<1>1. /\ receiver \in [Workers -> {"reading", "exited"} \cup Kinds]
      /\ \A kind \in Kinds : Accepted(w, kind) =>
           receiver' \in [Workers -> {"reading", "exited"} \cup Kinds]
  BY DEF TypeOK, Accepted
<1>2. \A m \in sent : m.task \in Tasks /\ m.assignee \in Workers
  BY DEF TypeOK, SentToAssignee
<1>3. ASSUME NEW size \in 0 .. Capacity, HandleStatus(w, size) PROVE Inv'
  <2>1. CoreInv' /\ UNCHANGED <<assignmentWorker, store>>
    BY <1>3, UpdateStatusInv DEF HandleStatus, UpdateStatus
  <2>2. UNCHANGED <<threadVars, statVars, worldVars>>
    BY <1>3 DEF HandleStatus
  <2>3. QED
    BY <1>1, <2>1, <2>2, ReceiverKeeps DEF threadVars, worldVars
<1>4. ASSUME NEW m \in sent, HandleSuccess(w, m) PROVE Inv'
  <2>1. UNCHANGED <<main, sending, toTerminate, terminating, statVars, worldVars>>
    BY <1>4 DEF HandleSuccess
  <2>2. CASE ~ IsCurrent(m.task, m.assignee)
    <3>1. UNCHANGED <<coreVars, receiver>>
      BY <1>4, <2>2 DEF HandleSuccess
    <3>2. QED
      BY <1>1, <2>1, <3>1, StutterInv, ReceiverKeeps DEF coreVars, worldVars
  <2>3. CASE IsCurrent(m.task, m.assignee)
    <3>1. RecordSuccess(m.task) /\ Accepted(w, "success")
      BY <1>4, <2>3 DEF HandleSuccess
    <3>2. CoreInv'
      BY <1>2, <2>3, <3>1, RecordSuccessInv
    <3>3. UNCHANGED assignmentWorker /\ store \subseteq store'
      BY <3>1 DEF RecordSuccess
    <3>4. QED
      BY <1>1, <2>1, <3>1, <3>2, <3>3, ReceiverKeeps DEF Kinds, worldVars
  <2>4. QED
    BY <2>2, <2>3
<1>5. ASSUME NEW m \in sent, NEW overflow \in BOOLEAN, HandleFailure(w, m, overflow) PROVE Inv'
  <2>1. UNCHANGED <<main, sending, toTerminate, terminating, statVars, worldVars>>
    BY <1>5 DEF HandleFailure
  <2>2. CASE ~ IsCurrent(m.task, m.assignee)
    <3>1. UNCHANGED <<coreVars, receiver>>
      BY <1>5, <2>2 DEF HandleFailure
    <3>2. QED
      BY <1>1, <2>1, <3>1, StutterInv, ReceiverKeeps DEF coreVars, worldVars
  <2>3. CASE IsCurrent(m.task, m.assignee)
    <3>1. /\ RecordFailure(w, m.task, overflow)
          /\ Accepted(w, IF overflow THEN "overflow" ELSE "fail")
      BY <1>5, <2>3 DEF HandleFailure
    <3>2. CoreInv'
      BY <1>2, <2>3, <3>1, RecordFailureInv
    <3>3. UNCHANGED <<assignmentWorker, store>>
      BY <3>1 DEF RecordFailure
    <3>4. QED
      BY <1>1, <2>1, <3>1, <3>2, <3>3, ReceiverKeeps DEF Kinds, worldVars
  <2>4. QED
    BY <2>2, <2>3
<1>6. QED
  BY <1>3, <1>4, <1>5

(* The end of a receiver thread, with or without a disconnection. *)
LEMMA ReadEndInv == Inv /\ (\E w \in Workers : ReadEnd(w)) => Inv'
<1> SUFFICES ASSUME Inv, NEW w \in Workers, ReadEnd(w) PROVE Inv'
  OBVIOUS
<1>1. /\ receiver' \in [Workers -> {"reading", "exited"} \cup Kinds]
      /\ UNCHANGED <<main, sending, toTerminate, terminating, statVars, worldVars>>
  BY DEF ReadEnd, Inv, TypeOK
<1>2. CoreInv' /\ UNCHANGED <<assignmentWorker, store>>
  <2>1. CASE UNCHANGED coreVars
    BY <2>1, StutterInv DEF Inv, coreVars
  <2>2. CASE DisconnectWorker(w)
    BY <2>2, DisconnectWorkerInv, DisconnectKeeps DEF Inv
  <2>3. QED
    BY <2>1, <2>2 DEF ReadEnd
<1>3. QED
  BY <1>1, <1>2, ReceiverKeeps DEF worldVars

(* The statistics of an accepted result. *)
LEMMA RecordStatisticsInv == Inv /\ (\E w \in Workers : RecordStatistics(w)) => Inv'
<1> SUFFICES ASSUME Inv, NEW w \in Workers, RecordStatistics(w) PROVE Inv'
  OBVIOUS
<1> USE DEF Inv, RecordStatistics
<1>1. CoreInv'
  BY StutterInv
<1>2. /\ stats' \in [Kinds -> Nat]
      /\ receiver' \in [Workers -> {"reading", "exited"} \cup Kinds]
  BY DEF TypeOK
<1>3. TypeOK'
  BY <1>1, <1>2 DEF TypeOK, CoreInv, worldVars
<1>4. (SendingToAssignee /\ SentToAssignee /\ TerminatesWhenAllStored)'
  BY DEF SendingToAssignee, SentToAssignee, TerminatesWhenAllStored, coreVars, worldVars
<1>5. QED
  BY <1>1, <1>3, <1>4

(* The loss of a link, before anybody notices. *)
LEMMA LoseLinkInv == Inv /\ (\E w \in Workers : LoseLink(w)) => Inv'
<1> SUFFICES ASSUME Inv, NEW w \in Workers, LoseLink(w) PROVE Inv'
  OBVIOUS
<1> USE DEF Inv, LoseLink
<1>1. CoreInv'
  BY StutterInv
<1>2. lostLinks' \in 0 .. MaxLostLinks
  BY BoundsAssumption DEF TypeOK, BoundsAssumption
<1>3. TypeOK'
  BY <1>1, <1>2 DEF TypeOK, CoreInv, threadVars, statVars
<1>4. (SendingToAssignee /\ SentToAssignee /\ TerminatesWhenAllStored)'
  BY DEF SendingToAssignee, SentToAssignee, TerminatesWhenAllStored, coreVars, threadVars
<1>5. QED
  BY <1>1, <1>3, <1>4

(* Stuttering steps. *)
LEMMA UnchangedInv == Inv /\ UNCHANGED vars => Inv'
<1> SUFFICES ASSUME Inv, UNCHANGED vars PROVE Inv'
  OBVIOUS
<1>1. CoreInv'
  BY StutterInv DEF Inv, vars
<1>2. QED
  BY <1>1 DEF Inv, CoreInv, TypeOK, vars, threadVars, statVars, worldVars, coreVars,
     SendingToAssignee, SentToAssignee, TerminatesWhenAllStored

(* Inv is inductive. *)
LEMMA NextInv == Inv /\ [Next]_vars => Inv'
<1> SUFFICES ASSUME Inv, [Next]_vars PROVE Inv'
  OBVIOUS
<1>1. CASE Distribute
  BY <1>1, DistributeInv
<1>2. CASE SendTask
  BY <1>2, SendTaskInv
<1>3. CASE RecordReallocation
  BY <1>3, RecordReallocationInv
<1>4. CASE EmitStatistics \/ Stop \/ \E w \in Workers : SendTerminate(w)
  BY <1>4, MainThreadEndInv
<1>5. CASE \E w \in Workers :
             \/ \E size \in 0 .. Capacity : HandleStatus(w, size)
             \/ \E m \in sent : HandleSuccess(w, m)
             \/ \E m \in sent, overflow \in BOOLEAN : HandleFailure(w, m, overflow)
  BY <1>5, HandleInv
<1>6. CASE \E w \in Workers : RecordStatistics(w)
  BY <1>6, RecordStatisticsInv
<1>7. CASE \E w \in Workers : ReadEnd(w)
  BY <1>7, ReadEndInv
<1>8. CASE \E w \in Workers : LoseLink(w)
  BY <1>8, LoseLinkInv
<1>9. CASE UNCHANGED vars
  BY <1>9, UnchangedInv
<1>10. QED
  BY <1>1, <1>2, <1>3, <1>4, <1>5, <1>6, <1>7, <1>8, <1>9 DEF Next

(* Inv holds in every reachable state. *)
LEMMA SpecInv == Spec => []Inv
BY InitInv, NextInv, PTL DEF Spec

-----------------------------------------------------------------------------
(* The theorems.                                                           *)

(* The variables keep their types; in particular the master never counts   *)
(* more tasks at a worker than its queue can hold (_choose_worker_locked). *)
THEOREM TypesHold == Spec => []TypeOK
<1>1. Inv => TypeOK
  BY DEF Inv
<1>2. QED
  BY SpecInv, <1>1, PTL

(* A task is never with two workers, nor with a lost one: through late and *)
(* repeated results, failures, overflows and lost links, in any order.     *)
THEOREM AssignmentsAreExclusive == Spec => []AssignedToOne
<1>1. Inv => AssignedToOne
  BY DEF Inv, CoreInv
<1>2. QED
  BY SpecInv, <1>1, PTL

(* The queues hold exactly the waiting tasks, once each, so no waiting     *)
(* task is forgotten and none is sent twice.                               *)
THEOREM QueuesAreExact == Spec => []QueuesMatchStates
<1>1. Inv => QueuesMatchStates
  BY DEF Inv, CoreInv
<1>2. QED
  BY SpecInv, <1>1, PTL

(* The store holds the completed tasks and no other. *)
THEOREM StoreIsExact == Spec => []StoreMatchesStates
<1>1. Inv => StoreMatchesStates
  BY DEF Inv, CoreInv
<1>2. QED
  BY SpecInv, <1>1, PTL

(* A retried task never goes back to the worker that failed or lost it     *)
(* (_choose_worker_locked).                                                *)
THEOREM PreviousIsAvoided == Spec => []AvoidsPrevious
<1>1. Inv => AvoidsPrevious
  BY DEF Inv, CoreInv
<1>2. QED
  BY SpecInv, <1>1, PTL

(* A TASK message names its receiver as the assignee, although it is       *)
(* written after the lock was released.                                    *)
THEOREM MessagesNameAssignee == Spec => []SentToAssignee
<1>1. Inv => SentToAssignee
  BY DEF Inv
<1>2. QED
  BY SpecInv, <1>1, PTL

(* The workers are told to stop only when all tasks are stored. *)
THEOREM TerminationIsComplete == Spec => []TerminatesWhenAllStored
<1>1. Inv => TerminatesWhenAllStored
  BY DEF Inv
<1>2. QED
  BY SpecInv, <1>1, PTL

-----------------------------------------------------------------------------
(* Two properties of the steps.                                            *)

LEMMA NextRetriesFirst ==
  ASSUME Inv, Next, NEW t \in Tasks, taskState[t] = "pending", taskState'[t] = "assigned"
  PROVE  \A u \in Tasks : taskState[u] # "retry"
<1> USE DEF Inv
<1>1. CASE \E u \in Tasks, w \in Workers : AssignNext(u, w)
  <2>1. PICK u \in Tasks, w \in Workers : AssignNext(u, w)
    BY <1>1
  <2>2. HasTask /\ u = NextTask /\ taskState' = [taskState EXCEPT ![u] = "assigned"]
    BY <2>1 DEF AssignNext
  <2>3. u = t
    BY <2>2 DEF CoreInv, CoreTypeOK
  <2>4. retryTasks = <<>>
    BY <2>2, <2>3, NextTaskIsFirst
  <2>5. \A v \in Tasks : ~ Lists(retryTasks, v)
    BY <2>4 DEF Lists
  <2>6. QED
    BY <2>5 DEF CoreInv, QueuesMatchStates
<1>2. CASE UNCHANGED taskState
  BY <1>2
<1>3. ASSUME NEW w \in Workers, DisconnectWorker(w) PROVE FALSE
  <2>1. taskState'[t] \in {"retry", taskState[t]}
    BY <1>3 DEF DisconnectWorker, coreVars
  <2>2. QED
    BY <2>1
<1>4. ASSUME NEW u \in Tasks, taskState' \in {[taskState EXCEPT ![u] = "done"],
                                              [taskState EXCEPT ![u] = "retry"]}
      PROVE  FALSE
  BY <1>4 DEF CoreInv, CoreTypeOK
<1>5. \A m \in sent : m.task \in Tasks
  BY DEF TypeOK
<1>6. CASE Distribute
  BY <1>6, <1>1, <1>2 DEF Distribute, PutNextBack, coreVars
<1>7. CASE SendTask
  BY <1>7, <1>2, <1>3 DEF SendTask, coreVars, TypeOK
<1>8. CASE RecordReallocation \/ EmitStatistics \/ Stop
  BY <1>8, <1>2 DEF RecordReallocation, EmitStatistics, Stop, coreVars
<1>9. ASSUME NEW w \in Workers, SendTerminate(w) \/ ReadEnd(w)
      PROVE  \A u \in Tasks : taskState[u] # "retry"
  BY <1>9, <1>2, <1>3 DEF SendTerminate, ReadEnd, coreVars
<1>10. ASSUME NEW w \in Workers,
              \/ \E size \in 0 .. Capacity : HandleStatus(w, size)
              \/ RecordStatistics(w)
              \/ LoseLink(w)
       PROVE  \A u \in Tasks : taskState[u] # "retry"
  BY <1>10, <1>2 DEF HandleStatus, UpdateStatus, RecordStatistics, LoseLink, coreVars
<1>11. ASSUME NEW w \in Workers, NEW m \in sent,
              \/ HandleSuccess(w, m)
              \/ \E overflow \in BOOLEAN : HandleFailure(w, m, overflow)
       PROVE  \A u \in Tasks : taskState[u] # "retry"
  <2>1. \/ UNCHANGED taskState
        \/ taskState' \in {[taskState EXCEPT ![m.task] = "done"],
                           [taskState EXCEPT ![m.task] = "retry"]}
    BY <1>11 DEF HandleSuccess, HandleFailure, RecordSuccess, RecordFailure, coreVars
  <2>2. QED
    BY <2>1, <1>2, <1>4, <1>5
<1>12. QED
  BY <1>6, <1>7, <1>8, <1>9, <1>10, <1>11 DEF Next

(* A new task is never assigned while a failed one waits. *)
THEOREM RetriesGoFirst == Spec => RetriesFirst
<1>1. Inv /\ [Next]_vars =>
        [(\E t \in Tasks : taskState[t] = "pending" /\ taskState'[t] = "assigned")
           => \A t \in Tasks : taskState[t] # "retry"]_vars
  BY NextRetriesFirst
<1>2. QED
  BY SpecInv, <1>1, PTL DEF Spec, RetriesFirst

LEMMA LedgerNext == Inv /\ [Next]_vars => [Ledger!Next]_(Ledger!vars)
<1> SUFFICES ASSUME Inv, [Next]_vars PROVE Ledger!Next \/ UNCHANGED Ledger!vars
  OBVIOUS
<1> USE DEF Inv
<1>1. CASE UNCHANGED coreVars
  BY <1>1, LedgerStutter
<1>2. ASSUME NEW w \in Workers, DisconnectWorker(w)
      PROVE  Ledger!Next \/ UNCHANGED Ledger!vars
  BY <1>2, LedgerDisconnectWorker
<1>3. \A m \in sent : m.task \in Tasks /\ m.assignee \in Workers
  BY DEF TypeOK, SentToAssignee
<1>4. CASE Distribute
  BY <1>4, <1>1, LedgerAssignNext, LedgerPutNextBack DEF Distribute
<1>5. CASE SendTask
  BY <1>5, <1>1, <1>2 DEF SendTask, TypeOK
<1>6. CASE RecordReallocation \/ EmitStatistics \/ Stop
  BY <1>6, <1>1 DEF RecordReallocation, EmitStatistics, Stop
<1>7. ASSUME NEW w \in Workers, SendTerminate(w) \/ ReadEnd(w)
      PROVE  Ledger!Next \/ UNCHANGED Ledger!vars
  BY <1>7, <1>1, <1>2 DEF SendTerminate, ReadEnd
<1>8. ASSUME NEW w \in Workers,
             \/ \E size \in 0 .. Capacity : HandleStatus(w, size)
             \/ RecordStatistics(w)
             \/ LoseLink(w)
      PROVE  Ledger!Next \/ UNCHANGED Ledger!vars
  BY <1>8, <1>1, LedgerUpdateStatus DEF HandleStatus, RecordStatistics, LoseLink
<1>9. ASSUME NEW w \in Workers, NEW m \in sent, HandleSuccess(w, m)
      PROVE  Ledger!Next \/ UNCHANGED Ledger!vars
  BY <1>9, <1>1, <1>3, LedgerRecordSuccess DEF HandleSuccess
<1>10. ASSUME NEW w \in Workers, NEW m \in sent, NEW overflow \in BOOLEAN,
              HandleFailure(w, m, overflow)
       PROVE  Ledger!Next \/ UNCHANGED Ledger!vars
  BY <1>10, <1>1, <1>3, LedgerRecordFailure DEF HandleFailure
<1>11. CASE UNCHANGED vars
  BY <1>11, <1>1 DEF vars
<1>12. QED
  BY <1>4, <1>5, <1>6, <1>7, <1>8, <1>9, <1>10, <1>11 DEF Next

(* The master implements the abstract ledger of tasks. *)
THEOREM MasterImplementsLedger == Spec => ImplementsLedger
<1>1. Init => Ledger!Init
  BY LedgerInit DEF Init
<1>2. QED
  BY SpecInv, LedgerNext, <1>1, PTL DEF Spec, ImplementsLedger, Ledger!Spec

-----------------------------------------------------------------------------
(* Sums over the subsets of a finite set.  What holds of every subset is   *)
(* shown by looking at a smallest one for which it would fail.             *)

First(s) == CHOOSE x \in s : TRUE

(* The function that MapThenSumSet defines, step by step, on the subsets   *)
(* of S; IsSums is the equation it satisfies.                              *)
Sums(f, S) ==
  LET iter[s \in SUBSET S] ==
        IF s = {} THEN 0 ELSE LET x == First(s) IN f[x] + iter[s \ {x}]
  IN  iter

IsSums(g, f, S) ==
  g = [s \in SUBSET S |-> IF s = {} THEN 0 ELSE f[First(s)] + g[s \ {First(s)}]]

(* The sum of the library is the value of that function. *)
LEMMA SumUnfolded ==
  ASSUME NEW f, NEW S
  PROVE  MapThenSumSet(LAMBDA t : f[t], S) = Sums(f, S)[S]
BY DEF MapThenSumSet, MapThenFoldSet, Sums, First

(* The equation has the chosen solution, when it has one. *)
LEMMA SumsDef ==
  ASSUME NEW f, NEW S, NEW g, IsSums(g, f, S)
  PROVE  IsSums(Sums(f, S), f, S)
<1>1. Sums(f, S) = CHOOSE h : h = [s \in SUBSET S |-> IF s = {} THEN 0 ELSE f[First(s)] + h[s \ {First(s)}]]
  BY DEF Sums
<1>2. QED
  BY <1>1, Zenon DEF IsSums

(* A subset that is not empty, without the element that is chosen, is      *)
(* smaller by one.                                                         *)
LEMMA WithoutFirst ==
  ASSUME NEW S, IsFiniteSet(S), NEW s \in SUBSET S, s # {}
  PROVE  /\ First(s) \in s /\ s \ {First(s)} \in SUBSET S
         /\ Cardinality(s) \in Nat \ {0} /\ Cardinality(s \ {First(s)}) = Cardinality(s) - 1
<1>1. First(s) \in s
  BY DEF First
<1>2. IsFiniteSet(s)
  BY FS_Subset
<1>3. Cardinality(s \ {First(s)}) = Cardinality(s) - 1
  BY <1>1, <1>2, FS_RemoveElement
<1>4. Cardinality(s) \in Nat \ {0}
  BY <1>2, FS_CardinalityType, FS_EmptySet
<1>5. QED
  BY <1>1, <1>3, <1>4

(* There is such a function: it is built up by the size of the subsets. *)
LEMMA SumsExist ==
  ASSUME NEW S, IsFiniteSet(S), NEW f \in [S -> Int]
  PROVE  \E g \in [SUBSET S -> Int] : IsSums(g, f, S)
<1> DEFINE Small(n) == {s \in SUBSET S : Cardinality(s) <= n}
           Right(g, n) == \A s \in Small(n) :
             g[s] = IF s = {} THEN 0 ELSE f[First(s)] + g[s \ {First(s)}]
           Has(n) == \E g \in [Small(n) -> Int] : Right(g, n)
           Without == {n \in Nat : ~ Has(n)}
<1>1. \A s \in SUBSET S : Cardinality(s) \in Nat
  BY FS_Subset, FS_CardinalityType
<1>2. Has(0)
  <2>1. \A s \in Small(0) : s = {}
    BY <1>1, FS_Subset, FS_EmptySet
  <2>2. [s \in Small(0) |-> 0] \in [Small(0) -> Int] /\ Right([s \in Small(0) |-> 0], 0)
    BY <2>1
  <2>3. QED
    BY <2>2
<1>3. ASSUME NEW n \in Nat, n # 0, Has(n - 1) PROVE Has(n)
  <2>1. PICK g \in [Small(n - 1) -> Int] : Right(g, n - 1)
    BY <1>3
  <2> DEFINE h == [s \in Small(n) |-> IF s = {} THEN 0 ELSE f[First(s)] + g[s \ {First(s)}]]
  <2>2. ASSUME NEW s \in Small(n), s # {}
        PROVE  /\ s \ {First(s)} \in Small(n - 1) /\ s \ {First(s)} \in Small(n) /\ First(s) \in S
    <3>1. /\ First(s) \in s /\ s \ {First(s)} \in SUBSET S
          /\ Cardinality(s) \in Nat \ {0} /\ Cardinality(s \ {First(s)}) = Cardinality(s) - 1
      BY <2>2, WithoutFirst
    <3>2. QED
      BY <3>1
  <2>3. h \in [Small(n) -> Int]
    <3>1. ASSUME NEW s \in Small(n), s # {} PROVE f[First(s)] + g[s \ {First(s)}] \in Int
      BY <2>2, <3>1
    <3>2. QED
      BY <3>1
  <2>4. \A s \in Small(n - 1) : s \in Small(n) /\ h[s] = g[s]
    <3>1. \A s \in Small(n - 1) : s \in Small(n)
      BY <1>1
    <3>2. QED
      BY <2>1, <3>1
  <2>5. Right(h, n)
    BY <2>2, <2>4
  <2>6. QED
    BY <2>3, <2>5
<1>4. Without = {}
  <2>1. SUFFICES ASSUME Without # {} PROVE FALSE
    OBVIOUS
  <2>2. PICK n \in Without : \A m \in Without : n <= m
    BY <2>1, LeastNatural
  <2>3. n # 0
    BY <1>2
  <2>4. n - 1 \in Nat /\ ~ (n <= n - 1)
    BY <2>3
  <2>5. Has(n - 1)
    BY <2>2, <2>4
  <2> HIDE DEF Has
  <2>6. QED
    BY <1>3, <2>3, <2>5
<1>5. Cardinality(S) \in Nat
  BY FS_CardinalityType
<1>6. PICK g \in [Small(Cardinality(S)) -> Int] : Right(g, Cardinality(S))
  BY <1>4, <1>5
<1>7. Small(Cardinality(S)) = SUBSET S
  BY FS_Subset
<1>8. IsSums(g, f, S)
  BY <1>6, <1>7 DEF IsSums
<1>9. QED
  BY <1>6, <1>7, <1>8

(* Among subsets of a finite set one is the smallest. *)
LEMMA SmallestSubset ==
  ASSUME NEW S, IsFiniteSet(S), NEW B \in SUBSET SUBSET S, B # {}
  PROVE  \E s \in B : \A r \in B : Cardinality(s) <= Cardinality(r)
<1> DEFINE Sizes == {Cardinality(s) : s \in B}
<1>1. Sizes \in SUBSET Nat /\ Sizes # {}
  BY FS_Subset, FS_CardinalityType
<1>2. PICK n \in Sizes : \A m \in Sizes : n <= m
  BY <1>1, LeastNatural
<1>3. QED
  BY <1>2

(* The sum over the empty set, and over any other. *)
LEMMA SumsAt ==
  ASSUME NEW S, IsFiniteSet(S), NEW f \in [S -> Int]
  PROVE  /\ Sums(f, S) \in [SUBSET S -> Int]
         /\ Sums(f, S)[{}] = 0
         /\ \A s \in SUBSET S : s # {} =>
              Sums(f, S)[s] = f[First(s)] + Sums(f, S)[s \ {First(s)}]
<1> DEFINE h == Sums(f, S)
           B == {s \in SUBSET S : h[s] \notin Int}
<1>1. IsSums(h, f, S)
  BY SumsExist, SumsDef
<1> HIDE DEF h
<1>2. /\ h[{}] = 0
      /\ \A s \in SUBSET S : s # {} => h[s] = f[First(s)] + h[s \ {First(s)}]
  BY <1>1 DEF IsSums
<1>3. B = {}
  <2>1. SUFFICES ASSUME B # {} PROVE FALSE
    OBVIOUS
  <2>2. PICK s \in B : \A r \in B : Cardinality(s) <= Cardinality(r)
    BY <2>1, SmallestSubset
  <2>3. s # {}
    <3>1. h[s] \notin Int /\ 0 \in Int
      OBVIOUS
    <3>2. QED
      BY <1>2, <3>1
  <2> DEFINE r == s \ {First(s)}
  <2>4. /\ First(s) \in s /\ r \in SUBSET S /\ Cardinality(s) \in Nat \ {0}
        /\ Cardinality(r) = Cardinality(s) - 1
    BY <2>3, WithoutFirst
  <2>5. ~ (Cardinality(s) <= Cardinality(r))
    BY <2>4
  <2>6. h[r] \in Int /\ f[First(s)] \in Int /\ h[s] = f[First(s)] + h[r]
    BY <1>2, <2>2, <2>3, <2>4, <2>5
  <2>7. QED
    BY <2>2, <2>6
<1>4. h \in [SUBSET S -> Int]
  BY <1>1, <1>3 DEF IsSums
<1>5. QED
  BY <1>2, <1>4 DEF h

(* Zeros add up to zero. *)
LEMMA SumOfZeros ==
  ASSUME NEW S, IsFiniteSet(S), NEW f \in [S -> Int], \A t \in S : f[t] = 0
  PROVE  Sums(f, S)[S] = 0
<1> DEFINE h == Sums(f, S)
           B == {s \in SUBSET S : h[s] # 0}
<1>1. /\ h[{}] = 0
      /\ \A s \in SUBSET S : s # {} => h[s] = f[First(s)] + h[s \ {First(s)}]
  BY SumsAt
<1> HIDE DEF h
<1>2. B = {}
  <2>1. SUFFICES ASSUME B # {} PROVE FALSE
    OBVIOUS
  <2>2. PICK s \in B : \A r \in B : Cardinality(s) <= Cardinality(r)
    BY <2>1, SmallestSubset
  <2>3. s # {}
    BY <1>1
  <2> DEFINE r == s \ {First(s)}
  <2>4. /\ First(s) \in s /\ r \in SUBSET S /\ Cardinality(s) \in Nat \ {0}
        /\ Cardinality(r) = Cardinality(s) - 1
    BY <2>3, WithoutFirst
  <2>5. ~ (Cardinality(s) <= Cardinality(r))
    BY <2>4
  <2>6. h[r] = 0 /\ f[First(s)] = 0 /\ h[s] = f[First(s)] + h[r]
    BY <1>1, <2>2, <2>3, <2>4, <2>5
  <2>7. QED
    BY <2>6
<1>3. QED
  BY <1>2 DEF h

(* One more at one place is one more in the sum. *)
LEMMA SumAfterIncrement ==
  ASSUME NEW S, IsFiniteSet(S), NEW f \in [S -> Int], NEW u \in S
  PROVE  Sums([f EXCEPT ![u] = @ + 1], S)[S] = Sums(f, S)[S] + 1
<1> DEFINE g == [f EXCEPT ![u] = @ + 1]
           hf == Sums(f, S)
           hg == Sums(g, S)
           More(s) == IF u \in s THEN 1 ELSE 0
           B == {s \in SUBSET S : hg[s] # hf[s] + More(s)}
<1>1. g \in [S -> Int] /\ g[u] = f[u] + 1 /\ \A t \in S \ {u} : g[t] = f[t]
  OBVIOUS
<1> HIDE DEF g
<1>2. /\ hf \in [SUBSET S -> Int] /\ hf[{}] = 0
      /\ \A s \in SUBSET S : s # {} => hf[s] = f[First(s)] + hf[s \ {First(s)}]
  BY SumsAt
<1>3. /\ hg \in [SUBSET S -> Int] /\ hg[{}] = 0
      /\ \A s \in SUBSET S : s # {} => hg[s] = g[First(s)] + hg[s \ {First(s)}]
  BY <1>1, SumsAt
<1> HIDE DEF hf, hg
<1>4. B = {}
  <2>1. SUFFICES ASSUME B # {} PROVE FALSE
    OBVIOUS
  <2>2. PICK s \in B : \A r \in B : Cardinality(s) <= Cardinality(r)
    BY <2>1, SmallestSubset
  <2>3. s # {}
    <3>1. hg[s] # hf[s] + More(s)
      OBVIOUS
    <3>2. hg[{}] = hf[{}] + More({})
      BY <1>2, <1>3
    <3> HIDE DEF More
    <3>3. QED
      BY <3>1, <3>2
  <2> DEFINE x == First(s)
             r == s \ {x}
  <2>4. /\ x \in s /\ r \in SUBSET S /\ Cardinality(s) \in Nat \ {0}
        /\ Cardinality(r) = Cardinality(s) - 1
    BY <2>3, WithoutFirst
  <2>5. ~ (Cardinality(s) <= Cardinality(r))
    BY <2>4
  <2>6. hg[r] = hf[r] + More(r)
    BY <2>2, <2>4, <2>5
  <2>7. hg[s] = g[x] + hg[r] /\ hf[s] = f[x] + hf[r]
    BY <1>2, <1>3, <2>3
  <2>8. hf[r] \in Int /\ f[x] \in Int /\ x \in S
    BY <1>2, <2>4
  <2> HIDE DEF x
  <2>9. CASE x = u
    <3>1. More(s) = 1 /\ More(r) = 0 /\ g[x] = f[x] + 1
      BY <1>1, <2>4, <2>9
    <3>2. QED
      BY <2>2, <2>6, <2>7, <2>8, <3>1
  <2>10. CASE x # u
    <3>1. More(s) = More(r) /\ g[x] = f[x] /\ More(r) \in Int
      BY <1>1, <2>8, <2>10
    <3>2. QED
      BY <2>2, <2>6, <2>7, <2>8, <3>1
  <2>11. QED
    BY <2>9, <2>10
<1>5. hg[S] = hf[S] + 1
  BY <1>4
<1>6. QED
  BY <1>5 DEF g, hf, hg

-----------------------------------------------------------------------------
(* Accepted results and their statistics.                                  *)

Receivers(kind) == {w \in Workers : receiver[w] = kind}

(* The property, with the sum as the value of a function. *)
LEMMA CountedUnfolded ==
  /\ AcceptedResultsCounted <=>
       /\ stats["success"] + Cardinality(Receivers("success")) = Cardinality(store)
       /\ stats["fail"] + Cardinality(Receivers("fail")) = Sums(attempt, Tasks)[Tasks]
  /\ AcceptedResultsCounted' <=>
       /\ stats'["success"] + Cardinality(Receivers("success")') = Cardinality(store')
       /\ stats'["fail"] + Cardinality(Receivers("fail")') = Sums(attempt', Tasks)[Tasks]
<1>1. AcceptedResultsCounted <=>
        /\ stats["success"] + Cardinality(Receivers("success")) = Cardinality(store)
        /\ stats["fail"] + Cardinality(Receivers("fail")) = Sums(attempt, Tasks)[Tasks]
  BY DEF AcceptedResultsCounted, Tally, Receivers, MapThenSumSet, MapThenFoldSet, Sums, First
<1>2. AcceptedResultsCounted' <=>
        /\ stats'["success"] + Cardinality(Receivers("success")') = Cardinality(store')
        /\ stats'["fail"] + Cardinality(Receivers("fail")') = Sums(attempt', Tasks)[Tasks]
  BY DEF AcceptedResultsCounted, Tally, Receivers, MapThenSumSet, MapThenFoldSet, Sums, First
<1>3. QED
  BY <1>1, <1>2

(* No result, no attempt: everything is zero. *)
LEMMA InitCounted == Init => AcceptedResultsCounted
<1> SUFFICES ASSUME Init PROVE AcceptedResultsCounted
  OBVIOUS
<1>1. /\ Receivers("success") = {} /\ Receivers("fail") = {}
      /\ stats["success"] = 0 /\ stats["fail"] = 0
  BY DEF Init, Receivers, Kinds
<1>2. store = {} /\ attempt \in [Tasks -> Int] /\ \A t \in Tasks : attempt[t] = 0
  BY DEF Init, CoreInit
<1>3. Sums(attempt, Tasks)[Tasks] = 0
  BY <1>2, TasksFinite, SumOfZeros
<1>4. Cardinality({}) = 0
  BY FS_EmptySet
<1>5. /\ stats["success"] + Cardinality(Receivers("success")) = Cardinality(store)
      /\ stats["fail"] + Cardinality(Receivers("fail")) = Sums(attempt, Tasks)[Tasks]
  <2>1. /\ Cardinality(Receivers("success")) = 0 /\ Cardinality(Receivers("fail")) = 0
        /\ Cardinality(store) = 0
    BY ONLY <1>1, <1>2, <1>4, Zenon
  <2>2. QED
    BY <1>1, <1>3, <2>1
<1>6. QED
  BY <1>5, CountedUnfolded

(* A receiver thread that takes up, or leaves, the recording of a result.  *)
LEMMA ReceiversChange ==
  ASSUME Inv, NEW w \in Workers, NEW state, receiver' = [receiver EXCEPT ![w] = state]
  PROVE  \A kind :
    /\ IsFiniteSet(Receivers(kind)) /\ Cardinality(Receivers(kind)) \in Nat
    /\ receiver[w] # kind /\ state # kind => Receivers(kind)' = Receivers(kind)
    /\ receiver[w] # kind /\ state = kind
         => Cardinality(Receivers(kind)') = Cardinality(Receivers(kind)) + 1
    /\ receiver[w] = kind /\ state # kind
         => Cardinality(Receivers(kind)') = Cardinality(Receivers(kind)) - 1
<1> SUFFICES ASSUME NEW kind PROVE
      /\ IsFiniteSet(Receivers(kind)) /\ Cardinality(Receivers(kind)) \in Nat
      /\ receiver[w] # kind /\ state # kind => Receivers(kind)' = Receivers(kind)
      /\ receiver[w] # kind /\ state = kind
           => Cardinality(Receivers(kind)') = Cardinality(Receivers(kind)) + 1
      /\ receiver[w] = kind /\ state # kind
           => Cardinality(Receivers(kind)') = Cardinality(Receivers(kind)) - 1
  OBVIOUS
<1>1. DOMAIN receiver = Workers /\ receiver'[w] = state
      /\ \A v \in Workers \ {w} : receiver'[v] = receiver[v]
  BY DEF Inv, TypeOK
<1>2. IsFiniteSet(Receivers(kind)) /\ Cardinality(Receivers(kind)) \in Nat
  <2>1. IsFiniteSet(Workers)
    BY CountsAssumption, FS_Interval DEF Workers, CountsAssumption
  <2>2. QED
    BY <2>1, FS_Subset, FS_CardinalityType DEF Receivers
<1>3. CASE receiver[w] # kind /\ state # kind
  BY <1>1, <1>2, <1>3 DEF Receivers
<1>4. CASE receiver[w] # kind /\ state = kind
  <2>1. Receivers(kind)' = Receivers(kind) \cup {w} /\ w \notin Receivers(kind)
    BY <1>1, <1>4 DEF Receivers
  <2>2. QED
    BY <1>2, <1>4, <2>1, FS_AddElement
<1>5. CASE receiver[w] = kind /\ state # kind
  <2>1. Receivers(kind)' = Receivers(kind) \ {w} /\ w \in Receivers(kind)
    BY <1>1, <1>5 DEF Receivers
  <2>2. QED
    BY <1>2, <1>5, <2>1, FS_RemoveElement
<1>6. QED
  BY <1>2, <1>3, <1>4, <1>5

(* A step that accepts nothing and records nothing. *)
LEMMA NothingCounted ==
  ASSUME AcceptedResultsCounted, UNCHANGED <<stats, store, attempt>>,
         Receivers("success")' = Receivers("success"), Receivers("fail")' = Receivers("fail")
  PROVE  AcceptedResultsCounted'
BY CountedUnfolded

(* An accepted success: a receiver thread has one more to record, and the  *)
(* store one more entry.                                                   *)
LEMMA SuccessCounted ==
  ASSUME Inv, AcceptedResultsCounted, NEW w \in Workers, NEW m \in sent, HandleSuccess(w, m)
  PROVE  AcceptedResultsCounted'
<1>1. UNCHANGED stats /\ receiver[w] = "reading" /\ m.task \in Tasks
  BY DEF HandleSuccess, statVars, Reading, Inv, TypeOK
<1>2. CASE ~ IsCurrent(m.task, m.assignee)
  <2>1. UNCHANGED <<coreVars, receiver>>
    BY <1>2 DEF HandleSuccess
  <2>2. QED
    BY <1>1, <2>1, NothingCounted DEF coreVars, Receivers
<1>3. CASE IsCurrent(m.task, m.assignee)
  <2>1. /\ receiver' = [receiver EXCEPT ![w] = "success"]
        /\ store' = store \cup {m.task} /\ UNCHANGED attempt
    BY <1>3 DEF HandleSuccess, Accepted, RecordSuccess
  <2>2. m.task \notin store /\ store \in SUBSET Tasks
    BY <1>1, <1>3 DEF IsCurrent, Inv, CoreInv, CoreTypeOK, StoreMatchesStates
  <2>3. Cardinality(store') = Cardinality(store) + 1 /\ Cardinality(store) \in Nat
    <3>1. IsFiniteSet(store)
      BY <2>2, TasksFinite, FS_Subset
    <3>2. Cardinality(store \cup {m.task}) = Cardinality(store) + 1
      BY <2>2, <3>1, FS_AddElement
    <3>3. QED
      BY <2>1, <3>1, <3>2, FS_CardinalityType
  <2>4. /\ Cardinality(Receivers("success")') = Cardinality(Receivers("success")) + 1
        /\ Receivers("fail")' = Receivers("fail")
        /\ Cardinality(Receivers("success")) \in Nat
    BY <1>1, <2>1, ReceiversChange
  <2>5. stats["success"] \in Nat
    BY DEF Inv, TypeOK, Kinds
  <2>6. QED
    BY <1>1, <2>1, <2>3, <2>4, <2>5, CountedUnfolded
<1>4. QED
  BY <1>2, <1>3

(* An accepted failure is one more attempt and one more to record; an      *)
(* overflow is neither an attempt nor a failure.                           *)
LEMMA FailureCounted ==
  ASSUME Inv, AcceptedResultsCounted, NEW w \in Workers, NEW m \in sent,
         NEW overflow \in BOOLEAN, HandleFailure(w, m, overflow)
  PROVE  AcceptedResultsCounted'
<1>1. UNCHANGED stats /\ receiver[w] = "reading" /\ m.task \in Tasks
  BY DEF HandleFailure, statVars, Reading, Inv, TypeOK
<1>2. CASE ~ IsCurrent(m.task, m.assignee)
  <2>1. UNCHANGED <<coreVars, receiver>>
    BY <1>2 DEF HandleFailure
  <2>2. QED
    BY <1>1, <2>1, NothingCounted DEF coreVars, Receivers
<1>3. CASE IsCurrent(m.task, m.assignee) /\ overflow
  <2>1. receiver' = [receiver EXCEPT ![w] = "overflow"] /\ UNCHANGED <<store, attempt>>
    BY <1>3 DEF HandleFailure, Accepted, RecordFailure
  <2>2. Receivers("success")' = Receivers("success") /\ Receivers("fail")' = Receivers("fail")
    BY <1>1, <2>1, ReceiversChange
  <2>3. QED
    BY <1>1, <2>1, <2>2, NothingCounted
<1>4. CASE IsCurrent(m.task, m.assignee) /\ ~ overflow
  <2>1. /\ receiver' = [receiver EXCEPT ![w] = "fail"] /\ UNCHANGED store
        /\ attempt' = [attempt EXCEPT ![m.task] = @ + 1]
    BY <1>4 DEF HandleFailure, Accepted, RecordFailure
  <2>2. attempt \in [Tasks -> Int]
    BY DEF Inv, TypeOK, CoreTypeOK
  <2>3. Sums(attempt', Tasks)[Tasks] = Sums(attempt, Tasks)[Tasks] + 1
    BY <1>1, <2>1, <2>2, TasksFinite, SumAfterIncrement
  <2>4. /\ Cardinality(Receivers("fail")') = Cardinality(Receivers("fail")) + 1
        /\ Receivers("success")' = Receivers("success")
        /\ Cardinality(Receivers("fail")) \in Nat
    BY <1>1, <2>1, ReceiversChange
  <2>5. stats["fail"] \in Nat
    BY DEF Inv, TypeOK, Kinds
  <2>6. QED
    BY <1>1, <2>1, <2>3, <2>4, <2>5, CountedUnfolded
<1>5. QED
  BY <1>2, <1>3, <1>4

(* What was waiting to be recorded is recorded: the tally stays. *)
LEMMA RecordingCounted ==
  ASSUME Inv, AcceptedResultsCounted, NEW w \in Workers, RecordStatistics(w)
  PROVE  AcceptedResultsCounted'
<1>1. /\ receiver[w] \in Kinds
      /\ receiver' = [receiver EXCEPT ![w] = "reading"]
      /\ UNCHANGED <<store, attempt>>
  BY DEF RecordStatistics, coreVars
<1>2. /\ stats \in [Kinds -> Nat]
      /\ stats' = [stats EXCEPT ![receiver[w]] = @ + 1]
  BY DEF RecordStatistics, Inv, TypeOK
<1>3. ASSUME NEW kind \in {"success", "fail"}
      PROVE  stats'[kind] + Cardinality(Receivers(kind)') =
             stats[kind] + Cardinality(Receivers(kind))
  <2>1. kind # "reading" /\ kind \in Kinds /\ Cardinality(Receivers(kind)) \in Nat
    BY <1>1, ReceiversChange DEF Kinds
  <2>2. CASE receiver[w] = kind
    <3>1. Cardinality(Receivers(kind)') = Cardinality(Receivers(kind)) - 1
      BY <1>1, <2>1, <2>2, ReceiversChange
    <3>2. stats'[kind] = stats[kind] + 1 /\ stats[kind] \in Nat
      BY <1>2, <2>1, <2>2
    <3>3. QED
      BY <2>1, <3>1, <3>2
  <2>3. CASE receiver[w] # kind
    <3>1. Receivers(kind)' = Receivers(kind)
      BY <1>1, <2>1, <2>3, ReceiversChange
    <3>2. stats'[kind] = stats[kind]
      BY <1>2, <2>1, <2>3
    <3>3. QED
      BY <3>1, <3>2
  <2>4. QED
    BY <2>2, <2>3
<1>4. QED
  BY <1>1, <1>3, CountedUnfolded

(* The other steps of the receiver threads and those of the main thread. *)
LEMMA OthersCounted ==
  ASSUME Inv, AcceptedResultsCounted,
         \/ Distribute \/ SendTask \/ RecordReallocation \/ EmitStatistics \/ Stop
         \/ UNCHANGED vars
         \/ \E w \in Workers :
              \/ SendTerminate(w) \/ ReadEnd(w) \/ LoseLink(w)
              \/ \E size \in 0 .. Capacity : HandleStatus(w, size)
  PROVE  AcceptedResultsCounted'
<1>1. \A w \in Workers : DisconnectWorker(w) => UNCHANGED <<store, attempt>>
  BY DEF DisconnectWorker, coreVars
<1>2. CASE Distribute
  <2>1. UNCHANGED <<store, attempt>>
    BY <1>2 DEF Distribute, AssignNext, PutNextBack, coreVars
  <2>2. QED
    BY <1>2, <2>1, NothingCounted DEF Distribute, statVars, Receivers
<1>3. CASE SendTask
  <2>1. UNCHANGED <<store, attempt>>
    BY <1>1, <1>3 DEF SendTask, coreVars, Inv, TypeOK
  <2>2. QED
    BY <1>3, <2>1, NothingCounted DEF SendTask, statVars, Receivers
<1>4. CASE RecordReallocation \/ EmitStatistics \/ Stop
  BY <1>4, NothingCounted
     DEF RecordReallocation, EmitStatistics, Stop, coreVars, statVars, Receivers
<1>5. CASE UNCHANGED vars
  BY <1>5, NothingCounted DEF vars, coreVars, threadVars, statVars, Receivers
<1>6. ASSUME NEW w \in Workers, SendTerminate(w) PROVE AcceptedResultsCounted'
  <2>1. UNCHANGED <<store, attempt>>
    BY <1>1, <1>6 DEF SendTerminate, coreVars
  <2>2. QED
    BY <1>6, <2>1, NothingCounted DEF SendTerminate, statVars, Receivers
<1>7. ASSUME NEW w \in Workers, ReadEnd(w) PROVE AcceptedResultsCounted'
  <2>1. UNCHANGED <<store, attempt>>
    BY <1>1, <1>7 DEF ReadEnd, coreVars
  <2>2. receiver[w] = "reading" /\ receiver' = [receiver EXCEPT ![w] = "exited"]
        /\ UNCHANGED stats
    BY <1>7 DEF ReadEnd, statVars
  <2>3. Receivers("success")' = Receivers("success") /\ Receivers("fail")' = Receivers("fail")
    BY <2>2, ReceiversChange
  <2>4. QED
    BY <2>1, <2>2, <2>3, NothingCounted
<1>8. ASSUME NEW w \in Workers, LoseLink(w) PROVE AcceptedResultsCounted'
  BY <1>8, NothingCounted DEF LoseLink, coreVars, threadVars, statVars, Receivers
<1>9. ASSUME NEW w \in Workers, NEW size \in 0 .. Capacity, HandleStatus(w, size)
      PROVE  AcceptedResultsCounted'
  BY <1>9, NothingCounted DEF HandleStatus, UpdateStatus, threadVars, statVars, Receivers
<1>10. QED
  BY <1>2, <1>3, <1>4, <1>5, <1>6, <1>7, <1>8, <1>9

(* Every step keeps the tallies. *)
LEMMA NextCounted ==
  Inv /\ AcceptedResultsCounted /\ [Next]_vars => AcceptedResultsCounted'
BY OthersCounted, SuccessCounted, FailureCounted, RecordingCounted DEF Next

(* Each accepted success and failure is counted exactly once: the tallies  *)
(* match the store and the attempts, although statistics are recorded      *)
(* after the lock is released (_handle_success, _handle_failure).          *)
THEOREM ResultsAreCounted == Spec => []AcceptedResultsCounted
<1>1. Init => AcceptedResultsCounted
  BY InitCounted
<1>2. QED
  BY SpecInv, NextCounted, <1>1, PTL DEF Spec
=============================================================================
