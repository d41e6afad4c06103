---------------------------- MODULE Registration ----------------------------
(***************************************************************************)
(* How the master comes to know its workers: it accepts one connection at  *)
(* a time, reads a REGISTER from it, enters the worker, and answers, until *)
(* every id is taken.  A connection is named by the worker process that    *)
(* opened it.  Besides the workers of the launcher there may be strays,    *)
(* started by hand under any id, that of another worker or one of its own: *)
(* the master counts ids and asks no more of them.                         *)
(***************************************************************************)
EXTENDS Integers, Sequences, FiniteSets

CONSTANTS WorkerCount,   \* EXPECTED_WORKERS (4 in the program)
          StrayIds       \* ids under which a worker is started by hand

ASSUME StartAssumption ==
  /\ WorkerCount \in Nat \ {0}
  /\ StrayIds \subseteq Nat \ {0}

Launched  == 1 .. WorkerCount                        \* by one launcher
Ids       == Launched \cup StrayIds
Strays    == {WorkerCount + id : id \in StrayIds}
Instances == Launched \cup Strays
Id(c)     == IF c \in Launched THEN c ELSE c - WorkerCount
Nobody    == 0

VARIABLES master,      \* the step of the master's main thread
          serving,     \* the connection it deals with, or Nobody
          workers,     \* _workers: the connection entered under each id
          backlog,     \* connections not accepted yet, REGISTER sent
          answer,      \* the answer on its way to, or read by, each worker
          terminated,  \* connections over which TERMINATE was sent
          hungUp,      \* connections the master has closed
          socket       \* the worker's end: none, open or closed

masterVars == <<master, serving, workers, terminated>>

RegistrationInit ==
  /\ master = "accept"
  /\ serving = Nobody
  /\ workers = [id \in Ids |-> Nobody]
  /\ backlog = <<>>
  /\ answer = [c \in Instances |-> "none"]
  /\ terminated = {}
  /\ hungUp = {}
  /\ socket = [c \in Instances |-> "none"]

-----------------------------------------------------------------------------
Registered == {workers[id] : id \in Ids} \ {Nobody}

Accept ==
  /\ master = "accept"
  /\ Cardinality(Registered) < WorkerCount
  /\ backlog # <<>>
  /\ serving' = Head(backlog)
  /\ backlog' = Tail(backlog)
  /\ master' = "register"
  /\ UNCHANGED <<workers, answer, terminated, hungUp, socket>>

\* Mutant of Reject: the entry under the id goes, whichever connection it is.
RejectById ==
  /\ workers' = [workers EXCEPT ![Id(serving)] = Nobody]
  /\ answer' = [answer EXCEPT ![serving] = "ERROR"]
  /\ hungUp' = hungUp \cup {serving}

\* Mutant of Reject: the entry stays.
RejectLeavingEntry ==
  /\ answer' = [answer EXCEPT ![serving] = "ERROR"]
  /\ hungUp' = hungUp \cup {serving}
  /\ UNCHANGED workers

\* The entry of this very connection, if there is one, is removed, an ERROR
\* is sent if it can be, and the connection is closed.
Reject ==
  /\ workers' = [id \in Ids |-> IF workers[id] = serving THEN Nobody ELSE workers[id]]
  /\ answer' = [answer EXCEPT ![serving] = "ERROR"]
  /\ hungUp' = hungUp \cup {serving}

\* Refused because the id is taken, or because REGISTER could not be read: the
\* connection was lost, or the message did not come in time.
Register ==
  /\ master = "register"
  /\ \/ /\ workers[Id(serving)] = Nobody
        /\ workers' = [workers EXCEPT ![Id(serving)] = serving]
        /\ master' = "acknowledge"
        /\ UNCHANGED <<serving, answer, hungUp>>
     \/ /\ Reject
        /\ master' = "accept"
        /\ serving' = Nobody
  /\ UNCHANGED <<backlog, terminated, socket>>

\* Writing to a connection that the worker has closed may still succeed.
Acknowledge ==
  /\ master = "acknowledge"
  /\ \/ /\ answer' = [answer EXCEPT ![serving] = "ACK"]
        /\ UNCHANGED <<workers, hungUp>>
     \/ /\ socket[serving] = "closed"
        /\ Reject
  /\ master' = "accept"
  /\ serving' = Nobody
  /\ UNCHANGED <<backlog, terminated, socket>>

StartDistribution ==
  /\ master = "accept"
  /\ Cardinality(Registered) = WorkerCount
  /\ master' = "run"
  /\ UNCHANGED <<serving, workers, backlog, answer, terminated, hungUp, socket>>

\* All tasks are stored: TERMINATE to the workers, in turn.
SendTerminate(c) ==
  /\ master \in {"run", "terminate"}
  /\ c \in Registered \ terminated
  /\ terminated' = terminated \cup {c}
  /\ master' = "terminate"
  /\ UNCHANGED <<serving, workers, backlog, answer, hungUp, socket>>

\* stop(): after TERMINATE, or at any time because of an exception.  With the
\* listener its backlog goes, and no connection is accepted any more.
Stop ==
  /\ master # "stopped"
  /\ master' = "stopped"
  /\ hungUp' = Instances
  /\ backlog' = <<>>
  /\ UNCHANGED <<serving, workers, answer, terminated, socket>>

Serving == Accept \/ Register \/ Acknowledge \/ StartDistribution

-----------------------------------------------------------------------------
RegistrationTypeOK ==
  /\ master \in {"accept", "register", "acknowledge", "run", "terminate", "stopped"}
  /\ serving \in Instances \cup {Nobody}
  /\ master \in {"register", "acknowledge"} => serving \in Instances
  /\ workers \in [Ids -> Instances \cup {Nobody}]
  /\ \A id \in Ids : workers[id] # Nobody => Id(workers[id]) = id
  /\ backlog \in Seq(Instances)
  /\ answer \in [Instances -> {"none", "ACK", "ERROR"}]
  /\ terminated \subseteq Instances
  /\ hungUp \subseteq Instances
  /\ socket \in [Instances -> {"none", "open", "closed"}]

(* The distribution starts with as many workers as are expected, each      *)
(* acknowledged: an entry whose ACK could not be sent does not count, and  *)
(* a connection that was refused does not stand for the worker that holds  *)
(* its id (_accept_workers, _remove_unconfirmed_worker).                   *)
StartsWithConfirmed ==
  master \in {"run", "terminate"} =>
    /\ Cardinality(Registered) = WorkerCount
    /\ \A c \in Registered : answer[c] = "ACK"
=============================================================================
