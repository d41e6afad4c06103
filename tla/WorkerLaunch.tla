---------------------------- MODULE WorkerLaunch ----------------------------
(***************************************************************************)
(* The life of the worker processes, from the launcher's start to the end  *)
(* of the last thread: run() and stop() of each WorkerRuntime, its         *)
(* receiver and processor threads, and the launcher, whose failing worker  *)
(* stops all the others.  run() assigns the socket and then looks at the   *)
(* shutdown flag; stop() sets the flag and then looks for the socket.      *)
(* The master is that of Registration.                                     *)
(***************************************************************************)
EXTENDS Registration

VARIABLES main,        \* the step of each run()
          receiver,    \* _receive_loop: none, run or ended
          processor,   \* _process_loop: the same
          assigned,    \* is _socket set?
          listener,    \* is _p2p._listener set?
          shutdown,    \* _shutdown
          stopping     \* the stop() that the thread of run() executes, or executes
                       \*   next: of which runtime, and at which step

lifeVars == <<main, receiver, processor, assigned, listener, shutdown, stopping>>
linkVars == <<backlog, answer, hungUp, socket>>
vars == <<masterVars, linkVars, lifeVars>>

threadVars == <<receiver, processor>>
stopVars == <<listener, shutdown, stopping>>

OwnStop(c) == [of |-> c, at |-> "flag"]

Init ==
  /\ RegistrationInit
  /\ main = [c \in Instances |-> IF c \in Launched THEN "start" ELSE "connect"]
  /\ receiver = [c \in Instances |-> "none"]
  /\ processor = [c \in Instances |-> "none"]
  /\ assigned = [c \in Instances |-> FALSE]
  /\ listener = [c \in Instances |-> FALSE]
  /\ shutdown = [c \in Instances |-> FALSE]
  /\ stopping = [c \in Instances |-> OwnStop(c)]

Go(c, from, to) == main[c] = from /\ main' = [main EXCEPT ![c] = to]
Broken(c) == socket[c] = "closed" \/ c \in hungUp

-----------------------------------------------------------------------------
(* run(): the P2P service, the connection, the registration.               *)

\* The P2P port may be taken: the exception leaves run() at once.
BindPort(c) ==
  /\ \/ Go(c, "start", "listening") /\ listener' = [listener EXCEPT ![c] = TRUE]
     \/ Go(c, "start", "raise") /\ UNCHANGED listener
  /\ UNCHANGED <<masterVars, linkVars, threadVars, assigned, shutdown, stopping>>

\* Only a worker with peers has a monitor.
HasPeers == WorkerCount > 1

\* Each thread of the service is assigned first and started then.
StartP2P(c) ==
  /\ \/ Go(c, "listening", "server assigned")
     \/ Go(c, "server assigned", "server started")
     \/ Go(c, "server started", IF HasPeers THEN "monitor assigned" ELSE "connect")
     \/ Go(c, "monitor assigned", "connect")
  /\ UNCHANGED <<masterVars, linkVars, threadVars, assigned, stopVars>>

Connect(c) ==
  /\ master # "stopped"
  /\ Go(c, "connect", "register")
  /\ socket' = [socket EXCEPT ![c] = "open"]
  /\ backlog' = Append(backlog, c)
  /\ UNCHANGED <<masterVars, answer, hungUp, threadVars, assigned, stopVars>>

\* Refused, or not answered in time.
ConnectFails(c) ==
  /\ Go(c, "connect", "fail")
  /\ UNCHANGED <<masterVars, linkVars, threadVars, assigned, stopVars>>

Answered(c) ==
  /\ answer[c] = "ACK"
  /\ Go(c, "register", "assign")
  /\ UNCHANGED <<masterVars, linkVars, threadVars, assigned, stopVars>>

\* An ERROR, after which the socket is closed, or a lost connection, or five
\* seconds without an answer, after which it stays open: the master may still
\* register it.
NotAnswered(c) ==
  /\ Go(c, "register", "fail")
  /\ answer[c] = "ACK" => c \in hungUp
  /\ \/ answer[c] = "ERROR" /\ socket' = [socket EXCEPT ![c] = "closed"]
     \/ UNCHANGED socket
  /\ UNCHANGED <<masterVars, backlog, answer, hungUp, threadVars, assigned, stopVars>>

AssignSocket(c) ==
  /\ Go(c, "assign", "look")
  /\ assigned' = [assigned EXCEPT ![c] = TRUE]
  /\ UNCHANGED <<masterVars, linkVars, threadVars, stopVars>>

\* On its own the mutant of LookAtFlag that does not look at the flag.
StartThreads(c) ==
  /\ Go(c, "look", "join receiver")
  /\ receiver' = [receiver EXCEPT ![c] = "run"]
  /\ processor' = [processor EXCEPT ![c] = "run"]
  /\ UNCHANGED <<masterVars, linkVars, assigned, stopVars>>

LookAtFlag(c) ==
  \/ ~ shutdown[c] /\ StartThreads(c)
  \/ /\ shutdown[c]
     /\ Go(c, "look", "finally")
     /\ socket' = [socket EXCEPT ![c] = "closed"]
     /\ UNCHANGED <<masterVars, backlog, answer, hungUp, threadVars, assigned, stopVars>>

\* Mutant of JoinReceiver: the processor is not told.
JoinReceiverOnly(c) ==
  /\ receiver[c] = "ended"
  /\ Go(c, "join receiver", "join processor")
  /\ UNCHANGED <<masterVars, linkVars, threadVars, assigned, stopVars>>

JoinReceiver(c) ==
  /\ receiver[c] = "ended"
  /\ Go(c, "join receiver", "join processor")
  /\ shutdown' = [shutdown EXCEPT ![c] = TRUE]
  /\ UNCHANGED <<masterVars, linkVars, threadVars, assigned, listener, stopping>>

JoinProcessor(c) ==
  /\ processor[c] = "ended"
  /\ Go(c, "join processor", "finally")
  /\ UNCHANGED <<masterVars, linkVars, threadVars, assigned, stopVars>>

-----------------------------------------------------------------------------
(* The receiver and the processor: what ends them.                         *)

ReceiverEnds(c) ==
  /\ receiver[c] = "run"
  /\ Broken(c) \/ c \in terminated
  /\ receiver' = [receiver EXCEPT ![c] = "ended"]
  /\ UNCHANGED <<masterVars, linkVars, main, processor, assigned, stopVars>>

ProcessorEnds(c) ==
  /\ processor[c] = "run"
  /\ shutdown[c]
  /\ processor' = [processor EXCEPT ![c] = "ended"]
  /\ UNCHANGED <<masterVars, linkVars, main, receiver, assigned, stopVars>>

\* A send fails: the thread calls stop() and ends.  The link is broken by then
\* and the service started: its steps need not be told apart.  The exception of
\* a stop() that finds the listener gone ends the thread before the socket.
SendFails(c) ==
  /\ Broken(c)
  /\ \/ receiver[c] = "run" /\ receiver' = [receiver EXCEPT ![c] = "ended"] /\ UNCHANGED processor
     \/ processor[c] = "run" /\ processor' = [processor EXCEPT ![c] = "ended"] /\ UNCHANGED receiver
  /\ shutdown' = [shutdown EXCEPT ![c] = TRUE]
  /\ listener' = [listener EXCEPT ![c] = FALSE]
  /\ \/ socket' = [socket EXCEPT ![c] = "closed"]
     \/ ~ listener[c] /\ UNCHANGED socket
  /\ UNCHANGED <<masterVars, backlog, answer, hungUp, main, assigned, stopping>>

-----------------------------------------------------------------------------
(* stop(), and the finally block of run(), which does the same: the flag,  *)
(* the P2P service, the socket.  The thread of run() executes it for its   *)
(* own worker, and in stop_all() for each worker in turn; other threads    *)
(* may be at the same runtime.                                             *)

InStop == {"finally", "fail", "stop all"}

StopStep(c, from, to) ==
  /\ main[c] \in InStop
  /\ stopping[c].at = from
  /\ stopping' = [stopping EXCEPT ![c].at = to]
  /\ UNCHANGED main

SetFlag(c) ==
  /\ StopStep(c, "flag", "look")
  /\ shutdown' = [shutdown EXCEPT ![stopping[c].of] = TRUE]
  /\ UNCHANGED <<masterVars, linkVars, threadVars, assigned, listener>>

LookForListener(c) ==
  /\ StopStep(c, "look", IF listener[stopping[c].of] THEN "close" ELSE "join")
  /\ UNCHANGED <<masterVars, linkVars, threadVars, assigned, listener, shutdown>>

\* If another stop() has cleared _listener since, it may have done so before
\* this one read it again, and then StopRaises, or after.
CloseListener(c) ==
  /\ StopStep(c, "close", "join")
  /\ listener' = [listener EXCEPT ![stopping[c].of] = FALSE]
  /\ UNCHANGED <<masterVars, linkVars, threadVars, assigned, shutdown>>

Unstarted(c) == main[c] \in {"server assigned", "monitor assigned"}

\* Each join waits for a second at most.
JoinP2P(c) ==
  /\ ~ Unstarted(stopping[c].of)
  /\ StopStep(c, "join", "socket")
  /\ UNCHANGED <<masterVars, linkVars, threadVars, assigned, listener, shutdown>>

\* An AttributeError, as _listener is None by now, or a RuntimeError, as a
\* thread that has not been started cannot be joined.  It ends the finally
\* block, or stop_all() with the thread of run().
StopRaises(c) ==
  /\ \/ stopping[c].at = "close" /\ ~ listener[stopping[c].of]
     \/ stopping[c].at = "join" /\ Unstarted(stopping[c].of)
  /\ \/ Go(c, "finally", "raise")
     \/ Go(c, "fail", "raise")
     \/ Go(c, "stop all", "cut short")
  /\ stopping' = [stopping EXCEPT ![c] = OwnStop(c)]
  /\ UNCHANGED <<masterVars, linkVars, threadVars, assigned, listener, shutdown>>

\* What follows the last step of stop().
AfterStop(c) ==
  \/ /\ main[c] = "stop all" /\ stopping[c].of < WorkerCount
     /\ stopping' = [stopping EXCEPT ![c] = OwnStop(@.of + 1)]
     /\ UNCHANGED main
  \/ /\ \/ main[c] = "stop all" /\ stopping[c].of = WorkerCount /\ Go(c, "stop all", "ended")
        \/ Go(c, "finally", "ended")
        \/ Go(c, "fail", "raise")
     /\ stopping' = [stopping EXCEPT ![c] = OwnStop(c)]

\* Mutant of ShutSocket: any socket is shut, assigned or not.
ShutAnySocket(c) ==
  /\ stopping[c].at = "socket"
  /\ socket' = [socket EXCEPT ![stopping[c].of] = "closed"]
  /\ AfterStop(c)
  /\ UNCHANGED <<masterVars, backlog, answer, hungUp, threadVars, assigned, listener, shutdown>>

\* Only a socket that run() has assigned can be shut.
ShutSocket(c) ==
  LET d == stopping[c].of
  IN  /\ stopping[c].at = "socket"
      /\ socket' = [socket EXCEPT ![d] = IF assigned[d] THEN "closed" ELSE @]
      /\ AfterStop(c)
      /\ UNCHANGED <<masterVars, backlog, answer, hungUp, threadVars, assigned, listener, shutdown>>

-----------------------------------------------------------------------------
(* The launcher: a run() that raised stops all the runtimes, in order.     *)

BeginStopAll(c) ==
  /\ Go(c, "raise", "stop all")
  /\ stopping' = [stopping EXCEPT ![c] = OwnStop(1)]
  /\ UNCHANGED <<masterVars, linkVars, threadVars, assigned, listener, shutdown>>

\* A stray runs the same code in a process of its own.  Nobody else stops it,
\* and of its end the others notice the connection only: it may come at any
\* time after the connection was made.
StrayEnds(c) ==
  /\ \/ Go(c, "register", "ended")
     \/ Go(c, "assign", "ended")
  /\ socket' = [socket EXCEPT ![c] = "closed"]
  /\ UNCHANGED <<masterVars, backlog, answer, hungUp, threadVars, assigned, stopVars>>

\* The launcher's process ends, and with it the sockets nobody closed.
Over(c) == main[c] \in {"ended", "cut short"}

Exit(c) ==
  /\ \A d \in Launched : Over(d)
  /\ socket[c] = "open"
  /\ socket' = [socket EXCEPT ![c] = "closed"]
  /\ UNCHANGED <<masterVars, backlog, answer, hungUp, lifeVars>>

-----------------------------------------------------------------------------
Starting(c) == BindPort(c) \/ StartP2P(c) \/ Connect(c) \/ ConnectFails(c)
Waiting(c)  == Answered(c) \/ NotAnswered(c)
Running(c)  == AssignSocket(c) \/ LookAtFlag(c) \/ JoinReceiver(c) \/ JoinProcessor(c)
Stopping(c) ==
  \/ SetFlag(c) \/ LookForListener(c) \/ CloseListener(c) \/ JoinP2P(c)
  \/ StopRaises(c) \/ ShutSocket(c) \/ BeginStopAll(c)
Threads(c)  == ReceiverEnds(c) \/ ProcessorEnds(c) \/ SendFails(c)

Master == Serving \/ Stop \/ \E c \in Instances : SendTerminate(c)

Next ==
  \/ Master /\ UNCHANGED lifeVars
  \/ \E c \in Launched :
       Starting(c) \/ Waiting(c) \/ Running(c) \/ Stopping(c) \/ Threads(c) \/ Exit(c)
  \/ \E c \in Strays : Connect(c) \/ Answered(c) \/ StrayEnds(c)

Spec == Init /\ [][Next]_vars

\* The launcher's threads run and their waits are bounded; nothing is assumed of
\* the master and of strays.  The threads take finitely many steps in all, so
\* that fairness of their steps together gives fairness of each thread.
Scheduled(c) ==
  \/ Starting(c) \/ Waiting(c) \/ Running(c) \/ Stopping(c)
  \/ ReceiverEnds(c) \/ ProcessorEnds(c)

FairSpec == Spec /\ WF_vars(\E c \in Launched : Scheduled(c))

-----------------------------------------------------------------------------
Unconnected == {"start", "listening", "server assigned", "server started", "monitor assigned",
                "connect"}
Steps == Unconnected \cup
         {"register", "assign", "look", "join receiver", "join processor",
          "finally", "fail", "raise", "stop all", "ended", "cut short"}

LifeTypeOK ==
  /\ main \in [Instances -> Steps]
  /\ receiver \in [Instances -> {"none", "run", "ended"}]
  /\ processor \in [Instances -> {"none", "run", "ended"}]
  /\ assigned \in [Instances -> BOOLEAN]
  /\ listener \in [Instances -> BOOLEAN]
  /\ shutdown \in [Instances -> BOOLEAN]
  /\ stopping \in [Instances ->
       [of : Instances, at : {"flag", "look", "close", "join", "socket"}]]
  /\ \A c \in Instances : /\ assigned[c] => socket[c] # "none"
                          /\ main[c] \in Unconnected => socket[c] = "none"

TypeOK == RegistrationTypeOK /\ LifeTypeOK

(* A worker that has read its ACK is the one the master has under its id,  *)
(* as long as the master runs: neither a second worker with the same id    *)
(* nor a registration that fails disturbs it (_register_worker,            *)
(* _remove_unconfirmed_worker); so no two workers work under one id.       *)
ConfirmedStaysRegistered ==
  \A c \in Instances :
    main[c] \in {"assign", "look", "join receiver"} /\ master # "stopped" => workers[Id(c)] = c

(* Once the master has stopped every run() returns or raises: a worker     *)
(* that was starting, registering, working or stopping just then waits for *)
(* no message that will not come, and none of its threads for another      *)
(* (WorkerRuntime.run, _receive_loop, run_workers).                        *)
RunsEndWithMaster == master = "stopped" ~> \A c \in Launched : Over(c)

(* In the end no worker that was told to stop is at work, whether or not   *)
(* the master goes on: whoever told it, at whatever step of its start or   *)
(* its work, and even if that stop() ended by an exception after it had    *)
(* set the flag (stop, stop_all, WorkerRuntime.run).                       *)
StoppedWorkersEnd == <>[](\A c \in Launched : shutdown[c] => Over(c))
=============================================================================
