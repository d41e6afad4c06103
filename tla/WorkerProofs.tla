---------------------------- MODULE WorkerProofs ----------------------------
(***************************************************************************)
(* What is proved of a worker by itself: of its start and end              *)
(* (WorkerLaunch), that for any number of workers and strays, of any ids,  *)
(* the distribution starts with acknowledged workers only, and             *)
(* that an acknowledged worker stays the one of its id for as long as the  *)
(* master runs; of its reports (StatusReports), what the master knows; and *)
(* of its connections (Framing), that bytes arrive as messages.            *)
(***************************************************************************)
EXTENDS WorkerLaunch, StatusReports, Framing,
        TLAPS, FunctionTheorems, FiniteSetTheorems, SequenceTheorems

-----------------------------------------------------------------------------
(* Ids and connections.                                                    *)

(* Every connection has an id, and Nobody is none. *)
LEMMA IdsOfInstances ==
  /\ Nobody \notin Instances
  /\ \A c \in Instances : Id(c) \in Ids
  /\ Launched \subseteq Instances
BY StartAssumption DEF StartAssumption, Nobody, Instances, Launched, Strays, Ids, Id

(* The launcher goes through its workers from the first to the last. *)
LEMMA LaunchedInOrder ==
  /\ 1 \in Instances
  /\ \A c \in Instances : c < WorkerCount => c + 1 \in Instances
<1>1. /\ WorkerCount \in Nat /\ WorkerCount >= 1
      /\ \A id \in StrayIds : id \in Nat /\ id >= 1
  BY StartAssumption DEF StartAssumption
<1>2. 1 \in Launched
  BY <1>1 DEF Launched
<1>3. ASSUME NEW c \in Instances, c < WorkerCount PROVE c + 1 \in Launched
  <2>1. CASE c \in Launched
    BY <1>1, <1>3, <2>1 DEF Launched
  <2>2. CASE c \in Strays
    <3>1. PICK id \in StrayIds : c = WorkerCount + id
      BY <2>2 DEF Strays
    <3>2. QED
      BY <1>1, <1>3, <3>1
  <2>3. QED
    BY <1>3, <2>1, <2>2 DEF Instances
<1>4. QED
  BY <1>2, <1>3 DEF Instances

-----------------------------------------------------------------------------
(* The inductive invariant.                                                *)

Queued(c) == \E i \in 1 .. Len(backlog) : backlog[i] = c

Serves == master \in {"register", "acknowledge"}

(* A connection waits, or is served, or is answered; before it is opened    *)
(* it is none of these.                                                     *)
AnsweredOnce ==
  /\ \A i, j \in 1 .. Len(backlog) : backlog[i] = backlog[j] => i = j
  /\ \A c \in Instances : Queued(c) => answer[c] = "none" /\ c # serving
  /\ \A c \in Instances : main[c] \in Unconnected =>
                             answer[c] = "none" /\ c # serving /\ ~ Queued(c)
  /\ Serves => answer[serving] = "none"

(* The entries of _workers and the ACKs say the same, except for the entry  *)
(* whose ACK is being sent.                                                 *)
EntriesMatchAnswers ==
  /\ master = "acknowledge" => workers[Id(serving)] = serving
  /\ master # "stopped" =>
       /\ \A c \in Instances : answer[c] = "ACK" => workers[Id(c)] = c
       /\ \A id \in Ids : workers[id] # Nobody =>
            \/ answer[workers[id]] = "ACK"
            \/ master = "acknowledge" /\ workers[id] = serving

(* Threads run, and sockets are assigned, only after the ACK was read.      *)
ThreadsFollowAck ==
  \A c \in Instances :
    /\ main[c] \in {"assign", "look", "join receiver"} => answer[c] = "ACK"
    /\ receiver[c] # "none" \/ processor[c] # "none" =>
         main[c] \notin Unconnected \cup {"register", "assign", "look"}
    /\ main[c] \in {"register", "assign", "look", "join receiver", "join processor", "finally"}
         => socket[c] # "none"

Inv ==
  /\ TypeOK
  /\ AnsweredOnce
  /\ EntriesMatchAnswers
  /\ ThreadsFollowAck
  /\ StartsWithConfirmed

(* The state in which the listener is open and no worker has started. *)
LEMMA InitInv == Init => Inv
<1> SUFFICES ASSUME Init PROVE Inv
  OBVIOUS
<1> USE DEF Init, RegistrationInit
<1>1. TypeOK
  BY DEF TypeOK, RegistrationTypeOK, LifeTypeOK, Steps, Unconnected, OwnStop
<1>2. AnsweredOnce
  BY IdsOfInstances DEF AnsweredOnce, Queued, Serves
<1>3. EntriesMatchAnswers /\ ThreadsFollowAck /\ StartsWithConfirmed
  BY DEF Unconnected, EntriesMatchAnswers, ThreadsFollowAck, StartsWithConfirmed
<1>4. QED
  BY <1>1, <1>2, <1>3 DEF Inv

-----------------------------------------------------------------------------
(* The master's steps.                                                     *)

LEMMA LifeTypesStay == LifeTypeOK /\ UNCHANGED lifeVars /\ UNCHANGED socket => LifeTypeOK'
BY DEF LifeTypeOK, lifeVars

(* The next connection leaves the backlog for good. *)
LEMMA AcceptInv == Inv /\ Accept /\ UNCHANGED lifeVars => Inv'
<1> SUFFICES ASSUME Inv, Accept, UNCHANGED lifeVars PROVE Inv'
  OBVIOUS
<1> USE DEF Inv, Accept, lifeVars
<1>1. /\ backlog \in Seq(Instances) /\ backlog # <<>>
      /\ Len(backlog) \in Nat /\ Len(backlog) >= 1
      /\ serving' = backlog[1] /\ serving' \in Instances
      /\ backlog' \in Seq(Instances)
      /\ Len(backlog') = Len(backlog) - 1
      /\ \A i \in 1 .. Len(backlog') : backlog'[i] = backlog[i + 1]
  BY HeadTailProperties, LenProperties, EmptySeq DEF TypeOK, RegistrationTypeOK
<1>2. TypeOK'
  BY <1>1, LifeTypesStay DEF TypeOK, RegistrationTypeOK
<1>3. \A c \in Instances : Queued(c)' => Queued(c) /\ c # serving'
  BY <1>1 DEF AnsweredOnce, Queued
<1>4. \A i, j \in 1 .. Len(backlog') : backlog'[i] = backlog'[j] => i = j
  <2> SUFFICES ASSUME NEW i \in 1 .. Len(backlog'), NEW j \in 1 .. Len(backlog'),
                      backlog'[i] = backlog'[j]
               PROVE  i = j
    OBVIOUS
  <2>1. /\ i + 1 \in 1 .. Len(backlog) /\ j + 1 \in 1 .. Len(backlog)
        /\ backlog[i + 1] = backlog[j + 1]
    BY <1>1
  <2>2. QED
    BY <2>1 DEF AnsweredOnce
<1>5. Queued(serving')
  BY <1>1 DEF Queued
<1>6. AnsweredOnce'
  BY <1>1, <1>3, <1>4, <1>5 DEF AnsweredOnce, Serves
<1>7. (EntriesMatchAnswers /\ ThreadsFollowAck /\ StartsWithConfirmed)'
  BY <1>1 DEF EntriesMatchAnswers, ThreadsFollowAck, StartsWithConfirmed
<1>8. QED
  BY <1>2, <1>6, <1>7

(* Refusing a connection leaves the entries of the others alone. *)
LEMMA RejectInv ==
  ASSUME Inv, Serves, Reject, master' = "accept", serving' = Nobody,
         UNCHANGED <<backlog, terminated, socket>>, UNCHANGED lifeVars
  PROVE  Inv'
<1> USE DEF Inv, Reject, lifeVars
<1>1. /\ serving \in Instances
      /\ answer[serving] = "none"
      /\ master # "stopped"
  BY DEF TypeOK, RegistrationTypeOK, AnsweredOnce, Serves
<1>2. TypeOK'
  <2>1. /\ workers' \in [Ids -> Instances \cup {Nobody}]
        /\ \A id \in Ids : workers'[id] # Nobody => Id(workers'[id]) = id
    BY DEF TypeOK, RegistrationTypeOK
  <2>2. answer' \in [Instances -> {"none", "ACK", "ERROR"}] /\ hungUp' \subseteq Instances
    BY <1>1 DEF TypeOK, RegistrationTypeOK
  <2>3. QED
    BY <2>1, <2>2, LifeTypesStay DEF TypeOK, RegistrationTypeOK
<1>3. AnsweredOnce'
  BY <1>1, IdsOfInstances DEF AnsweredOnce, Queued, Serves, TypeOK, RegistrationTypeOK
<1>4. \A c \in Instances : answer'[c] = "ACK" <=> answer[c] = "ACK"
  BY <1>1 DEF TypeOK, RegistrationTypeOK
<1>5. EntriesMatchAnswers'
  BY <1>1, <1>4, IdsOfInstances DEF EntriesMatchAnswers, TypeOK, RegistrationTypeOK
<1>6. (ThreadsFollowAck /\ StartsWithConfirmed)'
  BY <1>4 DEF ThreadsFollowAck, StartsWithConfirmed
<1>7. QED
  BY <1>2, <1>3, <1>5, <1>6

(* The new entry is the one whose ACK is due. *)
LEMMA RegisterInv == Inv /\ Register /\ UNCHANGED lifeVars => Inv'
<1> SUFFICES ASSUME Inv, Register, UNCHANGED lifeVars PROVE Inv'
  OBVIOUS
<1> USE DEF Inv, Register, lifeVars
<1>1. serving \in Instances /\ answer[serving] = "none"
  BY DEF TypeOK, RegistrationTypeOK, AnsweredOnce, Serves
<1>2. CASE /\ workers[Id(serving)] = Nobody
           /\ workers' = [workers EXCEPT ![Id(serving)] = serving]
           /\ master' = "acknowledge"
           /\ UNCHANGED <<serving, answer, hungUp>>
  <2>1. TypeOK'
    <3>1. Id(serving) \in Ids
      BY <1>1, IdsOfInstances
    <3>2. /\ workers' \in [Ids -> Instances \cup {Nobody}]
          /\ \A id \in Ids : workers'[id] # Nobody => Id(workers'[id]) = id
      BY <1>1, <1>2, <3>1 DEF TypeOK, RegistrationTypeOK
    <3>3. QED
      BY <1>1, <1>2, <3>2, LifeTypesStay DEF TypeOK, RegistrationTypeOK
  <2>2. AnsweredOnce'
    BY <1>1, <1>2 DEF AnsweredOnce, Queued, Serves
  <2>3. EntriesMatchAnswers'
    BY <1>1, <1>2, IdsOfInstances DEF EntriesMatchAnswers, TypeOK, RegistrationTypeOK
  <2>4. (ThreadsFollowAck /\ StartsWithConfirmed)'
    BY <1>2 DEF ThreadsFollowAck, StartsWithConfirmed
  <2>5. QED
    BY <2>1, <2>2, <2>3, <2>4
<1>3. CASE Reject /\ master' = "accept" /\ serving' = Nobody
  BY <1>3, RejectInv DEF Serves
<1>4. QED
  BY <1>2, <1>3

(* With its ACK sent the entry counts. *)
LEMMA AcknowledgeInv == Inv /\ Acknowledge /\ UNCHANGED lifeVars => Inv'
<1> SUFFICES ASSUME Inv, Acknowledge, UNCHANGED lifeVars PROVE Inv'
  OBVIOUS
<1> USE DEF Inv, Acknowledge, lifeVars
<1>1. serving \in Instances /\ answer[serving] = "none"
  BY DEF TypeOK, RegistrationTypeOK, AnsweredOnce, Serves
<1>2. CASE answer' = [answer EXCEPT ![serving] = "ACK"] /\ UNCHANGED <<workers, hungUp>>
  <2>1. TypeOK'
    <3>1. answer' \in [Instances -> {"none", "ACK", "ERROR"}]
      BY <1>1, <1>2 DEF TypeOK, RegistrationTypeOK
    <3>2. QED
      BY <1>2, <3>1, LifeTypesStay DEF TypeOK, RegistrationTypeOK
  <2>2. AnsweredOnce'
    BY <1>1, <1>2, IdsOfInstances
    DEF AnsweredOnce, Queued, Serves, TypeOK, RegistrationTypeOK
  <2>3. EntriesMatchAnswers'
    BY <1>1, <1>2, IdsOfInstances DEF EntriesMatchAnswers, TypeOK, RegistrationTypeOK
  <2>4. (ThreadsFollowAck /\ StartsWithConfirmed)'
    BY <1>1, <1>2 DEF ThreadsFollowAck, StartsWithConfirmed, TypeOK, RegistrationTypeOK
  <2>5. QED
    BY <2>1, <2>2, <2>3, <2>4
<1>3. CASE Reject
  BY <1>3, RejectInv DEF Serves
<1>4. QED
  BY <1>2, <1>3

(* When the distribution starts every entry has been acknowledged. *)
LEMMA StartDistributionInv == Inv /\ StartDistribution /\ UNCHANGED lifeVars => Inv'
<1> SUFFICES ASSUME Inv, StartDistribution, UNCHANGED lifeVars PROVE Inv'
  OBVIOUS
<1> USE DEF Inv, StartDistribution, lifeVars
<1>1. \A c \in Registered : answer[c] = "ACK"
  BY DEF EntriesMatchAnswers, Registered
<1>2. TypeOK'
  BY LifeTypesStay DEF TypeOK, RegistrationTypeOK
<1>3. (AnsweredOnce /\ EntriesMatchAnswers /\ ThreadsFollowAck)'
  BY DEF AnsweredOnce, Queued, Serves, EntriesMatchAnswers, ThreadsFollowAck
<1>4. StartsWithConfirmed'
  BY <1>1 DEF StartsWithConfirmed, Registered
<1>5. QED
  BY <1>2, <1>3, <1>4

(* TERMINATE and stop() change neither entries nor answers. *)
LEMMA EndInv ==
  Inv /\ (Stop \/ \E c \in Instances : SendTerminate(c)) /\ UNCHANGED lifeVars => Inv'
<1> USE DEF Inv, lifeVars
<1>1. ASSUME Inv, Stop, UNCHANGED lifeVars PROVE Inv'
  <2> USE <1>1 DEF Stop
  <2>1. TypeOK'
    BY EmptySeq, LifeTypesStay DEF TypeOK, RegistrationTypeOK, Registered
  <2>2. AnsweredOnce'
    BY DEF AnsweredOnce, Queued, Serves
  <2>3. (EntriesMatchAnswers /\ ThreadsFollowAck /\ StartsWithConfirmed)'
    BY DEF EntriesMatchAnswers, ThreadsFollowAck, StartsWithConfirmed
  <2>4. QED
    BY <2>1, <2>2, <2>3
<1>2. ASSUME Inv, NEW c \in Instances, SendTerminate(c), UNCHANGED lifeVars PROVE Inv'
  <2> USE <1>2 DEF SendTerminate
  <2>1. TypeOK'
    BY EmptySeq, LifeTypesStay DEF TypeOK, RegistrationTypeOK, Registered
  <2>2. AnsweredOnce'
    BY DEF AnsweredOnce, Queued, Serves
  <2>3. (EntriesMatchAnswers /\ ThreadsFollowAck)'
    BY DEF EntriesMatchAnswers, ThreadsFollowAck
  <2>4. Registered' = Registered
    BY DEF Registered
  <2>5. StartsWithConfirmed'
    BY <2>4 DEF StartsWithConfirmed
  <2>6. QED
    BY <2>1, <2>2, <2>3, <2>5
<1>3. QED
  BY <1>1, <1>2

-----------------------------------------------------------------------------
(* The workers' steps.                                                     *)

(* Most of them touch only sockets and threads. *)
LEMMA WorkerStep ==
  ASSUME Inv,
         UNCHANGED <<masterVars, backlog, answer, hungUp>>,
         socket' \in [Instances -> {"none", "open", "closed"}],
         \A c \in Instances : main'[c] \in Unconnected => main[c] \in Unconnected,
         LifeTypeOK', ThreadsFollowAck'
  PROVE  Inv'
<1> USE DEF Inv, masterVars
<1>1. TypeOK'
  BY DEF TypeOK, RegistrationTypeOK
<1>2. AnsweredOnce'
  BY DEF AnsweredOnce, Queued, Serves
<1>3. (EntriesMatchAnswers /\ StartsWithConfirmed)'
  BY DEF EntriesMatchAnswers, StartsWithConfirmed, Registered
<1>4. QED
  BY <1>1, <1>2, <1>3

(* A step of run() moves it and no other. *)
LEMMA GoEffect ==
  ASSUME Inv, NEW c \in Instances, NEW from, NEW to \in Steps, Go(c, from, to)
  PROVE  /\ main' \in [Instances -> Steps]
         /\ main[c] = from /\ main'[c] = to
         /\ \A d \in Instances \ {c} : main'[d] = main[d]
BY DEF Inv, TypeOK, LifeTypeOK, Go

(* Before the connection nothing is known of the worker. *)
LEMMA BindPortInv == ASSUME Inv, NEW c \in Instances, BindPort(c) PROVE Inv'
<1> USE DEF BindPort, masterVars, linkVars, threadVars
<1>1. /\ main' \in [Instances -> Steps]
      /\ main[c] = "start" /\ main'[c] \in {"listening", "raise"}
      /\ \A d \in Instances \ {c} : main'[d] = main[d]
  BY GoEffect DEF Steps, Unconnected
<1>2. socket' \in [Instances -> {"none", "open", "closed"}]
  BY DEF Inv, TypeOK, RegistrationTypeOK
<1>3. LifeTypeOK'
  <2>1. listener' \in [Instances -> BOOLEAN]
    BY DEF Inv, TypeOK, LifeTypeOK
  <2>2. UNCHANGED <<socket, receiver, processor, assigned, shutdown, stopping>>
    OBVIOUS
  <2> HIDE DEF BindPort
  <2>3. QED
    BY <1>1, <2>1, <2>2 DEF Inv, TypeOK, LifeTypeOK, Unconnected
<1>4. ThreadsFollowAck'
  BY <1>1 DEF Inv, TypeOK, LifeTypeOK, ThreadsFollowAck, Unconnected
<1>5. \A d \in Instances : main'[d] \in Unconnected => main[d] \in Unconnected
  BY <1>1 DEF Unconnected
<1>6. QED
  BY <1>2, <1>3, <1>4, <1>5, WorkerStep

LEMMA StartP2PInv == ASSUME Inv, NEW c \in Instances, StartP2P(c) PROVE Inv'
<1> USE DEF StartP2P, masterVars, linkVars, threadVars, stopVars
<1>1. /\ main' \in [Instances -> Steps]
      /\ main[c] \in Unconnected /\ main'[c] \in Unconnected
      /\ \A d \in Instances \ {c} : main'[d] = main[d]
  BY DEF Inv, TypeOK, LifeTypeOK, Go, Steps, Unconnected
<1>2. socket' \in [Instances -> {"none", "open", "closed"}]
  BY DEF Inv, TypeOK, RegistrationTypeOK
<1>3. UNCHANGED <<masterVars, linkVars, lifeVars>> \/ UNCHANGED
        <<masterVars, linkVars, receiver, processor, assigned, listener, shutdown, stopping>>
  OBVIOUS
<1> HIDE DEF StartP2P
<1>4. LifeTypeOK'
  BY <1>1, <1>3 DEF Inv, TypeOK, LifeTypeOK, lifeVars
<1>5. ThreadsFollowAck'
  BY <1>1, <1>3 DEF Inv, TypeOK, LifeTypeOK, ThreadsFollowAck, Unconnected, lifeVars
<1>6. \A d \in Instances : main'[d] \in Unconnected => main[d] \in Unconnected
  BY <1>1
<1>7. QED
  BY <1>2, <1>3, <1>4, <1>5, <1>6, WorkerStep DEF lifeVars

(* A refused connection leaves no trace. *)
LEMMA ConnectFailsInv == ASSUME Inv, NEW c \in Instances, ConnectFails(c) PROVE Inv'
<1> USE DEF ConnectFails, masterVars, linkVars, threadVars, stopVars
<1>1. /\ main' \in [Instances -> Steps]
      /\ main[c] = "connect" /\ main'[c] = "fail"
      /\ \A d \in Instances \ {c} : main'[d] = main[d]
  BY GoEffect DEF Steps, Unconnected
<1>2. socket' \in [Instances -> {"none", "open", "closed"}]
  BY DEF Inv, TypeOK, RegistrationTypeOK
<1>3. LifeTypeOK'
  BY <1>1 DEF Inv, TypeOK, LifeTypeOK, ThreadsFollowAck, Unconnected
<1>4. ThreadsFollowAck'
  BY <1>1 DEF Inv, TypeOK, LifeTypeOK, ThreadsFollowAck, Unconnected
<1>5. \A d \in Instances : main'[d] \in Unconnected => main[d] \in Unconnected
  BY <1>1 DEF Unconnected
<1>6. QED
  BY <1>2, <1>3, <1>4, <1>5, WorkerStep

(* The ACK that is read is the ACK that was sent. *)
LEMMA AnsweredInv == ASSUME Inv, NEW c \in Instances, Answered(c) PROVE Inv'
<1> USE DEF Answered, masterVars, linkVars, threadVars, stopVars
<1>1. /\ main' \in [Instances -> Steps]
      /\ main[c] = "register" /\ main'[c] = "assign"
      /\ \A d \in Instances \ {c} : main'[d] = main[d]
  BY GoEffect DEF Steps, Unconnected
<1>2. socket' \in [Instances -> {"none", "open", "closed"}]
  BY DEF Inv, TypeOK, RegistrationTypeOK
<1>3. LifeTypeOK'
  BY <1>1 DEF Inv, TypeOK, LifeTypeOK, ThreadsFollowAck, Unconnected
<1>4. ThreadsFollowAck'
  BY <1>1 DEF Inv, TypeOK, LifeTypeOK, ThreadsFollowAck, Unconnected
<1>5. \A d \in Instances : main'[d] \in Unconnected => main[d] \in Unconnected
  BY <1>1 DEF Unconnected
<1>6. QED
  BY <1>2, <1>3, <1>4, <1>5, WorkerStep

(* Giving up changes the worker's end only. *)
LEMMA NotAnsweredInv == ASSUME Inv, NEW c \in Instances, NotAnswered(c) PROVE Inv'
<1> USE DEF NotAnswered, masterVars, linkVars, threadVars, stopVars
<1>1. /\ main' \in [Instances -> Steps]
      /\ main[c] = "register" /\ main'[c] = "fail"
      /\ \A d \in Instances \ {c} : main'[d] = main[d]
  BY GoEffect DEF Steps, Unconnected
<1>2. /\ socket'[c] \in {socket[c], "closed"}
      /\ \A d \in Instances \ {c} : socket'[d] = socket[d]
  BY DEF Inv, TypeOK, LifeTypeOK, RegistrationTypeOK
<1>3. socket' \in [Instances -> {"none", "open", "closed"}]
  BY DEF Inv, TypeOK, RegistrationTypeOK
<1>4. LifeTypeOK'
  BY <1>1, <1>2 DEF Inv, TypeOK, LifeTypeOK, ThreadsFollowAck, Unconnected
<1>5. ThreadsFollowAck'
  BY <1>1, <1>2 DEF Inv, TypeOK, LifeTypeOK, ThreadsFollowAck, Unconnected
<1>6. \A d \in Instances : main'[d] \in Unconnected => main[d] \in Unconnected
  BY <1>1 DEF Unconnected
<1>7. QED
  BY <1>3, <1>4, <1>5, <1>6, WorkerStep

(* The socket that is assigned is open or closed, never none. *)
LEMMA AssignSocketInv == ASSUME Inv, NEW c \in Instances, AssignSocket(c) PROVE Inv'
<1> USE DEF AssignSocket, masterVars, linkVars, threadVars, stopVars
<1>1. /\ main' \in [Instances -> Steps]
      /\ main[c] = "assign" /\ main'[c] = "look"
      /\ \A d \in Instances \ {c} : main'[d] = main[d]
  BY GoEffect DEF Steps, Unconnected
<1>2. socket' \in [Instances -> {"none", "open", "closed"}]
  BY DEF Inv, TypeOK, RegistrationTypeOK
<1>3. LifeTypeOK'
  BY <1>1 DEF Inv, TypeOK, LifeTypeOK, ThreadsFollowAck, Unconnected
<1>4. ThreadsFollowAck'
  BY <1>1 DEF Inv, TypeOK, LifeTypeOK, ThreadsFollowAck, Unconnected
<1>5. \A d \in Instances : main'[d] \in Unconnected => main[d] \in Unconnected
  BY <1>1 DEF Unconnected
<1>6. QED
  BY <1>2, <1>3, <1>4, <1>5, WorkerStep

(* The threads start for an acknowledged worker. *)
LEMMA LookAtFlagInv == ASSUME Inv, NEW c \in Instances, LookAtFlag(c) PROVE Inv'
<1> USE DEF LookAtFlag, masterVars, linkVars, threadVars, stopVars, StartThreads
<1>1. /\ main' \in [Instances -> Steps]
      /\ main[c] = "look" /\ main'[c] \in {"join receiver", "finally"}
      /\ \A d \in Instances \ {c} : main'[d] = main[d]
  BY GoEffect DEF Steps, Unconnected
<1>2. /\ receiver' \in [Instances -> {"none", "run", "ended"}]
      /\ processor' \in [Instances -> {"none", "run", "ended"}]
      /\ \A d \in Instances \ {c} : receiver'[d] = receiver[d] /\ processor'[d] = processor[d]
  BY DEF Inv, TypeOK, LifeTypeOK
<1>3. /\ socket'[c] \in {socket[c], "closed"}
      /\ \A d \in Instances \ {c} : socket'[d] = socket[d]
      /\ socket' \in [Instances -> {"none", "open", "closed"}]
  BY DEF Inv, TypeOK, RegistrationTypeOK
<1>4. UNCHANGED <<masterVars, backlog, answer, hungUp, assigned, listener, shutdown, stopping>>
  OBVIOUS
<1> HIDE DEF LookAtFlag
<1>5. LifeTypeOK'
  <2>1. \A d \in Instances : /\ assigned'[d] => socket'[d] # "none"
                             /\ main'[d] \in Unconnected => socket'[d] = "none"
    BY <1>1, <1>3, <1>4 DEF Inv, TypeOK, LifeTypeOK, Unconnected
  <2>2. QED
    BY <1>1, <1>2, <1>4, <2>1 DEF Inv, TypeOK, LifeTypeOK
<1>6. ThreadsFollowAck'
  BY <1>1, <1>2, <1>3, <1>4 DEF Inv, ThreadsFollowAck, Unconnected
<1>7. \A d \in Instances : main'[d] \in Unconnected => main[d] \in Unconnected
  BY <1>1 DEF Unconnected
<1>8. QED
  BY <1>3, <1>4, <1>5, <1>6, <1>7, WorkerStep

(* The joins move the main thread past its threads. *)
LEMMA JoinReceiverInv == ASSUME Inv, NEW c \in Instances, JoinReceiver(c) PROVE Inv'
<1> USE DEF JoinReceiver, masterVars, linkVars, threadVars, stopVars
<1>1. /\ main' \in [Instances -> Steps]
      /\ main[c] = "join receiver" /\ main'[c] = "join processor"
      /\ \A d \in Instances \ {c} : main'[d] = main[d]
  BY GoEffect DEF Steps, Unconnected
<1>2. socket' \in [Instances -> {"none", "open", "closed"}]
  BY DEF Inv, TypeOK, RegistrationTypeOK
<1>3. LifeTypeOK'
  BY <1>1 DEF Inv, TypeOK, LifeTypeOK, ThreadsFollowAck, Unconnected
<1>4. ThreadsFollowAck'
  BY <1>1 DEF Inv, TypeOK, LifeTypeOK, ThreadsFollowAck, Unconnected
<1>5. \A d \in Instances : main'[d] \in Unconnected => main[d] \in Unconnected
  BY <1>1 DEF Unconnected
<1>6. QED
  BY <1>2, <1>3, <1>4, <1>5, WorkerStep

LEMMA JoinProcessorInv == ASSUME Inv, NEW c \in Instances, JoinProcessor(c) PROVE Inv'
<1> USE DEF JoinProcessor, masterVars, linkVars, threadVars, stopVars
<1>1. /\ main' \in [Instances -> Steps]
      /\ main[c] = "join processor" /\ main'[c] = "finally"
      /\ \A d \in Instances \ {c} : main'[d] = main[d]
  BY GoEffect DEF Steps, Unconnected
<1>2. socket' \in [Instances -> {"none", "open", "closed"}]
  BY DEF Inv, TypeOK, RegistrationTypeOK
<1>3. LifeTypeOK'
  BY <1>1 DEF Inv, TypeOK, LifeTypeOK, ThreadsFollowAck, Unconnected
<1>4. ThreadsFollowAck'
  BY <1>1 DEF Inv, TypeOK, LifeTypeOK, ThreadsFollowAck, Unconnected
<1>5. \A d \in Instances : main'[d] \in Unconnected => main[d] \in Unconnected
  BY <1>1 DEF Unconnected
<1>6. QED
  BY <1>2, <1>3, <1>4, <1>5, WorkerStep

(* Threads end; none starts. *)
LEMMA ReceiverEndsInv == ASSUME Inv, NEW c \in Instances, ReceiverEnds(c) PROVE Inv'
<1> USE DEF ReceiverEnds, masterVars, linkVars, threadVars, stopVars
<1>1. socket' \in [Instances -> {"none", "open", "closed"}]
  BY DEF Inv, TypeOK, RegistrationTypeOK
<1>2. LifeTypeOK'
  BY DEF Inv, TypeOK, LifeTypeOK, ThreadsFollowAck
<1>3. ThreadsFollowAck'
  BY DEF Inv, TypeOK, LifeTypeOK, ThreadsFollowAck
<1>4. QED
  BY <1>1, <1>2, <1>3, WorkerStep DEF lifeVars

LEMMA ProcessorEndsInv == ASSUME Inv, NEW c \in Instances, ProcessorEnds(c) PROVE Inv'
<1> USE DEF ProcessorEnds, masterVars, linkVars, threadVars, stopVars
<1>1. socket' \in [Instances -> {"none", "open", "closed"}]
  BY DEF Inv, TypeOK, RegistrationTypeOK
<1>2. LifeTypeOK'
  BY DEF Inv, TypeOK, LifeTypeOK, ThreadsFollowAck
<1>3. ThreadsFollowAck'
  BY DEF Inv, TypeOK, LifeTypeOK, ThreadsFollowAck
<1>4. QED
  BY <1>1, <1>2, <1>3, WorkerStep DEF lifeVars

(* A thread that stops its worker had a socket to close. *)
LEMMA SendFailsInv == ASSUME Inv, NEW c \in Instances, SendFails(c) PROVE Inv'
<1> USE DEF SendFails, masterVars, linkVars
<1>1. /\ receiver' \in [Instances -> {"none", "run", "ended"}]
      /\ processor' \in [Instances -> {"none", "run", "ended"}]
      /\ receiver[c] # "none" \/ processor[c] # "none"
      /\ \A d \in Instances : /\ receiver'[d] # "none" => receiver[d] # "none"
                              /\ processor'[d] # "none" => processor[d] # "none"
      /\ socket'[c] \in {socket[c], "closed"}
      /\ \A d \in Instances \ {c} : socket'[d] = socket[d]
  BY DEF Inv, TypeOK, LifeTypeOK, RegistrationTypeOK
<1>2. socket' \in [Instances -> {"none", "open", "closed"}]
  BY DEF Inv, TypeOK, RegistrationTypeOK
<1>3. /\ UNCHANGED <<masterVars, backlog, answer, hungUp, main, assigned, stopping>>
      /\ shutdown' \in [Instances -> BOOLEAN] /\ listener' \in [Instances -> BOOLEAN]
  BY DEF Inv, TypeOK, LifeTypeOK
<1> HIDE DEF SendFails
<1>4. LifeTypeOK'
  BY <1>1, <1>3 DEF Inv, TypeOK, LifeTypeOK, ThreadsFollowAck
<1>5. ThreadsFollowAck'
  BY <1>1, <1>3 DEF Inv, TypeOK, LifeTypeOK, ThreadsFollowAck
<1>6. QED
  BY <1>2, <1>3, <1>4, <1>5, WorkerStep

-----------------------------------------------------------------------------
(* stop(): of the steps only the last touches a socket.                    *)

(* A step of stop() leaves main alone, and its own record in order. *)
LEMMA StopStepEffect ==
  ASSUME Inv, NEW c \in Instances, NEW from,
         NEW to \in {"flag", "look", "close", "join", "socket"}, StopStep(c, from, to)
  PROVE  /\ UNCHANGED main
         /\ stopping[c].of \in Instances
         /\ stopping' \in [Instances ->
              [of : Instances, at : {"flag", "look", "close", "join", "socket"}]]
BY DEF Inv, TypeOK, LifeTypeOK, StopStep

(* The steps before the last change flags and listeners. *)
LEMMA StopInv ==
  ASSUME Inv,
         UNCHANGED <<masterVars, linkVars, threadVars, assigned>>,
         listener' \in [Instances -> BOOLEAN], shutdown' \in [Instances -> BOOLEAN],
         stopping' \in [Instances ->
           [of : Instances, at : {"flag", "look", "close", "join", "socket"}]],
         main' \in [Instances -> Steps],
         \A d \in Instances : \/ main'[d] = main[d]
                             \/ main'[d] \in {"raise", "stop all", "ended", "cut short"}
  PROVE  Inv'
<1> USE DEF linkVars, threadVars
<1>1. socket' \in [Instances -> {"none", "open", "closed"}]
  BY DEF Inv, TypeOK, RegistrationTypeOK
<1>2. \A d \in Instances : main'[d] \in Unconnected => main[d] \in Unconnected
  BY DEF Unconnected
<1>3. LifeTypeOK'
  BY <1>2 DEF Inv, TypeOK, LifeTypeOK
<1>4. ThreadsFollowAck'
  BY DEF Inv, ThreadsFollowAck, Unconnected
<1>5. QED
  BY <1>1, <1>2, <1>3, <1>4, WorkerStep

LEMMA SetFlagInv == ASSUME Inv, NEW c \in Instances, SetFlag(c) PROVE Inv'
<1> USE DEF SetFlag
<1>1. /\ UNCHANGED main
      /\ stopping' \in [Instances ->
           [of : Instances, at : {"flag", "look", "close", "join", "socket"}]]
  BY StopStepEffect
<1>2. /\ main \in [Instances -> Steps]
      /\ listener' \in [Instances -> BOOLEAN] /\ shutdown' \in [Instances -> BOOLEAN]
  BY DEF Inv, TypeOK, LifeTypeOK
<1>3. QED
  BY <1>1, <1>2, StopInv

LEMMA LookForListenerInv == ASSUME Inv, NEW c \in Instances, LookForListener(c) PROVE Inv'
<1> USE DEF LookForListener
<1>1. /\ UNCHANGED main
      /\ stopping' \in [Instances ->
           [of : Instances, at : {"flag", "look", "close", "join", "socket"}]]
  <2>1. (IF listener[stopping[c].of] THEN "close" ELSE "join")
          \in {"flag", "look", "close", "join", "socket"}
    OBVIOUS
  <2>2. QED
    BY <2>1, StopStepEffect
<1>2. /\ main \in [Instances -> Steps]
      /\ listener' \in [Instances -> BOOLEAN] /\ shutdown' \in [Instances -> BOOLEAN]
  BY DEF Inv, TypeOK, LifeTypeOK
<1>3. QED
  BY <1>1, <1>2, StopInv

LEMMA CloseListenerInv == ASSUME Inv, NEW c \in Instances, CloseListener(c) PROVE Inv'
<1> USE DEF CloseListener
<1>1. /\ UNCHANGED main
      /\ stopping' \in [Instances ->
           [of : Instances, at : {"flag", "look", "close", "join", "socket"}]]
  BY StopStepEffect
<1>2. /\ main \in [Instances -> Steps]
      /\ listener' \in [Instances -> BOOLEAN] /\ shutdown' \in [Instances -> BOOLEAN]
  BY DEF Inv, TypeOK, LifeTypeOK
<1>3. QED
  BY <1>1, <1>2, StopInv

LEMMA JoinP2PInv == ASSUME Inv, NEW c \in Instances, JoinP2P(c) PROVE Inv'
<1> USE DEF JoinP2P
<1>1. /\ UNCHANGED main
      /\ stopping' \in [Instances ->
           [of : Instances, at : {"flag", "look", "close", "join", "socket"}]]
  BY StopStepEffect
<1>2. /\ main \in [Instances -> Steps]
      /\ listener' \in [Instances -> BOOLEAN] /\ shutdown' \in [Instances -> BOOLEAN]
  BY DEF Inv, TypeOK, LifeTypeOK
<1>3. QED
  BY <1>1, <1>2, StopInv

(* An exception ends the thread, or begins the launcher's loop. *)
LEMMA StopRaisesInv == ASSUME Inv, NEW c \in Instances, StopRaises(c) PROVE Inv'
<1> USE DEF StopRaises
<1>1. /\ main' \in [Instances -> Steps]
      /\ \A d \in Instances : main'[d] = main[d] \/ main'[d] \in {"raise", "cut short"}
  BY DEF Inv, TypeOK, LifeTypeOK, Go, Steps, Unconnected
<1>2. stopping' \in [Instances ->
        [of : Instances, at : {"flag", "look", "close", "join", "socket"}]]
  BY DEF Inv, TypeOK, LifeTypeOK, OwnStop
<1>3. listener' \in [Instances -> BOOLEAN] /\ shutdown' \in [Instances -> BOOLEAN]
  BY DEF Inv, TypeOK, LifeTypeOK
<1>4. QED
  BY <1>1, <1>2, <1>3, StopInv

LEMMA BeginStopAllInv == ASSUME Inv, NEW c \in Instances, BeginStopAll(c) PROVE Inv'
<1> USE DEF BeginStopAll
<1>1. /\ main' \in [Instances -> Steps]
      /\ \A d \in Instances : main'[d] = main[d] \/ main'[d] \in {"stop all", "ended"}
  BY GoEffect DEF Steps, Unconnected
<1>2. 1 \in Instances
  BY LaunchedInOrder
<1>3. stopping' \in [Instances ->
        [of : Instances, at : {"flag", "look", "close", "join", "socket"}]]
  <2>1. OwnStop(1) \in [of : Instances, at : {"flag", "look", "close", "join", "socket"}]
    BY <1>2 DEF OwnStop
  <2>2. stopping' = [stopping EXCEPT ![c] = OwnStop(1)]
    OBVIOUS
  <2>3. QED
    BY <2>1, <2>2 DEF Inv, TypeOK, LifeTypeOK
<1>4. listener' \in [Instances -> BOOLEAN] /\ shutdown' \in [Instances -> BOOLEAN]
  BY DEF Inv, TypeOK, LifeTypeOK
<1>5. QED
  BY <1>1, <1>3, <1>4, StopInv

(* After stop() the loop goes on to the next runtime, or the thread ends. *)
LEMMA AfterStopEffect ==
  ASSUME Inv, NEW c \in Instances, AfterStop(c)
  PROVE  /\ main' \in [Instances -> Steps]
         /\ \A d \in Instances : main'[d] = main[d] \/ main'[d] \in {"raise", "ended"}
         /\ stopping' \in [Instances ->
              [of : Instances, at : {"flag", "look", "close", "join", "socket"}]]
<1> USE DEF AfterStop
<1>1. stopping[c].of \in Instances
  BY DEF Inv, TypeOK, LifeTypeOK
<1>2. stopping[c].of < WorkerCount => stopping[c].of + 1 \in Instances
  BY <1>1, LaunchedInOrder
<1>3. /\ main' \in [Instances -> Steps]
      /\ \A d \in Instances : main'[d] = main[d] \/ main'[d] \in {"raise", "ended"}
  BY DEF Inv, TypeOK, LifeTypeOK, Go, Steps, Unconnected
<1>4. stopping' \in [Instances ->
        [of : Instances, at : {"flag", "look", "close", "join", "socket"}]]
  <2> DEFINE next == stopping[c].of + 1
  <2>1. /\ OwnStop(c) \in [of : Instances, at : {"flag", "look", "close", "join", "socket"}]
        /\ stopping[c].of < WorkerCount =>
             OwnStop(next) \in [of : Instances, at : {"flag", "look", "close", "join", "socket"}]
    BY <1>2 DEF OwnStop
  <2>2. \/ stopping[c].of < WorkerCount /\ stopping' = [stopping EXCEPT ![c] = OwnStop(next)]
        \/ stopping' = [stopping EXCEPT ![c] = OwnStop(c)]
    BY DEF Inv, TypeOK, LifeTypeOK
  <2> HIDE DEF next
  <2>3. QED
    BY <2>1, <2>2 DEF Inv, TypeOK, LifeTypeOK
<1>5. QED
  BY <1>3, <1>4

(* Only assigned sockets are shut. *)
LEMMA ShutSocketInv == ASSUME Inv, NEW c \in Instances, ShutSocket(c) PROVE Inv'
<1>1. \A d \in Instances : \/ socket'[d] = socket[d]
                           \/ assigned[d] /\ socket'[d] = "closed"
  <2> DEFINE first == stopping[c].of
  <2>1. socket' = [socket EXCEPT ![first] = IF assigned[first] THEN "closed" ELSE @]
    BY DEF ShutSocket
  <2> HIDE DEF first
  <2>2. QED
    BY <2>1 DEF Inv, TypeOK, RegistrationTypeOK
<1>2. socket' \in [Instances -> {"none", "open", "closed"}]
  BY DEF Inv, TypeOK, RegistrationTypeOK, ShutSocket
<1>3. UNCHANGED <<masterVars, backlog, answer, hungUp, receiver, processor, assigned, listener,
                  shutdown>>
  BY DEF ShutSocket, threadVars
<1>4. /\ main' \in [Instances -> Steps]
      /\ \A d \in Instances : main'[d] = main[d] \/ main'[d] \in {"raise", "ended"}
      /\ stopping' \in [Instances ->
           [of : Instances, at : {"flag", "look", "close", "join", "socket"}]]
  BY AfterStopEffect DEF ShutSocket
<1>5. \A d \in Instances : main'[d] \in Unconnected => main[d] \in Unconnected
  BY <1>4 DEF Unconnected
<1>6. LifeTypeOK'
  <2>1. \A d \in Instances : /\ assigned[d] => socket[d] # "none"
                             /\ main[d] \in Unconnected => socket[d] = "none"
    BY DEF Inv, TypeOK, LifeTypeOK
  <2>2. \A d \in Instances : /\ assigned[d] => socket'[d] # "none"
                             /\ main'[d] \in Unconnected => socket'[d] = "none"
    BY <1>1, <1>5, <2>1
  <2>3. QED
    BY <1>3, <1>4, <2>2 DEF Inv, TypeOK, LifeTypeOK
<1>7. ThreadsFollowAck'
  BY <1>1, <1>3, <1>4 DEF Inv, ThreadsFollowAck, Unconnected
<1>8. QED
  BY <1>2, <1>3, <1>5, <1>6, <1>7, WorkerStep

(* A stray leaves as one that was not answered, or was. *)
LEMMA StrayEndsInv == ASSUME Inv, NEW c \in Instances, StrayEnds(c) PROVE Inv'
<1> USE DEF StrayEnds, masterVars, threadVars, stopVars
<1>1. /\ main' \in [Instances -> Steps]
      /\ main'[c] = "ended"
      /\ \A d \in Instances \ {c} : main'[d] = main[d]
  BY GoEffect DEF Steps, Unconnected
<1>2. /\ socket'[c] = "closed"
      /\ \A d \in Instances \ {c} : socket'[d] = socket[d]
      /\ socket' \in [Instances -> {"none", "open", "closed"}]
  BY DEF Inv, TypeOK, RegistrationTypeOK
<1>3. LifeTypeOK'
  BY <1>1, <1>2 DEF Inv, TypeOK, LifeTypeOK, Unconnected
<1>4. ThreadsFollowAck'
  BY <1>1, <1>2 DEF Inv, TypeOK, LifeTypeOK, ThreadsFollowAck, Unconnected
<1>5. \A d \in Instances : main'[d] \in Unconnected => main[d] \in Unconnected
  BY <1>1 DEF Unconnected
<1>6. QED
  BY <1>2, <1>3, <1>4, <1>5, WorkerStep

(* A process that ends takes its sockets with it. *)
LEMMA ExitInv == ASSUME Inv, NEW c \in Launched, Exit(c) PROVE Inv'
<1> USE DEF Exit, masterVars, linkVars, lifeVars
<1>1. /\ main[c] \in {"ended", "cut short"} /\ socket'[c] = "closed"
      /\ \A d \in Instances \ {c} : socket'[d] = socket[d]
  BY IdsOfInstances DEF Inv, TypeOK, RegistrationTypeOK, Over
<1>2. socket' \in [Instances -> {"none", "open", "closed"}]
  BY DEF Inv, TypeOK, RegistrationTypeOK
<1>3. LifeTypeOK'
  BY <1>1 DEF Inv, TypeOK, LifeTypeOK, ThreadsFollowAck, Unconnected
<1>4. ThreadsFollowAck'
  BY <1>1 DEF Inv, TypeOK, LifeTypeOK, ThreadsFollowAck, Unconnected
<1>5. QED
  BY <1>1, <1>2, <1>3, <1>4, WorkerStep DEF lifeVars

(* A new connection is the last of the backlog, and was never there. *)
LEMMA ConnectInv == ASSUME Inv, NEW c \in Instances, Connect(c) PROVE Inv'
<1> USE DEF Connect, masterVars, threadVars, stopVars
<1>1. /\ main' \in [Instances -> Steps]
      /\ main[c] = "connect" /\ main'[c] = "register"
      /\ \A d \in Instances \ {c} : main'[d] = main[d]
  BY GoEffect DEF Steps, Unconnected
<1>2. /\ backlog \in Seq(Instances)
      /\ Len(backlog) \in Nat
      /\ backlog' \in Seq(Instances)
      /\ Len(backlog') = Len(backlog) + 1
      /\ \A i \in 1 .. Len(backlog) : backlog'[i] = backlog[i]
      /\ backlog'[Len(backlog) + 1] = c
  BY AppendProperties, LenProperties DEF Inv, TypeOK, RegistrationTypeOK
<1>3. /\ socket' \in [Instances -> {"none", "open", "closed"}]
      /\ socket'[c] = "open"
      /\ \A d \in Instances \ {c} : socket'[d] = socket[d]
  BY DEF Inv, TypeOK, RegistrationTypeOK
<1>4. answer[c] = "none" /\ c # serving /\ ~ Queued(c)
  BY <1>1 DEF Inv, AnsweredOnce, Unconnected
<1>5. TypeOK'
  <2>1. RegistrationTypeOK'
    BY <1>2, <1>3 DEF Inv, TypeOK, RegistrationTypeOK
  <2>2. LifeTypeOK'
    BY <1>1, <1>3 DEF Inv, TypeOK, LifeTypeOK, Unconnected
  <2>3. QED
    BY <2>1, <2>2 DEF TypeOK
<1>6. AnsweredOnce'
  <2>1. \A i \in 1 .. Len(backlog') : i \in 1 .. Len(backlog) \/ i = Len(backlog) + 1
    BY <1>2
  <2>2. \A i, j \in 1 .. Len(backlog') : backlog'[i] = backlog'[j] => i = j
    BY <1>2, <1>4, <2>1 DEF Inv, AnsweredOnce, Queued
  <2>3. \A d \in Instances : Queued(d)' => Queued(d) \/ d = c
    BY <1>2, <2>1 DEF Queued
  <2>4. QED
    BY <1>1, <1>4, <2>2, <2>3 DEF Inv, AnsweredOnce, Serves, Unconnected
<1>7. (EntriesMatchAnswers /\ StartsWithConfirmed)'
  BY DEF Inv, EntriesMatchAnswers, StartsWithConfirmed, Registered
<1>8. ThreadsFollowAck'
  <2>1. UNCHANGED <<answer, receiver, processor>>
    OBVIOUS
  <2>2. ASSUME NEW d \in Instances
        PROVE  /\ main'[d] \in {"assign", "look", "join receiver"} => answer'[d] = "ACK"
               /\ receiver'[d] # "none" \/ processor'[d] # "none" =>
                    main'[d] \notin Unconnected \cup {"register", "assign", "look"}
               /\ main'[d] \in {"register", "assign", "look", "join receiver",
                                "join processor", "finally"} => socket'[d] # "none"
    <3>1. CASE d = c
      BY <1>1, <1>3, <2>1, <3>1 DEF Inv, ThreadsFollowAck, Unconnected
    <3>2. CASE d # c
      <4>1. main'[d] = main[d] /\ socket'[d] = socket[d]
        BY <1>1, <1>3, <3>2
      <4>2. QED
        BY <2>1, <4>1 DEF Inv, ThreadsFollowAck
    <3>3. QED
      BY <3>1, <3>2
  <2>3. QED
    BY <2>2 DEF ThreadsFollowAck
<1>9. QED
  BY <1>5, <1>6, <1>7, <1>8 DEF Inv

-----------------------------------------------------------------------------
(* The theorems.                                                           *)

LEMMA NextInv == Inv /\ [Next]_vars => Inv'
<1> SUFFICES ASSUME Inv, [Next]_vars PROVE Inv'
  OBVIOUS
<1>1. CASE Master /\ UNCHANGED lifeVars
  BY <1>1, AcceptInv, RegisterInv, AcknowledgeInv, StartDistributionInv, EndInv
  DEF Master, Serving
<1>2. ASSUME NEW c \in Instances, Starting(c) PROVE Inv'
  BY <1>2, BindPortInv, StartP2PInv, ConnectInv, ConnectFailsInv DEF Starting
<1>3. ASSUME NEW c \in Instances, Waiting(c) PROVE Inv'
  BY <1>3, AnsweredInv, NotAnsweredInv DEF Waiting
<1>4. ASSUME NEW c \in Instances, Running(c) PROVE Inv'
  BY <1>4, AssignSocketInv, LookAtFlagInv, JoinReceiverInv, JoinProcessorInv
  DEF Running
<1>5. ASSUME NEW c \in Instances, Stopping(c) PROVE Inv'
  BY <1>5, SetFlagInv, LookForListenerInv, CloseListenerInv, JoinP2PInv, StopRaisesInv,
     ShutSocketInv, BeginStopAllInv DEF Stopping
<1>6. ASSUME NEW c \in Instances, Threads(c) PROVE Inv'
  BY <1>6, ReceiverEndsInv, ProcessorEndsInv, SendFailsInv DEF Threads
<1>7. CASE \E c \in Launched :
             Starting(c) \/ Waiting(c) \/ Running(c) \/ Stopping(c) \/ Threads(c) \/ Exit(c)
  BY <1>2, <1>3, <1>4, <1>5, <1>6, <1>7, ExitInv, IdsOfInstances
<1>8. CASE \E c \in Strays : Connect(c) \/ Answered(c) \/ StrayEnds(c)
  BY <1>8, ConnectInv, AnsweredInv, StrayEndsInv DEF Instances
<1>9. CASE UNCHANGED vars
  <2>1. LifeTypeOK' /\ ThreadsFollowAck'
    BY <1>9 DEF Inv, TypeOK, LifeTypeOK, ThreadsFollowAck, vars, linkVars, lifeVars
  <2>2. socket' \in [Instances -> {"none", "open", "closed"}]
    BY <1>9 DEF Inv, TypeOK, RegistrationTypeOK, vars, linkVars
  <2>3. QED
    BY <1>9, <2>1, <2>2, WorkerStep DEF vars, linkVars, lifeVars
<1>10. QED
  BY <1>1, <1>7, <1>8, <1>9 DEF Next

(* The invariant holds throughout. *)
LEMMA InvHolds == Spec => []Inv
BY InitInv, NextInv, PTL DEF Spec

(* Types: a socket that run() has assigned exists, none exists before run() *)
(* connects, and every entry of _workers is of its own id (WorkerRuntime,   *)
(* _register_worker).                                                       *)
THEOREM LaunchTypesHold == Spec => []TypeOK
<1>1. Inv => TypeOK
  BY DEF Inv
<1>2. QED
  BY <1>1, InvHolds, PTL

(* The distribution starts with as many workers as are expected, each       *)
(* acknowledged (_accept_workers, _remove_unconfirmed_worker).              *)
THEOREM DistributionStartsConfirmed == Spec => []StartsWithConfirmed
<1>1. Inv => StartsWithConfirmed
  BY DEF Inv
<1>2. QED
  BY <1>1, InvHolds, PTL

(* A worker that has read its ACK stays the one of its id, whatever other   *)
(* registrations come and fail (_register_worker).                          *)
THEOREM ConfirmedWorkersStay == Spec => []ConfirmedStaysRegistered
<1>1. Inv => ConfirmedStaysRegistered
  BY DEF Inv, ThreadsFollowAck, EntriesMatchAnswers, ConfirmedStaysRegistered
<1>2. QED
  BY <1>1, InvHolds, PTL

-----------------------------------------------------------------------------
(***************************************************************************)
(* The reports of a worker, for any capacity and any number of tasks,      *)
(* transfers, batches and unread statuses.                                 *)
(***************************************************************************)
ThreadSteps == {"idle", "tell", "result", "report", "refuse",
                "ask", "wait", "confirm", "record"}

\* The monitor holds tasks, and has a transfer to record, as its step says.
MonitorKnows ==
  /\ thread \in [ReportingThreads -> ThreadSteps]
  /\ (reserved > 0) <=> (thread["monitor"] \in {"wait", "confirm"})
  /\ thread["monitor"] \in {"wait", "confirm", "record"} => sent < transfers
  /\ thread["monitor"] = "ask" => transfers < MaxTransfers

\* Thread t will read a snapshot before it is idle again.
Due(t) ==
  \/ thread[t] \in Telling /\ ~ Reads(t)
  \/ thread[t] \in {"confirm", "record"}

NoneDue == \A t \in ReportingThreads : ~ Due(t)

(***************************************************************************)
(* When no snapshot is due, the one that was read last has the size: the   *)
(* last of those waiting, or the last on the way, or what the master       *)
(* believes, whichever is the newest.  A status that was not overtaken,    *)
(* with none waiting behind it, is the one that was read last.  The master *)
(* has counted tasks on top of it, but only such as are on their way to    *)
(* the worker still; of one that was refused, because the queue was full,  *)
(* it would not have known a place.  Nothing of this holds while a change  *)
(* has been left unreported.                                               *)
(***************************************************************************)
SnapshotIsRight(status) == ~ status.overtaken => status.size = size

NewestIsRight ==
  /\ ~ unreported /\ NoneDue /\ waiting # <<>> =>
       SnapshotIsRight(waiting[Len(waiting)].status)
  /\ ~ unreported /\ NoneDue /\ waiting = <<>> /\ toMaster # <<>> =>
       SnapshotIsRight(toMaster[Len(toMaster)])
  /\ ~ unreported /\ NoneDue /\ waiting = <<>> /\ toMaster = <<>> /\ ~ belief.overtaken =>
       size <= belief.size /\ belief.size <= size + toWorker

\* Nothing is read to be sent before there is a socket.
ReadOnlyWhenLinked == waiting # <<>> => linked

ReportsInv == ReportTypeOK /\ MonitorKnows /\ NewestIsRight /\ ReadOnlyWhenLinked

LEMMA ReportsInvInit == ReportInit => ReportsInv
<1>1. SUFFICES ASSUME ReportInit PROVE ReportsInv
  OBVIOUS
<1>2. /\ size = 0 /\ reserved = 0 /\ sent = 0 /\ toWorker = 0
      /\ waiting = <<>> /\ toMaster = <<>>
      /\ thread = [t \in ReportingThreads |-> "idle"]
      /\ belief = [size |-> 0, sent |-> 0, overtaken |-> FALSE]
      /\ tasks = 0 /\ transfers = 0 /\ batches = 0
      /\ linked = FALSE /\ unreported = FALSE
  BY <1>1 DEF ReportInit
<1>3. /\ Capacity \in Nat /\ MaxTasks \in Nat /\ MaxTransfers \in Nat /\ MaxBatches \in Nat
      /\ MaxUnread \in Nat
  BY ReportsAssumption DEF ReportsAssumption
<1>4. ReportTypeOK
  <2>1. linked \in BOOLEAN /\ unreported \in BOOLEAN
    BY <1>2
  <2>2. belief \in Statuses
    BY <1>2, <1>3 DEF Statuses
  <2>3. \A t \in ReportingThreads : ~ Reads(t)
    BY <1>2 DEF Reads
  <2>4. QED
    BY <1>2, <1>3, <2>1, <2>2, <2>3 DEF ReportTypeOK
<1>5. "monitor" \in ReportingThreads
  BY DEF ReportingThreads
<1>6. MonitorKnows
  BY <1>2, <1>5 DEF MonitorKnows, ThreadSteps
<1>7. NewestIsRight
  BY <1>2 DEF NewestIsRight
<1>8. QED
  BY <1>1, <1>2, <1>4, <1>6, <1>7 DEF ReportsInv, ReadOnlyWhenLinked

(* A thread goes one step on. *)
LEMMA StepEffect ==
  ASSUME MonitorKnows, NEW t \in ReportingThreads, NEW from, NEW to \in ThreadSteps,
         Step(t, from, to)
  PROVE  /\ thread[t] = from /\ thread'[t] = to
         /\ thread' \in [ReportingThreads -> ThreadSteps]
         /\ \A u \in ReportingThreads \ {t} : thread'[u] = thread[u]
BY DEF Step, MonitorKnows

(***************************************************************************)
(* A thread with nothing to tell does something to the queue, and has to   *)
(* tell of it then, or left the size as it was, or says nothing of the     *)
(* change.  A task that was refused is not on its way any more, but the    *)
(* master, that knew of no free place, had not counted it.                 *)
(***************************************************************************)
LEMMA ThreadKeepsReports ==
  ASSUME ReportsInv, NEW t \in ReportingThreads, NEW from, from \notin Telling,
         NEW to \in ThreadSteps, Step(t, from, to),
         UNCHANGED <<waiting, toMaster, belief, tasks, linked>>, unreported' \in BOOLEAN,
         size' \in 0 .. Capacity, reserved' \in 0 .. size', sent' \in 0 .. transfers',
         toWorker' \in 0 .. toWorker,
         transfers' \in 0 .. MaxTransfers, batches' \in 0 .. MaxBatches,
         MonitorKnows',
         \/ to \in Telling \cup {"confirm", "record"}
         \/ /\ size' = size /\ from \notin {"confirm", "record"}
            /\ toWorker' = toWorker \/ size = Capacity
            /\ unreported' = unreported
         \/ unreported'
  PROVE  ReportsInv'
<1>1. /\ thread[t] = from /\ thread'[t] = to
      /\ \A u \in ReportingThreads \ {t} : thread'[u] = thread[u]
  BY StepEffect DEF ReportsInv
<1>2. \A u \in ReportingThreads : Reads(u)' <=> Reads(u)
  BY DEF Reads
<1>3. ~ Reads(t)
  BY <1>1 DEF ReportsInv, ReportTypeOK
<1>4. ReportTypeOK'
  <2>1. toWorker' \in 0 .. tasks'
    BY DEF ReportsInv, ReportTypeOK
  <2>2. \A u \in ReportingThreads : Reads(u)' => thread'[u] \in Telling
    BY <1>1, <1>2, <1>3 DEF ReportsInv, ReportTypeOK
  <2>3. QED
    BY <2>1, <2>2 DEF ReportsInv, ReportTypeOK
<1>5. NewestIsRight'
  <2>1. CASE to \in Telling \cup {"confirm", "record"}
    <3>1. Due(t)'
      BY <1>1, <1>2, <1>3, <2>1 DEF Due
    <3>2. ~ NoneDue'
      BY <3>1 DEF NoneDue
    <3>3. QED
      BY <3>2 DEF NewestIsRight
  <2>2. CASE size' = size /\ from \notin {"confirm", "record"}
             /\ (toWorker' = toWorker \/ size = Capacity) /\ unreported' = unreported
    <3>1. NoneDue' => NoneDue
      <4>1. ~ Due(t)
        BY <1>1, <2>2 DEF Due
      <4>2. \A u \in ReportingThreads \ {t} : Due(u) => Due(u)'
        BY <1>1, <1>2 DEF Due
      <4>3. QED
        BY <4>1, <4>2 DEF NoneDue
    <3>2. size \in Int /\ toWorker \in Int /\ belief.size \in 0 .. Capacity /\ Capacity \in Int
      BY ReportsAssumption DEF ReportsInv, ReportTypeOK, Statuses, ReportsAssumption
    <3>3. ASSUME ~ unreported, NoneDue, waiting = <<>>, toMaster = <<>>, ~ belief.overtaken
          PROVE  size <= belief.size /\ belief.size <= size + toWorker'
      BY <2>2, <3>2, <3>3 DEF ReportsInv, NewestIsRight
    <3>4. QED
      BY <2>2, <3>1, <3>3 DEF ReportsInv, NewestIsRight, SnapshotIsRight
  <2>3. CASE unreported'
    BY <2>3 DEF NewestIsRight
  <2>4. QED
    BY <2>1, <2>2, <2>3
<1>6. QED
  BY <1>4, <1>5 DEF ReportsInv, ReadOnlyWhenLinked

(* The names of the threads, and numbers for the solver. *)
LEMMA ReportsFacts ==
  ASSUME ReportsInv
  PROVE  /\ {"receiver", "processor", "monitor", "server"} = ReportingThreads
         /\ Telling = {"tell", "report"}
         /\ Capacity \in Nat /\ Overload \in Nat /\ MaxTransfer \in Nat
         /\ MaxTransfers \in Nat /\ MaxBatches \in Nat /\ MaxTasks \in Nat
         /\ size \in Nat /\ size <= Capacity /\ reserved \in Nat /\ reserved <= size
         /\ transfers \in Nat /\ transfers <= MaxTransfers
         /\ sent \in Nat /\ sent <= transfers
         /\ batches \in Nat /\ batches <= MaxBatches
         /\ toWorker \in Nat /\ tasks \in Nat
         /\ linked \in BOOLEAN /\ unreported \in BOOLEAN
BY ReportsAssumption DEF ReportsInv, ReportTypeOK, ReportsAssumption, ReportingThreads, Telling

(* The monitor's part does not change. *)
LEMMA MonitorKnowsStill ==
  ASSUME ReportsInv, NEW t \in ReportingThreads, t # "monitor", NEW from, NEW to \in ThreadSteps,
         Step(t, from, to), UNCHANGED <<reserved, sent, transfers>>
  PROVE  MonitorKnows'
<1>1. "monitor" \in ReportingThreads
  BY DEF ReportingThreads
<1>2. thread'["monitor"] = thread["monitor"] /\ thread' \in [ReportingThreads -> ThreadSteps]
  BY <1>1, StepEffect DEF ReportsInv
<1>3. QED
  BY <1>2 DEF ReportsInv, MonitorKnows

LEMMA HandleTaskKeepsReports ==
  ASSUME ReportsInv, HandleTask PROVE ReportsInv'
<1>1. /\ toWorker > 0 /\ toWorker' = toWorker - 1
      /\ UNCHANGED <<reserved, sent, waiting, toMaster, belief, tasks, transfers, batches, linked, unreported>>
  BY DEF HandleTask, boundVars, linkState
<1>2. "receiver" \in ReportingThreads /\ "receiver" # "monitor"
      /\ "idle" \notin Telling /\ "report" \in Telling
      /\ "report" \in ThreadSteps /\ "refuse" \in ThreadSteps
      /\ "idle" \notin {"confirm", "record"}
  BY ReportsFacts DEF ThreadSteps
<1>3. CASE size < Capacity /\ size' = size + 1 /\ Step("receiver", "idle", "report")
  <2>1. MonitorKnows' /\ unreported' \in BOOLEAN
    BY <1>1, <1>2, <1>3, MonitorKnowsStill, ReportsFacts
  <2>2. size' \in 0 .. Capacity /\ reserved' \in 0 .. size' /\ toWorker' \in 0 .. toWorker
        /\ sent' \in 0 .. transfers' /\ transfers' \in 0 .. MaxTransfers
        /\ batches' \in 0 .. MaxBatches
    BY <1>1, <1>3, ReportsFacts
  <2>3. QED
    BY <1>1, <1>2, <1>3, <2>1, <2>2, ThreadKeepsReports
<1>4. CASE ~ (size < Capacity) /\ UNCHANGED size /\ Step("receiver", "idle", "refuse")
  <2>1. MonitorKnows' /\ unreported' \in BOOLEAN
    BY <1>1, <1>2, <1>4, MonitorKnowsStill, ReportsFacts
  <2>2. size' \in 0 .. Capacity /\ reserved' \in 0 .. size' /\ toWorker' \in 0 .. toWorker
        /\ sent' \in 0 .. transfers' /\ transfers' \in 0 .. MaxTransfers
        /\ batches' \in 0 .. MaxBatches /\ size' = size /\ size = Capacity
    BY <1>1, <1>4, ReportsFacts
  <2>3. QED
    BY <1>1, <1>2, <1>4, <2>1, <2>2, ThreadKeepsReports
<1>5. QED
  BY <1>3, <1>4 DEF HandleTask

LEMMA IgnoreDuplicateKeepsReports ==
  ASSUME ReportsInv, IgnoreDuplicate PROVE ReportsInv'
<1>1. /\ toWorker > 0 /\ toWorker' = toWorker - 1 /\ Step("receiver", "idle", "report")
      /\ UNCHANGED <<size, reserved, sent, waiting, toMaster, belief, tasks, transfers, batches, linked, unreported>>
  BY DEF IgnoreDuplicate, boundVars, queueVars, linkState
<1>2. "receiver" \in ReportingThreads /\ "receiver" # "monitor"
      /\ "idle" \notin Telling /\ "report" \in Telling /\ "report" \in ThreadSteps
  BY ReportsFacts DEF ThreadSteps
<1>3. MonitorKnows' /\ unreported' \in BOOLEAN
  BY <1>1, <1>2, MonitorKnowsStill, ReportsFacts
<1>4. size' \in 0 .. Capacity /\ reserved' \in 0 .. size' /\ toWorker' \in 0 .. toWorker
      /\ sent' \in 0 .. transfers' /\ transfers' \in 0 .. MaxTransfers
      /\ batches' \in 0 .. MaxBatches
  BY <1>1, ReportsFacts
<1>5. QED
  BY <1>1, <1>2, <1>3, <1>4, ThreadKeepsReports

(* The receiver's refusal and the processor's result. *)
LEMMA SendResultKeepsReports ==
  ASSUME ReportsInv, NEW t \in {"receiver", "processor"}, NEW from \in {"refuse", "result"},
         NEW to \in ThreadSteps, SendResult(t, from, to)
  PROVE  ReportsInv'
<1>1. /\ Step(t, from, to)
      /\ UNCHANGED <<size, reserved, sent, waiting, toMaster, toWorker, belief, tasks,
                     transfers, batches, linked, unreported>>
  BY DEF SendResult, boundVars, queueVars, knownVars, linkState
<1>2. t \in ReportingThreads /\ t # "monitor" /\ from \notin Telling
      /\ from \notin {"confirm", "record"}
  BY ReportsFacts
<1>3. MonitorKnows' /\ unreported' \in BOOLEAN
  BY <1>1, <1>2, MonitorKnowsStill, ReportsFacts
<1>4. size' \in 0 .. Capacity /\ reserved' \in 0 .. size' /\ toWorker' \in 0 .. toWorker
      /\ sent' \in 0 .. transfers' /\ transfers' \in 0 .. MaxTransfers
      /\ batches' \in 0 .. MaxBatches
  BY <1>1, ReportsFacts
<1>5. QED
  BY <1>1, <1>2, <1>3, <1>4, ThreadKeepsReports

LEMMA DequeueKeepsReports ==
  ASSUME ReportsInv, DequeueForProcessing PROVE ReportsInv'
<1>1. /\ size > reserved /\ size' = size - 1 /\ Step("processor", "idle", "tell")
      /\ UNCHANGED <<reserved, sent, waiting, toMaster, toWorker, belief, tasks,
                     transfers, batches, linked, unreported>>
  BY DEF DequeueForProcessing, boundVars, knownVars, linkState
<1>2. "processor" \in ReportingThreads /\ "processor" # "monitor"
      /\ "idle" \notin Telling /\ "tell" \in Telling /\ "tell" \in ThreadSteps
  BY ReportsFacts DEF ThreadSteps
<1>3. MonitorKnows' /\ unreported' \in BOOLEAN
  BY <1>1, <1>2, MonitorKnowsStill, ReportsFacts
<1>4. size' \in 0 .. Capacity /\ reserved' \in 0 .. size' /\ toWorker' \in 0 .. toWorker
      /\ sent' \in 0 .. transfers' /\ transfers' \in 0 .. MaxTransfers
      /\ batches' \in 0 .. MaxBatches
  BY <1>1, ReportsFacts
<1>5. QED
  BY <1>1, <1>2, <1>3, <1>4, ThreadKeepsReports

LEMMA AdmitKeepsReports ==
  ASSUME ReportsInv, NEW n \in 1 .. MaxTransfer, AdmitBatch(n) PROVE ReportsInv'
<1>1. /\ batches < MaxBatches /\ batches' = batches + 1
      /\ size + n <= Capacity /\ size' = size + n
      /\ UNCHANGED <<reserved, sent, waiting, toMaster, toWorker, belief, tasks, transfers, linked>>
  BY DEF AdmitBatch, knownVars
<1>2. "server" \in ReportingThreads /\ "server" # "monitor" /\ "idle" \notin Telling
      /\ "report" \in Telling /\ "report" \in ThreadSteps /\ "idle" \in ThreadSteps
  BY ReportsFacts DEF ThreadSteps
<1>3. size' \in 0 .. Capacity /\ reserved' \in 0 .. size' /\ toWorker' \in 0 .. toWorker
      /\ sent' \in 0 .. transfers' /\ transfers' \in 0 .. MaxTransfers
      /\ batches' \in 0 .. MaxBatches
  BY <1>1, ReportsFacts
<1>4. CASE Step("server", "idle", "report") /\ unreported' = unreported
  <2>1. MonitorKnows' /\ unreported' \in BOOLEAN
    BY <1>1, <1>2, <1>4, MonitorKnowsStill, ReportsFacts
  <2>2. QED
    BY <1>1, <1>2, <1>3, <1>4, <2>1, ThreadKeepsReports
<1>5. CASE Step("server", "idle", "idle") /\ unreported' = TRUE
  <2>1. MonitorKnows' /\ unreported' \in BOOLEAN
    BY <1>1, <1>2, <1>5, MonitorKnowsStill
  <2>2. QED
    BY <1>1, <1>2, <1>3, <1>5, <2>1, ThreadKeepsReports
<1>6. QED
  BY <1>4, <1>5 DEF AdmitBatch

(* The monitor's own steps. *)
LEMMA MonitorKeepsReports ==
  ASSUME ReportsInv, NEW from \in {"idle", "ask", "wait", "confirm", "record"},
         NEW to \in ThreadSteps, Step("monitor", from, to),
         UNCHANGED <<waiting, toMaster, toWorker, belief, tasks, batches, linked, unreported>>,
         size' \in 0 .. Capacity, reserved' \in 0 .. size', sent' \in 0 .. transfers',
         transfers' \in 0 .. MaxTransfers,
         (reserved' > 0) <=> (to \in {"wait", "confirm"}),
         to \in {"wait", "confirm", "record"} => sent' < transfers',
         to = "ask" => transfers' < MaxTransfers,
         \/ to \in Telling \cup {"confirm", "record"}
         \/ size' = size /\ from \notin {"confirm", "record"}
  PROVE  ReportsInv'
<1>1. "monitor" \in ReportingThreads /\ from \notin Telling
  BY ReportsFacts
<1>2. thread'["monitor"] = to /\ thread' \in [ReportingThreads -> ThreadSteps]
  BY <1>1, StepEffect DEF ReportsInv
<1>3. MonitorKnows'
  BY <1>2 DEF MonitorKnows
<1>4. toWorker' \in 0 .. toWorker /\ batches' \in 0 .. MaxBatches /\ unreported' \in BOOLEAN
  BY ReportsFacts
<1>5. QED
  BY <1>1, <1>3, <1>4, ThreadKeepsReports

LEMMA NoticeKeepsReports ==
  ASSUME ReportsInv, NoticeOverload PROVE ReportsInv'
<1>1. /\ transfers < MaxTransfers /\ Step("monitor", "idle", "ask")
      /\ UNCHANGED <<size, reserved, sent, waiting, toMaster, toWorker, belief, tasks,
                     transfers, batches, linked, unreported>>
  BY DEF NoticeOverload, queueVars, knownVars, boundVars, linkState
<1>2. thread["monitor"] = "idle"
  BY <1>1 DEF Step
<1>3. ~ (reserved' > 0)
  BY <1>1, <1>2 DEF ReportsInv, MonitorKnows
<1>4. size' \in 0 .. Capacity /\ reserved' \in 0 .. size' /\ sent' \in 0 .. transfers'
      /\ transfers' \in 0 .. MaxTransfers /\ transfers' < MaxTransfers
  BY <1>1, ReportsFacts
<1>5. "ask" \in ThreadSteps
  BY DEF ThreadSteps
<1>6. QED
  BY <1>1, <1>3, <1>4, <1>5, MonitorKeepsReports

LEMMA FindNothingKeepsReports ==
  ASSUME ReportsInv, FindNothing PROVE ReportsInv'
<1>1. /\ Step("monitor", "ask", "idle")
      /\ UNCHANGED <<size, reserved, sent, waiting, toMaster, toWorker, belief, tasks,
                     transfers, batches, linked, unreported>>
  BY DEF FindNothing, queueVars, knownVars, boundVars, linkState
<1>2. thread["monitor"] = "ask"
  BY <1>1 DEF Step
<1>3. ~ (reserved' > 0)
  BY <1>1, <1>2 DEF ReportsInv, MonitorKnows
<1>4. size' \in 0 .. Capacity /\ reserved' \in 0 .. size' /\ sent' \in 0 .. transfers'
      /\ transfers' \in 0 .. MaxTransfers
  BY <1>1, ReportsFacts
<1>5. "idle" \in ThreadSteps
  BY DEF ThreadSteps
<1>6. QED
  BY <1>1, <1>3, <1>4, <1>5, MonitorKeepsReports

LEMMA ReserveKeepsReports ==
  ASSUME ReportsInv, NEW n \in 1 .. MaxTransfer, Reserve(n) PROVE ReportsInv'
<1>1. /\ transfers' = transfers + 1 /\ n <= size /\ reserved' = n
      /\ Step("monitor", "ask", "wait")
      /\ UNCHANGED <<size, sent, waiting, toMaster, toWorker, belief, tasks, batches,
                     linked, unreported>>
  BY DEF Reserve, knownVars, linkState
<1>2. thread["monitor"] = "ask"
  BY <1>1 DEF Step
<1>3. transfers < MaxTransfers
  BY <1>2 DEF ReportsInv, MonitorKnows
<1>4. size' \in 0 .. Capacity /\ reserved' \in 0 .. size' /\ sent' \in 0 .. transfers'
      /\ transfers' \in 0 .. MaxTransfers /\ reserved' > 0 /\ sent' < transfers'
  BY <1>1, <1>3, ReportsFacts
<1>5. "wait" \in ThreadSteps
  BY DEF ThreadSteps
<1>6. QED
  BY <1>1, <1>4, <1>5, MonitorKeepsReports

LEMMA AnsweredKeepsReports ==
  ASSUME ReportsInv, NEW accepted \in BOOLEAN, TransferAnswered(accepted) PROVE ReportsInv'
<1>1. /\ Step("monitor", "wait", IF accepted THEN "confirm" ELSE "idle")
      /\ reserved' = IF accepted THEN reserved ELSE 0
      /\ UNCHANGED <<size, sent, waiting, toMaster, toWorker, belief, tasks, transfers, batches, linked, unreported>>
  BY DEF TransferAnswered, knownVars, boundVars, linkState
<1>2. thread["monitor"] = "wait"
  BY <1>1 DEF Step
<1>3. reserved > 0 /\ sent < transfers
  BY <1>2 DEF ReportsInv, MonitorKnows
<1>4. size' \in 0 .. Capacity /\ reserved' \in 0 .. size' /\ sent' \in 0 .. transfers'
      /\ transfers' \in 0 .. MaxTransfers
  BY <1>1, ReportsFacts
<1>5. "confirm" \in ThreadSteps /\ "idle" \in ThreadSteps
  BY DEF ThreadSteps
<1>6. CASE accepted
  <2>1. Step("monitor", "wait", "confirm") /\ reserved' > 0 /\ sent' < transfers'
    BY <1>1, <1>3, <1>6
  <2>2. QED
    BY <1>1, <1>4, <1>5, <2>1, MonitorKeepsReports
<1>7. CASE ~ accepted
  <2>1. Step("monitor", "wait", "idle") /\ reserved' = 0
    BY <1>1, <1>7
  <2>2. ~ (reserved' > 0)
    BY <2>1
  <2>3. QED
    BY <1>1, <1>4, <1>5, <2>1, <2>2, MonitorKeepsReports
<1>8. QED
  BY <1>6, <1>7

LEMMA ConfirmKeepsReports ==
  ASSUME ReportsInv, ConfirmNext PROVE ReportsInv'
<1> DEFINE to == IF reserved = 1 THEN "record" ELSE "confirm"
<1>1. /\ Step("monitor", "confirm", to)
      /\ size' = size - 1 /\ reserved' = reserved - 1
      /\ UNCHANGED <<sent, waiting, toMaster, toWorker, belief, tasks, transfers, batches, linked, unreported>>
  BY DEF ConfirmNext, knownVars, boundVars, linkState
<1>2. thread["monitor"] = "confirm"
  BY <1>1 DEF Step
<1>3. reserved > 0 /\ sent < transfers
  BY <1>2 DEF ReportsInv, MonitorKnows
<1>4. /\ size' \in 0 .. Capacity /\ reserved' \in 0 .. size' /\ sent' \in 0 .. transfers'
      /\ transfers' \in 0 .. MaxTransfers /\ sent' < transfers'
      /\ (reserved' > 0) <=> (reserved # 1)
  BY <1>1, <1>3, ReportsFacts
<1>5. to \in ThreadSteps /\ to \in {"confirm", "record"} /\ ((to = "confirm") <=> (reserved # 1))
  BY DEF ThreadSteps
<1> HIDE DEF to
<1>6. (reserved' > 0) <=> (to \in {"wait", "confirm"})
  BY <1>4, <1>5
<1>7. QED
  BY <1>1, <1>4, <1>5, <1>6, MonitorKeepsReports

LEMMA RecordTransferKeepsReports ==
  ASSUME ReportsInv, RecordTransfer PROVE ReportsInv'
<1>1. /\ Step("monitor", "record", "report") /\ sent' = sent + 1
      /\ UNCHANGED <<size, reserved, waiting, toMaster, toWorker, belief, tasks, transfers, batches, linked, unreported>>
  BY DEF RecordTransfer, knownVars, boundVars, queueVars, linkState
<1>2. thread["monitor"] = "record"
  BY <1>1 DEF Step
<1>3. ~ (reserved > 0) /\ sent < transfers
  BY <1>2 DEF ReportsInv, MonitorKnows
<1>4. size' \in 0 .. Capacity /\ reserved' \in 0 .. size' /\ sent' \in 0 .. transfers'
      /\ transfers' \in 0 .. MaxTransfers /\ ~ (reserved' > 0)
  BY <1>1, <1>3, ReportsFacts
<1>5. "report" \in ThreadSteps /\ "report" \in Telling
  BY ReportsFacts DEF ThreadSteps
<1>6. QED
  BY <1>1, <1>4, <1>5, MonitorKeepsReports

-----------------------------------------------------------------------------
(* Snapshots, and what the master makes of them.                           *)

Snapshots == [thread : ReportingThreads, status : Statuses]

LEMMA ReadSnapshotKeepsReports ==
  ASSUME ReportsInv, NEW t \in ReportingThreads, ReadSnapshot(t) PROVE ReportsInv'
<1> DEFINE s == [thread |-> t, status |-> [size |-> size, sent |-> sent, overtaken |-> FALSE]]
<1>1. /\ thread[t] \in Telling /\ ~ Reads(t)
      /\ waiting' = Append(waiting, s)
      /\ linked /\ unreported' = FALSE
      /\ UNCHANGED <<size, reserved, sent, thread, toMaster, toWorker, belief, tasks,
                     transfers, batches, linked>>
  BY DEF ReadSnapshot, queueVars, knownVars, boundVars
<1>2. s \in Snapshots /\ s.thread = t /\ s.status.size = size
  BY ReportsFacts DEF Snapshots, Statuses
<1>3. waiting \in Seq(Snapshots)
  BY DEF ReportsInv, ReportTypeOK, Snapshots
<1> HIDE DEF s
<1>4. /\ waiting' \in Seq(Snapshots) /\ waiting' # <<>>
      /\ Len(waiting') = Len(waiting) + 1 /\ waiting'[Len(waiting')] = s
      /\ Len(waiting) \in Nat
      /\ DOMAIN waiting = 1 .. Len(waiting) /\ DOMAIN waiting' = 1 .. Len(waiting) + 1
      /\ \A i \in DOMAIN waiting : waiting'[i] = waiting[i]
      /\ waiting'[Len(waiting) + 1] = s
  BY <1>1, <1>2, <1>3, AppendProperties, LenProperties
<1>5. \A i \in DOMAIN waiting' : i \in DOMAIN waiting \/ i = Len(waiting) + 1
  BY <1>4
<1>6. \A i \in DOMAIN waiting : waiting[i].thread # t
  BY <1>1 DEF Reads
<1>7. \A i, j \in DOMAIN waiting' : waiting'[i].thread = waiting'[j].thread => i = j
  BY <1>2, <1>4, <1>5, <1>6 DEF ReportsInv, ReportTypeOK
<1>8. \A u \in ReportingThreads : Reads(u)' => thread'[u] \in Telling
  BY <1>1, <1>2, <1>4, <1>5 DEF ReportsInv, ReportTypeOK, Reads
<1>9. ReportTypeOK'
  BY <1>1, <1>4, <1>7, <1>8 DEF ReportsInv, ReportTypeOK, Snapshots
<1>10. NewestIsRight'
  BY <1>1, <1>2, <1>4 DEF NewestIsRight, SnapshotIsRight
<1>11. QED
  BY <1>1, <1>9, <1>10 DEF ReportsInv, MonitorKnows, ReadOnlyWhenLinked

(* Before there is a socket nobody has a snapshot waiting. *)
LEMMA SkipStatusKeepsReports ==
  ASSUME ReportsInv, NEW t \in ReportingThreads, SkipStatus(t) PROVE ReportsInv'
<1> DEFINE to == AfterStatus(t)
<1>1. /\ ~ linked /\ thread[t] \in Telling /\ thread' = [thread EXCEPT ![t] = to]
      /\ unreported' = TRUE
      /\ UNCHANGED <<size, reserved, sent, waiting, toMaster, toWorker, belief, tasks,
                     transfers, batches, linked>>
  BY DEF SkipStatus, queueVars, knownVars, boundVars
<1>2. to \in {"result", "idle"} /\ to \in ThreadSteps
  BY ReportsFacts DEF AfterStatus, ThreadSteps
<1> HIDE DEF to
<1>3. /\ thread' \in [ReportingThreads -> ThreadSteps] /\ thread'[t] = to
      /\ \A u \in ReportingThreads \ {t} : thread'[u] = thread[u]
  BY <1>1, <1>2 DEF ReportsInv, MonitorKnows
<1>4. waiting = <<>>
  BY <1>1 DEF ReportsInv, ReadOnlyWhenLinked
<1>5. DOMAIN waiting = {}
  BY <1>4
<1>6. \A u \in ReportingThreads : ~ Reads(u)'
  BY <1>1, <1>5 DEF Reads
<1>7. ReportTypeOK'
  BY <1>1, <1>6 DEF ReportsInv, ReportTypeOK
<1>8. MonitorKnows'
  <2>1. "monitor" \in ReportingThreads
    BY ReportsFacts
  <2>2. CASE t = "monitor"
    <3>1. thread["monitor"] \notin {"ask", "wait", "confirm", "record"}
      BY <1>1, <2>2, ReportsFacts
    <3>2. thread'["monitor"] \notin {"ask", "wait", "confirm", "record"}
      BY <1>2, <1>3, <2>2
    <3>3. QED
      BY <1>1, <1>3, <3>1, <3>2 DEF ReportsInv, MonitorKnows
  <2>3. CASE t # "monitor"
    BY <1>1, <1>3, <2>1, <2>3 DEF ReportsInv, MonitorKnows
  <2>4. QED
    BY <2>2, <2>3
<1>9. NewestIsRight' /\ ReadOnlyWhenLinked'
  BY <1>1, <1>4 DEF NewestIsRight, ReadOnlyWhenLinked
<1>10. QED
  BY <1>7, <1>8, <1>9 DEF ReportsInv

LEMMA LinkUpKeepsReports ==
  ASSUME ReportsInv, LinkUp PROVE ReportsInv'
<1>1. /\ linked' = TRUE
      /\ UNCHANGED <<size, reserved, sent, thread, waiting, toMaster, toWorker, belief, tasks,
                     transfers, batches, unreported>>
  BY DEF LinkUp, queueVars, knownVars, boundVars
<1>2. \A u \in ReportingThreads : (Reads(u)' <=> Reads(u)) /\ (Due(u)' <=> Due(u))
  BY <1>1 DEF Reads, Due
<1>3. ReportTypeOK'
  BY <1>1, <1>2 DEF ReportsInv, ReportTypeOK
<1>4. NewestIsRight'
  BY <1>1, <1>2 DEF ReportsInv, NewestIsRight, NoneDue, SnapshotIsRight
<1>5. QED
  BY <1>1, <1>3, <1>4 DEF ReportsInv, MonitorKnows, ReadOnlyWhenLinked

(* A sequence after one of its elements is gone. *)
LEMMA SequenceWithout ==
  ASSUME NEW S, NEW s \in Seq(S), NEW k \in DOMAIN s
  PROVE  /\ RemoveAt(s, k) \in Seq(S)
         /\ DOMAIN RemoveAt(s, k) = 1 .. Len(s) - 1
         /\ Len(RemoveAt(s, k)) = Len(s) - 1
         /\ \A i \in 1 .. Len(s) - 1 :
              RemoveAt(s, k)[i] = s[IF i < k THEN i ELSE i + 1]
<1> DEFINE a == SubSeq(s, 1, k - 1)
           b == SubSeq(s, k + 1, Len(s))
<1>1. DOMAIN s = 1 .. Len(s) /\ Len(s) \in Nat /\ \A i \in 1 .. Len(s) : s[i] \in S
  BY LenProperties, ElementOfSeq
<1>2. k \in 1 .. Len(s)
  BY <1>1
<1>3. a \in Seq(S) /\ Len(a) = k - 1 /\ \A i \in 1 .. k - 1 : a[i] = s[i]
  BY <1>1, <1>2, SubSeqProperties
<1>4. b \in Seq(S) /\ Len(b) = Len(s) - k /\ \A i \in 1 .. Len(s) - k : b[i] = s[k + i]
  <2>1. (\A i \in k + 1 .. Len(s) : s[i] \in S) /\ k + 1 \in Int /\ Len(s) \in Int
    BY <1>1, <1>2
  <2> HIDE DEF b
  <2>2. /\ b \in Seq(S)
        /\ Len(b) = IF k + 1 <= Len(s) THEN Len(s) - (k + 1) + 1 ELSE 0
        /\ \A i \in 1 .. Len(s) - (k + 1) + 1 : b[i] = s[(k + 1) + i - 1]
    BY <2>1, SubSeqProperties DEF b
  <2>3. Len(s) \in Int /\ k \in Int /\ k <= Len(s)
    BY <1>1, <1>2
  <2>4. Len(b) = Len(s) - k
    BY <2>2, <2>3
  <2>5. \A i \in 1 .. Len(s) - k : i \in 1 .. Len(s) - (k + 1) + 1 /\ (k + 1) + i - 1 = k + i
    BY <2>3
  <2>6. QED
    BY <2>2, <2>4, <2>5
<1>5. RemoveAt(s, k) = a \o b
  BY DEF RemoveAt
<1> HIDE DEF a, b
<1>6. /\ a \o b \in Seq(S) /\ Len(a \o b) = Len(s) - 1 /\ DOMAIN (a \o b) = 1 .. Len(s) - 1
  <2>1. a \o b \in Seq(S) /\ Len(a \o b) = Len(a) + Len(b)
    BY <1>3, <1>4, ConcatProperties
  <2>2. Len(a \o b) = Len(s) - 1
    BY <1>1, <1>2, <1>3, <1>4, <2>1
  <2>3. QED
    BY <2>1, <2>2, LenProperties
<1>7. ASSUME NEW i \in 1 .. Len(s) - 1
      PROVE  (a \o b)[i] = s[IF i < k THEN i ELSE i + 1]
  <2>1. (a \o b)[i] = IF i <= Len(a) THEN a[i] ELSE b[i - Len(a)]
    BY <1>1, <1>2, <1>3, <1>4, ConcatProperties
  <2>2. CASE i < k
    BY <1>2, <1>3, <2>1, <2>2
  <2>3. CASE ~ (i < k)
    <3>1. i - Len(a) \in 1 .. Len(s) - k /\ k + (i - Len(a)) = i + 1 /\ ~ (i <= Len(a))
      BY <1>1, <1>2, <1>3, <2>3
    <3>2. QED
      BY <1>4, <2>1, <2>3, <3>1
  <2>4. QED
    BY <2>2, <2>3
<1>8. QED
  BY <1>5, <1>6, <1>7

\* Where the snapshot was that is j-th after the i-th was sent.
Place(i, j) == IF j < i THEN j ELSE j + 1

(***************************************************************************)
(* A status is sent: those read before it and still waiting are overtaken  *)
(* from now on, those read after it are as they were.                      *)
(***************************************************************************)
LEMMA SentFromEffect ==
  ASSUME ReportsInv, NEW i \in DOMAIN waiting
  PROVE  /\ SentFrom(i) \in Seq(Snapshots)
         /\ DOMAIN SentFrom(i) = 1 .. Len(waiting) - 1
         /\ Len(SentFrom(i)) = Len(waiting) - 1
         /\ \A j \in 1 .. Len(waiting) - 1 :
              /\ Place(i, j) \in DOMAIN waiting /\ Place(i, j) # i
              /\ SentFrom(i)[j].thread = waiting[Place(i, j)].thread
              /\ Place(i, j) < i => SentFrom(i)[j].status.overtaken
              /\ Place(i, j) > i =>
                   SentFrom(i)[j].status = waiting[Place(i, j)].status
<1> DEFINE w == [j \in DOMAIN waiting |->
                   [waiting[j] EXCEPT !.status.overtaken = @ \/ j < i]]
<1>1. waiting \in Seq(Snapshots) /\ DOMAIN waiting = 1 .. Len(waiting) /\ Len(waiting) \in Nat
  BY LenProperties DEF ReportsInv, ReportTypeOK, Snapshots
<1>2. \A j \in DOMAIN waiting : waiting[j] \in Snapshots
  BY <1>1, ElementOfSeq
<1>3. \A j \in DOMAIN waiting :
        /\ w[j] \in Snapshots /\ w[j].thread = waiting[j].thread
        /\ j < i => w[j].status.overtaken
        /\ j > i => w[j].status = waiting[j].status
  <2> TAKE j \in DOMAIN waiting
  <2>1. waiting[j] \in Snapshots /\ i \in Int /\ j \in Int
    BY <1>1, <1>2
  <2>2. w[j] = [waiting[j] EXCEPT !.status.overtaken = @ \/ j < i]
    OBVIOUS
  <2>3. /\ w[j].thread = waiting[j].thread
        /\ w[j].status.overtaken = (waiting[j].status.overtaken \/ j < i)
        /\ w[j].status.size = waiting[j].status.size
        /\ w[j].status.sent = waiting[j].status.sent
    BY <2>1, <2>2 DEF Snapshots, Statuses
  <2>4. w[j] \in Snapshots /\ w[j].status \in Statuses
    BY <2>1, <2>2 DEF Snapshots, Statuses
  <2>5. j > i => w[j].status.overtaken = waiting[j].status.overtaken
    BY <2>1, <2>3 DEF Snapshots, Statuses
  <2>6. j > i => w[j].status = waiting[j].status
    BY <2>1, <2>3, <2>4, <2>5 DEF Snapshots, Statuses
  <2>7. QED
    BY <2>3, <2>4, <2>6
<1>4. DOMAIN w = DOMAIN waiting
  OBVIOUS
<1> HIDE DEF w
<1>5. w \in Seq(Snapshots) /\ Len(w) = Len(waiting)
  <2>1. w \in [1 .. Len(waiting) -> Snapshots]
    BY <1>1, <1>3, <1>4 DEF w
  <2>2. QED
    BY <1>1, <2>1, SeqDef, LenProperties
<1>6. SentFrom(i) = RemoveAt(w, i)
  BY DEF SentFrom, w
<1>7. /\ RemoveAt(w, i) \in Seq(Snapshots)
      /\ DOMAIN RemoveAt(w, i) = 1 .. Len(waiting) - 1
      /\ Len(RemoveAt(w, i)) = Len(waiting) - 1
      /\ \A j \in 1 .. Len(waiting) - 1 :
           RemoveAt(w, i)[j] = w[IF j < i THEN j ELSE j + 1]
  BY <1>4, <1>5, SequenceWithout
<1>8. \A j \in 1 .. Len(waiting) - 1 :
        /\ Place(i, j) \in DOMAIN waiting /\ Place(i, j) # i
        /\ SentFrom(i)[j] = w[Place(i, j)]
  BY <1>1, <1>6, <1>7 DEF Place
<1>9. QED
  BY <1>3, <1>6, <1>7, <1>8

LEMMA SendStatusKeepsReports ==
  ASSUME ReportsInv, NEW t \in ReportingThreads, SendStatus(t) PROVE ReportsInv'
<1>1. PICK i \in DOMAIN waiting :
        /\ waiting[i].thread = t
        /\ waiting' = SentFrom(i)
        /\ toMaster' = Append(toMaster, waiting[i].status)
  BY DEF SendStatus
<1> DEFINE to == AfterStatus(t)
<1>2. /\ Len(toMaster) < MaxUnread /\ thread' = [thread EXCEPT ![t] = to]
      /\ UNCHANGED <<size, reserved, sent, toWorker, belief, tasks, transfers, batches, linked, unreported>>
  BY DEF SendStatus, queueVars, knownVars, boundVars, linkState
<1>3. to \in {"result", "idle"} /\ to \in ThreadSteps /\ to \notin Telling
  BY ReportsFacts DEF AfterStatus, ThreadSteps
<1> HIDE DEF to
<1>4. Reads(t) /\ thread[t] \in Telling
  BY <1>1 DEF Reads, ReportsInv, ReportTypeOK
<1>5. /\ thread' \in [ReportingThreads -> ThreadSteps] /\ thread'[t] = to
      /\ \A u \in ReportingThreads \ {t} : thread'[u] = thread[u]
  BY <1>2, <1>3 DEF ReportsInv, MonitorKnows
<1>6. /\ waiting \in Seq(Snapshots) /\ DOMAIN waiting = 1 .. Len(waiting) /\ Len(waiting) \in Nat
      /\ toMaster \in Seq(Statuses) /\ Len(toMaster) \in Nat
      /\ MaxUnread \in Int
  BY LenProperties, ReportsAssumption DEF ReportsInv, ReportTypeOK, ReportsAssumption, Snapshots
<1>7. waiting[i].status \in Statuses
  <2>1. waiting[i] \in Snapshots
    BY <1>6, ElementOfSeq
  <2>2. QED
    BY <2>1 DEF Snapshots
<1>8. /\ toMaster' \in Seq(Statuses) /\ Len(toMaster') = Len(toMaster) + 1
      /\ toMaster' # <<>> /\ toMaster'[Len(toMaster')] = waiting[i].status
  BY <1>1, <1>6, <1>7, AppendProperties
<1>9. /\ waiting' \in Seq(Snapshots) /\ DOMAIN waiting' = 1 .. Len(waiting) - 1
      /\ Len(waiting') = Len(waiting) - 1
  BY <1>1, SentFromEffect
<1>10. \A j \in DOMAIN waiting' :
         /\ Place(i, j) \in DOMAIN waiting /\ Place(i, j) # i
         /\ waiting'[j].thread = waiting[Place(i, j)].thread
         /\ Place(i, j) < i => waiting'[j].status.overtaken
         /\ Place(i, j) > i => waiting'[j].status = waiting[Place(i, j)].status
  BY <1>1, <1>9, SentFromEffect
<1>11. /\ \A j, k \in DOMAIN waiting' : Place(i, j) = Place(i, k) => j = k
       /\ \A k \in DOMAIN waiting \ {i} : \E j \in DOMAIN waiting' : Place(i, j) = k
  <2>1. \A j, k \in DOMAIN waiting' : Place(i, j) = Place(i, k) => j = k
    BY <1>6, <1>9 DEF Place
  <2>2. ASSUME NEW k \in DOMAIN waiting \ {i} PROVE \E j \in DOMAIN waiting' : Place(i, j) = k
    <3>1. CASE k < i
      BY <1>6, <1>9, <2>2, <3>1 DEF Place
    <3>2. CASE k > i
      <4>1. k - 1 \in DOMAIN waiting' /\ Place(i, k - 1) = k
        BY <1>6, <1>9, <2>2, <3>2 DEF Place
      <4>2. QED
        BY <4>1
    <3>3. QED
      BY <1>6, <2>2, <3>1, <3>2
  <2>3. QED
    BY <2>1, <2>2
<1>12. \A u \in ReportingThreads : Reads(u)' => Reads(u) /\ u # t
  <2> TAKE u \in ReportingThreads
  <2>1. SUFFICES ASSUME Reads(u)' PROVE Reads(u) /\ u # t
    OBVIOUS
  <2>2. PICK j \in DOMAIN waiting' : waiting'[j].thread = u
    BY <2>1 DEF Reads
  <2>3. /\ Place(i, j) \in DOMAIN waiting /\ Place(i, j) # i
        /\ waiting[Place(i, j)].thread = u
    BY <1>10, <2>2
  <2>4. QED
    BY <1>1, <2>3 DEF Reads, ReportsInv, ReportTypeOK
<1>13. \A u \in ReportingThreads \ {t} : Reads(u) => Reads(u)'
  <2> TAKE u \in ReportingThreads \ {t}
  <2>1. SUFFICES ASSUME Reads(u) PROVE Reads(u)'
    OBVIOUS
  <2>2. PICK k \in DOMAIN waiting : waiting[k].thread = u
    BY <2>1 DEF Reads
  <2>3. PICK j \in DOMAIN waiting' : Place(i, j) = k
    BY <1>1, <1>11, <2>2
  <2>4. waiting'[j].thread = u
    BY <1>10, <2>2, <2>3
  <2>5. QED
    BY <2>4 DEF Reads
<1>14. ReportTypeOK'
  <2>1. \A j, k \in DOMAIN waiting' : waiting'[j].thread = waiting'[k].thread => j = k
    BY <1>10, <1>11 DEF ReportsInv, ReportTypeOK
  <2>2. \A u \in ReportingThreads : Reads(u)' => thread'[u] \in Telling
    BY <1>5, <1>12 DEF ReportsInv, ReportTypeOK
  <2>3. Len(toMaster') <= MaxUnread
    BY <1>2, <1>6, <1>8
  <2>4. QED
    BY <1>2, <1>8, <1>9, <2>1, <2>2, <2>3 DEF ReportsInv, ReportTypeOK, Snapshots
<1>15. MonitorKnows'
  <2>1. "monitor" \in ReportingThreads
    BY ReportsFacts
  <2>2. CASE t = "monitor"
    <3>1. thread["monitor"] \notin {"ask", "wait", "confirm", "record"}
      BY <1>4, <2>2, ReportsFacts
    <3>2. thread'["monitor"] \notin {"ask", "wait", "confirm", "record"}
      BY <1>3, <1>5, <2>2
    <3>3. QED
      BY <1>2, <1>5, <3>1, <3>2 DEF ReportsInv, MonitorKnows
  <2>3. CASE t # "monitor"
    BY <1>2, <1>5, <2>1, <2>3 DEF ReportsInv, MonitorKnows
  <2>4. QED
    BY <2>2, <2>3
<1>16. NoneDue' => NoneDue
  <2>1. ~ Due(t)
    BY <1>4, ReportsFacts DEF Due
  <2>2. \A u \in ReportingThreads \ {t} : Due(u) => Due(u)'
    BY <1>5, <1>12 DEF Due
  <2>3. QED
    BY <2>1, <2>2 DEF NoneDue
<1>17. NewestIsRight'
  <2>1. SUFFICES ASSUME ~ unreported, NoneDue'
                 PROVE  /\ waiting' # <<>> =>
                             SnapshotIsRight(waiting'[Len(waiting')].status)
                        /\ waiting' = <<>> =>
                             SnapshotIsRight(toMaster'[Len(toMaster')])
    BY <1>2, <1>8 DEF NewestIsRight, SnapshotIsRight
  <2>2. SnapshotIsRight(waiting[Len(waiting)].status)
    BY <1>6, <1>16, <2>1 DEF ReportsInv, NewestIsRight
  <2>3. CASE waiting' # <<>>
    <3>1. Len(waiting') \in DOMAIN waiting' /\ Len(waiting') # 0
      BY <1>9, <2>3, LenProperties, EmptySeq
    <3>2. CASE i = Len(waiting)
      <4>1. Place(i, Len(waiting')) < i
        BY <1>6, <1>9, <3>1, <3>2 DEF Place
      <4>2. QED
        BY <1>10, <2>3, <3>1, <4>1 DEF SnapshotIsRight
    <3>3. CASE i # Len(waiting)
      <4>1. Place(i, Len(waiting')) = Len(waiting) /\ Place(i, Len(waiting')) > i
        <5>1. i \in 1 .. Len(waiting) /\ Len(waiting') = Len(waiting) - 1
          BY <1>6, <1>9
        <5>2. ~ (Len(waiting') < i)
          BY <1>6, <3>3, <5>1
        <5>3. QED
          BY <1>6, <3>3, <5>1, <5>2 DEF Place
      <4>2. QED
        BY <1>10, <2>2, <2>3, <3>1, <4>1
    <3>4. QED
      BY <3>2, <3>3
  <2>4. CASE waiting' = <<>>
    <3>1. i = Len(waiting)
      BY <1>6, <1>9, <2>4
    <3>2. QED
      BY <1>8, <2>2, <2>4, <3>1
  <2>5. QED
    BY <2>3, <2>4
<1>18. ReadOnlyWhenLinked'
  <2>1. waiting # <<>>
    BY <1>6, EmptySeq
  <2>2. QED
    BY <1>2, <2>1 DEF ReportsInv, ReadOnlyWhenLinked
<1>19. QED
  BY <1>14, <1>15, <1>17, <1>18 DEF ReportsInv

LEMMA AssignTaskKeepsReports ==
  ASSUME ReportsInv, AssignTask PROVE ReportsInv'
<1>1. /\ tasks < MaxTasks /\ tasks' = tasks + 1 /\ toWorker' = toWorker + 1
      /\ belief.size < Capacity /\ belief' = [belief EXCEPT !.size = @ + 1]
      /\ UNCHANGED <<size, reserved, sent, thread, waiting, toMaster, transfers, batches,
                     linked, unreported>>
  BY DEF AssignTask, queueVars, boundVars, linkState
<1>2. belief \in Statuses /\ tasks \in 0 .. MaxTasks /\ toWorker \in 0 .. tasks
      /\ MaxTasks \in Nat /\ Capacity \in Nat /\ size \in Nat
  BY ReportsFacts, ReportsAssumption DEF ReportsInv, ReportTypeOK, ReportsAssumption
<1>3. /\ belief' \in Statuses
      /\ belief'.size = belief.size + 1 /\ belief'.overtaken = belief.overtaken
      /\ belief.size \in Nat
  BY <1>1, <1>2 DEF Statuses
<1>4. tasks' \in 0 .. MaxTasks /\ toWorker' \in 0 .. tasks'
  BY <1>1, <1>2
<1>5. \A u \in ReportingThreads : Reads(u)' <=> Reads(u)
  BY <1>1 DEF Reads
<1>6. ReportTypeOK'
  BY <1>1, <1>3, <1>4, <1>5 DEF ReportsInv, ReportTypeOK
<1>7. NoneDue' <=> NoneDue
  BY <1>1, <1>5 DEF NoneDue, Due
<1>8. ASSUME ~ unreported, NoneDue, waiting = <<>>, toMaster = <<>>, ~ belief.overtaken
      PROVE  size <= belief'.size /\ belief'.size <= size + toWorker'
  <2>1. size <= belief.size /\ belief.size <= size + toWorker
    BY <1>8 DEF ReportsInv, NewestIsRight
  <2>2. QED
    BY <1>1, <1>2, <1>3, <2>1
<1>9. NewestIsRight'
  BY <1>1, <1>3, <1>7, <1>8 DEF ReportsInv, NewestIsRight, SnapshotIsRight
<1>10. QED
  BY <1>1, <1>6, <1>9 DEF ReportsInv, MonitorKnows, ReadOnlyWhenLinked

(* What the master believes after it has read a status. *)
LEMMA HandleStatusEffect ==
  ASSUME ReportsInv, HandleStatus
  PROVE  /\ toMaster # <<>> /\ Head(toMaster) \in Statuses
         /\ belief' \in Statuses
         /\ belief'.size = Head(toMaster).size
         /\ belief'.overtaken = Head(toMaster).overtaken
         /\ toMaster' = Tail(toMaster)
         /\ UNCHANGED <<size, reserved, sent, thread, waiting, toWorker, tasks,
                        transfers, batches, linked, unreported>>
<1> DEFINE s == Head(toMaster)
<1>1. /\ toMaster # <<>> /\ toMaster' = Tail(toMaster)
      /\ belief' = Merged(s)
      /\ UNCHANGED <<size, reserved, sent, thread, waiting, toWorker, tasks, transfers, batches, linked, unreported>>
  BY DEF HandleStatus, queueVars, boundVars, linkState
<1>2. toMaster \in Seq(Statuses) /\ belief \in Statuses
  BY DEF ReportsInv, ReportTypeOK
<1>3. s \in Statuses
  BY <1>1, <1>2, HeadTailProperties
<1> HIDE DEF s
<1>4. belief' = [s EXCEPT !.sent = IF s.sent < belief.sent THEN belief.sent ELSE s.sent]
  BY <1>1 DEF Merged, Larger
<1>5. s.sent \in Nat /\ belief.sent \in Nat
  BY <1>2, <1>3 DEF Statuses
<1>6. /\ belief' \in Statuses
      /\ belief'.size = s.size /\ belief'.overtaken = s.overtaken
  BY <1>3, <1>4, <1>5 DEF Statuses
<1>7. QED
  BY <1>1, <1>3, <1>6 DEF s

LEMMA HandleStatusKeepsReports ==
  ASSUME ReportsInv, HandleStatus PROVE ReportsInv'
<1>1. /\ toMaster # <<>> /\ Head(toMaster) \in Statuses
      /\ belief' \in Statuses
      /\ belief'.size = Head(toMaster).size
      /\ belief'.overtaken = Head(toMaster).overtaken
      /\ toMaster' = Tail(toMaster)
      /\ UNCHANGED <<size, reserved, sent, thread, waiting, toWorker, tasks, transfers, batches, linked, unreported>>
  BY HandleStatusEffect
<1>2. /\ toMaster \in Seq(Statuses) /\ Len(toMaster) \in Nat /\ MaxUnread \in Nat
      /\ Len(toMaster) <= MaxUnread
  BY LenProperties, ReportsAssumption DEF ReportsInv, ReportTypeOK, ReportsAssumption
<1>3. /\ toMaster' \in Seq(Statuses) /\ Len(toMaster') = Len(toMaster) - 1
      /\ Head(toMaster) = toMaster[1]
      /\ \A i \in 1 .. Len(toMaster) - 1 : toMaster'[i] = toMaster[i + 1]
  BY <1>1, <1>2, HeadTailProperties
<1>4. \A u \in ReportingThreads : Reads(u)' <=> Reads(u)
  BY <1>1 DEF Reads
<1>5. ReportTypeOK'
  <2>1. Len(toMaster') <= MaxUnread
    BY <1>2, <1>3
  <2>2. QED
    BY <1>1, <1>3, <1>4, <2>1 DEF ReportsInv, ReportTypeOK
<1>6. NoneDue' <=> NoneDue
  BY <1>1, <1>4 DEF NoneDue, Due
<1>7. ASSUME ~ unreported, NoneDue, waiting = <<>> PROVE SnapshotIsRight(toMaster[Len(toMaster)])
  BY <1>1, <1>7 DEF ReportsInv, NewestIsRight
<1>8. ASSUME NoneDue, waiting = <<>>, toMaster' # <<>>
      PROVE  toMaster'[Len(toMaster')] = toMaster[Len(toMaster)]
  <2>1. Len(toMaster') # 0 /\ Len(toMaster') \in Nat
    BY <1>3, <1>8, EmptySeq, LenProperties
  <2>2. QED
    BY <1>2, <1>3, <2>1
<1>9. ASSUME ~ unreported, NoneDue, waiting = <<>>, toMaster' = <<>>, ~ belief'.overtaken
      PROVE  size <= belief'.size /\ belief'.size <= size + toWorker
  <2>1. Len(toMaster') = 0
    BY <1>9
  <2>2. Head(toMaster) = toMaster[Len(toMaster)]
    <3>1. Len(toMaster) = 1
      BY <1>2, <1>3, <2>1
    <3>2. QED
      BY <1>3, <3>1
  <2>3. belief'.size = size
    BY <1>1, <1>7, <1>9, <2>2 DEF SnapshotIsRight
  <2>4. QED
    BY <2>3, ReportsFacts
<1>10. NewestIsRight'
  <2>1. ~ unreported' /\ waiting' # <<>> /\ NoneDue' => SnapshotIsRight(waiting[Len(waiting)].status)
    BY <1>1, <1>6 DEF ReportsInv, NewestIsRight
  <2>2. QED
    BY <1>1, <1>6, <1>7, <1>8, <1>9, <2>1 DEF NewestIsRight, SnapshotIsRight
<1>11. QED
  BY <1>1, <1>5, <1>10 DEF ReportsInv, MonitorKnows, ReadOnlyWhenLinked

LEMMA ReportsInvNext == ReportsInv /\ [ReportNext]_reportVars => ReportsInv'
<1>1. SUFFICES ASSUME ReportsInv, [ReportNext]_reportVars PROVE ReportsInv'
  OBVIOUS
<1>2. ASSUME NEW t \in ReportingThreads, Reporting(t) PROVE ReportsInv'
  BY <1>1, <1>2, ReadSnapshotKeepsReports, SendStatusKeepsReports,
     SkipStatusKeepsReports DEF Reporting
<1>3. /\ {"receiver", "processor", "monitor", "server"} \subseteq ReportingThreads
      /\ "idle" \in ThreadSteps /\ "report" \in ThreadSteps
  BY DEF ReportingThreads, ThreadSteps
<1>4. CASE Receiver
  <2>1. CASE SendResult("receiver", "refuse", "idle")
    BY <1>1, <1>3, <2>1, SendResultKeepsReports
  <2>2. QED
    BY <1>1, <1>2, <1>3, <1>4, <2>1, HandleTaskKeepsReports, IgnoreDuplicateKeepsReports
    DEF Receiver
<1>5. CASE Processor
  <2>1. CASE SendResult("processor", "result", "report")
    BY <1>1, <1>3, <2>1, SendResultKeepsReports
  <2>2. QED
    BY <1>1, <1>2, <1>3, <1>5, <2>1, DequeueKeepsReports DEF Processor
<1>6. CASE Monitor
  BY <1>1, <1>2, <1>3, <1>6, NoticeKeepsReports, FindNothingKeepsReports, ReserveKeepsReports, AnsweredKeepsReports,
     ConfirmKeepsReports, RecordTransferKeepsReports DEF Monitor
<1>7. CASE UNCHANGED reportVars
  <2>1. UNCHANGED <<size, reserved, sent, thread, waiting, toMaster, toWorker, belief, tasks,
                    transfers, batches, linked, unreported>>
    BY <1>7 DEF reportVars, queueVars, knownVars, boundVars, linkState
  <2>2. \A u \in ReportingThreads : (Reads(u)' <=> Reads(u)) /\ (Due(u)' <=> Due(u))
    BY <2>1 DEF Reads, Due
  <2>3. ReportTypeOK'
    BY <1>1, <2>1, <2>2 DEF ReportsInv, ReportTypeOK
  <2>4. NewestIsRight'
    BY <1>1, <2>1, <2>2 DEF ReportsInv, NewestIsRight, NoneDue, SnapshotIsRight
  <2>5. QED
    BY <1>1, <2>1, <2>3, <2>4 DEF ReportsInv, MonitorKnows, ReadOnlyWhenLinked
<1>8. QED
  BY <1>1, <1>2, <1>3, <1>4, <1>5, <1>6, <1>7, LinkUpKeepsReports, AdmitKeepsReports,
     AssignTaskKeepsReports, HandleStatusKeepsReports DEF ReportNext

LEMMA ReportsInvHolds == ReportSpec => []ReportsInv
BY ReportsInvInit, ReportsInvNext, PTL DEF ReportSpec

-----------------------------------------------------------------------------
(* Types: a thread has at most one snapshot waiting, tasks are held only    *)
(* out of those the queue has, and no total counts a transfer that did not  *)
(* begin (_send_queue_status, reserve_for_transfer, record_transfer_sent).  *)
THEOREM ReportTypesHold == ReportSpec => []ReportTypeOK
<1>1. ReportsInv => ReportTypeOK
  BY DEF ReportsInv
<1>2. QED
  BY <1>1, ReportsInvHolds, PTL

(* Once a worker is quiet the master knows the size of its queue, unless    *)
(* the last status to arrive was overtaken between its snapshot and the     *)
(* send lock, the ACK of a batch could not be written, or there was no      *)
(* socket yet to send the status on (_send_queue_status,                    *)
(* _handle_connection, _next_assignment_locked).                            *)
THEOREM QuietSizesAreKnown == ReportSpec => []SizeKnownWhenQuiet
<1>1. ReportsInv => SizeKnownWhenQuiet
  <2>1. SUFFICES ASSUME ReportsInv, Quiet, ~ belief.overtaken, ~ unreported
                 PROVE  belief.size = size
    BY DEF SizeKnownWhenQuiet
  <2>2. /\ toWorker = 0 /\ toMaster = <<>>
        /\ \A t \in ReportingThreads : thread[t] \notin Telling \cup {"confirm", "record"}
    BY <2>1 DEF Quiet
  <2>3. NoneDue
    BY <2>2 DEF NoneDue, Due
  <2>4. waiting = <<>>
    <3>1. SUFFICES ASSUME waiting # <<>> PROVE FALSE
      OBVIOUS
    <3>2. waiting \in Seq(Snapshots) /\ waiting[1] \in Snapshots /\ 1 \in DOMAIN waiting
      <4>1. waiting \in Seq(Snapshots)
        BY <2>1 DEF ReportsInv, ReportTypeOK, Snapshots
      <4>2. 1 \in 1 .. Len(waiting) /\ DOMAIN waiting = 1 .. Len(waiting)
        BY <3>1, <4>1, EmptySeq, LenProperties
      <4>3. QED
        BY <4>1, <4>2, ElementOfSeq
    <3>3. waiting[1].thread \in ReportingThreads /\ Reads(waiting[1].thread)
      BY <3>2 DEF Snapshots, Reads
    <3>4. QED
      BY <2>1, <2>2, <3>3 DEF ReportsInv, ReportTypeOK
  <2>5. size <= belief.size /\ belief.size <= size + toWorker
    BY <2>1, <2>2, <2>3, <2>4 DEF ReportsInv, NewestIsRight
  <2>6. belief.size \in Int /\ size \in Int
    BY <2>1, ReportsFacts DEF ReportsInv, ReportTypeOK, Statuses
  <2>7. QED
    BY <2>2, <2>5, <2>6
<1>2. QED
  BY <1>1, ReportsInvHolds, PTL

-----------------------------------------------------------------------------
(***************************************************************************)
(* A worker's connection, in one direction, for any number of senders, any *)
(* size of headers and frames, and any bounds on messages and time.        *)
(***************************************************************************)
FrameBytes == Nat \X Nat
FrameLength(fs, n) == HeaderBytes + fs[n].size

\* What is left of the frame after the i-th byte of s.
Left(s, fs, i) == FrameLength(fs, s[i][1]) - s[i][2]

\* The bytes of s follow each other in the frames fs.
InFrames(s, fs) ==
  /\ s \in Seq(FrameBytes)
  /\ \A i \in 1 .. Len(s) :
       s[i][1] \in 1 .. Len(fs) /\ s[i][2] \in 1 .. FrameLength(fs, s[i][1])
  /\ \A i, j \in 1 .. Len(s) : i < j =>
       /\ j - i <= Left(s, fs, i) => s[j] = <<s[i][1], s[i][2] + (j - i)>>
       /\ j - i = Left(s, fs, i) + 1 => s[j] = <<s[i][1] + 1, 1>>

\* What was written or is being written, and has not arrived.
Pending == IF broken \/ lock = Free THEN <<>> ELSE unwritten[lock]
Coming  == wire \o Pending
Stream  == got \o Coming

NextByte ==
  <<Len(received) + 1, IF reader = "header" THEN 1 ELSE HeaderBytes + 1>>

(***************************************************************************)
(* Between what was received and what was sent there are the bytes of the  *)
(* frames in between: got, on the wire, or unwritten.  Only a break takes  *)
(* away from their end.                                                    *)
(***************************************************************************)
StreamIsRight ==
  /\ InFrames(Stream, frames)
  /\ Reading /\ Stream # <<>> => Stream[1] = NextByte
  /\ reader = "payload" =>
       Len(received) < Len(frames) /\ announced = frames[Len(received) + 1].size
  /\ ~ broken /\ Stream # <<>> =>
       Stream[Len(Stream)] = <<Len(frames), FrameLength(frames, Len(frames))>>
  /\ ~ broken /\ Stream = <<>> => reader = "header" /\ Len(received) = Len(frames)
  /\ reader = "raised" => broken

ReceivedAsSent ==
  /\ Len(received) <= Len(frames)
  /\ \A i \in 1 .. Len(received) : received[i] = frames[i]

LockIsHeld ==
  /\ \A s \in Senders : step[s] # "idle" <=> lock = s
  /\ \A s \in Senders : unwritten[s] # <<>> <=> step[s] = "write"

\* A thread that holds the lock and has moved the clock is ahead of all frames.
TimesIncrease ==
  /\ \A i \in 1 .. Len(frames) : frames[i].clock <= clock
  /\ \A i, j \in 1 .. Len(frames) : i < j => frames[i].clock < frames[j].clock
  /\ \A s \in Senders : step[s] = "encode" =>
       \A i \in 1 .. Len(frames) : frames[i].clock < clock

FramingInv ==
  /\ FrameTypeOK
  /\ LockIsHeld
  /\ StreamIsRight
  /\ ReceivedAsSent
  /\ TimesIncrease

-----------------------------------------------------------------------------
(* Pieces of a stream.                                                     *)

(* A piece of a sequence. *)
LEMMA PieceOf ==
  ASSUME NEW S, NEW s \in Seq(S), NEW a \in 1 .. Len(s) + 1, NEW b \in a - 1 .. Len(s)
  PROVE  /\ SubSeq(s, a, b) \in Seq(S)
         /\ Len(SubSeq(s, a, b)) = b - a + 1
         /\ \A i \in 1 .. b - a + 1 : SubSeq(s, a, b)[i] = s[a + i - 1]
<1> DEFINE r == SubSeq(s, a, b)
<1>1. Len(s) \in Nat /\ a \in Int /\ b \in Int
  BY LenProperties
<1>2. \A i \in a .. b : s[i] \in S
  BY <1>1, ElementOfSeq
<1> HIDE DEF r
<1>3. /\ r \in Seq(S) /\ Len(r) = IF a <= b THEN b - a + 1 ELSE 0
      /\ \A i \in 1 .. b - a + 1 : r[i] = s[a + i - 1]
  BY <1>1, <1>2, SubSeqProperties DEF r
<1>4. Len(r) = b - a + 1
  BY <1>1, <1>3
<1>5. QED
  BY <1>3, <1>4 DEF r

LEMMA PieceInFrames ==
  ASSUME NEW fs, NEW s, InFrames(s, fs), NEW a \in 1 .. Len(s) + 1, NEW b \in a - 1 .. Len(s)
  PROVE  InFrames(SubSeq(s, a, b), fs)
<1> DEFINE r == SubSeq(s, a, b)
<1>1. s \in Seq(FrameBytes) /\ Len(s) \in Nat /\ a \in Int /\ b \in Int
  BY LenProperties DEF InFrames
<1>2. /\ r \in Seq(FrameBytes) /\ Len(r) = b - a + 1
      /\ \A i \in 1 .. b - a + 1 : r[i] = s[a + i - 1]
  BY <1>1, PieceOf
<1> HIDE DEF r
<1>3. \A i \in 1 .. Len(r) : a + i - 1 \in 1 .. Len(s) /\ r[i] = s[a + i - 1]
  BY <1>1, <1>2
<1>4. \A i, j \in 1 .. Len(r) : i < j =>
        /\ a + i - 1 < a + j - 1 /\ (a + j - 1) - (a + i - 1) = j - i
  BY <1>1, <1>2
<1>5. \A i \in 1 .. Len(r) : Left(r, fs, i) = Left(s, fs, a + i - 1)
  BY <1>3 DEF Left
<1>6. \A i \in 1 .. Len(r) :
        r[i][1] \in 1 .. Len(fs) /\ r[i][2] \in 1 .. FrameLength(fs, r[i][1])
  BY <1>3 DEF InFrames
<1>7. ASSUME NEW i \in 1 .. Len(r), NEW j \in 1 .. Len(r), i < j
      PROVE  /\ j - i <= Left(r, fs, i) => r[j] = <<r[i][1], r[i][2] + (j - i)>>
             /\ j - i = Left(r, fs, i) + 1 => r[j] = <<r[i][1] + 1, 1>>
  <2> DEFINE x == a + i - 1
             y == a + j - 1
  <2>1. x \in 1 .. Len(s) /\ y \in 1 .. Len(s) /\ x < y /\ y - x = j - i
        /\ r[i] = s[x] /\ r[j] = s[y] /\ Left(r, fs, i) = Left(s, fs, x)
    BY <1>3, <1>4, <1>5, <1>7
  <2> HIDE DEF x, y
  <2>2. /\ y - x <= Left(s, fs, x) => s[y] = <<s[x][1], s[x][2] + (y - x)>>
        /\ y - x = Left(s, fs, x) + 1 => s[y] = <<s[x][1] + 1, 1>>
    BY <2>1 DEF InFrames
  <2>3. QED
    BY <2>1, <2>2
<1>8. InFrames(r, fs)
  BY <1>2, <1>6, <1>7 DEF InFrames
<1>9. QED
  BY <1>8 DEF r

(* A new frame comes after the last byte of the last one. *)
LEMMA FrameAppended ==
  ASSUME NEW s, NEW fs \in Seq(Message), InFrames(s, fs), HeaderBytes \in Nat \ {0},
         NEW m \in Message, m.size \in Nat, NEW new \in Seq(FrameBytes),
         Len(new) = HeaderBytes + m.size,
         \A i \in 1 .. Len(new) : new[i] = <<Len(fs) + 1, i>>,
         \A i \in 1 .. Len(fs) : fs[i].size \in Nat,
         s # <<>> => s[Len(s)] = <<Len(fs), FrameLength(fs, Len(fs))>>
  PROVE  /\ InFrames(s \o new, Append(fs, m))
         /\ (s \o new)[Len(s \o new)] =
              <<Len(fs) + 1, FrameLength(Append(fs, m), Len(fs) + 1)>>
         /\ s = <<>> => (s \o new)[1] = <<Len(fs) + 1, 1>>
         /\ s # <<>> => (s \o new)[1] = s[1]
         /\ s \o new # <<>>
<1> DEFINE r == s \o new
           gs == Append(fs, m)
<1>1. s \in Seq(FrameBytes) /\ Len(s) \in Nat /\ Len(fs) \in Nat /\ Len(new) \in Nat \ {0}
  BY LenProperties DEF InFrames
<1>2. /\ r \in Seq(FrameBytes) /\ Len(r) = Len(s) + Len(new)
      /\ \A i \in 1 .. Len(s) + Len(new) :
           r[i] = IF i <= Len(s) THEN s[i] ELSE new[i - Len(s)]
  BY <1>1, ConcatProperties
<1>3. /\ Len(gs) = Len(fs) + 1 /\ gs[Len(fs) + 1] = m
      /\ \A i \in 1 .. Len(fs) : gs[i] = fs[i]
  BY AppendProperties
<1> HIDE DEF r, gs
<1>4. /\ \A i \in 1 .. Len(s) : i \in 1 .. Len(r) /\ r[i] = s[i]
      /\ \A i \in 1 .. Len(new) : Len(s) + i \in 1 .. Len(r) /\ r[Len(s) + i] = <<Len(fs) + 1, i>>
  <2>1. \A i \in 1 .. Len(s) : i \in 1 .. Len(r) /\ r[i] = s[i]
    <3>1. \A i \in 1 .. Len(s) : i \in 1 .. Len(s) + Len(new) /\ i <= Len(s)
      BY ONLY <1>1
    <3>2. QED
      BY ONLY <1>2, <3>1
  <2>2. ASSUME NEW i \in 1 .. Len(new)
        PROVE  Len(s) + i \in 1 .. Len(r) /\ r[Len(s) + i] = <<Len(fs) + 1, i>>
    <3>1. /\ Len(s) + i \in 1 .. Len(s) + Len(new)
          /\ ~ (Len(s) + i <= Len(s)) /\ (Len(s) + i) - Len(s) = i
      BY <1>1
    <3>2. QED
      BY <1>2, <3>1
  <2>3. QED
    BY <2>1, <2>2
<1>5. /\ \A n \in 1 .. Len(fs) :
           FrameLength(gs, n) = FrameLength(fs, n) /\ FrameLength(fs, n) \in Nat
      /\ FrameLength(gs, Len(fs) + 1) = Len(new)
  BY <1>3 DEF FrameLength
<1>6. \A j \in 1 .. Len(r) : j \in 1 .. Len(s) \/ \E i \in 1 .. Len(new) : j = Len(s) + i
  <2> TAKE j \in 1 .. Len(r)
  <2>1. CASE j <= Len(s)
    BY <1>1, <1>2, <2>1
  <2>2. CASE j > Len(s)
    <3>1. j \in Int /\ j <= Len(s) + Len(new)
      BY <1>1, <1>2
    <3>2. j - Len(s) \in 1 .. Len(new) /\ j = Len(s) + (j - Len(s))
      BY <1>1, <2>2, <3>1
    <3>3. QED
      BY <3>2
  <2>3. QED
    BY <1>1, <1>2, <2>1, <2>2
<1>7. \A j \in 1 .. Len(r) : r[j][1] \in 1 .. Len(gs) /\ r[j][2] \in 1 .. FrameLength(gs, r[j][1])
  <2> TAKE j \in 1 .. Len(r)
  <2>1. CASE j \in 1 .. Len(s)
    <3>1. s[j][1] \in 1 .. Len(fs) /\ s[j][2] \in 1 .. FrameLength(fs, s[j][1]) /\ r[j] = s[j]
      BY <1>4, <2>1 DEF InFrames
    <3>2. QED
      BY <1>1, <1>3, <1>5, <3>1
  <2>2. ASSUME NEW i \in 1 .. Len(new), j = Len(s) + i
        PROVE  r[j][1] \in 1 .. Len(gs) /\ r[j][2] \in 1 .. FrameLength(gs, r[j][1])
    <3>1. r[j] = <<Len(fs) + 1, i>>
      BY <1>4, <2>2
    <3>2. QED
      BY <1>1, <1>3, <1>5, <3>1
  <2>3. QED
    BY <1>6, <2>1, <2>2
<1>8. ASSUME NEW i \in 1 .. Len(r), NEW j \in 1 .. Len(r), i < j
      PROVE  /\ j - i <= Left(r, gs, i) => r[j] = <<r[i][1], r[i][2] + (j - i)>>
             /\ j - i = Left(r, gs, i) + 1 => r[j] = <<r[i][1] + 1, 1>>
  <2>1. CASE j \in 1 .. Len(s)
    <3>1. i \in 1 .. Len(s)
      BY <1>1, <1>8, <2>1
    <3>2. Left(r, gs, i) = Left(s, fs, i) /\ r[i] = s[i] /\ r[j] = s[j]
      BY <1>4, <1>5, <2>1, <3>1 DEF Left, InFrames
    <3>3. QED
      BY <1>8, <2>1, <3>1, <3>2 DEF InFrames
  <2>2. ASSUME NEW y \in 1 .. Len(new), j = Len(s) + y, i \in 1 .. Len(s)
        PROVE  /\ j - i <= Left(r, gs, i) => r[j] = <<r[i][1], r[i][2] + (j - i)>>
               /\ j - i = Left(r, gs, i) + 1 => r[j] = <<r[i][1] + 1, 1>>
    <3> DEFINE left == Left(s, fs, i)
    <3>1. /\ Left(r, gs, i) = left /\ r[i] = s[i] /\ r[j] = <<Len(fs) + 1, y>>
          /\ s[i][1] \in 1 .. Len(fs) /\ s[i][2] \in 1 .. FrameLength(fs, s[i][1])
      BY <1>4, <1>5, <2>2 DEF Left, InFrames
    <3>2. left \in Nat /\ left = FrameLength(fs, s[i][1]) - s[i][2]
      <4>1. left = FrameLength(fs, s[i][1]) - s[i][2]
        BY DEF Left
      <4>2. FrameLength(fs, s[i][1]) \in Nat
        BY <1>5, <3>1
      <4> HIDE DEF left
      <4>3. \A N \in Nat : \A k \in 1 .. N : N - k \in Nat
        OBVIOUS
      <4>4. QED
        BY <3>1, <4>1, <4>2, <4>3
    <3> HIDE DEF left
    <3>3. /\ s # <<>> /\ Len(s) \in 1 .. Len(s)
          /\ i \in Nat /\ i <= Len(s) /\ y \in Nat /\ y >= 1 /\ j - i = (Len(s) - i) + y
      <4>1. Len(s) \in Nat \ {0} /\ Len(new) \in Nat
        BY <1>1, <2>2
      <4>2. i \in Nat /\ i <= Len(s) /\ y \in Nat /\ y >= 1 /\ Len(s) \in 1 .. Len(s)
        BY <2>2, <4>1
      <4>3. j - i = (Len(s) - i) + y
        BY <2>2, <4>1, <4>2
      <4>4. s # <<>>
        BY <4>1, EmptySeq
      <4>5. QED
        BY <4>2, <4>3, <4>4
    <3>4. s[Len(s)] = <<Len(fs), FrameLength(fs, Len(fs))>>
      BY <3>3
    <3>5. CASE i = Len(s)
      <4>1. left = 0 /\ s[i][1] = Len(fs)
        BY <1>5, <3>1, <3>2, <3>4, <3>5
      <4>2. QED
        BY <1>1, <2>2, <3>1, <3>5, <4>1
    <3>6. CASE i < Len(s) /\ Len(s) - i <= left
      <4>1. s[Len(s)] = <<s[i][1], s[i][2] + (Len(s) - i)>>
        BY <2>2, <3>3, <3>6 DEF InFrames, left
      <4>2. s[i][1] = Len(fs) /\ s[i][2] + (Len(s) - i) = FrameLength(fs, Len(fs))
        BY <3>4, <4>1
      <4>3. left = Len(s) - i
        BY <1>1, <1>5, <3>1, <3>2, <4>2
      <4>4. QED
        BY <1>1, <2>2, <3>1, <4>2, <4>3
    <3>7. CASE i < Len(s) /\ ~ (Len(s) - i <= left)
      <4>1. \A d, e, h \in Int : ~ (d <= h) /\ e >= 1 => ~ (d + e <= h) /\ d + e # h + 1
        OBVIOUS
      <4>2. Len(s) - i \in Int /\ y \in Int /\ left \in Int /\ y >= 1
        BY <1>1, <3>2, <3>3
      <4>3. ~ (j - i <= left) /\ j - i # left + 1
        BY <3>3, <3>7, <4>1, <4>2
      <4>4. QED
        BY <3>1, <4>3
    <3>8. QED
      <4>1. i = Len(s) \/ i < Len(s)
        BY <1>1, <3>3
      <4>2. QED
        BY <3>5, <3>6, <3>7, <4>1
  <2>3. ASSUME NEW x \in 1 .. Len(new), NEW y \in 1 .. Len(new), i = Len(s) + x, j = Len(s) + y
        PROVE  /\ j - i <= Left(r, gs, i) => r[j] = <<r[i][1], r[i][2] + (j - i)>>
               /\ j - i = Left(r, gs, i) + 1 => r[j] = <<r[i][1] + 1, 1>>
    <3>1. r[i] = <<Len(fs) + 1, x>> /\ r[j] = <<Len(fs) + 1, y>>
      BY <1>4, <2>3
    <3>2. Left(r, gs, i) = Len(new) - x
      BY <1>5, <3>1 DEF Left
    <3>3. j - i = y - x /\ x + (y - x) = y /\ y <= Len(new)
          /\ x \in Int /\ y \in Int /\ Len(new) \in Int
      BY <1>1, <2>3
    <3>4. r[j] = <<r[i][1], r[i][2] + (j - i)>>
      BY <3>1, <3>3
    <3>5. j - i # Left(r, gs, i) + 1
      <4>1. \A a, b, c \in Int : b <= c => b - a # (c - a) + 1
        OBVIOUS
      <4>2. QED
        BY <3>2, <3>3, <4>1
    <3>6. QED
      BY <3>4, <3>5
  <2>4. CASE \E y \in 1 .. Len(new) : j = Len(s) + y
    BY <1>6, <2>2, <2>3, <2>4
  <2>5. QED
    BY <1>6, <2>1, <2>4
<1>9. InFrames(r, gs)
  BY <1>2, <1>7, <1>8 DEF InFrames
<1>10. r[Len(r)] = <<Len(fs) + 1, FrameLength(gs, Len(fs) + 1)>>
  <2>1. Len(new) \in 1 .. Len(new) /\ Len(r) = Len(s) + Len(new)
    BY <1>1, <1>2
  <2>2. QED
    BY <1>4, <1>5, <2>1
<1>11. s = <<>> => r[1] = <<Len(fs) + 1, 1>>
  <2>1. 1 \in 1 .. Len(new)
    BY <1>1
  <2>2. s = <<>> => Len(s) + 1 = 1
    BY EmptySeq
  <2>3. QED
    BY <1>4, <2>1, <2>2
<1>12. s # <<>> => r[1] = s[1]
  <2>1. s # <<>> => 1 \in 1 .. Len(s)
    BY <1>1, EmptySeq
  <2>2. QED
    BY <1>4, <2>1
<1>13. r # <<>>
  BY <1>1, <1>2, EmptySeq
<1>14. QED
  BY <1>9, <1>10, <1>11, <1>12, <1>13 DEF r, gs

(* The first bytes of a stream, up to the end of their frame. *)
LEMMA FirstBytes ==
  ASSUME NEW fs, NEW s, InFrames(s, fs), NEW n \in 1 .. Len(fs), NEW first \in Nat,
         NEW l \in 0 .. Len(s), FrameLength(fs, n) \in Nat, first + l - 1 <= FrameLength(fs, n),
         s # <<>> => s[1] = <<n, first>>
  PROVE  /\ \A i \in 1 .. l : s[i] = <<n, first + i - 1>>
         /\ l < Len(s) /\ l > 0 =>
              s[l + 1] = IF first + l - 1 = FrameLength(fs, n)
                           THEN <<n + 1, 1>> ELSE <<n, first + l>>
<1>1. s \in Seq(FrameBytes) /\ Len(s) \in Nat
  BY LenProperties DEF InFrames
<1>2. SUFFICES ASSUME l > 0
               PROVE  /\ \A i \in 1 .. l : s[i] = <<n, first + i - 1>>
                      /\ l < Len(s) =>
                           s[l + 1] = IF first + l - 1 = FrameLength(fs, n)
                                        THEN <<n + 1, 1>> ELSE <<n, first + l>>
  OBVIOUS
<1>3. s # <<>> /\ 1 \in 1 .. Len(s)
  BY <1>1, <1>2, EmptySeq
<1>4. s[1] = <<n, first>> /\ Left(s, fs, 1) = FrameLength(fs, n) - first
  BY <1>3 DEF Left
<1>5. ASSUME NEW i \in 1 .. l PROVE s[i] = <<n, first + i - 1>>
  <2>1. CASE i = 1
    BY <1>4, <2>1
  <2>2. CASE i # 1
    <3>1. i \in 1 .. Len(s) /\ 1 < i /\ i - 1 <= Left(s, fs, 1)
      BY <1>1, <1>4, <2>2
    <3>2. s[i] = <<s[1][1], s[1][2] + (i - 1)>>
      BY <1>3, <3>1 DEF InFrames
    <3>3. QED
      BY <1>4, <3>2
  <2>3. QED
    BY <2>1, <2>2
<1>6. ASSUME l < Len(s)
      PROVE  s[l + 1] = IF first + l - 1 = FrameLength(fs, n)
                          THEN <<n + 1, 1>> ELSE <<n, first + l>>
  <2>1. l + 1 \in 1 .. Len(s) /\ 1 < l + 1 /\ (l + 1) - 1 = l
    BY <1>1, <1>2, <1>6
  <2>2. CASE first + l - 1 = FrameLength(fs, n)
    <3>1. l = Left(s, fs, 1) + 1
      BY <1>4, <2>2
    <3>2. s[l + 1] = <<s[1][1] + 1, 1>>
      BY <1>3, <2>1, <3>1 DEF InFrames
    <3>3. QED
      BY <1>4, <2>2, <3>2
  <2>3. CASE first + l - 1 # FrameLength(fs, n)
    <3>1. l <= Left(s, fs, 1)
      BY <1>4, <2>3
    <3>2. s[l + 1] = <<s[1][1], s[1][2] + l>>
      BY <1>3, <2>1, <3>1 DEF InFrames
    <3>3. QED
      BY <1>4, <2>3, <3>2
  <2>4. QED
    BY <2>2, <2>3
<1>7. QED
  BY <1>5, <1>6

-----------------------------------------------------------------------------
(* The steps of the sending node.                                          *)

(* Types, for the solver. *)
LEMMA FramingTypes ==
  ASSUME FramingInv
  PROVE  /\ HeaderBytes \in Nat \ {0} /\ MaxFrameBytes \in Nat /\ MaxClock \in Nat
         /\ Free \notin Senders
         /\ clock \in Nat /\ clock <= MaxClock
         /\ lock \in Senders \cup {Free}
         /\ step \in [Senders -> {"idle", "advance", "encode", "write"}]
         /\ frames \in Seq(Message) /\ Len(frames) \in Nat
         /\ unwritten \in [Senders -> Seq(FrameBytes)]
         /\ wire \in Seq(FrameBytes) /\ Len(wire) \in Nat
         /\ got \in Seq(FrameBytes) /\ Len(got) \in Nat
         /\ received \in Seq(Message) /\ Len(received) \in Nat
         /\ announced \in 0 .. MaxFrameBytes
         /\ reader \in {"header", "payload", "raised"}
         /\ broken \in BOOLEAN
BY LenProperties, FramingAssumption DEF FramingInv, FramingAssumption, FrameTypeOK, FrameBytes

LEMMA FrameIsMessage ==
  ASSUME FramingInv, NEW n \in 1 .. Len(frames)
  PROVE  /\ frames[n] \in Message
         /\ frames[n].size \in Nat \ {0} /\ frames[n].size <= MaxFrameBytes
         /\ frames[n].clock \in Nat /\ FrameLength(frames, n) \in Nat
<1>1. frames[n] \in Message
  BY FramingTypes, ElementOfSeq
<1>2. frames[n].size \in 1 .. MaxFrameBytes /\ frames[n].clock \in 0 .. MaxClock
  BY <1>1 DEF Message
<1>3. HeaderBytes \in Nat /\ MaxFrameBytes \in Nat
  BY FramingTypes
<1>4. QED
  BY <1>1, <1>2, <1>3 DEF FrameLength

(* Bytes, one sequence after the other. *)
LEMMA BytesJoined ==
  /\ \A s, t \in Seq(FrameBytes) :
       /\ s \o t \in Seq(FrameBytes) /\ Len(s \o t) = Len(s) + Len(t)
       /\ \A i \in 1 .. Len(s) : (s \o t)[i] = s[i]
  /\ \A s, t, u \in Seq(FrameBytes) : (s \o t) \o u = s \o (t \o u)
<1>1. ASSUME NEW s \in Seq(FrameBytes), NEW t \in Seq(FrameBytes)
      PROVE  /\ s \o t \in Seq(FrameBytes) /\ Len(s \o t) = Len(s) + Len(t)
             /\ \A i \in 1 .. Len(s) : (s \o t)[i] = s[i]
  <2>1. /\ s \o t \in Seq(FrameBytes) /\ Len(s \o t) = Len(s) + Len(t)
        /\ \A i \in 1 .. Len(s) + Len(t) : (s \o t)[i] = IF i <= Len(s) THEN s[i] ELSE t[i - Len(s)]
    BY ConcatProperties
  <2>2. Len(s) \in Nat /\ Len(t) \in Nat
    BY LenProperties
  <2>3. \A i \in 1 .. Len(s) : i \in 1 .. Len(s) + Len(t) /\ i <= Len(s)
    BY <2>2
  <2>4. QED
    BY <2>1, <2>3
<1>2. ASSUME NEW s \in Seq(FrameBytes), NEW t \in Seq(FrameBytes), NEW u \in Seq(FrameBytes)
      PROVE  (s \o t) \o u = s \o (t \o u)
  BY ConcatAssociative
<1>3. QED
  BY <1>1, <1>2

(* The two parts of a sequence of bytes. *)
LEMMA BytesSplit ==
  ASSUME NEW s \in Seq(FrameBytes), NEW n \in 0 .. Len(s)
  PROVE  /\ SubSeq(s, 1, n) \in Seq(FrameBytes) /\ SubSeq(s, n + 1, Len(s)) \in Seq(FrameBytes)
         /\ SubSeq(s, 1, n) \o SubSeq(s, n + 1, Len(s)) = s
         /\ Len(SubSeq(s, 1, n)) = n /\ Len(SubSeq(s, n + 1, Len(s))) = Len(s) - n
<1>1. Len(s) \in Nat
  BY LenProperties
<1>2. /\ 1 \in 1 .. Len(s) + 1 /\ n \in 1 - 1 .. Len(s) /\ n + 1 \in 1 .. Len(s) + 1
      /\ Len(s) \in n .. Len(s) /\ Len(s) \in (n + 1) - 1 .. Len(s)
  BY <1>1
<1>3. /\ SubSeq(s, 1, n) \in Seq(FrameBytes) /\ SubSeq(s, n + 1, Len(s)) \in Seq(FrameBytes)
      /\ Len(SubSeq(s, 1, n)) = n - 1 + 1 /\ Len(SubSeq(s, n + 1, Len(s))) = Len(s) - (n + 1) + 1
  BY <1>2, PieceOf
<1>4. SubSeq(s, 1, n) \o SubSeq(s, n + 1, Len(s)) = SubSeq(s, 1, Len(s))
  BY ONLY <1>2, ConcatAdjacentSubSeq, s \in Seq(FrameBytes)
<1>5. SubSeq(s, 1, Len(s)) = s
  BY SubSeqFull
<1>6. Len(s) - (n + 1) + 1 = Len(s) - n /\ n - 1 + 1 = n
  BY <1>1
<1>7. QED
  BY <1>3, <1>4, <1>5, <1>6

LEMMA StreamTypes ==
  ASSUME FramingInv
  PROVE  /\ Pending \in Seq(FrameBytes) /\ Coming \in Seq(FrameBytes) /\ Stream \in Seq(FrameBytes)
         /\ Len(Stream) = Len(got) + Len(Coming) /\ Len(Coming) = Len(wire) + Len(Pending)
         /\ Len(Pending) \in Nat
         /\ \A i \in 1 .. Len(got) : Stream[i] = got[i]
<1>1. Pending \in Seq(FrameBytes)
  BY FramingTypes, EmptySeq DEF Pending
<1>2. Coming \in Seq(FrameBytes) /\ Len(Coming) = Len(wire) + Len(Pending)
  BY <1>1, FramingTypes, BytesJoined DEF Coming
<1>4. /\ Stream \in Seq(FrameBytes) /\ Len(Stream) = Len(got) + Len(Coming)
      /\ \A i \in 1 .. Len(got) : Stream[i] = got[i]
  BY <1>2, FramingTypes, BytesJoined DEF Stream
<1>5. Len(Pending) \in Nat
  BY <1>1, LenProperties
<1>6. QED
  BY <1>1, <1>2, <1>4, <1>5

(* Bytes that only move on, between the sender and the reader. *)
LEMMA StreamStays ==
  ASSUME FramingInv, Stream' = Stream,
         UNCHANGED <<frames, broken, reader, announced, received>>
  PROVE  StreamIsRight' /\ ReceivedAsSent'
<1>1. Reading' = Reading /\ NextByte' = NextByte
  BY DEF Reading, NextByte
<1>2. InFrames(Stream', frames')
  BY DEF FramingInv, StreamIsRight
<1>3. QED
  BY <1>1, <1>2 DEF FramingInv, StreamIsRight, ReceivedAsSent

(* Time goes on, and who is about to send was already. *)
LEMMA TimesStay ==
  ASSUME FramingInv, UNCHANGED frames, clock' \in Nat, clock' >= clock,
         \A s \in Senders : step'[s] = "encode" =>
           step[s] = "encode" \/ clock' > clock
  PROVE  TimesIncrease'
<1>1. \A i \in 1 .. Len(frames) : frames[i].clock \in Nat
  BY FrameIsMessage
<1>2. clock \in Nat
  BY FramingTypes
<1>3. \A i \in 1 .. Len(frames) : frames[i].clock <= clock'
  BY <1>1, <1>2 DEF FramingInv, TimesIncrease
<1>4. ASSUME NEW s \in Senders, step'[s] = "encode", NEW i \in 1 .. Len(frames)
      PROVE  frames[i].clock < clock'
  <2>1. CASE step[s] = "encode"
    <3>1. frames[i].clock < clock
      BY <1>4, <2>1 DEF FramingInv, TimesIncrease
    <3>2. QED
      BY <1>1, <1>2, <3>1
  <2>2. CASE clock' > clock
    <3>1. frames[i].clock <= clock
      BY DEF FramingInv, TimesIncrease
    <3>2. QED
      BY <1>1, <1>2, <2>2, <3>1
  <2>3. QED
    BY <1>4, <2>1, <2>2
<1>5. QED
  BY <1>3, <1>4 DEF FramingInv, TimesIncrease

(* Who holds the lock, and what it has yet to write. *)
LEMMA HolderOfLock ==
  ASSUME FramingInv, NEW s \in Senders, step[s] # "idle"
  PROVE  /\ lock = s /\ lock # Free
         /\ Pending = IF broken THEN <<>> ELSE unwritten[s]
         /\ \A u \in Senders \ {s} : step[u] = "idle"
BY FramingTypes DEF FramingInv, LockIsHeld, Pending

LEMMA MoveClockKeepsFraming ==
  ASSUME FramingInv, MoveClock PROVE FramingInv'
<1>1. /\ UNCHANGED <<lock, step, frames, unwritten, wire, broken, reader, announced, got, received>>
      /\ clock' <= MaxClock
      /\ clock' = clock + 1 \/ \E remote \in 0 .. MaxClock :
                                 clock' = IF remote > clock THEN remote ELSE clock
  BY DEF MoveClock, readVars, Advanced, Observed
<1>2. clock' \in Nat /\ clock' >= clock
  BY <1>1, FramingTypes
<1>3. FrameTypeOK'
  BY <1>1, <1>2, FramingTypes DEF FramingInv, FrameTypeOK, Reading, Wanted
<1>4. Stream' = Stream
  BY <1>1 DEF Stream, Coming, Pending
<1>5. StreamIsRight' /\ ReceivedAsSent'
  BY <1>1, <1>4, StreamStays
<1>6. TimesIncrease'
  BY <1>1, <1>2, TimesStay
<1>7. QED
  BY <1>1, <1>3, <1>5, <1>6 DEF FramingInv, LockIsHeld

(* A step of a sender that writes nothing. *)
LEMMA SenderKeepsFraming ==
  ASSUME FramingInv, NEW s \in Senders, NEW to \in {"idle", "advance", "encode", "write"},
         step' = [step EXCEPT ![s] = to],
         lock' = IF to = "idle" THEN Free ELSE s, lock = s \/ lock = Free,
         unwritten' \in [Senders -> Seq(FrameBytes)],
         \A u \in Senders \ {s} : unwritten'[u] = unwritten[u],
         unwritten'[s] # <<>> <=> to = "write",
         Stream' = Stream, wire' \in Seq(FrameBytes),
         clock' \in Nat, clock <= clock', clock' <= MaxClock,
         to = "encode" => clock' > clock,
         UNCHANGED <<frames, broken, reader, announced, got, received>>
  PROVE  FramingInv'
<1>1. /\ step' \in [Senders -> {"idle", "advance", "encode", "write"}] /\ step'[s] = to
      /\ \A u \in Senders \ {s} : step'[u] = step[u]
  BY FramingTypes
<1>2. FrameTypeOK'
  BY <1>1, FramingTypes DEF FramingInv, FrameTypeOK, Reading, Wanted, FrameBytes
<1>3. LockIsHeld'
  <2>1. \A u \in Senders \ {s} : step[u] = "idle"
    BY FramingTypes DEF FramingInv, LockIsHeld
  <2>2. \A u \in Senders : step'[u] # "idle" <=> lock' = u
    BY <1>1, <2>1, FramingTypes
  <2>3. \A u \in Senders : unwritten'[u] # <<>> <=> step'[u] = "write"
    BY <1>1 DEF FramingInv, LockIsHeld
  <2>4. QED
    BY <2>2, <2>3 DEF LockIsHeld
<1>4. StreamIsRight' /\ ReceivedAsSent'
  BY StreamStays
<1>5. TimesIncrease'
  <2>1. \A u \in Senders : step'[u] = "encode" => step[u] = "encode" \/ clock' > clock
    BY <1>1
  <2>2. clock' >= clock
    BY FramingTypes
  <2>3. QED
    BY <2>1, <2>2, TimesStay
<1>6. QED
  BY <1>2, <1>3, <1>4, <1>5 DEF FramingInv

LEMMA AcquireKeepsFraming ==
  ASSUME FramingInv, NEW s \in Senders, Acquire(s) PROVE FramingInv'
<1>1. /\ step[s] = "idle" /\ lock = Free /\ lock' = s
      /\ step' = [step EXCEPT ![s] = "advance"]
      /\ UNCHANGED <<clock, frames, unwritten, wire, broken, reader, announced, got, received>>
  BY DEF Acquire, LockIsFree, readVars
<1>2. unwritten[s] = <<>>
  BY <1>1 DEF FramingInv, LockIsHeld
<1>3. Pending' = Pending
  BY <1>1, <1>2 DEF Pending
<1>4. Stream' = Stream
  BY <1>1, <1>3 DEF Stream, Coming
<1>5. /\ clock' \in Nat /\ clock <= clock' /\ clock' <= MaxClock
      /\ wire' \in Seq(FrameBytes) /\ unwritten' \in [Senders -> Seq(FrameBytes)]
      /\ unwritten'[s] = <<>> /\ \A u \in Senders \ {s} : unwritten'[u] = unwritten[u]
  BY <1>1, <1>2, FramingTypes
<1>6. lock' = IF "advance" = "idle" THEN Free ELSE s
  BY <1>1
<1>7. QED
  BY <1>1, <1>4, <1>5, <1>6, SenderKeepsFraming

LEMMA AdvanceClockKeepsFraming ==
  ASSUME FramingInv, NEW s \in Senders, AdvanceClock(s) PROVE FramingInv'
<1>1. /\ step[s] = "advance" /\ clock < MaxClock /\ clock' = clock + 1
      /\ step' = [step EXCEPT ![s] = "encode"]
      /\ UNCHANGED <<lock, frames, unwritten, wire, broken, reader, announced, got, received>>
  BY DEF AdvanceClock, Advanced, readVars
<1>2. lock = s /\ unwritten[s] = <<>>
  BY <1>1, HolderOfLock DEF FramingInv, LockIsHeld
<1>3. Stream' = Stream
  BY <1>1 DEF Stream, Coming, Pending
<1>4. clock' \in Nat /\ clock <= clock' /\ clock' <= MaxClock /\ clock' > clock
  BY <1>1, FramingTypes
<1>5. QED
  BY <1>1, <1>2, <1>3, <1>4, SenderKeepsFraming, FramingTypes

LEMMA WriteFailsKeepsFraming ==
  ASSUME FramingInv, NEW s \in Senders, WriteFails(s) PROVE FramingInv'
<1>1. /\ step[s] = "write" /\ broken /\ lock' = Free
      /\ unwritten' = [unwritten EXCEPT ![s] = <<>>]
      /\ step' = [step EXCEPT ![s] = "idle"]
      /\ UNCHANGED <<clock, frames, wire, broken, reader, announced, got, received>>
  BY DEF WriteFails, Release, readVars
<1>2. lock = s
  BY <1>1, HolderOfLock
<1>3. Stream' = Stream
  BY <1>1 DEF Stream, Coming, Pending
<1>4. /\ unwritten' \in [Senders -> Seq(FrameBytes)] /\ unwritten'[s] = <<>>
      /\ \A u \in Senders \ {s} : unwritten'[u] = unwritten[u]
  BY <1>1, FramingTypes, EmptySeq
<1>5. /\ clock' \in Nat /\ clock <= clock' /\ clock' <= MaxClock
      /\ wire' \in Seq(FrameBytes)
  BY <1>1, FramingTypes
<1>6. lock' = IF "idle" = "idle" THEN Free ELSE s
  BY <1>1
<1>7. QED
  BY <1>1, <1>2, <1>3, <1>4, <1>5, <1>6, SenderKeepsFraming

LEMMA EncodeFailsKeepsFraming ==
  ASSUME FramingInv, NEW s \in Senders, step[s] = "encode", Release(s),
         UNCHANGED <<clock, frames, unwritten, wire, broken, reader, announced, got, received>>
  PROVE  FramingInv'
<1>1. step' = [step EXCEPT ![s] = "idle"] /\ lock' = Free
  BY DEF Release
<1>2. lock = s /\ unwritten[s] = <<>> /\ Pending = <<>>
  BY HolderOfLock DEF FramingInv, LockIsHeld
<1>3. Pending' = Pending
  BY <1>1, <1>2 DEF Pending
<1>4. Stream' = Stream
  BY <1>3 DEF Stream, Coming
<1>5. /\ clock' \in Nat /\ clock <= clock' /\ clock' <= MaxClock
      /\ wire' \in Seq(FrameBytes) /\ unwritten' \in [Senders -> Seq(FrameBytes)]
      /\ unwritten'[s] = <<>> /\ \A u \in Senders \ {s} : unwritten'[u] = unwritten[u]
  BY <1>2, FramingTypes
<1>6. lock' = IF "idle" = "idle" THEN Free ELSE s
  BY <1>1
<1>7. QED
  BY <1>1, <1>2, <1>4, <1>5, <1>6, SenderKeepsFraming

(* What is written leaves the sender and is on the wire. *)
LEMMA WriteKeepsFraming ==
  ASSUME FramingInv, NEW s \in Senders, Write(s) PROVE FramingInv'
<1> DEFINE u == unwritten[s]
<1>1. /\ step[s] = "write" /\ ~ broken
      /\ UNCHANGED <<clock, frames, broken, reader, announced, got, received>>
  BY DEF Write, readVars
<1>2. PICK n \in 1 .. Len(u) :
        /\ wire' = wire \o SubSeq(u, 1, n)
        /\ unwritten' = [unwritten EXCEPT ![s] = SubSeq(u, n + 1, Len(u))]
        /\ IF n = Len(u) THEN Release(s) ELSE UNCHANGED <<lock, step>>
  BY FramingTypes DEF Write
<1>3. lock = s /\ lock # Free /\ Pending = u
  BY <1>1, HolderOfLock
<1>4. u \in Seq(FrameBytes) /\ Len(u) \in Nat
  BY FramingTypes, LenProperties
<1> DEFINE a == SubSeq(u, 1, n)
           b == SubSeq(u, n + 1, Len(u))
<1>5. /\ a \in Seq(FrameBytes) /\ b \in Seq(FrameBytes) /\ a \o b = u /\ Len(b) = Len(u) - n
  <2> HIDE DEF u
  <2>1. n \in 0 .. Len(u)
    BY <1>4
  <2>2. QED
    BY <1>4, <2>1, BytesSplit
<1> HIDE DEF a, b
<1>6. /\ wire' = wire \o a /\ unwritten' = [unwritten EXCEPT ![s] = b]
  BY <1>2 DEF a, b
<1>7. /\ unwritten' \in [Senders -> Seq(FrameBytes)] /\ unwritten'[s] = b
      /\ \A v \in Senders \ {s} : unwritten'[v] = unwritten[v]
  BY <1>5, <1>6, FramingTypes
<1>8. wire' \in Seq(FrameBytes) /\ (wire \o a) \o b = wire \o u
  <2> HIDE DEF u
  <2>1. (wire \o a) \o b = wire \o (a \o b)
    <3>1. wire \in Seq(FrameBytes)
      BY FramingTypes
    <3>2. QED
      BY ONLY <1>5, <3>1, BytesJoined
  <2>2. QED
    BY <1>5, <1>6, <2>1, FramingTypes, BytesJoined
<1>9. b = <<>> <=> n = Len(u)
  BY <1>4, <1>5, EmptySeq
<1>10. Pending' = b
  <2>1. CASE n = Len(u)
    BY <1>2, <1>9, <2>1 DEF Pending, Release
  <2>2. CASE n # Len(u)
    BY <1>1, <1>2, <1>3, <1>7, <2>2 DEF Pending
  <2>3. QED
    BY <2>1, <2>2
<1>11. Stream' = Stream
  BY <1>1, <1>3, <1>6, <1>8, <1>10 DEF Stream, Coming
<1> DEFINE to == IF n = Len(u) THEN "idle" ELSE "write"
<1>12. /\ to \in {"idle", "advance", "encode", "write"}
       /\ step' = [step EXCEPT ![s] = to]
       /\ lock' = IF to = "idle" THEN Free ELSE s
       /\ b # <<>> <=> to = "write"
       /\ to # "encode"
  <2>1. CASE n = Len(u)
    BY <1>2, <1>9, <2>1 DEF Release
  <2>2. CASE n # Len(u)
    BY <1>1, <1>2, <1>3, <1>9, <2>2, FramingTypes
  <2>3. QED
    BY <2>1, <2>2
<1> HIDE DEF to, u
<1>13. clock' \in Nat /\ clock <= clock' /\ clock' <= MaxClock
  BY <1>1, FramingTypes
<1>14. unwritten'[s] # <<>> <=> to = "write"
  BY <1>7, <1>12
<1>15. QED
  BY <1>1, <1>3, <1>7, <1>8, <1>11, <1>12, <1>13, <1>14, SenderKeepsFraming

(* What comes first, and what comes after it. *)
LEMMA PartsInFrames ==
  ASSUME NEW fs, NEW x \in Seq(FrameBytes), NEW y \in Seq(FrameBytes),
         NEW s, s = x \o y, InFrames(s, fs)
  PROVE  /\ InFrames(x, fs) /\ InFrames(y, fs)
         /\ \A i \in 1 .. Len(x) : s[i] = x[i]
         /\ \A i \in 1 .. Len(y) : s[Len(x) + i] = y[i]
         /\ y # <<>> => s[Len(s)] = y[Len(y)]
<1>1. /\ s \in Seq(FrameBytes) /\ Len(s) = Len(x) + Len(y)
      /\ \A i \in 1 .. Len(x) + Len(y) : s[i] = IF i <= Len(x) THEN x[i] ELSE y[i - Len(x)]
  BY ConcatProperties
<1>2. Len(x) \in Nat /\ Len(y) \in Nat
  BY LenProperties
<1>3. \A i \in 1 .. Len(x) : i \in 1 .. Len(x) + Len(y) /\ i <= Len(x)
  BY <1>2
<1>4. \A i \in 1 .. Len(y) : /\ Len(x) + i \in 1 .. Len(x) + Len(y)
                             /\ ~ (Len(x) + i <= Len(x)) /\ (Len(x) + i) - Len(x) = i
  BY <1>2
<1>5. \A i \in 1 .. Len(x) : s[i] = x[i]
  BY <1>1, <1>3
<1>6. \A i \in 1 .. Len(y) : s[Len(x) + i] = y[i]
  BY <1>1, <1>4
<1>7. InFrames(x, fs)
  <2> DEFINE r == SubSeq(s, 1, Len(x))
  <2>1. 1 \in 1 .. Len(s) + 1 /\ Len(x) \in 1 - 1 .. Len(s) /\ Len(x) - 1 + 1 = Len(x)
    BY <1>1, <1>2
  <2>2. r \in Seq(FrameBytes) /\ Len(r) = Len(x) - 1 + 1
        /\ \A i \in 1 .. Len(x) - 1 + 1 : r[i] = s[1 + i - 1]
    BY <1>1, <2>1, PieceOf
  <2>3. InFrames(r, fs)
    BY <2>1, PieceInFrames
  <2> HIDE DEF r
  <2>4. \A i \in 1 .. Len(x) : 1 + i - 1 = i
    BY <1>2
  <2>5. Len(r) = Len(x) /\ \A i \in 1 .. Len(r) : r[i] = x[i]
    BY <1>5, <2>1, <2>2, <2>4
  <2>6. r = x
    BY <2>2, <2>5, SeqEqual
  <2>7. QED
    BY <2>3, <2>6
<1>8. InFrames(y, fs)
  <2> DEFINE a == Len(x) + 1
             r == SubSeq(s, a, Len(s))
  <2>1. /\ a \in 1 .. Len(s) + 1 /\ Len(s) \in a - 1 .. Len(s) /\ Len(s) - a + 1 = Len(y)
        /\ \A i \in 1 .. Len(y) : a + i - 1 = Len(x) + i
    BY <1>1, <1>2
  <2> HIDE DEF a
  <2>2. r \in Seq(FrameBytes) /\ Len(r) = Len(s) - a + 1
        /\ \A i \in 1 .. Len(s) - a + 1 : r[i] = s[a + i - 1]
    BY <1>1, <2>1, PieceOf
  <2>3. InFrames(r, fs)
    BY <2>1, PieceInFrames
  <2> HIDE DEF r
  <2>4. Len(r) = Len(y) /\ \A i \in 1 .. Len(r) : r[i] = y[i]
    BY <1>6, <2>1, <2>2
  <2>5. r = y
    BY <2>2, <2>4, SeqEqual
  <2>6. QED
    BY <2>3, <2>5
<1>9. y # <<>> => s[Len(s)] = y[Len(y)]
  <2>1. y # <<>> => Len(y) \in 1 .. Len(y)
    BY <1>2, EmptySeq
  <2>2. QED
    BY <1>1, <1>6, <2>1
<1>10. QED
  BY <1>5, <1>6, <1>7, <1>8, <1>9

(* The message's bytes follow those of the messages before it. *)
LEMMA EncodeKeepsFraming ==
  ASSUME FramingInv, NEW s \in Senders, step[s] = "encode", ~ broken,
         NEW n \in 1 .. MaxFrameBytes,
         frames' = Append(frames, [from |-> s, size |-> n, clock |-> clock]),
         unwritten' = [unwritten EXCEPT ![s] = Bytes(Len(frames) + 1, 1, HeaderBytes + n)],
         step' = [step EXCEPT ![s] = "write"],
         UNCHANGED <<clock, lock, wire, broken, reader, announced, got, received>>
  PROVE  FramingInv'
<1> DEFINE m   == [from |-> s, size |-> n, clock |-> clock]
           new == Bytes(Len(frames) + 1, 1, HeaderBytes + n)
           before == got \o wire
<1>1. m \in Message /\ m.size = n /\ m.clock = clock /\ n \in Nat \ {0}
  BY FramingTypes DEF Message
<1>2. /\ new \in Seq(FrameBytes) /\ Len(new) = HeaderBytes + n
      /\ \A i \in 1 .. Len(new) : new[i] = <<Len(frames) + 1, i>>
  <2> DEFINE w == HeaderBytes + n
  <2>1. w \in Nat /\ w - 1 + 1 = w /\ \A i \in 1 .. w : 1 + i - 1 = i /\ i \in Nat
    BY <1>1, FramingTypes
  <2> HIDE DEF w
  <2>2. Bytes(Len(frames) + 1, 1, w) = [i \in 1 .. w |-> <<Len(frames) + 1, i>>]
    BY <2>1 DEF Bytes
  <2>3. \A i \in 1 .. w : <<Len(frames) + 1, i>> \in FrameBytes
    BY <2>1, FramingTypes DEF FrameBytes
  <2>4. [i \in 1 .. w |-> <<Len(frames) + 1, i>>] \in Seq(FrameBytes)
        /\ Len([i \in 1 .. w |-> <<Len(frames) + 1, i>>]) = w
    BY <2>1, <2>3
  <2>5. QED
    BY <2>2, <2>4 DEF w
<1> HIDE DEF m, new
<1>3. /\ frames' = Append(frames, m) /\ Len(frames') = Len(frames) + 1
      /\ frames' \in Seq(Message) /\ frames'[Len(frames) + 1] = m
      /\ \A i \in 1 .. Len(frames) : frames'[i] = frames[i]
  <2>1. frames' = Append(frames, m)
    BY DEF m
  <2>2. QED
    BY <1>1, <2>1, FramingTypes, AppendProperties
<1>4. /\ lock = s /\ lock # Free /\ unwritten[s] = <<>> /\ Pending = <<>>
      /\ \A u \in Senders \ {s} : step[u] = "idle"
  BY HolderOfLock DEF FramingInv, LockIsHeld
<1>5. unwritten' \in [Senders -> Seq(FrameBytes)] /\ unwritten'[s] = new
      /\ \A u \in Senders \ {s} : unwritten'[u] = unwritten[u]
  <2>1. unwritten' = [unwritten EXCEPT ![s] = new]
    BY DEF new
  <2>2. QED
    BY <1>2, <2>1, FramingTypes
<1>6. Pending' = new
  BY <1>4, <1>5 DEF Pending
<1>7. Stream = before /\ Stream' = before \o new /\ before \in Seq(FrameBytes)
  <2>1. wire \in Seq(FrameBytes) /\ got \in Seq(FrameBytes)
    BY FramingTypes
  <2>2. wire \o <<>> = wire
    BY ONLY <2>1, ConcatEmptySeq
  <2>3. Stream = before
    BY <1>4, <2>2 DEF Stream, Coming
  <2>4. Stream' = got \o (wire \o new)
    BY <1>6 DEF Stream, Coming
  <2>5. got \o (wire \o new) = (got \o wire) \o new
    BY ONLY <1>2, <2>1, BytesJoined
  <2>6. before \in Seq(FrameBytes)
    BY ONLY <2>1, BytesJoined
  <2>7. QED
    BY <2>3, <2>4, <2>5, <2>6
<1> HIDE DEF before
<1>8. /\ InFrames(before, frames)
      /\ before # <<>> => before[Len(before)] = <<Len(frames), FrameLength(frames, Len(frames))>>
      /\ before # <<>> /\ Reading => before[1] = NextByte
      /\ before = <<>> => reader = "header" /\ Len(received) = Len(frames)
      /\ reader # "raised"
      /\ reader = "payload" =>
           Len(received) < Len(frames) /\ announced = frames[Len(received) + 1].size
  BY <1>7 DEF FramingInv, StreamIsRight
<1>9. \A i \in 1 .. Len(frames) : frames[i].size \in Nat
  BY FrameIsMessage
<1>10. m.size \in Nat /\ Len(new) = HeaderBytes + m.size /\ HeaderBytes \in Nat \ {0}
  BY <1>1, <1>2, FramingTypes
<1>11. /\ InFrames(Stream', frames')
       /\ Stream'[Len(Stream')] = <<Len(frames) + 1, FrameLength(frames', Len(frames) + 1)>>
       /\ before = <<>> => Stream'[1] = <<Len(frames) + 1, 1>>
       /\ before # <<>> => Stream'[1] = before[1]
       /\ Stream' # <<>>
  <2>1. frames \in Seq(Message)
    BY FramingTypes
  <2> DEFINE r  == before \o new
             gs == Append(frames, m)
  <2>2. /\ InFrames(r, gs)
        /\ r[Len(r)] = <<Len(frames) + 1, FrameLength(gs, Len(frames) + 1)>>
        /\ before = <<>> => r[1] = <<Len(frames) + 1, 1>>
        /\ before # <<>> => r[1] = before[1]
        /\ r # <<>>
    BY ONLY <1>1, <1>2, <1>8, <1>9, <1>10, <2>1, FrameAppended
  <2>3. Stream' = r /\ frames' = gs
    BY <1>3, <1>7
  <2> HIDE DEF r, gs
  <2>4. QED
    BY <2>2, <2>3
<1>12. NextByte' = NextByte /\ (before = <<>> => NextByte = <<Len(frames) + 1, 1>>)
       /\ Reading' = Reading
  BY <1>8 DEF NextByte, Reading
<1>13. Len(received) < Len(frames) => Len(received) < Len(frames) + 1
         /\ frames'[Len(received) + 1] = frames[Len(received) + 1]
  BY <1>3, FramingTypes
<1>14. StreamIsRight'
  <2>1. Reading' /\ Stream' # <<>> => Stream'[1] = NextByte'
    BY <1>8, <1>11, <1>12
  <2>2. reader' = "payload" =>
          Len(received') < Len(frames') /\ announced' = frames'[Len(received') + 1].size
    BY <1>3, <1>8, <1>13
  <2>3. Stream'[Len(Stream')] = <<Len(frames'), FrameLength(frames', Len(frames'))>>
    BY <1>3, <1>11
  <2>4. QED
    BY <1>8, <1>11, <2>1, <2>2, <2>3 DEF StreamIsRight
<1>15. ReceivedAsSent'
  <2>1. Len(received) <= Len(frames) /\ \A i \in 1 .. Len(received) : received[i] = frames[i]
    BY DEF FramingInv, ReceivedAsSent
  <2>2. Len(received) <= Len(frames) + 1 /\ \A i \in 1 .. Len(received) : i \in 1 .. Len(frames)
    BY <2>1, FramingTypes
  <2>3. QED
    BY <1>3, <2>1, <2>2 DEF ReceivedAsSent
<1>16. TimesIncrease'
  <2>1. /\ \A i \in 1 .. Len(frames) : frames'[i].clock < clock
        /\ frames'[Len(frames) + 1].clock = clock
        /\ \A i, j \in 1 .. Len(frames) : i < j => frames'[i].clock < frames'[j].clock
    BY <1>1, <1>3 DEF FramingInv, TimesIncrease
  <2>2. \A i \in 1 .. Len(frames) + 1 : i \in 1 .. Len(frames) \/ i = Len(frames) + 1
    BY FramingTypes
  <2>3. \A i \in 1 .. Len(frames) : frames'[i].clock \in Nat
    BY <1>3, FrameIsMessage
  <2>4. \A i \in 1 .. Len(frames') : frames'[i].clock <= clock
    BY <1>3, <2>1, <2>2, <2>3, FramingTypes
  <2>5. ASSUME NEW i \in 1 .. Len(frames'), NEW j \in 1 .. Len(frames'), i < j
        PROVE  frames'[i].clock < frames'[j].clock
    <3>1. i \in 1 .. Len(frames)
      BY <1>3, <2>5, FramingTypes
    <3>2. QED
      BY <1>3, <2>1, <2>2, <2>5, <3>1
  <2>6. \A u \in Senders : step'[u] # "encode"
    BY <1>4, FramingTypes
  <2>7. QED
    BY <2>4, <2>5, <2>6 DEF TimesIncrease
<1>17. LockIsHeld'
  <2>1. \A u \in Senders : step'[u] = IF u = s THEN "write" ELSE step[u]
    BY FramingTypes
  <2>2. new # <<>>
    BY <1>1, <1>2, FramingTypes, EmptySeq
  <2>3. \A u \in Senders : step'[u] # "idle" <=> lock' = u
    BY <1>4, <2>1
  <2>4. \A u \in Senders : unwritten'[u] # <<>> <=> step'[u] = "write"
    BY <1>5, <2>1, <2>2 DEF FramingInv, LockIsHeld
  <2>5. QED
    BY <2>3, <2>4 DEF LockIsHeld
<1>18. FrameTypeOK'
  <2>1. step' \in [Senders -> {"idle", "advance", "encode", "write"}]
    BY FramingTypes
  <2>2. QED
    BY <1>3, <1>5, <2>1 DEF FramingInv, FrameTypeOK, Reading, Wanted, FrameBytes
<1>19. QED
  BY <1>14, <1>15, <1>16, <1>17, <1>18 DEF FramingInv

(* The stream loses its end. *)
LEMMA BreakKeepsFraming ==
  ASSUME FramingInv, Break PROVE FramingInv'
<1>1. /\ ~ broken /\ broken' = TRUE
      /\ UNCHANGED <<clock, lock, step, frames, unwritten, reader, announced, got, received>>
  BY DEF Break, sendVars, readVars
<1>2. PICK n \in 0 .. Len(wire) : wire' = SubSeq(wire, 1, n)
  BY DEF Break
<1> DEFINE a == SubSeq(wire, 1, n)
           b == SubSeq(wire, n + 1, Len(wire))
           x == got \o a
           y == b \o Pending
<1>3. /\ a \in Seq(FrameBytes) /\ b \in Seq(FrameBytes) /\ a \o b = wire
      /\ got \in Seq(FrameBytes) /\ Pending \in Seq(FrameBytes)
  BY FramingTypes, StreamTypes, BytesSplit
<1>4. wire' = a
  BY <1>2
<1> HIDE DEF a, b
<1>5. /\ got \o ((a \o b) \o Pending) = x \o y
      /\ x \in Seq(FrameBytes) /\ y \in Seq(FrameBytes) /\ a \o <<>> = a
      /\ x # <<>> => 1 \in 1 .. Len(x) /\ x \o y # <<>>
  <2>1. (a \o b) \o Pending = a \o (b \o Pending)
    BY ONLY <1>3, BytesJoined
  <2>2. b \o Pending \in Seq(FrameBytes) /\ got \o a \in Seq(FrameBytes)
    BY ONLY <1>3, BytesJoined
  <2>3. got \o (a \o (b \o Pending)) = (got \o a) \o (b \o Pending)
    <3> DEFINE c == b \o Pending
    <3>1. c \in Seq(FrameBytes)
      BY <2>2
    <3> HIDE DEF c
    <3>2. got \o (a \o c) = (got \o a) \o c
      BY ONLY <1>3, <3>1, BytesJoined
    <3>3. QED
      BY <3>2 DEF c
  <2>4. a \o <<>> = a
    BY ONLY <1>3, ConcatEmptySeq
  <2> HIDE DEF x, y
  <2>5. x # <<>> => Len(x) \in Nat \ {0} /\ x \o y # <<>>
    BY ONLY <2>2, EmptySeq, ConcatSimplifications DEF x, y
  <2>6. QED
    BY <2>1, <2>2, <2>3, <2>4, <2>5 DEF x, y
<1>6. Stream = x \o y /\ Stream' = x
  <2>1. Stream = got \o ((a \o b) \o Pending)
    BY <1>3 DEF Stream, Coming
  <2>2. Stream' = got \o (a \o <<>>)
    BY <1>1, <1>4 DEF Stream, Coming, Pending
  <2>3. QED
    BY <1>5, <2>1, <2>2
<1> HIDE DEF x, y
<1>7. InFrames(Stream, frames) /\ (Reading /\ Stream # <<>> => Stream[1] = NextByte)
  BY DEF FramingInv, StreamIsRight
<1>8. InFrames(x, frames) /\ \A i \in 1 .. Len(x) : Stream[i] = x[i]
  <2>1. Stream = x \o y /\ x \in Seq(FrameBytes) /\ y \in Seq(FrameBytes) /\ InFrames(Stream, frames)
    BY <1>5, <1>6, <1>7
  <2>2. InFrames(x, frames)
    BY ONLY <2>1, PartsInFrames
  <2>3. \A i \in 1 .. Len(x) : Stream[i] = x[i]
    BY ONLY <2>1, PartsInFrames
  <2>4. QED
    BY <2>2, <2>3
<1>9. Reading' = Reading /\ NextByte' = NextByte
  BY <1>1 DEF Reading, NextByte
<1>10. StreamIsRight'
  <2>1. Reading' /\ Stream' # <<>> => Stream'[1] = NextByte'
    BY <1>5, <1>6, <1>7, <1>8, <1>9
  <2>2. InFrames(Stream', frames')
    BY <1>1, <1>6, <1>8
  <2>3. QED
    BY <1>1, <2>1, <2>2 DEF FramingInv, StreamIsRight
<1>11. FrameTypeOK'
  BY <1>1, <1>3, <1>4 DEF FramingInv, FrameTypeOK, Reading, Wanted, FrameBytes
<1>12. QED
  BY <1>1, <1>10, <1>11 DEF FramingInv, LockIsHeld, ReceivedAsSent, TimesIncrease

-----------------------------------------------------------------------------
(* The steps of the reader.                                                *)

(* The byte that comes next is of the message that comes next. *)
LEMMA ReaderTypes ==
  ASSUME FramingInv, Reading
  PROVE  /\ Wanted \in Nat \ {0} /\ Len(got) <= Wanted
         /\ NextByte[1] = Len(received) + 1 /\ NextByte[2] \in Nat
         /\ reader = "header" => Wanted = HeaderBytes /\ NextByte[2] = 1
         /\ reader = "payload" =>
              /\ NextByte[2] = HeaderBytes + 1
              /\ NextByte[1] \in 1 .. Len(frames) /\ Wanted = frames[NextByte[1]].size
<1>1. reader = "header" \/ reader = "payload"
  BY DEF Reading
<1>2. Len(got) <= Wanted
  BY DEF FramingInv, FrameTypeOK
<1>3. CASE reader = "header"
  BY <1>2, <1>3, FramingTypes DEF Wanted, NextByte
<1>4. CASE reader = "payload"
  <2>1. Len(received) < Len(frames) /\ announced = frames[Len(received) + 1].size
    BY <1>4 DEF FramingInv, StreamIsRight
  <2>2. Len(received) + 1 \in 1 .. Len(frames)
    BY <2>1, FramingTypes
  <2>3. frames[Len(received) + 1].size \in Nat \ {0}
    BY <2>2, FrameIsMessage
  <2>4. QED
    BY <1>2, <1>4, <2>1, <2>2, <2>3, FramingTypes DEF Wanted, NextByte
<1>5. QED
  BY <1>1, <1>3, <1>4

(* All the bytes that _recv_exact was asked for are there: they are those of *)
(* one message, and the stream goes on behind them.                          *)
LEMMA GotIsFrame ==
  ASSUME FramingInv, Reading, Remaining = 0, got' = <<>>,
         UNCHANGED <<frames, wire, broken, lock, unwritten>>,
         NEW k, k = Len(received) + 1, NEW last, last = NextByte[2] + Wanted - 1
  PROVE  /\ k \in 1 .. Len(frames) /\ last \in Nat /\ last <= FrameLength(frames, k)
         /\ got[1][1] = k
         /\ got = Bytes(k, NextByte[2], last)
         /\ InFrames(Stream', frames)
         /\ Stream' # <<>> =>
              Stream'[1] = IF last = FrameLength(frames, k) THEN <<k + 1, 1>> ELSE <<k, last + 1>>
         /\ ~ broken /\ Stream' # <<>> =>
              Stream'[Len(Stream')] = <<Len(frames), FrameLength(frames, Len(frames))>>
         /\ ~ broken /\ Stream' = <<>> => k = Len(frames) /\ last = FrameLength(frames, k)
<1> DEFINE l == Wanted
           first == NextByte[2]
<1>1. /\ l \in Nat \ {0} /\ first \in Nat /\ NextByte = <<k, first>>
      /\ reader = "header" => l = HeaderBytes /\ first = 1
      /\ reader = "payload" =>
           first = HeaderBytes + 1 /\ k \in 1 .. Len(frames) /\ l = frames[k].size
  BY ReaderTypes DEF NextByte
<1>2. Len(got) = l
  BY <1>1, FramingTypes DEF Remaining
<1> HIDE DEF l, first
<1>3. /\ Coming \in Seq(FrameBytes) /\ got \in Seq(FrameBytes) /\ Len(Coming) \in Nat
      /\ Stream \in Seq(FrameBytes) /\ Len(Stream) = l + Len(Coming)
      /\ \A i \in 1 .. l : Stream[i] = got[i]
  <2>1. Coming \in Seq(FrameBytes)
    BY StreamTypes
  <2>2. Len(Coming) \in Nat
    BY <2>1, LenProperties
  <2>3. QED
    BY <1>2, <2>1, <2>2, StreamTypes, FramingTypes
<1>4. InFrames(Stream, frames)
  BY DEF FramingInv, StreamIsRight
<1>5. 1 \in 1 .. Len(Stream) /\ Stream # <<>> /\ 1 \in 1 .. l /\ l \in 1 .. l /\ l \in 1 .. Len(Stream)
  <2>1. 1 \in 1 .. Len(Stream) /\ 1 \in 1 .. l /\ l \in 1 .. l /\ l \in 1 .. Len(Stream)
    BY <1>1, <1>3
  <2>2. QED
    BY <2>1, EmptySeq
<1>6. Stream[1] = <<k, first>>
  BY <1>1, <1>5 DEF FramingInv, StreamIsRight
<1>7. k \in 1 .. Len(frames)
  BY <1>4, <1>5, <1>6 DEF InFrames
<1>8. /\ last = first + l - 1 /\ last \in Nat
      /\ frames[k].size \in Nat \ {0} /\ FrameLength(frames, k) = HeaderBytes + frames[k].size
      /\ FrameLength(frames, k) \in Nat /\ HeaderBytes \in Nat \ {0}
  <2>1. last = first + l - 1
    BY DEF l, first
  <2>2. last \in Nat
    BY <1>1, <2>1
  <2>3. frames[k].size \in Nat \ {0} /\ FrameLength(frames, k) \in Nat
    BY <1>7, FrameIsMessage
  <2>4. FrameLength(frames, k) = HeaderBytes + frames[k].size
    BY DEF FrameLength
  <2>5. HeaderBytes \in Nat \ {0}
    BY FramingTypes
  <2>6. QED
    BY <2>1, <2>2, <2>3, <2>4, <2>5
<1>9. /\ reader = "header" => last = HeaderBytes /\ last < FrameLength(frames, k)
      /\ reader = "payload" => last = FrameLength(frames, k)
  BY <1>1, <1>8
<1>10. last <= FrameLength(frames, k)
  BY <1>8, <1>9 DEF Reading
<1>11. /\ \A i \in 1 .. l : Stream[i] = <<k, first + i - 1>>
       /\ l < Len(Stream) =>
            Stream[l + 1] = IF last = FrameLength(frames, k) THEN <<k + 1, 1>> ELSE <<k, first + l>>
  <2>1. l \in 0 .. Len(Stream) /\ l > 0
    BY <1>1, <1>3
  <2>2. first + l - 1 <= FrameLength(frames, k)
    BY <1>8, <1>10
  <2>3. first \in Nat /\ FrameLength(frames, k) \in Nat
    BY <1>1, <1>8
  <2>4. /\ \A i \in 1 .. l : Stream[i] = <<k, first + i - 1>>
        /\ l < Len(Stream) /\ l > 0 =>
             Stream[l + 1] = IF first + l - 1 = FrameLength(frames, k)
                               THEN <<k + 1, 1>> ELSE <<k, first + l>>
    BY ONLY <1>4, <1>6, <1>7, <2>1, <2>2, <2>3, FirstBytes
  <2>5. QED
    BY <1>8, <2>1, <2>4
<1>12. got = Bytes(k, first, last)
  <2>1. last - first + 1 = l
    BY <1>1, <1>8
  <2>2. Bytes(k, first, last) = [i \in 1 .. l |-> <<k, first + i - 1>>]
    BY <2>1 DEF Bytes
  <2>3. got = [i \in 1 .. l |-> got[i]]
    BY <1>2, <1>3, LenProperties
  <2>4. \A i \in 1 .. l : got[i] = <<k, first + i - 1>>
    BY <1>3, <1>11
  <2>5. [i \in 1 .. l |-> got[i]] = [i \in 1 .. l |-> <<k, first + i - 1>>]
    BY ONLY <2>4
  <2>6. QED
    BY <2>2, <2>3, <2>5
<1>13. got[1][1] = k
  BY <1>3, <1>5, <1>6
<1>14. Stream' = Coming /\ Stream = got \o Coming
  <2>1. Coming' = Coming
    BY DEF Coming, Pending
  <2>2. <<>> \o Coming = Coming
    BY ONLY <1>3, ConcatEmptySeq
  <2>3. QED
    BY <2>1, <2>2 DEF Stream
<1>15. /\ InFrames(Coming, frames)
       /\ \A i \in 1 .. Len(Coming) : Stream[l + i] = Coming[i]
       /\ Coming # <<>> => Stream[Len(Stream)] = Coming[Len(Coming)]
  <2>1. /\ got \in Seq(FrameBytes) /\ Coming \in Seq(FrameBytes)
        /\ Stream = got \o Coming /\ InFrames(Stream, frames)
    BY <1>3, <1>4, <1>14
  <2>2. InFrames(Coming, frames)
    BY ONLY <2>1, PartsInFrames
  <2>3. \A i \in 1 .. Len(Coming) : Stream[Len(got) + i] = Coming[i]
    BY ONLY <2>1, PartsInFrames
  <2>4. Coming # <<>> => Stream[Len(Stream)] = Coming[Len(Coming)]
    BY ONLY <2>1, PartsInFrames
  <2>5. QED
    BY <1>2, <2>2, <2>3, <2>4
<1>16. Coming # <<>> =>
         Coming[1] = IF last = FrameLength(frames, k) THEN <<k + 1, 1>> ELSE <<k, last + 1>>
  <2>1. Coming # <<>> => 1 \in 1 .. Len(Coming) /\ l < Len(Stream)
    BY <1>1, <1>3, EmptySeq
  <2>2. first + l = last + 1
    BY <1>1, <1>8
  <2>3. QED
    BY <1>11, <1>15, <2>1, <2>2
<1>17. ~ broken => Stream[Len(Stream)] = <<Len(frames), FrameLength(frames, Len(frames))>>
  BY <1>5 DEF FramingInv, StreamIsRight
<1>18. ~ broken /\ Coming = <<>> => k = Len(frames) /\ last = FrameLength(frames, k)
  <2>1. Coming = <<>> => Len(Stream) = l
    BY <1>1, <1>3, EmptySeq
  <2>2. Stream[l] = <<k, last>>
    BY <1>5, <1>8, <1>11
  <2>3. QED
    BY <1>17, <2>1, <2>2
<1>19. QED
  BY <1>7, <1>8, <1>10, <1>12, <1>13, <1>14, <1>15, <1>16, <1>17, <1>18 DEF first

(* The header read is that of the message after those received. *)
LEMMA HeaderIsNext ==
  ASSUME FramingInv, ReadHeader
  PROVE  /\ reader = "header" /\ reader' = "payload" /\ got' = <<>>
         /\ announced' \in 1 .. MaxFrameBytes
         /\ UNCHANGED <<clock, lock, step, frames, unwritten, wire, broken, received>>
         /\ StreamIsRight'
<1> DEFINE k == Len(received) + 1
<1>1. /\ reader = "header" /\ Remaining = 0 /\ got' = <<>> /\ Reading
      /\ UNCHANGED <<clock, lock, step, frames, unwritten, wire, broken>>
  BY DEF ReadHeader, sendVars, Reading
<1>2. /\ NextByte[2] = 1 /\ Wanted = HeaderBytes /\ HeaderBytes \in Nat \ {0}
      /\ HeaderBytes = NextByte[2] + Wanted - 1
  BY <1>1, ReaderTypes, FramingTypes
<1>3. /\ k \in 1 .. Len(frames) /\ got[1][1] = k /\ got = Bytes(k, 1, HeaderBytes)
      /\ InFrames(Stream', frames)
      /\ Stream' # <<>> =>
           Stream'[1] = IF HeaderBytes = FrameLength(frames, k)
                          THEN <<k + 1, 1>> ELSE <<k, HeaderBytes + 1>>
      /\ ~ broken /\ Stream' # <<>> =>
           Stream'[Len(Stream')] = <<Len(frames), FrameLength(frames, Len(frames))>>
      /\ ~ broken /\ Stream' = <<>> => HeaderBytes = FrameLength(frames, k)
  BY <1>1, <1>2, GotIsFrame
<1>4. frames[k].size \in 1 .. MaxFrameBytes /\ HeaderBytes # FrameLength(frames, k)
  <2>1. frames[k].size \in Nat \ {0} /\ frames[k].size <= MaxFrameBytes
    BY <1>3, FrameIsMessage
  <2>2. FrameLength(frames, k) = HeaderBytes + frames[k].size
    BY DEF FrameLength
  <2> HIDE DEF k
  <2>3. QED
    BY <1>2, <2>1, <2>2, FramingTypes
<1>5. reader' = "payload" /\ announced' = frames[k].size /\ received' = received
  BY <1>3 DEF ReadHeader, Header
<1>6. Len(received) < Len(frames)
  BY <1>3, FramingTypes
<1>7. StreamIsRight'
  <2>1. NextByte' = <<k, HeaderBytes + 1>>
    BY <1>5 DEF NextByte
  <2>2. Stream' # <<>> => Stream'[1] = NextByte'
    BY <1>3, <1>4, <2>1
  <2>3. QED
    BY <1>1, <1>3, <1>4, <1>5, <1>6, <2>2 DEF StreamIsRight
<1>8. QED
  BY <1>1, <1>4, <1>5, <1>7

LEMMA ReadHeaderKeepsFraming ==
  ASSUME FramingInv, ReadHeader PROVE FramingInv'
<1>1. /\ reader = "header" /\ reader' = "payload" /\ got' = <<>>
      /\ announced' \in 1 .. MaxFrameBytes
      /\ UNCHANGED <<clock, lock, step, frames, unwritten, wire, broken, received>>
      /\ StreamIsRight'
  BY HeaderIsNext
<1>2. FrameTypeOK'
  <2>1. announced' \in 0 .. MaxFrameBytes /\ got' \in Seq(FrameBytes) /\ Len(got') <= Wanted'
    BY <1>1, EmptySeq, FramingTypes DEF Wanted
  <2>2. QED
    BY <1>1, <2>1 DEF FramingInv, FrameTypeOK, FrameBytes
<1>3. QED
  BY <1>1, <1>2 DEF FramingInv, LockIsHeld, ReceivedAsSent, TimesIncrease

(* The message read is the one after those received. *)
LEMMA PayloadIsNext ==
  ASSUME FramingInv, ReadPayload, NEW k, k = Len(received) + 1
  PROVE  /\ k \in 1 .. Len(frames) /\ reader = "payload" /\ reader' = "header"
         /\ announced' = announced /\ got' = <<>>
         /\ received' = Append(received, frames[k])
         /\ received' \in Seq(Message) /\ Len(received') = k /\ received'[k] = frames[k]
         /\ \A i \in 1 .. Len(received) : received'[i] = received[i]
         /\ UNCHANGED <<clock, lock, step, frames, unwritten, wire, broken>>
         /\ StreamIsRight'
<1>1. /\ reader = "payload" /\ Remaining = 0 /\ got' = <<>> /\ Reading
      /\ UNCHANGED <<clock, lock, step, frames, unwritten, wire, broken>>
  BY DEF ReadPayload, sendVars, Reading
<1> DEFINE last == HeaderBytes + frames[k].size
<1>2. /\ NextByte[2] = HeaderBytes + 1 /\ NextByte[1] = k /\ k \in 1 .. Len(frames)
      /\ Wanted = frames[k].size
  BY <1>1, ReaderTypes
<1>3. last = NextByte[2] + Wanted - 1 /\ last = FrameLength(frames, k)
  <2>1. FrameLength(frames, k) = last
    BY DEF FrameLength
  <2>2. frames[k].size \in Nat /\ HeaderBytes \in Nat
    BY <1>2, FrameIsMessage, FramingTypes
  <2>3. last = (HeaderBytes + 1) + frames[k].size - 1
    BY <2>2
  <2>4. QED
    BY <1>2, <2>1, <2>3
<1>4. /\ got[1][1] = k /\ got = Bytes(k, HeaderBytes + 1, last)
      /\ InFrames(Stream', frames)
      /\ Stream' # <<>> => Stream'[1] = <<k + 1, 1>>
      /\ ~ broken /\ Stream' # <<>> =>
           Stream'[Len(Stream')] = <<Len(frames), FrameLength(frames, Len(frames))>>
      /\ ~ broken /\ Stream' = <<>> => k = Len(frames)
  <2> HIDE DEF last
  <2>1. QED
    BY <1>1, <1>2, <1>3, GotIsFrame
<1>5. reader' = "header" /\ announced' = announced /\ received' = Append(received, frames[k])
  BY <1>4 DEF ReadPayload, Payload
<1>6. /\ received' \in Seq(Message) /\ Len(received') = k /\ received'[k] = frames[k]
      /\ \A i \in 1 .. Len(received) : received'[i] = received[i]
  BY <1>2, <1>5, FrameIsMessage, FramingTypes, AppendProperties
<1>7. StreamIsRight'
  <2>1. NextByte' = <<k + 1, 1>>
    BY <1>5, <1>6 DEF NextByte
  <2>2. QED
    BY <1>1, <1>4, <1>5, <1>6, <2>1 DEF StreamIsRight
<1>8. QED
  BY <1>1, <1>2, <1>5, <1>6, <1>7

LEMMA ReadPayloadKeepsFraming ==
  ASSUME FramingInv, ReadPayload PROVE FramingInv'
<1> DEFINE k == Len(received) + 1
<1>1. /\ k \in 1 .. Len(frames) /\ reader = "payload" /\ reader' = "header"
      /\ announced' = announced /\ got' = <<>>
      /\ received' = Append(received, frames[k])
      /\ received' \in Seq(Message) /\ Len(received') = k /\ received'[k] = frames[k]
      /\ \A i \in 1 .. Len(received) : received'[i] = received[i]
      /\ UNCHANGED <<clock, lock, step, frames, unwritten, wire, broken>>
      /\ StreamIsRight'
  BY PayloadIsNext
<1>2. FrameTypeOK'
  <2>1. got' \in Seq(FrameBytes) /\ Len(got') <= Wanted'
    BY <1>1, EmptySeq, FramingTypes DEF Wanted
  <2>2. QED
    BY <1>1, <2>1 DEF FramingInv, FrameTypeOK, FrameBytes
<1>3. ReceivedAsSent'
  <2>1. k <= Len(frames) /\ \A i \in 1 .. k : i \in 1 .. Len(received) \/ i = k
    BY <1>1, FramingTypes
  <2>2. QED
    BY <1>1, <2>1 DEF FramingInv, ReceivedAsSent
<1>4. QED
  BY <1>1, <1>2, <1>3 DEF FramingInv, LockIsHeld, TimesIncrease

LEMMA ReceiveChunkKeepsFraming ==
  ASSUME FramingInv, ReceiveChunk PROVE FramingInv'
<1>1. /\ Reading
      /\ UNCHANGED <<clock, lock, step, frames, unwritten, broken, reader, announced, received>>
  BY DEF ReceiveChunk, sendVars
<1>2. PICK n \in 1 .. Len(wire) :
        /\ n <= Remaining
        /\ got' = got \o SubSeq(wire, 1, n)
        /\ wire' = SubSeq(wire, n + 1, Len(wire))
  BY DEF ReceiveChunk
<1> DEFINE a == SubSeq(wire, 1, n)
           b == SubSeq(wire, n + 1, Len(wire))
<1>3. n \in 0 .. Len(wire) /\ n \in Nat
  BY FramingTypes
<1>4. /\ a \in Seq(FrameBytes) /\ b \in Seq(FrameBytes) /\ a \o b = wire /\ Len(a) = n
      /\ got \in Seq(FrameBytes) /\ Pending \in Seq(FrameBytes)
  BY <1>3, FramingTypes, StreamTypes, BytesSplit
<1>5. got' = got \o a /\ wire' = b
  BY <1>2
<1> HIDE DEF a, b
<1>6. /\ got \o ((a \o b) \o Pending) = (got \o a) \o (b \o Pending)
      /\ got \o a \in Seq(FrameBytes) /\ Len(got \o a) = Len(got) + n
  <2> DEFINE c == b \o Pending
  <2>1. (a \o b) \o Pending = a \o c
    BY ONLY <1>4, BytesJoined
  <2>2. c \in Seq(FrameBytes)
    BY ONLY <1>4, BytesJoined
  <2>3. got \o a \in Seq(FrameBytes) /\ Len(got \o a) = Len(got) + n
    BY ONLY <1>4, BytesJoined
  <2> HIDE DEF c
  <2>4. got \o (a \o c) = (got \o a) \o c
    BY ONLY <1>4, <2>2, BytesJoined
  <2>5. QED
    BY <2>1, <2>3, <2>4 DEF c
<1>7. Stream' = Stream
  <2>1. Stream = got \o ((a \o b) \o Pending)
    BY <1>4 DEF Stream, Coming
  <2>2. Stream' = (got \o a) \o (b \o Pending)
    BY <1>1, <1>5 DEF Stream, Coming, Pending
  <2>3. QED
    BY <1>6, <2>1, <2>2
<1>8. StreamIsRight' /\ ReceivedAsSent'
  BY <1>1, <1>7, StreamStays
<1>9. FrameTypeOK'
  <2>1. Len(got') <= Wanted /\ Wanted' = Wanted
    BY <1>1, <1>2, <1>3, <1>5, <1>6, FramingTypes, ReaderTypes DEF Remaining, Wanted
  <2>2. got' \in Seq(FrameBytes) /\ wire' \in Seq(FrameBytes)
    BY <1>4, <1>5, <1>6
  <2>3. QED
    BY <1>1, <2>1, <2>2 DEF FramingInv, FrameTypeOK, FrameBytes
<1>10. QED
  BY <1>1, <1>8, <1>9 DEF FramingInv, LockIsHeld, TimesIncrease

LEMMA EndOfStreamKeepsFraming ==
  ASSUME FramingInv, EndOfStream PROVE FramingInv'
<1>1. /\ broken /\ reader' = "raised"
      /\ UNCHANGED <<clock, lock, step, frames, unwritten, wire, broken, got, announced, received>>
  BY DEF EndOfStream, Raise, sendVars
<1>2. Stream' = Stream /\ ~ Reading'
  BY <1>1 DEF Stream, Coming, Pending, Reading
<1>3. StreamIsRight'
  BY <1>1, <1>2 DEF FramingInv, StreamIsRight
<1>4. FrameTypeOK'
  BY <1>1, <1>2 DEF FramingInv, FrameTypeOK
<1>5. QED
  BY <1>1, <1>3, <1>4 DEF FramingInv, LockIsHeld, ReceivedAsSent, TimesIncrease

-----------------------------------------------------------------------------
(* The specification.                                                      *)

LEMMA FramingInvInit == FrameInit => FramingInv
<1> SUFFICES ASSUME FrameInit PROVE FramingInv
  OBVIOUS
<1>1. /\ clock = 0 /\ lock = Free /\ step = [s \in Senders |-> "idle"]
      /\ frames = <<>> /\ unwritten = [s \in Senders |-> <<>>] /\ wire = <<>>
      /\ broken = FALSE /\ reader = "header" /\ announced = 0 /\ got = <<>> /\ received = <<>>
  BY DEF FrameInit
<1>2. HeaderBytes \in Nat \ {0} /\ MaxFrameBytes \in Nat /\ MaxClock \in Nat
      /\ Free \notin Senders
  BY FramingAssumption DEF FramingAssumption
<1>3. <<>> \in Seq(FrameBytes) /\ Len(<<>>) = 0 /\ <<>> \in Seq(Message)
  BY EmptySeq
<1>4. FrameTypeOK
  <2>1. clock \in 0 .. MaxClock /\ announced \in 0 .. MaxFrameBytes
    BY <1>1, <1>2
  <2>2. lock \in Senders \cup {Free} /\ reader \in {"header", "payload", "raised"}
        /\ broken \in BOOLEAN
    BY <1>1
  <2>3. /\ step \in [Senders -> {"idle", "advance", "encode", "write"}]
        /\ unwritten \in [Senders -> Seq(FrameBytes)]
    BY <1>1, <1>3
  <2>4. Len(got) <= Wanted
    BY <1>1, <1>2, <1>3 DEF Wanted
  <2>5. QED
    BY <1>1, <1>3, <2>1, <2>2, <2>3, <2>4 DEF FrameTypeOK, FrameBytes
<1>5. Stream = <<>>
  <2>1. <<>> \o <<>> = <<>>
    BY ONLY <1>3, ConcatEmptySeq
  <2>2. QED
    BY <1>1, <2>1 DEF Stream, Coming, Pending
<1>6. StreamIsRight
  BY <1>1, <1>3, <1>5 DEF StreamIsRight, InFrames
<1>7. LockIsHeld
  BY <1>1, <1>2 DEF LockIsHeld
<1>8. ReceivedAsSent /\ TimesIncrease
  BY <1>1, <1>3 DEF ReceivedAsSent, TimesIncrease
<1>9. QED
  BY <1>4, <1>6, <1>7, <1>8 DEF FramingInv

LEMMA FramingInvNext == FramingInv /\ [FrameNext]_frameVars => FramingInv'
<1> SUFFICES ASSUME FramingInv, [FrameNext]_frameVars PROVE FramingInv'
  OBVIOUS
<1>1. CASE MoveClock
  BY <1>1, MoveClockKeepsFraming
<1>2. CASE Break
  BY <1>2, BreakKeepsFraming
<1>3. CASE Receiving
  BY <1>3, ReceiveChunkKeepsFraming, ReadHeaderKeepsFraming, ReadPayloadKeepsFraming,
     EndOfStreamKeepsFraming DEF Receiving
<1>4. ASSUME NEW s \in Senders, Acquire(s) PROVE FramingInv'
  BY <1>4, AcquireKeepsFraming
<1>5. ASSUME NEW s \in Senders, Encode(s) PROVE FramingInv'
  <2>1. step[s] = "encode" /\ UNCHANGED <<clock, wire, broken, reader, announced, got, received>>
    BY <1>5 DEF Encode, readVars
  <2>2. CASE Release(s) /\ UNCHANGED <<frames, unwritten>>
    BY <2>1, <2>2, EncodeFailsKeepsFraming
  <2>3. ASSUME ~ broken, NEW n \in 1 .. MaxFrameBytes,
               frames' = Append(frames, [from |-> s, size |-> n, clock |-> clock]),
               unwritten' = [unwritten EXCEPT ![s] = Bytes(Len(frames) + 1, 1, HeaderBytes + n)],
               step' = [step EXCEPT ![s] = "write"], UNCHANGED lock
        PROVE  FramingInv'
    BY <2>1, <2>3, EncodeKeepsFraming
  <2>4. QED
    BY <1>5, <2>2, <2>3 DEF Encode
<1>6. ASSUME NEW s \in Senders, Holding(s) PROVE FramingInv'
  BY <1>5, <1>6, AdvanceClockKeepsFraming, WriteKeepsFraming, WriteFailsKeepsFraming
     DEF Holding
<1>7. CASE UNCHANGED frameVars
  <2>1. UNCHANGED <<clock, lock, step, frames, unwritten, wire, broken, reader, announced, got, received>>
    BY <1>7 DEF frameVars, sendVars, readVars
  <2>2. Stream' = Stream
    BY <2>1 DEF Stream, Coming, Pending
  <2>3. StreamIsRight' /\ ReceivedAsSent'
    BY <2>1, <2>2, StreamStays
  <2>4. QED
    BY <2>1, <2>3
       DEF FramingInv, FrameTypeOK, Reading, Wanted, LockIsHeld, TimesIncrease
<1>8. QED
  BY <1>1, <1>2, <1>3, <1>4, <1>6, <1>7 DEF FrameNext

LEMMA FramingAlways == FrameSpec => []FramingInv
BY FramingInvInit, FramingInvNext, PTL DEF FrameSpec

(* Both ends of a connection keep the types of their state; in particular  *)
(* _recv_exact never has more bytes than it was asked for (_send,          *)
(* receive_message).                                                       *)
THEOREM FramingTypesHold == FrameSpec => []FrameTypeOK
<1>1. FramingInv => FrameTypeOK
  BY DEF FramingInv
<1>2. QED
  BY <1>1, FramingAlways, PTL

(* The messages received over one connection carry increasing times,       *)
(* although advance() and read() are two calls and other threads move the  *)
(* clock between them (_send, LogicalClock).                               *)
THEOREM ReceivedClocksIncrease == FrameSpec => []ClocksIncrease
<1>1. FramingInv => ClocksIncrease
  <2> SUFFICES ASSUME FramingInv, NEW i \in DOMAIN received, NEW j \in DOMAIN received, i < j
               PROVE  received[i].clock < received[j].clock
    BY DEF ClocksIncrease
  <2>1. DOMAIN received = 1 .. Len(received)
    BY FramingTypes, LenProperties
  <2>2. \A n \in 1 .. Len(received) : n \in 1 .. Len(frames) /\ received[n] = frames[n]
    BY FramingTypes DEF FramingInv, ReceivedAsSent
  <2>3. QED
    BY <2>1, <2>2 DEF FramingInv, TimesIncrease
<1>2. QED
  BY <1>1, FramingAlways, PTL

(* A step of a connection in terms of whole messages. *)
LEMMA FramingStep ==
  FramingInv /\ [FrameNext]_frameVars => [Link!Next]_(Link!vars)
<1> SUFFICES ASSUME FramingInv, [FrameNext]_frameVars
             PROVE  [Link!Next]_(Link!vars)
  OBVIOUS
<1> DEFINE Same == UNCHANGED <<frames, received, broken, reader>>
<1>1. CASE Same
  BY <1>1 DEF Link!vars
<1>2. CASE MoveClock
  BY <1>1, <1>2 DEF MoveClock, readVars
<1>3. CASE Break
  BY <1>3 DEF Break, sendVars, readVars, Link!Next, Link!Break
<1>4. CASE ReceiveChunk
  BY <1>1, <1>4 DEF ReceiveChunk, sendVars
<1>5. CASE ReadHeader
  <2>1. reader' = "payload" /\ UNCHANGED <<frames, received, broken>>
    BY <1>5, HeaderIsNext
  <2>2. reader = "header"
    BY <1>5 DEF ReadHeader
  <2>3. QED
    BY <2>1, <2>2 DEF Link!vars
<1>6. CASE ReadPayload
  <2>1. /\ Len(received) + 1 \in 1 .. Len(frames) /\ reader = "payload" /\ reader' = "header"
        /\ received' = Append(received, frames[Len(received) + 1])
        /\ UNCHANGED <<frames, broken>>
    BY <1>6, PayloadIsNext
  <2>2. Len(received) < Len(frames)
    BY <2>1, FramingTypes
  <2>3. QED
    BY <2>1, <2>2 DEF Link!Next, Link!Receive
<1>7. CASE EndOfStream
  BY <1>7 DEF EndOfStream, Raise, Reading, sendVars,
     Link!Next, Link!GiveUp
<1>8. ASSUME NEW s \in Senders, Acquire(s) \/ AdvanceClock(s) \/ Write(s)
                                  \/ WriteFails(s)
      PROVE  Same
  BY <1>8 DEF Acquire, AdvanceClock, Write, WriteFails, readVars
<1>9. ASSUME NEW s \in Senders, Encode(s) PROVE [Link!Next]_(Link!vars)
  <2>1. UNCHANGED <<received, broken, reader>>
    BY <1>9 DEF Encode, readVars
  <2>2. CASE UNCHANGED frames
    BY <1>1, <2>1, <2>2
  <2>3. ASSUME ~ broken, NEW n \in 1 .. MaxFrameBytes,
               frames' = Append(frames, [from |-> s, size |-> n, clock |-> clock])
        PROVE  [Link!Next]_(Link!vars)
    <3>1. clock \in 0 .. MaxClock
      BY DEF FramingInv, FrameTypeOK
    <3>2. [from |-> s, size |-> n, clock |-> clock] \in Message
      BY <3>1 DEF Message
    <3>3. QED
      BY <2>1, <2>3, <3>2 DEF Link!Next, Link!Send
  <2>4. QED
    BY <1>9, <2>2, <2>3 DEF Encode
<1>10. CASE UNCHANGED frameVars
  BY <1>1, <1>10 DEF frameVars, sendVars, readVars
<1>11. QED
  BY <1>1, <1>2, <1>3, <1>4, <1>5, <1>6, <1>7, <1>8, <1>9, <1>10
     DEF FrameNext, Receiving, Holding

(* Whatever the pieces and wherever the connection breaks, the threads'    *)
(* frames arrive whole, once and in order, and nothing else is taken for a *)
(* message: every step of the bytes is a step of the messages or none      *)
(* (_recv_exact, receive_message, send_lock).                              *)
THEOREM FramesAreMessages ==
  FrameSpec => Link!Init /\ [][Link!Next]_(Link!vars)
<1>1. FrameInit => Link!Init
  BY DEF FrameInit, Link!Init
<1>2. QED
  BY <1>1, FramingStep, FramingAlways, PTL DEF FrameSpec
=============================================================================
