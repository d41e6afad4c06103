--------------------------------- MODULE Framing ---------------------------------
(***************************************************************************)
(* One direction of a connection, byte by byte: the threads of a node send *)
(* under the send lock of the connection, each message a header with its   *)
(* size and then that many bytes; TCP carries them in pieces of any length *)
(* and may break anywhere; the thread at the other end puts the messages   *)
(* together again.  The logical clock of the sending node is shared with   *)
(* threads that do not hold this send lock.                                *)
(***************************************************************************)
EXTENDS Integers, Sequences

CONSTANTS Senders,       \* threads that send over the connection
          HeaderBytes,   \* HEADER.size (4 in the program)
          MaxFrameBytes, \* MAX_FRAME_BYTES (1_048_576 in the program)
          MaxMessages,   \* bound: messages sent
          MaxClock       \* bound: logical time

Free == "free"           \* nobody holds the send lock

ASSUME FramingAssumption ==
  /\ Free \notin Senders
  /\ HeaderBytes \in Nat \ {0}
  /\ MaxFrameBytes \in Nat \ {0}
  /\ MaxMessages \in Nat
  /\ MaxClock \in Nat

VARIABLES
  clock,     \* LogicalClock._value of the sending node
  lock,      \* who holds send_lock, or Free
  step,      \* of each sender: idle, advance, encode or write
  frames,    \* the messages encoded, as the bytes refer to them
  unwritten, \* of each sender: what sendall has yet to write
  wire,      \* bytes written and not received
  broken,    \* is the connection broken?
  reader,    \* _recv_exact for a header or a payload, or receive_message has raised
  announced, \* the size that the last header gave
  got,       \* the bytes that _recv_exact has so far
  received   \* the messages that receive_message has returned

sendVars == <<clock, lock, step, frames, unwritten>>
readVars == <<reader, announced, got, received>>
frameVars == <<sendVars, wire, broken, readVars>>

Message == [from : Senders, size : 1 .. MaxFrameBytes, clock : 0 .. MaxClock]

\* A byte is known by its message and its place in the frame.
Bytes(n, first, last) == [i \in 1 .. last - first + 1 |-> <<n, first + i - 1>>]
Header(n)  == Bytes(n, 1, HeaderBytes)
Payload(n) == Bytes(n, HeaderBytes + 1, HeaderBytes + frames[n].size)

FrameInit ==
  /\ clock = 0
  /\ lock = Free
  /\ step = [s \in Senders |-> "idle"]
  /\ frames = <<>>
  /\ unwritten = [s \in Senders |-> <<>>]
  /\ wire = <<>>
  /\ broken = FALSE
  /\ reader = "header"
  /\ announced = 0
  /\ got = <<>>
  /\ received = <<>>

-----------------------------------------------------------------------------
(* The sending node: _send, and whatever else moves its clock.             *)

Advanced(value) == value + 1

\* Mutant of Observed: the remote time is taken as it is.
Overwritten(value, remote) == remote

Observed(value, remote) == IF remote > value THEN remote ELSE value

\* A thread that does not send here: it works, sends over another connection,
\* or receives a message.
MoveClock ==
  /\ \/ clock' = Advanced(clock)
     \/ \E remote \in 0 .. MaxClock : clock' = Observed(clock, remote)
  /\ clock' <= MaxClock
  /\ UNCHANGED <<lock, step, frames, unwritten, wire, broken, readVars>>

\* Mutant of LockIsFree: there is no lock.
NoLock == TRUE

LockIsFree == lock = Free

Acquire(s) ==
  /\ step[s] = "idle" /\ Len(frames) < MaxMessages
  /\ LockIsFree
  /\ lock' = s
  /\ step' = [step EXCEPT ![s] = "advance"]
  /\ UNCHANGED <<clock, frames, unwritten, wire, broken, readVars>>

Release(s) ==
  /\ lock' = Free
  /\ step' = [step EXCEPT ![s] = "idle"]

AdvanceClock(s) ==
  /\ step[s] = "advance" /\ clock < MaxClock
  /\ clock' = Advanced(clock)
  /\ step' = [step EXCEPT ![s] = "encode"]
  /\ UNCHANGED <<lock, frames, unwritten, wire, broken, readVars>>

\* read(), encode_message and the start of sendall, which raises on a broken
\* connection; encode_message raises for a payload that is too long.
Encode(s) ==
  /\ step[s] = "encode"
  /\ \/ /\ ~ broken
        /\ \E n \in 1 .. MaxFrameBytes :
             /\ frames' = Append(frames, [from |-> s, size |-> n, clock |-> clock])
             /\ unwritten' = [unwritten EXCEPT ![s] = Bytes(Len(frames) + 1, 1, HeaderBytes + n)]
        /\ step' = [step EXCEPT ![s] = "write"]
        /\ UNCHANGED lock
     \/ Release(s) /\ UNCHANGED <<frames, unwritten>>
  /\ UNCHANGED <<clock, wire, broken, readVars>>

\* sendall writes what TCP takes.
Write(s) ==
  /\ step[s] = "write" /\ ~ broken
  /\ \E n \in 1 .. Len(unwritten[s]) :
       /\ wire' = wire \o SubSeq(unwritten[s], 1, n)
       /\ unwritten' = [unwritten EXCEPT ![s] = SubSeq(@, n + 1, Len(@))]
       /\ IF n = Len(unwritten[s]) THEN Release(s) ELSE UNCHANGED <<lock, step>>
  /\ UNCHANGED <<clock, frames, broken, readVars>>

WriteFails(s) ==
  /\ step[s] = "write" /\ broken
  /\ unwritten' = [unwritten EXCEPT ![s] = <<>>]
  /\ Release(s)
  /\ UNCHANGED <<clock, frames, wire, broken, readVars>>

\* What was on its way may arrive up to any byte.
Break ==
  /\ ~ broken
  /\ broken' = TRUE
  /\ \E n \in 0 .. Len(wire) : wire' = SubSeq(wire, 1, n)
  /\ UNCHANGED <<sendVars, readVars>>

-----------------------------------------------------------------------------
(* receive_message and the _recv_exact it calls twice.                     *)

Reading == reader \in {"header", "payload"}
Wanted  == IF reader = "header" THEN HeaderBytes ELSE announced

Remaining == Wanted - Len(got)

\* Mutant of ReceiveChunk: all that is there is taken.
ReceiveAll ==
  /\ Reading /\ wire # <<>>
  /\ got' = got \o wire
  /\ wire' = <<>>
  /\ UNCHANGED <<sendVars, broken, reader, announced, received>>

ReceiveChunk ==
  /\ Reading
  /\ \E n \in 1 .. Len(wire) :
       /\ n <= Remaining
       /\ got' = got \o SubSeq(wire, 1, n)
       /\ wire' = SubSeq(wire, n + 1, Len(wire))
  /\ UNCHANGED <<sendVars, broken, reader, announced, received>>

Raise == reader' = "raised" /\ UNCHANGED <<announced, received>>

\* Bytes that are not one frame's header give a size that is out of range, or
\* a payload that is not JSON.
ReadHeader ==
  /\ reader = "header" /\ Remaining = 0
  /\ got' = <<>>
  /\ LET n == got[1][1]
     IN  IF got = Header(n)
           THEN reader' = "payload" /\ announced' = frames[n].size /\ UNCHANGED received
           ELSE Raise
  /\ UNCHANGED <<sendVars, wire, broken>>

ReadPayload ==
  /\ reader = "payload" /\ Remaining = 0
  /\ got' = <<>>
  /\ LET n == got[1][1]
     IN  IF got = Payload(n)
           THEN reader' = "header" /\ received' = Append(received, frames[n]) /\ UNCHANGED announced
           ELSE Raise
  /\ UNCHANGED <<sendVars, wire, broken>>

\* recv returns nothing, or raises.
EndOfStream ==
  /\ Reading /\ Remaining > 0
  /\ broken /\ wire = <<>>
  /\ Raise
  /\ UNCHANGED <<sendVars, wire, broken, got>>

-----------------------------------------------------------------------------
Holding(s) == AdvanceClock(s) \/ Encode(s) \/ Write(s) \/ WriteFails(s)
Receiving  == ReceiveChunk \/ ReadHeader \/ ReadPayload \/ EndOfStream

FrameNext ==
  \/ MoveClock \/ Break \/ Receiving
  \/ \E s \in Senders : Acquire(s) \/ Holding(s)

FrameSpec == FrameInit /\ [][FrameNext]_frameVars

\* The thread that holds the lock and the one that receives go on.
FairFrameSpec == FrameSpec /\ WF_frameVars(\E s \in Senders : Holding(s)) /\ WF_frameVars(Receiving)

-----------------------------------------------------------------------------
FrameTypeOK ==
  /\ clock \in 0 .. MaxClock
  /\ lock \in Senders \cup {Free}
  /\ step \in [Senders -> {"idle", "advance", "encode", "write"}]
  /\ frames \in Seq(Message)
  /\ unwritten \in [Senders -> Seq(Nat \X Nat)]
  /\ wire \in Seq(Nat \X Nat)
  /\ broken \in BOOLEAN
  /\ reader \in {"header", "payload", "raised"}
  /\ announced \in 0 .. MaxFrameBytes
  /\ got \in Seq(Nat \X Nat)
  /\ Reading => Len(got) <= Wanted
  /\ received \in Seq(Message)

(* The messages received over one connection carry increasing times,       *)
(* although advance() and read() are two calls and other threads move the  *)
(* clock between them (_send, LogicalClock).                               *)
ClocksIncrease ==
  \A i, j \in DOMAIN received : i < j => received[i].clock < received[j].clock

(* Whatever the pieces and wherever the connection breaks, the threads'    *)
(* frames arrive whole, once and in order, and nothing else is taken for a *)
(* message (_recv_exact, receive_message, send_lock).                      *)
Link == INSTANCE OrderedLink WITH sent <- frames, over <- reader = "raised"

ImplementsLink == Link!Spec
=============================================================================
