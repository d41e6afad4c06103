------------------ MODULE OrderedLink ------------------
(* What the two ends of a connection rely on: whole messages, each once, in *)
(* the order they were sent, up to a break of the connection; the receiver  *)
(* gives up only after a break; and a message sent on an unbroken           *)
(* connection arrives.                                                      *)
EXTENDS Naturals, Sequences

CONSTANT Message

VARIABLES sent, received, broken, over

Init ==
  /\ sent = <<>>
  /\ received = <<>>
  /\ broken = FALSE
  /\ over = FALSE

Send ==
  /\ ~ broken
  /\ \E m \in Message : sent' = Append(sent, m)
  /\ UNCHANGED <<received, broken, over>>

Receive ==
  /\ ~ over
  /\ Len(received) < Len(sent)
  /\ received' = Append(received, sent[Len(received) + 1])
  /\ UNCHANGED <<sent, broken, over>>

Break   == ~ broken /\ broken' = TRUE /\ UNCHANGED <<sent, received, over>>
GiveUp  == broken /\ ~ over /\ over' = TRUE /\ UNCHANGED <<sent, received, broken>>

Next == Send \/ Receive \/ Break \/ GiveUp

vars == <<sent, received, broken, over>>

Spec == Init /\ [][Next]_vars /\ WF_vars(~ broken /\ Receive)
========================================================
