------------------------------- MODULE Channel -------------------------------
(***************************************************************************)
(* What the two processes at a pipe may rely on, without the pipe: per way *)
(* the messages are numbered, and they are received one after another,     *)
(* until the channel breaks.  From then on messages may be lost, but what  *)
(* is received is still newer than all that was received before.           *)
(***************************************************************************)
EXTENDS Integers

CONSTANT Ways  \* the channels

VARIABLES
  sent,      \* number of the last message sent
  received,  \* number of the last message received
  broken     \* the stream is out of step

channelVars == <<sent, received, broken>>

Init ==
  /\ sent = [w \in Ways |-> 0]
  /\ received = [w \in Ways |-> 0]
  /\ broken = [w \in Ways |-> FALSE]

Send(w) ==
  /\ sent' = [sent EXCEPT ![w] = @ + 1]
  /\ UNCHANGED <<received, broken>>

Receive(w) ==
  /\ ~broken[w] /\ received[w] < sent[w]
  /\ received' = [received EXCEPT ![w] = @ + 1]
  /\ UNCHANGED <<sent, broken>>

Break(w) ==
  /\ broken' = [broken EXCEPT ![w] = TRUE]
  /\ UNCHANGED <<sent, received>>

ReceiveLater(w) ==
  /\ broken[w]
  /\ \E m \in (received[w] + 1)..sent[w] : received' = [received EXCEPT ![w] = m]
  /\ UNCHANGED <<sent, broken>>

Next == \E w \in Ways : Send(w) \/ Receive(w) \/ Break(w) \/ ReceiveLater(w)

Spec == Init /\ [][Next]_channelVars

=============================================================================
