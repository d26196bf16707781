---------------------------- MODULE SlidingWindow ----------------------------
(***************************************************************************)
(* What the two ends of a worker's queue may rely on, without the queue:   *)
(* per way the messages are numbered, and those that can still be received *)
(* are the numbers in front + 1 .. sent.  The window holds at most Cap     *)
(* numbers.  It only moves on when its first message is taken, or has to   *)
(* make room for a new one.                                                *)
(***************************************************************************)
EXTENDS Integers

CONSTANTS
  Ways,   \* the channels
  Cap     \* messages a channel keeps

VARIABLES
  sent,     \* number of the last message put in
  front,    \* number of the last message that left, received or dropped
  received  \* number of the last message received

windowVars == <<sent, front, received>>

Init ==
  /\ sent = [w \in Ways |-> 0]
  /\ front = [w \in Ways |-> 0]
  /\ received = [w \in Ways |-> 0]

Full(w) == sent[w] - front[w] = Cap

Put(w) ==
  /\ sent' = [sent EXCEPT ![w] = @ + 1]
  /\ front' = [front EXCEPT ![w] = IF Full(w) THEN @ + 1 ELSE @]
  /\ UNCHANGED received

Take(w) ==
  /\ front[w] < sent[w]
  /\ front' = [front EXCEPT ![w] = @ + 1]
  /\ received' = [received EXCEPT ![w] = front[w] + 1]
  /\ UNCHANGED sent

Next == \E w \in Ways : Put(w) \/ Take(w)

Spec == Init /\ [][Next]_windowVars

=============================================================================
