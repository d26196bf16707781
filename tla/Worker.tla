------------------------------- MODULE Worker -------------------------------
(***************************************************************************)
(* Worker (worker.cpp): a thread with a Lua script of its own.  It has two *)
(* queues of messages, one each way, that drop their oldest message when   *)
(* they are full; stop and the destructor tell it to end.                  *)
(*                                                                         *)
(* Messages are numbered per direction in the order they are sent.  What   *)
(* is done under one lock is one step, and so is taking destructionMutex   *)
(* and waiting on it; stopped is atomic and tested outside the lock.  A    *)
(* wait may time out, or wake up by itself, at any time.                   *)
(***************************************************************************)
EXTENDS Integers, Sequences

CONSTANTS
  Cap,      \* messages a queue holds (2047)
  MaxSent   \* bound: messages sent each way

ASSUME WorkerConstants == Cap \in Nat \ {0} /\ MaxSent \in Nat

VARIABLES
  heeds,      \* whether the script ends once sleep has returned true
  queue,      \* sendMessageQueue, receiveMessageQueue
  sent,       \* number of the last message sent
  received,   \* number of the last message received
  stopped,
  main,       \* where the main thread is
  worker,     \* where the worker's thread is
  lateWaits   \* waits that began when stopped was set already; 2 is many

vars == <<heeds, queue, sent, received, stopped, main, worker, lateWaits>>

Ways == {"to worker", "to main"}

MainPlaces   == {"lua", "stopping", "destroying", "joining", "joined"}
WorkerPlaces == {"script", "sleeping", "slept", "told", "loop", "wait", "waiting", "ended"}

Waiting == worker \in {"sleeping", "waiting"}

Init ==
  /\ heeds \in BOOLEAN
  /\ queue = [w \in Ways |-> <<>>]
  /\ sent = [w \in Ways |-> 0]
  /\ received = [w \in Ways |-> 0]
  /\ stopped = FALSE
  /\ main = "lua"
  /\ worker = "script"
  /\ lateWaits = 0

-----------------------------------------------------------------------------
(* The queues.                                                              *)

\* Faulty: a full queue refuses the new message.
SendRefused(w) ==
  /\ sent[w] < MaxSent
  /\ sent' = [sent EXCEPT ![w] = @ + 1]
  /\ queue' = [queue EXCEPT ![w] = IF Len(@) < Cap THEN Append(@, sent[w] + 1) ELSE @]
  /\ UNCHANGED <<heeds, received, stopped, main, worker, lateWaits>>

\* Faulty: a message is dropped one too early.
SendDropsEarly(w) ==
  /\ sent[w] < MaxSent
  /\ sent' = [sent EXCEPT ![w] = @ + 1]
  /\ queue' = [queue EXCEPT ![w] =
       IF Len(@) + 1 >= Cap /\ @ # <<>> THEN Tail(Append(@, sent[w] + 1))
                                        ELSE Append(@, sent[w] + 1)]
  /\ UNCHANGED <<heeds, received, stopped, main, worker, lateWaits>>

Send(w) ==
  /\ sent[w] < MaxSent
  /\ sent' = [sent EXCEPT ![w] = @ + 1]
  /\ queue' = [queue EXCEPT ![w] =
       IF Len(@) + 1 > Cap THEN Tail(Append(@, sent[w] + 1))
                           ELSE Append(@, sent[w] + 1)]
  /\ UNCHANGED <<heeds, received, stopped, main, worker, lateWaits>>

\* An empty queue answers nil and changes nothing.
Receive(w) ==
  /\ queue[w] # <<>>
  /\ received' = [received EXCEPT ![w] = Head(queue[w])]
  /\ queue' = [queue EXCEPT ![w] = Tail(@)]
  /\ UNCHANGED <<heeds, sent, stopped, main, worker, lateWaits>>

-----------------------------------------------------------------------------
(* The main thread.                                                         *)

\* A stopped worker is sent nothing any more.
MainSends    == main = "lua" /\ ~stopped /\ Send("to worker")
MainReceives == main = "lua" /\ Receive("to main")

\* stop, and the destructor that begins with it, up to its notify_all.
Stop ==
  /\ main = "lua"
  /\ main' \in {"stopping", "destroying"}
  /\ stopped' = TRUE
  /\ UNCHANGED <<heeds, queue, sent, received, worker, lateWaits>>

\* Faulty: nobody is woken.
NotifyNobody ==
  /\ main \in {"stopping", "destroying"}
  /\ main' = IF main = "stopping" THEN "lua" ELSE "joining"
  /\ UNCHANGED <<heeds, queue, sent, received, stopped, worker, lateWaits>>

Notify ==
  /\ main \in {"stopping", "destroying"}
  /\ main' = IF main = "stopping" THEN "lua" ELSE "joining"
  /\ worker' = CASE worker = "sleeping" -> "slept"
                 [] worker = "waiting"  -> "loop"
                 [] OTHER               -> worker
  /\ UNCHANGED <<heeds, queue, sent, received, stopped, lateWaits>>

Join ==
  /\ main = "joining" /\ worker = "ended"
  /\ main' = "joined"
  /\ UNCHANGED <<heeds, queue, sent, received, stopped, worker, lateWaits>>

-----------------------------------------------------------------------------
(* The worker's thread.                                                     *)

\* What the script may still do after sleep has told it to stop is up to it.
InScript == worker \in {"script", "told"}

ScriptSends    == InScript /\ Send("to main")
ScriptReceives == InScript /\ Receive("to worker")

CountWait == lateWaits' = IF stopped /\ lateWaits < 2 THEN lateWaits + 1 ELSE lateWaits

ScriptSleeps ==
  /\ worker = "script"
  /\ worker' = "sleeping"
  /\ CountWait
  /\ UNCHANGED <<heeds, queue, sent, received, stopped, main>>

\* Faulty: sleep does not look at stopped.
SleepReturnsFalse ==
  /\ worker = "slept"
  /\ worker' = "script"
  /\ UNCHANGED <<heeds, queue, sent, received, stopped, main, lateWaits>>

SleepReturns ==
  /\ worker = "slept"
  /\ worker' = IF stopped /\ heeds THEN "told" ELSE "script"
  /\ UNCHANGED <<heeds, queue, sent, received, stopped, main, lateWaits>>

\* The script comes to its end, fails, or could not be loaded.
ScriptEnds ==
  /\ InScript
  /\ worker' = "loop"
  /\ UNCHANGED <<heeds, queue, sent, received, stopped, main, lateWaits>>

LoopTests ==
  /\ worker = "loop"
  /\ worker' = IF stopped THEN "ended" ELSE "wait"
  /\ UNCHANGED <<heeds, queue, sent, received, stopped, main, lateWaits>>

LoopWaits ==
  /\ worker = "wait"
  /\ worker' = "waiting"
  /\ CountWait
  /\ UNCHANGED <<heeds, queue, sent, received, stopped, main>>

\* Faulty: a wait without a timeout.
NeverTimesOut ==
  /\ worker = "sleeping"
  /\ worker' = "slept"
  /\ UNCHANGED <<heeds, queue, sent, received, stopped, main, lateWaits>>

TimesOut ==
  /\ Waiting
  /\ worker' = IF worker = "sleeping" THEN "slept" ELSE "loop"
  /\ UNCHANGED <<heeds, queue, sent, received, stopped, main, lateWaits>>

-----------------------------------------------------------------------------
Main == MainSends \/ MainReceives \/ Stop \/ Notify \/ Join

\* What the thread does without the script's doing.
Thread == SleepReturns \/ LoopTests \/ LoopWaits \/ TimesOut

Script == ScriptSends \/ ScriptReceives \/ ScriptSleeps \/ ScriptEnds

Joined == main = "joined" /\ UNCHANGED vars

Next == Main \/ Thread \/ Script \/ Joined

Spec == Init /\ [][Next]_vars

\* Both threads go on, waits time out, and the script does not run for ever
\* without sleeping, whether it heeds or not.
FairSpec ==
  /\ Spec
  /\ WF_vars(Notify) /\ WF_vars(Join)
  /\ WF_vars(Thread)
  /\ WF_vars(ScriptSleeps \/ ScriptEnds)

-----------------------------------------------------------------------------
(* Properties.                                                              *)

\* Types; a queue never holds more than its limit.
TypeOK ==
  /\ heeds \in BOOLEAN
  /\ queue \in [Ways -> Seq(Nat)]
  /\ \A w \in Ways : Len(queue[w]) <= Cap
  /\ sent \in [Ways -> Nat] /\ received \in [Ways -> Nat]
  /\ stopped \in BOOLEAN
  /\ main \in MainPlaces /\ worker \in WorkerPlaces
  /\ lateWaits \in 0..2

\* Messages sent since the last one received that are not in the queue.
Gap(w) == sent[w] - Len(queue[w]) - received[w]

\* A queue holds the newest messages without a hole, so that messages arrive in
\* order, at most once, and only the oldest are ever lost.
NewestKept ==
  \A w \in Ways :
    /\ \A i \in DOMAIN queue[w] : queue[w][i] = sent[w] - Len(queue[w]) + i
    /\ Gap(w) >= 0

\* The queues, their locks and the two threads do what a sliding window does:
\* whatever the interleaving, messages leave in order, one at a time, and one
\* that was not received only to make room in a full queue.
Front  == [w \in Ways |-> sent[w] - Len(queue[w])]
Window == INSTANCE SlidingWindow WITH front <- Front

ImplementsWindow == Window!Spec

\* Once stop has returned, a wait of the worker that still goes on has begun
\* after stopped was set: no earlier wait is left unnotified.
StopWakes ==
  stopped /\ main \notin {"stopping", "destroying"} /\ Waiting => lateWaits > 0

\* A notify can be missed, between LoopTests and LoopWaits and by a script that
\* calls sleep too late, but if the script heeds sleep's answer only once: the
\* destructor blocks the main thread for one timeout at most.
OneLateWait == heeds => lateWaits <= 1

\* The destructor's join returns if the script heeds.
JoinReturns == main = "destroying" /\ heeds ~> main = "joined"

=============================================================================
