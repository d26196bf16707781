---------------------------- MODULE Worker_proofs ----------------------------
(***************************************************************************)
(* Proofs about Worker, for every size of the queues and without the bound *)
(* on messages.  The queues: what one holds is an interval of the numbers  *)
(* of the messages sent, kept by both ends.  The stop: after a wait that   *)
(* began late the thread is past the places where a wait can begin.        *)
(***************************************************************************)
EXTENDS Worker, SequenceTheorems, TLAPS

-----------------------------------------------------------------------------
(* Sequences that are intervals of numbers.                                  *)

\* s holds the Len(s) numbers up to n.
Upto(s, n) == \A i \in 1..Len(s) : s[i] = n - Len(s) + i

LEMMA UptoAppend ==
  ASSUME NEW s \in Seq(Nat), NEW n \in Nat, Upto(s, n)
  PROVE  /\ Append(s, n + 1) \in Seq(Nat) /\ Append(s, n + 1) # <<>>
         /\ Len(Append(s, n + 1)) = Len(s) + 1 /\ Len(s) \in Nat
         /\ Upto(Append(s, n + 1), n + 1)
  <1> DEFINE t == Append(s, n + 1)
  <1>1. /\ t \in Seq(Nat) /\ t # <<>> /\ Len(t) = Len(s) + 1 /\ t[Len(s) + 1] = n + 1
        /\ \A i \in 1..Len(s) : t[i] = s[i]
        /\ Len(s) \in Nat
    BY AppendProperties, LenProperties
  <1> HIDE DEF t
  <1>2. ASSUME NEW i \in 1..Len(t)
        PROVE  t[i] = n + 1 - Len(t) + i
    <2>1. CASE i = Len(s) + 1
      BY <1>1, <2>1
    <2>2. CASE i \in 1..Len(s)
      BY <1>1, <2>2 DEF Upto
    <2> QED
      BY <1>1, <2>1, <2>2
  <1>3. Upto(t, n + 1)
    BY <1>2 DEF Upto
  <1> QED
    BY <1>1, <1>3 DEF t

LEMMA UptoTail ==
  ASSUME NEW s \in Seq(Nat), NEW n \in Nat, Upto(s, n), s # <<>>
  PROVE  /\ Tail(s) \in Seq(Nat)
         /\ Len(s) \in Nat \ {0} /\ Len(Tail(s)) = Len(s) - 1
         /\ Upto(Tail(s), n)
         /\ Head(s) \in Nat /\ Head(s) = n - Len(s) + 1
  <1>1. /\ Tail(s) \in Seq(Nat) /\ Len(Tail(s)) = Len(s) - 1 /\ Head(s) \in Nat
        /\ \A i \in 1..Len(Tail(s)) : Tail(s)[i] = s[i + 1]
    BY HeadTailProperties
  <1>2. Len(s) \in Nat \ {0}
    BY EmptySeq, LenProperties
  <1>3. Head(s) = s[1]
    OBVIOUS
  <1>4. Head(s) = n - Len(s) + 1
    BY <1>2, <1>3 DEF Upto
  <1>5. ASSUME NEW i \in 1..Len(Tail(s))
        PROVE  Tail(s)[i] = n - Len(Tail(s)) + i
    <2>1. i + 1 \in 1..Len(s)
      BY <1>1, <1>2
    <2>2. s[i + 1] = n - Len(s) + (i + 1)
      BY <2>1 DEF Upto
    <2> QED
      BY <1>1, <1>2, <2>2
  <1> QED
    BY <1>1, <1>2, <1>4, <1>5 DEF Upto

-----------------------------------------------------------------------------
(* The queues.                                                               *)

QueuesOK ==
  /\ queue \in [Ways -> Seq(Nat)]
  /\ sent \in [Ways -> Nat] /\ received \in [Ways -> Nat]
  /\ \A w \in Ways : Len(queue[w]) <= Cap /\ Upto(queue[w], sent[w]) /\ Gap(w) >= 0

\* QueuesOK is what TypeOK and NewestKept say of the queues.
LEMMA QueuesOKMeans ==
  ASSUME queue \in [Ways -> Seq(Nat)]
  PROVE  (\A w \in Ways : Upto(queue[w], sent[w]) /\ Gap(w) >= 0) <=> NewestKept
  <1>1. \A w \in Ways : DOMAIN queue[w] = 1..Len(queue[w])
    BY LenProperties
  <1> QED
    BY <1>1 DEF NewestKept, Upto

LEMMA SendKeepsQueues ==
  ASSUME QueuesOK, NEW w \in Ways, Send(w)
  PROVE  QueuesOK' /\ Window!Put(w)
  <1> DEFINE s == queue[w]
             n == sent[w]
             t == Append(s, n + 1)
             q == queue'[w]
  <1> USE WorkerConstants
  <1>1. s \in Seq(Nat) /\ n \in Nat /\ Upto(s, n) /\ Len(s) <= Cap /\ Gap(w) >= 0
    BY DEF QueuesOK
  <1>2. /\ t \in Seq(Nat) /\ t # <<>> /\ Len(t) = Len(s) + 1 /\ Len(s) \in Nat
        /\ Upto(t, n + 1)
    BY <1>1, UptoAppend
  <1>3. /\ Tail(t) \in Seq(Nat) /\ Len(Tail(t)) = Len(s) /\ Upto(Tail(t), n + 1)
    <2>1. n + 1 \in Nat
      BY <1>1
    <2> HIDE DEF t
    <2>2. Tail(t) \in Seq(Nat) /\ Len(Tail(t)) = Len(t) - 1 /\ Upto(Tail(t), n + 1)
      BY <1>2, <2>1, UptoTail
    <2> QED
      BY <1>2, <2>2
  <1>4. q = IF Len(s) + 1 > Cap THEN Tail(t) ELSE t
    BY DEF Send, QueuesOK
  <1>5. /\ queue' = [queue EXCEPT ![w] = q] /\ sent' = [sent EXCEPT ![w] = n + 1]
        /\ received' = received
    BY DEF Send, QueuesOK
  <1>6. /\ sent'[w] = n + 1 /\ sent'[w] \in Nat /\ received'[w] = received[w]
        /\ received[w] \in Nat
    BY <1>1, <1>5 DEF QueuesOK
  <1>7. /\ q \in Seq(Nat) /\ Upto(q, n + 1)
        /\ Len(q) = IF Len(s) + 1 > Cap THEN Len(s) ELSE Len(s) + 1
    BY <1>2, <1>3, <1>4
  <1>8. Gap(w) = n - Len(s) - received[w] /\ Gap(w)' = n + 1 - Len(q) - received[w]
    <2>1. Gap(w) = n - Len(s) - received[w]
      BY DEF Gap
    <2>2. Gap(w)' = sent'[w] - Len(q) - received'[w]
      BY DEF Gap
    <2> HIDE DEF s, n, t, q
    <2>3. n \in Nat /\ Len(s) \in Nat /\ Len(q) \in Nat
      BY <1>1, <1>2, <1>7
    <2> QED
      BY <1>6, <2>1, <2>2, <2>3
  <1> HIDE DEF s, n, t, q
  <1>9. Len(q) <= Cap /\ Gap(w)' >= 0
    <2>1. n \in Nat /\ Len(s) \in Nat /\ received[w] \in Nat /\ Cap \in Nat
      BY <1>1, <1>2, <1>6
    <2>2. Len(s) <= Cap /\ n - Len(s) - received[w] >= 0
      BY <1>1, <1>8
    <2>3. Len(q) \in {Len(s), Len(s) + 1} /\ Len(q) <= Cap
      BY <1>7, <2>1, <2>2
    <2> QED
      BY <1>8, <2>1, <2>2, <2>3
  <1>10. \A v \in Ways \ {w} :
           queue'[v] = queue[v] /\ sent'[v] = sent[v] /\ received'[v] = received[v]
    BY <1>5 DEF QueuesOK
  <1>11. \A v \in Ways \ {w} : Gap(v)' = Gap(v)
    BY <1>10 DEF Gap
  <1>12. Window!Put(w)
    <2>1. Front[w] = n - Len(s) /\ Front'[w] = sent'[w] - Len(q)
      BY DEF Front, s, n, q
    <2>2. Window!Full(w) <=> Len(s) = Cap
      BY <1>1, <1>2, <2>1 DEF Window!Full, n
    <2>3. Front'[w] = IF Window!Full(w) THEN Front[w] + 1 ELSE Front[w]
      <3>1. n \in Nat /\ Len(s) \in Nat /\ Cap \in Nat /\ Len(s) <= Cap
        BY <1>1, <1>2
      <3>2. Len(q) = IF Len(s) = Cap THEN Len(s) ELSE Len(s) + 1
        BY <1>7, <3>1
      <3>3. CASE Window!Full(w)
        BY <1>6, <2>1, <2>2, <3>1, <3>2, <3>3
      <3>4. CASE ~Window!Full(w)
        BY <1>6, <2>1, <2>2, <3>1, <3>2, <3>4
      <3> QED
        BY <3>3, <3>4
    <2>4. \A v \in Ways \ {w} : Front'[v] = Front[v]
      BY <1>10 DEF Front
    <2>5. Front' = [Front EXCEPT ![w] = IF Window!Full(w) THEN @ + 1 ELSE @]
      BY <2>3, <2>4 DEF Front
    <2> QED
      BY <1>5, <2>5 DEF Window!Put, n
  <1>13. queue' \in [Ways -> Seq(Nat)] /\ sent' \in [Ways -> Nat] /\ received' \in [Ways -> Nat]
    BY <1>5, <1>6, <1>7 DEF QueuesOK, q
  <1>14. ASSUME NEW v \in Ways
         PROVE  Len(queue'[v]) <= Cap /\ Upto(queue'[v], sent'[v]) /\ Gap(v)' >= 0
    <2>1. CASE v = w
      BY <1>6, <1>7, <1>9, <2>1 DEF q
    <2>2. CASE v # w
      BY <1>10, <1>11, <2>2 DEF QueuesOK
    <2> QED
      BY <2>1, <2>2
  <1> QED
    BY <1>12, <1>13, <1>14 DEF QueuesOK

LEMMA ReceiveKeepsQueues ==
  ASSUME QueuesOK, NEW w \in Ways, Receive(w)
  PROVE  QueuesOK' /\ Window!Take(w)
  <1> DEFINE s == queue[w]
             n == sent[w]
  <1>1. s \in Seq(Nat) /\ n \in Nat /\ Upto(s, n) /\ s # <<>> /\ Gap(w) >= 0
    BY DEF QueuesOK, Receive
  <1>2. /\ Tail(s) \in Seq(Nat) /\ Len(s) \in Nat \ {0} /\ Len(Tail(s)) = Len(s) - 1
        /\ Upto(Tail(s), n) /\ Head(s) \in Nat /\ Head(s) = n - Len(s) + 1
    BY <1>1, UptoTail
  <1>3. /\ queue' = [queue EXCEPT ![w] = Tail(s)] /\ sent' = sent
        /\ received' = [received EXCEPT ![w] = Head(s)]
    BY DEF Receive
  <1>4. /\ queue'[w] = Tail(s) /\ sent'[w] = n /\ received'[w] = Head(s)
        /\ received[w] \in Nat
    BY <1>3 DEF QueuesOK
  <1>5. Len(s) <= Cap
    BY DEF QueuesOK
  <1>6. Gap(w) = n - Len(s) - received[w] /\ Gap(w)' = n - Len(Tail(s)) - Head(s)
    <2>1. Gap(w) = sent[w] - Len(queue[w]) - received[w]
      BY DEF Gap
    <2>2. Gap(w)' = sent'[w] - Len(queue'[w]) - received'[w]
      BY DEF Gap
    <2> QED
      BY <1>4, <2>1, <2>2
  <1> HIDE DEF s, n
  <1>7. Gap(w)' >= 0 /\ Len(Tail(s)) <= Cap
    <2>1. Gap(w)' = 0
      BY <1>1, <1>2, <1>6
    <2>2. Len(Tail(s)) <= Cap
      BY <1>2, <1>5, WorkerConstants
    <2> QED
      BY <2>1, <2>2
  <1>8. \A v \in Ways \ {w} :
          queue'[v] = queue[v] /\ sent'[v] = sent[v] /\ received'[v] = received[v]
    BY <1>3 DEF QueuesOK
  <1>9. Window!Take(w)
    <2>1. Front[w] = n - Len(s) /\ Front'[w] = n - Len(Tail(s))
      BY <1>4 DEF Front, s, n
    <2>2. Front[w] < sent[w] /\ Front'[w] = Front[w] + 1 /\ Head(s) = Front[w] + 1
      BY <1>1, <1>2, <2>1 DEF n
    <2>3. \A v \in Ways \ {w} : Front'[v] = Front[v]
      BY <1>8 DEF Front
    <2>4. Front' = [Front EXCEPT ![w] = @ + 1]
      BY <2>2, <2>3 DEF Front
    <2> QED
      BY <1>3, <2>2, <2>4 DEF Window!Take
  <1>10. \A v \in Ways \ {w} : Gap(v)' = Gap(v)
    BY <1>8 DEF Gap
  <1>11. queue' \in [Ways -> Seq(Nat)] /\ sent' \in [Ways -> Nat] /\ received' \in [Ways -> Nat]
    BY <1>2, <1>3 DEF QueuesOK
  <1>12. ASSUME NEW v \in Ways
         PROVE  Len(queue'[v]) <= Cap /\ Upto(queue'[v], sent'[v]) /\ Gap(v)' >= 0
    <2>1. CASE v = w
      BY <1>2, <1>4, <1>7, <2>1
    <2>2. CASE v # w
      BY <1>8, <1>10, <2>2 DEF QueuesOK
    <2> QED
      BY <2>1, <2>2
  <1> QED
    BY <1>9, <1>11, <1>12 DEF QueuesOK

\* A step keeps the queues, and is a step of the window or changes nothing of it.
LEMMA QueueStep ==
  ASSUME QueuesOK, [Next]_vars
  PROVE  QueuesOK' /\ [Window!Next]_(Window!windowVars)
  <1>1. CASE \E w \in Ways : Send(w)
    BY <1>1, SendKeepsQueues DEF Window!Next
  <1>2. CASE \E w \in Ways : Receive(w)
    BY <1>2, ReceiveKeepsQueues DEF Window!Next
  <1>3. CASE UNCHANGED <<queue, sent, received>>
    BY <1>3 DEF QueuesOK, Gap, Upto, Front, Window!windowVars
  <1>4. CASE MainSends \/ MainReceives
    BY <1>1, <1>2, <1>4 DEF MainSends, MainReceives, Ways
  <1>5. CASE ScriptSends \/ ScriptReceives
    BY <1>1, <1>2, <1>5 DEF ScriptSends, ScriptReceives, Ways
  <1>6. CASE Stop \/ Notify \/ Join \/ Thread \/ ScriptSleeps \/ ScriptEnds
    BY <1>3, <1>6 DEF Stop, Notify, Join, Thread, SleepReturns, LoopTests, LoopWaits,
       TimesOut, ScriptSleeps, ScriptEnds
  <1>7. CASE UNCHANGED vars
    BY <1>3, <1>7 DEF vars
  <1> QED
    BY <1>4, <1>5, <1>6, <1>7 DEF Next, Main, Script, Joined

LEMMA QueuesOKInit == Init => QueuesOK
  <1> SUFFICES ASSUME Init PROVE QueuesOK
    OBVIOUS
  <1>1. <<>> \in Seq(Nat) /\ Len(<<>>) = 0
    OBVIOUS
  <1>2. \A w \in Ways : queue[w] = <<>> /\ sent[w] = 0 /\ received[w] = 0
    BY DEF Init
  <1>3. queue \in [Ways -> Seq(Nat)] /\ sent \in [Ways -> Nat] /\ received \in [Ways -> Nat]
    BY <1>1 DEF Init
  <1>4. \A w \in Ways : Len(queue[w]) <= Cap /\ Upto(queue[w], sent[w]) /\ Gap(w) >= 0
    BY <1>1, <1>2, WorkerConstants DEF Upto, Gap
  <1> QED
    BY <1>3, <1>4 DEF QueuesOK

-----------------------------------------------------------------------------
(* The places of the two threads.                                            *)

PlacesOK ==
  /\ heeds \in BOOLEAN /\ stopped \in BOOLEAN
  /\ main \in MainPlaces /\ worker \in WorkerPlaces
  /\ lateWaits \in 0..2

LEMMA PlacesOKStep == PlacesOK /\ [Next]_vars => PlacesOK'
  <1> SUFFICES ASSUME PlacesOK, [Next]_vars PROVE PlacesOK'
    OBVIOUS
  <1> USE DEF PlacesOK, MainPlaces, WorkerPlaces
  <1>1. CASE MainSends \/ MainReceives \/ ScriptSends \/ ScriptReceives
    BY <1>1 DEF MainSends, MainReceives, ScriptSends, ScriptReceives, Send, Receive
  <1>2. CASE Stop \/ Join
    BY <1>2 DEF Stop, Join
  <1>3. CASE Notify
    BY <1>3 DEF Notify
  <1>4. CASE SleepReturns \/ LoopTests \/ TimesOut \/ ScriptEnds
    BY <1>4 DEF SleepReturns, LoopTests, TimesOut, ScriptEnds
  <1>5. CASE LoopWaits \/ ScriptSleeps
    BY <1>5 DEF LoopWaits, ScriptSleeps, CountWait
  <1>6. CASE UNCHANGED vars
    BY <1>6 DEF vars
  <1> QED
    BY <1>1, <1>2, <1>3, <1>4, <1>5, <1>6 DEF Next, Main, Thread, Script, Joined

\* A late wait is the last one: it is gone on to the end from there.
AfterLateWait ==
  lateWaits > 0 =>
    /\ stopped
    /\ heeds =>
         lateWaits = 1 /\ worker \in {"sleeping", "slept", "told", "waiting", "loop", "ended"}

LEMMA StopStep ==
  ASSUME PlacesOK, AfterLateWait, StopWakes, [Next]_vars
  PROVE  AfterLateWait' /\ StopWakes'
  <1> USE DEF PlacesOK, MainPlaces, WorkerPlaces, AfterLateWait, StopWakes, Waiting
  <1>1. CASE MainSends \/ MainReceives \/ ScriptSends \/ ScriptReceives
    <2>1. UNCHANGED <<heeds, stopped, main, worker, lateWaits>>
      BY <1>1 DEF MainSends, MainReceives, ScriptSends, ScriptReceives, Send, Receive
    <2> QED
      BY <2>1
  <1>2. CASE Stop \/ Join
    BY <1>2 DEF Stop, Join
  <1>3. CASE Notify
    BY <1>3 DEF Notify
  <1>4. CASE SleepReturns \/ LoopTests \/ TimesOut \/ ScriptEnds
    BY <1>4 DEF SleepReturns, LoopTests, TimesOut, ScriptEnds, InScript
  <1>5. CASE LoopWaits \/ ScriptSleeps
    BY <1>5 DEF LoopWaits, ScriptSleeps, CountWait
  <1>6. CASE UNCHANGED vars
    BY <1>6 DEF vars
  <1> QED
    BY <1>1, <1>2, <1>3, <1>4, <1>5, <1>6 DEF Next, Main, Thread, Script, Joined

-----------------------------------------------------------------------------
Inv == QueuesOK /\ PlacesOK /\ AfterLateWait /\ StopWakes

LEMMA Invariance == Spec => []Inv
  <1>1. Init => Inv
    <2> SUFFICES ASSUME Init PROVE Inv
      OBVIOUS
    <2>1. stopped = FALSE /\ main = "lua" /\ worker = "script" /\ lateWaits = 0
      BY DEF Init
    <2>2. PlacesOK
      <3>1. heeds \in BOOLEAN /\ stopped \in BOOLEAN
        BY <2>1, Zenon DEF Init
      <3>2. main \in MainPlaces /\ worker \in WorkerPlaces /\ lateWaits \in 0..2
        BY <2>1 DEF MainPlaces, WorkerPlaces
      <3> QED
        BY <3>1, <3>2 DEF PlacesOK
    <2>3. AfterLateWait
      <3>1. ~(lateWaits > 0)
        BY <2>1
      <3> QED
        BY <3>1 DEF AfterLateWait
    <2>4. StopWakes
      <3>1. ~stopped
        BY <2>1
      <3> QED
        BY <3>1 DEF StopWakes
    <2> QED
      BY <2>2, <2>3, <2>4, QueuesOKInit DEF Inv
  <1>2. Inv /\ [Next]_vars => Inv'
    BY QueueStep, PlacesOKStep, StopStep DEF Inv
  <1> QED
    BY <1>1, <1>2, PTL DEF Spec

\* The state keeps its types, and no queue outgrows its limit.
THEOREM TypeCorrect == Spec => []TypeOK
  <1>1. Inv => TypeOK
    BY DEF Inv, QueuesOK, PlacesOK, TypeOK
  <1> QED
    BY <1>1, Invariance, PTL

\* A queue always holds the newest messages of its way without a hole, whatever
\* the two threads do: messages arrive in order and at most once.
THEOREM NewestAreKept == Spec => []NewestKept
  <1>1. Inv => NewestKept
    BY QueuesOKMeans DEF Inv, QueuesOK
  <1> QED
    BY <1>1, Invariance, PTL

\* The detailed queues implement the abstract window: messages leave in order,
\* and unreceived ones only from a full queue, for every size of the queues.
THEOREM WorkerImplementsWindow == Spec => ImplementsWindow
  <1>1. Init => Window!Init
    <2> SUFFICES ASSUME Init PROVE Window!Init
      OBVIOUS
    <2>1. \A w \in Ways : sent[w] - Len(queue[w]) = 0
      BY DEF Init
    <2> QED
      BY <2>1 DEF Init, Front, Window!Init
  <1>2. Inv /\ [Next]_vars => [Window!Next]_(Window!windowVars)
    BY QueueStep DEF Inv
  <1> QED
    BY <1>1, <1>2, Invariance, PTL DEF Spec, ImplementsWindow, Window!Spec

\* stop wakes every wait that began before stopped was set.
THEOREM StopWakesWaits == Spec => []StopWakes
  <1>1. Inv => StopWakes
    BY DEF Inv
  <1> QED
    BY <1>1, Invariance, PTL

\* At most one wait is missed on the way to the end of a script that heeds.
THEOREM OneLateWaitAtMost == Spec => []OneLateWait
  <1>1. Inv => OneLateWait
    BY DEF Inv, PlacesOK, AfterLateWait, OneLateWait
  <1> QED
    BY <1>1, Invariance, PTL

=============================================================================
