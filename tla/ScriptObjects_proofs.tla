------------------------ MODULE ScriptObjects_proofs ------------------------
(***************************************************************************)
(* Two of the objects that scripts make and call, FileWatcher and          *)
(* PointGraph, each by itself: their properties for any constants.         *)
(*                                                                         *)
(* The watcher: the kernel never gives a number out again, so what is      *)
(* known of a number (in the map, dropped, removed) stays known, also of   *)
(* the events still queued for it; and a path has a second entry only if   *)
(* it was added while it had one.                                          *)
(*                                                                         *)
(* The graph: a node is found once, from a node that was visited, so the   *)
(* predecessors cannot form a circle that the start is not on; the links   *)
(* of visited nodes have been followed; and if all cost the same, nodes    *)
(* are visited in the order of their distance.                             *)
(***************************************************************************)
EXTENDS FileWatcher, PointGraph, SequenceTheorems, FiniteSetTheorems,
        WellFoundedInduction, TLAPS

-----------------------------------------------------------------------------
(* The file watcher.                                                        *)

Types ==
  /\ added \in Nat
  /\ DOMAIN watches \subseteq 1..added
  /\ DOMAIN watchDescriptors \subseteq 1..added
  /\ removed \subseteq 1..added
  /\ DOMAIN watches \cap dropped = {}
  /\ queue \in Seq(Int)

\* What is known of every number in the queue.
Known(wd) == wd \in DOMAIN watchDescriptors \cup removed \cup {Overflow}

QueueKnown == \A k \in 1..Len(queue) : Known(queue[k])

\* An entry of a path that was removed, and two entries of one path, are there
\* only if the path was added while it had an entry.
SilentDoubled ==
  \A wd \in DOMAIN watchDescriptors :
    watchDescriptors[wd] \in silent => watchDescriptors[wd] \in doubled

SecondDoubled ==
  \A v, w \in DOMAIN watchDescriptors :
    v # w /\ watchDescriptors[v] = watchDescriptors[w] => watchDescriptors[v] \in doubled

\* The inductive invariant.
IInv ==
  /\ Types /\ MapMatchesKernel /\ QueueKnown /\ SilentDoubled /\ SecondDoubled
  /\ ThrowsOnlyForRemoved /\ NoReportAfterRemoval

-----------------------------------------------------------------------------
LEMMA WithFacts ==
  ASSUME NEW f, NEW x, NEW y
  PROVE  /\ DOMAIN With(f, x, y) = DOMAIN f \cup {x}
         /\ With(f, x, y)[x] = y
         /\ \A z \in DOMAIN f : z # x => With(f, x, y)[z] = f[z]
  BY DEF With

LEMMA WithoutFacts ==
  ASSUME NEW f, NEW x
  PROVE  /\ DOMAIN Without(f, x) = DOMAIN f \ {x}
         /\ \A z \in DOMAIN f \ {x} : Without(f, x)[z] = f[z]
  BY DEF Without, Restrict

\* The queue after an event of wd: nothing but wd and Overflow is new in it.
LEMMA QueuedFacts ==
  ASSUME queue \in Seq(Int), NEW wd \in Int
  PROVE  /\ Queued(wd) \in Seq(Int)
         /\ \A k \in 1..Len(Queued(wd)) :
              \/ Queued(wd)[k] \in {wd, Overflow}
              \/ k \in 1..Len(queue) /\ Queued(wd)[k] = queue[k]
  <1>1. \A e \in Int :
          /\ Append(queue, e) \in Seq(Int)
          /\ Len(Append(queue, e)) = Len(queue) + 1 /\ Len(queue) \in Nat
          /\ Append(queue, e)[Len(queue) + 1] = e
          /\ \A k \in 1..Len(queue) : Append(queue, e)[k] = queue[k]
    BY AppendProperties, LenProperties
  <1>2. Overflow \in Int
    BY DEF Overflow
  <1>3. \A e \in Int : \A k \in 1..Len(Append(queue, e)) :
          \/ Append(queue, e)[k] = e
          \/ k \in 1..Len(queue) /\ Append(queue, e)[k] = queue[k]
    BY <1>1
  <1>4. Queued(wd) \in {queue, Append(queue, wd), Append(queue, Overflow)}
    BY DEF Queued
  <1> QED
    BY <1>1, <1>2, <1>3, <1>4

\* A number stays known while the map only loses numbers that are removed.
LEMMA StaysKnown ==
  ASSUME QueueKnown, queue \in Seq(Int), NEW wd \in Int, queue' = Queued(wd),
         DOMAIN watchDescriptors \cup removed
           \subseteq (DOMAIN watchDescriptors)' \cup removed',
         wd \in (DOMAIN watchDescriptors)' \cup removed'
  PROVE  queue' \in Seq(Int) /\ QueueKnown'
  <1>1. \A k \in 1..Len(queue') :
          \/ queue'[k] \in {wd, Overflow}
          \/ k \in 1..Len(queue) /\ queue'[k] = queue[k]
    BY QueuedFacts
  <1>2. ASSUME NEW k \in 1..Len(queue')
        PROVE  Known(queue[k])'
    BY <1>1 DEF QueueKnown, Known, Overflow
  <1>3. queue' \in Seq(Int)
    BY QueuedFacts
  <1> QED
    BY <1>2, <1>3 DEF QueueKnown

LEMMA WatchOfFacts ==
  ASSUME NEW i
  PROVE  WatchOf(i) \in DOMAIN watches \/ WatchOf(i) = added + 1
  BY DEF WatchOf

-----------------------------------------------------------------------------
LEMMA InitIInv == Init => IInv
  <1> SUFFICES ASSUME Init
               PROVE  IInv
    OBVIOUS
  <1>1. /\ DOMAIN watches = {} /\ DOMAIN watchDescriptors = {}
        /\ removed = {} /\ dropped = {} /\ added = 0
        /\ queue = <<>> /\ queue \in Seq(Int) /\ Len(queue) = 0
        /\ last.did = "nothing"
    BY DEF Init, Quiet
  <1>2. Types /\ MapMatchesKernel
    BY <1>1 DEF Types, MapMatchesKernel
  <1>3. QueueKnown /\ SilentDoubled /\ SecondDoubled
    BY <1>1 DEF QueueKnown, SilentDoubled, SecondDoubled
  <1>4. ThrowsOnlyForRemoved /\ NoReportAfterRemoval
    BY <1>1 DEF ThrowsOnlyForRemoved, NoReportAfterRemoval
  <1> QED
    BY <1>2, <1>3, <1>4 DEF IInv

\* A step after which receiveEvent is not the last thing that happened.
LEMMA QuietStep ==
  ASSUME last' = Quiet
  PROVE  ThrowsOnlyForRemoved' /\ NoReportAfterRemoval'
  BY DEF Quiet, ThrowsOnlyForRemoved, NoReportAfterRemoval

LEMMA TouchedKeeps == IInv /\ Touched => IInv'
  <1> SUFFICES ASSUME IInv, Touched
               PROVE  IInv'
    OBVIOUS
  <1>1. PICK wd \in DOMAIN watches :
          /\ queue' = Queued(wd) /\ last' = Quiet
          /\ UNCHANGED <<watches, added, watchDescriptors, removed, dropped, silent, doubled>>
    BY DEF Touched
  <1>2. wd \in Int /\ wd \in DOMAIN watchDescriptors
    BY DEF IInv, Types, MapMatchesKernel
  <1>3. queue' \in Seq(Int) /\ QueueKnown'
    BY <1>1, <1>2, StaysKnown DEF IInv, Types
  <1>4. Types' /\ MapMatchesKernel' /\ SilentDoubled' /\ SecondDoubled'
    BY <1>1, <1>3 DEF IInv, Types, MapMatchesKernel, SilentDoubled, SecondDoubled
  <1> QED
    BY <1>1, <1>3, <1>4, QuietStep DEF IInv

LEMMA ReplacedKeeps ==
  ASSUME IInv, NEW p \in Paths, Replaced(p)
  PROVE  IInv'
  <1>1. /\ last' = Quiet
        /\ UNCHANGED <<added, watchDescriptors, removed, silent, doubled>>
        /\ \/ UNCHANGED <<watches, queue, dropped>>
           \/ \E wd \in DOMAIN watches :
                /\ watches' = Without(watches, wd)
                /\ queue' = Queued(wd)
                /\ dropped' = dropped \cup {wd}
    BY DEF Replaced
  <1>2. SilentDoubled' /\ SecondDoubled' /\ ThrowsOnlyForRemoved' /\ NoReportAfterRemoval'
    BY <1>1, QuietStep DEF IInv, SilentDoubled, SecondDoubled
  <1>3. CASE UNCHANGED <<watches, queue, dropped>>
    <2>1. Types' /\ MapMatchesKernel' /\ QueueKnown'
      BY <1>1, <1>3 DEF IInv, Types, MapMatchesKernel, QueueKnown, Known
    <2> QED
      BY <1>2, <2>1 DEF IInv
  <1>4. ASSUME NEW wd \in DOMAIN watches, watches' = Without(watches, wd),
               queue' = Queued(wd), dropped' = dropped \cup {wd}
        PROVE  IInv'
    <2>1. DOMAIN watches' = DOMAIN watches \ {wd}
      BY <1>4, WithoutFacts
    <2>2. wd \in Int /\ wd \in DOMAIN watchDescriptors
      BY DEF IInv, Types, MapMatchesKernel
    <2>3. queue' \in Seq(Int) /\ QueueKnown'
      BY <1>1, <1>4, <2>2, StaysKnown DEF IInv, Types
    <2>4. Types' /\ MapMatchesKernel'
      BY <1>1, <1>4, <2>1, <2>2, <2>3 DEF IInv, Types, MapMatchesKernel
    <2> QED
      BY <1>2, <2>3, <2>4 DEF IInv
  <1> QED
    BY <1>1, <1>3, <1>4

LEMMA AddWatchKeeps ==
  ASSUME IInv, NEW p \in Paths, AddWatch(p)
  PROVE  IInv'
  <1> DEFINE wd == WatchOf(inode[p])
  <1>1. wd \in DOMAIN watches \/ wd = added + 1
    BY WatchOfFacts
  <1>2. /\ watches' = With(watches, wd, inode[p])
        /\ added' = IF wd > added THEN wd ELSE added
        /\ IF wd \in DOMAIN watchDescriptors THEN UNCHANGED <<watchDescriptors, doubled>>
           ELSE /\ watchDescriptors' = With(watchDescriptors, wd, p)
                /\ doubled' = IF p \in Range(watchDescriptors) THEN doubled \cup {p} ELSE doubled
        /\ silent' = silent \ {p} /\ last' = Quiet
        /\ UNCHANGED <<queue, removed, dropped>>
    BY DEF AddWatch
  <1> HIDE DEF wd
  <1>3. /\ added \in Nat /\ wd \in 1..(added + 1)
        /\ DOMAIN watchDescriptors \subseteq 1..added /\ removed \subseteq 1..added
        /\ queue \in Seq(Int)
    BY <1>1 DEF IInv, Types
  <1>4. DOMAIN watches' = DOMAIN watches \cup {wd}
    BY <1>2, WithFacts
  <1>5. ThrowsOnlyForRemoved' /\ NoReportAfterRemoval'
    BY <1>2, QuietStep
  <1>6. CASE wd \in DOMAIN watchDescriptors
    <2>1. wd \in DOMAIN watches /\ added' = added
      BY <1>1, <1>2, <1>3, <1>6
    <2>2. Types' /\ MapMatchesKernel' /\ QueueKnown'
      BY <1>2, <1>3, <1>4, <1>6, <2>1 DEF IInv, Types, MapMatchesKernel, QueueKnown, Known
    <2>3. SilentDoubled' /\ SecondDoubled'
      BY <1>2, <1>6 DEF IInv, SilentDoubled, SecondDoubled
    <2> QED
      BY <1>5, <2>2, <2>3 DEF IInv
  <1>7. CASE wd \notin DOMAIN watchDescriptors
    <2>1. wd = added + 1 /\ added' = added + 1
      BY <1>1, <1>2, <1>3, <1>7 DEF IInv, MapMatchesKernel
    <2>2. /\ DOMAIN watchDescriptors' = DOMAIN watchDescriptors \cup {wd}
          /\ watchDescriptors'[wd] = p
          /\ \A w \in DOMAIN watchDescriptors : watchDescriptors'[w] = watchDescriptors[w]
      <3>1. watchDescriptors' = With(watchDescriptors, wd, p)
        BY <1>2, <1>7
      <3>2. \A w \in DOMAIN watchDescriptors : w # wd
        BY <1>7
      <3> QED
        BY <3>1, <3>2 DEF With
    <2>3. Types'
      BY <1>2, <1>3, <1>4, <2>1, <2>2 DEF IInv, Types, MapMatchesKernel
    <2>4. MapMatchesKernel'
      BY <1>2, <1>3, <1>4, <2>1, <2>2 DEF IInv, MapMatchesKernel
    <2>5. QueueKnown'
      BY <1>2, <2>2 DEF IInv, QueueKnown, Known
    <2>6. SilentDoubled'
      BY <1>2, <1>7, <2>2 DEF IInv, SilentDoubled
    <2>7. SecondDoubled'
      <3> SUFFICES ASSUME NEW v \in DOMAIN watchDescriptors', NEW w \in DOMAIN watchDescriptors',
                          v # w, watchDescriptors'[v] = watchDescriptors'[w]
                   PROVE  watchDescriptors'[v] \in doubled'
        BY DEF SecondDoubled
      <3>1. CASE v \in DOMAIN watchDescriptors /\ w \in DOMAIN watchDescriptors
        BY <1>2, <1>7, <2>2, <3>1 DEF IInv, SecondDoubled
      <3>2. CASE v = wd \/ w = wd
        <4>1. p \in Range(watchDescriptors) /\ watchDescriptors'[v] = p
          BY <2>2, <3>2 DEF Range
        <4> QED
          BY <1>2, <1>7, <4>1
      <3> QED
        BY <2>2, <3>1, <3>2
    <2> QED
      BY <1>5, <2>3, <2>4, <2>5, <2>6, <2>7 DEF IInv
  <1> QED
    BY <1>6, <1>7

LEMMA RemoveWatchKeeps ==
  ASSUME IInv, NEW p \in Paths, RemoveWatch(p)
  PROVE  IInv'
  <1>1. PICK wd \in DOMAIN watchDescriptors :
          /\ watchDescriptors[wd] = p /\ wd \in DOMAIN watches
          /\ watches' = Without(watches, wd) /\ queue' = Queued(wd)
          /\ watchDescriptors' = Without(watchDescriptors, wd)
          /\ removed' = removed \cup {wd} /\ silent' = silent \cup {p}
          /\ last' = Quiet /\ UNCHANGED <<added, dropped, doubled>>
    BY DEF RemoveWatch
  <1>2. /\ DOMAIN watches' = DOMAIN watches \ {wd}
        /\ DOMAIN watchDescriptors' = DOMAIN watchDescriptors \ {wd}
        /\ \A w \in DOMAIN watchDescriptors \ {wd} : watchDescriptors'[w] = watchDescriptors[w]
    BY <1>1, WithoutFacts
  <1>3. wd \in Int /\ queue \in Seq(Int)
    BY DEF IInv, Types
  <1>4. queue' \in Seq(Int) /\ QueueKnown'
    BY <1>1, <1>2, <1>3, StaysKnown DEF IInv
  <1>5. Types'
    BY <1>1, <1>2, <1>4 DEF IInv, Types
  <1>6. MapMatchesKernel'
    BY <1>1, <1>2 DEF IInv, Types, MapMatchesKernel
  <1>7. SilentDoubled' /\ SecondDoubled'
    BY <1>1, <1>2 DEF IInv, SilentDoubled, SecondDoubled
  <1> QED
    BY <1>1, <1>4, <1>5, <1>6, <1>7, QuietStep DEF IInv

LEMMA ReceiveEventKeeps == IInv /\ ReceiveEvent => IInv'
  <1> SUFFICES ASSUME IInv, ReceiveEvent
               PROVE  IInv'
    OBVIOUS
  <1>1. PICK n \in 1..Room :
          /\ n <= Len(queue)
          /\ queue' = SubSeq(queue, n + 1, Len(queue))
          /\ last' = [did |-> IF Head(queue) \in DOMAIN watchDescriptors
                              THEN "reported" ELSE "threw",
                      wd  |-> Head(queue)]
          /\ UNCHANGED <<watches, added, watchDescriptors, removed, dropped, silent, doubled>>
    BY DEF ReceiveEvent
  <1>2. queue \in Seq(Int) /\ Len(queue) \in Nat /\ n \in Nat \ {0}
    BY WatcherConstants, LenProperties DEF IInv, Types
  <1>3. Head(queue) = queue[1] /\ 1 \in 1..Len(queue)
    BY <1>1, <1>2
  <1>4. \A k \in (n + 1)..Len(queue) : queue[k] \in Int
    BY <1>2, ElementOfSeq
  <1>5. /\ queue' \in Seq(Int)
        /\ Len(queue') = IF n + 1 <= Len(queue) THEN Len(queue) - (n + 1) + 1 ELSE 0
        /\ \A k \in 1..(Len(queue) - (n + 1) + 1) : queue'[k] = queue[(n + 1) + k - 1]
    BY <1>1, <1>2, <1>4, SubSeqProperties
  <1>6. QueueKnown'
    <2> SUFFICES ASSUME NEW k \in 1..Len(queue')
                 PROVE  Known(queue[k])'
      BY DEF QueueKnown
    <2>1. /\ k \in 1..(Len(queue) - (n + 1) + 1)
          /\ (n + 1) + k - 1 \in 1..Len(queue)
      BY <1>1, <1>2, <1>5
    <2>2. queue'[k] = queue[(n + 1) + k - 1]
      BY <1>5, <2>1
    <2> QED
      BY <1>1, <2>1, <2>2 DEF IInv, QueueKnown, Known
  <1>7. ThrowsOnlyForRemoved'
    BY <1>1, <1>3 DEF IInv, QueueKnown, Known, ThrowsOnlyForRemoved
  <1>8. NoReportAfterRemoval'
    BY <1>1 DEF IInv, SilentDoubled, NoReportAfterRemoval
  <1>9. Types' /\ MapMatchesKernel' /\ SilentDoubled' /\ SecondDoubled'
    BY <1>1, <1>5 DEF IInv, Types, MapMatchesKernel, SilentDoubled, SecondDoubled
  <1> QED
    BY <1>6, <1>7, <1>8, <1>9 DEF IInv

LEMMA NextIInv == IInv /\ [Next]_vars => IInv'
  <1> SUFFICES ASSUME IInv, [Next]_vars
               PROVE  IInv'
    OBVIOUS
  <1>1. CASE UNCHANGED vars
    BY <1>1 DEF vars, kernelVars, IInv, Types, MapMatchesKernel, QueueKnown, Known,
                SilentDoubled, SecondDoubled, ThrowsOnlyForRemoved, NoReportAfterRemoval
  <1> QED
    BY <1>1, TouchedKeeps, ReplacedKeeps, AddWatchKeeps, RemoveWatchKeeps, ReceiveEventKeeps
       DEF Next, Lua, Kernel

LEMMA Invariant == Spec => []IInv
  BY InitIInv, NextIInv, PTL DEF Spec

\* The map has the kernel's watches and those it dropped by itself, whatever is
\* added, removed, deleted and replaced in any order.
THEOREM MapIsRight == Spec => []MapMatchesKernel
  BY Invariant, PTL DEF IInv

\* receiveEvent throws only for watches that removeWatch removed and for
\* overflows, for queues and reads of any size.
THEOREM ThrowsAreLate == Spec => []ThrowsOnlyForRemoved
  BY Invariant, PTL DEF IInv

\* Nothing is reported under a path after its removal unless the path was added
\* for two inodes.
THEOREM RemovedIsSilent == Spec => []NoReportAfterRemoval
  BY Invariant, PTL DEF IInv

-----------------------------------------------------------------------------
(* The point graph.                                                         *)

LinkType == [to : DOMAIN points, cost : Costs]

GraphTypes ==
  /\ Size \in Nat /\ DOMAIN points = 0..(Size - 1) /\ DOMAIN links = DOMAIN points
  /\ \A n \in DOMAIN links : links[n] \in Seq(LinkType)
  /\ pc \in {"build", "search", "trace", "done", "endless"}

NotSearched ==
  /\ gScores = <<>> /\ cameFrom = <<>> /\ openSet = {} /\ hasVisited = {}
  /\ todo = <<>> /\ path = <<>>

SearchTypes ==
  /\ start \in DOMAIN points /\ goal \in DOMAIN points
  /\ DOMAIN gScores \subseteq DOMAIN points
  /\ \A n \in DOMAIN gScores : gScores[n] \in Int
  /\ DOMAIN gScores = openSet \cup hasVisited
  /\ hasVisited # {} => current \in hasVisited
  /\ todo \in Seq(LinkType)
  /\ todo # <<>> => current \in hasVisited /\ Range(todo) \subseteq Range(links[current])
  /\ pc # "search" => todo = <<>>

\* What has a score was reached from the start.
Reached ==
  /\ start \in DOMAIN gScores /\ gScores[start] = 0
  /\ DOMAIN cameFrom \subseteq DOMAIN gScores
  /\ DOMAIN gScores \subseteq DOMAIN cameFrom \cup {start}
  /\ \A n \in DOMAIN cameFrom : cameFrom[n] \in hasVisited /\ <<cameFrom[n], n>> \in Edges
  /\ goal \notin hasVisited

Pending(n, l) == n = current /\ l \in Range(todo)

\* The links of a visited node have been followed.
Closed ==
  \A n \in hasVisited : \A l \in Range(links[n]) : Pending(n, l) \/ l.to \in DOMAIN gScores

\* Without negative costs nothing is nearer than the start.
NothingNearer ==
  (\A l \in AllLinks : l.cost >= 0) =>
    start \notin DOMAIN cameFrom /\ \A n \in DOMAIN gScores : gScores[n] >= 0

\* No nodes come from each other in a circle, unless the start has a predecessor.
Rooted ==
  start \notin DOMAIN cameFrom =>
    \A S \in SUBSET DOMAIN cameFrom : S # {} => \E n \in S : cameFrom[n] \notin S

Uniform(c) == c > 0 /\ \A l \in AllLinks : l.cost = c

\* If every link costs c, nodes are visited in the order of their scores, and no
\* score is more than c above that of a node that is still to be visited.
LayeredBy(c) ==
  /\ \A n \in DOMAIN cameFrom : gScores[n] = gScores[cameFrom[n]] + c
  /\ \A v \in hasVisited : \A o \in openSet \ hasVisited : gScores[v] <= gScores[o]
  /\ \A v \in hasVisited : gScores[v] <= gScores[current]
  /\ \A m \in DOMAIN gScores : \A o \in openSet \ hasVisited : gScores[m] <= gScores[o] + c
  /\ hasVisited # {} => \A m \in DOMAIN gScores : gScores[m] <= gScores[current] + c
  /\ \A n \in hasVisited : \A l \in Range(links[n]) :
       Pending(n, l) \/ gScores[l.to] <= gScores[n] + c

Layered == \A c \in Costs \cup {1} : Uniform(c) => LayeredBy(c)

\* Each node of the path so far comes from the one before.
Traces(p) ==
  /\ p \in Seq(DOMAIN gScores) /\ p # <<>> /\ p[Len(p)] = goal
  /\ \A i \in 1..(Len(p) - 1) : p[i + 1] \in DOMAIN cameFrom /\ cameFrom[p[i + 1]] = p[i]

Traced ==
  /\ pc = "search" => path = <<>>
  /\ pc \in {"trace", "endless"} => path # <<>>
  /\ path # <<>> => Traces(path) /\ goal \in BestOpen
  /\ pc = "done" /\ path = <<>> => openSet = {}
  /\ Found => path[1] \notin DOMAIN cameFrom
  /\ pc = "endless" => Len(path) > Size

SearchInv ==
  SearchTypes /\ Reached /\ Closed /\ NothingNearer /\ Rooted /\ Layered /\ Traced

\* The inductive invariant.
GraphInv ==
  /\ GraphTypes
  /\ IF pc = "build" THEN NotSearched ELSE SearchInv

-----------------------------------------------------------------------------
\* Induction over a number, as the least one that it would fail for.
LEMMA Least ==
  ASSUME NEW S \in SUBSET Nat, S # {}
  PROVE  \E n \in S : \A m \in S : n <= m
  <1> DEFINE R == StrictSubsetOrdering(Nat)
             T == {1..n : n \in S}
  <1>1. IsWellFoundedOn(R, FiniteSubsetsOf(Nat))
    BY FS_StrictSubsetOrderingWellFounded
  <1>2. T \subseteq FiniteSubsetsOf(Nat) /\ T # {}
    <2>1. ASSUME NEW n \in S
          PROVE  1..n \in FiniteSubsetsOf(Nat)
      <3>1. 1..n \in SUBSET Nat /\ n \in Int /\ 1 \in Int
        OBVIOUS
      <3>2. IsFiniteSet(1..n)
        BY <3>1, FS_Interval
      <3> QED
        BY <3>1, <3>2 DEF FiniteSubsetsOf
    <2> QED
      BY <2>1
  <1>3. \E x \in T : \A y \in T : ~(<<y, x>> \in R)
    <2> HIDE DEF R, T
    <2> QED
      BY <1>1, <1>2, WFMin
  <1>4. ASSUME NEW m \in Nat, NEW n \in Nat, m < n
        PROVE  <<1..m, 1..n>> \in R
    <2>1. 1..m \subseteq 1..n /\ n \in 1..n /\ n \notin 1..m /\ 1..m \in SUBSET Nat /\ 1..n \in SUBSET Nat
      BY <1>4
    <2> QED
      BY <2>1 DEF StrictSubsetOrdering
  <1>5. PICK n \in S : \A y \in T : ~(<<y, 1..n>> \in R)
    BY <1>3
  <1>6. \A m \in S : ~(<<1..m, 1..n>> \in R)
    BY <1>5
  <1> HIDE DEF R
  <1>7. \A m \in S : ~(m < n)
    BY <1>4, <1>6
  <1> QED
    BY <1>7

LEMMA InsertFacts ==
  ASSUME NEW f, NEW k, NEW v
  PROVE  /\ DOMAIN Insert(f, k, v) = DOMAIN f \cup {k}
         /\ \A x \in DOMAIN f : Insert(f, k, v)[x] = f[x]
         /\ k \notin DOMAIN f => Insert(f, k, v)[k] = v
  BY DEF Insert

LEMMA SizeOf ==
  ASSUME NEW n \in Nat
  PROVE  Cardinality(0..(n - 1)) = n /\ IsFiniteSet(0..(n - 1))
  <1>1. 0 \in Int /\ n - 1 \in Int
    OBVIOUS
  <1>2. IsFiniteSet(0..(n - 1)) /\ Cardinality(0..(n - 1)) = IF 0 > n - 1 THEN 0 ELSE n - 1 - 0 + 1
    BY <1>1, FS_Interval
  <1> QED
    BY <1>2

\* A link of a node is one of the graph.
LEMMA LinkFacts ==
  ASSUME GraphTypes, NEW n \in DOMAIN points, NEW l \in Range(links[n])
  PROVE  /\ l \in LinkType /\ l.to \in DOMAIN points /\ l.cost \in Costs /\ l.cost \in Int
         /\ [from |-> n, to |-> l.to, cost |-> l.cost] \in AllLinks
         /\ <<n, l.to>> \in Edges
  <1>1. n \in DOMAIN links /\ links[n] \in Seq(LinkType)
    BY DEF GraphTypes
  <1>2. l \in LinkType
    BY <1>1 DEF Range
  <1>3. [from |-> n, to |-> l.to, cost |-> l.cost] \in AllLinks
    BY <1>1 DEF AllLinks
  <1>4. <<n, l.to>> \in Edges
    BY <1>3 DEF Edges
  <1> QED
    BY <1>2, <1>3, <1>4, GraphConstants DEF LinkType

LEMMA EdgeFacts ==
  ASSUME GraphTypes, NEW n, NEW m, <<n, m>> \in Edges
  PROVE  n \in DOMAIN points /\ \E l \in Range(links[n]) : l.to = m
  <1>1. PICK k \in AllLinks : k.from = n /\ k.to = m
    BY DEF Edges
  <1>2. PICK i \in DOMAIN links : \E l \in Range(links[i]) :
          k = [from |-> i, to |-> l.to, cost |-> l.cost]
    BY DEF AllLinks
  <1> QED
    BY <1>1, <1>2 DEF GraphTypes

LEMMA AllLinkFacts ==
  ASSUME GraphTypes, NEW k \in AllLinks
  PROVE  k.cost \in Costs
  <1>1. PICK i \in DOMAIN links : \E l \in Range(links[i]) :
          k = [from |-> i, to |-> l.to, cost |-> l.cost]
    BY DEF AllLinks
  <1>2. PICK l \in Range(links[i]) : k = [from |-> i, to |-> l.to, cost |-> l.cost]
    BY <1>1
  <1>3. i \in DOMAIN points
    BY DEF GraphTypes
  <1>4. l.cost \in Costs
    BY <1>3, LinkFacts
  <1> QED
    BY <1>2, <1>4

\* The links of a sequence are its first and those behind it.
LEMMA TailFacts ==
  ASSUME NEW S, NEW s \in Seq(S), s # <<>>
  PROVE  /\ Head(s) \in Range(s) /\ Tail(s) \in Seq(S) /\ Head(s) \in S
         /\ Range(s) = Range(Tail(s)) \cup {Head(s)}
         /\ Len(Tail(s)) < Len(s) /\ Len(s) \in Nat /\ Len(Tail(s)) \in Nat
  <1>1. Len(s) \in Nat \ {0} /\ Len(Tail(s)) = Len(s) - 1 /\ Tail(s) \in Seq(S)
    BY HeadTailProperties, EmptySeq
  <1>2. DOMAIN s = 1..Len(s) /\ DOMAIN Tail(s) = 1..(Len(s) - 1)
    BY <1>1
  <1>3. \A i \in 1..(Len(s) - 1) : Tail(s)[i] = s[i + 1]
    BY <1>1
  <1>4. Head(s) = s[1] /\ 1 \in 1..Len(s)
    BY <1>1
  <1>5. \A i \in 1..Len(s) : i = 1 \/ (i - 1 \in 1..(Len(s) - 1) /\ (i - 1) + 1 = i)
    BY <1>1
  <1>6. \A i \in 1..(Len(s) - 1) : i + 1 \in 1..Len(s)
    BY <1>1
  <1>7. Range(s) \subseteq Range(Tail(s)) \cup {Head(s)}
    <2>1. ASSUME NEW i \in 1..Len(s)
          PROVE  s[i] \in Range(Tail(s)) \cup {Head(s)}
      <3>1. CASE i = 1
        BY <1>4, <3>1
      <3>2. CASE i # 1
        <4>1. i - 1 \in DOMAIN Tail(s) /\ Tail(s)[i - 1] = s[i]
          BY <1>2, <1>3, <1>5, <3>2
        <4> QED
          BY <4>1 DEF Range
      <3> QED
        BY <3>1, <3>2
    <2> QED
      BY <2>1, <1>2 DEF Range
  <1>8. Range(Tail(s)) \cup {Head(s)} \subseteq Range(s)
    BY <1>2, <1>3, <1>4, <1>6 DEF Range
  <1>9. Head(s) \in S
    BY <1>1, <1>4
  <1> QED
    BY <1>1, <1>2, <1>4, <1>7, <1>8, <1>9 DEF Range

-----------------------------------------------------------------------------
\* What a step that leaves the graph alone leaves alone.
LEMMA SameGraph ==
  ASSUME GraphTypes, UNCHANGED builtVars,
         pc' \in {"build", "search", "trace", "done", "endless"}
  PROVE  /\ GraphTypes' /\ LinkType' = LinkType /\ Size' = Size
         /\ points' = points /\ links' = links /\ AllLinks' = AllLinks /\ Edges' = Edges
         /\ \A c : Uniform(c)' <=> Uniform(c)
  <1>1. points' = points /\ links' = links
    BY DEF builtVars
  <1>2. LinkType' = LinkType /\ Size' = Size /\ AllLinks' = AllLinks
    BY <1>1 DEF LinkType, Size, AllLinks
  <1>3. Edges' = Edges
    BY <1>2 DEF Edges
  <1>4. \A c : Uniform(c)' <=> Uniform(c)
    BY <1>2 DEF Uniform
  <1>5. GraphTypes'
    BY <1>1, <1>2 DEF GraphTypes
  <1> QED
    BY <1>1, <1>2, <1>3, <1>4, <1>5

LEMMA AddNodeKeeps ==
  ASSUME GraphTypes, NotSearched, NEW p \in Points, AddNode(p)
  PROVE  GraphTypes' /\ NotSearched' /\ pc' = "build"
  <1>1. NotSearched' /\ pc' = "build"
    BY DEF NotSearched, AddNode, searchVars
  <1>2. DOMAIN points' = DOMAIN points \cup {Size} /\ DOMAIN links' = DOMAIN links \cup {Size}
    BY InsertFacts DEF AddNode
  <1>3. Size \in Nat /\ DOMAIN points = 0..(Size - 1) /\ DOMAIN links = DOMAIN points
    BY DEF GraphTypes
  <1>4. DOMAIN points' = 0..((Size + 1) - 1)
    <2> DEFINE k == Size
    <2>1. k \in Nat /\ DOMAIN points' = 0..(k - 1) \cup {k}
      BY <1>2, <1>3
    <2> HIDE DEF k
    <2>2. 0..(k - 1) \cup {k} = 0..((k + 1) - 1)
      BY <2>1
    <2> QED
      BY <2>1, <2>2 DEF k
  <1>5. Size' = Size + 1
    <2>1. Size + 1 \in Nat
      BY <1>3
    <2>2. Cardinality(0..((Size + 1) - 1)) = Size + 1
      BY <2>1, SizeOf
    <2> QED
      BY <1>4, <2>2 DEF Size
  <1>6. ASSUME NEW n \in DOMAIN links'
        PROVE  links'[n] \in Seq(LinkType')
    <2>1. CASE n \in DOMAIN links
      <3>1. links'[n] = links[n] /\ links[n] \in Seq(LinkType)
        <4>1. links' = Insert(links, Size, <<>>)
          BY DEF AddNode
        <4>2. links'[n] = links[n]
          BY <2>1, <4>1 DEF Insert
        <4> QED
          BY <2>1, <4>2 DEF GraphTypes
      <3>2. \A l \in LinkType : l \in LinkType'
        BY <1>2 DEF LinkType
      <3>3. Len(links[n]) \in Nat /\ \A i \in 1..Len(links[n]) : links[n][i] \in LinkType
        BY <3>1
      <3> QED
        BY <3>1, <3>2, <3>3, SeqDef
    <2>2. CASE n \notin DOMAIN links
      <3>1. n = Size /\ links'[n] = <<>>
        BY <1>2, <2>2, InsertFacts DEF AddNode
      <3> QED
        BY <3>1, EmptySeq
    <2> QED
      BY <2>1, <2>2
  <1>7. DOMAIN points' = 0..(Size' - 1) /\ Size' \in Nat /\ DOMAIN links' = DOMAIN points'
    BY <1>2, <1>3, <1>4, <1>5
  <1> QED
    BY <1>1, <1>6, <1>7 DEF GraphTypes

LEMMA AddLinkKeeps ==
  ASSUME GraphTypes, NotSearched, NEW n \in DOMAIN points, NEW m \in 0..MaxNodes, NEW c \in Costs,
         AddLink(n, m, c)
  PROVE  GraphTypes' /\ NotSearched' /\ pc' = "build"
  <1>1. NotSearched' /\ pc' = "build"
    BY DEF NotSearched, AddLink, searchVars
  <1>2. points' = points /\ Size' = Size /\ LinkType' = LinkType
    BY DEF AddLink, Size, LinkType
  <1>3. m \in DOMAIN points
    BY GraphConstants DEF AddLink, GraphTypes
  <1>4. [to |-> m, cost |-> c] \in LinkType
    BY <1>3 DEF LinkType
  <1>5. DOMAIN links' = DOMAIN links
    BY DEF AddLink
  <1>6. ASSUME NEW k \in DOMAIN links'
        PROVE  links'[k] \in Seq(LinkType')
    <2>1. links[k] \in Seq(LinkType) /\ links[n] \in Seq(LinkType)
      BY <1>5 DEF GraphTypes
    <2>2. Append(links[n], [to |-> m, cost |-> c]) \in Seq(LinkType)
      BY <1>4, <2>1, AppendProperties
    <2>3. links'[k] = IF k = n THEN Append(links[n], [to |-> m, cost |-> c]) ELSE links[k]
      BY <1>5 DEF AddLink
    <2> QED
      BY <1>2, <2>1, <2>2, <2>3
  <1> QED
    BY <1>1, <1>2, <1>5, <1>6 DEF GraphTypes

LEMMA SearchBegins ==
  ASSUME GraphTypes, NotSearched, NEW s \in DOMAIN points, NEW g \in DOMAIN points,
         FindShortestPath(s, g)
  PROVE  GraphTypes' /\ SearchInv' /\ pc' = "search"
  <1>1. GraphTypes' /\ pc' = "search" /\ points' = points
    BY SameGraph DEF FindShortestPath
  <1>2. /\ DOMAIN gScores' = {s} /\ gScores'[s] = 0 /\ DOMAIN cameFrom' = {}
        /\ start' = s /\ goal' = g /\ openSet' = {s} /\ hasVisited' = {} /\ todo' = <<>>
        /\ path' = <<>>
    <2>1. DOMAIN <<>> = {}
      OBVIOUS
    <2>2. gScores' = Insert(<<>>, s, 0)
      BY DEF FindShortestPath
    <2>3. DOMAIN gScores' = {s} /\ gScores'[s] = 0
      BY <2>1, <2>2 DEF Insert
    <2>4. /\ start' = s /\ goal' = g /\ openSet' = {s} /\ hasVisited' = {} /\ todo' = <<>>
          /\ path' = <<>> /\ cameFrom' = <<>>
      BY DEF FindShortestPath, NotSearched
    <2> QED
      BY <2>1, <2>3, <2>4
  <1>3. SearchTypes'
    BY <1>1, <1>2, EmptySeq DEF SearchTypes
  <1>4. Reached' /\ Closed' /\ NothingNearer' /\ Rooted'
    BY <1>2 DEF Reached, Closed, NothingNearer, Rooted
  <1>5. Layered'
    <2>1. ASSUME NEW c \in Costs \cup {1}, c > 0
          PROVE  LayeredBy(c)'
      <3>1. c \in Int
        BY GraphConstants
      <3> QED
        BY <1>2, <2>1, <3>1 DEF LayeredBy
    <2> QED
      BY <2>1 DEF Layered, Uniform
  <1>6. Traced'
    BY <1>1, <1>2 DEF Traced, Found
  <1> QED
    BY <1>1, <1>3, <1>4, <1>5, <1>6 DEF SearchInv

-----------------------------------------------------------------------------
(* The loop of the search.                                                  *)

LEMMA SkipNodeKeeps ==
  ASSUME GraphTypes, SearchInv, NEW n \in openSet, SkipNode(n)
  PROVE  GraphTypes' /\ SearchInv' /\ pc' = pc
  <1>1. /\ pc = "search" /\ pc' = pc /\ todo = <<>> /\ todo' = todo /\ path' = path
        /\ start' = start /\ goal' = goal /\ gScores' = gScores /\ cameFrom' = cameFrom
        /\ hasVisited' = hasVisited /\ current' = current
        /\ n \in hasVisited /\ openSet' = openSet \ {n} /\ UNCHANGED builtVars
    BY DEF SkipNode, AtTop
  <1>2. /\ GraphTypes' /\ links' = links /\ LinkType' = LinkType /\ AllLinks' = AllLinks
        /\ Edges' = Edges /\ points' = points /\ \A c : Uniform(c)' <=> Uniform(c)
    BY <1>1, SameGraph DEF GraphTypes
  <1>3. openSet' \cup hasVisited' = openSet \cup hasVisited
        /\ openSet' \ hasVisited' = openSet \ hasVisited
    BY <1>1
  <1>4. SearchTypes'
    BY <1>1, <1>2, <1>3 DEF SearchInv, SearchTypes
  <1>5. Reached' /\ Closed' /\ NothingNearer' /\ Rooted'
    BY <1>1, <1>2 DEF SearchInv, Reached, Closed, NothingNearer, Rooted, Pending
  <1>6. Layered'
    BY <1>1, <1>2, <1>3 DEF SearchInv, Layered, LayeredBy, Pending
  <1>7. Traced'
    BY <1>1 DEF SearchInv, Traced, Found
  <1> QED
    BY <1>1, <1>2, <1>4, <1>5, <1>6, <1>7 DEF SearchInv

LEMMA VisitNodeKeeps ==
  ASSUME GraphTypes, SearchInv, NEW n \in openSet, VisitNode(n)
  PROVE  GraphTypes' /\ SearchInv' /\ pc' = pc
  <1>1. /\ pc = "search" /\ pc' = pc /\ todo = <<>> /\ todo' = links[n] /\ path' = path
        /\ start' = start /\ goal' = goal /\ gScores' = gScores /\ cameFrom' = cameFrom
        /\ n # goal /\ n \notin hasVisited /\ hasVisited' = hasVisited \cup {n}
        /\ current' = n /\ openSet' = openSet \ {n} /\ UNCHANGED builtVars
        /\ \A m \in openSet : gScores[n] <= gScores[m]
    BY DEF VisitNode, AtTop, BestOpen
  <1>2. /\ GraphTypes' /\ links' = links /\ LinkType' = LinkType /\ AllLinks' = AllLinks
        /\ Edges' = Edges /\ points' = points /\ \A c : Uniform(c)' <=> Uniform(c)
    BY <1>1, SameGraph DEF GraphTypes
  <1>3. /\ openSet' \cup hasVisited' = openSet \cup hasVisited
        /\ openSet' \ hasVisited' = (openSet \ hasVisited) \ {n}
    BY <1>1
  <1>4. SearchTypes'
    <2>1. n \in DOMAIN links /\ links[n] \in Seq(LinkType)
      BY DEF SearchInv, SearchTypes, GraphTypes
    <2> QED
      BY <1>1, <1>2, <1>3, <2>1 DEF SearchInv, SearchTypes
  <1>5. \A m, l : ~Pending(m, l)
    <2>1. Range(todo) = {}
      BY <1>1 DEF Range
    <2> QED
      BY <2>1 DEF Pending
  <1>6. \A l \in Range(links[n]) : Pending(n, l)'
    BY <1>1 DEF Pending
  <1>7. Closed'
    <2> SUFFICES ASSUME NEW m \in hasVisited', NEW l \in Range(links[m])
                 PROVE  Pending(m, l)' \/ l.to \in DOMAIN gScores
      BY <1>1, <1>2 DEF Closed
    <2>1. CASE m = n
      BY <1>6, <2>1
    <2>2. CASE m # n
      BY <1>1, <1>5, <2>2 DEF SearchInv, Closed
    <2> QED
      BY <2>1, <2>2
  <1>8. Reached' /\ NothingNearer' /\ Rooted'
    BY <1>1, <1>2 DEF SearchInv, Reached, NothingNearer, Rooted
  <1>9. ASSUME NEW c \in Costs \cup {1}, LayeredBy(c), Uniform(c)
         PROVE  LayeredBy(c)'
    <2>1. /\ \A v \in hasVisited : gScores[v] <= gScores[n]
          /\ \A m \in DOMAIN gScores : gScores[m] <= gScores[n] + c
          /\ n \in openSet \ hasVisited /\ n \in DOMAIN gScores
      BY <1>1, <1>9 DEF LayeredBy, SearchInv, SearchTypes
    <2>2. \A v \in hasVisited' : gScores[v] <= gScores[n]
      BY <1>1, <2>1 DEF SearchInv, SearchTypes
    <2>3. \A v \in hasVisited', o \in openSet' \ hasVisited' : gScores[v] <= gScores[o]
      <3> SUFFICES ASSUME NEW v \in hasVisited', NEW o \in openSet' \ hasVisited'
                   PROVE  gScores[v] <= gScores[o]
        OBVIOUS
      <3>1. CASE v = n
        BY <1>1, <1>3, <3>1
      <3>2. CASE v # n
        BY <1>1, <1>3, <1>9, <3>2 DEF LayeredBy
      <3> QED
        BY <3>1, <3>2
    <2>4. \A m \in DOMAIN gScores : \A o \in openSet' \ hasVisited' : gScores[m] <= gScores[o] + c
      BY <1>3, <1>9 DEF LayeredBy
    <2>5. ASSUME NEW m \in hasVisited', NEW l \in Range(links[m])
          PROVE  Pending(m, l)' \/ gScores[l.to] <= gScores[m] + c
      <3>1. CASE m = n
        BY <1>6, <2>5, <3>1
      <3>2. CASE m # n
        BY <1>1, <1>5, <1>9, <2>5, <3>2 DEF LayeredBy
      <3> QED
        BY <3>1, <3>2
    <2>6. \A k \in DOMAIN cameFrom : gScores[k] = gScores[cameFrom[k]] + c
      BY <1>9 DEF LayeredBy
    <2> QED
      BY <1>1, <1>2, <2>1, <2>2, <2>3, <2>4, <2>5, <2>6 DEF LayeredBy
  <1>10. Layered'
    BY <1>2, <1>9 DEF SearchInv, Layered
  <1>11. Traced'
    BY <1>1 DEF SearchInv, Traced, Found
  <1> QED
    BY <1>1, <1>2, <1>4, <1>7, <1>8, <1>10, <1>11 DEF SearchInv

\* What is known of the link that is followed.
LEMMA LinkFollowed ==
  ASSUME GraphTypes, SearchInv, FollowLink
  PROVE  LET l == Head(todo)
         IN  /\ UNCHANGED <<pc, path, start, goal, hasVisited, current>> /\ pc = "search"
             /\ UNCHANGED builtVars /\ todo' \in Seq(LinkType)
             /\ current \in hasVisited /\ current \in DOMAIN gScores /\ current \in DOMAIN points
             /\ l \in Range(links[current]) /\ l.to \in DOMAIN points /\ l.cost \in Costs
             /\ l.cost \in Int /\ gScores[current] \in Int
             /\ [from |-> current, to |-> l.to, cost |-> l.cost] \in AllLinks
             /\ <<current, l.to>> \in Edges
             /\ Range(todo') \subseteq Range(todo)
             /\ \A n, k : Pending(n, k) => Pending(n, k)' \/ (n = current /\ k = l)
             /\ Range(todo') \subseteq Range(links[current])
  <1>1. /\ UNCHANGED <<pc, path, start, goal, hasVisited, current>> /\ pc = "search"
        /\ UNCHANGED builtVars /\ todo # <<>> /\ todo' = Tail(todo)
    BY DEF FollowLink
  <1>2. /\ todo \in Seq(LinkType) /\ current \in hasVisited /\ current \in DOMAIN gScores
        /\ current \in DOMAIN points /\ gScores[current] \in Int
        /\ Range(todo) \subseteq Range(links[current])
    BY <1>1 DEF SearchInv, SearchTypes
  <1>3. /\ Head(todo) \in Range(todo) /\ todo' \in Seq(LinkType)
        /\ Range(todo) = Range(todo') \cup {Head(todo)}
    BY <1>1, <1>2, TailFacts
  <1>4. \A n, k : Pending(n, k) => Pending(n, k)' \/ (n = current /\ k = Head(todo))
    BY <1>1, <1>3 DEF Pending
  <1>5. Head(todo) \in Range(links[current])
    BY <1>2, <1>3
  <1>6. /\ Head(todo).to \in DOMAIN points /\ Head(todo).cost \in Costs /\ Head(todo).cost \in Int
        /\ [from |-> current, to |-> Head(todo).to, cost |-> Head(todo).cost] \in AllLinks
        /\ <<current, Head(todo).to>> \in Edges
    BY <1>2, <1>5, LinkFacts
  <1> QED
    BY <1>1, <1>2, <1>3, <1>4, <1>5, <1>6

\* A link that is no better leaves everything as it is.
LEMMA WorseKeeps ==
  ASSUME GraphTypes, SearchInv, FollowLink,
         ~Better(Head(todo).to, gScores[current] + Head(todo).cost)
  PROVE  GraphTypes' /\ SearchInv' /\ pc' = pc
  <1> DEFINE l == Head(todo)
  <1>1. /\ UNCHANGED <<pc, path, start, goal, hasVisited, current>> /\ pc = "search"
        /\ UNCHANGED builtVars /\ todo' \in Seq(LinkType)
        /\ current \in hasVisited /\ gScores[current] \in Int /\ l.cost \in Int
        /\ l \in Range(links[current])
        /\ [from |-> current, to |-> l.to, cost |-> l.cost] \in AllLinks
        /\ \A n, k : Pending(n, k) => Pending(n, k)' \/ (n = current /\ k = l)
        /\ Range(todo') \subseteq Range(links[current])
    BY LinkFollowed
  <1>2. gScores' = gScores /\ cameFrom' = cameFrom /\ openSet' = openSet
    BY DEF FollowLink
  <1>3. l.to \in DOMAIN gScores /\ ~(gScores[current] + l.cost < gScores[l.to])
    BY DEF Better
  <1> HIDE DEF l
  <1>4. /\ GraphTypes' /\ links' = links /\ LinkType' = LinkType /\ AllLinks' = AllLinks
        /\ Edges' = Edges /\ points' = points /\ \A c : Uniform(c)' <=> Uniform(c)
    BY <1>1, SameGraph DEF GraphTypes
  <1>5. SearchTypes'
    BY <1>1, <1>2, <1>4 DEF SearchInv, SearchTypes
  <1>6. Reached' /\ NothingNearer' /\ Rooted'
    BY <1>1, <1>2, <1>4 DEF SearchInv, Reached, NothingNearer, Rooted
  <1>7. Closed'
    <2> SUFFICES ASSUME NEW m \in hasVisited, NEW k \in Range(links[m])
                 PROVE  Pending(m, k)' \/ k.to \in DOMAIN gScores
      BY <1>1, <1>2, <1>4 DEF Closed
    <2> QED
      BY <1>1, <1>3 DEF SearchInv, Closed
  <1>8. ASSUME NEW c \in Costs \cup {1}, LayeredBy(c), Uniform(c)
        PROVE  LayeredBy(c)'
    <2>1. l.cost = c
      BY <1>1, <1>8 DEF Uniform
    <2>2. gScores[l.to] <= gScores[current] + c
      BY <1>1, <1>3, <2>1 DEF SearchInv, SearchTypes
    <2>3. ASSUME NEW m \in hasVisited, NEW k \in Range(links[m])
          PROVE  Pending(m, k)' \/ gScores[k.to] <= gScores[m] + c
      BY <1>1, <1>8, <2>2 DEF LayeredBy
    <2> QED
      BY <1>1, <1>2, <1>4, <1>8, <2>3 DEF LayeredBy
  <1>9. Layered'
    BY <1>4, <1>8 DEF SearchInv, Layered
  <1>10. Traced'
    BY <1>1 DEF SearchInv, Traced, Found
  <1> QED
    BY <1>1, <1>4, <1>5, <1>6, <1>7, <1>9, <1>10 DEF SearchInv

\* A better link to a node that has a score already: it is pushed once more, and
\* may be the start, which gets a predecessor.  Not so if all links cost the same.
LEMMA AgainKeeps ==
  ASSUME GraphTypes, SearchInv, FollowLink, Head(todo).to \in DOMAIN gScores,
         Better(Head(todo).to, gScores[current] + Head(todo).cost)
  PROVE  GraphTypes' /\ SearchInv' /\ pc' = pc
  <1> DEFINE l == Head(todo)
  <1>1. /\ UNCHANGED <<pc, path, start, goal, hasVisited, current>> /\ pc = "search"
        /\ UNCHANGED builtVars /\ todo' \in Seq(LinkType)
        /\ current \in hasVisited /\ current \in DOMAIN gScores
        /\ gScores[current] \in Int /\ l.cost \in Int
        /\ l \in Range(links[current]) /\ <<current, l.to>> \in Edges
        /\ [from |-> current, to |-> l.to, cost |-> l.cost] \in AllLinks
        /\ \A n, k : Pending(n, k) => Pending(n, k)' \/ (n = current /\ k = l)
        /\ Range(todo') \subseteq Range(links[current])
    BY LinkFollowed
  <1>2. /\ cameFrom' = Insert(cameFrom, l.to, current)
        /\ gScores' = Insert(gScores, l.to, gScores[current] + l.cost)
        /\ openSet' = openSet \cup {l.to}
    BY DEF FollowLink, Record
  <1>3. l.to \in DOMAIN gScores /\ gScores[current] + l.cost < gScores[l.to]
        /\ gScores[l.to] \in Int
    BY DEF Better, SearchInv, SearchTypes
  <1> HIDE DEF l
  <1>4. /\ DOMAIN gScores' = DOMAIN gScores
        /\ \A n \in DOMAIN gScores : gScores'[n] = gScores[n]
    BY <1>2, <1>3 DEF Insert
  <1>5. /\ DOMAIN cameFrom' = DOMAIN cameFrom \cup {l.to}
        /\ \A n \in DOMAIN cameFrom : cameFrom'[n] = cameFrom[n]
        /\ l.to \notin DOMAIN cameFrom => cameFrom'[l.to] = current
    BY <1>2 DEF Insert
  <1>6. /\ GraphTypes' /\ links' = links /\ LinkType' = LinkType /\ AllLinks' = AllLinks
        /\ Edges' = Edges /\ points' = points /\ \A c : Uniform(c)' <=> Uniform(c)
    BY <1>1, SameGraph DEF GraphTypes
  <1>7. SearchTypes'
    BY <1>1, <1>2, <1>3, <1>4, <1>6 DEF SearchInv, SearchTypes
  <1>8. Reached'
    BY <1>1, <1>3, <1>4, <1>5, <1>6 DEF SearchInv, Reached
  <1>9. l.to \notin DOMAIN cameFrom => l.to = start
    BY <1>3 DEF SearchInv, Reached
  <1>10. (\A k \in AllLinks : k.cost >= 0) => l.to \in DOMAIN cameFrom
    <2> SUFFICES ASSUME \A k \in AllLinks : k.cost >= 0, l.to \notin DOMAIN cameFrom
                 PROVE  FALSE
      OBVIOUS
    <2>1. l.cost >= 0
      BY <1>1
    <2>2. gScores[current] >= 0
      BY <1>1 DEF SearchInv, NothingNearer
    <2>3. gScores[l.to] = 0
      BY <1>9 DEF SearchInv, Reached
    <2> QED
      BY <1>1, <1>3, <2>1, <2>2, <2>3
  <1>11. NothingNearer'
    BY <1>4, <1>5, <1>6, <1>1, <1>10 DEF SearchInv, NothingNearer
  <1>12. Rooted'
    <2> SUFFICES ASSUME start \notin DOMAIN cameFrom'
                 PROVE  \A S \in SUBSET DOMAIN cameFrom' :
                          S # {} => \E n \in S : cameFrom'[n] \notin S
      BY <1>1 DEF Rooted
    <2>1. DOMAIN cameFrom' = DOMAIN cameFrom /\ start \notin DOMAIN cameFrom
      BY <1>5, <1>9
    <2>2. \A S \in SUBSET DOMAIN cameFrom : S # {} => \E n \in S : cameFrom[n] \notin S
      BY <2>1 DEF SearchInv, Rooted
    <2> QED
      BY <1>5, <2>1, <2>2
  <1>13. Closed'
    <2> SUFFICES ASSUME NEW m \in hasVisited, NEW k \in Range(links[m])
                 PROVE  Pending(m, k)' \/ k.to \in DOMAIN gScores
      BY <1>1, <1>4, <1>6 DEF Closed
    <2> QED
      BY <1>1, <1>3 DEF SearchInv, Closed
  <1>14. ASSUME NEW c \in Costs \cup {1}, LayeredBy(c), Uniform(c)
         PROVE  FALSE
    <2>1. l.cost = c
      BY <1>1, <1>14 DEF Uniform
    <2>2. gScores[l.to] <= gScores[current] + c
      BY <1>1, <1>3, <1>14 DEF LayeredBy
    <2> QED
      BY <1>1, <1>3, <2>1, <2>2
  <1>15. Layered'
    BY <1>6, <1>14 DEF SearchInv, Layered
  <1>16. Traced'
    BY <1>1 DEF SearchInv, Traced, Found
  <1> QED
    BY <1>1, <1>6, <1>7, <1>8, <1>11, <1>12, <1>13, <1>15, <1>16 DEF SearchInv

\* A link to a node without a score: it is found.
LEMMA FoundKeeps ==
  ASSUME GraphTypes, SearchInv, FollowLink, Head(todo).to \notin DOMAIN gScores
  PROVE  GraphTypes' /\ SearchInv' /\ pc' = pc
  <1> DEFINE l == Head(todo)
             found == l.to
             score == gScores[current] + l.cost
  <1>1. /\ UNCHANGED <<pc, path, start, goal, hasVisited, current>> /\ pc = "search"
        /\ UNCHANGED builtVars /\ todo' \in Seq(LinkType)
        /\ current \in hasVisited /\ current \in DOMAIN gScores
        /\ gScores[current] \in Int /\ l.cost \in Int /\ found \in DOMAIN points
        /\ l \in Range(links[current]) /\ <<current, found>> \in Edges
        /\ [from |-> current, to |-> found, cost |-> l.cost] \in AllLinks
        /\ \A n, k : Pending(n, k) => Pending(n, k)' \/ (n = current /\ k = l)
        /\ Range(todo') \subseteq Range(links[current])
    BY LinkFollowed
  <1>2. /\ cameFrom' = Insert(cameFrom, found, current)
        /\ gScores' = Insert(gScores, found, score)
        /\ openSet' = openSet \cup {found}
    BY DEF FollowLink, Record, Better
  <1>3. found \notin DOMAIN gScores /\ found \notin DOMAIN cameFrom /\ found # start
        /\ found \notin hasVisited /\ found \notin openSet /\ score \in Int
        /\ score = gScores[current] + l.cost
    BY <1>1 DEF SearchInv, SearchTypes, Reached
  <1> HIDE DEF found, score, l
  <1>4. /\ DOMAIN gScores' = DOMAIN gScores \cup {found} /\ gScores'[found] = score
        /\ \A n \in DOMAIN gScores : gScores'[n] = gScores[n]
    BY <1>2, <1>3 DEF Insert
  <1>5. /\ DOMAIN cameFrom' = DOMAIN cameFrom \cup {found} /\ cameFrom'[found] = current
        /\ \A n \in DOMAIN cameFrom : cameFrom'[n] = cameFrom[n]
    BY <1>2, <1>3 DEF Insert
  <1>6. /\ GraphTypes' /\ links' = links /\ LinkType' = LinkType /\ AllLinks' = AllLinks
        /\ Edges' = Edges /\ points' = points /\ \A c : Uniform(c)' <=> Uniform(c)
    BY <1>1, SameGraph DEF GraphTypes
  <1>7. SearchTypes'
    <2>1. DOMAIN gScores' = openSet' \cup hasVisited'
      BY <1>1, <1>2, <1>4 DEF SearchInv, SearchTypes
    <2>2. \A n \in DOMAIN gScores' : gScores'[n] \in Int
      BY <1>3, <1>4 DEF SearchInv, SearchTypes
    <2> QED
      BY <1>1, <1>4, <1>6, <2>1, <2>2 DEF SearchInv, SearchTypes
  <1>8. Reached'
    BY <1>1, <1>3, <1>4, <1>5, <1>6 DEF SearchInv, Reached
  <1>9. NothingNearer'
    <2> SUFFICES ASSUME \A k \in AllLinks : k.cost >= 0
                 PROVE  start \notin DOMAIN cameFrom' /\ \A n \in DOMAIN gScores' : gScores'[n] >= 0
      BY <1>1, <1>6 DEF NothingNearer
    <2>1. l.cost >= 0
      BY <1>1
    <2>2. start \notin DOMAIN cameFrom /\ \A n \in DOMAIN gScores : gScores[n] >= 0
      BY DEF SearchInv, NothingNearer
    <2>3. score >= 0
      BY <1>1, <1>3, <2>1, <2>2
    <2> QED
      BY <1>3, <1>4, <1>5, <2>2, <2>3
  <1>10. Rooted'
    <2> SUFFICES ASSUME start \notin DOMAIN cameFrom', NEW S \in SUBSET DOMAIN cameFrom', S # {}
                 PROVE  \E n \in S : cameFrom'[n] \notin S
      BY <1>1 DEF Rooted
    <2>1. \A T \in SUBSET DOMAIN cameFrom : T # {} => \E n \in T : cameFrom[n] \notin T
      BY <1>5 DEF SearchInv, Rooted
    <2>2. CASE S \subseteq {found}
      BY <1>1, <1>3, <1>5, <2>2
    <2>3. CASE ~(S \subseteq {found})
      <3>1. S \ {found} \in SUBSET DOMAIN cameFrom /\ S \ {found} # {}
        BY <1>5, <2>3
      <3>2. PICK n \in S \ {found} : cameFrom[n] \notin S \ {found}
        BY <2>1, <3>1
      <3>3. n \in DOMAIN cameFrom
        BY <3>1
      <3>4. cameFrom[n] # found
        BY <1>3, <3>3 DEF SearchInv, Reached
      <3> QED
        BY <1>5, <3>2, <3>3, <3>4
    <2> QED
      BY <2>2, <2>3
  <1>11. Closed'
    <2> SUFFICES ASSUME NEW m \in hasVisited, NEW k \in Range(links[m])
                 PROVE  Pending(m, k)' \/ k.to \in DOMAIN gScores'
      BY <1>1, <1>6 DEF Closed
    <2>1. k = l => k.to \in DOMAIN gScores'
      BY <1>4 DEF found
    <2> QED
      BY <1>1, <1>4, <2>1 DEF SearchInv, Closed
  <1>12. ASSUME NEW c \in Costs \cup {1}, LayeredBy(c), Uniform(c)
         PROVE  LayeredBy(c)'
    <2>1. c \in Int /\ c > 0 /\ score = gScores[current] + c
      BY <1>1, <1>3, <1>12, GraphConstants DEF Uniform
    <2>2. /\ \A n \in DOMAIN gScores : gScores[n] \in Int /\ gScores'[n] = gScores[n]
          /\ hasVisited \subseteq DOMAIN gScores /\ openSet \subseteq DOMAIN gScores
          /\ DOMAIN cameFrom \subseteq DOMAIN gScores
          /\ \A n \in DOMAIN cameFrom : cameFrom[n] \in DOMAIN gScores
          /\ openSet' \ hasVisited' = (openSet \ hasVisited) \cup {found}
      <3>1. hasVisited \subseteq DOMAIN gScores /\ openSet \subseteq DOMAIN gScores
        BY DEF SearchInv, SearchTypes
      <3>2. \A n \in DOMAIN gScores : gScores[n] \in Int /\ gScores'[n] = gScores[n]
        BY <1>4 DEF SearchInv, SearchTypes
      <3>3. /\ DOMAIN cameFrom \subseteq DOMAIN gScores
            /\ \A n \in DOMAIN cameFrom : cameFrom[n] \in DOMAIN gScores
        BY <3>1 DEF SearchInv, Reached
      <3>4. openSet' \ hasVisited' = (openSet \ hasVisited) \cup {found}
        BY <1>1, <1>2, <1>3
      <3> QED
        BY <3>1, <3>2, <3>3, <3>4
    <2>3. ASSUME NEW n \in DOMAIN cameFrom'
          PROVE  gScores'[n] = gScores'[cameFrom'[n]] + c
      <3>1. CASE n = found
        BY <1>1, <1>4, <1>5, <2>1, <3>1
      <3>2. CASE n # found
        BY <1>5, <1>12, <2>2, <3>2 DEF LayeredBy
      <3> QED
        BY <3>1, <3>2
    <2>4. ASSUME NEW v \in hasVisited
          PROVE  /\ gScores'[v] <= gScores'[current] /\ gScores'[v] <= score
                 /\ gScores'[v] \in Int
      BY <1>1, <1>12, <2>1, <2>2 DEF LayeredBy
    <2>5. ASSUME NEW v \in hasVisited, NEW o \in openSet' \ hasVisited'
          PROVE  gScores'[v] <= gScores'[o]
      BY <1>4, <1>12, <2>2, <2>4 DEF LayeredBy
    <2>6. ASSUME NEW m \in DOMAIN gScores'
          PROVE  gScores'[m] <= score /\ gScores'[m] \in Int
      <3>1. \A n \in DOMAIN gScores : gScores[n] <= gScores[current] + c
        BY <1>1, <1>12 DEF LayeredBy
      <3> QED
        BY <1>3, <1>4, <2>1, <2>2, <3>1
    <2>7. ASSUME NEW m \in DOMAIN gScores', NEW o \in openSet' \ hasVisited'
          PROVE  gScores'[m] <= gScores'[o] + c
      <3>1. gScores'[o] \in Int /\ gScores[current] <= gScores'[o]
        <4>1. CASE o = found
          BY <1>1, <1>3, <1>4, <2>1, <4>1
        <4>2. CASE o # found
          BY <1>1, <1>12, <2>2, <4>2 DEF LayeredBy
        <4> QED
          BY <4>1, <4>2
      <3> QED
        BY <1>1, <2>1, <2>6, <3>1
    <2>8. ASSUME NEW m \in hasVisited, NEW k \in Range(links[m])
          PROVE  Pending(m, k)' \/ gScores'[k.to] <= gScores'[m] + c
      <3>1. CASE m = current /\ k = l
        <4>1. gScores'[k.to] = score
          BY <1>4, <3>1 DEF found
        <4> QED
          BY <1>1, <1>3, <1>4, <2>1, <3>1, <4>1
      <3>2. CASE Pending(m, k)
        BY <1>1, <3>1, <3>2
      <3>3. CASE ~Pending(m, k)
        <4>1. k.to \in DOMAIN gScores
          BY <3>3 DEF SearchInv, Closed
        <4> QED
          BY <1>12, <2>2, <3>3, <4>1 DEF LayeredBy
      <3> QED
        BY <3>2, <3>3
    <2>9. \A m \in DOMAIN gScores' : gScores'[m] <= gScores'[current] + c
      BY <1>1, <1>4, <2>1, <2>6
    <2> QED
      BY <1>1, <1>6, <2>3, <2>4, <2>5, <2>7, <2>8, <2>9 DEF LayeredBy
  <1>13. Layered'
    BY <1>6, <1>12 DEF SearchInv, Layered
  <1>14. Traced'
    BY <1>1 DEF SearchInv, Traced, Found
  <1> QED
    BY <1>1, <1>6, <1>7, <1>8, <1>9, <1>10, <1>11, <1>13, <1>14 DEF SearchInv

-----------------------------------------------------------------------------
(* The end of a search.                                                     *)

\* A step that leaves the search's variables alone keeps what is known of them.
LEMMA SameSearch ==
  ASSUME GraphTypes, SearchInv, UNCHANGED builtVars, UNCHANGED searchVars,
         pc \in {"search", "trace"} => todo = <<>>,
         pc' \in {"trace", "done", "endless"}
  PROVE  /\ GraphTypes' /\ SearchTypes' /\ Reached' /\ Closed' /\ NothingNearer'
         /\ Rooted' /\ Layered'
         /\ \A p : Traces(p)' <=> Traces(p)
         /\ BestOpen' = BestOpen /\ Size' = Size
  <1>1. /\ start' = start /\ goal' = goal /\ gScores' = gScores /\ cameFrom' = cameFrom
        /\ openSet' = openSet /\ hasVisited' = hasVisited /\ current' = current /\ todo' = todo
    BY DEF searchVars
  <1>2. /\ GraphTypes' /\ links' = links /\ LinkType' = LinkType /\ AllLinks' = AllLinks
        /\ Edges' = Edges /\ points' = points /\ Size' = Size
        /\ \A c : Uniform(c)' <=> Uniform(c)
    BY SameGraph DEF GraphTypes
  <1>3. todo = <<>>
    BY DEF SearchInv, SearchTypes, GraphTypes
  <1>4. SearchTypes'
    BY <1>1, <1>2, <1>3 DEF SearchInv, SearchTypes
  <1>5. Reached' /\ Closed' /\ NothingNearer' /\ Rooted'
    BY <1>1, <1>2 DEF SearchInv, Reached, Closed, NothingNearer, Rooted, Pending
  <1>6. Layered'
    BY <1>1, <1>2 DEF SearchInv, Layered, LayeredBy, Pending
  <1>7. (\A p : Traces(p)' <=> Traces(p)) /\ BestOpen' = BestOpen
    BY <1>1 DEF Traces, BestOpen
  <1> QED
    BY <1>2, <1>4, <1>5, <1>6, <1>7

LEMMA ReachedGoalKeeps ==
  ASSUME GraphTypes, SearchInv, ReachedGoal
  PROVE  GraphTypes' /\ SearchInv' /\ pc' # "build"
  <1>1. /\ pc' = "trace" /\ path' = <<goal>> /\ goal \in BestOpen /\ todo = <<>>
        /\ UNCHANGED builtVars /\ UNCHANGED searchVars
    BY DEF ReachedGoal, AtTop
  <1>2. /\ GraphTypes' /\ SearchTypes' /\ Reached' /\ Closed' /\ NothingNearer'
        /\ Rooted' /\ Layered' /\ (\A p : Traces(p)' <=> Traces(p)) /\ BestOpen' = BestOpen
    BY <1>1, SameSearch
  <1>3. goal \in DOMAIN gScores /\ goal' = goal
    BY <1>1 DEF SearchInv, SearchTypes, BestOpen, searchVars
  <1>4. Traces(<<goal>>)
    BY <1>3 DEF Traces
  <1>5. Traced'
    BY <1>1, <1>2, <1>3, <1>4 DEF Traced, Found
  <1> QED
    BY <1>1, <1>2, <1>5 DEF SearchInv

LEMMA NoPathKeeps ==
  ASSUME GraphTypes, SearchInv, NoPath
  PROVE  GraphTypes' /\ SearchInv' /\ pc' # "build"
  <1>1. /\ pc = "search" /\ pc' = "done" /\ path' = path /\ openSet = {} /\ todo = <<>>
        /\ UNCHANGED builtVars /\ UNCHANGED searchVars /\ openSet' = openSet
    BY DEF NoPath, AtTop, searchVars
  <1>2. /\ GraphTypes' /\ SearchTypes' /\ Reached' /\ Closed' /\ NothingNearer'
        /\ Rooted' /\ Layered'
    BY <1>1, SameSearch
  <1>3. path' = <<>>
    BY <1>1 DEF SearchInv, Traced
  <1>4. Traced'
    BY <1>1, <1>3 DEF Traced, Found
  <1> QED
    BY <1>1, <1>2, <1>4 DEF SearchInv

LEMMA TraceBackKeeps ==
  ASSUME GraphTypes, SearchInv, TraceBack
  PROVE  GraphTypes' /\ SearchInv' /\ pc' # "build"
  <1>1. /\ pc = "trace" /\ pc' = pc /\ path' = <<cameFrom[path[1]]>> \o path
        /\ path[1] \in DOMAIN cameFrom
        /\ UNCHANGED builtVars /\ UNCHANGED searchVars /\ goal' = goal
    BY DEF TraceBack, searchVars
  <1>2. /\ GraphTypes' /\ SearchTypes' /\ Reached' /\ Closed' /\ NothingNearer'
        /\ Rooted' /\ Layered' /\ (\A p : Traces(p)' <=> Traces(p)) /\ BestOpen' = BestOpen
    BY <1>1, SameSearch DEF SearchInv, SearchTypes
  <1>3. Traces(path) /\ goal \in BestOpen
    BY <1>1 DEF SearchInv, Traced
  <1>4. cameFrom[path[1]] \in DOMAIN gScores
    BY <1>1 DEF SearchInv, SearchTypes, Reached
  <1> DEFINE x == cameFrom[path[1]]
             len == Len(path)
  <1>5. path \in Seq(DOMAIN gScores) /\ path # <<>> /\ len \in Nat /\ len > 0
    BY <1>3, EmptySeq DEF Traces
  <1>6. /\ path' \in Seq(DOMAIN gScores) /\ Len(path') = len + 1 /\ path'[1] = x
        /\ \A i \in 1..len : path'[i + 1] = path[i]
    <2>1. <<x>> \in Seq(DOMAIN gScores) /\ Len(<<x>>) = 1 /\ <<x>>[1] = x
      BY <1>4
    <2> HIDE DEF x
    <2>2. path' = <<x>> \o path
      BY <1>1 DEF x
    <2>3. path' \in Seq(DOMAIN gScores) /\ Len(path') = 1 + len
      BY <1>5, <2>1, <2>2, ConcatProperties
    <2>4. \A i \in 1..(1 + len) : path'[i] = IF i <= 1 THEN <<x>>[i] ELSE path[i - 1]
      BY <1>5, <2>1, <2>2, ConcatProperties
    <2>5. \A i \in 1..len : i + 1 \in 1..(1 + len) /\ ~(i + 1 <= 1) /\ (i + 1) - 1 = i
      BY <1>5
    <2>6. \A i \in 1..len : path'[i + 1] = path[i]
      BY <2>4, <2>5
    <2> QED
      BY <1>5, <2>1, <2>3, <2>4, <2>6
  <1> HIDE DEF x, len
  <1>7. Traces(path')
    <2>1. path' # <<>> /\ path'[Len(path')] = goal
      BY <1>3, <1>5, <1>6 DEF Traces, len
    <2>2. ASSUME NEW i \in 1..(Len(path') - 1)
          PROVE  path'[i + 1] \in DOMAIN cameFrom /\ cameFrom[path'[i + 1]] = path'[i]
      <3>1. i \in 1..len /\ path'[i + 1] = path[i]
        BY <1>5, <1>6
      <3>2. CASE i = 1
        BY <1>1, <1>6, <3>1, <3>2 DEF x
      <3>3. CASE i # 1
        <4>1. i - 1 \in 1..(len - 1) /\ (i - 1) + 1 = i /\ i - 1 \in 1..len
          BY <1>5, <3>1, <3>3
        <4>2. path[(i - 1) + 1] \in DOMAIN cameFrom /\ cameFrom[path[(i - 1) + 1]] = path[i - 1]
          BY <1>3, <4>1 DEF Traces, len
        <4>3. path'[(i - 1) + 1] = path[i - 1]
          BY <1>6, <4>1
        <4> QED
          BY <3>1, <4>1, <4>2, <4>3
      <3> QED
        BY <3>2, <3>3
    <2> QED
      BY <1>6, <2>1, <2>2 DEF Traces
  <1>8. Traced'
    <2>1. path' # <<>>
      BY <1>7 DEF Traces
    <2>2. Traces(path)'
      BY <1>1, <1>7 DEF Traces, searchVars
    <2> QED
      BY <1>1, <1>2, <1>3, <2>1, <2>2 DEF Traced, Found
  <1> QED
    BY <1>1, <1>2, <1>8 DEF SearchInv

LEMMA TraceEndsKeeps ==
  ASSUME GraphTypes, SearchInv, TraceEnds \/ TraceGoesRound
  PROVE  GraphTypes' /\ SearchInv' /\ pc' # "build"
  <1>1. /\ pc = "trace" /\ path' = path /\ UNCHANGED builtVars /\ UNCHANGED searchVars
        /\ cameFrom' = cameFrom /\ goal' = goal
        /\ \/ pc' = "done" /\ path[1] \notin DOMAIN cameFrom
           \/ pc' = "endless" /\ Len(path) > Size
    BY DEF TraceEnds, TraceGoesRound, searchVars
  <1>2. /\ GraphTypes' /\ SearchTypes' /\ Reached' /\ Closed' /\ NothingNearer'
        /\ Rooted' /\ Layered' /\ BestOpen' = BestOpen /\ Size' = Size
    BY <1>1, SameSearch DEF SearchInv, SearchTypes
  <1>3. path # <<>> /\ Traces(path) /\ goal \in BestOpen
    BY <1>1 DEF SearchInv, Traced
  <1>4. Traces(path)'
    BY <1>1, <1>3 DEF Traces, searchVars
  <1>5. Traced'
    BY <1>1, <1>2, <1>3, <1>4 DEF Traced, Found
  <1> QED
    BY <1>1, <1>2, <1>5 DEF SearchInv

LEMMA StutterKeeps ==
  ASSUME GraphInv, UNCHANGED graphVars
  PROVE  GraphInv'
  <1>1. /\ UNCHANGED builtVars /\ pc' = pc /\ path' = path
        /\ start' = start /\ goal' = goal /\ gScores' = gScores /\ cameFrom' = cameFrom
        /\ openSet' = openSet /\ hasVisited' = hasVisited /\ current' = current /\ todo' = todo
    BY DEF graphVars, searchVars
  <1>2. /\ GraphTypes' /\ links' = links /\ LinkType' = LinkType /\ AllLinks' = AllLinks
        /\ Edges' = Edges /\ points' = points /\ Size' = Size
        /\ \A c : Uniform(c)' <=> Uniform(c)
    BY <1>1, SameGraph DEF GraphInv, GraphTypes
  <1>3. CASE pc = "build"
    BY <1>1, <1>2, <1>3 DEF GraphInv, NotSearched
  <1>4. CASE pc # "build"
    <2>1. SearchInv
      BY <1>4 DEF GraphInv
    <2>2. SearchTypes' /\ Reached' /\ Closed' /\ NothingNearer' /\ Rooted'
      BY <1>1, <1>2, <2>1
         DEF SearchInv, SearchTypes, Reached, Closed, NothingNearer, Rooted, Pending
    <2>3. Layered'
      BY <1>1, <1>2, <2>1 DEF SearchInv, Layered, LayeredBy, Pending
    <2>4. Traced'
      BY <1>1, <1>2, <2>1 DEF SearchInv, Traced, Traces, BestOpen, Found
    <2> QED
      BY <1>1, <1>2, <1>4, <2>2, <2>3, <2>4 DEF GraphInv, SearchInv
  <1> QED
    BY <1>3, <1>4

LEMMA GraphInitInv == GraphInit => GraphInv
  <1> SUFFICES ASSUME GraphInit
               PROVE  GraphInv
    OBVIOUS
  <1>1. DOMAIN points = {} /\ DOMAIN links = {} /\ pc = "build" /\ NotSearched
    BY DEF GraphInit, NotSearched
  <1>2. Size = 0 /\ DOMAIN points = 0..(0 - 1)
    BY <1>1, SizeOf DEF Size
  <1>3. GraphTypes
    BY <1>1, <1>2 DEF GraphTypes
  <1> QED
    BY <1>1, <1>3 DEF GraphInv

LEMMA GraphNextInv == GraphInv /\ [GraphNext]_graphVars => GraphInv'
  <1> SUFFICES ASSUME GraphInv, [GraphNext]_graphVars
               PROVE  GraphInv'
    OBVIOUS
  <1>1. GraphTypes /\ (pc = "build" => NotSearched) /\ (pc # "build" => SearchInv)
    BY DEF GraphInv
  <1>2. ASSUME NEW p \in Points, AddNode(p)
        PROVE  GraphInv'
    BY <1>1, <1>2, AddNodeKeeps DEF AddNode, GraphInv
  <1>3. ASSUME NEW n \in DOMAIN points, NEW m \in 0..MaxNodes, NEW c \in Costs, AddLink(n, m, c)
        PROVE  GraphInv'
    BY <1>1, <1>3, AddLinkKeeps DEF AddLink, GraphInv
  <1>4. ASSUME NEW s \in DOMAIN points, NEW g \in DOMAIN points, FindShortestPath(s, g)
        PROVE  GraphInv'
    <2>1. NotSearched
      BY <1>1, <1>4 DEF FindShortestPath
    <2>2. GraphTypes' /\ SearchInv' /\ pc' = "search"
      BY <1>1, <1>4, <2>1, SearchBegins
    <2> QED
      BY <2>2 DEF GraphInv
  <1>5. ASSUME NEW n \in openSet, SkipNode(n)
        PROVE  GraphInv'
    <2>1. pc = "search"
      BY <1>5 DEF SkipNode, AtTop
    <2> QED
      BY <1>1, <1>5, <2>1, SkipNodeKeeps DEF GraphInv
  <1>6. ASSUME NEW n \in openSet, VisitNode(n)
        PROVE  GraphInv'
    <2>1. pc = "search"
      BY <1>6 DEF VisitNode, AtTop
    <2> QED
      BY <1>1, <1>6, <2>1, VisitNodeKeeps DEF GraphInv
  <1>7. CASE FollowLink
    <2>1. pc = "search" /\ SearchInv
      BY <1>1, <1>7 DEF FollowLink
    <2>2. CASE ~Better(Head(todo).to, gScores[current] + Head(todo).cost)
      BY <1>1, <1>7, <2>1, <2>2, WorseKeeps DEF GraphInv
    <2>3. CASE Head(todo).to \notin DOMAIN gScores
      BY <1>1, <1>7, <2>1, <2>3, FoundKeeps DEF GraphInv
    <2>4. CASE /\ Head(todo).to \in DOMAIN gScores
               /\ Better(Head(todo).to, gScores[current] + Head(todo).cost)
      BY <1>1, <1>7, <2>1, <2>4, AgainKeeps DEF GraphInv
    <2> QED
      BY <2>2, <2>3, <2>4
  <1>8. CASE ReachedGoal
    <2>1. SearchInv
      BY <1>1, <1>8 DEF ReachedGoal, AtTop
    <2> QED
      BY <1>1, <1>8, <2>1, ReachedGoalKeeps DEF GraphInv
  <1>9. CASE NoPath
    <2>1. SearchInv
      BY <1>1, <1>9 DEF NoPath, AtTop
    <2> QED
      BY <1>1, <1>9, <2>1, NoPathKeeps DEF GraphInv
  <1>10. CASE TraceBack
    <2>1. SearchInv
      BY <1>1, <1>10 DEF TraceBack
    <2> QED
      BY <1>1, <1>10, <2>1, TraceBackKeeps DEF GraphInv
  <1>11. CASE TraceEnds \/ TraceGoesRound
    <2>1. SearchInv
      BY <1>1, <1>11 DEF TraceEnds, TraceGoesRound
    <2> QED
      BY <1>1, <1>11, <2>1, TraceEndsKeeps DEF GraphInv
  <1>12. CASE UNCHANGED graphVars
    BY <1>12, StutterKeeps
  <1> QED
    BY <1>2, <1>3, <1>4, <1>5, <1>6, <1>7, <1>8, <1>9, <1>10, <1>11, <1>12
       DEF GraphNext, Search, Returned

-----------------------------------------------------------------------------
(* What the invariant says of results.                                      *)

LEMMA WayFacts ==
  ASSUME GraphTypes, NEW a, NEW b, NEW p \in Ways(a, b)
  PROVE  /\ Len(p) \in 1..Size /\ p[1] = a /\ p[Len(p)] = b
         /\ \A i \in 1..Len(p) : p[i] \in DOMAIN points
         /\ \A i \in 1..(Len(p) - 1) :
              p[i] \in DOMAIN links /\ \E l \in Range(links[p[i]]) : l.to = p[i + 1]
  <1>1. PICK k \in 1..Size : p \in [1..k -> DOMAIN points]
    BY DEF Ways
  <1>2. k \in Nat
    BY <1>1 DEF GraphTypes
  <1>3. p \in Seq(DOMAIN points) /\ Len(p) = k
    BY <1>1, <1>2, SeqDef
  <1>4. p[1] = a /\ p[Len(p)] = b /\ FollowsLinks(p)
    BY DEF Ways
  <1>5. \A i \in 1..(Len(p) - 1) :
          p[i] \in DOMAIN points /\ \E l \in Range(links[p[i]]) : l.to = p[i + 1]
    BY <1>4, EdgeFacts DEF FollowsLinks
  <1> QED
    BY <1>1, <1>3, <1>4, <1>5 DEF GraphTypes

\* A path without repetitions is no longer than there are nodes.
LEMMA Simple ==
  ASSUME GraphTypes, NEW p \in Seq(DOMAIN points),
         \A i, j \in 1..Len(p) : i < j => p[i] # p[j]
  PROVE  IsInjective(p) /\ Len(p) <= Size
  <1>1. Len(p) \in Nat /\ DOMAIN p = 1..Len(p) /\ p \in [1..Len(p) -> DOMAIN points]
    BY LenProperties
  <1>2. IsInjective(p)
    <2> SUFFICES ASSUME NEW i \in 1..Len(p), NEW j \in 1..Len(p), p[i] = p[j]
                 PROVE  i = j
      BY <1>1 DEF IsInjective
    <2> QED
      BY <1>1
  <1>3. p \in Injection(1..Len(p), DOMAIN points)
    BY <1>1, <1>2 DEF Injection
  <1>4. IsFiniteSet(DOMAIN points) /\ Size \in Nat
    BY SizeOf DEF GraphTypes
  <1>5. Cardinality(1..Len(p)) <= Cardinality(DOMAIN points)
    BY <1>3, <1>4, FS_Injection
  <1>6. Cardinality(1..Len(p)) = Len(p)
    <2>1. 1 \in Int /\ Len(p) \in Int
      BY <1>1
    <2>2. Cardinality(1..Len(p)) = IF 1 > Len(p) THEN 0 ELSE Len(p) - 1 + 1
      BY <2>1, FS_Interval
    <2> QED
      BY <1>1, <2>2
  <1> QED
    BY <1>2, <1>5, <1>6 DEF Size

\* If the start has no predecessor, no node comes twice.
LEMMA NoCircle ==
  ASSUME GraphTypes, SearchInv, NEW p, Traces(p), start \notin DOMAIN cameFrom
  PROVE  IsInjective(p) /\ Len(p) <= Size
  <1>1. p \in Seq(DOMAIN gScores) /\ Len(p) \in Nat
    BY DEF Traces
  <1>2. p \in Seq(DOMAIN points)
    <2>1. \A i \in 1..Len(p) : p[i] \in DOMAIN points
      BY <1>1 DEF SearchInv, SearchTypes
    <2> QED
      BY <1>1, <2>1, SeqDef
  <1>3. ASSUME NEW i \in 1..Len(p), NEW j \in 1..Len(p), i < j, p[i] = p[j]
        PROVE  FALSE
    <2> DEFINE S == {p[k] : k \in (i + 1)..j}
    <2>1. \A k \in (i + 1)..j : k - 1 \in 1..(Len(p) - 1) /\ (k - 1) + 1 = k
      BY <1>1, <1>3
    <2>2. \A k \in (i + 1)..j : p[k] \in DOMAIN cameFrom /\ cameFrom[p[k]] = p[k - 1]
      BY <2>1 DEF Traces
    <2>3. j \in (i + 1)..j
      BY <1>3
    <2>4. S \in SUBSET DOMAIN cameFrom /\ S # {}
      BY <2>2, <2>3
    <2>5. PICK n \in S : cameFrom[n] \notin S
      BY <2>4 DEF SearchInv, Rooted
    <2>6. PICK k \in (i + 1)..j : n = p[k]
      BY <2>5
    <2>7. p[k - 1] \notin S
      BY <2>2, <2>5, <2>6
    <2>8. CASE k = i + 1
      BY <1>1, <1>3, <2>3, <2>7, <2>8
    <2>9. CASE k # i + 1
      <3>1. k - 1 \in (i + 1)..j
        BY <2>9
      <3> QED
        BY <2>7, <3>1
    <2> QED
      BY <2>8, <2>9
  <1> QED
    BY <1>2, <1>3, Simple

\* The path that is found begins at the start, which has no predecessor.
LEMMA FoundFacts ==
  ASSUME GraphTypes, SearchInv, Found
  PROVE  /\ Traces(path) /\ path[1] = start /\ start \notin DOMAIN cameFrom
         /\ goal \in BestOpen /\ todo = <<>> /\ Len(path) \in Nat \ {0}
         /\ path \in Seq(DOMAIN gScores)
  <1>1. /\ Traces(path) /\ path[1] \notin DOMAIN cameFrom /\ goal \in BestOpen /\ todo = <<>>
    BY DEF SearchInv, Traced, Found, SearchTypes
  <1>2. path \in Seq(DOMAIN gScores) /\ Len(path) \in Nat \ {0}
    BY <1>1, EmptySeq DEF Traces
  <1>3. path[1] \in DOMAIN gScores
    BY <1>2
  <1>4. path[1] = start
    BY <1>1, <1>3 DEF SearchInv, Reached
  <1> QED
    BY <1>1, <1>2, <1>4

LEMMA FoundIsWay ==
  ASSUME GraphTypes, SearchInv, Found
  PROVE  IsInjective(path) /\ path \in Ways(start, goal)
  <1>1. /\ Traces(path) /\ path[1] = start /\ start \notin DOMAIN cameFrom
        /\ Len(path) \in Nat \ {0} /\ path \in Seq(DOMAIN gScores)
    BY FoundFacts
  <1>2. IsInjective(path) /\ Len(path) <= Size
    BY <1>1, NoCircle
  <1>3. \A i \in 1..Len(path) : path[i] \in DOMAIN points
    BY <1>1 DEF SearchInv, SearchTypes
  <1>4. path \in [1..Len(path) -> DOMAIN points] /\ Len(path) \in 1..Size
    BY <1>1, <1>2, <1>3 DEF GraphTypes
  <1>5. FollowsLinks(path)
    BY <1>1 DEF Traces, FollowsLinks, SearchInv, Reached
  <1>6. path[Len(path)] = goal
    BY <1>1 DEF Traces
  <1> QED
    BY <1>1, <1>2, <1>4, <1>5, <1>6 DEF Ways

\* Nothing is pending after the loops.
LEMMA NothingPending ==
  ASSUME todo = <<>>
  PROVE  \A n, l : ~Pending(n, l)
  <1>1. Range(todo) = {}
    BY DEF Range
  <1> QED
    BY <1>1 DEF Pending

\* A way from the start stays in what was visited.
LEMMA NoWayMissed ==
  ASSUME GraphTypes, SearchInv, pc = "done", path = <<>>
  PROVE  Ways(start, goal) = {}
  <1> SUFFICES ASSUME NEW p \in Ways(start, goal)
               PROVE  FALSE
    OBVIOUS
  <1>1. /\ openSet = {} /\ todo = <<>> /\ DOMAIN gScores = hasVisited
        /\ start \in hasVisited /\ goal \notin hasVisited
    BY DEF SearchInv, Traced, SearchTypes, Reached
  <1>2. /\ Len(p) \in 1..Size /\ p[1] = start /\ p[Len(p)] = goal
        /\ \A i \in 1..(Len(p) - 1) :
             p[i] \in DOMAIN links /\ \E l \in Range(links[p[i]]) : l.to = p[i + 1]
    BY WayFacts
  <1> DEFINE S == {i \in 1..Len(p) : p[i] \notin hasVisited}
  <1>3. Len(p) \in Nat /\ Len(p) >= 1
    BY <1>2 DEF GraphTypes
  <1>4. S \in SUBSET Nat /\ S # {}
    BY <1>1, <1>2, <1>3
  <1>5. PICK n \in S : \A m \in S : n <= m
    BY <1>4, Least
  <1>6. n # 1 /\ n \in 1..Len(p) /\ n \in Nat
    BY <1>1, <1>2, <1>5
  <1>7. n - 1 \in 1..(Len(p) - 1) /\ (n - 1) + 1 = n /\ n - 1 \in 1..Len(p) /\ ~(n <= n - 1)
    BY <1>3, <1>6
  <1>8. p[n - 1] \in hasVisited
    BY <1>5, <1>7
  <1>9. PICK l \in Range(links[p[n - 1]]) : l.to = p[n]
    BY <1>2, <1>7
  <1>10. l.to \in hasVisited
    BY <1>1, <1>8, <1>9, NothingPending DEF SearchInv, Closed
  <1> QED
    BY <1>5, <1>9, <1>10

\* If all links cost the same, no way is shorter than the path that was found: its
\* nodes would all be nearer than the goal, hence visited, the goal among them.
LEMMA NoneShorter ==
  ASSUME GraphTypes, SearchInv, Found, NEW c \in Costs \cup {1}, Uniform(c),
         NEW p \in Ways(start, goal), Len(p) < Len(path)
  PROVE  FALSE
  <1>1. /\ Traces(path) /\ path[1] = start /\ goal \in BestOpen /\ todo = <<>>
        /\ Len(path) \in Nat \ {0} /\ path \in Seq(DOMAIN gScores)
    BY FoundFacts
  <1>2. LayeredBy(c) /\ c \in Int /\ c > 0
    BY GraphConstants DEF SearchInv, Layered, Uniform
  <1>3. /\ Len(p) \in 1..Size /\ p[1] = start /\ p[Len(p)] = goal
        /\ \A i \in 1..(Len(p) - 1) :
             p[i] \in DOMAIN links /\ \E l \in Range(links[p[i]]) : l.to = p[i + 1]
    BY WayFacts
  <1>4. /\ goal \in openSet /\ goal \notin hasVisited /\ \A o \in openSet : gScores[goal] <= gScores[o]
        /\ DOMAIN gScores = openSet \cup hasVisited
        /\ \A n \in DOMAIN gScores : gScores[n] \in Int
    BY <1>1 DEF BestOpen, SearchInv, Reached, SearchTypes
  <1>5. ASSUME NEW i \in 1..(Len(path) - 1)
        PROVE  /\ gScores[path[i + 1]] = gScores[path[i]] + c
               /\ gScores[path[i]] < gScores[goal] /\ gScores[path[i]] \in Int
    <2>1. /\ path[i + 1] \in DOMAIN cameFrom /\ cameFrom[path[i + 1]] = path[i]
      BY <1>1 DEF Traces
    <2>2. gScores[path[i + 1]] = gScores[path[i]] + c
      BY <1>2, <2>1 DEF LayeredBy
    <2>3. path[i] \in hasVisited
      BY <2>1 DEF SearchInv, Reached
    <2>4. gScores[path[i + 1]] <= gScores[goal]
      <3>1. CASE i + 1 = Len(path)
        <4>1. path[i + 1] = goal
          BY <1>1, <3>1 DEF Traces
        <4> QED
          BY <1>4, <4>1
      <3>2. CASE i + 1 # Len(path)
        <4>1. i + 1 \in 1..(Len(path) - 1)
          BY <1>1, <3>2
        <4>2. path[i + 1] \in hasVisited
          BY <1>1, <4>1 DEF Traces, SearchInv, Reached
        <4> QED
          BY <1>2, <1>4, <4>2 DEF LayeredBy
      <3> QED
        BY <3>1, <3>2
    <2>5. gScores[path[i]] \in Int /\ gScores[path[i + 1]] \in Int /\ gScores[goal] \in Int
      BY <1>4, <2>1, <2>3 DEF SearchInv, Reached
    <2> QED
      BY <1>2, <2>2, <2>4, <2>5
  <1>6. Len(p) \in Nat /\ Len(p) >= 1 /\ \A i \in 1..Len(p) : i \in 1..(Len(path) - 1)
    BY <1>1, <1>3 DEF GraphTypes
  <1>7. ASSUME NEW n \in DOMAIN gScores, gScores[n] < gScores[goal]
        PROVE  n \in hasVisited
    BY <1>4, <1>7
  <1> DEFINE Near(i) == p[i] \in hasVisited /\ gScores[p[i]] <= gScores[path[i]]
             S == {i \in 1..Len(p) : ~Near(i)}
  <1>8. S \in SUBSET Nat /\ Len(p) \in S
    <2>1. Len(p) \in 1..Len(p) /\ ~Near(Len(p))
      BY <1>3, <1>4, <1>6
    <2> QED
      BY <1>6, <2>1
  <1>9. PICK n \in S : \A m \in S : n <= m
    <2> HIDE DEF S
    <2> QED
      BY <1>8, Least
  <1>10. n \in 1..Len(p) /\ ~Near(n)
    BY <1>9
  <1>11. CASE n = 1
    <2>1. 1 \in 1..(Len(path) - 1)
      BY <1>6
    <2>2. gScores[start] < gScores[goal] /\ start \in DOMAIN gScores /\ gScores[start] \in Int
      BY <1>1, <1>5, <2>1 DEF SearchInv, Reached
    <2>3. start \in hasVisited
      BY <1>7, <2>2
    <2> QED
      BY <1>1, <1>3, <1>10, <1>11, <2>2, <2>3
  <1>12. CASE n # 1
    <2>1. /\ n - 1 \in 1..(Len(p) - 1) /\ (n - 1) + 1 = n /\ n - 1 \in 1..Len(p)
          /\ ~(n <= n - 1)
      BY <1>6, <1>10, <1>12
    <2>2. Near(n - 1)
      BY <1>9, <2>1
    <2>3. PICK l \in Range(links[p[n - 1]]) : l.to = p[n]
      BY <1>3, <2>1
    <2>4. p[n] \in DOMAIN gScores
      BY <1>1, <2>2, <2>3, NothingPending DEF SearchInv, Closed
    <2>5. gScores[p[n]] <= gScores[p[n - 1]] + c
      BY <1>1, <1>2, <2>2, <2>3, NothingPending DEF LayeredBy
    <2>6. /\ gScores[path[n]] = gScores[path[n - 1]] + c /\ gScores[path[n - 1]] \in Int
          /\ gScores[path[n]] < gScores[goal] /\ gScores[path[n]] \in Int
      <3>1. n \in 1..(Len(path) - 1) /\ n - 1 \in 1..(Len(path) - 1)
        BY <1>6, <1>10, <2>1
      <3>2. gScores[path[(n - 1) + 1]] = gScores[path[n - 1]] + c
        BY <1>5, <3>1
      <3> QED
        BY <1>5, <2>1, <3>1, <3>2
    <2>7. gScores[p[n]] \in Int /\ gScores[p[n - 1]] \in Int /\ gScores[goal] \in Int
      BY <1>4, <2>2, <2>4
    <2>8. gScores[p[n - 1]] <= gScores[path[n - 1]]
      BY <2>2
    <2> HIDE DEF Near
    <2>9. gScores[p[n]] <= gScores[path[n]] /\ gScores[p[n]] < gScores[goal]
      <3> HIDE DEF S
      <3>1. c \in Int
        BY <1>2
      <3>2. gScores[p[n]] <= gScores[path[n - 1]] + c
        BY ONLY <2>5, <2>6, <2>7, <2>8, <3>1
      <3>3. gScores[p[n]] <= gScores[path[n]]
        BY ONLY <2>6, <3>2
      <3> QED
        BY ONLY <2>6, <2>7, <3>3
    <2>10. p[n] \in hasVisited
      BY <1>7, <2>4, <2>9
    <2> QED
      BY <1>10, <2>9, <2>10 DEF Near
  <1> QED
    BY <1>11, <1>12

-----------------------------------------------------------------------------
LEMMA GraphInvAlways == GraphSpec => []GraphInv
  <1> QED
    BY GraphInitInv, GraphNextInv, PTL DEF GraphSpec

\* Whatever the links and their costs: nothing found means that no way leads to
\* the goal, and what is found is a way that visits no node twice.
THEOREM SearchesFindPaths == GraphSpec => []FindsAPath
  <1>1. GraphInv => FindsAPath
    <2> SUFFICES ASSUME GraphInv, pc = "done"
                 PROVE  FindsAPath
      BY DEF FindsAPath, Found
    <2>1. GraphTypes /\ SearchInv
      BY DEF GraphInv
    <2>2. path = <<>> => Ways(start, goal) = {}
      BY <2>1, NoWayMissed
    <2>3. Found => IsInjective(path) /\ path \in Ways(start, goal)
      BY <2>1, FoundIsWay
    <2> QED
      BY <2>2, <2>3 DEF FindsAPath
  <1> QED
    BY <1>1, GraphInvAlways, PTL

\* reconstructPath goes round for ever only after a link of negative cost has led
\* back to the start.
THEOREM PathsEndWithoutNegativeCosts == GraphSpec => []EndlessOnlyOnNegativeCosts
  <1>1. GraphInv => EndlessOnlyOnNegativeCosts
    <2> SUFFICES ASSUME GraphInv, pc = "endless"
                 PROVE  start \in DOMAIN cameFrom /\ \E l \in AllLinks : l.cost < 0
      BY DEF EndlessOnlyOnNegativeCosts
    <2>1. GraphTypes /\ SearchInv /\ Traces(path) /\ Len(path) > Size /\ Size \in Nat
      BY DEF GraphInv, GraphTypes, SearchInv, Traced
    <2>2. start \in DOMAIN cameFrom
      <3>1. Len(path) \in Nat
        BY <2>1 DEF Traces
      <3> QED
        BY <2>1, <3>1, NoCircle
    <2>3. \A l \in AllLinks : l.cost \in Int
      BY <2>1, AllLinkFacts, GraphConstants
    <2> QED
      BY <2>1, <2>2, <2>3 DEF SearchInv, NothingNearer
  <1> QED
    BY <1>1, GraphInvAlways, PTL

\* If all links cost the same, what is found is a shortest way, although scores
\* are never replaced.
THEOREM UniformPathsAreShortest == GraphSpec => []UniformIsShortest
  <1>1. GraphInv => UniformIsShortest
    <2> SUFFICES ASSUME GraphInv, Found, \A l, m \in AllLinks : l.cost = m.cost /\ l.cost > 0,
                        NEW p \in Ways(start, goal)
                 PROVE  Len(path) <= Len(p)
      BY DEF UniformIsShortest
    <2>1. GraphTypes /\ SearchInv
      BY DEF GraphInv, Found
    <2>2. PICK c \in Costs \cup {1} : Uniform(c)
      <3>1. CASE AllLinks = {}
        BY <3>1 DEF Uniform
      <3>2. CASE AllLinks # {}
        BY <2>1, <3>2, AllLinkFacts DEF Uniform
      <3> QED
        BY <3>1, <3>2
    <2>3. Len(path) \in Nat /\ Len(p) \in Nat
      BY <2>1, FoundFacts, WayFacts DEF GraphTypes
    <2>4. ~(Len(p) < Len(path))
      BY <2>1, <2>2, NoneShorter
    <2> QED
      BY <2>3, <2>4
  <1> QED
    BY <1>1, GraphInvAlways, PTL

\* Both loops of a search get nearer to their end with every turn.
THEOREM SearchesEnd == GraphSpec => SearchProgresses
  <1> DEFINE Nearer ==
        \/ pc' # "search"
        \/ hasVisited \subseteq hasVisited' /\ hasVisited # hasVisited'
        \/ hasVisited' = hasVisited /\ Len(todo') < Len(todo)
        \/ /\ hasVisited' = hasVisited /\ todo' = todo
           /\ openSet' \subseteq openSet /\ openSet' # openSet
  <1>1. ASSUME GraphInv, GraphNext, pc = "search"
        PROVE  Nearer \/ UNCHANGED graphVars
    <2>1. SearchTypes
      BY <1>1 DEF GraphInv, SearchInv
    <2>2. ASSUME NEW n \in openSet, SkipNode(n)
          PROVE  Nearer
      BY <2>2 DEF SkipNode
    <2>3. ASSUME NEW n \in openSet, VisitNode(n)
          PROVE  Nearer
      BY <2>3 DEF VisitNode
    <2>4. CASE FollowLink
      <3>1. todo # <<>> /\ todo' = Tail(todo) /\ todo \in Seq(LinkType) /\ hasVisited' = hasVisited
        BY <2>1, <2>4 DEF FollowLink, SearchTypes
      <3> QED
        BY <3>1, TailFacts
    <2>5. CASE ReachedGoal \/ NoPath
      BY <2>5 DEF ReachedGoal, NoPath
    <2>6. ~(TraceBack \/ TraceEnds \/ TraceGoesRound)
      BY <1>1 DEF TraceBack, TraceEnds, TraceGoesRound
    <2>7. /\ \A p : ~AddNode(p)
          /\ \A n, m, c : ~AddLink(n, m, c)
          /\ \A s, g : ~FindShortestPath(s, g)
      BY <1>1 DEF AddNode, AddLink, FindShortestPath
    <2> HIDE DEF Nearer
    <2> QED
      BY <1>1, <2>2, <2>3, <2>4, <2>5, <2>6, <2>7 DEF GraphNext, Search, Returned
  <1>2. GraphInv /\ [GraphNext]_graphVars => [pc = "search" => Nearer]_graphVars
    BY <1>1
  <1> HIDE DEF Nearer
  <1>3. GraphSpec => [][pc = "search" => Nearer]_graphVars
    BY <1>2, GraphInvAlways, PTL DEF GraphSpec
  <1> QED
    BY <1>3 DEF SearchProgresses, Nearer

=============================================================================
