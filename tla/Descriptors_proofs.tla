-------------------------- MODULE Descriptors_proofs --------------------------
(***************************************************************************)
(* Proofs about Descriptors, for any numbers of objects, descriptors and   *)
(* pids.  The descriptors: two holders in use never have the same number,  *)
(* so a close frees what is the closer's own.  The processes: a satellite  *)
(* keeps its pid until it is waited for, and only isRunning waits for it   *)
(* without its object forgetting the pid.                                  *)
(***************************************************************************)
EXTENDS Descriptors, TLAPS

Lives == {"unborn", "connecting", "alive", "failed", "dead"}

\* The types that the argument needs.
Types ==
  /\ table \in [Fds -> Holders \cup {Nothing, Foreign}]
  /\ fd \in [Holders -> Fds \cup {Closed}]
  /\ pid \in [Children -> Pids \cup {NoPid}]
  /\ life \in [Objects -> Lives]
  /\ process \in [Children -> {"none", "running", "zombie", "reaped"}]
  /\ owner \in [Pids -> Children \cup {Nothing, Foreign}]
  /\ kept \in [Servers -> SUBSET Conns]
  /\ \A c \in Conns : life[c] # "failed"

\* What is in use has a number, and is what is behind it.
Owns == \A h \in Holders : InUse(h) => fd[h] \in Fds /\ table[fd[h]] = h

\* What is open is accounted for: the first two parts of OnlyFailuresLeak.
SinglesAccounted ==
  \A f \in Fds, h \in Singles :
    table[f] = h => life[h] = "failed" \/ (life[h] = "alive" /\ fd[h] = f)

EndsAccounted ==
  \A f \in Fds, p \in Children : \A h \in {In(p), Out(p)} :
    table[f] = h => life[p] = "failed" \/ (life[p] = "alive" /\ pid[p] # NoPid /\ fd[h] = f)

\* A satellite that was not waited for has its pid, and its object knows it.
SatellitesOwned ==
  \A p \in Children : process[p] \in {"running", "zombie"} =>
    life[p] = "alive" /\ pid[p] # NoPid /\ owner[pid[p]] = p

\* Before the first isRunning that reaps, every pid in an object is its own.
PidsOwned ==
  \A p \in Children : pid[p] # NoPid => owner[pid[p]] = p

Strayed ==
  \A stray \in strays : \E p \in Children :
    stray[1] = Out(p) /\ pid[p] = NoPid /\ life[p] # "unborn"

Accounted == SinglesAccounted /\ EndsAccounted

IInv ==
  /\ Types /\ Owns /\ Strayed
  /\ ~aborted => Accounted /\ SatellitesOwned
  /\ ~polled => ~mistaken /\ PidsOwned
  /\ aborted => polled \/ interrupted

-----------------------------------------------------------------------------
(* Names.                                                                    *)

LEMMA Names ==
  /\ \A p \in Children : In(p) \in Holders \ Singles /\ Out(p) \in Holders \ Singles
  /\ \A p, q \in Children : In(p) # Out(q)
  /\ \A p, q \in Children : (In(p) = In(q) \/ Out(p) = Out(q)) => p = q
  /\ \A h \in Holders \ Singles : \E p \in Children : h \in {In(p), Out(p)}
  /\ Nothing \notin Holders /\ Foreign \notin Holders /\ Nothing # Foreign
  /\ Closed \notin Fds /\ NoPid \notin Pids
  /\ Nothing \notin Children /\ Foreign \notin Children
  /\ Singles \subseteq Holders /\ Singles \cap Children = {}
  /\ Objects = Singles \cup Children
  <1>1. Singles \cap PipeEnds = {} /\ Nothing \notin Holders /\ Nothing \notin Children
        /\ Foreign \notin Holders /\ Nothing # Foreign
        /\ Foreign \notin Children /\ Singles \cap Children = {}
    BY DescriptorConstants
  <1>2. \A p \in Children : In(p) \in PipeEnds /\ Out(p) \in PipeEnds
    BY DEF PipeEnds, Outs
  <1>3. \A h \in PipeEnds : \E p \in Children : h \in {In(p), Out(p)}
    BY DEF PipeEnds, Outs
  <1>4. Closed \notin Fds /\ NoPid \notin Pids
    BY DescriptorConstants DEF Closed, NoPid
  <1>5. \A p, q \in Children : In(p) # Out(q) /\ ((In(p) = In(q) \/ Out(p) = Out(q)) => p = q)
    BY DEF In, Out
  <1> QED
    BY <1>1, <1>2, <1>3, <1>4, <1>5 DEF Holders, Objects

\* A single is in use when it is open, an end while its child has a pid.
LEMMA Uses ==
  /\ \A h \in Singles : InUse(h) <=> fd[h] # Closed
  /\ \A p \in Children : (InUse(In(p)) <=> pid[p] # NoPid) /\ (InUse(Out(p)) <=> pid[p] # NoPid)
  <1>1. \A h \in Singles : InUse(h) <=> fd[h] # Closed
    BY DEF InUse, IsOpen
  <1>2. ASSUME NEW p \in Children, NEW h \in {In(p), Out(p)}
        PROVE  InUse(h) <=> pid[p] # NoPid
    <2>1. h \notin Singles /\ \A q \in Children : h \in {In(q), Out(q)} => q = p
      BY Names
    <2> QED
      BY <2>1 DEF InUse
  <1> QED
    BY <1>1, <1>2

-----------------------------------------------------------------------------
(* The calls that open and close.                                            *)

\* Closing open singles, and with them the death of some that are not open then.
LEMMA CloseKeeps ==
  ASSUME Types, Owns, NEW H \in SUBSET Singles, \A h \in H : IsOpen(h),
         CloseSingles(H), pid' = pid
  PROVE  /\ table' \in [Fds -> Holders \cup {Nothing, Foreign}] /\ fd' \in [Holders -> Fds \cup {Closed}]
         /\ Owns'
         /\ \A f \in Fds, g \in Holders : table'[f] = g =>
              table[f] = g /\ fd'[g] = IF g \in H THEN Closed ELSE fd[g]
         /\ \A f \in Fds, h \in H : table'[f] = h => fd[h] # f
  <1>1. table' = [f \in Fds |-> IF f \in {fd[h] : h \in H} THEN Nothing ELSE table[f]]
        /\ fd' = [h \in Holders |-> IF h \in H THEN Closed ELSE fd[h]]
    BY DEF CloseSingles, CloseNumbers
  <1>2. table' \in [Fds -> Holders \cup {Nothing, Foreign}] /\ fd' \in [Holders -> Fds \cup {Closed}]
    BY <1>1 DEF Types
  <1>3. \A h \in H : InUse(h)
    BY Uses DEF IsOpen
  <1>4. ASSUME NEW g \in Holders, InUse(g)'
        PROVE  fd'[g] \in Fds /\ table'[fd'[g]] = g
    <2>1. g \notin H /\ InUse(g)
      BY <1>1, <1>4, pid' = pid, Names DEF InUse, IsOpen
    <2>2. fd'[g] = fd[g] /\ fd[g] \in Fds /\ table[fd[g]] = g
      BY <1>1, <2>1 DEF Owns
    <2>3. fd[g] \notin {fd[h] : h \in H}
      BY <1>3, <2>1, <2>2, Names DEF Owns
    <2> QED
      BY <1>1, <2>2, <2>3
  <1>5. Owns'
    BY <1>4 DEF Owns
  <1>6. \A f \in Fds : table'[f] # Nothing => table'[f] = table[f] /\ f \notin {fd[h] : h \in H}
    BY <1>1
  <1> QED
    BY <1>1, <1>2, <1>5, <1>6, Names

\* Whatever a single opens, the number was free.
LEMMA OpenKeeps ==
  ASSUME Types, Owns, NEW h \in Singles, OpenFor(h), pid' = pid
  PROVE  /\ table' \in [Fds -> Holders \cup {Nothing, Foreign}] /\ fd' \in [Holders -> Fds \cup {Closed}]
         /\ Owns'
         /\ fd'[h] \in Fds /\ \A g \in Holders \ {h} : fd'[g] = fd[g]
         /\ \A f \in Fds, g \in Holders : table'[f] = g => table[f] = g \/ (g = h /\ f = fd'[h])
  <1>1. PICK f \in Fds : /\ Lowest({f})
                        /\ table' = [table EXCEPT ![f] = h]
                        /\ fd' = [fd EXCEPT ![h] = f]
    BY DEF OpenFor
  <1>2. table[f] = Nothing /\ h \in Holders
    BY <1>1, Names DEF Lowest, Free
  <1>3. table' \in [Fds -> Holders \cup {Nothing, Foreign}] /\ fd' \in [Holders -> Fds \cup {Closed}]
    BY <1>1, <1>2 DEF Types
  <1>4. fd'[h] = f /\ table'[f] = h /\ \A g \in Holders \ {h} : fd'[g] = fd[g]
    BY <1>1, <1>2 DEF Types
  <1>5. ASSUME NEW g \in Holders, InUse(g)'
        PROVE  fd'[g] \in Fds /\ table'[fd'[g]] = g
    <2>1. CASE g = h
      BY <1>4, <2>1
    <2>2. CASE g # h
      <3>1. InUse(g)
        BY <1>4, <1>5, <2>2, pid' = pid DEF InUse, IsOpen
      <3>2. fd[g] \in Fds /\ table[fd[g]] = g /\ g # Nothing
        BY <3>1, Names DEF Owns
      <3> QED
        BY <1>1, <1>2, <1>4, <2>2, <3>2 DEF Types
    <2> QED
      BY <2>1, <2>2
  <1>6. Owns'
    BY <1>5 DEF Owns
  <1> QED
    BY <1>1, <1>3, <1>4, <1>6 DEF Types

\* What may happen to the objects beside the one a call is about: a single that is
\* not open any more dies.
Fades(o) == /\ o \in Singles /\ life[o] # "failed" /\ life'[o] = "dead"
            /\ fd'[o] = Closed

LEMMA CloseAccounts ==
  ASSUME Types, Owns, Accounted, NEW H \in SUBSET Singles, \A h \in H : IsOpen(h),
         CloseSingles(H), pid' = pid,
         \A o \in Objects : life'[o] = life[o] \/ Fades(o)
  PROVE  Accounted'
  <1>1. /\ \A f \in Fds, g \in Holders : table'[f] = g =>
             table[f] = g /\ fd'[g] = IF g \in H THEN Closed ELSE fd[g]
        /\ \A f \in Fds, h \in H : table'[f] = h => fd[h] # f
    BY CloseKeeps
  <1>2. ASSUME NEW f \in Fds, NEW h \in Singles, table'[f] = h
        PROVE  life'[h] = "failed" \/ (life'[h] = "alive" /\ fd'[h] = f)
    <2>1. table[f] = h /\ h \in Objects /\ h \in Holders
      BY <1>1, <1>2, Names
    <2>2. CASE life[h] = "failed"
      BY <2>1, <2>2 DEF Fades
    <2>3. CASE life[h] = "alive" /\ fd[h] = f
      <3>1. h \notin H
        BY <1>1, <1>2, <2>3
      <3>2. fd'[h] = f /\ f # Closed
        BY <1>1, <1>2, <2>1, <2>3, <3>1, Names
      <3> QED
        BY <2>1, <2>3, <3>2 DEF Fades
    <2> QED
      BY <2>1, <2>2, <2>3 DEF Accounted, SinglesAccounted
  <1>3. ASSUME NEW f \in Fds, NEW p \in Children, NEW h \in {In(p), Out(p)}, table'[f] = h
        PROVE  life'[p] = "failed" \/ (life'[p] = "alive" /\ pid'[p] # NoPid /\ fd'[h] = f)
    <2>1. h \in Holders /\ h \notin Singles /\ p \in Objects /\ p \notin Singles
      BY Names
    <2>2. table[f] = h /\ fd'[h] = fd[h] /\ life'[p] = life[p]
      BY <1>1, <1>3, <2>1 DEF Fades
    <2> QED
      BY <2>2, pid' = pid DEF Accounted, EndsAccounted
  <1> QED
    BY <1>2, <1>3 DEF Accounted, SinglesAccounted, EndsAccounted

LEMMA OpenAccounts ==
  ASSUME Types, Owns, Accounted, NEW h \in Singles, OpenFor(h), pid' = pid,
         life[h] \in {"unborn", "connecting"}, life'[h] = "alive",
         \A o \in Objects \ {h} : life'[o] = life[o] \/ Fades(o)
  PROVE  Accounted'
  <1>1. /\ fd'[h] \in Fds /\ \A g \in Holders \ {h} : fd'[g] = fd[g]
        /\ \A f \in Fds, g \in Holders : table'[f] = g => table[f] = g \/ (g = h /\ f = fd'[h])
    BY OpenKeeps
  <1>2. ASSUME NEW f \in Fds, NEW g \in Singles, table'[f] = g
        PROVE  life'[g] = "failed" \/ (life'[g] = "alive" /\ fd'[g] = f)
    <2>1. g \in Objects /\ g \in Holders /\ f # Closed
      BY Names
    <2>2. CASE g = h /\ f = fd'[h]
      BY <2>2
    <2>3. CASE table[f] = g
      <3>1. life[g] = "failed" \/ (life[g] = "alive" /\ fd[g] = f)
        BY <2>3 DEF Accounted, SinglesAccounted
      <3>2. g # h
        BY <3>1
      <3> QED
        BY <1>1, <2>1, <3>1, <3>2 DEF Fades
    <2> QED
      BY <1>1, <1>2, <2>1, <2>2, <2>3
  <1>3. ASSUME NEW f \in Fds, NEW p \in Children, NEW g \in {In(p), Out(p)}, table'[f] = g
        PROVE  life'[p] = "failed" \/ (life'[p] = "alive" /\ pid'[p] # NoPid /\ fd'[g] = f)
    <2>1. g \in Holders /\ g # h /\ p \in Objects /\ p \notin Singles
      BY Names
    <2>2. table[f] = g /\ fd'[g] = fd[g] /\ life'[p] = life[p]
      BY <1>1, <1>3, <2>1 DEF Fades
    <2> QED
      BY <2>2, pid' = pid DEF Accounted, EndsAccounted
  <1> QED
    BY <1>2, <1>3 DEF Accounted, SinglesAccounted, EndsAccounted

\* A step that is not about children.
LEMMA NetStep ==
  ASSUME IInv, ~aborted, Types', Owns', Accounted',
         UNCHANGED <<process, owner, childVars, strays>>,
         \A p \in Children : life'[p] = life[p]
  PROVE  IInv'
  <1>1. Accounted /\ SatellitesOwned
    BY DEF IInv
  <1>2. SatellitesOwned'
    BY <1>1 DEF SatellitesOwned, childVars
  <1>3. Strayed'
    BY DEF IInv, Strayed, childVars
  <1>4. PidsOwned => PidsOwned'
    BY DEF PidsOwned, childVars
  <1>5. /\ polled' = polled /\ mistaken' = mistaken
        /\ aborted' = aborted /\ interrupted' = interrupted
    BY DEF childVars
  <1> QED
    BY <1>2, <1>3, <1>4, <1>5 DEF IInv

-----------------------------------------------------------------------------
(* The steps of servers, connections, clients and watchers.                  *)

\* The kinds of objects are apart.
LEMMA Kinds ==
  /\ Servers \subseteq Singles /\ Conns \subseteq Singles /\ Clients \subseteq Singles
  /\ Watchers \subseteq Singles
  /\ Servers \cap Conns = {} /\ Clients \cap Conns = {} /\ Watchers \cap Conns = {}
  /\ Servers \cap Children = {} /\ Conns \cap Children = {} /\ Clients \cap Children = {}
  /\ Watchers \cap Children = {}
  BY DescriptorConstants, Names DEF Singles, Sockets

\* A step in which open singles are closed and singles die.
LEMMA CloseStep ==
  ASSUME IInv, ~aborted, NEW H \in SUBSET Singles, \A h \in H : IsOpen(h), CloseSingles(H),
         life' \in [Objects -> Lives], kept' \in [Servers -> SUBSET Conns],
         \A o \in Objects : life'[o] = life[o] \/ Fades(o),
         UNCHANGED <<process, owner, childVars, strays>>
  PROVE  IInv'
  <1>1. Types /\ Owns /\ Accounted /\ pid' = pid
    BY DEF IInv, childVars
  <1>2. table' \in [Fds -> Holders \cup {Nothing, Foreign}] /\ fd' \in [Holders -> Fds \cup {Closed}] /\ Owns'
    BY <1>1, CloseKeeps
  <1>3. Accounted'
    BY <1>1, CloseAccounts
  <1>4. Types'
    BY <1>1, <1>2, Kinds, Names DEF Types, Fades
  <1>5. \A p \in Children : life'[p] = life[p]
    BY Names DEF Fades
  <1> QED
    BY <1>2, <1>3, <1>4, <1>5, NetStep

\* A step in which a single is opened, and others may die.
LEMMA OpenStep ==
  ASSUME IInv, ~aborted, NEW h \in Singles, OpenFor(h),
         life' \in [Objects -> Lives], kept' \in [Servers -> SUBSET Conns],
         life[h] \in {"unborn", "connecting"}, life'[h] = "alive",
         \A o \in Objects \ {h} : life'[o] = life[o] \/ Fades(o),
         UNCHANGED <<process, owner, childVars, strays>>
  PROVE  IInv'
  <1>1. Types /\ Owns /\ Accounted /\ pid' = pid
    BY DEF IInv, childVars
  <1>2. table' \in [Fds -> Holders \cup {Nothing, Foreign}] /\ fd' \in [Holders -> Fds \cup {Closed}] /\ Owns'
    BY <1>1, OpenKeeps
  <1>3. Accounted'
    BY <1>1, OpenAccounts
  <1>4. Types'
    BY <1>1, <1>2, Kinds, Names DEF Types, Fades
  <1>5. \A p \in Children : life'[p] = life[p]
    BY Names DEF Fades
  <1> QED
    BY <1>2, <1>3, <1>4, <1>5, NetStep

LEMMA NewServerStep ==
  ASSUME IInv, ~aborted, NEW s \in Servers, NewServer(s)
  PROVE  IInv'
  <1>1. life[s] = "unborn" /\ s \in Singles /\ s \in Objects /\ s \in Holders
    BY Kinds, Names DEF NewServer, Unborn
  <1>2. UNCHANGED <<process, owner, childVars, strays, kept>> /\ Types /\ Owns /\ Accounted
    BY DEF NewServer, netVars, IInv
  <1>3. CASE OpenFor(s) /\ life' = [life EXCEPT ![s] = "alive"]
    <2>1. life' \in [Objects -> Lives] /\ life'[s] = "alive"
          /\ \A o \in Objects \ {s} : life'[o] = life[o]
      BY <1>1, <1>2, <1>3 DEF Types, Lives
    <2> QED
      BY <1>1, <1>2, <1>3, <2>1, OpenStep DEF Types
  <1>4. ASSUME NEW f \in Fds, Lowest({f}), table' = [table EXCEPT ![f] = s],
               life' = [life EXCEPT ![s] = "failed"], UNCHANGED fd
        PROVE  IInv'
    <2>1. table[f] = Nothing /\ pid' = pid
      BY <1>2, <1>4 DEF Lowest, Free, childVars
    <2>2. \A h \in Holders : InUse(h)' <=> InUse(h)
      BY <1>4, <2>1 DEF InUse, IsOpen
    <2>3. Owns'
      BY <1>2, <1>4, <2>1, <2>2, Names DEF Owns, Types
    <2>4. Types'
      BY <1>1, <1>2, <1>4, <2>1, Kinds DEF Types, Lives
    <2>5. SinglesAccounted'
      BY <1>1, <1>2, <1>4, <2>1, Names DEF Accounted, SinglesAccounted, Types
    <2>6. EndsAccounted'
      BY <1>1, <1>2, <1>4, <2>1, Names, Kinds DEF Accounted, EndsAccounted, Types
    <2>7. \A p \in Children : life'[p] = life[p]
      BY <1>2, <1>4, Kinds, Names DEF Types
    <2> QED
      BY <1>2, <2>3, <2>4, <2>5, <2>6, <2>7, NetStep DEF Accounted
  <1> QED
    BY <1>3, <1>4 DEF NewServer

LEMMA AcceptStep ==
  ASSUME IInv, ~aborted, NEW s \in Servers, NEW c \in Conns, Accept(s, c)
  PROVE  IInv'
  <1> DEFINE swept == {d \in kept[s] : ~IsOpen(d)} \ handles
  <1>1. Types /\ c \in Singles /\ c \in Objects /\ life[c] = "unborn" /\ OpenFor(c)
        /\ UNCHANGED <<process, owner, childVars, strays>> /\ pid' = pid
    BY Kinds, Names DEF Accept, Unborn, IInv, childVars
  <1>2. life' = [o \in Objects |->
          IF o = c THEN "alive" ELSE IF o \in swept THEN "dead" ELSE life[o]]
        /\ kept' = [kept EXCEPT ![s] = {d \in @ : IsOpen(d)} \cup {c}]
    BY DEF Accept
  <1>3. life' \in [Objects -> Lives] /\ kept' \in [Servers -> SUBSET Conns] /\ life'[c] = "alive"
    BY <1>1, <1>2 DEF Types, Lives
  <1>4. ASSUME NEW o \in Objects \ {c}, o \in swept
        PROVE  Fades(o)
    <2>1. o \in Conns /\ fd[o] = Closed /\ life'[o] = "dead"
      BY <1>1, <1>2, <1>4 DEF Types, IsOpen
    <2>2. fd'[o] = fd[o]
      BY <1>1, <1>4, <2>1, Kinds, Names, OpenKeeps DEF IInv
    <2> QED
      BY <1>1, <2>1, <2>2, Kinds DEF Fades, Types
  <1>5. \A o \in Objects \ {c} : life'[o] = life[o] \/ Fades(o)
    BY <1>2, <1>4
  <1> QED
    BY <1>1, <1>3, <1>5, OpenStep

\* Connections of C die when they are let go: all of them are closed by then.
LEMMA ReleaseFades ==
  ASSUME Types, NEW C \in SUBSET Conns, Release(C), \A c \in C : fd'[c] = Closed
  PROVE  /\ life' \in [Objects -> Lives]
         /\ \A o \in Objects : life'[o] = life[o] \/ Fades(o)
  BY Kinds DEF Types, Release, Fades, Lives

LEMMA ServerCloseStep ==
  ASSUME IInv, ~aborted, NEW s \in Servers, ServerClose(s)
  PROVE  IInv'
  <1> DEFINE H == {h \in kept[s] \cup {s} : IsOpen(h)}
  <1>1. Types /\ CloseSingles(H) /\ kept' = [kept EXCEPT ![s] = {}] /\ Release(kept[s])
        /\ UNCHANGED <<process, owner, childVars, strays>>
    BY DEF ServerClose, IInv
  <1>2. H \in SUBSET Singles /\ (\A h \in H : IsOpen(h)) /\ kept[s] \in SUBSET Conns
    BY <1>1, Kinds DEF Types
  <1>3. kept' \in [Servers -> SUBSET Conns]
    BY <1>1 DEF Types
  <1>4. \A c \in kept[s] : fd'[c] = Closed
    BY <1>1, <1>2, Kinds, Names DEF CloseSingles, IsOpen
  <1>5. life' \in [Objects -> Lives] /\ \A o \in Objects : life'[o] = life[o] \/ Fades(o)
    BY <1>1, <1>2, <1>4, ReleaseFades
  <1> HIDE DEF H
  <1> QED
    BY <1>1, <1>2, <1>3, <1>5, CloseStep

LEMMA ServerDiesStep ==
  ASSUME IInv, ~aborted, NEW s \in Servers, ServerDies(s)
  PROVE  IInv'
  <1> DEFINE shared == IF IsOpen(s) THEN kept[s] ELSE kept[s] \ handles
             H == {h \in shared \cup {s} : IsOpen(h)}
             D == {s} \cup (kept[s] \ handles)
  <1>1. Types /\ CloseSingles(H) /\ kept' = [kept EXCEPT ![s] = {}] /\ life[s] = "alive"
        /\ life' = [o \in Objects |-> IF o \in D THEN "dead" ELSE life[o]]
        /\ UNCHANGED <<process, owner, childVars, strays>>
    BY DEF ServerDies, IInv, Alive
  <1>2. H \in SUBSET Singles /\ (\A h \in H : IsOpen(h)) /\ kept[s] \in SUBSET Conns
    BY <1>1, Kinds DEF Types
  <1>3. kept' \in [Servers -> SUBSET Conns] /\ life' \in [Objects -> Lives]
    BY <1>1 DEF Types, Lives
  <1>4. \A o \in D : o \in Singles /\ fd'[o] = Closed /\ life[o] # "failed"
    <2>1. \A o \in D : o \in Singles /\ life[o] # "failed"
      BY <1>1, <1>2, Kinds DEF Types
    <2>2. \A o \in D : fd'[o] = Closed
      BY <1>1, <1>2, <2>1, Kinds, Names DEF CloseSingles, IsOpen
    <2> QED
      BY <2>1, <2>2
  <1>5. \A o \in Objects : life'[o] = life[o] \/ Fades(o)
    BY <1>1, <1>4 DEF Fades
  <1> HIDE DEF H, D
  <1> QED
    BY <1>1, <1>2, <1>3, <1>5, CloseStep

LEMMA SocketCloseStep ==
  ASSUME IInv, ~aborted, NEW h \in Conns \cup Clients, SocketClose(h)
  PROVE  IInv'
  <1>1. Types /\ CloseSingles({h}) /\ IsOpen(h) /\ UNCHANGED <<life, kept>>
        /\ UNCHANGED <<process, owner, childVars, strays>> /\ {h} \in SUBSET Singles
    BY Kinds DEF SocketClose, IInv, netVars
  <1> QED
    BY <1>1, CloseStep DEF Types

LEMMA NoCloseStep ==
  ASSUME IInv, ~aborted, UNCHANGED <<table, fd, process, owner, childVars, strays>>,
         life' \in [Objects -> Lives], kept' \in [Servers -> SUBSET Conns],
         \A o \in Objects : \/ life'[o] = life[o]
                            \/ o \in Singles \ Conns /\ life[o] \in {"unborn", "connecting"}
                            \/ Fades(o)
  PROVE  IInv'
  <1>1. Types /\ Owns /\ Accounted /\ pid' = pid
    BY DEF IInv, childVars
  <1>2. Types'
    BY <1>1, Kinds, Names DEF Types, Fades
  <1>3. \A h \in Holders : InUse(h)' <=> InUse(h)
    BY <1>1 DEF InUse, IsOpen
  <1>4. Owns'
    BY <1>1, <1>3 DEF Owns
  <1>5. SinglesAccounted'
    BY <1>1, Names DEF Accounted, SinglesAccounted, Fades
  <1>6. \A p \in Children : life'[p] = life[p]
    BY Names DEF Fades
  <1>7. EndsAccounted'
    BY <1>1, <1>6 DEF Accounted, EndsAccounted
  <1> QED
    BY <1>2, <1>4, <1>5, <1>6, <1>7, NetStep DEF Accounted

LEMMA ConnDroppedStep ==
  ASSUME IInv, ~aborted, NEW c \in Conns, ConnDropped(c)
  PROVE  IInv'
  <1>1. Types /\ kept' = kept /\ UNCHANGED <<process, owner, childVars, strays>>
        /\ c \in Singles /\ c \in Objects
    BY Kinds, Names DEF ConnDropped, IInv
  <1>2. CASE UNCHANGED <<table, fd, life>>
    <2>1. UNCHANGED <<table, fd, process, owner, childVars, strays>>
          /\ life' \in [Objects -> Lives] /\ kept' \in [Servers -> SUBSET Conns]
          /\ \A o \in Objects : \/ life'[o] = life[o]
                                \/ o \in Singles \ Conns /\ life[o] \in {"unborn", "connecting"}
                                \/ Fades(o)
      BY <1>1, <1>2 DEF Types
    <2> QED
      BY <2>1, NoCloseStep
  <1>3. CASE CloseSingles({h \in {c} : IsOpen(h)}) /\ life' = [life EXCEPT ![c] = "dead"]
    <2> DEFINE H == {h \in {c} : IsOpen(h)}
    <2>1. H \in SUBSET Singles /\ \A h \in H : IsOpen(h)
      BY <1>1
    <2>2. fd'[c] = Closed
      BY <1>1, <1>3, Names DEF CloseSingles, IsOpen
    <2>3. Fades(c) /\ life' \in [Objects -> Lives] /\ \A o \in Objects \ {c} : life'[o] = life[o]
      BY <1>1, <1>3, <2>2 DEF Types, Fades, Lives
    <2>4. \A o \in Objects : life'[o] = life[o] \/ Fades(o)
      BY <2>3
    <2> HIDE DEF H
    <2> QED
      BY <1>1, <1>3, <2>1, <2>3, <2>4, CloseStep DEF Types, H
  <1> QED
    BY <1>2, <1>3 DEF ConnDropped

LEMMA DialStep ==
  ASSUME IInv, ~aborted, NEW k \in Clients, BeginConnect(k) \/ AddressFails(k)
  PROVE  IInv'
  <1>1. Types /\ k \in Singles \ Conns /\ k \in Objects
    BY Kinds, Names DEF IInv
  <1>2. life[k] \in {"unborn", "connecting"} /\ kept' = kept
        /\ UNCHANGED <<table, fd, process, owner, childVars, strays>>
    BY DEF BeginConnect, AddressFails, Unborn, sysVars
  <1>3. life' = life \/ life' = [life EXCEPT ![k] = "connecting"]
        \/ life' = [life EXCEPT ![k] = "failed"]
    BY Zenon DEF BeginConnect, AddressFails
  <1>4. life' \in [Objects -> Lives] /\ \A o \in Objects \ {k} : life'[o] = life[o]
    BY <1>1, <1>3 DEF Types, Lives
  <1>5. kept' \in [Servers -> SUBSET Conns]
    BY <1>1, <1>2 DEF Types
  <1>6. \A o \in Objects : \/ life'[o] = life[o]
                           \/ o \in Singles \ Conns /\ life[o] \in {"unborn", "connecting"}
                           \/ Fades(o)
    BY <1>1, <1>2, <1>4
  <1> QED
    BY <1>2, <1>4, <1>5, <1>6, NoCloseStep

LEMMA SingleOpensStep ==
  ASSUME IInv, ~aborted, NEW h \in Clients \cup Watchers,
         (h \in Clients /\ Connects(h)) \/ (h \in Watchers /\ NewWatcher(h))
  PROVE  IInv'
  <1>1. Types /\ h \in Singles /\ h \in Objects
    BY Kinds, Names DEF IInv
  <1>2. OpenFor(h) /\ life[h] \in {"unborn", "connecting"} /\ kept' = kept
        /\ life' = [life EXCEPT ![h] = "alive"]
        /\ UNCHANGED <<process, owner, childVars, strays>>
    BY DEF Connects, NewWatcher, Unborn, netVars
  <1>3. life' \in [Objects -> Lives] /\ life'[h] = "alive"
        /\ \A o \in Objects \ {h} : life'[o] = life[o]
    BY <1>1, <1>2 DEF Types, Lives
  <1> QED
    BY <1>1, <1>2, <1>3, OpenStep DEF Types

LEMMA SingleDiesStep ==
  ASSUME IInv, ~aborted, NEW c \in Clients \cup Watchers, SingleDies(c)
  PROVE  IInv'
  <1> DEFINE H == {h \in {c} : IsOpen(h)}
  <1>1. Types /\ kept' = kept /\ UNCHANGED <<process, owner, childVars, strays>>
        /\ c \in Singles /\ c \in Objects /\ c \in Holders /\ life[c] = "alive"
        /\ CloseSingles(H) /\ life' = [life EXCEPT ![c] = "dead"]
    BY Kinds, Names DEF SingleDies, Alive, IInv, netVars
  <1>2. H \in SUBSET Singles /\ \A h \in H : IsOpen(h)
    BY <1>1
  <1>3. fd'[c] = Closed
    BY <1>1 DEF CloseSingles, IsOpen
  <1>4. Fades(c) /\ life' \in [Objects -> Lives] /\ \A o \in Objects \ {c} : life'[o] = life[o]
    BY <1>1, <1>3 DEF Types, Fades, Lives
  <1>5. \A o \in Objects : life'[o] = life[o] \/ Fades(o)
    BY <1>4
  <1> HIDE DEF H
  <1> QED
    BY <1>1, <1>2, <1>4, <1>5, CloseStep DEF Types

\* Nothing but what is read changes.
LEMMA QuietStep ==
  ASSUME IInv, UNCHANGED <<table, process, owner, life, fd, netVars, childVars>>, Strayed'
  PROVE  IInv'
  <1>1. UNCHANGED <<table, process, owner, life, fd, kept, pid, polled, mistaken, aborted, interrupted>>
    BY DEF netVars, childVars
  <1>2. Types' <=> Types
    BY <1>1 DEF Types
  <1>3. Owns' <=> Owns
    BY <1>1 DEF Owns, InUse, IsOpen
  <1>4. Accounted' <=> Accounted
    BY <1>1 DEF Accounted, SinglesAccounted, EndsAccounted
  <1>5. (SatellitesOwned' <=> SatellitesOwned) /\ (PidsOwned' <=> PidsOwned)
    BY <1>1 DEF SatellitesOwned, PidsOwned
  <1> QED
    BY <1>1, <1>2, <1>3, <1>4, <1>5 DEF IInv

LEMMA ArrivesStep ==
  ASSUME IInv, NEW s \in Streams, Arrives(s)
  PROVE  IInv'
  <1>1. Strayed'
    BY DEF Arrives, childVars, IInv, Strayed
  <1> QED
    BY <1>1, QuietStep DEF Arrives

\* A holder in use reads its own stream; what is not in use and still reads is the
\* end of a child without a pid.
LEMMA SocketReceiveStep ==
  ASSUME IInv, NEW h \in Conns \cup Clients, SocketReceive(h)
  PROVE  IInv'
  <1>1. PICK s \in Streams :
          /\ IsOpen(h) /\ table[fd[h]] = s
          /\ strays' = IF s = h THEN strays ELSE strays \cup {<<h, s>>}
          /\ UNCHANGED <<table, process, owner, life, fd, netVars, childVars>>
    BY DEF SocketReceive, Read
  <1>2. h \in Singles /\ h \in Holders
    BY Kinds, Names
  <1>3. s = h
    BY <1>1, <1>2, Uses DEF IInv, Owns, IsOpen
  <1>4. Strayed'
    BY <1>1, <1>3 DEF childVars, IInv, Strayed
  <1> QED
    BY <1>1, <1>4, QuietStep

LEMMA ChildReceiveStep ==
  ASSUME IInv, NEW p \in Children, ChildReceive(p)
  PROVE  IInv'
  <1>1. PICK s \in Streams :
          /\ table[fd[Out(p)]] = s
          /\ strays' = IF s = Out(p) THEN strays ELSE strays \cup {<<Out(p), s>>}
          /\ UNCHANGED <<table, process, owner, life, fd, netVars, childVars>>
    BY DEF ChildReceive, Read
  <1>2. life[p] = "alive"
    BY DEF ChildReceive, Alive
  <1>3. s = Out(p) \/ pid[p] = NoPid
    BY <1>1, Names, Uses DEF IInv, Owns
  <1>4. UNCHANGED <<pid, life>> /\ Strayed
    BY <1>1 DEF childVars, IInv
  <1>5. ASSUME NEW stray \in strays'
        PROVE  \E q \in Children : stray[1] = Out(q) /\ pid'[q] = NoPid /\ life'[q] # "unborn"
    <2>1. CASE stray \in strays
      BY <1>4, <2>1 DEF Strayed
    <2>2. CASE stray = <<Out(p), s>> /\ s # Out(p)
      <3>1. stray[1] = Out(p)
        BY <2>2
      <3> QED
        BY <1>2, <1>3, <1>4, <2>2, <3>1
    <2> QED
      BY <1>1, <2>1, <2>2
  <1>6. Strayed'
    BY <1>5 DEF Strayed
  <1> QED
    BY <1>1, <1>6, QuietStep

-----------------------------------------------------------------------------
(* The steps of children and of other processes.                             *)

LEMMA NewChildStep ==
  ASSUME IInv, ~aborted, NEW p \in Children, NewChild(p)
  PROVE  IInv'
  <1>1. PICK a, b, c, d \in Fds, i \in Pids : PipeNumbers(a, b, c, d) /\ Forked(p, b, c, i)
    BY DEF NewChild
  <1>2. /\ process' = [process EXCEPT ![p] = "running"] /\ life' = [life EXCEPT ![p] = "alive"]
        /\ UNCHANGED <<kept, polled, mistaken, aborted, interrupted, strays>> /\ life[p] = "unborn"
        /\ Types /\ Owns /\ Accounted /\ SatellitesOwned /\ Strayed
        /\ p \in Objects /\ p \notin Singles
        /\ In(p) \in Holders /\ Out(p) \in Holders /\ In(p) # Out(p)
    BY Names DEF NewChild, Unborn, netVars, IInv
  <1>3. table[b] = Nothing /\ table[c] = Nothing /\ b # c
    BY <1>1, DescriptorConstants DEF PipeNumbers, Lowest, Free
  <1>4. /\ \A f \in Fds : table'[f] = IF f = b THEN In(p) ELSE IF f = c THEN Out(p) ELSE table[f]
        /\ \A h \in Holders : fd'[h] = IF h = In(p) THEN b ELSE IF h = Out(p) THEN c ELSE fd[h]
        /\ \A j \in Pids : owner'[j] = IF j = i THEN p ELSE owner[j]
        /\ \A q \in Children : pid'[q] = IF q = p THEN i ELSE pid[q]
        /\ \A q \in Children : process'[q] = IF q = p THEN "running" ELSE process[q]
        /\ \A o \in Objects : life'[o] = IF o = p THEN "alive" ELSE life[o]
    BY <1>1, <1>2, <1>3 DEF Forked, Types
  <1>i. owner[i] = Nothing /\ pid'[p] = i
    BY <1>1, <1>4 DEF Forked
  <1>5. Types'
    BY <1>1, <1>2, <1>3, <1>4, Kinds, Names DEF Forked, Types, Lives
  <1>6. ASSUME NEW h \in Holders, InUse(h)'
        PROVE  fd'[h] \in Fds /\ table'[fd'[h]] = h
    <2>1. CASE h = In(p) \/ h = Out(p)
      BY <1>2, <1>3, <1>4, <2>1
    <2>2. CASE h # In(p) /\ h # Out(p)
      <3>1. InUse(h)
        <4>1. fd'[h] = fd[h]
          BY <1>4, <2>2
        <4>2. \A q \in Children : h \in {In(q), Out(q)} => pid'[q] = pid[q]
          BY <1>4, <2>2
        <4> QED
          BY <1>6, <4>1, <4>2 DEF InUse, IsOpen
      <3>2. fd[h] \in Fds /\ table[fd[h]] = h /\ h # Nothing /\ fd'[h] = fd[h]
        BY <1>2, <1>4, <2>2, <3>1, Names DEF Owns
      <3> QED
        BY <1>3, <1>4, <3>2
    <2> QED
      BY <2>1, <2>2
  <1>7. Owns'
    BY <1>6 DEF Owns
  <1>8. ASSUME NEW f \in Fds, NEW h \in Singles, table'[f] = h
        PROVE  life'[h] = "failed" \/ (life'[h] = "alive" /\ fd'[h] = f)
    <2>1. h \in Holders /\ h \in Objects /\ h # p /\ h # In(p) /\ h # Out(p)
      BY <1>2, Names
    <2>2. table[f] = h /\ life'[h] = life[h] /\ fd'[h] = fd[h]
      BY <1>4, <1>8, <2>1
    <2> QED
      BY <1>2, <2>2 DEF Accounted, SinglesAccounted
  <1>9. ASSUME NEW f \in Fds, NEW q \in Children, NEW h \in {In(q), Out(q)}, table'[f] = h
        PROVE  life'[q] = "failed" \/ (life'[q] = "alive" /\ pid'[q] # NoPid /\ fd'[h] = f)
    <2>1. h \in Holders /\ q \in Objects
      BY Names
    <2>2. CASE q = p
      <3>1. table[f] # h
        BY <1>2, <2>2 DEF Accounted, EndsAccounted
      <3>2. fd'[h] = f
        BY <1>2, <1>4, <1>9, <2>1, <2>2, <3>1
      <3> QED
        BY <1>1, <1>2, <1>4, <2>2, <3>2, Names
    <2>3. CASE q # p
      <3>1. h # In(p) /\ h # Out(p)
        BY <2>3, Names
      <3>2. table[f] = h /\ fd'[h] = fd[h] /\ life'[q] = life[q] /\ pid'[q] = pid[q]
        BY <1>4, <1>9, <2>1, <2>3, <3>1
      <3> QED
        BY <1>2, <3>2 DEF Accounted, EndsAccounted
    <2> QED
      BY <2>2, <2>3
  <1>10. Accounted'
    BY <1>8, <1>9 DEF Accounted, SinglesAccounted, EndsAccounted
  <1>11. SatellitesOwned'
    <2> SUFFICES ASSUME NEW q \in Children, process'[q] \in {"running", "zombie"}
                 PROVE  life'[q] = "alive" /\ pid'[q] # NoPid /\ owner'[pid'[q]] = q
      BY DEF SatellitesOwned
    <2>1. CASE q = p
      BY <1>1, <1>2, <1>4, <2>1, Names
    <2>2. CASE q # p
      <3>1. life[q] = "alive" /\ pid[q] # NoPid /\ owner[pid[q]] = q /\ pid[q] \in Pids
        BY <1>2, <1>4, <2>2 DEF SatellitesOwned, Types
      <3>2. pid[q] # i /\ q \in Objects
        BY <1>i, <3>1, Names
      <3> QED
        BY <1>4, <2>2, <3>1, <3>2
    <2> QED
      BY <2>1, <2>2
  <1>12. ASSUME PidsOwned
         PROVE  PidsOwned'
    <2> SUFFICES ASSUME NEW q \in Children, pid'[q] # NoPid
                 PROVE  owner'[pid'[q]] = q
      BY DEF PidsOwned
    <2>1. CASE q = p
      BY <1>1, <1>4, <2>1
    <2>2. CASE q # p
      <3>1. owner[pid[q]] = q /\ pid[q] \in Pids /\ pid'[q] = pid[q]
        BY <1>2, <1>4, <1>12, <2>2 DEF PidsOwned, Types
      <3> QED
        BY <1>4, <1>i, <3>1, Names
    <2> QED
      BY <2>1, <2>2
  <1>13. Strayed'
    <2> SUFFICES ASSUME NEW stray \in strays
                 PROVE  \E q \in Children : stray[1] = Out(q) /\ pid'[q] = NoPid /\ life'[q] # "unborn"
      BY <1>2 DEF Strayed
    <2>1. PICK q \in Children : stray[1] = Out(q) /\ pid[q] = NoPid /\ life[q] # "unborn"
      BY <1>2 DEF Strayed
    <2>2. q # p /\ q \in Objects
      BY <1>2, <2>1, Names
    <2> QED
      BY <1>4, <2>1, <2>2
  <1> QED
    BY <1>2, <1>5, <1>7, <1>10, <1>11, <1>12, <1>13 DEF IInv

\* Only the failed object's ends stay behind.
LEMMA NewChildFailsStep ==
  ASSUME IInv, ~aborted, NEW p \in Children, NewChildFails(p)
  PROVE  IInv'
  <1>1. PICK c \in Fds, d \in Fds :
          table[c] = Nothing /\ table[d] = Nothing
          /\ table' = [table EXCEPT ![c] = Out(p), ![d] = Out(p)]
    BY DEF NewChildFails, PipeNumbers, Lowest, Free
  <1>2. /\ life' = [life EXCEPT ![p] = "failed"]
        /\ UNCHANGED <<process, owner, fd, kept, pid, polled, mistaken, aborted, interrupted, strays>>
        /\ Types /\ Owns /\ Accounted /\ SatellitesOwned /\ Strayed /\ life[p] = "unborn"
        /\ p \in Objects /\ p \notin Singles /\ Out(p) \in Holders
    BY Names DEF NewChildFails, Unborn, netVars, childVars, IInv
  <1>3. /\ \A f \in Fds : table'[f] = table[f] \/ (table[f] = Nothing /\ table'[f] = Out(p))
        /\ \A o \in Objects : life'[o] = IF o = p THEN "failed" ELSE life[o]
    BY <1>1, <1>2 DEF Types
  <1>4. Types'
    BY <1>1, <1>2, <1>3, Kinds, Names DEF Types, Lives
  <1>5. \A h \in Holders : InUse(h)' <=> InUse(h)
    BY <1>2 DEF InUse, IsOpen
  <1>6. Owns'
    BY <1>2, <1>3, <1>5, Names DEF Owns
  <1>7. SinglesAccounted'
    BY <1>2, <1>3, Names DEF Accounted, SinglesAccounted
  <1>8. EndsAccounted'
    BY <1>2, <1>3, Names DEF Accounted, EndsAccounted
  <1>9. SatellitesOwned'
    BY <1>2, <1>3, Names DEF SatellitesOwned
  <1>10. PidsOwned => PidsOwned'
    BY <1>2 DEF PidsOwned
  <1>11. Strayed'
    BY <1>2, <1>3, Names DEF Strayed
  <1> QED
    BY <1>2, <1>4, <1>6, <1>7, <1>8, <1>9, <1>10, <1>11 DEF IInv, Accounted

LEMMA SatelliteExitsStep ==
  ASSUME IInv, NEW p \in Children, SatelliteExits(p)
  PROVE  IInv'
  <1>1. /\ process' = [process EXCEPT ![p] = "zombie"] /\ process[p] = "running"
        /\ UNCHANGED <<table, owner, life, fd, kept, pid, polled, mistaken, aborted, interrupted, strays>>
    BY DEF SatelliteExits, netVars, childVars
  <1>2. Types'
    BY <1>1 DEF IInv, Types
  <1>3. \A q \in Children : process'[q] \in {"running", "zombie"} => process[q] \in {"running", "zombie"}
    BY <1>1 DEF IInv, Types
  <1>4. SatellitesOwned => SatellitesOwned'
    BY <1>1, <1>3 DEF SatellitesOwned
  <1>5. Owns' /\ Strayed'
    BY <1>1 DEF IInv, Owns, InUse, IsOpen, Strayed
  <1>6. (Accounted' <=> Accounted) /\ (PidsOwned' <=> PidsOwned)
    BY <1>1 DEF Accounted, SinglesAccounted, EndsAccounted, PidsOwned
  <1> QED
    BY <1>1, <1>2, <1>4, <1>5, <1>6 DEF IInv

LEMMA ForeignStep ==
  ASSUME IInv, NEW i \in Pids, ForeignStarts(i) \/ ForeignEnds(i)
  PROVE  IInv'
  <1>1. /\ owner[i] \in {Nothing, Foreign}
        /\ \E o \in {Nothing, Foreign} : owner' = [owner EXCEPT ![i] = o]
        /\ UNCHANGED <<table, process, life, fd, kept, pid, polled, mistaken, aborted, interrupted, strays>>
    BY DEF ForeignStarts, ForeignEnds, netVars, childVars
  <1>2. Types'
    BY <1>1 DEF IInv, Types
  <1>3. \A j \in Pids, q \in Children : owner[j] = q => owner'[j] = q
    BY <1>1, Names DEF IInv, Types
  <1>4. SatellitesOwned => SatellitesOwned'
    BY <1>1, <1>3 DEF IInv, SatellitesOwned, Types
  <1>5. PidsOwned => PidsOwned'
    BY <1>1, <1>3 DEF IInv, PidsOwned, Types
  <1>6. Owns' /\ Strayed'
    BY <1>1 DEF IInv, Owns, InUse, IsOpen, Strayed
  <1>7. Accounted' <=> Accounted
    BY <1>1 DEF Accounted, SinglesAccounted, EndsAccounted
  <1> QED
    BY <1>1, <1>2, <1>4, <1>5, <1>6, <1>7 DEF IInv

\* What others take was free, and what they give back was theirs.
LEMMA OthersStep ==
  ASSUME IInv, OthersOpen \/ OthersClose
  PROVE  IInv'
  <1>1. UNCHANGED <<process, owner, life, fd, kept, pid, polled, mistaken, aborted, interrupted, strays>>
    BY DEF OthersOpen, OthersClose, netVars, childVars
  <1>2. /\ table' \in [Fds -> Holders \cup {Nothing, Foreign}]
        /\ \A f \in Fds, h \in Holders : table'[f] = h <=> table[f] = h
    BY Names DEF IInv, Types, OthersOpen, OthersClose
  <1>3. Types'
    BY <1>1, <1>2 DEF IInv, Types
  <1>4. Owns'
    BY <1>1, <1>2 DEF IInv, Owns, InUse, IsOpen
  <1>5. Accounted => Accounted'
    BY <1>1, <1>2, Names DEF Accounted, SinglesAccounted, EndsAccounted
  <1>6. Strayed' /\ (SatellitesOwned => SatellitesOwned') /\ (PidsOwned => PidsOwned')
    BY <1>1 DEF IInv, Strayed, SatellitesOwned, PidsOwned
  <1> QED
    BY <1>1, <1>3, <1>4, <1>5, <1>6 DEF IInv

\* Waiting for the process behind a pid leaves every other satellite its pid.
LEMMA ReapKeeps ==
  ASSUME Types, SatellitesOwned, NEW i \in Pids, NEW q \in Children, owner[i] = q, Reap(q, i)
  PROVE  /\ process' \in [Children -> {"none", "running", "zombie", "reaped"}]
         /\ owner' \in [Pids -> Children \cup {Nothing, Foreign}]
         /\ \A r \in Children : process'[r] \in {"running", "zombie"} =>
              r # q /\ process[r] = process'[r] /\ pid[r] # i /\ owner'[pid[r]] = r
  BY Names DEF Types, SatellitesOwned, Reap

LEMMA IsRunningStep ==
  ASSUME IInv, ~aborted, NEW p \in Children, IsRunning(p)
  PROVE  IInv'
  <1>1. PICK q \in Children : owner[pid[p]] = q /\ Reap(q, pid[p])
    BY DEF IsRunning
  <1>2. /\ UNCHANGED <<table, life, fd, kept, pid, aborted, interrupted, strays>> /\ polled' = TRUE
        /\ pid[p] # NoPid /\ Types /\ SatellitesOwned /\ Owns /\ Strayed /\ Accounted
    BY DEF IsRunning, netVars, IInv
  <1>3. pid[p] \in Pids
    BY <1>2 DEF Types
  <1>4. Types'
    BY <1>1, <1>2, <1>3, ReapKeeps DEF Types
  <1>5. \A r \in Children : process'[r] \in {"running", "zombie"} =>
          process[r] = process'[r] /\ owner'[pid[r]] = r
    BY <1>1, <1>2, <1>3, ReapKeeps
  <1>6. SatellitesOwned'
    BY <1>2, <1>5 DEF SatellitesOwned
  <1>7. Owns' /\ Strayed'
    BY <1>2 DEF Owns, InUse, IsOpen, Strayed
  <1>8. Accounted'
    BY <1>2 DEF Accounted, SinglesAccounted, EndsAccounted
  <1> QED
    BY <1>2, <1>4, <1>6, <1>7, <1>8 DEF IInv

\* Closing the ends of a child, which then has no pid: they were its own.
LEMMA EndsClose ==
  ASSUME Types, Owns, Accounted, NEW p \in Children, life[p] = "alive", pid[p] # NoPid,
         CloseNumbers({In(p), Out(p)}), pid' = [pid EXCEPT ![p] = NoPid], fd' = fd,
         life' \in [Objects -> Lives], \A o \in Objects \ {p} : life'[o] = life[o]
  PROVE  table' \in [Fds -> Holders \cup {Nothing, Foreign}] /\ Owns' /\ Accounted'
  <1>1. table' = [f \in Fds |-> IF f \in {fd[In(p)], fd[Out(p)]} THEN Nothing ELSE table[f]]
    BY DEF CloseNumbers
  <1>2. InUse(In(p)) /\ InUse(Out(p)) /\ In(p) \in Holders /\ Out(p) \in Holders
    BY Uses, Names
  <1>3. /\ fd[In(p)] \in Fds /\ table[fd[In(p)]] = In(p)
        /\ fd[Out(p)] \in Fds /\ table[fd[Out(p)]] = Out(p)
    BY <1>2 DEF Owns
  <1>4. table' \in [Fds -> Holders \cup {Nothing, Foreign}]
    BY <1>1 DEF Types
  <1>5. \A q \in Children : pid'[q] = IF q = p THEN NoPid ELSE pid[q]
    BY DEF Types
  <1>6. ASSUME NEW h \in Holders, InUse(h)'
        PROVE  fd'[h] \in Fds /\ table'[fd'[h]] = h
    <2>1. InUse(h) /\ h # In(p) /\ h # Out(p)
      <3>1. CASE h \in Singles
        BY <1>6, <3>1, Names, fd' = fd DEF InUse, IsOpen
      <3>2. CASE h \notin Singles
        <4>1. PICK q \in Children : h \in {In(q), Out(q)} /\ pid'[q] # NoPid
          BY <1>6, <3>2 DEF InUse
        <4>2. q # p /\ pid[q] # NoPid
          BY <1>5, <4>1
        <4> QED
          BY <4>1, <4>2, Names, Uses
      <3> QED
        BY <3>1, <3>2
    <2>2. fd[h] \in Fds /\ table[fd[h]] = h
      BY <2>1 DEF Owns
    <2>3. fd[h] \notin {fd[In(p)], fd[Out(p)]}
      BY <1>3, <2>1, <2>2
    <2> QED
      BY <1>1, <2>2, <2>3, fd' = fd
  <1>7. Owns'
    BY <1>6 DEF Owns
  <1>8. \A f \in Fds, h \in Holders : table'[f] = h => table[f] = h /\ f \notin {fd[In(p)], fd[Out(p)]}
    BY <1>1, Names
  <1>9. SinglesAccounted'
    BY <1>8, Names, fd' = fd DEF Accounted, SinglesAccounted
  <1>10. ASSUME NEW f \in Fds, NEW q \in Children, NEW h \in {In(q), Out(q)}, table'[f] = h
         PROVE  life'[q] = "failed" \/ (life'[q] = "alive" /\ pid'[q] # NoPid /\ fd'[h] = f)
    <2>1. table[f] = h /\ f \notin {fd[In(p)], fd[Out(p)]} /\ q \in Objects
      BY <1>8, <1>10, Names
    <2>2. life[q] = "failed" \/ (life[q] = "alive" /\ pid[q] # NoPid /\ fd[h] = f)
      BY <2>1 DEF Accounted, EndsAccounted
    <2>3. q # p
      BY <2>1, <2>2, life[p] = "alive"
    <2> QED
      BY <1>5, <2>1, <2>2, <2>3, fd' = fd
  <1>11. EndsAccounted'
    BY <1>10 DEF EndsAccounted
  <1> QED
    BY <1>4, <1>7, <1>9, <1>11 DEF Accounted

\* terminate, in a call or in the destructor.
LEMMA TerminateOkStep ==
  ASSUME IInv, ~aborted, NEW p \in Children, life[p] = "alive", TerminateOk(p),
         UNCHANGED <<kept, strays>>, life' \in {life, [life EXCEPT ![p] = "dead"]}
  PROVE  IInv'
  <1>1. /\ pid[p] # NoPid /\ CloseNumbers({In(p), Out(p)}) /\ pid' = [pid EXCEPT ![p] = NoPid]
        /\ fd' = fd /\ UNCHANGED <<polled, aborted, interrupted>>
        /\ Types /\ Owns /\ Accounted /\ SatellitesOwned /\ Strayed /\ p \in Objects
    BY Names DEF TerminateOk, IInv
  <1>2. pid[p] \in Pids /\ owner[pid[p]] \in Children \cup {Nothing}
    BY <1>1 DEF TerminateOk, Types
  <1>3. /\ life' \in [Objects -> Lives] /\ \A o \in Objects \ {p} : life'[o] = life[o]
        /\ life'[p] # "unborn" /\ \A c \in Conns : life'[c] = life[c]
    BY <1>1, Kinds, Names DEF Types, Lives
  <1>4. table' \in [Fds -> Holders \cup {Nothing, Foreign}] /\ Owns' /\ Accounted'
    BY <1>1, <1>3, EndsClose
  <1>5. /\ process' \in [Children -> {"none", "running", "zombie", "reaped"}]
        /\ owner' \in [Pids -> Children \cup {Nothing, Foreign}]
        /\ \A r \in Children : process'[r] \in {"running", "zombie"} =>
             r # p /\ process[r] = process'[r] /\ owner'[pid[r]] = r
    <2>1. CASE owner[pid[p]] = Nothing
      <3>1. UNCHANGED <<process, owner>>
        BY <2>1 DEF TerminateOk
      <3> QED
        BY <1>1, <2>1, <3>1, Names DEF SatellitesOwned, Types
    <2>2. CASE owner[pid[p]] # Nothing
      <3>1. owner[pid[p]] \in Children /\ Reap(owner[pid[p]], pid[p])
        BY <1>2, <2>2 DEF TerminateOk
      <3> QED
        BY <1>1, <1>2, <3>1, ReapKeeps
    <2> QED
      BY <2>1, <2>2
  <1>6. \A q \in Children : pid'[q] = IF q = p THEN NoPid ELSE pid[q]
    BY <1>1 DEF Types
  <1>7. Types'
    BY <1>1, <1>3, <1>4, <1>5 DEF Types
  <1>8. SatellitesOwned'
    BY <1>1, <1>3, <1>5, <1>6, Names DEF SatellitesOwned
  <1>9. Strayed'
    BY <1>1, <1>3, <1>6, Names DEF Strayed
  <1>10. ASSUME ~polled
         PROVE  ~mistaken' /\ PidsOwned'
    <2>1. PidsOwned /\ ~mistaken
      BY <1>10 DEF IInv
    <2>2. owner[pid[p]] = p
      BY <1>1, <2>1 DEF PidsOwned
    <2>3. ~mistaken'
      BY <2>1, <2>2 DEF TerminateOk
    <2>4. Reap(p, pid[p])
      BY <2>2, Names DEF TerminateOk
    <2>5. \A q \in Children \ {p} : pid[q] # NoPid => pid[q] # pid[p] /\ owner'[pid[q]] = q
      BY <1>1, <2>1, <2>2, <2>4, Names DEF PidsOwned, Reap, Types
    <2> QED
      BY <1>6, <2>3, <2>5 DEF PidsOwned
  <1> QED
    BY <1>1, <1>4, <1>7, <1>8, <1>9, <1>10 DEF IInv

\* A process that is no satellite is only met after some isRunning has reaped.
LEMMA TerminateThrowsStep ==
  ASSUME IInv, ~aborted, NEW p \in Children, life[p] = "alive", TerminateThrows(p),
         UNCHANGED <<kept, strays>>,
         \/ life' = life /\ aborted' = aborted /\ interrupted' = interrupted
         \/ life' = [life EXCEPT ![p] = "dead"] /\ aborted' = TRUE
  PROVE  IInv'
  <1>1. /\ pid[p] # NoPid /\ owner[pid[p]] = Foreign
        /\ owner' \in {owner, [owner EXCEPT ![pid[p]] = Nothing]}
        /\ UNCHANGED <<table, process, fd, pid, polled>>
        /\ Types /\ Owns /\ Accounted /\ SatellitesOwned /\ Strayed /\ p \in Objects
    BY Names DEF TerminateThrows, IInv
  <1>2. polled
    BY <1>1, Names DEF IInv, PidsOwned
  <1>3. /\ life' \in [Objects -> Lives] /\ life'[p] # "unborn"
        /\ \A o \in Objects \ {p} : life'[o] = life[o]
        /\ \A c \in Conns : life'[c] = life[c]
    BY <1>1, Kinds, Names DEF Types, Lives
  <1>4. Types'
    BY <1>1, <1>3 DEF Types
  <1>5. Owns'
    BY <1>1 DEF Owns, InUse, IsOpen
  <1>6. Strayed'
    BY <1>1, <1>3, Names DEF Strayed
  <1>7. ASSUME ~aborted'
        PROVE  Accounted' /\ SatellitesOwned'
    <2>1. life' = life
      BY <1>7
    <2>2. Accounted'
      BY <1>1, <2>1 DEF Accounted, SinglesAccounted, EndsAccounted
    <2>3. SatellitesOwned'
      BY <1>1, <2>1, Names DEF SatellitesOwned, Types
    <2> QED
      BY <2>2, <2>3
  <1> QED
    BY <1>1, <1>2, <1>4, <1>5, <1>6, <1>7 DEF IInv

\* A wait that a signal ends leaves all as it was, unless it was a destructor's.
LEMMA TerminateInterruptedStep ==
  ASSUME IInv, ~aborted, NEW p \in Children, life[p] = "alive", TerminateInterrupted(p),
         UNCHANGED <<kept, strays>>,
         \/ life' = life /\ aborted' = aborted /\ interrupted' = interrupted
         \/ life' = [life EXCEPT ![p] = "dead"] /\ aborted' = TRUE /\ interrupted' = TRUE
  PROVE  IInv'
  <1>1. /\ pid[p] # NoPid
        /\ UNCHANGED <<table, process, owner, fd, pid, polled>>
        /\ Types /\ Owns /\ Accounted /\ SatellitesOwned /\ Strayed /\ p \in Objects
    BY Names DEF TerminateInterrupted, IInv
  <1>2. ~polled => ~mistaken' /\ PidsOwned'
    <2>1. ASSUME ~polled
          PROVE  ~mistaken /\ owner[pid[p]] = p /\ PidsOwned
      BY <1>1, <2>1 DEF IInv, PidsOwned
    <2>2. PidsOwned' <=> PidsOwned
      BY <1>1 DEF PidsOwned
    <2> QED
      BY <2>1, <2>2 DEF TerminateInterrupted
  <1>3. /\ life' \in [Objects -> Lives] /\ life'[p] # "unborn"
        /\ \A o \in Objects \ {p} : life'[o] = life[o]
        /\ \A c \in Conns : life'[c] = life[c]
    BY <1>1, Kinds, Names DEF Types, Lives
  <1>4. Types'
    BY <1>1, <1>3 DEF Types
  <1>5. Owns'
    BY <1>1 DEF Owns, InUse, IsOpen
  <1>6. Strayed'
    BY <1>1, <1>3, Names DEF Strayed
  <1>7. ASSUME ~aborted'
        PROVE  Accounted' /\ SatellitesOwned'
    <2>1. life' = life
      BY <1>7
    <2>2. Accounted'
      BY <1>1, <2>1 DEF Accounted, SinglesAccounted, EndsAccounted
    <2>3. SatellitesOwned'
      BY <1>1, <2>1 DEF SatellitesOwned
    <2> QED
      BY <2>2, <2>3
  <1>8. aborted' => polled' \/ interrupted'
    OBVIOUS
  <1> QED
    BY <1>1, <1>2, <1>4, <1>5, <1>6, <1>7, <1>8 DEF IInv

LEMMA TerminateStep ==
  ASSUME IInv, ~aborted, NEW p \in Children, Terminate(p)
  PROVE  IInv'
  <1>1. life[p] = "alive" /\ life' = life /\ UNCHANGED <<kept, strays>>
    BY DEF Terminate, Alive, netVars
  <1>2. CASE TerminateOk(p)
    BY <1>1, <1>2, TerminateOkStep
  <1>3. CASE TerminateThrows(p) /\ UNCHANGED <<aborted, interrupted>>
    BY <1>1, <1>3, TerminateThrowsStep
  <1>4. CASE TerminateInterrupted(p) /\ UNCHANGED <<aborted, interrupted>>
    BY <1>1, <1>4, TerminateInterruptedStep
  <1> QED
    BY <1>2, <1>3, <1>4 DEF Terminate

LEMMA ChildDiesStep ==
  ASSUME IInv, ~aborted, NEW p \in Children, ChildDies(p)
  PROVE  IInv'
  <1>1. life[p] = "alive" /\ life' = [life EXCEPT ![p] = "dead"] /\ UNCHANGED <<kept, strays>>
    BY DEF ChildDies, Alive, netVars
  <1>2. CASE TerminateOk(p)
    BY <1>1, <1>2, TerminateOkStep
  <1>3. CASE TerminateThrows(p) /\ aborted' = TRUE /\ UNCHANGED interrupted
    BY <1>1, <1>3, TerminateThrowsStep
  <1>4. CASE pid[p] = NoPid /\ UNCHANGED <<table, process, owner, fd, childVars>>
    <2>1. UNCHANGED <<table, process, owner, fd, kept, strays, pid, polled, mistaken, aborted, interrupted>>
      BY <1>1, <1>4 DEF childVars
    <2>2. Types /\ Owns /\ Accounted /\ SatellitesOwned /\ Strayed /\ p \in Objects
      BY Names DEF IInv
    <2>3. /\ life' \in [Objects -> Lives] /\ life'[p] # "unborn"
          /\ \A o \in Objects \ {p} : life'[o] = life[o]
          /\ \A c \in Conns : life'[c] = life[c]
      BY <1>1, <2>2, Kinds, Names DEF Types, Lives
    <2>4. Types'
      BY <2>1, <2>2, <2>3 DEF Types
    <2>5. Owns'
      BY <2>1, <2>2 DEF Owns, InUse, IsOpen
    <2>6. Strayed'
      BY <2>1, <2>2, <2>3, Names DEF Strayed
    <2>7. SinglesAccounted'
      BY <2>1, <2>2, <2>3, Names DEF Accounted, SinglesAccounted
    <2>8. EndsAccounted'
      BY <1>1, <1>4, <2>1, <2>2, <2>3, Names DEF Accounted, EndsAccounted
    <2>9. SatellitesOwned'
      BY <1>4, <2>1, <2>2, <2>3, Names DEF SatellitesOwned
    <2>10. PidsOwned => PidsOwned'
      BY <2>1 DEF PidsOwned
    <2> QED
      BY <2>1, <2>4, <2>5, <2>6, <2>7, <2>8, <2>9, <2>10 DEF IInv, Accounted
  <1>5. CASE TerminateInterrupted(p) /\ aborted' = TRUE /\ interrupted' = TRUE
    BY <1>1, <1>5, TerminateInterruptedStep
  <1> QED
    BY <1>2, <1>3, <1>4, <1>5 DEF ChildDies

-----------------------------------------------------------------------------
(* The theorems.                                                             *)

LEMMA InvInit == Init => IInv
  <1> SUFFICES ASSUME Init PROVE IInv
    OBVIOUS
  <1>1. Types
    BY Kinds, Names DEF Init, Types, Lives
  <1>2. \A h \in Holders : ~InUse(h)
    BY DEF Init, InUse, IsOpen
  <1>3. Owns /\ Strayed
    BY <1>2 DEF Init, Owns, Strayed
  <1>4. Accounted
    BY Names DEF Init, Accounted, SinglesAccounted, EndsAccounted
  <1>5. SatellitesOwned /\ PidsOwned
    BY DEF Init, SatellitesOwned, PidsOwned
  <1>6. ~mistaken /\ ~aborted
    BY DEF Init
  <1> QED
    BY <1>1, <1>3, <1>4, <1>5, <1>6 DEF IInv

LEMMA InvNext == IInv /\ Next => IInv'
  <1> SUFFICES ASSUME IInv, Next PROVE IInv'
    OBVIOUS
  <1>1. ~aborted
    BY DEF Next
  <1>2. CASE Serving
    BY <1>1, <1>2, NewServerStep, ServerCloseStep, ServerDiesStep, AcceptStep, SocketCloseStep,
       SocketReceiveStep, ConnDroppedStep DEF Serving
  <1>3. CASE Others
    <2>1. CASE \E k \in Clients : BeginConnect(k) \/ AddressFails(k)
      BY <1>1, <2>1, DialStep
    <2>2. CASE \E k \in Clients : Connects(k)
      BY <1>1, <2>2, SingleOpensStep
    <2>3. CASE \E w \in Watchers : NewWatcher(w)
      BY <1>1, <2>3, SingleOpensStep
    <2>4. CASE \E h \in Clients \cup Watchers : SingleDies(h)
      BY <1>1, <2>4, SingleDiesStep
    <2> QED
      BY <1>3, <2>1, <2>2, <2>3, <2>4 DEF Others, Dialing
  <1>4. CASE Parenting
    BY <1>1, <1>4, NewChildStep, NewChildFailsStep, ChildReceiveStep, SatelliteExitsStep,
       IsRunningStep, TerminateStep, ChildDiesStep DEF Parenting
  <1>5. CASE System
    BY <1>5, ArrivesStep, ForeignStep, OthersStep DEF System
  <1> QED
    BY <1>2, <1>3, <1>4, <1>5 DEF Next

LEMMA Invariance == Spec => []IInv
  <1>1. IInv /\ UNCHANGED vars => IInv'
    <2> SUFFICES ASSUME IInv, UNCHANGED vars PROVE IInv'
      OBVIOUS
    <2>1. UNCHANGED <<table, process, owner, life, fd, netVars, childVars>> /\ strays' = strays
      BY DEF vars, sysVars
    <2>2. Strayed'
      BY <2>1 DEF IInv, Strayed, childVars
    <2> QED
      BY <2>1, <2>2, QuietStep
  <1> QED
    BY <1>1, InvInit, InvNext, PTL DEF Spec

\* No object ever closes or uses a number that belongs to another, however closes,
\* destructors and new objects follow each other.
THEOREM NumbersAreOwn == Spec => []OwnsItsNumber
  <1>1. IInv => OwnsItsNumber
    BY DEF IInv, Owns, OwnsItsNumber
  <1> QED
    BY <1>1, Invariance, PTL

\* Descriptors are only left behind by constructors that throw, and satellites
\* never outlive the object that would terminate them.
THEOREM OnlyFailedConstructorsLeak == Spec => []OnlyFailuresLeak
  <1>1. IInv => OnlyFailuresLeak
    BY DEF IInv, Accounted, SinglesAccounted, EndsAccounted, SatellitesOwned, OnlyFailuresLeak, Alive
  <1> QED
    BY <1>1, Invariance, PTL

\* Only a child that was terminated can read what belongs to another.
THEOREM StraysAreLate == Spec => []StraysOnlyAfterTerminate
  <1>1. IInv => StraysOnlyAfterTerminate
    BY DEF IInv, Strayed, StraysOnlyAfterTerminate
  <1> QED
    BY <1>1, Invariance, PTL

\* A pid stays its object's own until isRunning has reaped a satellite, and before
\* that no destructor throws unless a signal ends its wait.
THEOREM MistakesNeedPolls == Spec => []WrongProcessOnlyAfterPoll
  <1>1. IInv => WrongProcessOnlyAfterPoll
    BY DEF IInv, WrongProcessOnlyAfterPoll
  <1> QED
    BY <1>1, Invariance, PTL

=============================================================================
