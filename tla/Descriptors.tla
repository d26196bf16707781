----------------------------- MODULE Descriptors -----------------------------
(***************************************************************************)
(* The objects that own descriptors of the system: TCPServer with its      *)
(* shared connections (tcpserver.cpp), TCPClient (tcpclient.cpp),          *)
(* FileWatcher (filewatcher.cpp) and the pipe ends and the pid of a        *)
(* ChildProcess (childprocess.cpp).                                        *)
(*                                                                         *)
(* The system gives out its lowest free descriptor number, and any free    *)
(* pid, and gives both out again once they are free.  What is opened is    *)
(* named by the holder it was opened for, so that a number in an object    *)
(* can be told from what is behind it.  What a satellite inherits of the   *)
(* server's descriptors is left out: it never uses them.                   *)
(*                                                                         *)
(* The Lua states of the main thread and of the workers create, use and    *)
(* collect objects; each call is one step, except the constructor of       *)
(* TCPClient, which takes one for each address it tries.  A call that      *)
(* throws before it changes anything is no step.                           *)
(***************************************************************************)
EXTENDS Integers, FiniteSets

CONSTANTS
  Fds,       \* descriptor numbers
  Pids,      \* process numbers
  Servers, Conns, Clients, Watchers, Children,   \* objects, each made once
  MaxObjects,  \* bound: objects made
  MaxAddrs,  \* bound: addresses a name resolves to
  MaxData,   \* bound: unread pieces of data in a stream
  Nothing,   \* behind a free number; no process
  Foreign    \* a process that is not a satellite; a descriptor of the engine or of Lua's own

In(p)  == <<p, "in">>    \* fdParentToChild[1]
Out(p) == <<p, "out">>   \* fdChildToParent[0]

Sockets  == Servers \cup Conns \cup Clients
Singles  == Sockets \cup Watchers
Outs     == {Out(p) : p \in Children}
PipeEnds == {In(p) : p \in Children} \cup Outs
Holders  == Singles \cup PipeEnds
Streams  == Conns \cup Clients \cup Outs
Objects  == Singles \cup Children

Closed  == -1
NoPid   == -1

ASSUME DescriptorConstants ==
  /\ Fds \subseteq Nat /\ Pids \subseteq Nat
  /\ {Nothing, Foreign} \cap (Holders \cup Children) = {} /\ Nothing # Foreign
  /\ Singles \cap PipeEnds = {} /\ Singles \cap Children = {}
  /\ Servers \cap (Conns \cup Clients \cup Watchers) = {}
  /\ Conns \cap (Clients \cup Watchers) = {} /\ Clients \cap Watchers = {}
  /\ MaxObjects \in Nat /\ MaxAddrs \in Nat \ {0} /\ MaxData \in Nat

VARIABLES
  table,      \* what is behind each descriptor number of the server
  inbox,      \* unread data of each stream
  process,    \* each satellite: "none", "running", "zombie" or "reaped"
  owner,      \* the process that has each pid
  life,       \* of each object: "unborn", "connecting", "alive", "failed", "dead"
  fd,         \* the number in each object; a pipe end keeps its number when closed
  handles,    \* connections that Lua has a handle of
  kept,       \* connections of each server
  dialing,    \* each client: how many addresses, the one it tries, those that connect would take
  pid, gotExitCode,
  strays,     \* history: data read by one holder from the stream of another
  polled,     \* history: some isRunning has reaped its satellite
  mistaken,   \* history: some terminate was about a process not its own
  aborted,    \* a destructor has thrown
  interrupted \* history: because a SIGINT ended its wait

sysVars   == <<table, inbox, process, owner>>
netVars   == <<handles, kept, dialing>>
childVars == <<pid, gotExitCode, polled, mistaken, aborted, interrupted>>
vars      == <<sysVars, life, fd, netVars, childVars, strays>>

NotDialing == [addrs |-> 0, at |-> 0, works |-> {}]

Init ==
  /\ table = [f \in Fds |-> Nothing]
  /\ inbox = [s \in Streams |-> 0]
  /\ process = [p \in Children |-> "none"]
  /\ owner = [i \in Pids |-> Nothing]
  /\ life = [o \in Objects |-> "unborn"]
  /\ fd = [h \in Holders |-> Closed]
  /\ handles = {} /\ kept = [s \in Servers |-> {}]
  /\ dialing = [k \in Clients |-> NotDialing]
  /\ pid = [p \in Children |-> NoPid] /\ gotExitCode = [p \in Children |-> FALSE]
  /\ strays = {} /\ polled = FALSE /\ mistaken = FALSE
  /\ aborted = FALSE /\ interrupted = FALSE

-----------------------------------------------------------------------------
(* The system's calls.                                                      *)

Free == {f \in Fds : table[f] = Nothing}

\* The numbers that the next calls get.
Lowest(F) == F \subseteq Free /\ \A f \in F, g \in Free \ F : f < g

\* A single holder gets the next number.
OpenFor(h) ==
  \E f \in Fds :
    /\ Lowest({f})
    /\ table' = [table EXCEPT ![f] = h]
    /\ fd' = [fd EXCEPT ![h] = f]

\* ::close of the numbers in the holders H, whatever is behind them.
CloseNumbers(H) ==
  table' = [f \in Fds |-> IF f \in {fd[h] : h \in H} THEN Nothing ELSE table[f]]

\* ... and -1 stored over them.
CloseSingles(H) ==
  /\ CloseNumbers(H)
  /\ fd' = [h \in Holders |-> IF h \in H THEN Closed ELSE fd[h]]

IsOpen(h) == fd[h] # Closed

\* A read takes what is there for the number, if it is a stream.
Read(h) ==
  \E s \in Streams :
    /\ IsOpen(h) /\ table[fd[h]] = s /\ inbox[s] > 0
    /\ inbox' = [inbox EXCEPT ![s] = @ - 1]
    /\ strays' = IF s = h THEN strays ELSE strays \cup {<<h, s>>}
    /\ UNCHANGED <<table, process, owner, life, fd, netVars, childVars>>

\* Data comes in from the other end.
Arrives(s) ==
  /\ \E f \in Fds : table[f] = s
  /\ inbox[s] < MaxData
  /\ s \in Outs => \E p \in Children : s = Out(p) /\ process[p] = "running"
  /\ inbox' = [inbox EXCEPT ![s] = @ + 1]
  /\ UNCHANGED <<table, process, owner, life, fd, netVars, childVars, strays>>

\* The rest of the server, the engine and Lua's own library of files, uses up the
\* descriptors that are left, or gives back what it had.
OthersOpen ==
  /\ Free # {}
  /\ table' = [f \in Fds |-> IF table[f] = Nothing THEN Foreign ELSE table[f]]
  /\ UNCHANGED <<inbox, process, owner, life, fd, netVars, childVars, strays>>

OthersClose ==
  /\ \E f \in Fds : table[f] = Foreign
  /\ table' = [f \in Fds |-> IF table[f] = Foreign THEN Nothing ELSE table[f]]
  /\ UNCHANGED <<inbox, process, owner, life, fd, netVars, childVars, strays>>

-----------------------------------------------------------------------------
(* TCPServer and its connections.                                           *)

Alive(o)  == life[o] = "alive"
Unborn(o) == life[o] = "unborn" /\ Cardinality({x \in Objects : life[x] # "unborn"}) < MaxObjects

\* A constructor that throws after socket() leaves the socket behind.
NewServer(s) ==
  /\ Unborn(s)
  /\ \/ OpenFor(s) /\ life' = [life EXCEPT ![s] = "alive"]
     \/ /\ \E f \in Fds : Lowest({f}) /\ table' = [table EXCEPT ![f] = s]
        /\ life' = [life EXCEPT ![s] = "failed"]
        /\ UNCHANGED fd
  /\ UNCHANGED <<inbox, process, owner, netVars, childVars, strays>>

\* Connections in C that neither Lua nor a server still has are destroyed.
Release(C) ==
  life' = [o \in Objects |->
    IF o \in C \ handles' /\ \A s \in Servers : o \notin kept'[s] THEN "dead" ELSE life[o]]

Accept(s, c) ==
  /\ Alive(s) /\ IsOpen(s) /\ Unborn(c)
  /\ OpenFor(c)
  /\ handles' = handles \cup {c}
  /\ kept' = [kept EXCEPT ![s] = {d \in @ : IsOpen(d)} \cup {c}]
  /\ LET swept == {d \in kept[s] : ~IsOpen(d)} \ handles
     IN  life' = [o \in Objects |->
           IF o = c THEN "alive" ELSE IF o \in swept THEN "dead" ELSE life[o]]
  /\ UNCHANGED <<inbox, process, owner, dialing, childVars, strays>>

\* Faulty: the connections are forgotten instead of closed.
ServerCloseForgets(s) ==
  /\ Alive(s)
  /\ CloseSingles({s} \cap {h \in Holders : IsOpen(h)})
  /\ kept' = [kept EXCEPT ![s] = {}]
  /\ UNCHANGED handles
  /\ Release(kept[s])
  /\ UNCHANGED <<inbox, process, owner, dialing, childVars, strays>>

\* Faulty: the connections keep the numbers that were closed.
ServerCloseRaw(s) ==
  /\ Alive(s)
  /\ CloseNumbers({h \in kept[s] \cup {s} : IsOpen(h)})
  /\ fd' = [fd EXCEPT ![s] = Closed]
  /\ kept' = [kept EXCEPT ![s] = {}]
  /\ UNCHANGED handles
  /\ Release(kept[s])
  /\ UNCHANGED <<inbox, process, owner, dialing, childVars, strays>>

\* close: the connections first, then the server's own socket or, if that is
\* closed already, an error.
ServerClose(s) ==
  /\ Alive(s)
  /\ CloseSingles({h \in kept[s] \cup {s} : IsOpen(h)})
  /\ kept' = [kept EXCEPT ![s] = {}]
  /\ UNCHANGED handles
  /\ Release(kept[s])
  /\ UNCHANGED <<inbox, process, owner, dialing, childVars, strays>>

\* The destructor: close if open; the connections' own destructors otherwise.
ServerDies(s) ==
  /\ Alive(s)
  /\ LET shared == IF IsOpen(s) THEN kept[s] ELSE kept[s] \ handles
     IN  /\ CloseSingles({h \in shared \cup {s} : IsOpen(h)})
         /\ kept' = [kept EXCEPT ![s] = {}]
         /\ life' = [o \in Objects |-> IF o \in {s} \cup (kept[s] \ handles) THEN "dead"
                                                                                ELSE life[o]]
  /\ UNCHANGED <<handles, inbox, process, owner, dialing, childVars, strays>>

UsedByLua(o) == Alive(o) /\ (o \in Conns => o \in handles)

\* Faulty: the number stays in the object.
SocketCloseKeepsNumber(h) ==
  /\ UsedByLua(h) /\ IsOpen(h)
  /\ CloseNumbers({h})
  /\ UNCHANGED <<inbox, process, owner, life, fd, netVars, childVars, strays>>

\* close, and receive at the end of the stream, of a connection or a client.
SocketClose(h) ==
  /\ UsedByLua(h) /\ IsOpen(h)
  /\ CloseSingles({h})
  /\ UNCHANGED <<inbox, process, owner, life, netVars, childVars, strays>>

SocketReceive(h) == UsedByLua(h) /\ Read(h)

\* Lua drops its handle; the server may still have the connection.
ConnDropped(c) ==
  /\ c \in handles
  /\ handles' = handles \ {c}
  /\ IF \E s \in Servers : c \in kept[s] THEN UNCHANGED <<table, fd, life>>
     ELSE /\ CloseSingles({h \in {c} : IsOpen(h)})
          /\ life' = [life EXCEPT ![c] = "dead"]
  /\ UNCHANGED <<inbox, process, owner, kept, dialing, childVars, strays>>

-----------------------------------------------------------------------------
(* TCPClient, FileWatcher.                                                  *)

\* The name resolves; which of the addresses connect would take does not change
\* while the constructor tries them.
BeginConnect(k) ==
  /\ Unborn(k)
  /\ life' = [life EXCEPT ![k] = "connecting"]
  /\ \E n \in 1..MaxAddrs : \E good \in SUBSET (1..n) :
       dialing' = [dialing EXCEPT ![k] = [addrs |-> n, at |-> 1, works |-> good]]
  /\ UNCHANGED <<sysVars, fd, handles, kept, childVars, strays>>

\* connect succeeds, or goes on in the background.
Connects(k) ==
  /\ life[k] = "connecting"
  /\ dialing[k].at \in dialing[k].works
  /\ OpenFor(k)
  /\ life' = [life EXCEPT ![k] = "alive"]
  /\ dialing' = [dialing EXCEPT ![k] = NotDialing]
  /\ UNCHANGED <<inbox, process, owner, handles, kept, childVars, strays>>

\* There is no descriptor for the socket, or connect fails and it is closed again.
CannotConnect(k) == Free = {} \/ dialing[k].at \notin dialing[k].works

\* Faulty: the loop does not leave the first address.
AddressFailsStays(k) ==
  /\ life[k] = "connecting"
  /\ CannotConnect(k)
  /\ IF dialing[k].addrs > 1 THEN UNCHANGED <<life, dialing>>
     ELSE /\ life' = [life EXCEPT ![k] = "failed"]
          /\ dialing' = [dialing EXCEPT ![k] = NotDialing]
  /\ UNCHANGED <<sysVars, fd, handles, kept, childVars, strays>>

\* The next address is always the one after the first, also when that has just
\* failed; the constructor throws if there is none.
AddressFails(k) ==
  /\ life[k] = "connecting"
  /\ CannotConnect(k)
  /\ IF dialing[k].addrs > 1
     THEN dialing' = [dialing EXCEPT ![k].at = 2] /\ UNCHANGED life
     ELSE /\ life' = [life EXCEPT ![k] = "failed"]
          /\ dialing' = [dialing EXCEPT ![k] = NotDialing]
  /\ UNCHANGED <<sysVars, fd, handles, kept, childVars, strays>>

NewWatcher(w) ==
  /\ Unborn(w)
  /\ OpenFor(w)
  /\ life' = [life EXCEPT ![w] = "alive"]
  /\ UNCHANGED <<inbox, process, owner, netVars, childVars, strays>>

\* The destructors of a client and of a watcher, which is never closed before.
SingleDies(h) ==
  /\ Alive(h)
  /\ CloseSingles({g \in {h} : IsOpen(g)})
  /\ life' = [life EXCEPT ![h] = "dead"]
  /\ UNCHANGED <<inbox, process, owner, netVars, childVars, strays>>

-----------------------------------------------------------------------------
(* ChildProcess.                                                            *)

\* The numbers of two pipes.
PipeNumbers(a, b, c, d) == a < b /\ b < c /\ c < d /\ Lowest({a, b, c, d})

\* What is left when the satellite's ends are closed in the server.
Forked(p, b, c, i) ==
  /\ owner[i] = Nothing
  /\ table' = [table EXCEPT ![b] = In(p), ![c] = Out(p)]
  /\ fd' = [fd EXCEPT ![In(p)] = b, ![Out(p)] = c]
  /\ owner' = [owner EXCEPT ![i] = p]
  /\ pid' = [pid EXCEPT ![p] = i]

NewChild(p) ==
  /\ Unborn(p)
  /\ \E a, b, c, d \in Fds, i \in Pids : PipeNumbers(a, b, c, d) /\ Forked(p, b, c, i)
  /\ process' = [process EXCEPT ![p] = "running"]
  /\ life' = [life EXCEPT ![p] = "alive"]
  /\ UNCHANGED <<inbox, netVars, gotExitCode, polled, mistaken, aborted, interrupted, strays>>

\* fcntl refuses the size of a pipe: only the first pipe is closed again.
NewChildFails(p) ==
  /\ Unborn(p)
  /\ \E a, b, c, d \in Fds :
       /\ PipeNumbers(a, b, c, d)
       /\ table' = [table EXCEPT ![c] = Out(p), ![d] = Out(p)]
  /\ life' = [life EXCEPT ![p] = "failed"]
  /\ UNCHANGED <<inbox, process, owner, fd, netVars, childVars, strays>>

\* There is no check whether the child was terminated.
ChildReceive(p) == Alive(p) /\ Read(Out(p))

SatelliteExits(p) ==
  /\ process[p] = "running"
  /\ process' = [process EXCEPT ![p] = "zombie"]
  /\ UNCHANGED <<table, inbox, owner, life, fd, netVars, childVars, strays>>

\* Satellite q is waited for, and its pid i is free.
Reap(q, i) ==
  /\ process' = [process EXCEPT ![q] = "reaped"]
  /\ owner' = [owner EXCEPT ![i] = Nothing]

\* isRunning finds that the process behind pid has ended, in whichever call.
IsRunning(p) ==
  /\ Alive(p) /\ pid[p] # NoPid /\ ~gotExitCode[p]
  /\ \E q \in Children : owner[pid[p]] = q /\ process[q] = "zombie" /\ Reap(q, pid[p])
  /\ gotExitCode' = [gotExitCode EXCEPT ![p] = TRUE]
  /\ polled' = TRUE
  /\ UNCHANGED <<table, inbox, life, fd, netVars, pid, mistaken, aborted, interrupted, strays>>

\* Faulty: the pid is kept.
TerminateOkKeepsPid(p) ==
  /\ pid[p] # NoPid /\ owner[pid[p]] # Foreign
  /\ IF owner[pid[p]] = Nothing THEN UNCHANGED <<process, owner, gotExitCode>>
     ELSE /\ Reap(owner[pid[p]], pid[p])
          /\ gotExitCode' = [gotExitCode EXCEPT ![p] = TRUE]
  /\ mistaken' = (mistaken \/ owner[pid[p]] \notin {p, Nothing})
  /\ CloseNumbers({In(p), Out(p)})
  /\ UNCHANGED <<fd, pid, polled, aborted, interrupted>>

\* kill and waitpid, or ESRCH, and the two ends closed.
TerminateOk(p) ==
  /\ pid[p] # NoPid /\ owner[pid[p]] # Foreign
  /\ IF owner[pid[p]] = Nothing THEN UNCHANGED <<process, owner, gotExitCode>>
     ELSE /\ Reap(owner[pid[p]], pid[p])
          /\ gotExitCode' = [gotExitCode EXCEPT ![p] = TRUE]
  /\ mistaken' = (mistaken \/ owner[pid[p]] \notin {p, Nothing})
  /\ CloseNumbers({In(p), Out(p)})
  /\ pid' = [pid EXCEPT ![p] = NoPid]
  /\ UNCHANGED <<fd, polled, aborted, interrupted>>

\* kill is not permitted, or kills a process that cannot be waited for: throws.
TerminateThrows(p) ==
  /\ pid[p] # NoPid /\ owner[pid[p]] = Foreign
  /\ owner' \in {owner, [owner EXCEPT ![pid[p]] = Nothing]}
  /\ mistaken' = TRUE
  /\ UNCHANGED <<table, process, fd, pid, gotExitCode, polled>>

\* A SIGINT ends the wait for a satellite that has not died yet: throws.
TerminateInterrupted(p) ==
  /\ pid[p] # NoPid
  /\ \E q \in Children : owner[pid[p]] = q /\ process[q] = "running"
  /\ mistaken' = (mistaken \/ owner[pid[p]] # p)
  /\ UNCHANGED <<table, process, owner, fd, pid, gotExitCode, polled>>

Terminate(p) ==
  /\ Alive(p)
  /\ \/ TerminateOk(p)
     \/ (TerminateThrows(p) \/ TerminateInterrupted(p)) /\ UNCHANGED <<aborted, interrupted>>
  /\ UNCHANGED <<life, inbox, netVars, strays>>

\* The destructor terminates; an exception that leaves it ends the server.
ChildDies(p) ==
  /\ Alive(p)
  /\ \/ TerminateOk(p)
     \/ TerminateThrows(p) /\ aborted' = TRUE /\ UNCHANGED interrupted
     \/ TerminateInterrupted(p) /\ aborted' = TRUE /\ interrupted' = TRUE
     \/ pid[p] = NoPid /\ UNCHANGED <<table, process, owner, fd, childVars>>
  /\ life' = [life EXCEPT ![p] = "dead"]
  /\ UNCHANGED <<inbox, netVars, strays>>

\* Other processes come and go.
ForeignStarts(i) ==
  /\ owner[i] = Nothing
  /\ owner' = [owner EXCEPT ![i] = Foreign]
  /\ UNCHANGED <<table, inbox, process, life, fd, netVars, childVars, strays>>

ForeignEnds(i) ==
  /\ owner[i] = Foreign
  /\ owner' = [owner EXCEPT ![i] = Nothing]
  /\ UNCHANGED <<table, inbox, process, life, fd, netVars, childVars, strays>>

-----------------------------------------------------------------------------
Serving ==
  \/ \E s \in Servers : NewServer(s) \/ ServerClose(s) \/ ServerDies(s)
  \/ \E s \in Servers, c \in Conns : Accept(s, c)
  \/ \E h \in Conns \cup Clients : SocketClose(h) \/ SocketReceive(h)
  \/ \E c \in Conns : ConnDropped(c)

Dialing(k)  == Connects(k) \/ AddressFails(k)

Others ==
  \/ \E k \in Clients : BeginConnect(k) \/ Dialing(k)
  \/ \E w \in Watchers : NewWatcher(w)
  \/ \E h \in Clients \cup Watchers : SingleDies(h)

Parenting ==
  \E p \in Children :
    \/ NewChild(p) \/ NewChildFails(p) \/ ChildReceive(p)
    \/ SatelliteExits(p) \/ IsRunning(p) \/ Terminate(p) \/ ChildDies(p)

System ==
  \/ \E s \in Streams : Arrives(s)
  \/ \E i \in Pids : ForeignStarts(i) \/ ForeignEnds(i)
  \/ OthersOpen \/ OthersClose

Next == ~aborted /\ (Serving \/ Others \/ Parenting \/ System)

Spec == Init /\ [][Next]_vars

\* A constructor that has begun to try addresses goes on.
FairSpec == Spec /\ \A k \in Clients : WF_vars(~aborted /\ Dialing(k))

-----------------------------------------------------------------------------
(* Properties.                                                              *)

\* The holder may still use and close its number.
InUse(h) ==
  IF h \in Singles THEN IsOpen(h) ELSE \E p \in Children : h \in {In(p), Out(p)} /\ pid[p] # NoPid

\* Behind the number of a holder in use is what was opened for it: no sequence of
\* closes, of destructors in any order and of numbers given out again makes an
\* object close or use what belongs to another.
OwnsItsNumber == \A h \in Holders : InUse(h) => table[fd[h]] = h

\* While the server runs, whatever is open is in use by an object that still exists
\* and will close it, or was left behind by a constructor that threw; and a
\* satellite only runs while an object that has not been told to terminate it
\* exists.
OnlyFailuresLeak ==
  ~aborted =>
    /\ \A f \in Fds, h \in Singles :
         table[f] = h => life[h] = "failed" \/ (Alive(h) /\ fd[h] = f)
    /\ \A f \in Fds, p \in Children : \A h \in {In(p), Out(p)} :
         table[f] = h => life[p] = "failed" \/ (Alive(p) /\ pid[p] # NoPid /\ fd[h] = f)
    /\ \A p \in Children : process[p] = "running" => Alive(p) /\ pid[p] # NoPid

\* Data is only read by another than its owner when a child was terminated and is
\* asked for a message all the same.
StraysOnlyAfterTerminate ==
  \A stray \in strays : \E p \in Children : stray[1] = Out(p) /\ pid[p] = NoPid

\* A process that is not the object's own is only signalled, or waited for, when a
\* satellite was reaped by isRunning, as its pid is then free while its object keeps
\* it; and then only, or when a signal ends the wait for a satellite, is the server
\* aborted by a destructor.
WrongProcessOnlyAfterPoll ==
  /\ mistaken => polled
  /\ aborted => polled \/ interrupted

Connecting(k) == life[k] = "connecting"

\* A client's constructor ends if it tries an address that can be connected to
\* while there is a free descriptor: it comes to the second of them and stays
\* there, so descriptors need to become free in time for that one only; the first
\* it tries once, and descriptors that run out for that moment make it miss an only
\* address that works, and try the second for ever.  From the third on none is ever
\* tried.
ConnectEnds ==
  \A k \in Clients :
    /\ <>[](Free # {}) =>
         (Connecting(k) /\ (dialing[k].addrs = 1 \/ 2 \in dialing[k].works)
            ~> ~Connecting(k) \/ aborted)
    /\ [](Free # {}) =>
         (Connecting(k) /\ 1 \in dialing[k].works ~> ~Connecting(k) \/ aborted)

=============================================================================
