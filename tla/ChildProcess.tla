---------------------------- MODULE ChildProcess ----------------------------
(***************************************************************************)
(* ChildProcess (childprocess.cpp) and the satellite it runs               *)
(* (RosaServerSatellite/main.cpp), joined by two pipes.                    *)
(*                                                                         *)
(* A message is written as a length and a body, in two blocking writes,    *)
(* and read as a length and a body, in two reads that do not block.  Both  *)
(* ends have the same code for it.  A pipe is a sequence of cells: one for *)
(* a length, one for each piece of a body; a body of up to Small cells is  *)
(* written at once (PIPE_BUF), a longer one piece by piece.  A reader that *)
(* takes a piece of a body for a length has lost step and may read any     *)
(* length from it.                                                         *)
(*                                                                         *)
(* Descriptor numbers and process ids that the system gives out again      *)
(* after they were freed are in Descriptors.                               *)
(***************************************************************************)
EXTENDS Integers, Sequences

CONSTANTS
  Room,     \* cells a pipe has room for
  Small,    \* cells that are written at once
  MaxBody,  \* bound: cells of a body
  MaxSent   \* bound: messages each way

ASSUME ChildConstants ==
  /\ {Room, MaxBody, MaxSent} \subseteq Nat
  /\ Small \in 1..Room

VARIABLES
  pipe,         \* the cells in each pipe
  writing,      \* the message its sender is writing, and the next part of it
  reading,      \* the message its receiver has read the length of
  sent,         \* number of the last message whose length was written
  received,     \* number of the last message received
  short,        \* a receive has taken a length and answered nil, or a write has
                \* left a part of a body out
  garbage,      \* something was received that was never sent
  child,        \* "running", "dead" or "reaped"
  gotExitCode,
  open          \* pid is not -1, and the parent's descriptors are open

streamVars == <<pipe, writing, reading, sent, received, short, garbage>>
lifeVars   == <<child, gotExitCode, open>>
vars       == <<streamVars, lifeVars>>

Ways == {"to child", "to parent"}

\* Message m with a body of size cells; part 0 is the length.
Cell(m, size, part) == [m |-> m, size |-> size, part |-> part]
Idle  == Cell(0, 0, 0)

None == [m |-> 0, want |-> -1]

Init ==
  /\ pipe = [w \in Ways |-> <<>>]
  /\ writing = [w \in Ways |-> Idle]
  /\ reading = [w \in Ways |-> None]
  /\ sent = [w \in Ways |-> 0] /\ received = [w \in Ways |-> 0]
  /\ short = [w \in Ways |-> FALSE] /\ garbage = [w \in Ways |-> FALSE]
  /\ child = "running" /\ gotExitCode = FALSE /\ open = TRUE

Writing(w) == writing[w] # Idle
Reading(w) == reading[w] # None

\* Each process is one thread.
ParentFree == ~Writing("to child") /\ ~Reading("to parent")
ChildFree  == child = "running" /\ ~Writing("to parent") /\ ~Reading("to child")

Listening(w) == IF w = "to child" THEN child = "running" ELSE open

-----------------------------------------------------------------------------
(* sendMessage, l_sendMessage.                                              *)

\* The parent only begins if isRunning; see IsRunning for when it is not.
MaySend(w) ==
  IF w = "to child" THEN ParentFree /\ open /\ child = "running" ELSE ChildFree

BeginSend(w) ==
  /\ MaySend(w) /\ sent[w] < MaxSent
  /\ \E size \in 0..MaxBody : writing' = [writing EXCEPT ![w] = Cell(sent[w] + 1, size, 0)]
  /\ UNCHANGED <<pipe, reading, sent, received, short, garbage, lifeVars>>

\* After n cells of the body: is there more?
Proceed(w, n) ==
  LET next == [writing[w] EXCEPT !.part = @ + n]
  IN  writing' = [writing EXCEPT ![w] = IF next.part > next.size THEN Idle ELSE next]

\* The cells that are written next, a small body as a whole.
NextCells(w) == IF writing[w].part > 0 /\ writing[w].size <= Small THEN writing[w].size ELSE 1

HasRoom(w) == Len(pipe[w]) + NextCells(w) <= Room

WriteLength(w) ==
  /\ Writing(w) /\ writing[w].part = 0
  /\ Listening(w) /\ HasRoom(w)
  /\ pipe' = [pipe EXCEPT ![w] = Append(@, writing[w])]
  /\ sent' = [sent EXCEPT ![w] = @ + 1]
  /\ Proceed(w, 1)
  /\ UNCHANGED <<reading, received, short, garbage, lifeVars>>

\* Faulty: a write that found room for a part of the body only is not resumed.
WriteBodyOnce(w) ==
  /\ Writing(w) /\ writing[w].part > 0
  /\ Listening(w) /\ HasRoom(w)
  /\ pipe' = [pipe EXCEPT ![w] = Append(@, writing[w])]
  /\ writing' = [writing EXCEPT ![w] = Idle]
  /\ UNCHANGED <<reading, sent, received, short, garbage, lifeVars>>

WriteBody(w) ==
  /\ Writing(w) /\ writing[w].part > 0
  /\ Listening(w) /\ HasRoom(w)
  /\ LET n == NextCells(w)
     IN  /\ pipe' = [pipe EXCEPT ![w] =
              @ \o [i \in 1..n |-> [writing[w] EXCEPT !.part = @ + i - 1]]]
         /\ Proceed(w, n)
  /\ UNCHANGED <<reading, sent, received, short, garbage, lifeVars>>

\* Faulty: a write that failed is tried again.
BrokenPipeRetries(w) == Writing(w) /\ ~Listening(w) /\ UNCHANGED vars

\* EPIPE: SIGPIPE is ignored, sendMessage throws.
BrokenPipe(w) ==
  /\ Writing(w) /\ ~Listening(w)
  /\ writing' = [writing EXCEPT ![w] = Idle]
  /\ UNCHANGED <<pipe, reading, sent, received, short, garbage, lifeVars>>

\* A SIGINT, whose handler is installed without SA_RESTART, ends a write of the
\* server that waits for room: sendMessage throws, whatever is written already.
WriteInterrupted(w) ==
  /\ w = "to child"
  /\ Writing(w) /\ Listening(w) /\ ~HasRoom(w)
  /\ writing' = [writing EXCEPT ![w] = Idle]
  /\ short' = IF writing[w].part > 0 THEN [short EXCEPT ![w] = TRUE] ELSE short
  /\ UNCHANGED <<pipe, reading, sent, received, garbage, lifeVars>>

-----------------------------------------------------------------------------
(* receiveMessage, l_receiveMessage.                                        *)

MayReceive(w) == IF w = "to child" THEN ChildFree ELSE ParentFree /\ open

\* An empty pipe answers nil and changes nothing.
ReadLength(w) ==
  /\ MayReceive(w) /\ pipe[w] # <<>>
  /\ LET head == Head(pipe[w])
     IN  IF head.part = 0
         THEN reading' = [reading EXCEPT ![w] = [m |-> head.m, want |-> head.size]]
         ELSE \E any \in 0..MaxBody :
                reading' = [reading EXCEPT ![w] = [m |-> 0, want |-> any]]
  /\ pipe' = [pipe EXCEPT ![w] = Tail(@)]
  /\ UNCHANGED <<writing, sent, received, short, garbage, lifeVars>>

\* The cells that a read of the body takes, and whether they are that body.
Taken(w) == SubSeq(pipe[w], 1, IF reading[w].want < Len(pipe[w]) THEN reading[w].want
                                                                 ELSE Len(pipe[w]))

IsBody(w) ==
  /\ reading[w].m # 0
  /\ \A i \in DOMAIN Taken(w) : Taken(w)[i].m = reading[w].m /\ Taken(w)[i].part = i

\* Faulty: a body of length zero counts as nothing read.
ReadBodyNotEmpty(w) ==
  /\ Reading(w)
  /\ pipe' = [pipe EXCEPT ![w] = SubSeq(@, Len(Taken(w)) + 1, Len(@))]
  /\ reading' = [reading EXCEPT ![w] = None]
  /\ \/ /\ Len(Taken(w)) < reading[w].want
        /\ short' = [short EXCEPT ![w] = TRUE]
        /\ UNCHANGED <<received, garbage>>
     \/ /\ Len(Taken(w)) = reading[w].want /\ reading[w].want = 0
        /\ UNCHANGED <<received, short, garbage>>
     \/ /\ Len(Taken(w)) = reading[w].want /\ reading[w].want > 0
        /\ IF IsBody(w)
           THEN received' = [received EXCEPT ![w] = reading[w].m] /\ UNCHANGED garbage
           ELSE garbage' = [garbage EXCEPT ![w] = TRUE] /\ UNCHANGED received
        /\ UNCHANGED short
  /\ UNCHANGED <<writing, sent, lifeVars>>

\* What is there of the body is taken; unless it is all of it, nil is answered.
ReadBody(w) ==
  /\ Reading(w)
  /\ pipe' = [pipe EXCEPT ![w] = SubSeq(@, Len(Taken(w)) + 1, Len(@))]
  /\ reading' = [reading EXCEPT ![w] = None]
  /\ \/ /\ Len(Taken(w)) < reading[w].want
        /\ short' = [short EXCEPT ![w] = TRUE]
        /\ UNCHANGED <<received, garbage>>
     \/ /\ Len(Taken(w)) = reading[w].want
        /\ IF IsBody(w)
           THEN received' = [received EXCEPT ![w] = reading[w].m] /\ UNCHANGED garbage
           ELSE garbage' = [garbage EXCEPT ![w] = TRUE] /\ UNCHANGED received
        /\ UNCHANGED short
  /\ UNCHANGED <<writing, sent, lifeVars>>

-----------------------------------------------------------------------------
(* The child's life.                                                        *)

\* Whatever the child was about to write or read is left where it was.
ChildStops ==
  /\ writing' = [writing EXCEPT !["to parent"] = Idle]
  /\ reading' = [reading EXCEPT !["to child"] = None]
  /\ UNCHANGED <<pipe, sent, received, short, garbage>>

\* Its script ends or fails, or a limit or a signal ends it.
ChildExits ==
  /\ child = "running"
  /\ child' = "dead"
  /\ ChildStops
  /\ UNCHANGED <<gotExitCode, open>>

\* isRunning finds the child dead: by itself, in getExitCode, sendMessage,
\* setLimit, getPriority and setPriority.  It changes nothing otherwise.
IsRunning ==
  /\ ParentFree /\ open /\ ~gotExitCode
  /\ child = "dead" /\ child' = "reaped"
  /\ gotExitCode' = TRUE
  /\ UNCHANGED <<streamVars, open>>

\* terminate and the destructor: kill and wait, or nothing to kill (ESRCH).  If a
\* SIGINT ends the wait terminate throws, and the child exits by itself.
Terminate ==
  /\ ParentFree /\ open
  /\ IF child = "reaped" THEN UNCHANGED <<streamVars, child, gotExitCode>>
     ELSE child' = "reaped" /\ gotExitCode' = TRUE /\ ChildStops
  /\ open' = FALSE

-----------------------------------------------------------------------------
Transfer(w) ==
  \/ BeginSend(w) \/ WriteLength(w) \/ WriteBody(w) \/ BrokenPipe(w) \/ WriteInterrupted(w)
  \/ ReadLength(w) \/ ReadBody(w)

Terminated == ~open /\ UNCHANGED vars

Next ==
  \/ \E w \in Ways : Transfer(w)
  \/ ChildExits \/ IsRunning \/ Terminate
  \/ Terminated

Spec == Init /\ [][Next]_vars

\* Begun writes and reads go on, and the child's script receives again and
\* again as long as it is free to.
FairSpec ==
  /\ Spec
  /\ \A w \in Ways : WF_vars(WriteLength(w) \/ WriteBody(w) \/ BrokenPipe(w))
  /\ \A w \in Ways : WF_vars(ReadBody(w))
  /\ SF_vars(ReadLength("to child"))

-----------------------------------------------------------------------------
(* Properties.                                                              *)

\* Messages on the way: their length is in the pipe or has just been read.
Lengths(w) == {i \in DOMAIN pipe[w] : pipe[w][i].part = 0}

OnTheWay(w) ==
  {pipe[w][i].m : i \in Lengths(w)} \cup (IF Reading(w) THEN {reading[w].m} ELSE {})

\* As long as no receive has come short, and no write was cut, every message sent
\* is received, whole, once and in order, empty messages included: what was sent
\* and not received is on the way, the oldest first.
InStepNothingLost ==
  \A w \in Ways :
    Listening(w) /\ ~short[w] =>
      /\ ~garbage[w]
      /\ OnTheWay(w) = (received[w] + 1)..sent[w]
      /\ \A i, j \in Lengths(w) : i < j => pipe[w][i].m < pipe[w][j].m
      /\ Reading(w) => \A i \in Lengths(w) : reading[w].m < pipe[w][i].m

\* Each way is a channel that only a short receive or a cut write breaks: until
\* then messages are received one after another, and out of step too none comes
\* twice, late or before it was sent.
Pipes == INSTANCE Channel WITH broken <- short

ImplementsChannel == Pipes!Spec

\* A stream first comes out of step only when a receive races with the sender of
\* that very message, as it must for a body that is larger than the pipe, when the
\* sender has died in mid-message, or when a signal cuts a body that the server
\* writes into a full pipe.
ShortOnlyWhileWriting ==
  [][\A w \in Ways :
       short[w]' # short[w] =>
         \/ Writing(w) /\ writing[w].m = reading[w].m
         \/ w = "to parent" /\ child # "running"
         \/ w = "to child" /\ writing[w].part > 0 /\ ~HasRoom(w)]_vars

\* The server's sendMessage returns although it blocks, and no signal is needed for
\* it, unless the child blocks in turn on a pipe that the server does not empty
\* meanwhile: then both may wait for ever.
SendReturns ==
  Writing("to child") ~> ~Writing("to child") \/ Writing("to parent")

=============================================================================
