# RosaServer: a formal model

RosaServer is a shared library that is preloaded into the closed-source dedicated
server of a game. It replaces engine functions by detours, runs Lua handlers around
them, and gives Lua an API that reaches the same functions. This directory holds TLA+
modules for the parts of it whose correctness depends on the order of steps, TLC
configurations that check them on small instances, and TLAPS proofs of the properties
that matter most.

    tlc -config MCWorker.cfg MCWorker.tla      # check one run
    tlapm Worker_proofs.tla                    # check one module's proofs

`PROJECT.json` lists the components, the runs, the faulty variants, the code that each
definition stands for, the hazards and the theorems.

Contents: [the system](#1-the-system), [the modules](#2-the-modules-and-the-code),
[the runs](#3-the-runs), [fairness](#4-fairness), [proofs](#5-what-is-proved),
[findings](#6-findings), [what is left out](#7-what-is-not-modelled), [plan](#8-plan).

## 1. The system

All C++ sources are in `src/RosaServer`, and `src/RosaServerSatellite/main.cpp`.

The **main thread** belongs to the engine. Its main loop calls `logicSimulation` once a
tick. All Lua of the main state runs on it, inside detours. The **console thread** reads
keys, edits a line and queues commands. Each **worker** is a thread with a Lua state of
its own. Each **child process** is another program joined to the server by two pipes.
SIGINT sets a flag.

| Component | State | Operations | Talks to |
|---|---|---|---|
| Hook dispatch and Lua lifecycle (`hooks.cpp`, `api.cpp`, `rosaserver.cpp`) | which detours are installed, enable keys, `lua`, `run`, `hookMode`, `shouldReset`, the C++ stack | 66 detours, the API functions that call the engine, `luaInit`, `hook.enable/disable/clear`, `flagStateForReset`, the tick's own work | the engine (calls both ways), Lua (calls both ways), the console (queue, rendezvous, `shouldExit`) |
| Entity data tables (`api.cpp`, `hooks.cpp`) | a Lua table per slot of the engine's arrays | the create and delete detours, `create` and `remove` of the API, `.data`, `luaInit` | hook dispatch |
| Network events (`hooks.cpp`, `api.cpp`) | `numEvents`, `events[]` | `createEvent*`, `events.create*`, `update*` of entities | hook dispatch |
| Bullets, line intersections (`hooks.cpp`) | `isInBulletSimulation` | `bulletSimulation`, `lineIntersectHuman`, `lineIntersectLevel` | the engine and Lua (calls both ways) |
| Console (`console.cpp`) | line, cursor, history, draft, queue, `awaitingAutoComplete`, three mutexes | keys, `log`, `pushCommand`, `awaitAutoComplete`, `respondToAutoComplete` | main thread, workers |
| Worker (`worker.cpp`) | two queues, `stopped`, a condition variable | `sendMessage`, `receiveMessage`, `sleep`, `stop`, the destructor | main thread |
| Child process, satellite (`childprocess.cpp`, satellite's `main.cpp`) | two pipes, pid, exit code | `sendMessage`, `receiveMessage`, `isRunning`, `terminate`, limits, priority | main thread, operating system |
| TCP server and client (`tcpserver.cpp`, `tcpclient.cpp`) | sockets, shared connections | `accept`, `send`, `receive`, `close`, the destructors | Lua, operating system; shares descriptor numbers with all that opens files |
| File watcher (`filewatcher.cpp`) | descriptor to path | `addWatch`, `removeWatch`, `receiveEvent` | operating system |
| Point graph (`pointgraph.cpp`) | nodes, links, ids by point | `addNode`, `addLink`, `findShortestPath` | Lua |
| SQLite, image, Opus (`sqlite.cpp`, `image.cpp`, `opusencoder.cpp`) | an open handle or none | open, close, use | libraries |
| Engine structures (`structs.h`, `engine.cpp`) | the engine's memory | accessors | all |
| HTTP, crypto, compression | none between calls | blocking calls | libraries |

### What is hard, and what makes each part correct

* **Hook dispatch.** A detour calls the original function while its own jump is removed
  (`subhook::ScopedHookRemove`). Handlers call the API, the API calls the engine under
  the same kind of object, and engine bodies call hooked functions, so calls nest to any
  depth. Correct: no detour is lost or put back too early; what Lua does is not reported
  back to Lua; the Lua state, which a handler may ask to replace, is never deleted under
  code that is suspended on the stack; no reset, exit, command or completion that was
  asked for is forgotten, whatever handlers do.
* **Entity data.** Slots are used again, and handlers run between the engine's creation
  or deletion of an entity and the clearing of the slot's table. Correct: an entity never
  has the data of another, and keeps its own as long as it lives.
* **Console.** Three threads, three mutexes, and edits that do not take them. Correct:
  indices stay in range whoever rewrites the line, only known edits race with a redraw,
  and no order of locks stops the console.
* **Worker.** Lossy queues, a notify that can be missed, and a destructor that joins a
  thread which runs a user's script. Correct: messages arrive in order, only the oldest
  are lost, and the join returns if the script heeds `sleep`.
* **Child process.** A message is two blocking writes and two non-blocking reads. Correct:
  the streams stay in step but for one known race, and a send does not hang the server.
* **Network events.** An API function returns the last event there is after its call.
  Correct: that is the event its own call made, whatever handlers and bodies do around it.
* **Bullets.** A flag, not an argument, tells the line detours that the engine tests a
  bullet, and a bullet's address is computed from another one. Correct: what a handler is
  given as a bullet is one.
* **Sockets, pipes, pids.** The system gives numbers out again as soon as they are free.
  Connections are shared between a server and Lua's handles and are closed from either
  side, by the peer and by destructors in any order; a satellite's pid is free once
  `isRunning` has reaped it. Correct: nobody uses or closes what is another's, nothing
  stays open that nobody owns, and connecting ends.
* **File watcher.** The kernel's queue has events of watches that are gone, and the kernel
  drops watches by itself. Correct: the map knows every live watch, and a removed path is
  not reported again.
* **Point graph.** The search keeps the first score it finds, and costs may be negative.
  Correct: it ends, finds a path exactly if there is one, and returns a real one.

## 2. The modules and the code

In every module the definitions marked *Faulty* are not part of `Next`. They are
plausible bugs; each property is seen to fail when the definition after a faulty one is
replaced by it.

### HookDispatch, HookTable

`HookDispatch` is the main thread as a C++ call stack. A frame is a detour (`hook`), an
engine body (`body`) or an API function (`api`); `at` is where in its code it is, and
`holds` the detour its `ScopedHookRemove` has to put back. `CallEngine` is the constructor
of that object and the call: it removes the detour, remembers it only if this object took
it away, and enters what is then found at the function's address. `Reinstall` is its
destructor.

| Code | Actions |
|---|---|
| any `Hooks::f` of `hooks.cpp` | `Dispatch`, `PreReturns`, `MidReturns`, `BodyReturned`, `PostReturns` |
| `hooks.cpp` `resetGame`, `api.cpp` `hookAndReset` | `ResetGameBoot`, `ResetGameAgain`, `ResetGameBooted`, `HookAndReset` |
| `hooks.cpp` `logicSimulation` | `TickReset` ... `TickGoesOn`, `DrainCommand`, `InputReturns`, `Drained`, `AutoComplete`, `CompleteReturns` |
| `rosaserver.cpp` `luaInit` | `BeginLuaInit`, `EndLuaInit` around `main/init.lua` |
| API functions of `api.cpp` | `LuaCallsApi`, `ApiReturned`, `LuaServerReset`, `LuaEnable`, `LuaDisable`, `LuaClear`, `LuaFlagsReset`, `LuaExits` |
| the console thread, SIGINT | `ConsoleCommand`, `ConsoleTab`, `Interrupt` |
| the engine, from its use | `MainCall`, `BodyCalls`, `BodyReturns` |

Detours differ only in their *profile*: the enable keys, whether there is another
condition, whether a handler may veto the body, whether a second vetoing handler
follows, and when `Post...` is called. `HookTable` has the profile of every detour that
`installHooks` installs but the two that redirect output to the console and the two of
line intersections, and for every API function that calls a hooked function which one it
calls and which detour it removes. The runs take their tables from it.

Abstractions: the engine's call graph is closed source, so it is a constant, and runs give
it more edges than are known. Lua states are numbered 1 and 2 in turn. `ResetGameBooted`
queues one `-c` command at most. Handlers' arguments are left out; the bullet and line
intersection detours, whose arguments decide the course, are in `BulletHooks`. A handler
may do anything the API allows: the `Lua...` actions are enabled wherever Lua runs.

### NetworkEvents

Extends `HookDispatch` by `numEvents` and, for every frame of the stack, the event its call
made (`own`, a ghost). `BodyAdds` is what the body of a `createEvent` function does to the
count, before or after the calls it makes; every other step is one of `HookDispatch`'s.
`Returning` is an API function at its `return &Engine::events[*Engine::numEvents - 1]`.
`numEvents`, an unsigned short, wraps at `Width`.

`MayReturnOther` names the two functions whose calls run other code that may make events.
For the others `EventCallsPlain` says what the code shows, that they call one `createEvent`
function with its detour, if it has one, removed, and what it cannot show, that the body of
that function calls nothing hooked.

Abstractions: the engine's limit of events, and when it empties the table, are closed
source. The table's contents are left out.

### BulletHooks

The three detours with a shape of their own. `SimulationBegins`, `SimulationAsked`,
`SimulationReturns` and `PostReturns` are `bulletSimulation`; `TestsHuman`, `LineTested`,
`HitReturns`, `HumanFound`, `BulletHitReturns` are `lineIntersectHuman`, `TestsLevel` is
`lineIntersectLevel`, and `MayHitReturns` is of both. A frame knows whether the engine was
testing a bullet (`ofBullet`, a ghost) and whether the detour took its first argument for a
bullet's position (`bullet`). Handlers change keys and call API functions whose bodies test
lines as well. `HumanFound` reads the variable `bullet`, which C++ left uninitialized if
the flag was not set: `garbage` is any value it may have then.

Abstractions: what a line hits is chosen freely, and with it what `lineIntersectResult`
holds. Detours and their removal are in `HookDispatch`; the bodies of the two tests call
nothing that is hooked.

### DataTables

Slots of five kinds, the entity in each and the table of each. The stack has the detours
that wait for a handler; everything Lua can do may happen at any time in between.
`CreateQuietly`/`DeleteQuietly` are the branches without a handler; `CreateAsks`,
`CreateAnswered`, `CreateReturns` and `DeleteAsks`, `DeleteAnswered`, `DeleteReturns` the
others, with the place where each detour clears the table. `ApiCreates`, `ApiRemoves`,
`HumansCreateReplaces`, `GetDataTable` and `LuaInit` are the API's side. A table remembers
the Lua state it was made in and the entity it was made for.

Abstractions: engine bodies are atomic (their nesting is in `HookDispatch`). `LuaInit`
needs an empty stack, which the theorem `LuaInitIsAlone` of `HookDispatch` justifies. The
tables of accounts, which only `luaInit` drops, are left out. `items.createRope` has no
action: it clears nothing itself (`api.cpp:475`), and its body in the engine is taken to make
the item through `createItem`, whose detour clears the slot (`CreateQuietly`, `CreateAsks`).

### Worker

One step for what is done under one lock. `Stop` sets the flag under `destructionMutex`,
`Notify` is the `notify_all` after it is released; `LoopTests` and `LoopWaits` are the
two halves of the thread's loop, between which a notify can be missed. A wait may time out
at any time. Whether the script ends once `sleep` has returned true is `heeds`, chosen at
the start. `lateWaits` is a ghost: how many waits began after the flag was set.

`SlidingWindow` is what a queue promises: numbers are put in one after another and taken
out in order, and the front moves without a message being taken only when the window is
full. `Window` maps a queue to it with `front <- Front`; `ImplementsWindow` says that both
queues implement it.

### ConsoleEditor

The console thread key by key, the main thread's `log`, command drain and autocompletion
answer, and workers that log. `BeginEdit` takes `outputMutex` and `EndEdit` makes the
edit and gives it back; Enter and Delete (`BeginUnlocked`) do not take it.
`AnswerBegins`, `Rewrite`, `AnswerPrints` are `respondToAutoComplete` with the lock it
takes second. `PushLogs` and `Push` are `pushCommand`. Which key an escape sequence stands
for is abstracted, and so is what only goes to the terminal.

`HookDispatch` has the same rendezvous and queue from the main thread's side, where
handlers and resets may intervene; here it is the locks that are in question.

### ChildProcess, Channel

Two pipes as sequences of cells: one for a length, one for each piece of a body.
`WriteLength`/`WriteBody` and `ReadLength`/`ReadBody` are the two writes and the two reads
of a message, the same code at both ends. A body of up to `Small` cells is written at once
(`PIPE_BUF`), a longer one piece by piece. A reader that takes a piece of a body for a
length may read any length from it. `ChildExits`, `IsRunning` and `Terminate` are the
child's life; `ChildStops` leaves half-written messages in the pipe. `WriteInterrupted` is a
SIGINT that ends a write of the server which waits for room: the handler is installed without
`SA_RESTART` (`rosaserver.cpp:1782`), so `sendMessage` throws after any part of the message. A
body that is larger than the pipe is never received: the one read that takes it comes short.
`short` (a length was read and its body not, or a body was cut) and `garbage` are ghosts.

`Channel` is what a pipe promises: messages are received one after another until the
channel breaks, and in rising order ever after. `Pipes` maps both pipes to it with
`broken <- short`; `ImplementsChannel` says that they implement it. `InStepNothingLost` says
the same of the cells: until a receive comes short or a write is cut, the messages sent and not received are
those whose lengths are in the pipe or have just been read, in order.

Abstractions: descriptors of pipes and numbers of processes that are used again by
something else are in `Descriptors`. `SIGPIPE` is ignored (`rosaserver.cpp:1874`, inherited by the child),
so a write to a dead child fails and throws. A SIGINT that ends the wait in `terminate` is in
`Descriptors` too; the satellite's own writes and reads are not interrupted, as it handles no
signal.

### Descriptors

All objects that own descriptors, over one table of descriptor numbers: servers, their
connections, clients, watchers and the pipe ends of satellites, with pids of the same kind.
`table` names what is behind a number by the holder it was opened for, and `fd` is the
number in the object, so that a stale number can be told from a good one. Every call of
`tcpserver.cpp`, `tcpclient.cpp` and `childprocess.cpp` that opens, closes, reads, forks,
kills or waits is an action, and so are the destructors, in any order, and the failures
that the constructors handle or forget to. The constructor of a client takes a step for
each address it tries: `works` are the addresses that `connect` would take, chosen when the
name resolves, and an address fails if it is not one of them or if no descriptor is free.
`TerminateInterrupted` is a SIGINT that ends the wait for a satellite that has not died yet. A server destroyed with its connections releases those that Lua has
no handle of (`Release`, `ServerDies`).

The engine and Lua's own files share the table (`OthersOpen`, `OthersClose`): they may take
all that is free, and give it back, at any time.

Abstractions: data is counted, not carried, and what is sent is left out. Others take all or
nothing, as it only matters to the rest whether a descriptor is free and which is the lowest.
What satellites inherit is left out.

### FileWatcher

The map of watches and the kernel's side of it: which inode a path names, the live watches,
and the queue of events, with its limit and the event that stands for lost ones. Every
removal queues an event of its own (`IN_IGNORED`). The kernel drops the watch of an inode
that is gone. One read takes several events, of which the first is used.

Abstractions: masks and names of events. Numbers of watches are not given out again, as in
the kernel.

### PointGraph

Building a graph and searching it: a turn of the queue's loop (`SkipNode`, `VisitNode`), of
the loop over a node's links (`FollowLink`; `todo` has the links that are left) and of
`reconstructPath`'s (`TraceBack`) are steps of their own. A path of more nodes than there are
goes round for ever: `TraceGoesRound` stands for that. `Insert` is `unordered_map::insert`,
which does not replace. The priority queue is a set: a node that
is in it twice is popped twice, but the second pop only skips it. `fScores` is written
and never read; it is left out with the distances that feed it, so that a point is only
something to look a node up by. `Ways` is the reference that results are compared with.

## 3. The runs

| Run | What it shows | Bounds, and why they are enough |
|---|---|---|
| `hook_dispatch` | detours balanced, guarded calls reach the body, the Lua state replaced alone, `run` current, the mode asked for served, the line of a `ConsoleInput` handler in the queue | a tick, a reset, one creating detour with a guarded and a plain API function, and the one detour that asks Lua three times; two handler or body calls per main loop call, so that a handler inside a call inside a handler occurs; one pending command |
| `hook_liveness` | resets, exits, completions and commands are served | tick, reset and packets, one handler call: what may delay these is a reset or a flag set again, which needs one |
| `network_events` | which functions return the event of their call | the two sound events, the explosion that may make them, and their API functions; three handler or body calls, so that events are made inside another's call and between; `numEvents` wraps at 3 |
| `bullet_hooks` | what Lua is given as a bullet is one | four tests, calls and key changes per main loop call: a test in a body called from a handler of a test, with two to spare |
| `data_tables` | whose data a slot's table may hold | two human slots (`humans.create` needs both) and one each of the kinds that clear late, early and not; two births, so that a slot is used again; two nested detours; one reset |
| `worker` | order and loss of messages, which waits a stop wakes, that the join returns | queues of two, four messages each way: the queue overflows twice |
| `point_graph` | what a search returns, on every graph of three nodes and three links with costs -1, 0, 1, and that a path is a shortest one on graphs of five nodes whose links cost the same | circles, double links and negative circles all occur; five nodes and links are the least where the order of expansion matters, up to renaming (`Canonical`). All nodes have one point: the search does not look at it |
| `gscore_comment` | violated: see [findings](#6-findings) | three nodes and links, of cost 1 or 3 |
| `console_editor` | indices in range, unlocked edits known, no deadlock of the locks | two lengths of line above empty, a history of two so that it drops a line, one worker |
| `child_process` | streams in step, loss only in known races, the pipes implement `Channel`, sends return | pipes of two cells; bodies that are empty, small, as large as the pipe, and larger; two messages each way |
| `descriptors` | nobody uses another's number, only constructors that throw leak, strays and wrong processes need a `terminate` or a reaped pid first, when connecting ends | three objects at a time of a server, two connections, a client, a watcher and two satellites, in six numbers and one pid: a number or pid that is freed is the next one given out, and two satellites may follow each other on it; three addresses, any of which work; descriptors run out before, while and after the first is tried |
| `file_watcher` | the map knows the live watches, when `receiveEvent` throws, and that a removed path is silent | two paths that name two inodes in turn, three watches, a queue of three of which a read takes two: links, replaced files, removals with events pending and overflows occur |

Deadlock is checked in all of them but `descriptors`, where objects are made once and the
server may be aborted; `Terminated`, `Joined` and `Returned` are the states
where the system has really stopped.

Some properties have exceptions written into them. They are what the code does, and the
hazards in `PROJECT.json` name the lines:

* `NoInheritedData`, `LiveDataKept`: `createItem` clears the table after `PostItemCreate`,
  so that handler sees the former item's data and what it stores is lost; a `Post...Delete`
  handler that puts a new entity into the slot loses that entity's data.
* `RemovedLeavesNoData`: `humans.create` for a player with a human deletes that human and
  does not clear its table.
* `ShortOnlyWhileWriting`: a receive between the two writes of a message loses its length,
  and the stream is out of step from then on; so it is when a signal ends a write in the
  middle of a body.
* `SendReturns`: if both processes write while both pipes are full they wait for each
  other for ever.
* `RacesAreKnown`: Enter, Delete and the answer of an autocompletion change the line while
  another thread's `log` may be redrawing it.
* `ReturnsTheCallsEvent`: `events.createSound` with an item removes the detour of the other
  sound event, so a handler runs inside the call, may veto it or make more events, and the
  function returns whichever is last; the explosion's body may make sounds of its own.
* `BulletsAreBullets`: lines that an API function tests during a simulation are taken for a
  bullet's, and Lua is given an address that is not one.
* `OnlyFailuresLeak`: a `TCPServer` whose `setsockopt`, `bind` or `listen` fails keeps its
  socket, and a `ChildProcess` whose `fcntl` fails keeps its second pipe.
* `StraysOnlyAfterTerminate`: `receiveMessage` of a terminated child reads whatever has its
  old number.
* `WrongProcessOnlyAfterPoll`: once `isRunning` has reaped a child, `terminate` kills and
  waits for whatever has its pid, or throws, also out of the destructor. Without that, only
  a SIGINT during its wait makes the destructor throw.
* `ConnectEnds`: the constructor's loop never comes back to the first address and never gets
  to the third. So it ends if the second works and descriptors are free from some time on; if
  only the first works they must be free just when it is tried; otherwise it goes on for ever.
  A single address is tried once.
* `MapMatchesKernel`: the entry of a watch that the kernel dropped stays for ever.
* `ThrowsOnlyForRemoved`: every removal leaves an event about which `receiveEvent` throws.
* `NoReportAfterRemoval`: a path that was added for two inodes has two entries, of which
  `removeWatch` removes one.
* `EndlessOnlyOnNegativeCosts`: a link of negative cost back to the start makes
  `reconstructPath` go round for ever.

## 4. Fairness

* `HookDispatch`: `WF(MainThread)`, the main thread is not descheduled for ever and
  handlers and bodies come to an end (`MaxCalls` bounds them); `SF(MainCall(Tick))`, the
  engine's main loop calls `logicSimulation` again and again, whatever else it calls. No
  fairness for the console thread or signals.
* `Worker`: both threads go on, and a timed wait comes to an end. The script sleeps or ends
  in the end; whether it then heeds is not assumed, and `JoinReturns` only speaks of
  scripts that do.
* `ConsoleEditor`: strong fairness for a thread that waits for a mutex which is free again
  and again. The C++ standard does not promise it, but these are held for moments and
  waiters are queued by the kernel. `ConsoleInput` handlers return, and the tick comes by
  the autocompletion again and again. No key needs to be pressed.
* `ChildProcess`: a write or read that was begun goes on, and the child's script receives
  again and again whenever it is free to. No fairness for the child's end or the server's
  receives.
* `Descriptors`: the constructor of a client that has begun to try addresses goes on;
  nothing else, neither Lua nor the system, is required to do anything. That descriptors are
  free, always or from some time on, is an assumption of `ConnectEnds`, part by part.
* `DataTables`, `PointGraph`, `NetworkEvents`, `BulletHooks` and `FileWatcher` have none. That
  a search ends is the action property `SearchProgresses`: every turn of its loops makes the
  visited nodes more, or else the links to follow fewer, or else the queue smaller.

## 5. What is proved

For every value of the constants that the named assumptions allow. TLC evaluates each
assumption on the tables of the runs, so the theorems are about values the runs have too.

**HookDispatch** (`HookDispatch_proofs`; assumptions `ConstantsOK`, `TickIsOutermost`).
`EveryStepMoves` shows that each step does one of a few things to the stack and the
detours: the top frame proceeds, pops, pushes, or proceeds and pushes, a detour calls its
body, an API function its target, or nothing changes (`StackMove`). The theorems then need
one case for each move and not for each of forty actions.

* `TypeCorrect` and `InputKeepsItsLine` from `Shape == TypeOK /\ FramesShaped /\
  InputHasLine`. `TypeOK` alone is not inductive: which places of the tick occur in which
  frames must be known, and that the line stays is needed to type the drain.
* `RunStaysCurrent` and `ModeIsServed` are inductive over `Shape`.
* `LuaInitIsAlone` needs `NothingBeforeBoot`: before the first `luaInit` no Lua is on the
  stack, and after it only the outermost frame, the tick's, starts another.
* `DetoursStayBalanced`: a frame holds a detour exactly while it is out of place, and no
  two hold the same.
* `GuardedCallsStayGuarded`: under a guarded call there is the engine's body, at any depth.

**NetworkEvents** (`HookDispatch_proofs`; also `EventsOK`, `EventCallsPlain`).
`CallsEventIsReturned` from `EventInv`: a call of such an API function is on top with its
event made and the last one, or right below its body, which can only append its event and
end (`BodyOnTop`). While the body waits to append, others may have made events: the body's
own is the last all the same. That the call reaches the body, not the detour, is the
argument of `GuardedCallsStayGuarded`; the moves of the stack are the same.

**DataTables** (`DataTables_proofs`; `DataTablesConstants`, `NoSlotIsNone`). `EveryStep`
shows that each step keeps the types and treats each slot in one of a few ways
(`GoodStep`); `TypeCorrect`, `TablesStayLive`, `NothingInherited` and `NothingRemains`
follow slot by slot. `LiveDataStays`, an action property, also needs `Numbered`: no
entity's number is above `births`, so that a slot that is filled changes its entity.

**Worker** (`Worker_proofs`; `WorkerConstants`). `NewestAreKept` and `TypeCorrect` from
`QueuesOK`: a queue is the interval of numbers up to the last one sent. `StopWakesWaits`
and `OneLateWaitAtMost` from `PlacesOK` (where one thread can be given where the other is)
and `AfterLateWait` (where a thread that heeds can be after its late wait).
`WorkerImplementsWindow` is the refinement, one queue at a time, from the same invariant:
each step of the worker is a `Put`, a `Take` or a stutter of its windows.

**Descriptors** (`Descriptors_proofs`; `DescriptorConstants`). The four invariants follow
from one, `IInv`: two holders in use never have the same number (`Owns`), so that a close
frees what is the closer's own; what is open is accounted for by an object that lives or
failed (`Accounted`), and a satellite that was not waited for by an object that knows its
pid (`SatellitesOwned`); before the first `isRunning` that reaps, every pid in an object is
its own (`PidsOwned`), and a destructor throws only if a signal ends its wait. None of the four is inductive alone: that nothing leaks needs that a
close finds its number still in place, and that no wrong process is killed needs that nothing
was reaped behind an object's back.

**FileWatcher** (`ScriptObjects_proofs`; `WatcherConstants`). `MapIsRight`, `ThrowsAreLate`
and `RemovedIsSilent` from an invariant over queue, map and kernel: no number is above
`added`, every queued event is of a watch that is in the map or was removed (`QueueKnown`),
and a path that was removed, or has two entries, has entries only if it was added while it
had one (`SilentDoubled`, `SecondDoubled`).

**PointGraph** (`ScriptObjects_proofs`; `GraphConstants`: costs are integers). The three
invariants follow from one, `GraphInv`, and `SearchesEnd` needs its types:

* `Reached`, `Closed`: what has a score was reached over a link from a visited node, and the
  links of visited nodes have been followed, except those in `todo`. An empty queue then
  means that the scored nodes include all that a way from the start leads to.
* `NothingNearer`: without negative costs no score is below the start's, so nothing is
  better than it and it gets no predecessor.
* `Rooted`: as long as it has none, every set of nodes has one that comes from outside the
  set. A node gets its only predecessor when it is found, and that one has been visited, so
  a new node is in no circle. If the start does have one, `reconstructPath` never ends.
* `Layered`: if all links cost c, no visited node has a score above that of one to be visited,
  nor any node one that is c above that.
* `Traced`: the path so far is one of predecessors from the goal back.

Then: a path that visited a node twice would be a circle of predecessors, so with `Rooted`
the trace cannot be longer than the graph has nodes (a pigeonhole argument,
`FS_Injection`), and with `Layered` no way is shorter than the path, because a step of a way
raises the score by c at most and a step of the path by just c. These last
arguments are inductions over the length of a way. The library's induction theorems cannot be
used here, as they take an operator; the lemma `Least` does their work: a set of numbers that
is not empty has a least member, from the well-foundedness of finite sets by inclusion.

**BulletHooks** (`BulletHooks_proofs`; `MaxOpsOK`). `BulletsTold` from `Sound`: a simulation
and a body of the main loop are only ever at the bottom of the stack and the flag is set
exactly while it is a simulation, so that it does not change while another frame is there,
and every test saw the same flag as the bottom frame.

**ConsoleEditor** (`ConsoleEditor_proofs`; `EditorConstants`). `CursorInLine` and
`RedrawsAreGuarded` from one invariant: which mutex each place of a thread holds (`Held`),
that what was tested before an edit still holds when it is made (`EditFits`), and that an
answer to an autocompletion, which rewrites line and cursor, is under way only while the
console thread waits for it (`Asked`). `TypeOK` is not inductive without the last two: the
unlocked edits are safe because nobody else changes the line, not because of a lock.

**ChildProcess** (`ChildProcess_proofs`; `ChildConstants`). The messages of one way are laid
out in a row: the length that was just read, the cells of the pipe, and the part that is
written next. As long as no receive came short and no write was cut each cell fixes those behind it (`InOrder`),
the row begins with the next message (`StartsNext`) and, unless a writer is at it or dead,
ends with a whole one (`EndsWhole`), and its lengths are exactly those of the messages on
the way (`NoneMissing`). Each step begins, puts, takes a length, takes a body, cuts, stops or
leaves the row (`WayMove`); a message cut before its length was written leaves nothing
behind (`CutsKeeps`). `NothingIsLost` and `ShortOnlyInARace` follow. The refinement
`PipesAreChannels` also speaks of a stream out of step, where the row says nothing; there it
is enough that lengths in the pipe rise and are newer than what was received
(`LengthsNewer`).

**Only model-checked:** the liveness properties, which are beyond the prover: `ResetServed`,
`ExitServed`, `CompletionServed`, `CommandsServed`, `JoinReturns`, `KeysHandled`,
`SendReturns`, `ConnectEnds`. Every invariant and action property of the passing runs, and
both refinements, are proved.

## 6. Findings

`gscore_comment`: the comments in `pointgraph.cpp` (100-101 and 150) say that `gScores[n]`
is the cost of the cheapest path to `n` currently known, and that a better path to a
neighbour is recorded. `insert` (151-152) does not replace what is there: the run has
two links from one node to another, of which the second is cheaper; the score is the first's. With
uniform costs the path is a shortest one all the same (`UniformIsShortest`).

## 7. What is not modelled

* SQLite, images and Opus: an open handle or none, and each operation tests it first.
* `events.hasReceivedEvent`: it compares an index with the counts of events that closed code
  keeps for each client and sets back at times this code does not show.
* `lineIntersectResult`, one global that a handler's own queries overwrite between the test
  of a line and the use of its result (`hooks.cpp:2010`), and all other arguments of hooks.
* Masks and names of file events, the contents of sockets, and the descriptors that a
  satellite inherits because none is closed on exec.
* Limits and priorities of child processes: system calls that keep nothing.
* The exception paths of sol2, which is not part of this repository: handlers run under a
  protected call, so a failing handler is one that returns nothing, but a conversion of its
  result can fail outside it (`hooks.cpp:460`).
* Garbage collection handlers that run while a Lua state is deleted.
* `structs.h`, `engine.cpp`: layout of the engine's memory. HTTP, crypto, compression:
  blocking calls without state. Crash reports and memory patches of the loader.

## 8. Plan

Done: `HookDispatch` with `HookTable` and `NetworkEvents`, `DataTables`, `BulletHooks`,
`Worker` with `SlidingWindow`, `ConsoleEditor`, `ChildProcess` with `Channel`, `Descriptors`,
`FileWatcher`, `PointGraph`; proofs of all of them.

Next, in this order:

1. An abstract table of detours that `HookDispatch` implements: a set of removed functions
   that grows with a call and shrinks with its return, last out first in.
2. The tables of accounts in `DataTables`.

The proofs at hand show the way to lay the others out: one lemma that puts every step into
a few shapes, or one step per action and part of the invariant, then the theorems.
