---------------------------- MODULE HookDispatch ----------------------------
(***************************************************************************)
(* The main thread of a server that runs with librosaserver.so preloaded.  *)
(*                                                                         *)
(* Every hooked engine function f has a detour Hooks::f (hooks.cpp) which  *)
(* runs Lua handlers around the original body, and Lua code reaches the    *)
(* same functions through the API (api.cpp).  Both call the original body  *)
(* under a subhook::ScopedHookRemove, which uninstalls a detour and puts   *)
(* it back only if this very object took it away.  The engine calls back   *)
(* into hooked functions and handlers call the API, so all of this nests.  *)
(*                                                                         *)
(* The module models the C++ call stack of that thread, the installed      *)
(* detours, the enable keys, the Lua state with its hook.run function, the *)
(* per-tick work of Hooks::logicSimulation (deferred Lua reset, exit,      *)
(* console commands, autocompletion) and the flags the other threads set.  *)
(***************************************************************************)
EXTENDS Integers, Sequences

CONSTANTS
  Fn,         \* engine functions with a detour
  Unhooked,   \* engine functions without one that the API calls
  Api,        \* Lua API functions that enter the engine
  Target,     \* the engine function an API function calls
  Guard,      \* the detour it removes around that call, or None
  Profile,    \* the shape of each detour, see HookTable
  Callees,    \* hooked functions an engine body may call (closed source)
  MainCalls,  \* hooked functions the engine's main loop calls itself
  Keys,       \* enable keys, Hooks::EnableKeys
  Modes,      \* arguments of flagStateForReset
  Commands,   \* console input lines; "resetlua" is the special one
  MaxCalls,   \* bound: operations of handlers and bodies per main loop call
  MaxQueue    \* bound: pending console commands

None  == "none"
Tick  == "logicSimulation"
Reset == "resetGame"

\* A detour's shape: the keys that enable it, whether it also tests something
\* else before it calls Lua, whether the handler can veto the body, whether a
\* second vetoing handler follows the body, and whether Post<key> is called.
ProfileType == [keys: SUBSET Keys, cond: BOOLEAN, veto: BOOLEAN,
                mid: BOOLEAN, post: {"no", "always", "ifid"}]

Engine == Fn \cup Unhooked

ASSUME ConstantsOK ==
  /\ {Tick, Reset} \subseteq Fn
  /\ None \notin Fn
  /\ Fn \cap Unhooked = {}
  /\ Target \in [Api -> Engine]
  /\ Guard \in [Api -> Fn \cup {None}]
  /\ Profile \in [Fn -> ProfileType]
  /\ Callees \in [Engine -> SUBSET Fn]
  /\ MainCalls \subseteq Fn
  /\ "" \in Modes
  /\ MaxCalls \in Nat
  /\ MaxQueue \in Nat \ {0}

\* logicSimulation is the engine's tick: its main loop alone calls it, and no
\* API function does.
ASSUME TickIsOutermost ==
  /\ \A f \in Engine : Tick \notin Callees[f]
  /\ \A a \in Api : Target[a] # Tick

VARIABLES
  initialized,     \* the first Hooks::resetGame has begun
  installed,       \* detours in place
  enabled,         \* Hooks::enabledKeys
  lua,             \* identity of the Lua state: 0 none, then 1 and 2 in turn
  run,             \* the state Hooks::run belongs to, 0 when it is nil
  hookMode,        \* argument of the last flagStateForReset
  persistentMode,  \* hook.persistentMode of the current Lua state
  shouldReset, shouldExit, exited,
  queue,           \* Console::commandQueue
  awaiting,        \* the console thread waits for an autocompletion
  stack,           \* C++ frames of the main thread, outermost first
  calls            \* operations since the main loop's last call

luaVars     == <<lua, run, enabled, persistentMode>>
flagVars    == <<hookMode, shouldReset>>
consoleVars == <<queue, awaiting>>
vars == <<initialized, installed, luaVars, flagVars, consoleVars,
          shouldExit, exited, stack, calls>>

-----------------------------------------------------------------------------
(* Frames.  kind: a detour (or hookAndReset), an engine body, or an API     *)
(* function; at: where it is; live: the detour took its enabled branch;     *)
(* holds: the detour its ScopedHookRemove has to put back.                  *)

\* Places where Lua code is running or suspended.
LuaAt == {"init", "pre", "mid", "post", "interrupt", "input", "complete"}

Places == LuaAt \cup {"enter", "resetting", "check", "dispatch", "call",
                      "drain", "autocomplete", "body"}

FrameType == [kind: {"hook", "body", "api"}, fn: Engine \cup Api, at: Places,
              live: BOOLEAN, holds: Fn \cup {None}]

Frame(kind, f, at) ==
  [kind |-> kind, fn |-> f, at |-> at, live |-> FALSE, holds |-> None]

\* hookAndReset(reason): its body has the shape of a detour of resetGame.
HookAndReset == Frame("hook", Reset, "dispatch")

\* What runs when f's address is called while the detours in hooks are in place.
Entry(f, hooks) ==
  IF f \in Fn /\ hooks[f]
  THEN Frame("hook", f, IF f \in {Tick, Reset} THEN "enter" ELSE "dispatch")
  ELSE Frame("body", f, "body")

Top     == stack[Len(stack)]
Lower   == SubSeq(stack, 1, Len(stack) - 1)
WithTop(frame) == Append(Lower, frame)
Running == stack # <<>> /\ ~exited
At(place)   == Running /\ Top.at = place
InLua       == Running /\ Top.at \in LuaAt
Goto(place) == stack' = WithTop([Top EXCEPT !.at = place])

\* Faulty variants (here and below) are not part of Next: each is put in place
\* of the definition after it to see the properties fail.

\* Faulty: the destructor reinstalls even what an outer frame took away.
CallEngineHoldsAlways(lower, frame, f, h) ==
  LET hooks  == [g \in Fn |-> installed[g] /\ g # h]
      holder == [frame EXCEPT !.at = "call", !.holds = h]
  IN  /\ installed' = hooks
      /\ stack' = Append(Append(lower, holder), Entry(f, hooks))

\* Faulty: the body is called before the detour is removed.
CallEngineTooEarly(lower, frame, f, h) ==
  LET holder == [frame EXCEPT !.at = "call",
                   !.holds = IF h # None /\ installed[h] THEN h ELSE None]
  IN  /\ installed' = [g \in Fn |-> installed[g] /\ g # h]
      /\ stack' = Append(Append(lower, holder), Entry(f, installed))

\* Engine::f called by frame, above the frames in lower, under a
\* ScopedHookRemove of detour h.
CallEngine(lower, frame, f, h) ==
  LET hooks  == [g \in Fn |-> installed[g] /\ g # h]
      holder == [frame EXCEPT !.at = "call",
                   !.holds = IF h # None /\ installed[h] THEN h ELSE None]
  IN  /\ installed' = hooks
      /\ stack' = Append(Append(lower, holder), Entry(f, hooks))

\* The destructor of that ScopedHookRemove.
Reinstall == installed' = [g \in Fn |-> installed[g] \/ g = Top.holds]

\* The end of a detour: logicSimulation goes on with the console.
Finish(frame) == stack' = IF frame.fn = Tick
                          THEN WithTop([frame EXCEPT !.at = "drain", !.holds = None])
                          ELSE Lower

Spend == calls < MaxCalls /\ calls' = calls + 1

-----------------------------------------------------------------------------
Init ==
  /\ initialized = FALSE
  /\ installed = [f \in Fn |-> TRUE]
  /\ enabled = {}
  /\ lua = 0 /\ run = 0
  /\ hookMode = "" /\ persistentMode = ""
  /\ shouldReset = FALSE /\ shouldExit = FALSE /\ exited = FALSE
  /\ queue = <<>> /\ awaiting = FALSE
  /\ stack = <<>>
  /\ calls = 0

\* The engine's main loop calls a hooked function.
MainCall(f) ==
  /\ stack = <<>> /\ ~exited
  /\ stack' = <<Entry(f, installed)>>
  /\ calls' = 0
  /\ UNCHANGED <<initialized, installed, luaVars, flagVars, consoleVars,
                 shouldExit, exited>>

\* Faulty: Hooks::run is not dropped.
BeginLuaInitKeepsRun ==
  /\ lua' = IF lua = 1 THEN 2 ELSE 1
  /\ enabled' = {}
  /\ persistentMode' = hookMode
  /\ Goto("init")
  /\ UNCHANGED run

\* luaInit up to the call of main/init.lua: hook.run is dropped, the old state
\* and every data table are deleted, a new state is filled, the keys cleared.
BeginLuaInit ==
  /\ run' = 0
  /\ lua' = IF lua = 1 THEN 2 ELSE 1
  /\ enabled' = {}
  /\ persistentMode' = hookMode
  /\ Goto("init")

\* The end of luaInit: hook.run is taken over only if the file loaded and ran.
EndLuaInit ==
  /\ run' \in {0, lua}
  /\ UNCHANGED <<lua, enabled, persistentMode>>

\* Hooks::resetGame: the first call boots Lua, later ones just run the hook.
ResetGameBoot ==
  /\ At("enter") /\ Top.fn = Reset
  /\ ~initialized
  /\ initialized' = TRUE
  /\ BeginLuaInit
  /\ UNCHANGED <<installed, flagVars, consoleVars, shouldExit, exited, calls>>

ResetGameAgain ==
  /\ At("enter") /\ Top.fn = Reset
  /\ initialized
  /\ Goto("dispatch")
  /\ UNCHANGED <<initialized, installed, luaVars, flagVars, consoleVars,
                 shouldExit, exited, calls>>

\* The first luaInit ends; the console starts and -c commands are queued.
ResetGameBooted ==
  /\ At("init") /\ Top.fn = Reset
  /\ EndLuaInit
  /\ \E c \in {<<>>} \cup {<<d>> : d \in Commands} : queue' = queue \o c
  /\ Goto("dispatch")
  /\ UNCHANGED <<initialized, installed, flagVars, awaiting, shouldExit,
                 exited, calls>>

\* Faulty: the flag is left set.
TickResetKeepsFlag ==
  /\ At("enter") /\ Top.fn = Tick
  /\ shouldReset
  /\ BeginLuaInit
  /\ UNCHANGED <<initialized, installed, flagVars, consoleVars, shouldExit,
                 exited, calls>>

\* Hooks::logicSimulation: a flagged reset comes before anything else.
TickReset ==
  /\ At("enter") /\ Top.fn = Tick
  /\ shouldReset
  /\ shouldReset' = FALSE
  /\ BeginLuaInit
  /\ UNCHANGED <<initialized, installed, hookMode, consoleVars, shouldExit,
                 exited, calls>>

\* Faulty: the flag is cleared after main/init.lua instead of before it.
TickResetDoneClears ==
  /\ At("init") /\ Top.fn = Tick
  /\ EndLuaInit
  /\ shouldReset' = FALSE
  /\ stack' = Append(WithTop([Top EXCEPT !.at = "resetting"]), HookAndReset)
  /\ UNCHANGED <<initialized, installed, hookMode, consoleVars, shouldExit,
                 exited, calls>>

TickResetDone ==
  /\ At("init") /\ Top.fn = Tick
  /\ EndLuaInit
  /\ stack' = Append(WithTop([Top EXCEPT !.at = "resetting"]), HookAndReset)
  /\ UNCHANGED <<initialized, installed, flagVars, consoleVars, shouldExit,
                 exited, calls>>

TickNoReset ==
  /\ \/ At("enter") /\ Top.fn = Tick /\ ~shouldReset
     \/ At("resetting")
  /\ Goto("check")
  /\ UNCHANGED <<initialized, installed, luaVars, flagVars, consoleVars,
                 shouldExit, exited, calls>>

\* Faulty: without an InterruptSignal handler the tick just goes on.
TickInterruptedNeedsHandler ==
  /\ At("check") /\ shouldExit
  /\ Goto(IF "InterruptSignal" \in enabled /\ run # 0 THEN "interrupt" ELSE "dispatch")
  /\ UNCHANGED <<initialized, installed, luaVars, flagVars, consoleVars,
                 shouldExit, exited, calls>>

\* The exit check: InterruptSignal gets a last word, then the process exits.
TickInterrupted ==
  /\ At("check") /\ shouldExit
  /\ IF "InterruptSignal" \in enabled /\ run # 0
     THEN Goto("interrupt") /\ UNCHANGED exited
     ELSE exited' = TRUE /\ UNCHANGED stack
  /\ UNCHANGED <<initialized, installed, luaVars, flagVars, consoleVars,
                 shouldExit, calls>>

TickGoesOn ==
  /\ At("check") /\ ~shouldExit
  /\ Goto("dispatch")
  /\ UNCHANGED <<initialized, installed, luaVars, flagVars, consoleVars,
                 shouldExit, exited, calls>>

\* The head of every detour: Lua is asked first if a key is enabled and there
\* is a hook.run; otherwise the body is called.
Dispatch ==
  /\ At("dispatch")
  /\ \E live \in {Profile[Top.fn].keys \cap enabled # {}}
                   \cup (IF Profile[Top.fn].cond THEN {FALSE} ELSE {}) :
       LET frame == [Top EXCEPT !.live = live]
       IN  IF live /\ run # 0
           THEN /\ stack' = WithTop([frame EXCEPT !.at = "pre"])
                /\ UNCHANGED installed
           ELSE CallEngine(Lower, frame, Top.fn, Top.fn)
  /\ UNCHANGED <<initialized, luaVars, flagVars, consoleVars, shouldExit,
                 exited, calls>>

\* A body called under ScopedHookRemove has returned to its detour.
BodyReturned ==
  /\ At("call") /\ Top.kind = "hook"
  /\ Reinstall
  /\ LET frame == [Top EXCEPT !.holds = None]
         p     == Profile[Top.fn]
     IN  IF Top.live /\ run # 0 /\ p.post # "no"
         THEN \/ stack' = WithTop([frame EXCEPT !.at = IF p.mid THEN "mid" ELSE "post"])
              \/ p.post = "ifid" /\ Finish(frame)
         ELSE Finish(frame)
  /\ UNCHANGED <<initialized, luaVars, flagVars, consoleVars, shouldExit,
                 exited, calls>>

\* An API function returns to Lua.
ApiReturned ==
  /\ At("call") /\ Top.kind = "api"
  /\ Reinstall
  /\ stack' = Lower
  /\ UNCHANGED <<initialized, luaVars, flagVars, consoleVars, shouldExit,
                 exited, calls>>

\* hook.run returns from the handler before the body: TRUE vetoes it; an error
\* is printed and counts as FALSE.
PreReturns(result) ==
  /\ At("pre")
  /\ IF result /\ Profile[Top.fn].veto
     THEN Finish(Top) /\ UNCHANGED installed
     ELSE CallEngine(Lower, Top, Top.fn, Top.fn)
  /\ UNCHANGED <<initialized, luaVars, flagVars, consoleVars, shouldExit,
                 exited, calls>>

\* ... from AccountTicketFound, which can veto the Post handler ...
MidReturns(result) ==
  /\ At("mid")
  /\ IF result THEN Finish(Top) ELSE Goto("post")
  /\ UNCHANGED <<initialized, installed, luaVars, flagVars, consoleVars,
                 shouldExit, exited, calls>>

\* ... and from Post<key>.
PostReturns ==
  /\ At("post")
  /\ Finish(Top)
  /\ UNCHANGED <<initialized, installed, luaVars, flagVars, consoleVars,
                 shouldExit, exited, calls>>

\* os.exit, after InterruptSignal or called by any Lua code: the stack is not
\* unwound.
LuaExits ==
  /\ InLua
  /\ exited' = TRUE
  /\ UNCHANGED <<initialized, installed, luaVars, flagVars, consoleVars,
                 shouldExit, stack, calls>>

\* Faulty: a line is removed before its handler runs.
DrainCommandPopsFirst ==
  /\ At("drain") /\ queue # <<>>
  /\ queue' = Tail(queue)
  /\ IF Head(queue) # "resetlua" /\ "ConsoleInput" \in enabled /\ run # 0
     THEN Goto("input") /\ UNCHANGED flagVars
     ELSE /\ UNCHANGED stack
          /\ IF Head(queue) = "resetlua"
             THEN hookMode' = "" /\ shouldReset' = TRUE
             ELSE UNCHANGED flagVars
  /\ UNCHANGED <<initialized, installed, luaVars, awaiting, shouldExit,
                 exited, calls>>

\* Faulty: resetlua is carried out but not removed.
DrainCommandKeepsReset ==
  /\ At("drain") /\ queue # <<>>
  /\ IF Head(queue) = "resetlua"
     THEN hookMode' = "" /\ shouldReset' = TRUE /\ UNCHANGED queue
     ELSE queue' = Tail(queue) /\ UNCHANGED flagVars
  /\ UNCHANGED <<initialized, installed, luaVars, awaiting, shouldExit,
                 exited, stack, calls>>

\* logicSimulation empties the command queue under commandQueueMutex, calling
\* ConsoleInput for every line but resetlua.
DrainCommand ==
  /\ At("drain") /\ queue # <<>>
  /\ IF Head(queue) # "resetlua" /\ "ConsoleInput" \in enabled /\ run # 0
     THEN Goto("input") /\ UNCHANGED <<queue, flagVars>>
     ELSE /\ queue' = Tail(queue)
          /\ UNCHANGED stack
          /\ IF Head(queue) = "resetlua"
             THEN hookMode' = "" /\ shouldReset' = TRUE
             ELSE UNCHANGED flagVars
  /\ UNCHANGED <<initialized, installed, luaVars, awaiting, shouldExit,
                 exited, calls>>

InputReturns ==
  /\ At("input")
  /\ queue' = Tail(queue)
  /\ Goto("drain")
  /\ UNCHANGED <<initialized, installed, luaVars, flagVars, awaiting,
                 shouldExit, exited, calls>>

Drained ==
  /\ At("drain") /\ queue = <<>>
  /\ Goto("autocomplete")
  /\ UNCHANGED <<initialized, installed, luaVars, flagVars, consoleVars,
                 shouldExit, exited, calls>>

\* Faulty: only the handler's response is sent back.
AutoCompleteOnlyLua ==
  /\ At("autocomplete")
  /\ IF awaiting /\ "ConsoleAutoComplete" \in enabled /\ run # 0
     THEN Goto("complete")
     ELSE stack' = Lower
  /\ UNCHANGED <<initialized, installed, luaVars, flagVars, consoleVars,
                 shouldExit, exited, calls>>

\* The autocompletion the console thread waits for, if any.
AutoComplete ==
  /\ At("autocomplete")
  /\ IF awaiting /\ "ConsoleAutoComplete" \in enabled /\ run # 0
     THEN Goto("complete") /\ UNCHANGED awaiting
     ELSE stack' = Lower /\ awaiting' = FALSE
  /\ UNCHANGED <<initialized, installed, luaVars, flagVars, queue, shouldExit,
                 exited, calls>>

CompleteReturns ==
  /\ At("complete")
  /\ awaiting' = FALSE
  /\ stack' = Lower
  /\ UNCHANGED <<initialized, installed, luaVars, flagVars, queue, shouldExit,
                 exited, calls>>

-----------------------------------------------------------------------------
(* What Lua code does while it runs.                                        *)

LuaCallsApi(a) ==
  /\ InLua /\ Spend
  /\ CallEngine(stack, Frame("api", a, "call"), Target[a], Guard[a])
  /\ UNCHANGED <<initialized, luaVars, flagVars, consoleVars, shouldExit, exited>>

\* server:reset() is hookAndReset(RESET_REASON_LUACALL).
LuaServerReset ==
  /\ InLua /\ Spend
  /\ stack' = Append(stack, HookAndReset)
  /\ UNCHANGED <<initialized, installed, luaVars, flagVars, consoleVars,
                 shouldExit, exited>>

LuaSetsKeys(keys) ==
  /\ InLua /\ Spend
  /\ enabled' = keys
  /\ UNCHANGED <<initialized, installed, lua, run, persistentMode, flagVars,
                 consoleVars, shouldExit, exited, stack>>

\* hook.enable, hook.disable and hook.clear.
LuaEnable(k)  == k \notin enabled /\ LuaSetsKeys(enabled \cup {k})
LuaDisable(k) == k \in enabled /\ LuaSetsKeys(enabled \ {k})
LuaClear      == enabled # {} /\ LuaSetsKeys({})

\* Faulty: the Lua state is replaced on the spot.
LuaFlagsResetNow(mode) ==
  /\ InLua /\ Spend
  /\ hookMode' = mode
  /\ run' = 0
  /\ lua' = IF lua = 1 THEN 2 ELSE 1
  /\ enabled' = {}
  /\ persistentMode' = mode
  /\ stack' = Append(stack, Frame("hook", Tick, "init"))
  /\ UNCHANGED <<initialized, installed, shouldReset, consoleVars, shouldExit,
                 exited>>

\* flagStateForReset(mode) only leaves a note for the next tick.
LuaFlagsReset(mode) ==
  /\ InLua /\ Spend
  /\ hookMode' = mode
  /\ shouldReset' = TRUE
  /\ UNCHANGED <<initialized, installed, luaVars, consoleVars, shouldExit,
                 exited, stack>>

(* What engine bodies do: call hooked functions and return.                 *)

BodyCalls(f) ==
  /\ At("body") /\ f \in Callees[Top.fn]
  /\ Spend
  /\ stack' = Append(stack, Entry(f, installed))
  /\ UNCHANGED <<initialized, installed, luaVars, flagVars, consoleVars,
                 shouldExit, exited>>

BodyReturns ==
  /\ At("body")
  /\ stack' = Lower
  /\ UNCHANGED <<initialized, installed, luaVars, flagVars, consoleVars,
                 shouldExit, exited, calls>>

(* What the console thread and the SIGINT handler do meanwhile.             *)

\* Console::init has run: it follows the first luaInit.
ConsoleUp == /\ lua # 0
             /\ \A i \in DOMAIN stack : ~(stack[i].at = "init" /\ stack[i].fn = Reset)

\* pushCommand waits for commandQueueMutex, which the drain loop holds.
ConsoleCommand(c) ==
  /\ ConsoleUp /\ ~exited
  /\ Len(queue) < MaxQueue
  /\ \A i \in DOMAIN stack : stack[i].at \notin {"drain", "input"}
  /\ queue' = Append(queue, c)
  /\ UNCHANGED <<initialized, installed, luaVars, flagVars, awaiting,
                 shouldExit, exited, stack, calls>>

ConsoleTab ==
  /\ ConsoleUp /\ ~exited /\ ~awaiting
  /\ awaiting' = TRUE
  /\ UNCHANGED <<initialized, installed, luaVars, flagVars, queue, shouldExit,
                 exited, stack, calls>>

Interrupt ==
  /\ ~shouldExit /\ ~exited
  /\ shouldExit' = TRUE
  /\ UNCHANGED <<initialized, installed, luaVars, flagVars, consoleVars,
                 exited, stack, calls>>

-----------------------------------------------------------------------------
LuaStep ==
  \/ \E a \in Api : LuaCallsApi(a)
  \/ LuaServerReset
  \/ \E k \in Keys : LuaEnable(k) \/ LuaDisable(k)
  \/ LuaClear
  \/ \E m \in Modes : LuaFlagsReset(m)
  \/ LuaExits

EngineStep ==
  \/ \E f \in Fn : BodyCalls(f)
  \/ BodyReturns

DetourStep ==
  \/ ResetGameBoot \/ ResetGameAgain \/ ResetGameBooted
  \/ TickReset \/ TickResetDone \/ TickNoReset
  \/ TickInterrupted \/ TickGoesOn
  \/ Dispatch \/ BodyReturned \/ ApiReturned
  \/ \E result \in BOOLEAN : PreReturns(result) \/ MidReturns(result)
  \/ PostReturns
  \/ DrainCommand \/ InputReturns \/ Drained
  \/ AutoComplete \/ CompleteReturns

MainThread == DetourStep \/ LuaStep \/ EngineStep

\* The process has exited.
Terminated == exited /\ UNCHANGED vars

Next ==
  \/ \E f \in MainCalls : MainCall(f)
  \/ MainThread
  \/ \E c \in Commands : ConsoleCommand(c)
  \/ ConsoleTab
  \/ Interrupt
  \/ Terminated

Spec == Init /\ [][Next]_vars

\* The main thread is never descheduled for ever, handlers and bodies end
\* (MaxCalls), and the main loop keeps calling logicSimulation.
FairSpec == Spec /\ WF_vars(MainThread) /\ SF_vars(MainCall(Tick))

-----------------------------------------------------------------------------
(* Properties.                                                              *)

TypeOK ==
  /\ initialized \in BOOLEAN
  /\ installed \in [Fn -> BOOLEAN]
  /\ enabled \subseteq Keys
  /\ lua \in 0..2 /\ run \in 0..2
  /\ hookMode \in Modes /\ persistentMode \in Modes
  /\ shouldReset \in BOOLEAN /\ shouldExit \in BOOLEAN /\ exited \in BOOLEAN
  /\ queue \in Seq(Commands) /\ awaiting \in BOOLEAN
  /\ stack \in Seq(FrameType)
  /\ calls \in Nat

\* A detour is out of place exactly while one frame has to put it back, however
\* calls nest: no detour is lost, none is put back under a body that still runs.
DetoursBalanced ==
  /\ \A f \in Fn : ~installed[f] => \E i \in DOMAIN stack : stack[i].holds = f
  /\ \A i \in DOMAIN stack : stack[i].holds # None => ~installed[stack[i].holds]
  /\ \A i, j \in DOMAIN stack :
       stack[i].holds # None /\ stack[i].holds = stack[j].holds => i = j

\* The frame at i called the engine under a ScopedHookRemove of the very
\* function it calls.
CallsGuarded(i) ==
  /\ stack[i].at = "call"
  /\ \/ stack[i].kind = "hook"
     \/ stack[i].kind = "api" /\ Target[stack[i].fn] = Guard[stack[i].fn]

\* Such a call reaches the engine's own body: a detour never enters itself, and
\* what Lua does through a guarded API function is not reported back to Lua.
GuardedCallsReachBody ==
  \A i \in 1..(Len(stack) - 1) : CallsGuarded(i) => stack[i + 1].kind = "body"

\* While main/init.lua runs in luaInit no other Lua code is running or suspended
\* on the stack (so the old state was deleted with none of its code active),
\* and no hook.run is in force.
LuaInitAlone ==
  \A i \in DOMAIN stack : stack[i].at = "init" =>
    /\ run = 0
    /\ \A j \in DOMAIN stack : j # i => stack[j].at \notin LuaAt

(* The parts of the inductive invariant that no handler could observe.      *)

\* Which frames are where: only calls hold detours, logicSimulation is the
\* outermost frame, and the places of its own are only in its frame.
TickPlaces == {"resetting", "check", "interrupt", "drain", "input",
               "autocomplete", "complete"}

FrameShaped(frame, depth) ==
  /\ frame.holds # None => frame.at = "call"
  /\ frame.kind = "api" => frame.fn \in Api /\ frame.at = "call"
  /\ frame.kind = "body" <=> frame.at = "body"
  /\ frame.kind = "body" => frame.fn \in Engine
  /\ frame.kind = "hook" => frame.fn \in Fn
  /\ frame.kind = "hook" /\ frame.fn = Tick => depth = 1
  /\ frame.at \in TickPlaces => frame.fn = Tick
  /\ frame.at \in {"enter", "init"} => frame.fn \in {Tick, Reset}

FramesShaped == \A i \in DOMAIN stack : FrameShaped(stack[i], i)

\* Before the first luaInit there is nothing of Lua's.
NothingBeforeBoot ==
  /\ initialized <=> lua # 0
  /\ ~initialized => /\ run = 0 /\ ~shouldReset /\ queue = <<>>
                     /\ \A i \in DOMAIN stack : stack[i].at \notin LuaAt

\* hook.run is nil or belongs to the Lua state that is alive, even when the
\* file of the new state failed to load.
RunIsCurrent == run \in {0, lua}

\* Unless a reset is still due, the Lua state was started in the mode asked for
\* last: no request made at any time, by main/init.lua too, is lost.
ModeServed == shouldReset \/ persistentMode = hookMode

\* A ConsoleInput handler is called for a line of the queue that is not yet
\* removed and is not resetlua.
InputHasLine ==
  \A i \in DOMAIN stack : stack[i].at = "input" =>
    queue # <<>> /\ Head(queue) # "resetlua"

\* A flagged reset is carried out unless the process exits.
ResetServed == shouldReset ~> ~shouldReset \/ exited

\* SIGINT ends the process, whatever the handlers do.
ExitServed == shouldExit ~> exited

\* The console thread does not wait for ever for its autocompletion.
CompletionServed == awaiting ~> ~awaiting \/ exited

\* Commands typed on the console are taken by some tick.
CommandsServed == queue # <<>> ~> queue = <<>> \/ exited

=============================================================================
