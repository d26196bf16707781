------------------------- MODULE HookDispatch_proofs -------------------------
(***************************************************************************)
(* What HookDispatch guarantees for every set of hooked functions, API     *)
(* table, engine call graph and bound.  Every step does one of six things  *)
(* to the stack and the detours (StackMove); the invariants about them are *)
(* proved once per kind of move instead of once per action.  The last part *)
(* does the same for the events that NetworkEvents adds to these calls.    *)
(***************************************************************************)
EXTENDS NetworkEvents, SequenceTheorems, TLAPS

(* The stack.                                                               *)

\* After the top frame is gone the others are where they were.
LEMMA FrontFacts ==
  ASSUME NEW S, NEW s \in Seq(S), s # <<>>
  PROVE  /\ SubSeq(s, 1, Len(s) - 1) \in Seq(S)
         /\ Len(SubSeq(s, 1, Len(s) - 1)) = Len(s) - 1
         /\ \A i \in 1..(Len(s) - 1) : SubSeq(s, 1, Len(s) - 1)[i] = s[i]
  <1> DEFINE n == Len(s) - 1
             t == SubSeq(s, 1, n)
  <1>1. Len(s) \in Nat \ {0} /\ \A i \in 1..Len(s) : s[i] \in S
    BY EmptySeq, LenProperties
  <1>2. n \in Nat /\ 1 \in Int /\ n \in Int /\ \A i \in 1..n : s[i] \in S
    BY <1>1
  <1> HIDE DEF n
  <1>3. /\ t \in Seq(S)
        /\ Len(t) = IF 1 <= n THEN n - 1 + 1 ELSE 0
        /\ \A i \in 1..(n - 1 + 1) : t[i] = s[1 + i - 1]
    BY <1>2, SubSeqProperties
  <1>4. Len(t) = n
    BY <1>2, <1>3
  <1>5. ASSUME NEW i \in 1..n
        PROVE  t[i] = s[i]
    <2>1. i \in 1..(n - 1 + 1) /\ 1 + i - 1 = i
      BY <1>2
    <2> QED
      BY <2>1, <1>3
  <1> QED
    BY <1>3, <1>4, <1>5 DEF n

LEMMA LowerFacts ==
  ASSUME stack \in Seq(FrameType), stack # <<>>
  PROVE  /\ Lower \in Seq(FrameType)
         /\ Len(Lower) = Len(stack) - 1
         /\ \A i \in 1..(Len(stack) - 1) : Lower[i] = stack[i]
         /\ Len(stack) \in Nat \ {0}
         /\ Top \in FrameType
  <1>1. Len(stack) \in Nat \ {0} /\ Top \in FrameType
    BY EmptySeq, LenProperties DEF Top
  <1> QED
    BY <1>1, FrontFacts DEF Lower

LEMMA WithTopFacts ==
  ASSUME stack \in Seq(FrameType), stack # <<>>, NEW frame \in FrameType
  PROVE  /\ WithTop(frame) \in Seq(FrameType)
         /\ Len(WithTop(frame)) = Len(stack)
         /\ WithTop(frame)[Len(stack)] = frame
         /\ \A i \in 1..(Len(stack) - 1) : WithTop(frame)[i] = stack[i]
  BY LowerFacts DEF WithTop

LEMMA FrameTyped ==
  ASSUME NEW kind \in {"hook", "body", "api"}, NEW f \in Engine \cup Api,
         NEW place \in Places
  PROVE  Frame(kind, f, place) \in FrameType
  BY DEF Frame, FrameType

LEMMA EntryTyped ==
  ASSUME NEW f \in Engine, NEW hooks
  PROVE  Entry(f, hooks) \in FrameType
  BY FrameTyped DEF Entry, Places

LEMMA HookAndResetTyped == HookAndReset \in FrameType
  BY ConstantsOK, FrameTyped DEF HookAndReset, Places, Engine

LEMMA AtTyped ==
  ASSUME NEW frame \in FrameType, NEW place \in Places
  PROVE  [frame EXCEPT !.at = place] \in FrameType
  BY DEF FrameType

\* The stack and the detours after a call of f that is made above the frames in
\* lower and removes detour h.
LEMMA CallEngineFacts ==
  ASSUME TypeOK, NEW lower \in Seq(FrameType), NEW frame \in FrameType,
         NEW f \in Engine, NEW h \in Fn \cup {None}, CallEngine(lower, frame, f, h),
         NEW n \in Nat, n = Len(lower)
  PROVE  /\ stack' \in Seq(FrameType) /\ Len(stack') = n + 2
         /\ \A i \in 1..n : stack'[i] = lower[i]
         /\ stack'[n + 1].kind = frame.kind /\ stack'[n + 1].fn = frame.fn
         /\ stack'[n + 1].at = "call"
         /\ stack'[n + 1].holds = IF h # None /\ installed[h] THEN h ELSE None
         /\ stack'[n + 2] = Entry(f, installed')
         /\ installed' \in [Fn -> BOOLEAN]
         /\ \A g \in Fn : installed'[g] <=> installed[g] /\ g # h
  <1> DEFINE hooks  == [g \in Fn |-> installed[g] /\ g # h]
             holder == [frame EXCEPT !.at = "call",
                          !.holds = IF h # None /\ installed[h] THEN h ELSE None]
  <1>1. hooks \in [Fn -> BOOLEAN]
    BY DEF TypeOK
  <1>2. /\ holder \in FrameType /\ holder.kind = frame.kind /\ holder.fn = frame.fn
        /\ holder.at = "call"
        /\ holder.holds = IF h # None /\ installed[h] THEN h ELSE None
    BY DEF FrameType, Places
  <1>3. Entry(f, hooks) \in FrameType
    BY EntryTyped
  <1>4. installed' = hooks /\ stack' = Append(Append(lower, holder), Entry(f, hooks))
    BY DEF CallEngine
  <1>5. installed' \in [Fn -> BOOLEAN] /\ \A g \in Fn : installed'[g] <=> installed[g] /\ g # h
    BY <1>1, <1>4
  <1> HIDE DEF hooks, holder
  <1> DEFINE called == Append(lower, holder)
  <1>6. /\ called \in Seq(FrameType) /\ Len(called) = n + 1
        /\ called[n + 1] = holder /\ \A i \in 1..n : called[i] = lower[i]
    BY <1>2, AppendProperties
  <1> HIDE DEF called
  <1>7. /\ stack' \in Seq(FrameType) /\ Len(stack') = n + 2
        /\ stack'[n + 2] = Entry(f, hooks)
        /\ \A i \in 1..(n + 1) : stack'[i] = called[i]
    BY <1>3, <1>4, <1>6, AppendProperties DEF called
  <1> QED
    BY <1>2, <1>4, <1>5, <1>6, <1>7

-----------------------------------------------------------------------------
(* The six moves.                                                           *)

\* When Lua code can come to run at a place: only with a hook.run, but for
\* main/init.lua, which a tick alone on the stack or the first reset starts.
Reached(place) ==
  /\ place \in LuaAt \ {"init"} => run # 0 \/ (stack # <<>> /\ Top.at = "mid")
  /\ place = "init" => /\ run' = 0
                       /\ stack # <<>> /\ Top.at = "enter"
                       /\ Len(stack) = 1 \/ ~initialized
                       /\ initialized' \/ shouldReset
  /\ place = "input" => queue # <<>> /\ Head(queue) # "resetlua" /\ queue' = queue

\* A frame that is not a call, and so holds no detour.
IsNew(frame, depth) ==
  /\ frame \in FrameType
  /\ frame.holds = None /\ frame.at # "call"
  /\ FrameShaped(frame, depth)
  /\ Reached(frame.at)

\* The frame on top is a detour that goes on, at a place that is not a call.
Proceeds ==
  /\ stack # <<>> /\ Top.kind = "hook"
  /\ Reinstall
  /\ \E frame : /\ IsNew(frame, Len(stack)) /\ frame.kind = "hook"
               /\ stack' = WithTop(frame)

Pops == stack # <<>> /\ Reinstall /\ stack' = Lower

\* An unguarded call: a fresh frame on top of one that is not a guarded call.
Pushes ==
  /\ UNCHANGED installed
  /\ stack # <<>> => Top.at # "call"
  /\ \E frame : IsNew(frame, Len(stack) + 1) /\ stack' = Append(stack, frame)

ProceedsAndPushes ==
  /\ stack # <<>> /\ Top.kind = "hook" /\ Top.holds = None
  /\ UNCHANGED installed
  /\ \E lower, frame :
       /\ IsNew(lower, Len(stack)) /\ lower.kind = "hook"
       /\ IsNew(frame, Len(stack) + 1)
       /\ lower.at \notin LuaAt /\ frame.at \notin LuaAt
       /\ stack' = Append(WithTop(lower), frame)

\* A detour calls its body, an API function its target.
DetourCalls ==
  /\ stack # <<>> /\ Top.kind = "hook" /\ Top.fn \in Fn /\ Top.holds = None
  /\ \E frame \in FrameType :
       /\ frame.kind = "hook" /\ frame.fn = Top.fn
       /\ CallEngine(Lower, frame, Top.fn, Top.fn)

ApiCalls ==
  /\ stack # <<>> /\ Top.at # "call"
  /\ \E a \in Api : CallEngine(stack, Frame("api", a, "call"), Target[a], Guard[a])

StackMove == \/ Proceeds \/ Pops \/ Pushes \/ ProceedsAndPushes
             \/ DetourCalls \/ ApiCalls
             \/ UNCHANGED <<stack, installed>>

\* Facts about the frame on top.
LEMMA TopFacts ==
  ASSUME TypeOK, FramesShaped, stack # <<>>
  PROVE  /\ Top \in FrameType
         /\ Len(stack) \in DOMAIN stack
         /\ Top.at # "call" => Top.holds = None
         /\ Top.kind = "api" => Top.fn \in Api /\ Top.at = "call"
         /\ Top.kind = "body" <=> Top.at = "body"
         /\ Top.kind = "body" => Top.fn \in Engine
         /\ Top.kind = "hook" => Top.fn \in Fn
         /\ Top.kind = "hook" /\ Top.fn = Tick => Len(stack) = 1
         /\ Top.at \in TickPlaces => Top.fn = Tick
         /\ Top.at \in {"enter", "init"} => Top.fn \in {Tick, Reset}
         /\ Top.at \notin {"call", "body"} => Top.kind = "hook"
         /\ FrameShaped(Top, Len(stack))
  <1>1. stack \in Seq(FrameType) /\ Top \in FrameType /\ Len(stack) \in DOMAIN stack
    BY LowerFacts, LenProperties DEF TypeOK
  <1>2. Top = stack[Len(stack)]
    BY DEF Top
  <1>3. Top.kind \in {"hook", "body", "api"}
    BY <1>1 DEF FrameType
  <1>4. FrameShaped(Top, Len(stack))
    BY <1>1, <1>2 DEF FramesShaped
  <1> QED
    BY <1>1, <1>3, <1>4 DEF FrameShaped

\* Without anything to put back, the destructor does nothing.
LEMMA NothingToReinstall ==
  ASSUME TypeOK, Top.holds = None, UNCHANGED installed
  PROVE  Reinstall
  BY ConstantsOK DEF Reinstall, TypeOK

LEMMA GotoProceeds ==
  ASSUME TypeOK, FramesShaped, stack # <<>>, Top.kind = "hook", Top.at # "call",
         NEW place \in Places \ {"call", "body", "enter"},
         place \in TickPlaces => Top.fn = Tick,
         place = "init" => Top.fn \in {Tick, Reset}, Reached(place),
         Goto(place), UNCHANGED installed
  PROVE  Proceeds
  <1> DEFINE frame == [Top EXCEPT !.at = place]
  <1>1. Top \in FrameType /\ Top.holds = None
    BY TopFacts
  <1>2. /\ frame \in FrameType
        /\ frame.kind = "hook" /\ frame.fn = Top.fn /\ frame.holds = None
        /\ frame.at = place /\ place # "call"
        /\ FrameShaped(frame, Len(stack))
    BY <1>1, TopFacts DEF FrameType, FrameShaped
  <1>3. stack' = WithTop(frame)
    BY DEF Goto
  <1> HIDE DEF frame
  <1> QED
    BY <1>1, <1>2, <1>3, NothingToReinstall DEF Proceeds, IsNew

LEMMA FinishMoves ==
  ASSUME TypeOK, FramesShaped, stack # <<>>, Top.kind = "hook",
         NEW frame \in FrameType, frame.kind = "hook", frame.fn = Top.fn,
         Finish(frame), Reinstall
  PROVE  Proceeds \/ Pops
  <1> DEFINE next == [frame EXCEPT !.at = "drain", !.holds = None]
  <1>1. /\ next \in FrameType
        /\ next.kind = "hook" /\ next.fn = Top.fn /\ next.holds = None
        /\ next.at = "drain"
    BY DEF FrameType, Places
  <1>2. \/ stack' = WithTop(next) /\ Top.fn = Tick
        \/ stack' = Lower
    BY DEF Finish
  <1>3. Top.fn = Tick => IsNew(next, Len(stack))
    BY <1>1, TopFacts DEF FrameShaped, IsNew, Reached, LuaAt
  <1> HIDE DEF next
  <1> QED
    BY <1>1, <1>2, <1>3 DEF Proceeds, Pops

LEMMA EntryIsNew ==
  ASSUME NEW f \in Engine, NEW hooks, NEW depth, f = Tick => depth = 1
  PROVE  /\ IsNew(Entry(f, hooks), depth)
         /\ Entry(f, hooks).at \notin LuaAt
  <1>1. Entry(f, hooks) \in FrameType
    BY EntryTyped
  <1> QED
    BY <1>1 DEF Entry, Frame, FrameShaped, TickPlaces, IsNew, Reached, LuaAt

LEMMA HookAndResetIsNew ==
  ASSUME NEW depth
  PROVE  IsNew(HookAndReset, depth)
  BY ConstantsOK, HookAndResetTyped
  DEF HookAndReset, Frame, FrameShaped, TickPlaces, Tick, Reset, IsNew, Reached, LuaAt

LEMMA EveryStepMoves ==
  ASSUME TypeOK, FramesShaped, [Next]_vars
  PROVE  StackMove
  <1> USE DEF Running, At
  <1>1. ASSUME NEW f \in MainCalls, MainCall(f)
        PROVE  StackMove
    <2>1. IsNew(Entry(f, installed), 1)
      BY EntryIsNew, ConstantsOK DEF Engine
    <2>2. stack' = Append(stack, Entry(f, installed)) /\ Len(stack) + 1 = 1
      BY <1>1 DEF MainCall
    <2> QED
      BY <1>1, <2>1, <2>2 DEF MainCall, Pushes, StackMove
  <1>2. CASE ResetGameBoot \/ TickReset
    <2>1. /\ stack # <<>> /\ Top.kind = "hook" /\ Top.at # "call"
          /\ Goto("init") /\ UNCHANGED installed
          /\ Top.fn \in {Tick, Reset} /\ Reached("init")
      BY <1>2, TopFacts DEF ResetGameBoot, TickReset, BeginLuaInit, Reached
    <2> QED
      BY <2>1, GotoProceeds DEF Places, LuaAt, TickPlaces, StackMove
  <1>3. CASE \/ ResetGameAgain \/ ResetGameBooted \/ TickNoReset \/ TickGoesOn
             \/ InputReturns \/ Drained
    <2>1. Top.kind = "hook" /\ Top.at # "call" /\ stack # <<>> /\ UNCHANGED installed
      BY <1>3, TopFacts DEF ResetGameAgain, ResetGameBooted, TickNoReset, TickGoesOn,
                  InputReturns, Drained
    <2>2. \E place \in Places \ ({"call", "body", "enter"} \cup LuaAt) :
            Goto(place) /\ (place \in TickPlaces => Top.fn = Tick)
      BY <1>3, TopFacts
      DEF ResetGameAgain, ResetGameBooted, TickNoReset, TickGoesOn,
          InputReturns, Drained, Places, TickPlaces, LuaAt
    <2>3. \A place \in Places \ LuaAt : Reached(place)
      BY DEF Reached, LuaAt
    <2> QED
      BY <2>1, <2>2, <2>3, GotoProceeds DEF LuaAt, StackMove
  <1>4. CASE TickResetDone
    <2> DEFINE lower == [Top EXCEPT !.at = "resetting"]
    <2>1. Top \in FrameType /\ Top.kind = "hook" /\ Top.holds = None
      BY <1>4, TopFacts DEF TickResetDone
    <2>2. /\ lower \in FrameType /\ lower.kind = "hook" /\ lower.holds = None
          /\ lower.at = "resetting"
          /\ FrameShaped(lower, Len(stack))
      BY <1>4, <2>1, TopFacts DEF TickResetDone, FrameType, Places, FrameShaped
    <2>3. /\ IsNew(lower, Len(stack)) /\ IsNew(HookAndReset, Len(stack) + 1)
          /\ lower.at \notin LuaAt /\ HookAndReset.at \notin LuaAt
      BY <2>2, HookAndResetIsNew DEF IsNew, Reached, LuaAt, HookAndReset, Frame
    <2>4. stack' = Append(WithTop(lower), HookAndReset) /\ UNCHANGED installed
          /\ stack # <<>>
      BY <1>4 DEF TickResetDone
    <2> HIDE DEF lower
    <2> QED
      BY <2>1, <2>2, <2>3, <2>4 DEF ProceedsAndPushes, StackMove
  <1>5. CASE TickInterrupted \/ DrainCommand
    <2>1. Top.kind = "hook" /\ Top.at # "call" /\ stack # <<>> /\ UNCHANGED installed
      BY <1>5, TopFacts DEF TickInterrupted, DrainCommand
    <2>2. \/ UNCHANGED stack
          \/ /\ \E place \in {"interrupt", "input"} : Goto(place) /\ Reached(place)
             /\ Top.fn = Tick
      BY <1>5, TopFacts
      DEF TickInterrupted, DrainCommand, LuaAt, TickPlaces, Reached, consoleVars
    <2> QED
      BY <2>1, <2>2, GotoProceeds DEF Places, LuaAt, StackMove
  <1>6. CASE Dispatch
    <2>1. Top \in FrameType /\ Top.kind = "hook" /\ Top.fn \in Fn /\ Top.holds = None
          /\ stack # <<>>
      BY <1>6, TopFacts DEF Dispatch
    <2>2. PICK live \in BOOLEAN :
            LET frame == [Top EXCEPT !.live = live]
            IN  IF live /\ run # 0
                THEN /\ stack' = WithTop([frame EXCEPT !.at = "pre"])
                     /\ UNCHANGED installed
                ELSE CallEngine(Lower, frame, Top.fn, Top.fn)
      BY <1>6 DEF Dispatch
    <2> DEFINE frame == [Top EXCEPT !.live = live]
               pre   == [frame EXCEPT !.at = "pre"]
    <2>3. /\ frame \in FrameType /\ frame.kind = "hook" /\ frame.fn = Top.fn
          /\ pre \in FrameType /\ pre.kind = "hook"
          /\ pre.holds = None /\ pre.at = "pre"
          /\ FrameShaped(pre, Len(stack))
      BY <2>1, TopFacts DEF FrameType, Places, LuaAt, FrameShaped, TickPlaces
    <2>4. \/ stack' = WithTop(pre) /\ UNCHANGED installed /\ IsNew(pre, Len(stack))
          \/ CallEngine(Lower, frame, Top.fn, Top.fn)
      BY <2>2, <2>3 DEF IsNew, Reached
    <2> HIDE DEF frame, pre
    <2> QED
      BY <2>1, <2>3, <2>4, NothingToReinstall DEF Proceeds, DetourCalls, StackMove
  <1>7. CASE BodyReturned
    <2> DEFINE frame == [Top EXCEPT !.holds = None]
               next  == [frame EXCEPT !.at = IF Profile[Top.fn].mid THEN "mid" ELSE "post"]
    <2>1. Top \in FrameType /\ Top.kind = "hook" /\ stack # <<>> /\ Reinstall
      BY <1>7, TopFacts DEF BodyReturned
    <2>2. /\ frame \in FrameType /\ frame.kind = "hook" /\ frame.fn = Top.fn
          /\ next \in FrameType /\ next.kind = "hook"
          /\ next.holds = None /\ next.at \in {"mid", "post"}
          /\ FrameShaped(next, Len(stack))
      BY <2>1, TopFacts DEF FrameType, Places, LuaAt, FrameShaped, TickPlaces
    <2>3. (stack' = WithTop(next) /\ IsNew(next, Len(stack))) \/ Finish(frame)
      BY <1>7, <2>2 DEF BodyReturned, IsNew, Reached
    <2> HIDE DEF frame, next
    <2> QED
      BY <2>1, <2>2, <2>3, FinishMoves DEF Proceeds, StackMove
  <1>8. CASE ApiReturned
    BY <1>8 DEF ApiReturned, Pops, StackMove
  <1>9. ASSUME NEW result \in BOOLEAN, PreReturns(result)
        PROVE  StackMove
    <2>1. Top \in FrameType /\ Top.kind = "hook" /\ Top.fn \in Fn /\ Top.holds = None
          /\ stack # <<>>
      BY <1>9, TopFacts DEF PreReturns
    <2>2. \/ Finish(Top) /\ UNCHANGED installed
          \/ CallEngine(Lower, Top, Top.fn, Top.fn)
      BY <1>9 DEF PreReturns
    <2> QED
      BY <2>1, <2>2, FinishMoves, NothingToReinstall DEF DetourCalls, StackMove
  <1>10. ASSUME NEW result \in BOOLEAN, MidReturns(result)
         PROVE  StackMove
    <2>1. Top \in FrameType /\ Top.kind = "hook" /\ Top.holds = None /\ Top.at # "call"
          /\ stack # <<>> /\ UNCHANGED installed
      BY <1>10, TopFacts DEF MidReturns
    <2>2. Finish(Top) \/ (Goto("post") /\ Reached("post"))
      BY <1>10 DEF MidReturns, Reached
    <2> QED
      BY <2>1, <2>2, FinishMoves, GotoProceeds, NothingToReinstall
      DEF Places, LuaAt, TickPlaces, StackMove
  <1>11. CASE PostReturns
    <2>1. Top \in FrameType /\ Top.kind = "hook" /\ Top.holds = None
          /\ stack # <<>> /\ UNCHANGED installed /\ Finish(Top)
      BY <1>11, TopFacts DEF PostReturns
    <2> QED
      BY <2>1, FinishMoves, NothingToReinstall DEF StackMove
  <1>12. CASE AutoComplete \/ CompleteReturns \/ BodyReturns
    <2>1. /\ Top.holds = None /\ Top.at # "call" /\ stack # <<>> /\ UNCHANGED installed
          /\ Top.at # "body" => Top.kind = "hook"
      BY <1>12, TopFacts DEF AutoComplete, CompleteReturns, BodyReturns
    <2>2. \/ stack' = Lower
          \/ Top.at # "body" /\ Goto("complete") /\ Top.fn = Tick /\ Reached("complete")
      BY <1>12, TopFacts
      DEF AutoComplete, CompleteReturns, BodyReturns, TickPlaces, Reached
    <2> QED
      BY <2>1, <2>2, GotoProceeds, NothingToReinstall DEF Places, LuaAt, Pops, StackMove
  <1>13. ASSUME NEW a \in Api, LuaCallsApi(a)
         PROVE  StackMove
    BY <1>13 DEF LuaCallsApi, InLua, LuaAt, ApiCalls, StackMove
  <1>14. CASE LuaServerReset
    <2>1. IsNew(HookAndReset, Len(stack) + 1)
      BY HookAndResetIsNew
    <2> QED
      BY <1>14, <2>1 DEF LuaServerReset, InLua, LuaAt, Pushes, StackMove
  <1>15. ASSUME NEW f \in Fn, BodyCalls(f)
         PROVE  StackMove
    <2>1. Top.fn \in Engine /\ f # Tick
      BY <1>15, TopFacts, TickIsOutermost DEF BodyCalls
    <2>2. IsNew(Entry(f, installed), Len(stack) + 1)
      BY <2>1, EntryIsNew DEF Engine
    <2> QED
      BY <1>15, <2>2 DEF BodyCalls, Pushes, StackMove
  <1>16. CASE \/ \E k \in Keys : LuaEnable(k) \/ LuaDisable(k)
              \/ LuaClear \/ \E m \in Modes : LuaFlagsReset(m)
              \/ LuaExits \/ \E c \in Commands : ConsoleCommand(c)
              \/ ConsoleTab \/ Interrupt \/ Terminated \/ UNCHANGED vars
    BY <1>16 DEF LuaEnable, LuaDisable, LuaClear, LuaSetsKeys, LuaFlagsReset, LuaExits,
                 ConsoleCommand, ConsoleTab, Interrupt, Terminated, vars, StackMove
  <1> QED
    BY <1>1, <1>2, <1>3, <1>4, <1>5, <1>6, <1>7, <1>8, <1>9, <1>10, <1>11, <1>12,
       <1>13, <1>14, <1>15, <1>16
    DEF Next, MainThread, DetourStep, LuaStep, EngineStep

-----------------------------------------------------------------------------
(* The moves frame by frame.                                                *)

LEMMA ReinstallTyped ==
  ASSUME TypeOK, Reinstall
  PROVE  /\ installed' \in [Fn -> BOOLEAN]
         /\ \A g \in Fn : installed'[g] <=> installed[g] \/ g = Top.holds
  BY DEF Reinstall, TypeOK

LEMMA ProceedsFacts ==
  ASSUME TypeOK, Proceeds, NEW n \in Nat, n = Len(stack)
  PROVE  /\ stack' \in Seq(FrameType) /\ Len(stack') = n /\ n # 0
         /\ \A i \in 1..(n - 1) : stack'[i] = stack[i]
         /\ IsNew(stack'[n], n) /\ stack'[n].kind = "hook"
  <1>1. PICK frame : /\ IsNew(frame, n) /\ frame.kind = "hook"
                     /\ stack' = WithTop(frame)
    BY DEF Proceeds
  <1>2. frame \in FrameType
    BY <1>1 DEF IsNew
  <1> QED
    BY <1>1, <1>2, WithTopFacts, LowerFacts DEF Proceeds, TypeOK

LEMMA PopsFacts ==
  ASSUME TypeOK, Pops, NEW n \in Nat, n = Len(stack)
  PROVE  /\ stack' \in Seq(FrameType) /\ Len(stack') = n - 1 /\ n # 0
         /\ \A i \in 1..(n - 1) : stack'[i] = stack[i]
  BY LowerFacts DEF Pops, TypeOK

LEMMA PushesFacts ==
  ASSUME TypeOK, Pushes, NEW n \in Nat, n = Len(stack)
  PROVE  /\ stack' \in Seq(FrameType) /\ Len(stack') = n + 1
         /\ \A i \in 1..n : stack'[i] = stack[i]
         /\ IsNew(stack'[n + 1], n + 1)
  <1>1. PICK frame : IsNew(frame, n + 1) /\ stack' = Append(stack, frame)
    BY DEF Pushes
  <1>2. frame \in FrameType
    BY <1>1 DEF IsNew
  <1> QED
    BY <1>1, <1>2, AppendProperties DEF TypeOK

LEMMA ProceedsAndPushesFacts ==
  ASSUME TypeOK, ProceedsAndPushes, NEW n \in Nat, n = Len(stack)
  PROVE  /\ stack' \in Seq(FrameType) /\ Len(stack') = n + 1 /\ n # 0
         /\ \A i \in 1..(n - 1) : stack'[i] = stack[i]
         /\ IsNew(stack'[n], n) /\ stack'[n].kind = "hook"
         /\ IsNew(stack'[n + 1], n + 1)
         /\ stack'[n].at \notin LuaAt /\ stack'[n + 1].at \notin LuaAt
  <1>1. PICK lower, frame : /\ IsNew(lower, n) /\ lower.kind = "hook"
                            /\ IsNew(frame, n + 1)
                            /\ lower.at \notin LuaAt /\ frame.at \notin LuaAt
                            /\ stack' = Append(WithTop(lower), frame)
    BY DEF ProceedsAndPushes
  <1>2. lower \in FrameType /\ frame \in FrameType
    BY <1>1 DEF IsNew
  <1> DEFINE s == WithTop(lower)
  <1>3. /\ s \in Seq(FrameType) /\ Len(s) = n /\ s[n] = lower /\ n # 0
        /\ \A i \in 1..(n - 1) : s[i] = stack[i]
    BY <1>2, WithTopFacts, LowerFacts DEF ProceedsAndPushes, TypeOK
  <1> HIDE DEF s
  <1>4. /\ stack' \in Seq(FrameType) /\ Len(stack') = n + 1 /\ stack'[n + 1] = frame
        /\ \A i \in 1..n : stack'[i] = s[i]
    BY <1>1, <1>2, <1>3, AppendProperties DEF s
  <1> QED
    BY <1>1, <1>3, <1>4

LEMMA DetourCallsFacts ==
  ASSUME TypeOK, FramesShaped, DetourCalls, NEW n \in Nat, n = Len(stack)
  PROVE  /\ stack' \in Seq(FrameType) /\ Len(stack') = n + 1 /\ n # 0
         /\ \A i \in 1..(n - 1) : stack'[i] = stack[i]
         /\ stack'[n].kind = "hook" /\ stack'[n].at = "call"
         /\ FrameShaped(stack'[n], n)
         /\ stack'[n].holds = IF installed[Top.fn] THEN Top.fn ELSE None
         /\ stack'[n + 1].kind = "body" /\ stack'[n + 1].holds = None
         /\ stack'[n + 1].at = "body" /\ FrameShaped(stack'[n + 1], n + 1)
         /\ installed' \in [Fn -> BOOLEAN]
         /\ \A g \in Fn : installed'[g] <=> installed[g] /\ g # Top.fn
  <1>1. PICK frame \in FrameType :
          /\ frame.kind = "hook" /\ frame.fn = Top.fn
          /\ CallEngine(Lower, frame, Top.fn, Top.fn)
    BY DEF DetourCalls
  <1>2. Lower \in Seq(FrameType) /\ n # 0 /\ n - 1 \in Nat /\ Len(Lower) = n - 1
        /\ \A i \in 1..(n - 1) : Lower[i] = stack[i]
    BY LowerFacts DEF DetourCalls, TypeOK
  <1>3. Top.fn \in Engine /\ Top.fn \in Fn /\ Top.fn # None
    BY ConstantsOK DEF DetourCalls, Engine
  <1> DEFINE m == n - 1
  <1>4. /\ stack' \in Seq(FrameType) /\ Len(stack') = m + 2
        /\ \A i \in 1..m : stack'[i] = Lower[i]
        /\ stack'[m + 1].kind = "hook" /\ stack'[m + 1].fn = Top.fn
        /\ stack'[m + 1].at = "call"
        /\ stack'[m + 1].holds = IF installed[Top.fn] THEN Top.fn ELSE None
        /\ stack'[m + 2] = Entry(Top.fn, installed')
        /\ installed' \in [Fn -> BOOLEAN]
        /\ \A g \in Fn : installed'[g] <=> installed[g] /\ g # Top.fn
    <2>1. m \in Nat /\ m = Len(Lower)
      BY <1>2
    <2> DEFINE f == Top.fn
    <2>2. f \in Engine /\ f \in Fn \cup {None} /\ CallEngine(Lower, frame, f, f)
      BY <1>1, <1>3
    <2> HIDE DEF m, f
    <2>3. /\ stack' \in Seq(FrameType) /\ Len(stack') = m + 2
          /\ \A i \in 1..m : stack'[i] = Lower[i]
          /\ stack'[m + 1].kind = frame.kind /\ stack'[m + 1].fn = frame.fn
          /\ stack'[m + 1].at = "call"
          /\ stack'[m + 1].holds = IF f # None /\ installed[f] THEN f ELSE None
          /\ stack'[m + 2] = Entry(f, installed')
          /\ installed' \in [Fn -> BOOLEAN]
          /\ \A g \in Fn : installed'[g] <=> installed[g] /\ g # f
      BY <1>2, <2>1, <2>2, CallEngineFacts
    <2> QED
      BY <1>1, <1>3, <2>3 DEF f
  <1>5. m + 1 = n /\ m + 2 = n + 1
    OBVIOUS
  <1>6. Entry(Top.fn, installed') = Frame("body", Top.fn, "body")
    BY <1>3, <1>4 DEF Entry
  <1>7. FrameShaped(Top, n) /\ Top.kind = "hook"
    BY TopFacts DEF DetourCalls
  <1>8. /\ stack'[n].kind = "hook" /\ stack'[n].fn = Top.fn /\ stack'[n].at = "call"
        /\ stack'[n].holds = IF installed[Top.fn] THEN Top.fn ELSE None
    BY <1>4, <1>5
  <1>9. FrameShaped(stack'[n], n)
    BY <1>3, <1>7, <1>8 DEF FrameShaped, TickPlaces
  <1>10. stack'[n + 1].kind = "body" /\ stack'[n + 1].holds = None
         /\ stack'[n + 1].at = "body" /\ FrameShaped(stack'[n + 1], n + 1)
    BY <1>3, <1>4, <1>5, <1>6 DEF Frame, FrameShaped, TickPlaces
  <1> QED
    BY <1>2, <1>4, <1>5, <1>8, <1>9, <1>10

LEMMA ApiCallsFacts ==
  ASSUME TypeOK, ApiCalls, NEW n \in Nat, n = Len(stack)
  PROVE  \E a \in Api :
         /\ stack' \in Seq(FrameType) /\ Len(stack') = n + 2 /\ n # 0
         /\ \A i \in 1..n : stack'[i] = stack[i]
         /\ stack'[n + 1].kind = "api" /\ stack'[n + 1].fn = a
         /\ stack'[n + 1].at = "call" /\ FrameShaped(stack'[n + 1], n + 1)
         /\ stack'[n + 1].holds = IF Guard[a] # None /\ installed[Guard[a]]
                                  THEN Guard[a] ELSE None
         /\ stack'[n + 2].fn = Target[a]
         /\ Target[a] = Guard[a] \/ Target[a] \in Unhooked => stack'[n + 2].kind = "body"
         /\ stack'[n + 2].holds = None /\ stack'[n + 2].at \notin {"call"} \cup LuaAt
         /\ FrameShaped(stack'[n + 2], n + 2)
         /\ installed' \in [Fn -> BOOLEAN]
         /\ \A g \in Fn : installed'[g] <=> installed[g] /\ g # Guard[a]
  <1>1. PICK a \in Api : CallEngine(stack, Frame("api", a, "call"), Target[a], Guard[a])
    BY DEF ApiCalls
  <1>2. /\ Target[a] \in Engine /\ Target[a] # Tick
        /\ Guard[a] \in Fn \cup {None}
        /\ Frame("api", a, "call") \in FrameType
    BY ConstantsOK, TickIsOutermost, FrameTyped DEF Places
  <1>3. stack \in Seq(FrameType) /\ n # 0
    BY EmptySeq, LenProperties DEF ApiCalls, TypeOK
  <1> DEFINE frame == Frame("api", a, "call")
  <1> HIDE DEF frame
  <1>4. /\ stack' \in Seq(FrameType) /\ Len(stack') = n + 2
        /\ \A i \in 1..n : stack'[i] = stack[i]
        /\ stack'[n + 1].kind = frame.kind /\ stack'[n + 1].fn = frame.fn
        /\ stack'[n + 1].at = "call"
        /\ stack'[n + 1].holds = IF Guard[a] # None /\ installed[Guard[a]]
                                 THEN Guard[a] ELSE None
        /\ stack'[n + 2] = Entry(Target[a], installed')
        /\ installed' \in [Fn -> BOOLEAN]
        /\ \A g \in Fn : installed'[g] <=> installed[g] /\ g # Guard[a]
    <2> DEFINE f == Target[a]
               h == Guard[a]
    <2>1. /\ frame \in FrameType /\ f \in Engine /\ h \in Fn \cup {None}
          /\ CallEngine(stack, frame, f, h)
      BY <1>1, <1>2 DEF frame
    <2> HIDE DEF f, h
    <2>2. /\ stack' \in Seq(FrameType) /\ Len(stack') = n + 2
          /\ \A i \in 1..n : stack'[i] = stack[i]
          /\ stack'[n + 1].kind = frame.kind /\ stack'[n + 1].fn = frame.fn
          /\ stack'[n + 1].at = "call"
          /\ stack'[n + 1].holds = IF h # None /\ installed[h] THEN h ELSE None
          /\ stack'[n + 2] = Entry(f, installed')
          /\ installed' \in [Fn -> BOOLEAN]
          /\ \A g \in Fn : installed'[g] <=> installed[g] /\ g # h
      BY <1>3, <2>1, CallEngineFacts
    <2> QED
      BY <2>2 DEF f, h
  <1>5. /\ stack'[n + 1].kind = "api" /\ stack'[n + 1].fn = a /\ stack'[n + 1].at = "call"
        /\ stack'[n + 1].holds = IF Guard[a] # None /\ installed[Guard[a]]
                                 THEN Guard[a] ELSE None
    BY <1>4 DEF frame, Frame
  <1>6. FrameShaped(stack'[n + 1], n + 1)
    BY <1>5 DEF FrameShaped, TickPlaces
  <1>7. /\ FrameShaped(stack'[n + 2], n + 2)
        /\ stack'[n + 2].holds = None /\ stack'[n + 2].at \notin {"call"} \cup LuaAt
    BY <1>2, <1>4, EntryIsNew DEF IsNew
  <1>8. /\ stack'[n + 2].fn = Target[a]
        /\ Target[a] = Guard[a] \/ Target[a] \in Unhooked => stack'[n + 2].kind = "body"
    <2>1. Fn \cap Unhooked = {}
      BY ConstantsOK
    <2> QED
      BY <1>2, <1>4, <2>1 DEF Entry, Frame
  <1> QED
    BY <1>3, <1>4, <1>5, <1>6, <1>7, <1>8

\* Between two states at most one frame comes to a place where Lua code runs,
\* and it does so under the conditions of Reached; the others there stay as
\* they were.
LEMMA MoveReaches ==
  ASSUME TypeOK, FramesShaped, StackMove
  PROVE  \E k : \A i \in DOMAIN stack' :
           \/ i \in DOMAIN stack /\ stack'[i] = stack[i]
           \/ i = k /\ Reached(stack'[i].at)
           \/ stack'[i].at \notin LuaAt
  <1> DEFINE n == Len(stack)
  <1>1. stack \in Seq(FrameType) /\ n \in Nat /\ n = Len(stack) /\ DOMAIN stack = 1..n
    BY LenProperties DEF TypeOK
  <1> HIDE DEF n
  <1>2. CASE Proceeds
    <2>1. /\ stack' \in Seq(FrameType) /\ Len(stack') = n
          /\ \A i \in 1..(n - 1) : stack'[i] = stack[i]
          /\ Reached(stack'[n].at)
      BY <1>1, <1>2, ProceedsFacts DEF IsNew
    <2>2. DOMAIN stack' = 1..n
      BY <2>1, LenProperties
    <2>3. ASSUME NEW i \in 1..n
          PROVE  stack'[i] = stack[i] \/ (i = n /\ Reached(stack'[i].at))
      <3>1. i \in 1..(n - 1) \/ i = n
        BY <1>1
      <3> QED
        BY <2>1, <3>1
    <2> QED
      BY <1>1, <2>2, <2>3
  <1>3. CASE Pops
    <2>1. /\ stack' \in Seq(FrameType) /\ Len(stack') = n - 1
          /\ \A i \in 1..(n - 1) : stack'[i] = stack[i]
      BY <1>1, <1>3, PopsFacts
    <2>2. DOMAIN stack' = 1..(n - 1)
      BY <2>1, LenProperties
    <2>3. \A i \in 1..(n - 1) : \/ i \in 1..n /\ stack'[i] = stack[i]
                             \/ stack'[i].at \notin LuaAt
      BY <1>1, <2>1
    <2> QED
      BY <1>1, <2>2, <2>3
  <1>4. CASE Pushes
    <2>1. /\ stack' \in Seq(FrameType) /\ Len(stack') = n + 1
          /\ \A i \in 1..n : stack'[i] = stack[i]
          /\ Reached(stack'[n + 1].at)
      BY <1>1, <1>4, PushesFacts DEF IsNew
    <2>2. DOMAIN stack' = 1..(n + 1)
      BY <2>1, LenProperties
    <2> QED
      BY <1>1, <2>1, <2>2
  <1>5. CASE ProceedsAndPushes
    <2>1. /\ stack' \in Seq(FrameType) /\ Len(stack') = n + 1
          /\ \A i \in 1..(n - 1) : stack'[i] = stack[i]
          /\ stack'[n].at \notin LuaAt /\ stack'[n + 1].at \notin LuaAt
      BY <1>1, <1>5, ProceedsAndPushesFacts
    <2>2. DOMAIN stack' = 1..(n + 1)
      BY <2>1, LenProperties
    <2>3. \A i \in 1..(n + 1) : \/ i \in 1..n /\ stack'[i] = stack[i]
                             \/ stack'[i].at \notin LuaAt
      BY <1>1, <2>1
    <2> QED
      BY <1>1, <2>2, <2>3
  <1>6. CASE DetourCalls
    <2>1. /\ stack' \in Seq(FrameType) /\ Len(stack') = n + 1
          /\ \A i \in 1..(n - 1) : stack'[i] = stack[i]
          /\ stack'[n].at \notin LuaAt /\ stack'[n + 1].at \notin LuaAt
      BY <1>1, <1>6, DetourCallsFacts DEF LuaAt
    <2>2. DOMAIN stack' = 1..(n + 1)
      BY <2>1, LenProperties
    <2>3. \A i \in 1..(n + 1) : \/ i \in 1..n /\ stack'[i] = stack[i]
                             \/ stack'[i].at \notin LuaAt
      BY <1>1, <2>1
    <2> QED
      BY <1>1, <2>2, <2>3
  <1>7. CASE ApiCalls
    <2>1. /\ stack' \in Seq(FrameType) /\ Len(stack') = n + 2
          /\ \A i \in 1..n : stack'[i] = stack[i]
          /\ stack'[n + 1].at \notin LuaAt /\ stack'[n + 2].at \notin LuaAt
      BY <1>1, <1>7, ApiCallsFacts DEF LuaAt
    <2>2. DOMAIN stack' = 1..(n + 2)
      BY <2>1, LenProperties
    <2>3. \A i \in 1..(n + 2) : \/ i \in 1..n /\ stack'[i] = stack[i]
                             \/ stack'[i].at \notin LuaAt
      BY <1>1, <2>1
    <2> QED
      BY <1>1, <2>2, <2>3
  <1>8. CASE UNCHANGED <<stack, installed>>
    BY <1>8
  <1> QED
    BY <1>2, <1>3, <1>4, <1>5, <1>6, <1>7, <1>8 DEF StackMove

-----------------------------------------------------------------------------
(* Types and shape of the frames.                                           *)

\* The three parts need each other: InputReturns takes the head of the queue.
Shape == TypeOK /\ FramesShaped /\ InputHasLine

LEMMA EmptyStack ==
  ASSUME stack = <<>>
  PROVE  DOMAIN stack = {}
  <1>1. stack \in Seq(FrameType) /\ Len(stack) = 0
    BY EmptySeq
  <1>2. DOMAIN stack = 1..Len(stack)
    BY <1>1, LenProperties
  <1> QED
    BY <1>1, <1>2

LEMMA ShapeInit == Init => Shape
  <1> SUFFICES ASSUME Init
               PROVE  Shape
    OBVIOUS
  <1>1. stack = <<>> /\ <<>> \in Seq(FrameType) /\ <<>> \in Seq(Commands)
    BY EmptySeq DEF Init
  <1>2. DOMAIN stack = {}
    BY <1>1, EmptyStack
  <1>3. FramesShaped /\ InputHasLine
    BY <1>2 DEF FramesShaped, InputHasLine
  <1>4. TypeOK
    <2>1. installed \in [Fn -> BOOLEAN] /\ enabled \subseteq Keys
          /\ hookMode \in Modes /\ persistentMode \in Modes
      BY ConstantsOK DEF Init
    <2>2. queue \in Seq(Commands) /\ stack \in Seq(FrameType)
      BY <1>1 DEF Init
    <2>3. lua \in 0..2 /\ run \in 0..2 /\ calls \in Nat
      <3>1. lua = 0 /\ run = 0 /\ calls = 0
        BY DEF Init
      <3> QED
        BY <3>1
    <2>4. /\ initialized \in BOOLEAN /\ shouldReset \in BOOLEAN /\ shouldExit \in BOOLEAN
          /\ exited \in BOOLEAN /\ awaiting \in BOOLEAN
      BY DEF Init
    <2> QED
      BY <2>1, <2>2, <2>3, <2>4 DEF TypeOK
  <1> QED
    BY <1>3, <1>4 DEF Shape

\* After any move the stack is typed and every frame keeps its shape.
LEMMA MoveShapes ==
  ASSUME Shape, StackMove
  PROVE  /\ stack' \in Seq(FrameType)
         /\ installed' \in [Fn -> BOOLEAN]
         /\ FramesShaped'
  <1> DEFINE n == Len(stack)
  <1>1. TypeOK /\ stack \in Seq(FrameType) /\ n \in Nat /\ n = Len(stack)
        /\ DOMAIN stack = 1..n /\ \A i \in 1..n : FrameShaped(stack[i], i)
    BY LenProperties DEF Shape, TypeOK, FramesShaped
  <1> HIDE DEF n
  <1>2. CASE Proceeds
    <2>1. installed' \in [Fn -> BOOLEAN]
      BY <1>1, <1>2, ReinstallTyped DEF Proceeds
    <2>2. /\ stack' \in Seq(FrameType) /\ Len(stack') = n
          /\ \A i \in 1..(n - 1) : stack'[i] = stack[i]
          /\ FrameShaped(stack'[n], n)
      BY <1>1, <1>2, ProceedsFacts DEF IsNew
    <2> QED
      BY <1>1, <2>1, <2>2, LenProperties DEF FramesShaped
  <1>3. CASE Pops
    <2>1. installed' \in [Fn -> BOOLEAN]
      BY <1>1, <1>3, ReinstallTyped DEF Pops
    <2>2. /\ stack' \in Seq(FrameType) /\ Len(stack') = n - 1
          /\ \A i \in 1..(n - 1) : stack'[i] = stack[i]
      BY <1>1, <1>3, PopsFacts
    <2> QED
      BY <1>1, <2>1, <2>2, LenProperties DEF FramesShaped
  <1>4. CASE Pushes
    <2>1. installed' \in [Fn -> BOOLEAN]
      BY <1>1, <1>4 DEF Pushes, TypeOK
    <2>2. /\ stack' \in Seq(FrameType) /\ Len(stack') = n + 1
          /\ \A i \in 1..n : stack'[i] = stack[i]
          /\ FrameShaped(stack'[n + 1], n + 1)
      BY <1>1, <1>4, PushesFacts DEF IsNew
    <2> QED
      BY <1>1, <2>1, <2>2, LenProperties DEF FramesShaped
  <1>5. CASE ProceedsAndPushes
    <2>1. installed' \in [Fn -> BOOLEAN]
      BY <1>1, <1>5 DEF ProceedsAndPushes, TypeOK
    <2>2. /\ stack' \in Seq(FrameType) /\ Len(stack') = n + 1
          /\ \A i \in 1..(n - 1) : stack'[i] = stack[i]
          /\ FrameShaped(stack'[n], n)
          /\ FrameShaped(stack'[n + 1], n + 1)
      BY <1>1, <1>5, ProceedsAndPushesFacts DEF IsNew
    <2> QED
      BY <1>1, <2>1, <2>2, LenProperties DEF FramesShaped
  <1>6. CASE DetourCalls
    <2>1. /\ stack' \in Seq(FrameType) /\ Len(stack') = n + 1
          /\ \A i \in 1..(n - 1) : stack'[i] = stack[i]
          /\ FrameShaped(stack'[n], n)
          /\ FrameShaped(stack'[n + 1], n + 1)
          /\ installed' \in [Fn -> BOOLEAN]
      BY <1>1, <1>6, DetourCallsFacts DEF Shape
    <2> QED
      BY <1>1, <2>1, LenProperties DEF FramesShaped
  <1>7. CASE ApiCalls
    <2>1. /\ stack' \in Seq(FrameType) /\ Len(stack') = n + 2
          /\ \A i \in 1..n : stack'[i] = stack[i]
          /\ FrameShaped(stack'[n + 1], n + 1)
          /\ FrameShaped(stack'[n + 2], n + 2)
          /\ installed' \in [Fn -> BOOLEAN]
      BY <1>1, <1>7, ApiCallsFacts
    <2> QED
      BY <1>1, <2>1, LenProperties DEF FramesShaped
  <1>8. CASE UNCHANGED <<stack, installed>>
    BY <1>1, <1>8 DEF FramesShaped, TypeOK
  <1> QED
    BY <1>2, <1>3, <1>4, <1>5, <1>6, <1>7, <1>8 DEF StackMove

LEMMA QueuedTyped ==
  ASSUME NEW c \in {<<>>} \cup {<<d>> : d \in Commands}
  PROVE  c \in Seq(Commands)
  <1>1. <<>> \in Seq(Commands)
    BY EmptySeq
  <1>2. \A d \in Commands : <<d>> \in Seq(Commands)
    OBVIOUS
  <1> QED
    BY <1>1, <1>2

\* The variables beside the stack and the detours keep their types.
LEMMA FlagsTyped ==
  ASSUME Shape, [Next]_vars
  PROVE  /\ initialized' \in BOOLEAN
         /\ enabled' \subseteq Keys
         /\ lua' \in 0..2 /\ run' \in 0..2
         /\ hookMode' \in Modes /\ persistentMode' \in Modes
         /\ shouldReset' \in BOOLEAN /\ shouldExit' \in BOOLEAN /\ exited' \in BOOLEAN
         /\ queue' \in Seq(Commands) /\ awaiting' \in BOOLEAN
         /\ calls' \in Nat
  <1> USE DEF Shape, TypeOK, luaVars, flagVars, consoleVars
  <1>1. CASE \E f \in MainCalls : MainCall(f)
    BY <1>1 DEF MainCall
  <1>2. CASE ResetGameBoot \/ TickReset
    <2>1. lua' \in 0..2 /\ run' \in 0..2
      BY <1>2 DEF ResetGameBoot, TickReset, BeginLuaInit
    <2>2. enabled' \subseteq Keys /\ hookMode' \in Modes /\ persistentMode' \in Modes
      BY <1>2 DEF ResetGameBoot, TickReset, BeginLuaInit
    <2>3. initialized' \in BOOLEAN /\ shouldReset' \in BOOLEAN
      BY <1>2 DEF ResetGameBoot, TickReset
    <2> QED
      BY <1>2, <2>1, <2>2, <2>3 DEF ResetGameBoot, TickReset
  <1>3. CASE ResetGameBooted \/ TickResetDone
    <2>1. ASSUME NEW c \in {<<>>} \cup {<<d>> : d \in Commands}
          PROVE  queue \o c \in Seq(Commands)
      <3>1. c \in Seq(Commands)
        BY QueuedTyped
      <3>2. queue \in Seq(Commands)
        OBVIOUS
      <3> QED
        BY <3>1, <3>2, ConcatProperties
    <2>2. queue' \in Seq(Commands)
      BY <1>3, <2>1 DEF ResetGameBooted, TickResetDone
    <2> QED
      BY <1>3, <2>2 DEF ResetGameBooted, TickResetDone, EndLuaInit
  <1>4. CASE \/ ResetGameAgain \/ TickNoReset \/ TickInterrupted \/ TickGoesOn \/ Dispatch
             \/ BodyReturned \/ ApiReturned \/ PostReturns \/ Drained \/ BodyReturns
    BY <1>4 DEF ResetGameAgain, TickNoReset, TickInterrupted, TickGoesOn, Dispatch,
       BodyReturned, ApiReturned, PostReturns, Drained, BodyReturns
  <1>10. CASE \/ \E result \in BOOLEAN : PreReturns(result) \/ MidReturns(result)
              \/ LuaExits \/ Interrupt \/ ConsoleTab \/ AutoComplete \/ CompleteReturns
    BY <1>10 DEF PreReturns, MidReturns, LuaExits, Interrupt, ConsoleTab, AutoComplete,
       CompleteReturns
  <1>5. CASE DrainCommand \/ InputReturns
    <2>1. queue # <<>>
      BY <1>5, TopFacts
      DEF DrainCommand, InputReturns, InputHasLine, At, Running, Top
    <2>2. Tail(queue) \in Seq(Commands)
      BY <2>1, HeadTailProperties
    <2> QED
      BY <1>5, <2>2, ConstantsOK DEF DrainCommand, InputReturns
  <1>6. CASE \E c \in Commands : ConsoleCommand(c)
    BY <1>6, AppendProperties DEF ConsoleCommand
  <1>7. CASE \/ \E a \in Api : LuaCallsApi(a)
             \/ LuaServerReset \/ \E f \in Fn : BodyCalls(f)
    BY <1>7 DEF LuaCallsApi, LuaServerReset, BodyCalls, Spend
  <1>8. CASE (\E k \in Keys : LuaEnable(k) \/ LuaDisable(k)) \/ LuaClear
    BY <1>8 DEF LuaEnable, LuaDisable, LuaClear, LuaSetsKeys, Spend
  <1>11. CASE \E m \in Modes : LuaFlagsReset(m)
    <2>1. shouldReset' = TRUE /\ hookMode' \in Modes /\ calls' \in Nat
      BY <1>11 DEF LuaFlagsReset, Spend
    <2> QED
      BY <1>11, <2>1 DEF LuaFlagsReset
  <1>9. CASE Terminated \/ UNCHANGED vars
    BY <1>9 DEF Terminated, vars
  <1> QED
    <2>1. CASE DetourStep
      BY <2>1, <1>2, <1>3, <1>4, <1>5, <1>10 DEF DetourStep
    <2>2. CASE LuaStep
      BY <2>2, <1>7, <1>8, <1>10, <1>11 DEF LuaStep
    <2>3. CASE EngineStep
      BY <2>3, <1>4, <1>7 DEF EngineStep
    <2> QED
      BY <2>1, <2>2, <2>3, <1>1, <1>6, <1>9, <1>10 DEF Next, MainThread

\* While a ConsoleInput handler runs the tick is alone on the stack, and the
\* console thread waits for the lock.
LEMMA InputIsTop ==
  ASSUME Shape, NEW i \in DOMAIN stack, stack[i].at = "input"
  PROVE  i = 1 /\ stack[i].fn = Tick /\ stack[i].kind = "hook"
  <1>1. stack[i] \in FrameType /\ FrameShaped(stack[i], i)
    BY LenProperties DEF Shape, TypeOK, FramesShaped
  <1> QED
    BY <1>1 DEF FrameShaped, FrameType, TickPlaces

LEMMA QueueChanges ==
  ASSUME [Next]_vars
  PROVE  \/ queue' = queue
         \/ ResetGameBooted \/ DrainCommand \/ InputReturns
         \/ \E c \in Commands : ConsoleCommand(c)
  <1> USE DEF consoleVars, vars
  <1>1. CASE \E f \in MainCalls : MainCall(f)
    BY <1>1 DEF MainCall
  <1>2. CASE EngineStep
    BY <1>2 DEF EngineStep, BodyCalls, BodyReturns
  <1>3. CASE LuaStep
    BY <1>3 DEF LuaStep, LuaCallsApi, LuaServerReset, LuaEnable, LuaDisable, LuaClear,
       LuaSetsKeys, LuaFlagsReset, LuaExits
  <1>4. CASE DetourStep
    BY <1>4 DEF DetourStep, ResetGameBoot, ResetGameAgain, TickReset, TickResetDone,
       TickNoReset, TickInterrupted, TickGoesOn, Dispatch, BodyReturned, ApiReturned,
       PreReturns, MidReturns, PostReturns, Drained, AutoComplete, CompleteReturns
  <1>5. CASE ConsoleTab \/ Interrupt \/ Terminated \/ UNCHANGED vars
    BY <1>5 DEF ConsoleTab, Interrupt, Terminated
  <1> QED
    BY <1>1, <1>2, <1>3, <1>4, <1>5 DEF Next, MainThread

LEMMA InputKeepsLine ==
  ASSUME Shape, [Next]_vars
  PROVE  InputHasLine'
  <1>1. PICK k : \A i \in DOMAIN stack' :
           \/ i \in DOMAIN stack /\ stack'[i] = stack[i]
           \/ i = k /\ Reached(stack'[i].at)
           \/ stack'[i].at \notin LuaAt
    BY EveryStepMoves, MoveReaches DEF Shape
  <1> SUFFICES ASSUME NEW i \in DOMAIN stack', stack'[i].at = "input"
               PROVE  queue' # <<>> /\ Head(queue') # "resetlua"
    BY DEF InputHasLine
  <1>2. CASE Reached(stack'[i].at)
    BY <1>2 DEF Reached
  <1>3. CASE i \in DOMAIN stack /\ stack'[i] = stack[i]
    <2>1. queue # <<>> /\ Head(queue) # "resetlua" /\ stack[i].at = "input" /\ i = 1
      BY <1>3, InputIsTop DEF Shape, InputHasLine
    <2>2. CASE queue' = queue
      BY <2>1, <2>2
    <2>3. CASE ResetGameBooted
      <3>1. PICK c \in {<<>>} \cup {<<d>> : d \in Commands} : queue' = queue \o c
        BY <2>3 DEF ResetGameBooted
      <3>2. queue \in Seq(Commands) /\ c \in Seq(Commands)
        BY QueuedTyped DEF Shape, TypeOK
      <3> QED
        BY <2>1, <3>1, <3>2, ConcatProperties, EmptySeq
    <2>4. CASE \E c \in Commands : ConsoleCommand(c)
      BY <1>3, <2>1, <2>4 DEF ConsoleCommand
    <2>5. CASE DrainCommand \/ InputReturns
      <3>1. Top.at \in TickPlaces /\ stack # <<>>
        BY <2>5 DEF DrainCommand, InputReturns, At, Running, TickPlaces
      <3>2. Len(stack) = 1 /\ Top \in FrameType
        BY <3>1, TopFacts DEF Shape, TickPlaces
      <3>3. InputReturns /\ Goto("drain")
        BY <2>1, <2>5, <3>2 DEF DrainCommand, InputReturns, At, Top
      <3>4. stack'[1].at = "drain"
        <4> DEFINE frame == [Top EXCEPT !.at = "drain"]
        <4>1. frame \in FrameType /\ frame.at = "drain"
          BY <3>2 DEF FrameType, Places
        <4>2. stack' = WithTop(frame)
          BY <3>3 DEF Goto
        <4> HIDE DEF frame
        <4> QED
          BY <3>1, <3>2, <4>1, <4>2, WithTopFacts DEF Shape, TypeOK
      <3> QED
        BY <2>1, <3>4
    <2> QED
      BY <2>2, <2>3, <2>4, <2>5, QueueChanges
  <1> QED
    BY <1>1, <1>2, <1>3 DEF LuaAt

LEMMA ShapeStep == Shape /\ [Next]_vars => Shape'
  <1> SUFFICES ASSUME Shape, [Next]_vars
               PROVE  Shape'
    OBVIOUS
  <1>1. StackMove
    BY EveryStepMoves DEF Shape
  <1> QED
    BY <1>1, MoveShapes, FlagsTyped, InputKeepsLine DEF Shape, TypeOK

LEMMA ShapeInvariant == Spec => []Shape
  BY ShapeInit, ShapeStep, PTL DEF Spec

\* Every variable stays in its type, whatever handlers, bodies and the other
\* threads do: the frames of the C++ stack are well formed at any depth.
THEOREM TypeCorrect == Spec => []TypeOK
  <1>1. Shape => TypeOK
    BY DEF Shape
  <1> QED
    BY <1>1, ShapeInvariant, PTL

\* A ConsoleInput handler only ever runs for a line that is still queued and
\* is not resetlua: the console thread cannot take it away meanwhile.
THEOREM InputKeepsItsLine == Spec => []InputHasLine
  <1>1. Shape => InputHasLine
    BY DEF Shape
  <1> QED
    BY <1>1, ShapeInvariant, PTL

-----------------------------------------------------------------------------
(* The Lua state.                                                           *)

\* Who changes the Lua state and the requests for a new one.
LEMMA LuaChanges ==
  ASSUME [Next]_vars
  PROVE  \/ UNCHANGED <<initialized, lua, run, persistentMode, shouldReset, hookMode>>
         \/ ResetGameBoot \/ ResetGameBooted \/ TickReset \/ TickResetDone
         \/ DrainCommand \/ \E m \in Modes : LuaFlagsReset(m)
  <1> USE DEF luaVars, flagVars, vars
  <1>1. CASE \E f \in MainCalls : MainCall(f)
    BY <1>1 DEF MainCall
  <1>2. CASE EngineStep
    BY <1>2 DEF EngineStep, BodyCalls, BodyReturns
  <1>3. CASE LuaStep
    BY <1>3 DEF LuaStep, LuaCallsApi, LuaServerReset, LuaEnable, LuaDisable, LuaClear,
       LuaSetsKeys, LuaExits
  <1>4. CASE DetourStep
    BY <1>4 DEF DetourStep, ResetGameAgain, TickNoReset, TickInterrupted, TickGoesOn,
       Dispatch, BodyReturned, ApiReturned, PreReturns, MidReturns, PostReturns,
       InputReturns, Drained, AutoComplete, CompleteReturns
  <1>5. CASE \/ \E c \in Commands : ConsoleCommand(c)
             \/ ConsoleTab \/ Interrupt \/ Terminated \/ UNCHANGED vars
    BY <1>5 DEF ConsoleCommand, ConsoleTab, Interrupt, Terminated
  <1> QED
    BY <1>1, <1>2, <1>3, <1>4, <1>5 DEF Next, MainThread

\* hook.run is nil or a function of the Lua state that is alive: no handler of
\* a deleted state is ever called.
THEOREM RunStaysCurrent == Spec => []RunIsCurrent
  <1>1. Init => RunIsCurrent
    BY DEF Init, RunIsCurrent
  <1>2. RunIsCurrent /\ [Next]_vars => RunIsCurrent'
    <2> SUFFICES ASSUME RunIsCurrent, [Next]_vars
                 PROVE  RunIsCurrent'
      OBVIOUS
    <2>1. CASE ResetGameBoot \/ TickReset
      BY <2>1 DEF ResetGameBoot, TickReset, BeginLuaInit, RunIsCurrent
    <2>2. CASE ResetGameBooted \/ TickResetDone
      BY <2>2 DEF ResetGameBooted, TickResetDone, EndLuaInit, RunIsCurrent
    <2>3. CASE UNCHANGED <<lua, run>>
      BY <2>3 DEF RunIsCurrent
    <2>4. DrainCommand \/ (\E m \in Modes : LuaFlagsReset(m)) => UNCHANGED <<lua, run>>
      BY DEF DrainCommand, LuaFlagsReset, luaVars
    <2> QED
      BY <2>1, <2>2, <2>3, <2>4, LuaChanges
  <1> QED
    BY <1>1, <1>2, PTL DEF Spec

\* No request for a Lua state of a given mode is lost, even one that is made
\* by the main/init.lua a reset is running.
THEOREM ModeIsServed == Spec => []ModeServed
  <1>1. Init => ModeServed
    BY DEF Init, ModeServed
  <1>2. ModeServed /\ [Next]_vars => ModeServed'
    <2> SUFFICES ASSUME ModeServed, [Next]_vars
                 PROVE  ModeServed'
      OBVIOUS
    <2>1. CASE ResetGameBoot \/ TickReset
      BY <2>1 DEF ResetGameBoot, TickReset, BeginLuaInit, ModeServed, flagVars
    <2>2. CASE UNCHANGED <<persistentMode, shouldReset, hookMode>>
      BY <2>2 DEF ModeServed
    <2>3. ResetGameBooted \/ TickResetDone => UNCHANGED <<persistentMode, shouldReset, hookMode>>
      BY DEF ResetGameBooted, TickResetDone, EndLuaInit, flagVars
    <2>4. CASE DrainCommand \/ \E m \in Modes : LuaFlagsReset(m)
      <3>1. shouldReset' = TRUE \/ UNCHANGED <<persistentMode, shouldReset, hookMode>>
        BY <2>4 DEF DrainCommand, LuaFlagsReset, flagVars, luaVars
      <3> QED
        BY <3>1, <2>2 DEF ModeServed
    <2> QED
      BY <2>1, <2>2, <2>3, <2>4, LuaChanges
  <1> QED
    BY <1>1, <1>2, PTL DEF Spec

\* The frames on which Lua code runs or waits after a step.
LEMMA LuaFrames ==
  ASSUME Shape, [Next]_vars
  PROVE  \E k : \A i \in DOMAIN stack' : stack'[i].at \in LuaAt =>
           \/ i \in DOMAIN stack /\ stack'[i] = stack[i]
           \/ i = k /\ Reached(stack'[i].at)
  <1>1. PICK k : \A i \in DOMAIN stack' :
           \/ i \in DOMAIN stack /\ stack'[i] = stack[i]
           \/ i = k /\ Reached(stack'[i].at)
           \/ stack'[i].at \notin LuaAt
    BY EveryStepMoves, MoveReaches DEF Shape
  <1> QED
    BY <1>1

\* Where the top frame is, some frame is.
LEMMA TopIsAFrame ==
  ASSUME Shape, stack # <<>>
  PROVE  Len(stack) \in DOMAIN stack /\ Top = stack[Len(stack)]
  BY TopFacts DEF Shape, Top

LEMMA BootStep ==
  ASSUME Shape, NothingBeforeBoot, [Next]_vars
  PROVE  NothingBeforeBoot'
  <1>1. ASSUME At("init") \/ At("input") \/ InLua \/ shouldReset \/ queue # <<>> \/ lua # 0
        PROVE  initialized
    BY <1>1, TopIsAFrame DEF NothingBeforeBoot, At, InLua, Running, LuaAt
  <1>2. (initialized' <=> lua' # 0) /\ (initialized => initialized')
    <2>1. CASE UNCHANGED <<initialized, lua>>
      BY <2>1 DEF NothingBeforeBoot
    <2>2. CASE ResetGameBoot
      BY <2>2 DEF ResetGameBoot, BeginLuaInit
    <2>3. CASE TickReset
      BY <1>1, <2>3 DEF TickReset, BeginLuaInit
    <2>4. ResetGameBooted \/ TickResetDone => UNCHANGED <<initialized, lua>>
      BY DEF ResetGameBooted, TickResetDone, EndLuaInit
    <2>5. DrainCommand \/ (\E m \in Modes : LuaFlagsReset(m)) => UNCHANGED <<initialized, lua>>
      BY DEF DrainCommand, LuaFlagsReset, luaVars
    <2> QED
      BY <2>1, <2>2, <2>3, <2>4, <2>5, LuaChanges
  <1> SUFFICES ASSUME ~initialized'
               PROVE  /\ run' = 0 /\ ~shouldReset' /\ queue' = <<>>
                      /\ \A i \in DOMAIN stack' : stack'[i].at \notin LuaAt
    BY <1>2 DEF NothingBeforeBoot
  <1>3. /\ ~initialized /\ run = 0 /\ ~shouldReset /\ queue = <<>>
        /\ \A i \in DOMAIN stack : stack[i].at \notin LuaAt
    BY <1>2 DEF NothingBeforeBoot
  <1>4. /\ ~ResetGameBoot /\ ~TickReset /\ ~ResetGameBooted /\ ~TickResetDone
        /\ ~DrainCommand /\ ~InputReturns
        /\ ~\E m \in Modes : LuaFlagsReset(m)
        /\ ~\E c \in Commands : ConsoleCommand(c)
    BY <1>1, <1>3 DEF ResetGameBoot, TickReset, ResetGameBooted, TickResetDone,
       DrainCommand, InputReturns, LuaFlagsReset, ConsoleCommand, ConsoleUp
  <1>5. run' = 0 /\ ~shouldReset' /\ queue' = <<>>
    BY <1>3, <1>4, LuaChanges, QueueChanges
  <1>6. PICK k : \A i \in DOMAIN stack' : stack'[i].at \in LuaAt =>
           \/ i \in DOMAIN stack /\ stack'[i] = stack[i]
           \/ i = k /\ Reached(stack'[i].at)
    BY LuaFrames
  <1>7. ASSUME NEW place \in LuaAt
        PROVE  ~Reached(place)
    BY <1>3, TopIsAFrame DEF Reached, LuaAt
  <1> QED
    BY <1>3, <1>5, <1>6, <1>7

\* Where a frame goes from main/init.lua.
LEMMA InitGoesOn ==
  ASSUME Shape, stack # <<>>, ResetGameBooted \/ TickResetDone
  PROVE  stack'[Len(stack)].at \in {"dispatch", "resetting"}
  <1> DEFINE n     == Len(stack)
             place == IF ResetGameBooted THEN "dispatch" ELSE "resetting"
             frame == [Top EXCEPT !.at = place]
  <1>1. Top \in FrameType /\ stack \in Seq(FrameType)
    BY TopFacts DEF Shape, TypeOK
  <1>2. frame \in FrameType /\ frame.at = place
    BY <1>1 DEF FrameType, Places
  <1>3. stack' = WithTop(frame) \/ stack' = Append(WithTop(frame), HookAndReset)
    BY DEF ResetGameBooted, TickResetDone, Goto
  <1>4. place \in {"dispatch", "resetting"}
    OBVIOUS
  <1> HIDE DEF frame, place
  <1> DEFINE s == WithTop(frame)
  <1>5. s \in Seq(FrameType) /\ Len(s) = n /\ s[n] = frame /\ n \in 1..Len(s)
    BY <1>1, <1>2, WithTopFacts, LowerFacts
  <1> HIDE DEF s, n
  <1>6. Append(s, HookAndReset)[n] = s[n]
    BY <1>5, HookAndResetTyped, AppendProperties
  <1>7. stack'[n].at = place
    BY <1>2, <1>3, <1>5, <1>6 DEF s
  <1> QED
    BY <1>4, <1>7 DEF n

LEMMA LuaInitStep ==
  ASSUME Shape, NothingBeforeBoot, LuaInitAlone, [Next]_vars
  PROVE  LuaInitAlone'
  <1>1. PICK k : \A i \in DOMAIN stack' : stack'[i].at \in LuaAt =>
           \/ i \in DOMAIN stack /\ stack'[i] = stack[i]
           \/ i = k /\ Reached(stack'[i].at)
    BY LuaFrames
  <1> SUFFICES ASSUME NEW i \in DOMAIN stack', stack'[i].at = "init"
               PROVE  /\ run' = 0
                      /\ \A j \in DOMAIN stack' : j # i => stack'[j].at \notin LuaAt
    BY DEF LuaInitAlone
  <1>2. CASE i \in DOMAIN stack /\ stack'[i] = stack[i]
    <2>1. run = 0 /\ \A j \in DOMAIN stack : j # i => stack[j].at \notin LuaAt
      BY <1>2 DEF LuaInitAlone
    <2>2. stack # <<>> => Len(stack) = i \/ Top.at \notin LuaAt
      BY <2>1, TopIsAFrame
    <2>3. CASE ResetGameBooted \/ TickResetDone
      <3>1. stack # <<>> /\ Top.at = "init" /\ StackMove
        BY <2>3, EveryStepMoves DEF ResetGameBooted, TickResetDone, At, Running, Shape
      <3>2. i = Len(stack)
        BY <2>2, <3>1 DEF LuaAt
      <3>3. stack'[Len(stack)].at \in {"dispatch", "resetting"}
        BY <2>3, <3>1, InitGoesOn
      <3> QED
        BY <3>2, <3>3
    <2>4. CASE ~ResetGameBooted /\ ~TickResetDone
      <3>1. run' = 0
        BY <2>1, <2>4, LuaChanges
        DEF ResetGameBoot, TickReset, BeginLuaInit, DrainCommand, LuaFlagsReset, luaVars
      <3>2. ASSUME NEW j \in DOMAIN stack', j # i, stack'[j].at \in LuaAt
            PROVE  FALSE
        <4>1. j = k /\ Reached(stack'[j].at)
          BY <1>1, <2>1, <3>2
        <4>2. stack # <<>> /\ Top.at \in {"mid", "enter"}
          BY <2>1, <3>2, <4>1 DEF Reached
        <4>3. stack'[j].at = "init"
          BY <1>2, <2>1, <2>2, <3>2, <4>1, <4>2, TopIsAFrame DEF Reached, LuaAt
        <4>4. Len(stack) = 1 \/ ~initialized
          BY <4>1, <4>3 DEF Reached
        <4>5. initialized
          BY <1>2 DEF NothingBeforeBoot, LuaAt
        <4>6. i = Len(stack) /\ Top.at = "init"
          <5>1. DOMAIN stack = 1..1 /\ Len(stack) = 1
            BY <4>4, <4>5, LenProperties DEF Shape, TypeOK
          <5> QED
            BY <1>2, <5>1 DEF Top
        <4> QED
          BY <4>2, <4>6
      <3> QED
        BY <3>1, <3>2
    <2> QED
      BY <2>3, <2>4
  <1>3. CASE i = k /\ Reached(stack'[i].at)
    <2>1. /\ run' = 0 /\ stack # <<>> /\ Top.at = "enter"
          /\ Len(stack) = 1 \/ ~initialized
      BY <1>3 DEF Reached
    <2>2. ASSUME NEW j \in DOMAIN stack', j # i, stack'[j].at \in LuaAt
          PROVE  FALSE
      <3>1. j \in DOMAIN stack /\ stack[j].at \in LuaAt
        BY <1>1, <1>3, <2>2
      <3>2. Len(stack) = 1
        BY <2>1, <3>1 DEF NothingBeforeBoot
      <3>3. j = Len(stack)
        BY <3>1, <3>2, LenProperties DEF Shape, TypeOK
      <3> QED
        BY <2>1, <3>1, <3>3 DEF Top, LuaAt
    <2> QED
      BY <2>1, <2>2
  <1> QED
    BY <1>1, <1>2, <1>3 DEF LuaAt

LEMMA BootInvariant == Spec => [](Shape /\ NothingBeforeBoot /\ LuaInitAlone)
  <1>1. Init => NothingBeforeBoot /\ LuaInitAlone
    <2>1. Init => DOMAIN stack = {}
      BY EmptyStack DEF Init
    <2> QED
      BY <2>1 DEF Init, NothingBeforeBoot, LuaInitAlone
  <1>2. Shape /\ NothingBeforeBoot /\ LuaInitAlone /\ [Next]_vars
          => NothingBeforeBoot' /\ LuaInitAlone'
    BY BootStep, LuaInitStep
  <1> QED
    BY <1>1, <1>2, ShapeInit, ShapeStep, PTL DEF Spec

\* While luaInit runs main/init.lua no other Lua code is active or suspended, so
\* no code of a deleted Lua state is ever returned to.
THEOREM LuaInitIsAlone == Spec => []LuaInitAlone
  BY BootInvariant, PTL

-----------------------------------------------------------------------------
(* Detours.                                                                 *)

LEMMA BalanceStep ==
  ASSUME Shape, DetoursBalanced, StackMove
  PROVE  DetoursBalanced'
  <1> DEFINE n == Len(stack)
  <1>1. /\ TypeOK /\ stack \in Seq(FrameType) /\ n \in Nat /\ n = Len(stack)
        /\ DOMAIN stack = 1..n
        /\ n # 0 => Top = stack[n] /\ stack # <<>> /\ Top \in FrameType
        /\ n # 0 /\ Top.at # "call" => Top.holds = None
    BY LenProperties, EmptySeq, TopFacts DEF Shape, TypeOK, Top
  <1>2. \A i \in 1..n : stack[i].holds # None => stack[i].holds \in Fn
    <2>1. \A i \in 1..n : stack[i] \in FrameType
      BY <1>1, LenProperties
    <2> QED
      BY <2>1 DEF FrameType
  <1> HIDE DEF n
  \* What the detour on top holds is put back, and the frame is gone or free.
  <1>3. ASSUME Reinstall, n # 0,
               NEW m \in {n - 1, n}, DOMAIN stack' = 1..m,
               \A i \in 1..(n - 1) : stack'[i] = stack[i],
               m = n => stack'[n].holds = None
        PROVE  DetoursBalanced'
    <2>1. /\ \A g \in Fn : installed'[g] <=> installed[g] \/ g = Top.holds
      BY <1>1, <1>3, ReinstallTyped
    <2>2. \A i \in 1..m : i \in 1..(n - 1) \/ stack'[i].holds = None
      BY <1>1, <1>3
    <2>3. ASSUME NEW f \in Fn, ~installed'[f]
          PROVE  \E i \in 1..m : stack'[i].holds = f
      <3>1. ~installed[f] /\ f # Top.holds
        BY <2>1, <2>3
      <3>2. PICK i \in 1..n : stack[i].holds = f
        BY <1>1, <3>1 DEF DetoursBalanced
      <3>3. i \in 1..(n - 1) /\ i \in 1..m
        BY <1>1, <1>3, <3>1, <3>2
      <3> QED
        BY <1>3, <3>2, <3>3
    <2>4. ASSUME NEW i \in 1..m, stack'[i].holds # None
          PROVE  ~installed'[stack'[i].holds]
      <3>1. i \in 1..(n - 1) /\ i \in 1..n /\ stack'[i] = stack[i] /\ i # n /\ n \in 1..n
        BY <1>1, <1>3, <2>2, <2>4
      <3>2. ~installed[stack[i].holds] /\ stack[i].holds \in Fn
        BY <1>1, <1>2, <2>4, <3>1 DEF DetoursBalanced
      <3>3. stack[i].holds # Top.holds
        BY <1>1, <1>3, <2>4, <3>1 DEF DetoursBalanced
      <3> QED
        BY <2>1, <3>1, <3>2, <3>3
    <2>5. ASSUME NEW i \in 1..m, NEW j \in 1..m,
                 stack'[i].holds # None, stack'[i].holds = stack'[j].holds
          PROVE  i = j
      <3>1. i \in 1..(n - 1) /\ j \in 1..(n - 1)
        BY <2>2, <2>5
      <3> QED
        BY <1>1, <1>3, <2>5, <3>1 DEF DetoursBalanced
    <2> QED
      BY <1>3, <2>3, <2>4, <2>5 DEF DetoursBalanced
  \* Nothing held changes.
  <1>4. ASSUME UNCHANGED installed,
               NEW m \in {n, n + 1}, DOMAIN stack' = 1..m,
               \A i \in 1..n : stack'[i].holds = stack[i].holds,
               m = n + 1 => stack'[n + 1].holds = None
        PROVE  DetoursBalanced'
    <2>1. \A i \in 1..m : i \in 1..n \/ stack'[i].holds = None
      BY <1>1, <1>4
    <2>2. 1..n \subseteq 1..m
      BY <1>1, <1>4
    <2>3. \A f \in Fn : ~installed[f] => \E i \in 1..n : stack[i].holds = f
      BY <1>1 DEF DetoursBalanced
    <2>4. \A f \in Fn : ~installed'[f] => \E i \in 1..m : stack'[i].holds = f
      BY <1>4, <2>2, <2>3
    <2>5. \A i \in 1..m : stack'[i].holds # None => ~installed'[stack'[i].holds]
      BY <1>1, <1>4, <2>1 DEF DetoursBalanced
    <2>6. \A i, j \in 1..m :
            stack'[i].holds # None /\ stack'[i].holds = stack'[j].holds => i = j
      BY <1>1, <1>4, <2>1 DEF DetoursBalanced
    <2> QED
      BY <1>4, <2>4, <2>5, <2>6 DEF DetoursBalanced
  \* The frame at m, the only one that may hold h, has taken it away.
  <1>5. ASSUME NEW m \in {n, n + 1}, m # 0, DOMAIN stack' = 1..(m + 1),
               \A i \in 1..(m - 1) : stack'[i] = stack[i],
               m = n => stack[n].holds = None,
               stack'[m + 1].holds = None,
               NEW h \in Fn \cup {None},
               stack'[m].holds = IF h # None /\ installed[h] THEN h ELSE None,
               \A g \in Fn : installed'[g] <=> installed[g] /\ g # h
        PROVE  DetoursBalanced'
    <2>1. \A i \in 1..(m + 1) :
            i = m \/ (i \in 1..(m - 1) /\ i \in 1..n) \/ stack'[i].holds = None
      BY <1>1, <1>5
    <2>2. \A i \in 1..n : i \in 1..(m - 1) \/ stack[i].holds = None
      BY <1>1, <1>5
    <2>3. m \in 1..(m + 1) /\ 1..(m - 1) \subseteq 1..(m + 1) /\ None \notin Fn
      <3>1. m \in Nat /\ m # 0
        BY <1>1, <1>5
      <3>2. m \in 1..(m + 1) /\ 1..(m - 1) \subseteq 1..(m + 1)
        BY <3>1
      <3>3. None \notin Fn
        BY ConstantsOK
      <3> QED
        BY <3>2, <3>3
    <2>4. ASSUME NEW f \in Fn, ~installed'[f]
          PROVE  \E i \in 1..(m + 1) : stack'[i].holds = f
      <3>1. CASE installed[f]
        <4>1. f = h /\ stack'[m].holds = f
          BY <1>5, <2>3, <2>4, <3>1
        <4> QED
          BY <2>3, <4>1
      <3>2. CASE ~installed[f]
        <4>1. PICK i \in 1..n : stack[i].holds = f
          BY <1>1, <3>2 DEF DetoursBalanced
        <4>2. i \in 1..(m - 1) /\ stack'[i] = stack[i]
          BY <1>5, <2>2, <2>3, <4>1
        <4> QED
          BY <2>3, <4>1, <4>2
      <3> QED
        BY <3>1, <3>2
    <2>5. ASSUME NEW i \in 1..(m + 1), stack'[i].holds # None
          PROVE  /\ ~installed'[stack'[i].holds]
                 /\ i = m => stack'[i].holds = h /\ installed[h]
                 /\ i # m => /\ i \in 1..n /\ stack'[i] = stack[i]
                             /\ ~installed[stack'[i].holds]
      <3>1. CASE i = m
        BY <1>5, <2>5, <3>1
      <3>2. CASE i # m
        <4>1. i \in 1..(m - 1) /\ i \in 1..n /\ stack'[i] = stack[i]
          BY <1>5, <2>1, <2>5, <3>2
        <4>2. stack[i].holds \in Fn /\ ~installed[stack[i].holds]
          BY <1>1, <1>2, <2>5, <4>1 DEF DetoursBalanced
        <4> QED
          BY <1>5, <3>2, <4>1, <4>2
      <3> QED
        BY <3>1, <3>2
    <2>6. ASSUME NEW i \in 1..(m + 1), NEW j \in 1..(m + 1),
                 stack'[i].holds # None, stack'[i].holds = stack'[j].holds
          PROVE  i = j
      <3>1. CASE i = m \/ j = m
        BY <2>5, <2>6, <3>1
      <3>2. CASE i # m /\ j # m
        BY <1>1, <2>5, <2>6, <3>2 DEF DetoursBalanced
      <3> QED
        BY <3>1, <3>2
    <2> QED
      BY <1>5, <2>4, <2>5, <2>6 DEF DetoursBalanced
  <1>6. CASE Proceeds
    <2>1. /\ stack' \in Seq(FrameType) /\ Len(stack') = n /\ n # 0
          /\ \A i \in 1..(n - 1) : stack'[i] = stack[i]
          /\ stack'[n].holds = None
      BY <1>1, <1>6, ProceedsFacts DEF IsNew
    <2>2. DOMAIN stack' = 1..n /\ Reinstall
      BY <1>6, <2>1, LenProperties DEF Proceeds
    <2> QED
      BY <1>3, <2>1, <2>2
  <1>7. CASE Pops
    <2>1. /\ stack' \in Seq(FrameType) /\ Len(stack') = n - 1 /\ n # 0
          /\ \A i \in 1..(n - 1) : stack'[i] = stack[i]
      BY <1>1, <1>7, PopsFacts
    <2>2. DOMAIN stack' = 1..(n - 1) /\ Reinstall /\ n - 1 # n
      BY <1>1, <1>7, <2>1, LenProperties DEF Pops
    <2> QED
      BY <1>3, <2>1, <2>2
  <1>8. CASE Pushes
    <2>1. /\ stack' \in Seq(FrameType) /\ Len(stack') = n + 1
          /\ \A i \in 1..n : stack'[i] = stack[i]
          /\ stack'[n + 1].holds = None
      BY <1>1, <1>8, PushesFacts DEF IsNew
    <2>2. DOMAIN stack' = 1..(n + 1) /\ UNCHANGED installed
      BY <1>8, <2>1, LenProperties DEF Pushes
    <2> QED
      BY <1>4, <2>1, <2>2
  <1>9. CASE ProceedsAndPushes
    <2>1. /\ stack' \in Seq(FrameType) /\ Len(stack') = n + 1 /\ n # 0
          /\ \A i \in 1..(n - 1) : stack'[i] = stack[i]
          /\ stack'[n].holds = None /\ stack'[n + 1].holds = None
      BY <1>1, <1>9, ProceedsAndPushesFacts DEF IsNew
    <2>2. DOMAIN stack' = 1..(n + 1) /\ UNCHANGED installed /\ stack[n].holds = None
      BY <1>1, <1>9, <2>1, LenProperties DEF ProceedsAndPushes
    <2>3. \A i \in 1..n : i \in 1..(n - 1) \/ i = n
      BY <1>1
    <2>4. \A i \in 1..n : stack'[i].holds = stack[i].holds
      BY <2>1, <2>2, <2>3
    <2> QED
      BY <1>4, <2>1, <2>2, <2>4
  <1>10. CASE DetourCalls
    <2>1. /\ stack' \in Seq(FrameType) /\ Len(stack') = n + 1 /\ n # 0
          /\ \A i \in 1..(n - 1) : stack'[i] = stack[i]
          /\ stack'[n].holds = IF installed[Top.fn] THEN Top.fn ELSE None
          /\ stack'[n + 1].holds = None
          /\ \A g \in Fn : installed'[g] <=> installed[g] /\ g # Top.fn
      BY <1>1, <1>10, DetourCallsFacts DEF Shape
    <2>2. DOMAIN stack' = 1..(n + 1)
      BY <2>1, LenProperties
    <2>3. stack[n].holds = None /\ Top.fn \in Fn
      BY <1>1, <1>10, <2>1 DEF DetourCalls
    <2>4. Top.fn # None
      BY <2>3, ConstantsOK
    <2> QED
      BY <1>5, <2>1, <2>2, <2>3, <2>4
  <1>11. CASE ApiCalls
    <2>1. PICK a \in Api :
            /\ stack' \in Seq(FrameType) /\ Len(stack') = n + 2
            /\ \A i \in 1..n : stack'[i] = stack[i]
            /\ stack'[n + 1].holds = IF Guard[a] # None /\ installed[Guard[a]]
                                     THEN Guard[a] ELSE None
            /\ stack'[n + 2].holds = None
            /\ \A g \in Fn : installed'[g] <=> installed[g] /\ g # Guard[a]
      BY <1>1, <1>11, ApiCallsFacts
    <2> DEFINE m == n + 1
    <2>2. /\ m - 1 = n /\ m # 0 /\ m # n /\ m + 1 = n + 2 /\ m \in {n, n + 1}
      BY <1>1
    <2>3. DOMAIN stack' = 1..(m + 1)
      BY <2>1, <2>2, LenProperties
    <2>4. Guard[a] \in Fn \cup {None}
      BY ConstantsOK
    <2> HIDE DEF m
    <2>5. stack'[m].holds = IF Guard[a] # None /\ installed[Guard[a]]
                            THEN Guard[a] ELSE None
      BY <2>1 DEF m
    <2> QED
      BY <1>5, <2>1, <2>2, <2>3, <2>4, <2>5
  <1>12. CASE UNCHANGED <<stack, installed>>
    BY <1>12 DEF DetoursBalanced
  <1> QED
    BY <1>6, <1>7, <1>8, <1>9, <1>10, <1>11, <1>12 DEF StackMove

\* However detours, bodies and API calls nest, and whatever exits or errors
\* handlers choose, every detour that is out of place has exactly one frame
\* that will put it back.
THEOREM DetoursStayBalanced == Spec => []DetoursBalanced
  <1>1. Init => DetoursBalanced
    BY EmptyStack DEF Init, DetoursBalanced
  <1>2. Shape /\ DetoursBalanced /\ [Next]_vars => DetoursBalanced'
    BY EveryStepMoves, BalanceStep DEF Shape
  <1> QED
    BY <1>1, <1>2, ShapeInvariant, PTL DEF Spec

LEMMA GuardStep ==
  ASSUME Shape, GuardedCallsReachBody, StackMove
  PROVE  GuardedCallsReachBody'
  <1> DEFINE n == Len(stack)
  <1>1. /\ TypeOK /\ FramesShaped /\ stack \in Seq(FrameType) /\ n \in Nat /\ n = Len(stack)
        /\ n # 0 => Top = stack[n] /\ stack # <<>>
    BY LenProperties, EmptySeq DEF Shape, TypeOK, Top
  <1>2. \A i \in 1..(n - 1) : CallsGuarded(i) => stack[i + 1].kind = "body"
    BY <1>1 DEF GuardedCallsReachBody
  <1>3. \A i : stack'[i] = stack[i] => (CallsGuarded(i)' <=> CallsGuarded(i))
    BY DEF CallsGuarded
  <1>4. \A i : stack'[i].at # "call" => ~CallsGuarded(i)'
    BY DEF CallsGuarded
  <1> HIDE DEF n
  \* A detour on top stays one, so nothing changes for the frame below it.
  <1>5. ASSUME n # 0, Top.kind = "hook",
               \A i \in 1..(n - 1) : stack'[i] = stack[i],
               stack'[n].kind = "hook",
               NEW i \in 1..(n - 1), CallsGuarded(i)'
        PROVE  stack'[i + 1].kind = "body"
    <2>1. CallsGuarded(i) /\ stack[i + 1].kind = "body"
      BY <1>2, <1>3, <1>5
    <2>2. i + 1 \in 1..(n - 1) \/ i + 1 = n
      BY <1>1
    <2>3. i + 1 # n
      BY <1>1, <1>5, <2>1
    <2> QED
      BY <1>5, <2>1, <2>2, <2>3
  \* Calls under the frames that stay are still followed by their bodies.
  <1>6. ASSUME \A i \in 1..n : stack'[i] = stack[i],
               NEW i \in 1..(n - 1), CallsGuarded(i)'
        PROVE  stack'[i + 1].kind = "body"
    <2>1. i \in 1..n /\ i + 1 \in 1..n
      BY <1>1
    <2> QED
      BY <1>2, <1>3, <1>6, <2>1
  <1>7. CASE Proceeds
    <2>1. /\ Len(stack') = n /\ n # 0 /\ Top.kind = "hook" /\ stack'[n].kind = "hook"
          /\ \A i \in 1..(n - 1) : stack'[i] = stack[i]
      BY <1>1, <1>7, ProceedsFacts DEF Proceeds
    <2> QED
      BY <1>5, <2>1 DEF GuardedCallsReachBody
  <1>8. CASE Pops
    <2>1. /\ Len(stack') = n - 1 /\ n # 0
          /\ \A i \in 1..(n - 1) : stack'[i] = stack[i]
      BY <1>1, <1>8, PopsFacts
    <2>2. ASSUME NEW i \in 1..((n - 1) - 1), CallsGuarded(i)'
          PROVE  stack'[i + 1].kind = "body"
      <3>1. i \in 1..(n - 1) /\ i + 1 \in 1..(n - 1)
        BY <1>1
      <3> QED
        BY <1>2, <1>3, <2>1, <2>2, <3>1
    <2> QED
      BY <2>1, <2>2 DEF GuardedCallsReachBody
  <1>9. CASE Pushes
    <2>1. /\ Len(stack') = n + 1 /\ \A i \in 1..n : stack'[i] = stack[i]
          /\ n # 0 => stack[n].at # "call"
      BY <1>1, <1>9, PushesFacts DEF Pushes
    <2>2. ASSUME NEW i \in 1..((n + 1) - 1), CallsGuarded(i)'
          PROVE  stack'[i + 1].kind = "body"
      <3>1. i \in 1..(n - 1) \/ (i = n /\ n # 0)
        BY <1>1
      <3>2. i # n
        BY <1>1, <1>4, <2>1, <2>2, <3>1
      <3> QED
        BY <1>6, <2>1, <2>2, <3>1, <3>2
    <2> QED
      BY <2>1, <2>2 DEF GuardedCallsReachBody
  <1>10. CASE ProceedsAndPushes
    <2>1. /\ Len(stack') = n + 1 /\ n # 0
          /\ Top.kind = "hook" /\ stack'[n].kind = "hook" /\ stack'[n].at # "call"
          /\ \A i \in 1..(n - 1) : stack'[i] = stack[i]
      BY <1>1, <1>10, ProceedsAndPushesFacts DEF ProceedsAndPushes, IsNew
    <2>2. ASSUME NEW i \in 1..((n + 1) - 1), CallsGuarded(i)'
          PROVE  stack'[i + 1].kind = "body"
      <3>1. i \in 1..(n - 1) \/ i = n
        BY <1>1
      <3>2. i # n
        BY <1>4, <2>1, <2>2
      <3> QED
        BY <1>5, <2>1, <2>2, <3>1, <3>2
    <2> QED
      BY <2>1, <2>2 DEF GuardedCallsReachBody
  <1>11. CASE DetourCalls
    <2>1. /\ Len(stack') = n + 1 /\ n # 0
          /\ Top.kind = "hook" /\ stack'[n].kind = "hook" /\ stack'[n + 1].kind = "body"
          /\ \A i \in 1..(n - 1) : stack'[i] = stack[i]
      BY <1>1, <1>11, DetourCallsFacts DEF DetourCalls
    <2>2. ASSUME NEW i \in 1..((n + 1) - 1), CallsGuarded(i)'
          PROVE  stack'[i + 1].kind = "body"
      <3>1. i \in 1..(n - 1) \/ i = n
        BY <1>1
      <3> QED
        BY <1>5, <2>1, <2>2, <3>1
    <2> QED
      BY <2>1, <2>2 DEF GuardedCallsReachBody
  <1>12. CASE ApiCalls
    <2>1. PICK a \in Api :
            /\ Len(stack') = n + 2 /\ n # 0
            /\ \A i \in 1..n : stack'[i] = stack[i]
            /\ stack'[n + 1].kind = "api" /\ stack'[n + 1].fn = a
            /\ Target[a] = Guard[a] => stack'[n + 2].kind = "body"
      BY <1>1, <1>12, ApiCallsFacts
    <2>2. stack[n].at # "call"
      BY <1>1, <1>12 DEF ApiCalls
    <2>3. ASSUME NEW i, i = n + 1, CallsGuarded(i)'
          PROVE  Target[a] = Guard[a]
      BY <2>1, <2>3 DEF CallsGuarded
    <2>4. ASSUME NEW i \in 1..((n + 2) - 1), CallsGuarded(i)'
          PROVE  stack'[i + 1].kind = "body"
      <3>1. i \in 1..(n - 1) \/ i = n \/ i = n + 1
        BY <1>1
      <3>2. n \in 1..n /\ (n + 1) + 1 = n + 2
        BY <1>1, <2>1
      <3>3. i # n
        BY <1>4, <2>1, <2>2, <2>4, <3>2
      <3>4. CASE i \in 1..(n - 1)
        BY <1>6, <2>1, <2>4, <3>4
      <3>5. CASE i = n + 1
        BY <2>1, <2>3, <2>4, <3>2, <3>5
      <3> QED
        BY <3>1, <3>3, <3>4, <3>5
    <2> QED
      BY <2>1, <2>4 DEF GuardedCallsReachBody
  <1>13. CASE UNCHANGED <<stack, installed>>
    BY <1>13 DEF GuardedCallsReachBody, CallsGuarded
  <1> QED
    BY <1>7, <1>8, <1>9, <1>10, <1>11, <1>12, <1>13 DEF StackMove

\* A call made under a ScopedHookRemove of the very function it calls runs the
\* engine's body, at any depth of nesting: no detour enters itself, and what
\* Lua does through a guarded API function is not reported back to it.
THEOREM GuardedCallsStayGuarded == Spec => []GuardedCallsReachBody
  <1>1. Init => GuardedCallsReachBody
    <2> SUFFICES ASSUME Init
                 PROVE  \A i \in 1..(Len(stack) - 1) : FALSE
      BY DEF GuardedCallsReachBody
    <2>1. Len(stack) = 0
      BY EmptySeq DEF Init
    <2> QED
      BY <2>1
  <1>2. Shape /\ GuardedCallsReachBody /\ [Next]_vars => GuardedCallsReachBody'
    BY EveryStepMoves, GuardStep DEF Shape
  <1> QED
    BY <1>1, <1>2, ShapeInvariant, PTL DEF Spec

-----------------------------------------------------------------------------
(* The events of NetworkEvents.                                             *)

\* A call whose API function returns the event of the call.
EventFrame(frame) == frame.kind = "api" /\ frame.fn \in EventApi \ MayReturnOther

\* The event recorded for the frame at i is the last one.
IsLast(i) == own[i] # NoEvent /\ numEvents = (own[i] + 1) % Width

\* The body that such a call reached, at work above it.
AtWork(i) ==
  /\ i + 1 = Len(stack)
  /\ stack[i + 1].kind = "body" /\ stack[i + 1].fn = Target[stack[i].fn]
  /\ own[i + 1] = NoEvent \/ IsLast(i + 1)

EventsTyped == /\ own \in Seq(Nat \cup {NoEvent}) /\ Len(own) = Len(stack)
               /\ numEvents \in Nat

\* Such a call is on top with its event made, or its body is.
EventInv ==
  /\ EventsTyped
  /\ \A i \in DOMAIN stack :
       EventFrame(stack[i]) => (i = Len(stack) /\ IsLast(i)) \/ AtWork(i)

\* While a body that calls nothing hooked is on top, it can only end.
LEMMA BodyOnTop ==
  ASSUME TypeOK, stack # <<>>, Top.at = "body", Callees[Top.fn] = {}, Next
  PROVE  UNCHANGED stack \/ (At("body") /\ stack' = Lower)
  <1> USE DEF At
  <1>1. CASE DetourStep
    <2>1. ~DetourStep
      BY DEF DetourStep, ResetGameBoot, ResetGameAgain, ResetGameBooted, TickReset,
             TickResetDone, TickNoReset, TickInterrupted, TickGoesOn, Dispatch,
             BodyReturned, ApiReturned, PreReturns, MidReturns, PostReturns,
             DrainCommand, InputReturns, Drained, AutoComplete, CompleteReturns
    <2> QED
      BY <1>1, <2>1
  <1>2. CASE LuaStep
    <2>1. ~InLua
      BY DEF InLua, LuaAt
    <2> QED
      BY <1>2, <2>1 DEF LuaStep, LuaCallsApi, LuaServerReset, LuaEnable, LuaDisable,
                        LuaClear, LuaSetsKeys, LuaFlagsReset, LuaExits
  <1>3. CASE EngineStep
    BY <1>3 DEF EngineStep, BodyCalls, BodyReturns
  <1>4. ASSUME NEW f \in MainCalls, MainCall(f)
        PROVE  FALSE
    BY <1>4 DEF MainCall
  <1>5. CASE \/ \E c \in Commands : ConsoleCommand(c)
             \/ ConsoleTab \/ Interrupt \/ Terminated
    BY <1>5 DEF ConsoleCommand, ConsoleTab, Interrupt, Terminated, vars
  <1> QED
    BY <1>1, <1>2, <1>3, <1>4, <1>5 DEF Next, MainThread

\* What becomes of the recorded events when frames come and go.
LEMMA HandOverFacts ==
  ASSUME EventsTyped, HandOver, NEW n \in Nat, n = Len(stack),
         NEW m \in Nat, m = Len(stack'), DOMAIN stack' = 1..m, m >= n - 1
  PROVE  /\ own' \in Seq(Nat \cup {NoEvent}) /\ Len(own') = m
         /\ \A i \in 1..m : i > n => own'[i] = NoEvent
         /\ m >= n => \A i \in 1..n : own'[i] = own[i]
         /\ m = n - 1 /\ m # 0 /\ stack[m].at = "call" => own'[m] = own[n]
  <1>1. own' = [i \in 1..m |->
                  IF i > n THEN NoEvent
                  ELSE IF i = m /\ i < n /\ stack[i].at = "call"
                  THEN own[i + 1]
                  ELSE own[i]]
    BY DEF HandOver
  <1>2. Len(own) = n /\ \A i \in 1..n : own[i] \in Nat \cup {NoEvent}
    BY ElementOfSeq DEF EventsTyped
  <1>3. ASSUME NEW i \in 1..m
        PROVE  own'[i] \in Nat \cup {NoEvent}
    <2>1. i <= n /\ ~(i = m /\ i < n /\ stack[i].at = "call") => i \in 1..n
      OBVIOUS
    <2>2. i < n => i + 1 \in 1..n
      OBVIOUS
    <2> QED
      BY <1>1, <1>2, <2>1, <2>2
  <1>4. own' \in [1..m -> Nat \cup {NoEvent}]
    BY <1>1, <1>3
  <1>5. own' \in Seq(Nat \cup {NoEvent}) /\ Len(own') = m
    BY <1>4, SeqDef, LenProperties
  <1>6. \A i \in 1..m : i > n => own'[i] = NoEvent
    BY <1>1
  <1>7. m >= n => \A i \in 1..n : own'[i] = own[i]
    BY <1>1
  <1>8. m = n - 1 /\ m # 0 /\ stack[m].at = "call" => own'[m] = own[n]
    BY <1>1
  <1> QED
    BY <1>5, <1>6, <1>7, <1>8

\* An API call of EventApi waits on top or right under the body it reached.
LEMMA EventFrames ==
  ASSUME Shape, EventInv, NEW n \in Nat, n = Len(stack)
  PROVE  /\ DOMAIN stack = 1..n
         /\ \A i \in 1..n : EventFrame(stack[i]) =>
              /\ stack[i].at = "call"
              /\ i = n => Top.kind = "api" /\ Top.at = "call" /\ IsLast(n)
              /\ i # n => /\ i + 1 = n /\ Top.kind = "body" /\ Top.at = "body"
                          /\ Top.fn \in EventFn /\ Callees[Top.fn] = {}
                          /\ own[n] = NoEvent \/ IsLast(n)
  <1>1. stack \in Seq(FrameType) /\ DOMAIN stack = 1..n
    BY LenProperties DEF Shape, TypeOK
  <1>2. ASSUME NEW i \in 1..n, EventFrame(stack[i])
        PROVE  /\ stack[i].at = "call"
               /\ (i = n /\ IsLast(n)) \/ (i # n /\ AtWork(i))
    <2>1. FrameShaped(stack[i], i)
      BY <1>1 DEF Shape, FramesShaped
    <2> QED
      BY <1>1, <1>2, <2>1 DEF EventInv, EventFrame, FrameShaped, AtWork
  <1>3. ASSUME NEW i \in 1..n, EventFrame(stack[i]), AtWork(i)
        PROVE  /\ i + 1 = n /\ Top.kind = "body" /\ Top.at = "body"
               /\ Top.fn \in EventFn /\ Callees[Top.fn] = {}
               /\ own[n] = NoEvent \/ IsLast(n)
    <2>1. /\ i + 1 = n /\ stack[n] = Top /\ stack[n].kind = "body"
          /\ stack[n].fn = Target[stack[i].fn]
          /\ own[n] = NoEvent \/ IsLast(n)
      BY <1>3 DEF AtWork, Top
    <2>2. Top.at = "body"
      <3>1. n \in DOMAIN stack
        BY <1>1, <2>1
      <3>2. FrameShaped(stack[n], n)
        BY <3>1 DEF Shape, FramesShaped
      <3> QED
        BY <2>1, <3>2 DEF FrameShaped
    <2>3. stack[i].fn \in EventApi \ MayReturnOther
      BY <1>3 DEF EventFrame
    <2>4. Top.fn \in EventFn /\ Callees[Top.fn] = {}
      BY <2>1, <2>3, EventCallsPlain
    <2> QED
      BY <2>1, <2>2, <2>4
  <1>4. Top = stack[n]
    BY DEF Top
  <1> QED
    BY <1>1, <1>2, <1>3, <1>4 DEF EventFrame

LEMMA BodyAddsStep ==
  ASSUME Shape, EventInv, BodyAdds, NEW n \in Nat, n = Len(stack)
  PROVE  EventInv'
  <1>1. stack # <<>> /\ n \in 1..n
        /\ Top.at = "body" /\ own[n] = NoEvent /\ Len(own) = n
        /\ own \in Seq(Nat \cup {NoEvent}) /\ numEvents \in Nat
        /\ own' = [own EXCEPT ![n] = numEvents]
        /\ numEvents' = (numEvents + 1) % Width
        /\ stack' = stack
    <2>1. stack \in Seq(FrameType) /\ stack # <<>>
      BY DEF Shape, TypeOK, BodyAdds, At, Running
    <2>2. Len(stack) \in Nat /\ Len(stack) # 0
      BY <2>1, EmptySeq, LenProperties
    <2> QED
      BY <2>1, <2>2 DEF EventInv, EventsTyped, BodyAdds, At, vars
  <1>2. own' \in Seq(Nat \cup {NoEvent}) /\ Len(own') = n /\ own'[n] = numEvents
    BY <1>1, ExceptSeq, LenProperties
  <1>3. numEvents' \in Nat
    BY <1>1, EventsOK
  <1>4. IsLast(n)'
    BY <1>1, <1>2 DEF IsLast, NoEvent
  <1>5. ASSUME NEW i \in 1..n, EventFrame(stack[i])
        PROVE  AtWork(i)'
    <2>1. i + 1 = n /\ AtWork(i)
      BY <1>1, <1>5, EventFrames DEF EventInv
    <2> QED
      BY <1>1, <1>4, <2>1 DEF AtWork
  <1>6. DOMAIN stack = 1..n
    BY <1>1, EventFrames
  <1> QED
    BY <1>1, <1>2, <1>3, <1>5, <1>6 DEF EventInv, EventsTyped, EventFrame

\* The frame below a body that made its event takes it over; other frames of
\* EventApi come and go with their bodies.
LEMMA OtherStepEvents ==
  ASSUME Shape, EventInv, OtherStep
  PROVE  EventInv'
  <1> DEFINE n == Len(stack)
             m == Len(stack')
  <1>1. Next /\ StackMove /\ Shape' /\ TypeOK /\ FramesShaped
    BY EveryStepMoves, ShapeStep DEF OtherStep, Shape
  <1>2. /\ n \in Nat /\ n = Len(stack) /\ m \in Nat /\ m = Len(stack')
        /\ DOMAIN stack = 1..n /\ DOMAIN stack' = 1..m
        /\ stack \in Seq(FrameType) /\ stack' \in Seq(FrameType)
    <2>1. stack \in Seq(FrameType) /\ stack' \in Seq(FrameType)
      BY <1>1 DEF Shape, TypeOK
    <2> QED
      BY <2>1, LenProperties
  <1> HIDE DEF n, m
  <1>3. m >= n - 1
    <2>1. CASE Proceeds
      BY <1>1, <1>2, <2>1, ProceedsFacts
    <2>2. CASE Pops
      BY <1>1, <1>2, <2>2, PopsFacts
    <2>3. CASE Pushes
      BY <1>1, <1>2, <2>3, PushesFacts
    <2>4. CASE ProceedsAndPushes
      <3>1. m = n + 1
        BY <1>1, <1>2, <2>4, ProceedsAndPushesFacts
      <3> QED
        BY <1>2, <3>1
    <2>5. CASE DetourCalls
      BY <1>1, <1>2, <2>5, DetourCallsFacts
    <2>6. CASE ApiCalls
      BY <1>1, <1>2, <2>6, ApiCallsFacts
    <2>7. CASE UNCHANGED <<stack, installed>>
      BY <1>2, <2>7
    <2> QED
      BY <1>1, <2>1, <2>2, <2>3, <2>4, <2>5, <2>6, <2>7 DEF StackMove
  <1>4. /\ own' \in Seq(Nat \cup {NoEvent}) /\ Len(own') = m
        /\ \A i \in 1..m : i > n => own'[i] = NoEvent
        /\ m >= n => \A i \in 1..n : own'[i] = own[i]
        /\ m = n - 1 /\ m # 0 /\ stack[m].at = "call" => own'[m] = own[n]
    BY <1>2, <1>3, HandOverFacts DEF OtherStep, EventInv
  <1>5. EventsTyped' /\ numEvents' = numEvents
    BY <1>2, <1>4 DEF EventsTyped, EventInv, OtherStep
  <1>6. SUFFICES ASSUME NEW k \in 1..m, EventFrame(stack'[k])
                 PROVE  (k = m /\ IsLast(k)') \/ AtWork(k)'
    BY <1>2, <1>5 DEF EventInv, EventFrame
  <1>7. CASE stack' = stack
    <2>1. m = n /\ own'[k] = own[k] /\ (k + 1 = n => own'[n] = own[n])
      BY <1>2, <1>4, <1>7
    <2>2. (k = n /\ IsLast(k)) \/ AtWork(k)
      BY <1>2, <1>6, <1>7, <2>1 DEF EventInv
    <2> QED
      BY <1>2, <1>5, <1>7, <2>1, <2>2 DEF AtWork, IsLast
  <1>8. CASE \E i \in 1..n : EventFrame(stack[i]) /\ i + 1 = n
    <2>1. PICK i \in 1..n : EventFrame(stack[i]) /\ i + 1 = n
      BY <1>8
    <2>2. /\ Top.at = "body" /\ Top.fn \in EventFn /\ Callees[Top.fn] = {}
          /\ own[n] = NoEvent \/ IsLast(n)
          /\ stack[i].at = "call"
      BY <1>2, <2>1, EventFrames
    <2>3. stack # <<>>
      BY <1>2, EmptySeq
    <2>4. SUFFICES ASSUME At("body"), stack' = Lower
                   PROVE  (k = m /\ IsLast(k)') \/ AtWork(k)'
      BY <1>1, <1>7, <2>2, <2>3, BodyOnTop
    <2>5. m = n - 1 /\ \A j \in 1..(n - 1) : stack'[j] = stack[j]
      BY <1>2, <2>3, <2>4, LowerFacts
    <2>6. k \in 1..n /\ k # n /\ EventFrame(stack[k])
      BY <1>2, <1>6, <2>5
    <2>7. k = m /\ i = m
      BY <1>2, <2>1, <2>5, <2>6, EventFrames
    <2>8. IsLast(n)
      <3>1. own[n] # NoEvent
        BY <1>2, <2>2, <2>4, <2>5 DEF OtherStep, EventInv, EventsTyped
      <3> QED
        BY <2>2, <3>1
    <2>9. own'[m] = own[n]
      BY <1>2, <1>4, <2>1, <2>2, <2>5, <2>7
    <2> QED
      BY <1>5, <2>7, <2>8, <2>9 DEF IsLast
  <1>9. CASE /\ \A i \in 1..n : EventFrame(stack[i]) => i = n /\ Top.kind = "api" /\ Top.at = "call"
             /\ stack' # stack
    <2>1. \A i \in 1..n : i # n => ~EventFrame(stack[i])
      BY <1>9
    <2>2. Top.kind # "api" \/ Top.at # "call" => \A i \in 1..n : ~EventFrame(stack[i])
      BY <1>9
    <2>3. ASSUME NEW frame, NEW depth, IsNew(frame, depth)
          PROVE  ~EventFrame(frame)
      BY <2>3 DEF IsNew, FrameShaped, EventFrame
    <2>4. CASE Proceeds
      BY <1>2, <1>6, <2>2, <2>3, <2>4, <1>1, ProceedsFacts DEF Proceeds
    <2>5. CASE Pops
      BY <1>2, <1>6, <2>1, <2>5, <1>1, PopsFacts
    <2>6. CASE Pushes
      BY <1>2, <1>6, <2>2, <2>3, <2>6, <1>1, PushesFacts, EmptySeq DEF Pushes
    <2>7. CASE ProceedsAndPushes
      <3>1. /\ m = n + 1
            /\ \A i \in 1..(n - 1) : stack'[i] = stack[i]
            /\ ~EventFrame(stack'[n]) /\ ~EventFrame(stack'[n + 1])
        <4>1. /\ Len(stack') = n + 1
              /\ \A i \in 1..(n - 1) : stack'[i] = stack[i]
              /\ IsNew(stack'[n], n) /\ IsNew(stack'[n + 1], n + 1)
          BY <1>1, <1>2, <2>7, ProceedsAndPushesFacts
        <4> QED
          BY <1>2, <2>3, <4>1
      <3>2. \A i \in 1..(n - 1) : ~EventFrame(stack'[i])
        BY <1>2, <2>1, <3>1
      <3>3. k \in 1..(n - 1) \/ k = n \/ k = n + 1
        BY <1>2, <1>6, <3>1
      <3> QED
        BY <1>6, <3>1, <3>2, <3>3
    <2>8. CASE DetourCalls
      BY <1>2, <1>6, <2>2, <2>8, <1>1, DetourCallsFacts DEF DetourCalls, EventFrame
    <2>9. CASE ApiCalls
      <3>1. PICK a \in Api :
              /\ m = n + 2
              /\ \A i \in 1..n : stack'[i] = stack[i]
              /\ stack'[n + 1].kind = "api" /\ stack'[n + 1].fn = a
              /\ stack'[n + 2].at # "call" /\ FrameShaped(stack'[n + 2], n + 2)
              /\ stack'[n + 2].fn = Target[a]
              /\ Target[a] = Guard[a] \/ Target[a] \in Unhooked
                   => stack'[n + 2].kind = "body"
        BY <1>1, <1>2, <2>9, ApiCallsFacts
      <3>2. \A i \in 1..n : ~EventFrame(stack'[i])
        BY <2>2, <2>9, <3>1 DEF ApiCalls
      <3>3. ~EventFrame(stack'[n + 2])
        BY <3>1 DEF FrameShaped, EventFrame
      <3>4. k = n + 1
        BY <1>2, <1>6, <3>1, <3>2, <3>3
      <3>5. stack'[n + 2].kind = "body"
        BY <1>6, <3>1, <3>4, EventCallsPlain DEF EventFrame
      <3>6. own'[n + 2] = NoEvent
        BY <1>2, <1>4, <3>1
      <3>7. k + 1 = m /\ k + 1 = n + 2
        BY <1>2, <3>1, <3>4
      <3> QED
        BY <1>2, <3>1, <3>4, <3>5, <3>6, <3>7 DEF AtWork
    <2> QED
      BY <1>1, <1>9, <2>4, <2>5, <2>6, <2>7, <2>8, <2>9 DEF StackMove
  <1>10. \A i \in 1..n : EventFrame(stack[i]) =>
           i + 1 = n \/ (i = n /\ Top.kind = "api" /\ Top.at = "call")
    BY <1>2, EventFrames
  <1> QED
    BY <1>7, <1>8, <1>9, <1>10

LEMMA EventsInvariant == SpecEvents => [](Shape /\ EventInv)
  <1>1. InitEvents => Shape /\ EventInv
    <2> SUFFICES ASSUME InitEvents
                 PROVE  Shape /\ EventInv
      OBVIOUS
    <2>1. Init /\ own = <<>> /\ numEvents = 0
      BY DEF InitEvents
    <2>2. stack = <<>>
      BY DEF InitEvents, Init
    <2>3. DOMAIN stack = {}
      BY <2>2, EmptyStack
    <2>4. EventsTyped
      BY <2>1, <2>2, EmptySeq DEF EventsTyped
    <2> QED
      BY <2>1, <2>3, <2>4, ShapeInit DEF EventInv
  <1>2. Shape /\ EventInv /\ [NextEvents]_<<vars, eventVars>> => (Shape /\ EventInv)'
    <2> SUFFICES ASSUME Shape, EventInv, [NextEvents]_<<vars, eventVars>>
                 PROVE  Shape' /\ EventInv'
      OBVIOUS
    <2>1. [Next]_vars
      BY DEF NextEvents, BodyAdds, OtherStep
    <2>2. Shape'
      BY <2>1, ShapeStep
    <2>3. CASE UNCHANGED <<vars, eventVars>>
      BY <2>2, <2>3 DEF vars, eventVars, EventInv, EventsTyped, EventFrame, AtWork, IsLast
    <2> QED
      <3>1. Len(stack) \in Nat
        BY LenProperties DEF Shape, TypeOK
      <3> QED
        BY <2>2, <2>3, <3>1, BodyAddsStep, OtherStepEvents DEF NextEvents
  <1> QED
    BY <1>1, <1>2, PTL DEF SpecEvents

\* An API function that creates an event returns the one its own call appended
\* to Engine::events (MayReturnOther names the exceptions), for every call graph of the engine, every handler and every
\* width of numEvents: no call or handler around them can slip in another one.
THEOREM CallsEventIsReturned == SpecEvents => []ReturnsTheCallsEvent
  <1>1. Shape /\ EventInv => ReturnsTheCallsEvent
    <2> SUFFICES ASSUME Shape, EventInv, Returning, Top.fn \notin MayReturnOther
                 PROVE  own[Len(own)] # NoEvent /\ numEvents = (own[Len(own)] + 1) % Width
      BY DEF ReturnsTheCallsEvent
    <2> DEFINE n == Len(stack)
    <2>1. stack \in Seq(FrameType) /\ stack # <<>> /\ Len(own) = n
      BY DEF Shape, TypeOK, Returning, At, Running, EventInv, EventsTyped
    <2>2. n \in Nat /\ n # 0
      BY <2>1, EmptySeq, LenProperties
    <2> HIDE DEF n
    <2>3. n \in 1..n /\ n = Len(stack)
      BY <2>2 DEF n
    <2>4. EventFrame(stack[n])
      BY <2>3 DEF Returning, EventFrame, Top
    <2> QED
      BY <2>1, <2>2, <2>3, <2>4, EventFrames DEF IsLast
  <1> QED
    BY <1>1, EventsInvariant, PTL

=============================================================================
