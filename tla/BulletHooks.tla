----------------------------- MODULE BulletHooks -----------------------------
(***************************************************************************)
(* Bullets and line intersection (hooks.cpp): the detours of               *)
(* bulletSimulation, lineIntersectHuman and lineIntersectLevel, which have *)
(* a shape of their own.                                                   *)
(*                                                                         *)
(* Hooks::isInBulletSimulation tells the two lineIntersect detours that the *)
(* engine tests a bullet, whose address they compute from that of the      *)
(* position they are given.  A flag, not an argument: it has to be right   *)
(* whatever the handlers of a simulation do and call.                      *)
(*                                                                         *)
(* The frames below are those of the three detours and of engine bodies.   *)
(* The bodies of the tests themselves call nothing that is hooked.  Which  *)
(* bodies test lines is closed source: any that an API function calls may. *)
(***************************************************************************)
EXTENDS Integers, Sequences

CONSTANT MaxOps  \* bound: tests of bodies and calls of handlers per main loop call

ASSUME MaxOpsOK == MaxOps \in Nat

Keys == {"PhysicsBullets", "BulletMayHitHuman", "LineIntersectHuman", "BulletHitHuman"}

VARIABLES
  isInBulletSimulation,
  run,          \* hook.run is set
  enabledKeys,
  stack,        \* the frames, outermost first
  ops

vars == <<isInBulletSimulation, run, enabledKeys, stack, ops>>

-----------------------------------------------------------------------------
(* fn: whose frame it is ("engine" is a body the main loop calls, "api" one *)
(* that an API function calls); at: where it is; live: bulletSimulation took *)
(* its enabled branch.  For a test: ofBullet, whether the engine was testing *)
(* a bullet; bullet, whether the detour set its variable of that name, from *)
(* the address it was given.                                                *)

LuaAt == {"pre", "post", "mayhit", "hit", "bullethit"}

FrameType ==
  [fn: {"simulation", "human", "level", "engine", "api"},
   at: LuaAt \cup {"body", "line", "found"},
   live: BOOLEAN, ofBullet: BOOLEAN, bullet: BOOLEAN]

Frame(fn, place) ==
  [fn |-> fn, at |-> place, live |-> FALSE, ofBullet |-> FALSE, bullet |-> FALSE]

\* The detour of a test, called by the frame on top.
TestFrame(fn, place) ==
  [fn |-> fn, at |-> place, live |-> FALSE,
   ofBullet |-> stack[Len(stack)].fn = "simulation", bullet |-> isInBulletSimulation]

Top         == stack[Len(stack)]
Lower       == SubSeq(stack, 1, Len(stack) - 1)
Push(frame) == stack' = Append(stack, frame)
Become(frame) == stack' = Append(Lower, frame)
At(place)   == stack # <<>> /\ Top.at = place
InLua       == stack # <<>> /\ Top.at \in LuaAt
Spend       == ops < MaxOps /\ ops' = ops + 1

-----------------------------------------------------------------------------
Init ==
  /\ isInBulletSimulation = FALSE
  /\ run = FALSE /\ enabledKeys = {}
  /\ stack = <<>> /\ ops = 0

\* luaInit, between the calls of the main loop.
LuaInit ==
  /\ stack = <<>>
  /\ run' \in BOOLEAN /\ enabledKeys' \in SUBSET Keys
  /\ UNCHANGED <<isInBulletSimulation, stack, ops>>

\* The main loop runs a body that tests lines but no bullets.
EngineBegins ==
  /\ stack = <<>>
  /\ Push(Frame("engine", "body")) /\ ops' = 0
  /\ UNCHANGED <<isInBulletSimulation, run, enabledKeys>>

\* Hooks::bulletSimulation.
SimulationBegins ==
  /\ stack = <<>>
  /\ isInBulletSimulation' = TRUE
  /\ LET live == "PhysicsBullets" \in enabledKeys
     IN  Push([Frame("simulation", IF live /\ run THEN "pre" ELSE "body")
                 EXCEPT !.live = live])
  /\ ops' = 0
  /\ UNCHANGED <<run, enabledKeys>>

\* Faulty: a vetoed simulation leaves the flag set.
SimulationAskedKeepsFlag(noParent) ==
  /\ At("pre")
  /\ IF noParent
     THEN stack' = Lower
     ELSE Become([Top EXCEPT !.at = "body"])
  /\ UNCHANGED <<isInBulletSimulation, run, enabledKeys, ops>>

SimulationAsked(noParent) ==
  /\ At("pre")
  /\ IF noParent
     THEN stack' = Lower /\ isInBulletSimulation' = FALSE
     ELSE /\ Become([Top EXCEPT !.at = "body"])
          /\ UNCHANGED isInBulletSimulation
  /\ UNCHANGED <<run, enabledKeys, ops>>

SimulationReturns ==
  /\ At("body") /\ Top.fn = "simulation"
  /\ IF Top.live /\ run
     THEN /\ Become([Top EXCEPT !.at = "post"])
          /\ UNCHANGED isInBulletSimulation
     ELSE stack' = Lower /\ isInBulletSimulation' = FALSE
  /\ UNCHANGED <<run, enabledKeys, ops>>

PostReturns ==
  /\ At("post")
  /\ stack' = Lower /\ isInBulletSimulation' = FALSE
  /\ UNCHANGED <<run, enabledKeys, ops>>

\* Another body ends.
BodyReturns ==
  /\ At("body") /\ Top.fn \in {"engine", "api"}
  /\ stack' = Lower
  /\ UNCHANGED <<isInBulletSimulation, run, enabledKeys, ops>>

-----------------------------------------------------------------------------
\* A body calls lineIntersectHuman; the detour asks BulletMayHitHuman.
TestsHuman ==
  /\ At("body") /\ Spend
  /\ LET asks == isInBulletSimulation /\ run /\ "BulletMayHitHuman" \in enabledKeys
     IN  Push(TestFrame("human", IF asks THEN "mayhit" ELSE "line"))
  /\ UNCHANGED <<isInBulletSimulation, run, enabledKeys>>

\* A body calls lineIntersectLevel; the detour asks BulletMayHit, which has no
\* key.
TestsLevel ==
  /\ At("body") /\ Spend
  /\ Push(TestFrame("level", IF isInBulletSimulation /\ run THEN "mayhit" ELSE "line"))
  /\ UNCHANGED <<isInBulletSimulation, run, enabledKeys>>

MayHitReturns ==
  /\ At("mayhit")
  /\ Become([Top EXCEPT !.at = "line"])
  /\ UNCHANGED <<isInBulletSimulation, run, enabledKeys, ops>>

\* The engine tests the line with the detour removed.  Only a human that was
\* hit is shown to Lua, and only if one of two keys is enabled by then.
LineTested(hit) ==
  /\ At("line")
  /\ IF /\ Top.fn = "human" /\ hit /\ run
        /\ {"LineIntersectHuman", "BulletHitHuman"} \cap enabledKeys # {}
     THEN Become([Top EXCEPT
            !.at = IF "LineIntersectHuman" \in enabledKeys THEN "hit" ELSE "found"])
     ELSE stack' = Lower
  /\ UNCHANGED <<isInBulletSimulation, run, enabledKeys, ops>>

\* The handler of LineIntersectHuman has returned.
HitReturns(noParent) ==
  /\ At("hit")
  /\ IF noParent THEN stack' = Lower ELSE Become([Top EXCEPT !.at = "found"])
  /\ UNCHANGED <<isInBulletSimulation, run, enabledKeys, ops>>

\* BulletHitHuman is asked for a bullet, unless it hit its own player's human or
\* a player in god mode (hurts).  The flag and the key are tested again, and
\* bullet was not initialized if the flag was not set before.
HumanFound(hurts, garbage) ==
  /\ At("found")
  /\ IF /\ isInBulletSimulation /\ (Top.bullet \/ garbage)
        /\ "BulletHitHuman" \in enabledKeys /\ hurts
     THEN Become([Top EXCEPT !.at = "bullethit"])
     ELSE stack' = Lower
  /\ UNCHANGED <<isInBulletSimulation, run, enabledKeys, ops>>

BulletHitReturns ==
  /\ At("bullethit")
  /\ stack' = Lower
  /\ UNCHANGED <<isInBulletSimulation, run, enabledKeys, ops>>

-----------------------------------------------------------------------------
\* A handler calls an API function whose engine body may test lines.  Those of
\* physics.lineIntersect* remove the detours and change nothing here.
LuaCallsApi ==
  /\ InLua /\ Spend
  /\ Push(Frame("api", "body"))
  /\ UNCHANGED <<isInBulletSimulation, run, enabledKeys>>

LuaSetsKeys(keys) ==
  /\ InLua /\ Spend
  /\ enabledKeys' = keys
  /\ UNCHANGED <<isInBulletSimulation, run, stack>>

Next ==
  \/ LuaInit \/ EngineBegins \/ SimulationBegins
  \/ \E result \in BOOLEAN :
       SimulationAsked(result) \/ LineTested(result) \/ HitReturns(result)
  \/ \E hurts, garbage \in BOOLEAN : HumanFound(hurts, garbage)
  \/ SimulationReturns \/ PostReturns \/ BodyReturns
  \/ TestsHuman \/ TestsLevel \/ MayHitReturns \/ BulletHitReturns
  \/ LuaCallsApi
  \/ \E keys \in SUBSET Keys : LuaSetsKeys(keys)

Spec == Init /\ [][Next]_vars

-----------------------------------------------------------------------------
(* Properties.                                                              *)

\* A handler is given a bullet only for a test of a bullet: the flag of a
\* simulation ends with it, however it ends, and a variable that was not set is
\* not passed on.  Only tests by the body of an API function called during the
\* simulation are taken for a bullet's, since the flag does not tell them apart.
BulletsAreBullets ==
  \A i \in DOMAIN stack :
    /\ stack[i].bullet =>
         stack[i].ofBullet \/ \E j \in 1..(i - 1) : stack[j].fn = "api"
    /\ stack[i].at = "bullethit" => stack[i].bullet

=============================================================================
