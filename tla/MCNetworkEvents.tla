--------------------------- MODULE MCNetworkEvents ---------------------------
(***************************************************************************)
(* The two sound events, the engine's explosion that may create them, and  *)
(* the API functions that call these.  numEvents wraps at 3.               *)
(***************************************************************************)
EXTENDS NetworkEvents, HookTable
SoundFn   == {"createEventSound", "createEventSoundItem"}
MCFn      == {Tick, Reset} \cup SoundFn
MCUnhooked == {"createEventExplosion"}
MCEventFn == SoundFn \cup MCUnhooked
MCApi     == {"events.createSound", "events.createSound:item", "item:sound",
              "events.createExplosion"}
MCEventApi == MCApi \ {"item:sound"}
MCTarget  == [a \in MCApi |-> AllApi[a].calls]
MCGuard   == [a \in MCApi |-> AllApi[a].removes]
MCProfile == [f \in MCFn |-> AllHooks[f]]
MCCallees ==
  [f \in MCFn \cup MCUnhooked |->
     IF f = "createEventExplosion" THEN SoundFn ELSE {}]
MCMainCalls == {Tick, Reset}
MCKeys == UNION {AllHooks[f].keys : f \in MCFn}
=============================================================================
