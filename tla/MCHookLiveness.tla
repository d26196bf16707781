--------------------------- MODULE MCHookLiveness ---------------------------
(***************************************************************************)
(* Ticks, game resets and the packets a tick writes, for what must          *)
(* eventually happen.                                                      *)
(***************************************************************************)
EXTENDS HookDispatch, HookTable

MCFn      == {Tick, Reset, "packetWrite"}
NoApi     == {}
NoTable   == [a \in NoApi |-> None]
MCProfile == [f \in MCFn |-> AllHooks[f]]
MCCallees == (Tick :> {Reset, "packetWrite"}) @@ (Reset :> {}) @@ ("packetWrite" :> {})
MCMainCalls == {Tick, Reset}
MCKeys == UNION {AllHooks[f].keys : f \in MCFn} \cup
          {"InterruptSignal", "ConsoleInput", "ConsoleAutoComplete"}

=============================================================================
