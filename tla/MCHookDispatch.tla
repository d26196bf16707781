--------------------------- MODULE MCHookDispatch ---------------------------
(***************************************************************************)
(* A tick, a game reset, item creation and accounts, whose detour asks     *)
(* twice: the whole control flow of the main thread.  The engine's call    *)
(* graph is closed source; the one below lets every body call the hooked   *)
(* functions it is known to lead to.                                       *)
(***************************************************************************)
EXTENDS HookDispatch, HookTable

Account    == "createAccountByJoinTicket"
MCFn       == {Tick, Reset, "createItem", Account}
MCUnhooked == {"createRope"}
MCApi      == {"items.create", "items.createRope"}
MCTarget   == [a \in MCApi |-> AllApi[a].calls]
MCGuard    == [a \in MCApi |-> AllApi[a].removes]
MCProfile  == [f \in MCFn |-> AllHooks[f]]

MCCallees ==
  (Tick :> {Reset, "createItem", Account}) @@ (Reset :> {"createItem"}) @@
  ("createItem" :> {}) @@ (Account :> {}) @@ ("createRope" :> {"createItem"})

MCMainCalls == {Tick, Reset}

MCKeys == UNION {AllHooks[f].keys : f \in MCFn} \cup {"InterruptSignal", "ConsoleInput"}

\* The account detour is enabled by any of its keys: one of them is enough.
OneAccountKey == enabled \cap Profile[Account].keys \subseteq {"AccountTicketBegin"}

=============================================================================
