---------------------------- MODULE NetworkEvents ----------------------------
(***************************************************************************)
(* The events the engine keeps for its clients, and the event a Lua        *)
(* function returns.                                                       *)
(*                                                                         *)
(* The engine's createEvent functions append to Engine::events and count   *)
(* in Engine::numEvents, an unsigned short.  An API function of api.cpp    *)
(* that creates an event calls one of them under a ScopedHookRemove and    *)
(* returns &Engine::events[*Engine::numEvents - 1], the last event there   *)
(* is when the call is over.  Whether this is the event of the call depends *)
(* on everything HookDispatch models: handlers that veto the body or create *)
(* events of their own, bodies that call other detours.  This module       *)
(* follows, for each frame of that module's stack, the event its call made. *)
(***************************************************************************)
EXTENDS HookDispatch

CONSTANTS
  EventFn,   \* engine functions that append one event
  EventApi,  \* API functions that return the last event
  Width      \* values of numEvents; 2^16 in the program

ASSUME EventsOK ==
  /\ EventFn \subseteq Engine
  /\ EventApi \subseteq Api
  /\ Width \in Nat \ {0}

\* events.createSound with an item removes the wrong detour, so a handler runs
\* inside the call and may veto it or create more events; the engine's explosion
\* may report sounds of its own.
MayReturnOther == {"events.createSound:item", "events.createExplosion"}

\* The others call one createEvent function, with its detour (if it has one)
\* removed.  Its body, which is closed source, is taken to call nothing hooked.
ASSUME EventCallsPlain ==
  \A a \in EventApi \ MayReturnOther :
    /\ Target[a] \in EventFn /\ Callees[Target[a]] = {}
    /\ Target[a] = Guard[a] \/ Target[a] \in Unhooked

VARIABLES
  own,       \* for each frame of stack: the index of the event its call made,
             \* or NoEvent
  numEvents  \* Engine::numEvents

NoEvent == -1

eventVars == <<own, numEvents>>

-----------------------------------------------------------------------------
InitEvents == Init /\ own = <<>> /\ numEvents = 0

\* The frames that the step just taken left in place keep their events and the
\* new ones have none.  A body or a detour that ends passes its event to the
\* frame that waits for it.
HandOver ==
  own' = [i \in DOMAIN stack' |->
            IF i > Len(stack) THEN NoEvent
            ELSE IF i = Len(stack') /\ i < Len(stack) /\ stack[i].at = "call"
            THEN own[i + 1]
            ELSE own[i]]

\* The body of a createEvent function appends its event.  What else the body
\* calls may come before or after.
BodyAdds ==
  /\ At("body") /\ Top.fn \in EventFn
  /\ own[Len(own)] = NoEvent
  /\ own' = [own EXCEPT ![Len(own)] = numEvents]
  /\ numEvents' = (numEvents + 1) % Width
  /\ UNCHANGED vars

\* A step of the main thread or of another one; a createEvent body ends only
\* when it has appended its event.
OtherStep ==
  /\ Next
  /\ At("body") /\ Top.fn \in EventFn /\ Len(stack') < Len(stack)
       => own[Len(own)] # NoEvent
  /\ HandOver
  /\ UNCHANGED numEvents

NextEvents == BodyAdds \/ OtherStep

SpecEvents == InitEvents /\ [][NextEvents]_<<vars, eventVars>>

-----------------------------------------------------------------------------
(* Properties.                                                              *)

\* An API function is about to return &Engine::events[*Engine::numEvents - 1].
Returning == At("call") /\ Top.kind = "api" /\ Top.fn \in EventApi

\* The event an API function returns is the one its call made, whatever runs
\* around the call, but for the two of MayReturnOther; only if that event was the
\* last before numEvents wraps to 0 it is events[-1].
ReturnsTheCallsEvent ==
  Returning /\ Top.fn \notin MayReturnOther
    => own[Len(own)] # NoEvent /\ numEvents = (own[Len(own)] + 1) % Width

=============================================================================
