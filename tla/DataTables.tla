----------------------------- MODULE DataTables -----------------------------
(***************************************************************************)
(* The data tables of entities.  Lua scripts keep data of their own in     *)
(* player.data, human.data, item.data, vehicle.data and rigidBody.data.     *)
(* The tables are held per slot of the engine's arrays (api.cpp), and slots *)
(* are reused, so the detours that create and delete entities and the API  *)
(* functions that do the same must drop a slot's table at the right moment *)
(* around handlers that may fill it again.  luaInit must drop them all:    *)
(* they live in the Lua state it deletes.                                  *)
(*                                                                         *)
(* Lua may run at any time on the main thread, so its operations need no   *)
(* guard of their own; what is on the stack are the detours that wait for  *)
(* a handler.  Engine bodies are atomic here: HookDispatch has their       *)
(* nesting, and the detours' own vetoes and Post handlers in general.      *)
(***************************************************************************)
EXTENDS Integers, Sequences

CONSTANTS
  Slots,      \* indices of the engine's arrays
  KindOf,     \* the array a slot belongs to
  MaxBirths,  \* bound: entities created
  MaxDepth,   \* bound: detours that wait for a handler
  MaxResets   \* bound: resets of the Lua state

Kinds == {"player", "human", "item", "vehicle", "body"}

ASSUME DataTablesConstants ==
  /\ KindOf \in [Slots -> Kinds]
  /\ MaxBirths \in Nat /\ MaxDepth \in Nat /\ MaxResets \in Nat

NoTable == [state |-> 0, entity |-> 0]
NoSlot  == "no slot"

ASSUME NoSlotIsNone == NoSlot \notin Slots

VARIABLES
  entity,  \* which entity is in a slot, 0 for none
  table,   \* the data table of a slot: its Lua state, the entity it is of
  births,  \* entities created so far
  lua,     \* the Lua state, counted from 1
  stack    \* the detours that wait for a handler

vars == <<entity, table, births, lua, stack>>

TableType == [state : Nat, entity : Nat]

\* Rigid bodies have no handlers and no detour of their deletion.
HookedKinds == Kinds \ {"body"}
Hooked == {s \in Slots : KindOf[s] \in HookedKinds}

FrameType == [op : {"create", "delete"}, kind : HookedKinds, at : {"pre", "post"},
              slot : Slots \cup {NoSlot}]

Frame(op, kind, s) == [op |-> op, kind |-> kind, at |-> "pre", slot |-> s]

Top   == stack[Len(stack)]
Lower == SubSeq(stack, 1, Len(stack) - 1)
At(op, at) == stack # <<>> /\ Top.op = op /\ Top.at = at

Clear(s) == table' = [table EXCEPT ![s] = NoTable]

\* The engine puts a new entity into a free slot.
BodyCreates(s) ==
  /\ entity[s] = 0 /\ births < MaxBirths
  /\ births' = births + 1
  /\ entity' = [entity EXCEPT ![s] = births + 1]

BodyDeletes(s) == entity' = [entity EXCEPT ![s] = 0]

-----------------------------------------------------------------------------
\* After the first luaInit.
Init ==
  /\ entity = [s \in Slots |-> 0]
  /\ table = [s \in Slots |-> NoTable]
  /\ births = 0
  /\ lua = 1
  /\ stack = <<>>

\* Hooks::create<kind>, the handler disabled.
CreateQuietly(s) ==
  /\ BodyCreates(s)
  /\ Clear(s)
  /\ UNCHANGED <<lua, stack>>

\* ... with the handler enabled: it is asked first ...
CreateAsks(kind) ==
  /\ Len(stack) < MaxDepth
  /\ stack' = Append(stack, Frame("create", kind, NoSlot))
  /\ UNCHANGED <<entity, table, births, lua>>

\* ... it vetoes the creation, or the engine has no free slot (id -1), or there
\* is a new entity; all kinds but items clear the slot's table at once ...
CreateAnswered ==
  /\ At("create", "pre")
  /\ UNCHANGED lua
  /\ \/ stack' = Lower /\ UNCHANGED <<entity, table, births>>
     \/ \E s \in Slots :
          /\ KindOf[s] = Top.kind
          /\ BodyCreates(s)
          /\ IF KindOf[s] = "item" THEN UNCHANGED table ELSE Clear(s)
          /\ stack' = Append(Lower, [Top EXCEPT !.at = "post", !.slot = s])

\* ... and the Post handler returns.  Only now createItem clears the table.
CreateReturns ==
  /\ At("create", "post")
  /\ IF Top.kind = "item" THEN Clear(Top.slot) ELSE UNCHANGED table
  /\ stack' = Lower
  /\ UNCHANGED <<entity, births, lua>>

\* Hooks::delete<kind>, the handler disabled.
DeleteQuietly(s) ==
  /\ entity[s] # 0
  /\ BodyDeletes(s)
  /\ Clear(s)
  /\ UNCHANGED <<births, lua, stack>>

DeleteAsks(s) ==
  /\ entity[s] # 0
  /\ Len(stack) < MaxDepth
  /\ stack' = Append(stack, Frame("delete", KindOf[s], s))
  /\ UNCHANGED <<entity, table, births, lua>>

\* Faulty: a vetoed deletion clears the table.
DeleteAnsweredClears ==
  /\ At("delete", "pre")
  /\ \/ stack' = Lower /\ Clear(Top.slot) /\ UNCHANGED entity
     \/ /\ BodyDeletes(Top.slot)
        /\ stack' = Append(Lower, [Top EXCEPT !.at = "post"])
        /\ UNCHANGED table
  /\ UNCHANGED <<births, lua>>

\* Vetoed, or deleted by the engine.  Whatever the handler did to the slot in
\* between, it is the slot that the engine frees.
DeleteAnswered ==
  /\ At("delete", "pre")
  /\ \/ stack' = Lower /\ UNCHANGED entity
     \/ BodyDeletes(Top.slot) /\ stack' = Append(Lower, [Top EXCEPT !.at = "post"])
  /\ UNCHANGED <<table, births, lua>>

DeleteReturns ==
  /\ At("delete", "post")
  /\ Clear(Top.slot)
  /\ stack' = Lower
  /\ UNCHANGED <<entity, births, lua>>

\* A rigid body goes with what it belongs to.
EngineFreesBody(s) ==
  /\ KindOf[s] = "body" /\ entity[s] # 0
  /\ BodyDeletes(s)
  /\ UNCHANGED <<table, births, lua, stack>>

-----------------------------------------------------------------------------
\* Faulty: the slot keeps the table it had.
ApiCreatesKeeps(s) ==
  /\ BodyCreates(s)
  /\ UNCHANGED <<table, lua, stack>>

\* items.create, vehicles.create, players.createBot.
ApiCreates(s) ==
  /\ BodyCreates(s)
  /\ Clear(s)
  /\ UNCHANGED <<lua, stack>>

\* humans.create for a player with a human: it is deleted first, and only the
\* table of the new human's slot is cleared.
HumansCreateReplaces(old, s) ==
  /\ KindOf[old] = "human" /\ entity[old] # 0
  /\ UNCHANGED <<lua, stack>>
  /\ \/ BodyDeletes(old) /\ UNCHANGED <<table, births>>
     \/ /\ KindOf[s] = "human" /\ (s = old \/ entity[s] = 0)
        /\ births < MaxBirths
        /\ births' = births + 1
        /\ entity' = [entity EXCEPT ![old] = 0, ![s] = births + 1]
        /\ Clear(s)

\* Faulty: the table stays.
ApiRemovesKeeps(s) ==
  /\ BodyDeletes(s)
  /\ UNCHANGED <<table, births, lua, stack>>

\* player:remove, human:remove, item:remove, vehicle:remove, of any slot.
ApiRemoves(s) ==
  /\ BodyDeletes(s)
  /\ Clear(s)
  /\ UNCHANGED <<births, lua, stack>>

\* entity.data of any slot Lua has a reference to, free or not.
GetDataTable(s) ==
  /\ table[s] = NoTable
  /\ table' = [table EXCEPT ![s] = [state |-> lua, entity |-> entity[s]]]
  /\ UNCHANGED <<entity, births, lua, stack>>

\* Faulty: the loop over the vehicles is forgotten.
LuaInitForgets ==
  /\ stack = <<>>
  /\ lua <= MaxResets
  /\ lua' = lua + 1
  /\ table' = [s \in Slots |-> IF KindOf[s] = "vehicle" THEN table[s] ELSE NoTable]
  /\ UNCHANGED <<entity, births, stack>>

\* luaInit(true): every table goes before the Lua state does.  No detour waits
\* for a handler then: theorem LuaInitIsAlone.
LuaInit ==
  /\ stack = <<>>
  /\ lua <= MaxResets
  /\ lua' = lua + 1
  /\ table' = [s \in Slots |-> NoTable]
  /\ UNCHANGED <<entity, births, stack>>

-----------------------------------------------------------------------------
Detours ==
  \/ \E s \in Slots : CreateQuietly(s) \/ EngineFreesBody(s)
  \/ \E s \in Hooked : DeleteQuietly(s) \/ DeleteAsks(s)
  \/ \E kind \in HookedKinds : CreateAsks(kind)
  \/ CreateAnswered \/ CreateReturns
  \/ DeleteAnswered \/ DeleteReturns

LuaCalls ==
  \/ \E s \in Hooked : ApiCreates(s) \/ ApiRemoves(s)
  \/ \E old, s \in Slots : HumansCreateReplaces(old, s)
  \/ \E s \in Slots : GetDataTable(s)

Next == Detours \/ LuaCalls \/ LuaInit

Spec == Init /\ [][Next]_vars

-----------------------------------------------------------------------------
(* Properties.                                                              *)

\* Types; a frame that waits for a Post handler knows its slot, and a frame is
\* of the kind of its slot.
FrameOK(frame) ==
  /\ frame.at = "post" \/ frame.op = "delete" => frame.slot \in Slots
  /\ frame.slot \in Slots => frame.kind = KindOf[frame.slot]

TypeOK ==
  /\ entity \in [Slots -> Nat]
  /\ table \in [Slots -> TableType]
  /\ births \in Nat
  /\ lua \in Nat \ {0}
  /\ stack \in Seq(FrameType)
  /\ \A i \in DOMAIN stack : FrameOK(stack[i])

HasTable(s) == table[s] # NoTable

\* A frame still has to clear the table of s.
Pending(op, s) ==
  \E i \in DOMAIN stack : stack[i].op = op /\ stack[i].at = "post" /\ stack[i].slot = s

\* Every table belongs to the Lua state that is alive: deleting or reading one
\* of a deleted state would touch freed memory.
TablesOfLiveState == \A s \in Slots : HasTable(s) => table[s].state = lua

\* An entity's table was made for that entity, never for a former occupant of
\* its slot; but PostItemCreate handlers see what the slot had, because
\* createItem clears the table after them.
NoInheritedData ==
  \A s \in Slots : HasTable(s) /\ entity[s] # 0 =>
    \/ table[s].entity = entity[s]
    \/ KindOf[s] = "item" /\ Pending("create", s)

\* Once an entity is gone its data is not found at its slot: it is cleared at
\* the latest when the detour of the deletion returns.  Two kinds are left out:
\* humans, which humans.create may replace without clearing, and rigid bodies.
RemovedLeavesNoData ==
  \A s \in Slots : HasTable(s) /\ entity[s] = 0 =>
    \/ table[s].entity = 0
    \/ Pending("delete", s)
    \/ KindOf[s] \in {"human", "body"}

\* Data stored for an entity is only dropped with the entity, by a Lua reset,
\* or by one of two late clears: createItem's after PostItemCreate, and that of
\* a deletion whose Post handler has already put a new entity into the slot.
LateClear(s) ==
  /\ stack # <<>> /\ Top.at = "post" /\ Top.slot = s
  /\ stack' = Lower
  /\ Top.op = "delete" \/ KindOf[s] = "item"

KeepsLiveData ==
  \A s \in Slots :
    HasTable(s) /\ entity[s] # 0 /\ table[s].entity = entity[s]
      /\ table'[s] # table[s] =>
    \/ entity'[s] # entity[s]
    \/ lua' # lua
    \/ LateClear(s)

LiveDataKept == [][KeepsLiveData]_vars

=============================================================================
