------------------------------ MODULE HookTable ------------------------------
(***************************************************************************)
(* The detours of hooks.cpp and the API functions of api.cpp that call     *)
(* hooked engine functions, as data: for a detour the keys that enable it  *)
(* and its shape, for an API function what it calls and which detour it    *)
(* removes around the call.  BulletMayHit, LineIntersectHuman and the      *)
(* bullet flag are not in the table: those detours have another shape.     *)
(***************************************************************************)
EXTENDS TLC

\* The common detour: the handler of key may veto the body, which is followed
\* by Post<key>.
Detour(key) == [keys |-> {key}, cond |-> FALSE, veto |-> TRUE,
                mid |-> FALSE, post |-> "always"]

\* Post<key> only for a created entity (id # -1).
Creator(key) == [Detour(key) EXCEPT !.post = "ifid"]

\* No Post handler.
PreOnly(key) == [Detour(key) EXCEPT !.post = "no"]

ResetHook == "resetGame" :> Detour("ResetGame")

LogicHook == "logicSimulation" :> Detour("Logic")

TrafficHooks ==
  "createTraffic" :> Detour("CreateTraffic") @@
  "trafficSimulation" :> Detour("TrafficSimulation") @@
  "aiTrafficCar" :> Detour("TrafficCarAI") @@
  "aiTrafficCarDestination" :> Detour("TrafficCarDestination")

AreaHooks ==
  "areaCreateBlock" :> Detour("AreaCreateBlock") @@
  "areaDeleteBlock" :> Detour("AreaDeleteBlock")

ModeHooks ==
  "logicSimulationRace" :> Detour("LogicRace") @@
  "logicSimulationRound" :> Detour("LogicRound") @@
  "logicSimulationWorld" :> Detour("LogicWorld") @@
  "logicSimulationTerminator" :> Detour("LogicTerminator") @@
  "logicSimulationCoop" :> Detour("LogicCoop") @@
  "logicSimulationVersus" :> Detour("LogicVersus")

SimulationHooks ==
  "logicPlayerActions" :> Detour("PlayerActions") @@
  "physicsSimulation" :> Detour("Physics") @@
  "rigidBodySimulation" :> Detour("PhysicsRigidBodies") @@
  "vehicleSimulateSuspensions" :> Detour("VehicleSuspensions") @@
  "itemWeaponSimulation" :> Detour("ItemWeaponSimulation")

\* packetWrite reports only the first write of a packet and cannot be vetoed.
NetworkHooks ==
  "serverReceive" :> Detour("ServerReceive") @@
  "serverSend" :> Detour("ServerSend") @@
  "packetWrite" :> [PreOnly("PacketBuilding") EXCEPT !.cond = TRUE, !.veto = FALSE] @@
  "packetReceive" :> Detour("PacketReceive") @@
  "calculatePlayerVoice" :> Detour("CalculateEarShots") @@
  "sendPacket" :> Detour("SendPacket")

BulletSimulationHook == "bulletSimulation" :> Detour("PhysicsBullets")

EconomyHooks ==
  "economyCarMarket" :> Detour("EconomyCarMarket") @@
  "saveAccountsServer" :> Detour("AccountsSave")

\* Any of three keys; AccountTicketFound runs after the body and can veto its
\* result together with the Post handler.
AccountHook ==
  "createAccountByJoinTicket" :>
    [Detour("AccountTicket") EXCEPT
       !.keys = {"AccountTicketBegin", "AccountTicketFound", "AccountTicket"},
       !.mid = TRUE]

ConnectHook == "serverSendConnectResponse" :> Detour("SendConnectResponse")

BulletHook == "createBullet" :> Creator("BulletCreate")

PlayerHooks ==
  "createPlayer" :> Creator("PlayerCreate") @@
  "deletePlayer" :> Detour("PlayerDelete")

HumanHooks ==
  "createHuman" :> Creator("HumanCreate") @@
  "deleteHuman" :> Detour("HumanDelete")

ItemHooks ==
  "createItem" :> Creator("ItemCreate") @@
  "deleteItem" :> Detour("ItemDelete")

VehicleHooks ==
  "createVehicle" :> Creator("VehicleCreate") @@
  "deleteVehicle" :> Detour("VehicleDelete")

\* No key: this detour only clears the data table.
RigidBodyHook == "createRigidBody" :> [PreOnly("") EXCEPT !.keys = {}]

ItemActionHooks ==
  "linkItem" :> Detour("ItemLink") @@
  "itemComputerInput" :> Detour("ItemComputerInput")

HumanActionHooks ==
  "humanApplyDamage" :> Detour("HumanDamage") @@
  "humanCollisionVehicle" :> Detour("HumanCollisionVehicle") @@
  "humanLimbInverseKinematics" :> PreOnly("HumanLimbInverseKinematics")

DamageHooks ==
  "grenadeExplosion" :> Detour("GrenadeExplode") @@
  "vehicleApplyDamage" :> Detour("VehicleDamage")

PlayerActionHooks ==
  "serverPlayerMessage" :> PreOnly("PlayerChat") @@
  "playerAI" :> Detour("PlayerAI") @@
  "playerDeathTax" :> Detour("PlayerDeathTax") @@
  "accountDeathTax" :> Detour("AccountDeathTax") @@
  "playerGiveWantedLevel" :> Detour("PlayerGiveWantedLevel")

CollisionHook == "addCollisionRigidBodyOnRigidBody" :> PreOnly("CollideBodies")

UpdateEventHooks ==
  "createEventMessage" :> Detour("EventMessage") @@
  "createEventUpdateItemInfo" :> Detour("EventUpdateItemInfo") @@
  "createEventUpdatePlayer" :> Detour("EventUpdatePlayer") @@
  "createEventUpdateVehicle" :> Detour("EventUpdateVehicle")

SoundEventHooks ==
  "createEventSoundItem" :> Detour("EventSoundItem") @@
  "createEventSound" :> Detour("EventSound")

BulletEventHooks ==
  "createEventBullet" :> Detour("EventBullet") @@
  "createEventBulletHit" :> Detour("EventBulletHit") @@
  "createEventUpdateElimState" :> Detour("EventUpdateElimState")

AllHooks ==
  ResetHook @@ LogicHook @@ TrafficHooks @@ AreaHooks @@ ModeHooks @@
  SimulationHooks @@ NetworkHooks @@ BulletSimulationHook @@ EconomyHooks @@
  AccountHook @@ ConnectHook @@ BulletHook @@ PlayerHooks @@ HumanHooks @@
  ItemHooks @@ VehicleHooks @@ RigidBodyHook @@ ItemActionHooks @@
  HumanActionHooks @@ DamageHooks @@ PlayerActionHooks @@ CollisionHook @@
  UpdateEventHooks @@ SoundEventHooks @@ BulletEventHooks

\* Hooks::EnableKeys: the keys of the detours and those tested elsewhere.
EnableKeys ==
  UNION {AllHooks[f].keys : f \in DOMAIN AllHooks} \cup
  {"InterruptSignal", "ConsoleInput", "ConsoleAutoComplete", "LineIntersectHuman",
   "BulletMayHit", "BulletMayHitHuman", "BulletHitHuman"}

-----------------------------------------------------------------------------
(* API functions: what they call, and what they remove around the call.     *)

Guarded(f)      == [calls |-> f, removes |-> f]
Misguarded(f, h) == [calls |-> f, removes |-> h]
Plain(f)        == [calls |-> f, removes |-> "none"]

AreaApi ==
  "createBlock" :> Guarded("areaCreateBlock") @@
  "deleteBlock" :> Guarded("areaDeleteBlock")

\* createRope's engine function has no detour of its own.
ItemsApi ==
  "items.create" :> Guarded("createItem") @@
  "items.createRope" :> Plain("createRope")

VehiclesApi == "vehicles.create" :> Guarded("createVehicle")

AccountsApi == "accounts.save" :> Guarded("saveAccountsServer")

PlayersApi == "players.createBot" :> Guarded("createPlayer")

\* humans.create removes the player's present human first.
HumansApi ==
  "humans.create" :> Guarded("createHuman") @@
  "humans.create:replaced" :> Guarded("deleteHuman")

BulletsApi == "bullets.create" :> Guarded("createBullet")

TrafficApi == "trafficCars.createMany" :> Guarded("createTraffic")

\* The createSoundItem functions remove the detour of createEventSound.
EventsApi ==
  "events.createBullet" :> Guarded("createEventBullet") @@
  "events.createBulletHit" :> Guarded("createEventBulletHit") @@
  "events.createMessage" :> Guarded("createEventMessage") @@
  "events.createSound" :> Guarded("createEventSound") @@
  "events.createSound:item" :> Misguarded("createEventSoundItem", "createEventSound") @@
  "events.createExplosion" :> Plain("createEventExplosion")

PlayerApi ==
  "player:update" :> Guarded("createEventUpdatePlayer") @@
  "player:updateElimState" :> Guarded("createEventUpdateElimState") @@
  "player:remove" :> Guarded("deletePlayer") @@
  "player:sendMessage" :> Guarded("createEventMessage")

HumanApi ==
  "human:remove" :> Guarded("deleteHuman") @@
  "human:speak" :> Guarded("createEventMessage") @@
  "human:mountItem" :> Guarded("linkItem") @@
  "human:applyDamage" :> Guarded("humanApplyDamage")

ItemApi ==
  "item:remove" :> Guarded("deleteItem") @@
  "item:mountItem" :> Guarded("linkItem") @@
  "item:unmount" :> Guarded("linkItem") @@
  "item:update" :> Guarded("createEventUpdateItemInfo") @@
  "item:speak" :> Guarded("createEventMessage") @@
  "item:explode" :> Guarded("grenadeExplosion") @@
  "item:sound" :> Guarded("createEventSoundItem")

VehicleApi ==
  "vehicle:updateDestruction" :> Guarded("createEventUpdateVehicle") @@
  "vehicle:remove" :> Guarded("deleteVehicle")

AllApi ==
  AreaApi @@ ItemsApi @@ VehiclesApi @@ AccountsApi @@ PlayersApi @@
  HumansApi @@ BulletsApi @@ TrafficApi @@ EventsApi @@ PlayerApi @@
  HumanApi @@ ItemApi @@ VehicleApi

=============================================================================
