SPECIFICATION SpecEvents
CONSTANTS
  Fn <- MCFn
  Unhooked <- MCUnhooked
  Api <- MCApi
  Target <- MCTarget
  Guard <- MCGuard
  Profile <- MCProfile
  Callees <- MCCallees
  MainCalls <- MCMainCalls
  Keys <- MCKeys
  Modes = {""}
  Commands = {}
  MaxCalls = 3
  MaxQueue = 1
  EventFn <- MCEventFn
  EventApi <- MCEventApi
  Width = 3
INVARIANTS
  ReturnsTheCallsEvent
