SPECIFICATION Spec
CONSTANTS
  Fn <- MCFn
  Unhooked <- MCUnhooked
  Api <- MCApi
  Target <- MCTarget
  Guard <- MCGuard
  Profile <- MCProfile
  Callees <- MCCallees
  MainCalls <- MCMainCalls
  Keys <- MCKeys
  Modes = {"", "restart"}
  Commands = {"resetlua", "say"}
  MaxCalls = 2
  MaxQueue = 1
CONSTRAINT
  OneAccountKey
INVARIANTS
  DetoursBalanced
  GuardedCallsReachBody
  LuaInitAlone
  RunIsCurrent
  ModeServed
  InputHasLine
