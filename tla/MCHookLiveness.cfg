SPECIFICATION FairSpec
CONSTANTS
  Fn <- MCFn
  Unhooked = {}
  Api <- NoApi
  Target <- NoTable
  Guard <- NoTable
  Profile <- MCProfile
  Callees <- MCCallees
  MainCalls <- MCMainCalls
  Keys <- MCKeys
  Modes = {""}
  Commands = {"resetlua", "say"}
  MaxCalls = 1
  MaxQueue = 1
PROPERTIES
  ResetServed
  ExitServed
  CompletionServed
  CommandsServed
