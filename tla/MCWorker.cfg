SPECIFICATION FairSpec
CONSTANTS
  Cap = 2
  MaxSent = 4
INVARIANTS
  NewestKept
  StopWakes
  OneLateWait
PROPERTIES
  ImplementsWindow
  JoinReturns
