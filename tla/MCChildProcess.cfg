SPECIFICATION FairSpec
CONSTANTS
  Room = 2
  Small = 1
  MaxBody = 3
  MaxSent = 2
INVARIANTS
  InStepNothingLost
PROPERTIES
  ImplementsChannel
  ShortOnlyWhileWriting
  SendReturns
