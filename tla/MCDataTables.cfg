SPECIFICATION Spec
CONSTANTS
  Slots <- MCSlots
  KindOf <- MCKindOf
  MaxBirths = 2
  MaxDepth = 2
  MaxResets = 1
INVARIANTS
  TablesOfLiveState
  NoInheritedData
  RemovedLeavesNoData
PROPERTIES
  LiveDataKept
