SPECIFICATION GraphSpec
CONSTANTS
  Points = {0}
  Costs <- MCCosts
  MaxNodes = 5
  MaxLinks = 5
CONSTRAINT
  SmallOrCanonical
INVARIANTS
  FindsAPath
  EndlessOnlyOnNegativeCosts
  UniformIsShortest
PROPERTIES
  SearchProgresses
