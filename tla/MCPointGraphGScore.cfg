SPECIFICATION GraphSpec
CONSTANTS
  Points = {0}
  Costs = {1, 3}
  MaxNodes = 3
  MaxLinks = 3
INVARIANTS
  GScoreIsCheapestKnown
