SPECIFICATION KeyedSpec
CONSTANTS
  MaxNodes = 3
  MaxEdges = 3
  Version = {0, 1}
  Recipe <- MCRecipe
  MaxAsks = 2
INVARIANTS DiscoveredNeedsAreInputs
CHECK_DEADLOCK FALSE
