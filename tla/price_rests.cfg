CONSTANTS
  Rules <- MCRules
  Cards <- MCCards
  StartPrices <- MCPrices
SPECIFICATION FairSpec
INVARIANTS TypeOK
PROPERTIES NoOvershoot StepsWithinBounds Arrives
CHECK_DEADLOCK FALSE
