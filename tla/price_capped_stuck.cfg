CONSTANTS
  Rules <- CappedRules
  Cards <- CappedCards
  StartPrices <- CappedPrices
SPECIFICATION FairSpec
PROPERTY Arrives
CHECK_DEADLOCK FALSE
