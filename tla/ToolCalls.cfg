SPECIFICATION HeuristicSpec
CONSTANTS
  Texts <- TwoCalls
  Patience = 3
INVARIANT EveryCallConverted
CHECK_DEADLOCK FALSE
