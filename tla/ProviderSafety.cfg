SPECIFICATION Spec
CONSTANTS
  r1 = r1
  r2 = r2
  r3 = r3
  Requests = {r1, r2, r3}
  Limit = 2
  Window = 2
  MaxTime = 5
  Slots = 2
  MaxRetries = 1
  BaseDelay = 1
  MaxDelay = 2
  Jitter = 1
  ExhaustedBlock = 3
SYMMETRY Symmetry
INVARIANTS WindowRespected SlotsBalanced
PROPERTIES WindowSpec BlockHonoured
CHECK_DEADLOCK FALSE
