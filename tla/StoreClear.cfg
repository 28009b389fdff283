SPECIFICATION Spec
CONSTANTS
  t1 = t1
  t2 = t2
  t3 = t3
  Timers = {t1, t2, t3}
  Main = Main
  NoTimer = NoTimer
  MaxChanges = 3
  Failures = FALSE
SYMMETRY Symmetry
INVARIANTS ClearedStaysCleared
CHECK_DEADLOCK FALSE
