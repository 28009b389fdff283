SPECIFICATION TasksSpec
CONSTANTS
  Calls = {1, 2}
  Keys = {k1, k2}
  MaxRetries = 1
  PlatformTries = 2
  Tasks = {1, 2}
  Notes = {n1, n2}
  Timers = {t1, t2, t3}
  Main = Main
  NoTimer = NoTimer
  MaxChanges = 3
  Failures = TRUE
INVARIANTS
  NobodyForgotten
  SessionsKnown
  NoSurvivor
  CancelledStays
  ChangeTracked
  SavePending
PROPERTIES
  PauseHonoured
  StaleOnlyIfLate
  EventuallyAnswered
  StopsOwn
  ShutdownEnds
  EventuallySaved
CHECK_DEADLOCK FALSE
