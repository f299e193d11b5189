SPECIFICATION Spec
CHECK_DEADLOCK FALSE
CONSTANTS
  MaxTurns = 2
  Sessions <- TwoSessions
  StoreCap = 4
  PageCap = 4
  MaxFaults = 0
  MaxReloads = 0
INVARIANTS
  TurnsAreSavedOnce
