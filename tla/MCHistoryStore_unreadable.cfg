SPECIFICATION Spec
CHECK_DEADLOCK FALSE
CONSTANTS
  old = old
  new = new
  Writers <- Pods
  Cap = 3
  MaxTurns = 2
  MaxFaults = 1
  MaxAccidents = 1
PROPERTIES
  UnreadableFileIsKept
