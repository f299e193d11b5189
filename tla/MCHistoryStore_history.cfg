SPECIFICATION Spec
CHECK_DEADLOCK FALSE
CONSTANTS
  old = old
  new = new
  Writers <- Pods
  Cap = 3
  MaxTurns = 3
  MaxFaults = 2
  MaxAccidents = 2
SYMMETRY PodSymmetry
INVARIANTS
  TypeOK
  FileIsWhole
  
PROPERTIES
  LogSpec
