SPECIFICATION FairSpec
CHECK_DEADLOCK FALSE
CONSTANTS
  Specs <- FullSpec
  MaxGeneration = 1
  MaxSecretVersion = 0
  MaxReplicas = 0
  MaxPodEvents = 0
  MaxFaults = 1
  Steps = 2
  Deletable = TRUE
INVARIANTS
  KeyIsKept
PROPERTIES
  DeletionIsFinal
