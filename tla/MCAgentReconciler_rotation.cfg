SPECIFICATION FairSpec
CONSTANTS
  Specs <- ReadOnly
  MaxGeneration = 2
  MaxSecretVersion = 2
  MaxReplicas = 1
  MaxPodEvents = 1
  MaxFaults = 1
  Steps = 2
  Deletable = FALSE
INVARIANTS
  TypeOK
  CurrentCopiesAreExact
  StampsAreKnown
PROPERTIES
  CredentialsNeverRollBack
  RolloutSpec
  CredentialsConverge
  
  ReconcilerSettles
