SPECIFICATION FairSpec
CONSTANTS
  Specs <- ReadOnly
  MaxGeneration = 1
  MaxSecretVersion = 0
  MaxReplicas = 0
  MaxPodEvents = 0
  MaxFaults = 1
  Steps = 2
  Deletable = FALSE
PROPERTIES
  ServiceIsCreated
