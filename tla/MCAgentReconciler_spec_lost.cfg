SPECIFICATION Spec
CONSTANTS
  Specs <- ReadOnly
  MaxGeneration = 2
  MaxSecretVersion = 0
  MaxReplicas = 0
  MaxPodEvents = 0
  MaxFaults = 0
  Steps = 2
  Deletable = FALSE
INVARIANTS
  ObservedSpecIsDeployed
