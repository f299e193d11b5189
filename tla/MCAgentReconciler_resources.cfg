SPECIFICATION FairSpec
CONSTANTS
  Specs <- OffAndOn
  MaxGeneration = 3
  MaxSecretVersion = 0
  MaxReplicas = 0
  MaxPodEvents = 0
  MaxFaults = 1
  Steps = 2
  Deletable = FALSE
PROPERTIES
  BindingsFollowSpec
  ClaimFollowsSpec
  DeploymentComesBack
