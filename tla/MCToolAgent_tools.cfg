SPECIFICATION FairSpec
CHECK_DEADLOCK FALSE
CONSTANTS
  c1 = c1
  c2 = c2
  Idle = Idle
  Calls <- TwoCalls
  Pods <- PodNames
  Deployments <- DeploymentNames
  Nodes <- NodeNames
  NodeReady <- Lost
  InitialReplicas = 1
  MaxTailLines = 5
  EventCap = 1
  MaxUid = 2
  Modes <- OneIsStreamed
  Asks <- AnyThenWrites
  MaxRounds = 2
  MaxFaults = 1
INVARIANTS
  TypeOK
  TracesAreTrue
  WritesAreClassified
  
  RestartsStand
  ListsShowOwnScale
PROPERTIES
  AgentCallSpec
  CallsEnd
