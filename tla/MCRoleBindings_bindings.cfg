SPECIFICATION FairSpec
CHECK_DEADLOCK FALSE
CONSTANTS
  a1 = a1
  a2 = a2
  m1 = m1
  m2 = m2
  Nobody = Nobody
  Agents <- TwoAgents
  Names <- TwoNames
  BindingName <- Distinct
  Managers <- TwoManagers
  MaxEdits = 1
  MaxFaults = 1
INVARIANTS
  TypeOK
  GrantsWereAskedFor
PROPERTIES
  GrantsAreKept
  GrantsFollowSpec
