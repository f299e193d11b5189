SPECIFICATION FairSpec
CHECK_DEADLOCK FALSE
CONSTANTS
  MaxTurns = 2
  Sessions <- TwoSessions
  StoreCap = 4
  PageCap = 4
  MaxFaults = 1
  MaxReloads = 1
INVARIANTS
  TypeOK
  
  StoredIsShown
  SessionsAreSeparate
  AnswerIsComing
PROPERTIES
  SendEnds
