SPECIFICATION FairSpec
CONSTANTS
  k1 = k1
  k2 = k2
  Keys = {k1, k2}
  Users = {u1, u2}
  FirstUser = u1
  MaxPipeline = 2
  Limits <- MCLimits
INVARIANTS
  TypeOK
  NoAssertionFails
  NothingLost
  AnswersMatchPipeline
  WritesStayVisible
  LaterWriteWins
PROPERTIES
  ImplementsSync
  WritesSettle
  ListenersConverge
CHECK_DEADLOCK FALSE
