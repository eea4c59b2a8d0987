SPECIFICATION FairSpec
CONSTANTS
  Challenges = {a, b}
  Empty = Empty
  Throttles = {0, 50, 100}
INVARIANTS
  TypeOK
  AbortIsAnsweredUnlessFailed
  PendingFits
  BuffersApart
  SearchesItsChallenge
PROPERTIES
  PauseReturns
CHECK_DEADLOCK FALSE
