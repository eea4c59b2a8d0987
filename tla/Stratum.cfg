SPECIFICATION FairSpec
CONSTANTS
  Works = {w}
  NoWork = NoWork
  Retries = 2
  StopWorkAt = 1
  MaxTimers = 1
INVARIANTS
  TypeOK
  AlwaysPending
PROPERTIES
  Reconnects
  GivesUp
  WorkReachesFarm
CHECK_DEADLOCK FALSE
