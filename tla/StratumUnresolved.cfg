SPECIFICATION FairSpec
CONSTANTS
  Works = {w}
  NoWork = NoWork
  Retries = 2
  StopWorkAt = 1
  MaxTimers = 1
PROPERTIES
  GivesUpUnresolved
CHECK_DEADLOCK FALSE
