SPECIFICATION FairSpec
CONSTANTS
  MaxChallenge = 3
  Targets = {1, 2}
  Remember = 2
  Retries = 2
  StopWorkAt = 2
INVARIANTS
  TypeOK
  FarmFollows
PROPERTIES
  TakesOver
  Pauses
  EntersPaused
  ShutsDown
CHECK_DEADLOCK FALSE
