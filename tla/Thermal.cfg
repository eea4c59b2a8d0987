SPECIFICATION FairSpec
CONSTANTS
  GPUs = {g1, g2}
  Temps = {1, 3, 5, 9}
  setPoint = 5
  ShutDownTime = 4
  MaxWarm = 3
INVARIANTS
  TypeOK
  SoonEnough
  NotTooSoon
PROPERTIES
  Protects
