SPECIFICATION FairSpec
CONSTANTS
  N = 2
  Main = Main
  None = None
  Challenges = {a, b}
  Empty = Empty
  Targets = {t, u}
  Mode = "Pool"
INVARIANTS
  WorkDelivered
PROPERTIES
  MinesAsPromised
  SetWorkReturns
  ProofReturns
