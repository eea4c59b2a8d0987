SPECIFICATION FairSpec
CONSTANTS
  N = 2
  Main = Main
  None = None
  Challenges = {a, b}
  Empty = Empty
  Targets = {t}
  Mode = "Solo"
PROPERTIES
  ProofReturns
CHECK_DEADLOCK FALSE
