SPECIFICATION Spec
CONSTANTS
  Rigs = {r1, r2}
  Accounts = {a}
  MaxChallenge = 2
  MaxFinds = 3
  MaxFaults = 2
INVARIANTS
  SkipsOnlySubmitted
CHECK_DEADLOCK FALSE
