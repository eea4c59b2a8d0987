SPECIFICATION Spec
CONSTANTS
  Challenges = {a, b}
  Empty = Empty
  Throttles = {0, 50, 100}
INVARIANTS
  AbortIsAnswered
CHECK_DEADLOCK FALSE
