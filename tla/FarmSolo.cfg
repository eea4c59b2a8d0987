SPECIFICATION Spec
CONSTANTS
  N = 2
  Main = Main
  None = None
  Challenges = {a, b}
  Empty = Empty
  Targets = {t, u}
  Mode = "Solo"
INVARIANTS
  TypeOK
  NoOldWork
PROPERTIES
  SlotKept
CHECK_DEADLOCK FALSE
