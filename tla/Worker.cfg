SPECIFICATION FairSpec
CONSTANTS
  Controllers = {c1, c2}
  NoOne = NoOne
INVARIANTS
  TypeOK
  OnlyKillingRestored
  Quiescence
PROPERTIES
  KeepsPromise
  CallsReturn
  DestructorJoins
