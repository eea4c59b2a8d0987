SPECIFICATION FairSpec
CONSTANTS
  Rigs = {r1, r2}
  Accounts = {a}
  MaxChallenge = 2
  MaxFinds = 3
  MaxFaults = 2
INVARIANTS
  TypeOK
  NoGaps
  SkipsWithReason
PROPERTIES
  FollowedToTheEnd
  FreshSettles
CHECK_DEADLOCK FALSE
