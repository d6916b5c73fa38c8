SPECIFICATION FairSpec
CONSTANTS
  Polls = 3
  Tries = 2
  W = 7
  Interval = 3
  Boots = {0, 1}
  BindMayFail = TRUE
INVARIANTS
  TypeOK
  LostLinkClosesAll
PROPERTIES
  FollowsTheAir
  EventuallyServed
