SPECIFICATION FairSpec
CONSTANTS
  Polls = 2
  Tries = 1
  W = 7
  Interval = 3
  Boots = {0}
  BindMayFail = FALSE
PROPERTIES
  DeadIsReplaced
