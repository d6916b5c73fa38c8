SPECIFICATION FairSpec
CONSTANTS
  W = 12
  Interval = 4
  MaxGap = 2
  Boots = {3}
  Sends = FALSE
  Hangs = FALSE
PROPERTY
  EventuallyConnects
