SPECIFICATION FairSpec
CONSTANTS
  Topics = {"a"}
  W = 32
  V = 8
  Interval = 2
  MaxTime = 19
  SubscribeMayFail = FALSE
  BufferSize = 5
  HeaderSize = 1
  Messages = {}
PROPERTY AttemptsAreSpaced
