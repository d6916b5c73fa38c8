SPECIFICATION FairSpec
CONSTANTS
  TimerW = 8
  TimerBoots = {2}
  CycleTimes = {3, 4}
  TimerMaxGap = 4
  TimerMaxTime = 18
  FixScale = 8
  Fine = 2
  Second = 40
  Time = 10
  MaxUpdates = 4
  Rates = {0, 4, 8, 16, 26}
  Targets <- MCTargets
  Angles <- MCAngles
  Limit = 12
  PulseOffset = 11
  PulseRate = 3
  PulseUnit = 4
  FilterSize = 3
  FilterScale = 3
  Gains = {0, 1, 2, 3}
  Inputs <- MCInputs
  Widths <- MCWidths
  StoreHeader = 1
  Slack = 2
  StoresA = 11
  Values = {1, 2}
  Default = 1
  NoValue = 0
  Layouts <- MCLayouts
  NoLayout <- MCNoLayout
  DumpA = 16
  RowSize = 4
  Sizes = {9, 12}
  Starts = {0, 3, 10}
  Lengths = {0, 1, 4, 9}
  ClientW = 12
  ClientInterval = 4
  ClientMaxGap = 2
  ClientBoots = {0, 3}
  Sends = TRUE
  Hangs = TRUE
  Topics = {"a", "b"}
  BrokerW = 32
  BrokerV = 8
  BrokerInterval = 2
  BrokerMaxTime = 19
  SubscribeMayFail = TRUE
  BufferSize = 5
  MessageHeader = 1
  Messages <- MCMessages
INVARIANTS
  TypeOK
  MovesLinearly
  FiltersTrue
  StoresKeepApart
  LayoutHolds
  FlagMatchesSocket
  AllResubscribed
  PublishGoesOut
  TriesInFirstHalf
PROPERTIES
  TimerKeepsTime
  TargetIsReached
  ActionsAreSpaced
  StartedConnects
  SpacedWhileNarrow
