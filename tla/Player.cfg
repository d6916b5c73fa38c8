SPECIFICATION FairSpec
CONSTANTS
  Patterns <- MCPatterns
  W = 8
  MaxGap = 3
  MaxTime = 13
  Silence = Silence
  a = a
  b = b
  c = c
  FirstDevice = Silence
  ApplyOutput <- PlainApply
  StopOutput <- PlainStop
INVARIANTS
  TypeOK
  WellFormed
  OnTime
PROPERTIES
  NeverCutShort
  StepsEnd
  PlaysPatterns
