SPECIFICATION FairSpec
CONSTANTS
  Byte <- MCByte
  Width = 2
  Word <- MCWord
  Magic <- MCMagic
  Magic1 = Magic1
  Magic2 = Magic2
  Other1 = Other1
  Erased = Erased
  Foreign = Foreign
  CRC <- MCCRC
  Default <- MCDefault
  Zero <- MCZero
  Factory <- UsedCells
  Buffered = FALSE
  BeginMayFail = FALSE
  CommitMayFail = FALSE
  MaxLosses = 3
  NoValue = NoValue
INVARIANTS
  TypeOK
  RecoversKnown
  ConfirmedSurvives
  AnswerHolds
PROPERTIES
  ImplementsCell
  CellsComeBack
