SPECIFICATION Spec
CONSTANTS
  Byte <- MCByte
  Width = 2
  Word <- MCWord
  Magic <- MCMagic
  Magic1 = Magic1
  Magic2 = Magic2
  Other1 = Other1
  Erased = Erased
  Foreign = Foreign
  CRC <- MCCRC
  Default <- MCDefault
  Zero <- MCZero
  Factory <- BlankCells
  Buffered = TRUE
  BeginMayFail = FALSE
  CommitMayFail = TRUE
  MaxLosses = 3
  NoValue = NoValue
INVARIANT
  SavedIsDurable
