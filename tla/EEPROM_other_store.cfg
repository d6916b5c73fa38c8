SPECIFICATION Spec
CONSTANTS
  Byte <- MCByte
  Width = 2
  Word <- MCWord
  Magic <- MCMagic
  Magic1 = Magic1
  Magic2 = Magic2
  Other1 = Other1
  Erased = Erased
  Foreign = Foreign
  CRC <- MCCRC
  Default <- MCDefault
  Zero <- MCZero
  Factory <- OtherStoreCells
  Buffered = FALSE
  BeginMayFail = FALSE
  CommitMayFail = FALSE
  MaxLosses = 3
  NoValue = NoValue
INVARIANT
  LoadedIsOwn
