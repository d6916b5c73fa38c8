SPECIFICATION Spec
CONSTANTS
  Byte <- MCByte
  Width = 2
  Word <- MCWord
  Magic <- MCMagic
  Magic1 = Magic1
  Magic2 = Magic2
  Other1 = Other1
  Erased = Erased
  Foreign = Foreign
  CRC <- WeakCRC
  Default <- MCDefault
  Zero <- MCZero
  Factory <- OtherStoreCells
  Buffered = TRUE
  BeginMayFail = TRUE
  CommitMayFail = TRUE
  MaxLosses = 2
  NoValue = NoValue
INVARIANT
  KeepsItsPromises
PROPERTY
  ImplementsCell
