----------------------------- MODULE MCEEPROMStore -----------------------------
(***************************************************************************)
(* Small instances of EEPROMStore for TLC: structures of two binary cells. *)
(***************************************************************************)
EXTENDS EEPROMStore

CONSTANTS Magic1, Magic2, Other1, Erased, Foreign

MCByte    == {0, 1}
MCMagic   == <<Magic1, Magic2>>
MCDefault == <<0, 1>>
MCZero    == <<0, 0>>

\* A CRC that differs in both bytes for any two of the four structures, and one
\* that does not tell the structures apart that have one cell set.
MCCRC   == [d \in [1..2 -> MCByte] |->
              LET n == 2 * d[1] + d[2] IN <<10 + n, 20 + n>>]
WeakCRC == [d \in [1..2 -> MCByte] |-> <<10 + d[1] + d[2], 20>>]

MCWord == {Magic1, Magic2, Other1, Erased, Foreign} \cup 10..13 \cup 20..23

\* New cells: erased, which a cell of the structure reads as all ones.
BlankCells == {<<Erased, Erased, Erased, Erased, 1, 1>>}

\* Cells of a device that ran other software: another magic value, and a CRC
\* that is not the one of the structure there.
UsedCells ==
  BlankCells \cup
    {<<Other1, Magic2, Foreign, Foreign, a, b>> : a \in MCByte, b \in MCByte}

\* Cells that an EEPROMStore with another magic value filled.
OtherStoreCells ==
  BlankCells \cup
    {<<Other1, Magic2, CRC[d][1], CRC[d][2], d[1], d[2]>> : d \in [1..2 -> MCByte]}

\* With such a CRC and no other store's cells load() is not fooled: what it takes
\* for a known value is one.
ASSUME NotFooled ==
  (Factory = UsedCells \/ Buffered) =>
    \A d \in Data : \A K \in SUBSET Data : Alike(d, K) => d \in K
=============================================================================
