------------------------------- MODULE EEPROMDump -------------------------------
(***************************************************************************)
(* EEPROMSession::dump() (src/src/EEPROMStore.h): the addresses of a range *)
(* of the EEPROM, in rows of sixteen.  Addresses are 16 bits wide.         *)
(***************************************************************************)
EXTENDS Integers, Sequences

CONSTANTS
  A,           \* addresses count modulo A (2^16)
  RowSize,     \* 16
  Sizes,       \* _size of the session
  Starts, Lengths

DumpAssumption ==
  /\ A \in Nat \ {0} /\ RowSize \in Nat \ {0}
  /\ \A set \in {Sizes, Starts, Lengths} : set \subseteq 0..(A - 1)

VARIABLES
  range,       \* [size, start, length] of the call
  address,
  rows         \* the first address and the length of each row written

dumpVars == <<range, address, rows>>

DumpLength == IF range.length = 0 THEN (range.size - range.start) % A ELSE range.length
Last       == (range.start + DumpLength) % A

Init ==
  /\ range \in [size : Sizes, start : Starts, length : Lengths]
  /\ address = range.start /\ rows = <<>>

RowLength == IF Last - address < RowSize THEN Last - address ELSE RowSize

\* One round of the outer loop.
Row ==
  /\ address < Last
  /\ rows' = Append(rows, [first |-> address, length |-> RowLength])
  /\ address' = address + RowLength
  /\ UNCHANGED range

Done == address >= Last

\* dump() is called again, for another range.
Again ==
  /\ Done
  /\ range' \in [size : Sizes, start : Starts, length : Lengths]
  /\ address' = range'.start /\ rows' = <<>>

Next == Row \/ Again

-----------------------------------------------------------------------------
\* The type of the dump's state.
TypeOK == /\ address \in 0..(A - 1)
          /\ \A i \in 1..Len(rows) : rows[i].length \in 1..RowSize

Shown(i) == rows[i].first..(rows[i].first + rows[i].length - 1)

\* A dump that does not go past the last address shows every byte of its range once
\* and no other; without a length that is to the end of the session ("0 の場合は末尾
\* まで", line 263).  One whose end is cut to 16 bits shows nothing.
DumpsRange ==
  LET until == IF range.length = 0 THEN range.size ELSE range.start + range.length
  IN  Done =>
        /\ range.start <= until /\ until < A =>
             UNION {Shown(i) : i \in 1..Len(rows)} = range.start..(until - 1)
        /\ \A i, j \in 1..Len(rows) : i # j => Shown(i) \cap Shown(j) = {}
=============================================================================
