--------------------------------- MODULE MCParts ---------------------------------
(***************************************************************************)
(* Small instances of Parts for TLC: the values that a configuration       *)
(* cannot write down.                                                      *)
(***************************************************************************)
EXTENDS Parts

\* Angles and inputs on both sides of zero, and angles out of range.
MCTargets == {-13, -6, 0, 5, 12}
MCAngles  == {-15, -12, -5, 0, 7, 20}
MCInputs  == {-4, 0, 1, 5}

\* The third store lies past what the first one's buffer covers, the second within.
MCWidths == <<1, 1, 3>>

Header(version, length, place) ==
  [version |-> version, size |-> length, address |-> place, item |-> "CFG"]

\* Three programs: a new size, and a new address of the same version.
MCLayouts  == {Header(1, 18, 32), Header(2, 20, 32), Header(2, 20, 40)}
MCNoLayout == Header(0, 0, 0)

Message(length, text) == [size |-> length, text |-> text]

\* A message that fits the buffer, one that is streamed, one with a zero byte in it,
\* and one whose size is cut to less than the buffer.
MCMessages == {Message(1, 1), Message(3, 3), Message(4, 2), Message(6, 6)}
=================================================================================
