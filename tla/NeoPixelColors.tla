----------------------------- MODULE NeoPixelColors -----------------------------
(***************************************************************************)
(* The colour arithmetic of NeoPixelArrayBase (src/src/                    *)
(* NeoPixelArrayBase.cpp:196): integer division everywhere, and results    *)
(* cut to the width of a component, which they must never exceed.  A       *)
(* program makes one colour out of another.                                *)
(***************************************************************************)
EXTENDS Integers

CONSTANT Full       \* the largest component (255)

ColorsAssumption == Full \in Nat \ {0}

VARIABLE tint       \* the colour the program has made: red, green, blue

Component == 0..Full
Parts     == {"red", "green", "blue"}
Color     == [Parts -> Component]

\* The largest and the smallest component.
Brightest(c) == CHOOSE m \in {c[i] : i \in Parts} : \A i \in Parts : c[i] <= m
Darkest(c)   == CHOOSE m \in {c[i] : i \in Parts} : \A i \in Parts : c[i] >= m

\* A uint8_t holds the result.
Cut(n) == n % (Full + 1)

SetBrightness(c, brightness) ==
  [i \in Parts |-> Cut((c[i] * brightness) \div Full)]

SetFullBrightness(c) ==
  IF Brightest(c) = 0 THEN c
  ELSE [i \in Parts |-> Cut((c[i] * Full) \div Brightest(c))]

\* getRGB(): a percentage over 100 is cut.
GetRGB(c, percent) ==
  SetBrightness(SetFullBrightness(c),
                (Full * (IF percent > 100 THEN 100 ELSE percent)) \div 100)

GetComplementaryColor(c) ==
  [i \in Parts |-> Cut(Brightest(c) + Darkest(c) - c[i])]

Init == tint \in Color

Mix ==
  tint' \in {SetBrightness(tint, b) : b \in Component}
            \cup {GetRGB(tint, p) : p \in {0, 50, 100, 200}}
            \cup {SetFullBrightness(tint), GetComplementaryColor(tint)}

\* The type of a colour: no component leaves its width.
TypeOK == tint \in Color

\* The colour made for a percentage is exactly as bright as asked, whatever it was
\* made of; and the complement of the complement is the colour itself.  No
\* component is ever cut by its width on the way.
PaletteHolds ==
  /\ \A p \in {0, 50, 100, 200} : Brightest(tint) > 0 =>
       Brightest(GetRGB(tint, p)) = (Full * (IF p > 100 THEN 100 ELSE p)) \div 100
  /\ GetComplementaryColor(GetComplementaryColor(tint)) = tint
=============================================================================
