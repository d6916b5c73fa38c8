------------------------------ MODULE NeoPixelArray ------------------------------
(***************************************************************************)
(* NeoPixelArrayBase (src/src/NeoPixelArrayBase.cpp): arrays that keep     *)
(* their colours and whether they changed, over one FastLED, whose show()  *)
(* brings every array to its LEDs.                                         *)
(***************************************************************************)
EXTENDS Integers

CONSTANTS
  Sizes,       \* the number of LEDs of each array
  Hues,        \* how many hues there are (256)
  Unknown      \* what LEDs show after power-up

Arrays   == DOMAIN Sizes
Pixels(a) == 0..(Sizes[a] - 1)

\* Black, and one colour for each hue.
Colors == 0..Hues

NeoPixelAssumption ==
  /\ Hues \in Nat \ {0} /\ Unknown \notin Colors
  /\ \A a \in Arrays : Sizes[a] \in Nat \ {0}

VARIABLES
  colors,        \* _colors of each array
  changed,       \* _changed
  forceDisable,  \* _forceDisable
  hue,           \* _firstPixelHue
  shown,         \* what the LEDs show
  taken          \* history: the program took the flag of a change itself

vars == <<colors, changed, forceDisable, hue, shown, taken>>

Init ==
  /\ colors = [a \in Arrays |-> [i \in Pixels(a) |-> 0]]
  /\ changed = [a \in Arrays |-> FALSE]
  /\ forceDisable = [a \in Arrays |-> FALSE]
  /\ hue = [a \in Arrays |-> 0]
  /\ shown = [a \in Arrays |-> [i \in Pixels(a) |-> Unknown]]
  /\ taken = [a \in Arrays |-> FALSE]

-----------------------------------------------------------------------------
\* Mutant of Paint: only the last LED tells whether something changed.
PaintLast(a, new) ==
  /\ colors' = [colors EXCEPT ![a] = new]
  /\ changed' = [changed EXCEPT ![a] = new[Sizes[a] - 1] # colors[a][Sizes[a] - 1]]

\* The loops over setPixelColor(): a change is noted once any LED differs.
Paint(a, new) ==
  /\ colors' = [colors EXCEPT ![a] = new]
  /\ changed' = [changed EXCEPT ![a] = @ \/ new # colors[a]]

\* What fill() of a range reaches within the array, one LED or all that follow;
\* with it setPixelColor() and fillAll().
Reached(a) ==
  {Pixels(a) \cap (first..(first + count - 1)) :
     first \in 0..Sizes[a], count \in {1, Sizes[a] + 1}}

Fill(a) ==
  /\ \E color \in Colors, range \in Reached(a) :
       Paint(a, [i \in Pixels(a) |-> IF i \in range THEN color ELSE colors[a][i]])
  /\ UNCHANGED <<forceDisable, hue, shown, taken>>

\* FastLED.show().
Show == shown' = colors'

\* isChanged(), called by the program.
IsChanged(a) ==
  /\ changed[a]
  /\ changed' = [changed EXCEPT ![a] = FALSE]
  /\ taken' = [taken EXCEPT ![a] = TRUE]
  /\ UNCHANGED <<colors, forceDisable, hue, shown>>

\* update() with something to show.
Update(a) ==
  /\ ~forceDisable[a] /\ changed[a]
  /\ changed' = [changed EXCEPT ![a] = FALSE]
  /\ UNCHANGED <<colors, forceDisable, hue>>
  /\ Show
  /\ taken' = [b \in Arrays |-> FALSE]

\* setForceDisable(): the change it makes stays noted, though it is shown.
SetForceDisable(a) ==
  /\ \E d \in BOOLEAN : forceDisable' = [forceDisable EXCEPT ![a] = d]
  /\ Paint(a, [i \in Pixels(a) |-> 0])
  /\ Show
  /\ taken' = [b \in Arrays |-> FALSE]
  /\ UNCHANGED hue

\* The first LEDs spread over the hues, from one further than last time.
Rainbowed(a, numPixel) ==
  [i \in Pixels(a) |->
     IF i < numPixel
       THEN 1 + ((hue[a] + 1 + ((i * Hues) \div numPixel)) % Hues)
       ELSE colors[a][i]]

\* rainbow(): its cycle has come or not, which is the timer's to say.
Rainbow(a) ==
  /\ hue' = [hue EXCEPT ![a] = (@ + 1) % Hues]
  /\ \E numPixel \in 1..(Sizes[a] + 1) : Paint(a, Rainbowed(a, numPixel))
  /\ UNCHANGED <<forceDisable, shown, taken>>

Next == \E a \in Arrays : \/ Fill(a) \/ IsChanged(a) \/ Update(a)
                          \/ SetForceDisable(a) \/ Rainbow(a)

-----------------------------------------------------------------------------
\* The type of the arrays' state.
TypeOK ==
  \A a \in Arrays :
    /\ colors[a] \in [Pixels(a) -> Colors]
    /\ shown[a] \in [Pixels(a) -> Colors \cup {Unknown}]
    /\ {changed[a], forceDisable[a], taken[a]} \subseteq BOOLEAN
    /\ hue[a] \in 0..(Hues - 1)

\* An array without a noted change shows its colours, though another array's
\* show(), a disabled array or a partial fill() came between: no update() is left
\* out that was needed.  Not so before the first show(), nor after the program
\* took the flag of a change itself.
ShownWhenQuiet ==
  \A a \in Arrays : (~changed[a] /\ ~taken[a]) =>
    shown[a] = colors[a] \/ (\A i \in Pixels(a) : shown[a][i] = Unknown)
=============================================================================
