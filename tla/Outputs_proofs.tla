----------------------------- MODULE Outputs_proofs -----------------------------
(***************************************************************************)
(* The LEDs, the palette and the menu, for every array, colour and table;  *)
(* and the type of every output device.                                    *)
(***************************************************************************)
EXTENDS Devices_proofs

\* The remote's type, which no theorem but the last needs.
LEMMA RemoteTyped ==
  /\ Remote!Init => Remote!TypeOK
  /\ Remote!TypeOK /\ [Remote!Next]_(Remote!vars) => Remote!TypeOK'
<1>1. Remote!Init => Remote!TypeOK
  BY DEF Remote!Init, Remote!TypeOK
<1>2. ASSUME Remote!TypeOK, [Remote!Next]_(Remote!vars) PROVE Remote!TypeOK'
  <2>1. CASE Remote!RequestSend
    BY <1>2, <2>1 DEF Remote!RequestSend, Remote!TypeOK
  <2>2. CASE Remote!Drive
    BY <1>2, <2>2 DEF Remote!Drive, Remote!TakesRequest, Remote!SendIR, Remote!TypeOK
  <2>3. CASE Remote!IsRequestSend
    BY <1>2, <2>3 DEF Remote!IsRequestSend, Remote!TakesRequest, Remote!TypeOK
  <2>4. CASE Remote!RecieveIR \/ Remote!ClearReceivedData \/ Remote!FrameArrives
    BY <1>2, <2>4 DEF Remote!RecieveIR, Remote!ClearReceivedData, Remote!FrameArrives,
                      Remote!TypeOK
  <2>5. CASE UNCHANGED Remote!vars
    BY <1>2, <2>5 DEF Remote!vars, Remote!TypeOK
  <2> QED BY <1>2, <2>1, <2>2, <2>3, <2>4, <2>5 DEF Remote!Next
<1> QED BY <1>1, <1>2

-----------------------------------------------------------------------------
\* The arrays of LEDs, each of its own size.
Quiet(a) ==
  ~changed[a] /\ ~taken[a] =>
    shown[a] = colors[a] \/ (\A i \in Pixels!Pixels(a) : shown[a][i] = Unknown)

PixelsTyped ==
  /\ \A a \in Pixels!Arrays :
       /\ colors[a] \in [Pixels!Pixels(a) -> Pixels!Colors]
       /\ shown[a] \in [Pixels!Pixels(a) -> Pixels!Colors \cup {Unknown}]
  /\ DOMAIN colors = Pixels!Arrays /\ colors = [a \in Pixels!Arrays |-> colors[a]]
  /\ changed \in [Pixels!Arrays -> BOOLEAN]
  /\ forceDisable \in [Pixels!Arrays -> BOOLEAN]
  /\ taken \in [Pixels!Arrays -> BOOLEAN]
  /\ hue \in [Pixels!Arrays -> 0..(Hues - 1)]

PixelsInv == PixelsTyped /\ \A a \in Pixels!Arrays : Quiet(a)

LEMMA PixelsInit ==
  ASSUME Pixels!NeoPixelAssumption, Pixels!Init PROVE PixelsInv
<1>1. Hues \in Nat \ {0} /\ 0 \in Pixels!Colors /\ 0 \in 0..(Hues - 1)
  BY DEF Pixels!NeoPixelAssumption, Pixels!Colors
<1>2. PixelsTyped
  BY <1>1 DEF Pixels!Init, PixelsTyped
<1>3. \A a \in Pixels!Arrays : Quiet(a)
  BY DEF Pixels!Init, Quiet
<1> QED BY <1>2, <1>3 DEF PixelsInv

\* Painting an array changes no other, and notes what it changes.
LEMMA PixelsPainted ==
  ASSUME PixelsTyped, NEW a \in Pixels!Arrays,
         NEW new \in [Pixels!Pixels(a) -> Pixels!Colors], Pixels!Paint(a, new)
  PROVE  /\ colors' = [colors EXCEPT ![a] = new] /\ colors'[a] = new
         /\ \A b \in Pixels!Arrays : b # a =>
              colors'[b] = colors[b] /\ changed'[b] = changed[b]
         /\ changed'[a] = (changed[a] \/ new # colors[a])
         /\ changed' \in [Pixels!Arrays -> BOOLEAN]
         /\ \A b \in Pixels!Arrays : colors'[b] \in [Pixels!Pixels(b) -> Pixels!Colors]
         /\ DOMAIN colors' = Pixels!Arrays
         /\ colors' = [b \in Pixels!Arrays |-> colors'[b]]
<1>1. /\ colors' = [colors EXCEPT ![a] = new]
      /\ changed' = [changed EXCEPT ![a] = changed[a] \/ new # colors[a]]
  BY DEF Pixels!Paint
<1>2. DOMAIN colors = Pixels!Arrays /\ changed \in [Pixels!Arrays -> BOOLEAN]
      /\ \A b \in Pixels!Arrays : colors[b] \in [Pixels!Pixels(b) -> Pixels!Colors]
  BY DEF PixelsTyped
<1>3. colors'[a] = new /\ DOMAIN colors' = Pixels!Arrays
      /\ \A b \in Pixels!Arrays : b # a => colors'[b] = colors[b]
  BY <1>1, <1>2
<1>4. \A b \in Pixels!Arrays : colors'[b] \in [Pixels!Pixels(b) -> Pixels!Colors]
  BY <1>2, <1>3
<1>5. colors' = [b \in Pixels!Arrays |-> colors'[b]]
  BY <1>1, <1>2
<1>6. changed'[a] = (changed[a] \/ new # colors[a])
      /\ changed' \in [Pixels!Arrays -> BOOLEAN]
      /\ \A b \in Pixels!Arrays : b # a => changed'[b] = changed[b]
  BY <1>1, <1>2
<1> QED BY <1>1, <1>3, <1>4, <1>5, <1>6

\* What a rainbow paints is a colour of its hues.
LEMMA RainbowColors ==
  ASSUME Pixels!NeoPixelAssumption, PixelsTyped, NEW a \in Pixels!Arrays,
         NEW n \in 1..(Sizes[a] + 1)
  PROVE  Pixels!Rainbowed(a, n) \in [Pixels!Pixels(a) -> Pixels!Colors]
<1>1. Hues \in Nat \ {0} /\ Sizes[a] \in Nat \ {0} /\ hue[a] \in Int
      /\ Pixels!Colors = 0..Hues /\ Pixels!Pixels(a) = 0..(Sizes[a] - 1)
      /\ n \in Nat \ {0}
  <2>1. Hues \in Nat \ {0} /\ Sizes[a] \in Nat \ {0} /\ hue[a] \in 0..(Hues - 1)
    BY DEF Pixels!NeoPixelAssumption, PixelsTyped
  <2> QED BY <2>1 DEF Pixels!Colors, Pixels!Pixels
<1>2. ASSUME NEW i \in Pixels!Pixels(a)
      PROVE  1 + ((hue[a] + 1 + ((i * Hues) \div n)) % Hues) \in Pixels!Colors
  <2> DEFINE p == i * Hues
             q == p \div n
             t == hue[a] + 1 + q
  <2>1. p \in Int
    BY <1>1
  <2>2. q \in Int
    <3> HIDE DEF p
    <3> QED BY <1>1, <2>1, DivMod
  <2>3. t \in Int
    <3> HIDE DEF q
    <3> QED BY <1>1, <2>2
  <2> HIDE DEF t
  <2>4. t % Hues \in 0..(Hues - 1)
    BY <1>1, <2>3, DivMod
  <2>5. 1 + (t % Hues) \in 0..Hues
    <3> DEFINE r == t % Hues
    <3> HIDE DEF r
    <3>1. r \in 0..(Hues - 1)
      BY <2>4 DEF r
    <3> QED BY <1>1, <3>1 DEF r
  <2> QED BY <1>1, <2>5 DEF t
<1>3. \A i \in Pixels!Pixels(a) : colors[a][i] \in Pixels!Colors
  BY DEF PixelsTyped
<1> QED BY <1>2, <1>3 DEF Pixels!Rainbowed

\* Painting without a show() leaves an array quiet only if it painted what was there.
LEMMA PixelsUnshown ==
  ASSUME PixelsInv, NEW a \in Pixels!Arrays,
         NEW new \in [Pixels!Pixels(a) -> Pixels!Colors], Pixels!Paint(a, new),
         UNCHANGED <<forceDisable, shown, taken>>,
         hue' \in [Pixels!Arrays -> 0..(Hues - 1)]
  PROVE  PixelsInv'
<1>1. /\ colors'[a] = new
      /\ \A b \in Pixels!Arrays : b # a =>
           colors'[b] = colors[b] /\ changed'[b] = changed[b]
      /\ changed'[a] = (changed[a] \/ new # colors[a])
      /\ changed' \in [Pixels!Arrays -> BOOLEAN]
      /\ \A b \in Pixels!Arrays : colors'[b] \in [Pixels!Pixels(b) -> Pixels!Colors]
      /\ DOMAIN colors' = Pixels!Arrays
      /\ colors' = [b \in Pixels!Arrays |-> colors'[b]]
  BY PixelsPainted DEF PixelsInv
<1>2. PixelsTyped'
  BY <1>1 DEF PixelsInv, PixelsTyped, Pixels!Pixels, Pixels!Arrays
<1>3. ASSUME NEW b \in Pixels!Arrays PROVE Quiet(b)'
  <2>1. CASE b = a
    BY <1>1, <2>1 DEF PixelsInv, Quiet, Pixels!Pixels
  <2>2. CASE b # a
    BY <1>1, <2>2 DEF PixelsInv, Quiet, Pixels!Pixels
  <2> QED BY <2>1, <2>2
<1> QED BY <1>2, <1>3 DEF PixelsInv, Pixels!Arrays

\* A show() makes every array quiet.
LEMMA PixelsShown ==
  ASSUME PixelsTyped, shown' = colors',
         \A b \in Pixels!Arrays : colors'[b] \in [Pixels!Pixels(b) -> Pixels!Colors],
         DOMAIN colors' = Pixels!Arrays, colors' = [b \in Pixels!Arrays |-> colors'[b]],
         changed' \in [Pixels!Arrays -> BOOLEAN],
         forceDisable' \in [Pixels!Arrays -> BOOLEAN],
         taken' = [b \in Pixels!Arrays |-> FALSE], hue' = hue
  PROVE  PixelsInv'
<1>1. \A b \in Pixels!Arrays :
        shown'[b] \in [Pixels!Pixels(b) -> Pixels!Colors \cup {Unknown}]
  <2> TAKE b \in Pixels!Arrays
  <2>1. shown'[b] = colors'[b] /\ colors'[b] \in [Pixels!Pixels(b) -> Pixels!Colors]
    OBVIOUS
  <2> QED BY <2>1
<1>2. taken' \in [Pixels!Arrays -> BOOLEAN]
  OBVIOUS
<1>3. PixelsTyped'
  BY <1>1, <1>2 DEF PixelsTyped, Pixels!Pixels, Pixels!Arrays
<1>4. \A b \in Pixels!Arrays : Quiet(b)'
  BY DEF Quiet
<1> QED BY <1>3, <1>4 DEF PixelsInv, Pixels!Arrays

LEMMA PixelsStep ==
  ASSUME Pixels!NeoPixelAssumption, PixelsInv, [Pixels!Next]_(Pixels!vars)
  PROVE  PixelsInv'
<1>1. PixelsTyped /\ 0 \in Pixels!Colors /\ Hues \in Nat \ {0}
  BY DEF PixelsInv, Pixels!NeoPixelAssumption, Pixels!Colors
<1>2. ASSUME NEW a \in Pixels!Arrays, Pixels!Fill(a) PROVE PixelsInv'
  <2>1. PICK color \in Pixels!Colors, range \in Pixels!Reached(a) :
          Pixels!Paint(a, [i \in Pixels!Pixels(a) |->
                             IF i \in range THEN color ELSE colors[a][i]])
    BY <1>2 DEF Pixels!Fill
  <2> DEFINE new == [i \in Pixels!Pixels(a) |->
                       IF i \in range THEN color ELSE colors[a][i]]
  <2>2. new \in [Pixels!Pixels(a) -> Pixels!Colors]
    BY <1>1 DEF PixelsTyped
  <2>3. UNCHANGED <<forceDisable, shown, taken>>
        /\ hue' \in [Pixels!Arrays -> 0..(Hues - 1)]
    BY <1>1, <1>2 DEF Pixels!Fill, PixelsTyped
  <2>4. Pixels!Paint(a, new)
    BY <2>1
  <2> HIDE DEF new
  <2> QED BY <2>2, <2>3, <2>4, PixelsUnshown
<1>3. ASSUME NEW a \in Pixels!Arrays, Pixels!IsChanged(a) PROVE PixelsInv'
  <2>1. /\ changed' = [changed EXCEPT ![a] = FALSE] /\ taken' = [taken EXCEPT ![a] = TRUE]
        /\ UNCHANGED <<colors, forceDisable, hue, shown>>
    BY <1>3 DEF Pixels!IsChanged
  <2>2. changed' \in [Pixels!Arrays -> BOOLEAN] /\ taken' \in [Pixels!Arrays -> BOOLEAN]
    BY <1>1, <2>1 DEF PixelsTyped
  <2>3. PixelsTyped'
    BY <1>1, <2>1, <2>2 DEF PixelsTyped, Pixels!Pixels, Pixels!Arrays
  <2>4. ASSUME NEW b \in Pixels!Arrays PROVE Quiet(b)'
    <3>1. CASE b = a
      BY <1>1, <2>1, <3>1 DEF PixelsTyped, Quiet
    <3>2. CASE b # a
      <4>1. changed'[b] = changed[b] /\ taken'[b] = taken[b]
        BY <1>1, <2>1, <3>2 DEF PixelsTyped
      <4> QED BY <2>1, <4>1 DEF PixelsInv, Quiet, Pixels!Pixels
    <3> QED BY <3>1, <3>2
  <2> QED BY <2>3, <2>4 DEF PixelsInv, Pixels!Arrays
<1>4. ASSUME NEW a \in Pixels!Arrays, Pixels!Update(a) PROVE PixelsInv'
  <2>1. /\ changed' = [changed EXCEPT ![a] = FALSE] /\ shown' = colors'
        /\ taken' = [b \in Pixels!Arrays |-> FALSE]
        /\ UNCHANGED <<colors, forceDisable, hue>>
    BY <1>4 DEF Pixels!Update, Pixels!Show
  <2>2. changed' \in [Pixels!Arrays -> BOOLEAN]
        /\ forceDisable' \in [Pixels!Arrays -> BOOLEAN]
    BY <1>1, <2>1 DEF PixelsTyped
  <2>3. /\ \A b \in Pixels!Arrays : colors'[b] \in [Pixels!Pixels(b) -> Pixels!Colors]
        /\ DOMAIN colors' = Pixels!Arrays
        /\ colors' = [b \in Pixels!Arrays |-> colors'[b]]
    BY <1>1, <2>1 DEF PixelsTyped
  <2> QED BY <1>1, <2>1, <2>2, <2>3, PixelsShown
<1>5. ASSUME NEW a \in Pixels!Arrays, Pixels!SetForceDisable(a) PROVE PixelsInv'
  <2> DEFINE new == [i \in Pixels!Pixels(a) |-> 0]
  <2>1. /\ \E d \in BOOLEAN : forceDisable' = [forceDisable EXCEPT ![a] = d]
        /\ Pixels!Paint(a, new) /\ shown' = colors'
        /\ taken' = [b \in Pixels!Arrays |-> FALSE] /\ hue' = hue
    BY <1>5 DEF Pixels!SetForceDisable, Pixels!Show
  <2>2. forceDisable' \in [Pixels!Arrays -> BOOLEAN]
    BY <1>1, <2>1 DEF PixelsTyped
  <2>3. new \in [Pixels!Pixels(a) -> Pixels!Colors]
    BY <1>1
  <2> HIDE DEF new
  <2>4. /\ changed' \in [Pixels!Arrays -> BOOLEAN]
        /\ \A b \in Pixels!Arrays : colors'[b] \in [Pixels!Pixels(b) -> Pixels!Colors]
        /\ DOMAIN colors' = Pixels!Arrays
        /\ colors' = [b \in Pixels!Arrays |-> colors'[b]]
    BY <1>1, <2>1, <2>3, PixelsPainted
  <2> QED BY <1>1, <2>1, <2>2, <2>4, PixelsShown
<1>6. ASSUME NEW a \in Pixels!Arrays, Pixels!Rainbow(a) PROVE PixelsInv'
  <2>1. PICK n \in 1..(Sizes[a] + 1) : Pixels!Paint(a, Pixels!Rainbowed(a, n))
    BY <1>6 DEF Pixels!Rainbow
  <2>2. UNCHANGED <<forceDisable, shown, taken>>
        /\ hue' = [hue EXCEPT ![a] = (hue[a] + 1) % Hues]
    BY <1>6 DEF Pixels!Rainbow
  <2>3. hue' \in [Pixels!Arrays -> 0..(Hues - 1)]
    <3>1. hue[a] + 1 \in Int /\ hue \in [Pixels!Arrays -> 0..(Hues - 1)]
      BY <1>1 DEF PixelsTyped
    <3>2. (hue[a] + 1) % Hues \in 0..(Hues - 1)
      BY <1>1, <3>1, DivMod
    <3> QED BY <2>2, <3>1, <3>2
  <2>4. Pixels!Rainbowed(a, n) \in [Pixels!Pixels(a) -> Pixels!Colors]
    BY <1>1, RainbowColors
  <2> QED BY <2>1, <2>2, <2>3, <2>4, PixelsUnshown
<1>7. CASE UNCHANGED Pixels!vars
  BY <1>7 DEF Pixels!vars, PixelsInv, PixelsTyped, Quiet, Pixels!Pixels, Pixels!Arrays
<1> QED BY <1>2, <1>3, <1>4, <1>5, <1>6, <1>7 DEF Pixels!Next

LEMMA PixelsAlone ==
  /\ About("pixels") /\ Init => Pixels!Init
  /\ About("pixels") /\ [Next]_vars => [Pixels!Next]_(Pixels!vars)
<1>1. About("pixels") /\ Init => Pixels!Init
  BY DEF About, Init
<1>2. About("pixels") /\ [Next]_vars => [Pixels!Next]_(Pixels!vars)
  BY DEF About, Next, Others, vars, pixels, Pixels!vars
<1> QED BY <1>1, <1>2

LEMMA PixelsInductive == Spec => [](About("pixels") => PixelsInv)
<1>1. About("pixels") /\ Init => PixelsInv
  BY OutputsAssumption, PixelsAlone, PixelsInit DEF OutputsAssumption
<1>2. About("pixels") /\ PixelsInv /\ [Next]_vars => PixelsInv'
  BY OutputsAssumption, PixelsAlone, PixelsStep DEF OutputsAssumption
<1>3. About("pixels") /\ [Next]_vars => About("pixels")'
  BY AboutStays
<1>4. ~About("pixels") /\ [Next]_vars => ~About("pixels")'
  BY AboutAlways
<1> QED BY <1>1, <1>2, <1>3, <1>4, PTL DEF Spec

-----------------------------------------------------------------------------
\* The palette.  A component as bright as every other, and one as dark.
LEMMA BrightestIs ==
  ASSUME NEW c \in Palette!Color, NEW m \in {c[i] : i \in Palette!Parts},
         \A i \in Palette!Parts : c[i] <= m, Full \in Nat
  PROVE  Palette!Brightest(c) = m
<1>1. \A i \in Palette!Parts : c[i] \in Int
  BY DEF Palette!Color, Palette!Component
<1>2. \A k \in {c[i] : i \in Palette!Parts} : (\A i \in Palette!Parts : c[i] <= k) => k = m
  BY <1>1
<1> QED BY <1>2 DEF Palette!Brightest

LEMMA DarkestIs ==
  ASSUME NEW c \in Palette!Color, NEW m \in {c[i] : i \in Palette!Parts},
         \A i \in Palette!Parts : c[i] >= m, Full \in Nat
  PROVE  Palette!Darkest(c) = m
<1>1. \A i \in Palette!Parts : c[i] \in Int
  BY DEF Palette!Color, Palette!Component
<1>2. \A k \in {c[i] : i \in Palette!Parts} : (\A i \in Palette!Parts : c[i] >= k) => k = m
  BY <1>1
<1> QED BY <1>2 DEF Palette!Darkest

LEMMA Ends ==
  ASSUME Full \in Nat, NEW c \in Palette!Color
  PROVE  \E i, j \in Palette!Parts :
           /\ c[i] = Palette!Brightest(c) /\ c[j] = Palette!Darkest(c)
           /\ \A k \in Palette!Parts : c[j] <= c[k] /\ c[k] <= c[i] /\ c[k] \in 0..Full
<1> DEFINE r == c["red"]
           g == c["green"]
           b == c["blue"]
<1>1. Palette!Parts = {"red", "green", "blue"}
  BY DEF Palette!Parts
<1>2. r \in 0..Full /\ g \in 0..Full /\ b \in 0..Full
  BY <1>1 DEF Palette!Color, Palette!Component
<1>3. \E i \in Palette!Parts : c[i] >= r /\ c[i] >= g /\ c[i] >= b
  <2>1. \E m \in {r, g, b} : m >= r /\ m >= g /\ m >= b
    <3> HIDE DEF r, g, b
    <3> QED BY <1>2
  <2> QED BY <1>1, <2>1
<1>4. \E i \in Palette!Parts : c[i] <= r /\ c[i] <= g /\ c[i] <= b
  <2>1. \E m \in {r, g, b} : m <= r /\ m <= g /\ m <= b
    <3> HIDE DEF r, g, b
    <3> QED BY <1>2
  <2> QED BY <1>1, <2>1
<1>5. PICK i \in Palette!Parts : c[i] >= r /\ c[i] >= g /\ c[i] >= b
  BY <1>3
<1>6. PICK j \in Palette!Parts : c[j] <= r /\ c[j] <= g /\ c[j] <= b
  BY <1>4
<1>7. \A k \in Palette!Parts : c[j] <= c[k] /\ c[k] <= c[i] /\ c[k] \in 0..Full
  BY <1>1, <1>2, <1>5, <1>6
<1>8. c[i] = Palette!Brightest(c) /\ c[j] = Palette!Darkest(c)
  BY <1>7, BrightestIs, DarkestIs
<1> QED BY <1>7, <1>8

\* A quotient of a product is within what its other factor is.
LEMMA Share ==
  ASSUME NEW n \in Nat \ {0}, NEW k \in 0..n, NEW b \in Nat
  PROVE  (k * b) \div n \in 0..b /\ (n * b) \div n = b
<1> DEFINE p == k * b
           w == n * b
<1>1. p \in Int /\ w \in Int /\ n * 0 <= p
  BY SMT
<1>2. p <= n * b
  BY ProductGrows
<1>3. n * b <= w /\ w <= n * b
  BY <1>1
<1> HIDE DEF p, w
<1>4. 0 <= p \div n /\ p \div n <= b /\ p \div n \in Int
  BY <1>1, <1>2, QuotientBetween
<1>5. b <= w \div n /\ w \div n <= b /\ w \div n \in Int
  BY <1>1, <1>3, QuotientBetween
<1>6. p \div n \in 0..b /\ w \div n = b
  BY <1>4, <1>5
<1> QED BY <1>6 DEF p, w

LEMMA Uncut ==
  ASSUME Full \in Nat, NEW x \in 0..Full PROVE Palette!Cut(x) = x
<1>1. Full + 1 \in Nat \ {0} /\ x \in 0..((Full + 1) - 1)
  OBVIOUS
<1> QED BY <1>1, ClockBelow DEF Palette!Cut

\* A share of a colour that has a component at its full is as bright as the share.
LEMMA Dimmed ==
  ASSUME Palette!ColorsAssumption, NEW c \in Palette!Color, NEW b \in 0..Full
  PROVE  /\ Palette!SetBrightness(c, b) \in Palette!Color
         /\ (\E i \in Palette!Parts : c[i] = Full)
              => Palette!Brightest(Palette!SetBrightness(c, b)) = b
<1> DEFINE d == Palette!SetBrightness(c, b)
<1>1. Full \in Nat \ {0} /\ Full \in Nat /\ b \in Nat
  BY DEF Palette!ColorsAssumption
<1>2. ASSUME NEW i \in Palette!Parts
      PROVE  d[i] \in 0..b /\ d[i] \in 0..Full /\ (c[i] = Full => d[i] = b)
  <2> DEFINE k == c[i]
             q == (k * b) \div Full
  <2>1. k \in 0..Full
    BY DEF Palette!Color, Palette!Component
  <2>2. d[i] = Palette!Cut(q)
    BY DEF Palette!SetBrightness
  <2> HIDE DEF d, k
  <2>3. q \in 0..b /\ (k = Full => q = b)
    BY <1>1, <2>1, Share
  <2> HIDE DEF q
  <2>4. q \in 0..Full
    BY <1>1, <2>3
  <2>5. d[i] = q
    BY <1>1, <2>2, <2>4, Uncut
  <2> QED BY <2>3, <2>4, <2>5 DEF k
<1>3. d = [i \in Palette!Parts |-> d[i]]
  BY DEF Palette!SetBrightness
<1> HIDE DEF d
<1>4. d \in Palette!Color
  BY <1>2, <1>3 DEF Palette!Color, Palette!Component
<1>5. ASSUME NEW i \in Palette!Parts, c[i] = Full PROVE Palette!Brightest(d) = b
  <2>1. d[i] = b /\ \A j \in Palette!Parts : d[j] <= b
    BY <1>1, <1>2, <1>5
  <2> QED BY <1>1, <1>4, <2>1, BrightestIs
<1> QED BY <1>4, <1>5 DEF d

LEMMA FullyBright ==
  ASSUME Palette!ColorsAssumption, NEW c \in Palette!Color
  PROVE  /\ Palette!SetFullBrightness(c) \in Palette!Color
         /\ Palette!Brightest(c) > 0
              => \E i \in Palette!Parts : Palette!SetFullBrightness(c)[i] = Full
<1> DEFINE m == Palette!Brightest(c)
           d == Palette!SetFullBrightness(c)
<1>1. Full \in Nat \ {0} /\ Full \in Nat
  BY DEF Palette!ColorsAssumption
<1>2. PICK top \in Palette!Parts :
        c[top] = m /\ \A k \in Palette!Parts : c[k] <= m /\ c[k] \in 0..Full
  BY <1>1, Ends
<1> HIDE DEF m
<1>3. CASE m = 0
  BY <1>3 DEF Palette!SetFullBrightness, m
<1>4. CASE m # 0
  <2>1. m \in Nat \ {0}
    BY <1>2, <1>4
  <2>2. d = [i \in Palette!Parts |-> Palette!Cut((c[i] * Full) \div m)]
    BY <1>4 DEF Palette!SetFullBrightness, m
  <2> HIDE DEF d
  <2>3. ASSUME NEW i \in Palette!Parts
        PROVE  d[i] \in 0..Full /\ (c[i] = m => d[i] = Full)
    <3> DEFINE k == c[i]
               q == (k * Full) \div m
    <3>1. k \in 0..m
      BY <1>2, <2>1
    <3>2. d[i] = Palette!Cut(q)
      BY <2>2
    <3> HIDE DEF k
    <3>3. q \in 0..Full /\ (k = m => q = Full)
      BY <1>1, <2>1, <3>1, Share
    <3> HIDE DEF q
    <3>4. d[i] = q
      BY <1>1, <3>2, <3>3, Uncut
    <3> QED BY <3>3, <3>4 DEF k
  <2>4. d \in Palette!Color
    BY <2>2, <2>3 DEF Palette!Color, Palette!Component
  <2>5. d[top] = Full
    BY <1>2, <2>3
  <2> QED BY <2>4, <2>5 DEF d
<1> QED BY <1>3, <1>4

\* getRGB(): as bright as asked, but for the rounding of what was asked.
Percent(p) == (Full * (IF p > 100 THEN 100 ELSE p)) \div 100

LEMMA AsBrightAsAsked ==
  ASSUME Palette!ColorsAssumption, NEW c \in Palette!Color, NEW p \in Nat
  PROVE  /\ Palette!GetRGB(c, p) \in Palette!Color
         /\ Palette!Brightest(c) > 0
              => Palette!Brightest(Palette!GetRGB(c, p)) = Percent(p)
<1> DEFINE d == Palette!SetFullBrightness(c)
           k == IF p > 100 THEN 100 ELSE p
           b == (Full * k) \div 100
<1>1. d \in Palette!Color
      /\ (Palette!Brightest(c) > 0 => \E i \in Palette!Parts : d[i] = Full)
  BY FullyBright
<1>2. b \in 0..Full
  <2>1. Full \in Nat /\ k \in 0..100
    BY DEF Palette!ColorsAssumption
  <2> HIDE DEF k
  <2>2. (k * Full) \div 100 \in 0..Full
    BY <2>1, Share
  <2>3. k * Full = Full * k
    BY <2>1
  <2> QED BY <2>2, <2>3
<1>3. Palette!GetRGB(c, p) = Palette!SetBrightness(d, b) /\ Percent(p) = b
  BY DEF Palette!GetRGB, Percent
<1> HIDE DEF d, b
<1> QED BY <1>1, <1>2, <1>3, Dimmed

\* The complement keeps the ends of a colour, so that it undoes itself.
LEMMA ComplementUndone ==
  ASSUME Palette!ColorsAssumption, NEW c \in Palette!Color
  PROVE  /\ Palette!GetComplementaryColor(c) \in Palette!Color
         /\ Palette!GetComplementaryColor(Palette!GetComplementaryColor(c)) = c
<1> DEFINE m == Palette!Brightest(c)
           n == Palette!Darkest(c)
           d == Palette!GetComplementaryColor(c)
<1>1. Full \in Nat
  BY DEF Palette!ColorsAssumption
<1>2. PICK i \in Palette!Parts, j \in Palette!Parts :
        /\ c[i] = m /\ c[j] = n
        /\ \A k \in Palette!Parts : n <= c[k] /\ c[k] <= m /\ c[k] \in 0..Full
  BY <1>1, Ends
<1>3. d = [k \in Palette!Parts |-> Palette!Cut(m + n - c[k])]
  BY DEF Palette!GetComplementaryColor
<1>4. m \in 0..Full /\ n \in 0..Full
  BY <1>2
<1> HIDE DEF m, n, d
<1>5. ASSUME NEW k \in Palette!Parts
      PROVE  d[k] = m + n - c[k] /\ d[k] \in 0..Full /\ n <= d[k] /\ d[k] <= m
  <2> DEFINE x == m + n - c[k]
  <2>1. x \in 0..Full /\ n <= x /\ x <= m
    BY <1>1, <1>2, <1>4
  <2>2. d[k] = Palette!Cut(x)
    BY <1>3
  <2> HIDE DEF x
  <2>3. d[k] = x
    BY <1>1, <2>1, <2>2, Uncut
  <2> QED BY <2>1, <2>3 DEF x
<1>6. d \in Palette!Color
  BY <1>3, <1>5 DEF Palette!Color, Palette!Component
<1>7. d[j] = m /\ d[i] = n
  BY <1>2, <1>4, <1>5
<1>8. Palette!Brightest(d) = m /\ Palette!Darkest(d) = n
  BY <1>1, <1>5, <1>6, <1>7, BrightestIs, DarkestIs
<1>9. Palette!GetComplementaryColor(d)
        = [k \in Palette!Parts |-> Palette!Cut(m + n - d[k])]
  BY <1>8 DEF Palette!GetComplementaryColor
<1>10. ASSUME NEW k \in Palette!Parts PROVE Palette!Cut(m + n - d[k]) = c[k]
  <2>1. m + n - d[k] = c[k] /\ c[k] \in 0..Full
    BY <1>2, <1>4, <1>5
  <2> QED BY <1>1, <2>1, Uncut
<1>11. c = [k \in Palette!Parts |-> c[k]]
  BY DEF Palette!Color
<1>12. Palette!GetComplementaryColor(d) = c
  BY <1>9, <1>10, <1>11
<1> QED BY <1>6, <1>12 DEF d

LEMMA PaletteInductive == Spec => [](About("palette") => Palette!TypeOK)
<1>1. Palette!ColorsAssumption
  BY OutputsAssumption DEF OutputsAssumption
<1>2. Init => Palette!TypeOK
  BY DEF Init, Palette!Init, Palette!TypeOK
<1>3. Palette!TypeOK /\ Palette!Mix => Palette!TypeOK'
  <2> SUFFICES ASSUME Palette!TypeOK, Palette!Mix PROVE Palette!TypeOK'
    OBVIOUS
  <2>1. Full \in Nat /\ tint \in Palette!Color
    BY <1>1 DEF Palette!ColorsAssumption, Palette!TypeOK
  <2>2. \A b \in 0..Full : Palette!SetBrightness(tint, b) \in Palette!Color
    BY <1>1, <2>1, Dimmed
  <2>3. \A p \in Nat : Palette!GetRGB(tint, p) \in Palette!Color
    BY <1>1, <2>1, AsBrightAsAsked
  <2>4. Palette!SetFullBrightness(tint) \in Palette!Color
        /\ Palette!GetComplementaryColor(tint) \in Palette!Color
    BY <1>1, <2>1, FullyBright, ComplementUndone
  <2>5. tint' \in Palette!Color
    BY <2>2, <2>3, <2>4 DEF Palette!Mix, Palette!Component
  <2> QED BY <2>5 DEF Palette!TypeOK, Palette!Color, Palette!Component, Palette!Parts
<1>4. About("palette") /\ Palette!TypeOK /\ [Next]_vars => Palette!TypeOK'
  <2> SUFFICES ASSUME About("palette"), Palette!TypeOK, [Next]_vars
               PROVE  Palette!TypeOK'
    OBVIOUS
  <2>1. Palette!Mix \/ UNCHANGED tint
    BY DEF About, Next, Others, vars
  <2> QED BY <1>3, <2>1 DEF Palette!TypeOK, Palette!Color, Palette!Component,
                            Palette!Parts
<1>5. About("palette") /\ [Next]_vars => About("palette")'
  BY AboutStays
<1>6. ~About("palette") /\ [Next]_vars => ~About("palette")'
  BY AboutAlways
<1> QED BY <1>2, <1>4, <1>5, <1>6, PTL DEF Spec

\* No array that has noted no change is left with other colours than it shows, however
\* many share the LEDs' bus; and a colour made for a percentage is as bright as asked,
\* the complement undoes itself, and no component is cut by its width, whatever that is.
THEOREM LightsAreRight == Spec => []LightsHold
<1>1. ASSUME Palette!TypeOK PROVE Palette!PaletteHolds
  <2>1. Palette!ColorsAssumption /\ tint \in Palette!Color
    BY <1>1, OutputsAssumption DEF OutputsAssumption, Palette!TypeOK
  <2>2. \A p \in {0, 50, 100, 200} : Palette!Brightest(tint) > 0 =>
          Palette!Brightest(Palette!GetRGB(tint, p)) = Percent(p)
    BY <2>1, AsBrightAsAsked
  <2>3. Palette!GetComplementaryColor(Palette!GetComplementaryColor(tint)) = tint
    BY <2>1, ComplementUndone
  <2> QED BY <2>2, <2>3 DEF Palette!PaletteHolds, Percent
<1>2. PixelsInv => Pixels!ShownWhenQuiet
  BY DEF PixelsInv, Quiet, Pixels!ShownWhenQuiet
<1>3. (About("palette") => Palette!TypeOK) /\ (About("pixels") => PixelsInv) => LightsHold
  BY <1>1, <1>2 DEF About, LightsHold
<1> QED BY <1>3, PaletteInductive, PixelsInductive, PTL

-----------------------------------------------------------------------------
\* The menu.  The first entry with a function, and the first with a key.
LEMMA MenuConstants ==
  ASSUME Menu!MenuAssumption
  PROVE  /\ B \in Nat \ {0} /\ Len(Entries) \in Nat /\ Len(Entries) < B
         /\ DOMAIN Entries = 1..Len(Entries) /\ Typed \subseteq Int /\ NoKey # MenuKey
         /\ \A i \in DOMAIN Entries : Entries[i].key # MenuKey
BY DEF Menu!MenuAssumption

LEMMA NumberOf ==
  ASSUME Menu!MenuAssumption, NEW i \in DOMAIN Entries
  PROVE  LET n == Menu!GetMenuNum(Entries[i].function)
         IN  n \in 0..(Len(Entries) - 1) /\ Entries[n + 1].function = Entries[i].function
<1> DEFINE f == Entries[i].function
           T == {k \in 0..(Len(Entries) - 1) : Entries[k + 1].function = f}
<1>1. Len(Entries) \in Nat /\ i \in 1..Len(Entries)
  BY MenuConstants
<1>2. i - 1 \in T /\ T \subseteq Nat
  <2>1. i - 1 \in 0..(Len(Entries) - 1) /\ (i - 1) + 1 = i
    BY <1>1
  <2> QED BY <2>1
<1> HIDE DEF T
<1>3. PICK k \in T : \A y \in T : k <= y
  BY <1>2, LeastNumber
<1>4. k \in 0..(Len(Entries) - 1) /\ Entries[k + 1].function = f
  BY <1>3 DEF T
<1>5. \A j \in 1..k : Entries[j].function # f
  <2> SUFFICES ASSUME NEW j \in 1..k, Entries[j].function = f PROVE FALSE
    OBVIOUS
  <2>1. j - 1 \in 0..(Len(Entries) - 1) /\ (j - 1) + 1 = j /\ j - 1 < k /\ k \in Nat
    BY <1>1, <1>4
  <2>2. j - 1 \in T
    BY <2>1 DEF T
  <2> QED BY <1>3, <2>1, <2>2
<1> HIDE DEF f
<1>6. \E n \in 0..(Len(Entries) - 1) :
        Entries[n + 1].function = f /\ \A j \in 1..n : Entries[j].function # f
  BY <1>4, <1>5
<1>7. Menu!GetMenuNum(f) \in 0..(Len(Entries) - 1)
      /\ Entries[Menu!GetMenuNum(f) + 1].function = f
  BY <1>6 DEF Menu!GetMenuNum
<1> QED BY <1>7 DEF f

\* What getMode() leaves for a key that chooses: an entry with its function.
LEMMA ShortcutMode ==
  ASSUME Menu!MenuAssumption, NEW key, NEW number, NEW i \in Menu!WithKey(key),
         \A j \in Menu!WithKey(key) : i <= j, NEW md \in Menu!GetMode(key, number)
  PROVE  md \in 0..(Len(Entries) - 1) /\ Entries[md + 1].function = Entries[i].function
<1>1. i \in DOMAIN Entries /\ key # MenuKey /\ Menu!WithKey(key) # {}
  BY MenuConstants DEF Menu!WithKey
<1>2. \A k \in Menu!WithKey(key) : k \in Int
  BY MenuConstants DEF Menu!WithKey
<1> DEFINE least == CHOOSE k \in Menu!WithKey(key) : \A j \in Menu!WithKey(key) : k <= j
<1>3. least = i
  <2>1. \A k \in Menu!WithKey(key) : (\A j \in Menu!WithKey(key) : k <= j) => k = i
    BY <1>2
  <2> QED BY <2>1
<1>4. Menu!GetMode(key, number) = {Menu!GetMenuNum(Entries[least].function)}
  BY <1>1 DEF Menu!GetMode
<1> HIDE DEF least
<1>5. md = Menu!GetMenuNum(Entries[i].function)
  BY <1>3, <1>4
<1> QED BY <1>1, <1>5, NumberOf

LEMMA ModeInByte ==
  ASSUME Menu!MenuAssumption, NEW key, NEW number \in Int,
         NEW md \in Menu!GetMode(key, number)
  PROVE  md \in 0..(B - 1)
<1>1. B \in Nat \ {0} /\ Len(Entries) \in Nat /\ Len(Entries) < B
  BY MenuConstants
<1>2. CASE key = MenuKey
  <2>1. md = number % B
    BY <1>2 DEF Menu!GetMode
  <2> QED BY <1>1, <2>1, DivMod
<1>3. CASE key # MenuKey /\ Menu!WithKey(key) = {}
  BY <1>3 DEF Menu!GetMode, Menu!Modes
<1>4. CASE Menu!WithKey(key) # {}
  <2> DEFINE T == Menu!WithKey(key)
  <2>1. T \subseteq Nat /\ T # {}
    BY <1>4, MenuConstants DEF Menu!WithKey
  <2> HIDE DEF T
  <2>2. PICK i \in T : \A j \in T : i <= j
    BY <2>1, LeastNumber
  <2>3. md \in 0..(Len(Entries) - 1)
    BY <2>2, ShortcutMode DEF T
  <2> QED BY <1>1, <2>3
<1> QED BY <1>2, <1>3, <1>4

MenuInv == Menu!TypeOK /\ Menu!ChoiceRuns

LEMMA MenuInit ==
  ASSUME Menu!MenuAssumption, Menu!Init PROVE MenuInv
<1>1. 0 \in 0..(B - 1) /\ NoKey # MenuKey
  BY MenuConstants
<1>2. Menu!WithKey(NoKey) = {}
  BY DEF Menu!WithKey
<1> QED BY <1>1, <1>2 DEF MenuInv, Menu!Init, Menu!TypeOK, Menu!Modes, Menu!ChoiceRuns

LEMMA MenuChooses ==
  ASSUME Menu!MenuAssumption, MenuInv, NEW key \in Keys, NEW number \in Typed,
         Menu!MenuApp(key, number)
  PROVE  MenuInv'
<1>1. PICK md \in Menu!GetMode(key, number) :
        IF md < Len(Entries)
        THEN ran' = Entries[md + 1].function /\ menuMode' \in {md, 0}
        ELSE ran' = "nothing" /\ menuMode' = 0
  BY DEF Menu!MenuApp
<1>2. chosen' = [key |-> key, number |-> number] /\ UNCHANGED <<lastMode, first>>
  BY DEF Menu!MenuApp
<1>3. B \in Nat \ {0} /\ Len(Entries) \in Nat /\ Len(Entries) < B /\ number \in Int
      /\ DOMAIN Entries = 1..Len(Entries)
  BY MenuConstants
<1>4. md \in 0..(B - 1)
  BY <1>3, ModeInByte
<1>5. Menu!TypeOK'
  <2>1. menuMode' \in 0..(B - 1)
    BY <1>1, <1>3, <1>4
  <2>2. ran' \in {"nothing"} \cup {Entries[i].function : i \in DOMAIN Entries}
    <3>1. CASE md < Len(Entries)
      <4>1. md + 1 \in DOMAIN Entries
        BY <1>3, <1>4, <3>1
      <4> QED BY <1>1, <3>1, <4>1
    <3>2. CASE ~(md < Len(Entries))
      BY <1>1, <3>2
    <3> QED BY <3>1, <3>2
  <2>3. chosen'.key = key /\ chosen'.number = number
    BY <1>2
  <2> QED BY <1>2, <2>1, <2>2, <2>3 DEF MenuInv, Menu!TypeOK, Menu!Modes
<1>6. ASSUME NEW i \in Menu!WithKey(key), \A j \in Menu!WithKey(key) : i <= j
      PROVE  ran' = Entries[i].function
  <2>1. md \in 0..(Len(Entries) - 1) /\ Entries[md + 1].function = Entries[i].function
    BY <1>6, ShortcutMode
  <2> QED BY <1>1, <1>3, <2>1
<1>7. ASSUME key = MenuKey, number \in 0..(Len(Entries) - 1)
      PROVE  ran' = Entries[number + 1].function
  <2>1. md = number % B
    BY <1>7 DEF Menu!GetMode
  <2>2. number \in 0..(B - 1) /\ number < Len(Entries)
    BY <1>3, <1>7
  <2>3. md = number
    BY <1>3, <2>1, <2>2, ClockBelow
  <2> QED BY <1>1, <2>2, <2>3
<1>8. Menu!ChoiceRuns'
  <2>1. chosen'.key = key /\ chosen'.number = number
    BY <1>2
  <2> QED BY <1>6, <1>7, <2>1 DEF Menu!ChoiceRuns, Menu!WithKey
<1> QED BY <1>5, <1>8 DEF MenuInv

LEMMA MenuStep ==
  ASSUME Menu!MenuAssumption, MenuInv, [Menu!Next]_(Menu!vars) PROVE MenuInv'
<1>1. CASE Menu!IsFirstAccess
  <2>1. /\ first' = (menuMode # lastMode) /\ lastMode' = menuMode
        /\ UNCHANGED <<menuMode, ran, chosen>>
    BY <1>1 DEF Menu!IsFirstAccess
  <2>2. first' \in BOOLEAN
    BY <2>1
  <2> QED BY <2>1, <2>2 DEF MenuInv, Menu!TypeOK, Menu!Modes, Menu!ChoiceRuns, Menu!WithKey
<1>2. CASE UNCHANGED Menu!vars
  BY <1>2 DEF Menu!vars, MenuInv, Menu!TypeOK, Menu!Modes, Menu!ChoiceRuns, Menu!WithKey
<1> QED BY <1>1, <1>2, MenuChooses DEF Menu!Next

LEMMA MenuAlone ==
  /\ About("menu") /\ Init => Menu!Init
  /\ About("menu") /\ [Next]_vars => [Menu!Next]_(Menu!vars)
<1>1. About("menu") /\ Init => Menu!Init
  BY DEF About, Init
<1>2. About("menu") /\ [Next]_vars => [Menu!Next]_(Menu!vars)
  BY DEF About, Next, Others, vars, menu, Menu!vars
<1> QED BY <1>1, <1>2

LEMMA MenuInductive == Spec => [](About("menu") => MenuInv)
<1>1. About("menu") /\ Init => MenuInv
  BY OutputsAssumption, MenuAlone, MenuInit DEF OutputsAssumption
<1>2. About("menu") /\ MenuInv /\ [Next]_vars => MenuInv'
  BY OutputsAssumption, MenuAlone, MenuStep DEF OutputsAssumption
<1>3. About("menu") /\ [Next]_vars => About("menu")'
  BY AboutStays
<1>4. ~About("menu") /\ [Next]_vars => ~About("menu")'
  BY AboutAlways
<1> QED BY <1>1, <1>2, <1>3, <1>4, PTL DEF Spec

\* For every table that countMenu() can count: a shortcut runs the first entry that has
\* it, and a number typed at the menu its own entry, though functions and keys may stand
\* in the table more than once.
THEOREM ChoiceIsRun == Spec => []ChoiceRuns
<1>1. (About("menu") => MenuInv) => ChoiceRuns
  BY DEF About, MenuInv, ChoiceRuns
<1> QED BY <1>1, MenuInductive, PTL

-----------------------------------------------------------------------------
LEMMA RemoteInductive == Spec => [](About("remote") => Remote!TypeOK)
<1>1. Init => Remote!TypeOK
  BY RemoteTyped DEF Init
<1>2. About("remote") /\ [Next]_vars => [Remote!Next]_(Remote!vars)
  BY DEF About, Next, Others, vars, remote, Remote!vars
<1>3. About("remote") /\ [Next]_vars => About("remote")'
  BY AboutStays
<1>4. ~About("remote") /\ [Next]_vars => ~About("remote")'
  BY AboutAlways
<1> QED BY <1>1, <1>2, <1>3, <1>4, RemoteTyped, PTL DEF Spec

\* Every variable of the device a behaviour is about keeps its type: no duty or colour
\* leaves its width, and no pin, request or mode is anything it cannot be.
THEOREM OutputsTyped == Spec => []TypeOK
<1>1. (About("motor") => MotorInv) => (About("motor") => Vibrator!TypeOK)
  BY OutputsAssumption, MotorIsRight DEF OutputsAssumption
<1>2. (About("buzzer") => BuzzerInv) => (About("buzzer") => Buzzer!TypeOK)
  BY OutputsAssumption, BuzzerIsRight DEF OutputsAssumption
<1>3. SpeakerInv => Speaker!TypeOK
  BY DEF SpeakerInv, SpeakerTyped, Speaker!TypeOK
<1>4. PixelsInv => Pixels!TypeOK
  BY DEF PixelsInv, PixelsTyped, Pixels!TypeOK
<1>5. MenuInv => Menu!TypeOK
  BY DEF MenuInv
<1>6. /\ (About("motor") => Vibrator!TypeOK) /\ (About("buzzer") => Buzzer!TypeOK)
      /\ (About("speaker") => Speaker!TypeOK) /\ (About("remote") => Remote!TypeOK)
      /\ (About("pixels") => Pixels!TypeOK) /\ (About("palette") => Palette!TypeOK)
      /\ (About("menu") => Menu!TypeOK)
      => TypeOK
  BY DEF About, TypeOK
<1> QED BY <1>1, <1>2, <1>3, <1>4, <1>5, <1>6, MotorInductive, BuzzerInductive,
           SpeakerInductive, RemoteInductive, PixelsInductive, PaletteInductive,
           MenuInductive, PTL
=================================================================================
