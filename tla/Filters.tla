--------------------------------- MODULE Filters ---------------------------------
(***************************************************************************)
(* FirstFilter, MovAveFilter and MovMaxFilter (src/src/Filter.cpp): a      *)
(* first order low or high pass, a moving average and a moving maximum.    *)
(* The first two work on fix, counted in 1/Scale; a behaviour is about one *)
(* filter, and the others' variables rest.                                 *)
(***************************************************************************)
EXTENDS Integers, Sequences, FiniteSetsExt

CONSTANTS
  Size,        \* the number of values the moving filters keep
  Scale,       \* FIX_SHIFT_VAL (2^16)
  Gains,       \* the time constants calcTC() returns: 1 - exp(..) as a fix
  Inputs       \* the values filtered

FiltersAssumption ==
  /\ Size \in 1..255 /\ Scale \in Nat \ {0}
  /\ Gains \subseteq 0..Scale /\ Inputs \subseteq Int

VARIABLES
  kind,        \* "average", "max", or the mode of a first order filter
  data, at,    \* _data and _now
  sum, out,
  lpf, tc,     \* _lpf and _tc
  recent,      \* history: the last Size inputs, and whether each was a new maximum
  seen         \* history: every value put into a first order filter

window == <<data, at, sum>>
vars   == <<kind, window, out, lpf, tc, recent, seen>>

Slots == 0..(Size - 1)
Input(x, peak) == [x |-> x, peak |-> peak]

\* The division of C, which drops the remainder whatever the sign.
Quotient(n, d) == IF n >= 0 THEN n \div d ELSE -((-n) \div d)

-----------------------------------------------------------------------------
\* The constructors, with x0.
Init ==
  /\ kind \in {"average", "max", "LPF", "HPF"}
  /\ \E x0 \in Inputs :
       /\ data = [i \in Slots |-> x0] /\ sum = x0 * Size
       /\ out = IF kind \in {"LPF", "HPF"} THEN 0 ELSE x0
       /\ lpf = x0 /\ seen = {x0}
       /\ recent = [i \in 1..Size |-> Input(x0, FALSE)]
  /\ at = 0
  /\ IF kind \in {"LPF", "HPF"} THEN tc \in Gains ELSE tc = 0

Remember(x, peak) == recent' = Append(Tail(recent), Input(x, peak))

Forgotten(x0) ==
  /\ data' = [i \in Slots |-> x0]
  /\ recent' = [i \in 1..Size |-> Input(x0, FALSE)]
  /\ UNCHANGED <<kind, at, lpf, tc, seen>>

\* setData() of the average: what it last returned stays.
SetAverage(x0) ==
  /\ kind = "average"
  /\ Forgotten(x0) /\ sum' = x0 * Size
  /\ UNCHANGED out

\* setData() of the maximum, which becomes x0.
SetMaximum(x0) ==
  /\ kind = "max"
  /\ Forgotten(x0) /\ out' = x0
  /\ UNCHANGED sum

\* Mutant of MovingAverage: the value that leaves is the one that came last.
MovingAverageNewest(xn) ==
  /\ kind = "average"
  /\ sum' = sum - data[(at + Size - 1) % Size] + xn
  /\ data' = [data EXCEPT ![at] = xn]
  /\ at' = (at + 1) % Size
  /\ out' = Quotient(sum', Size)
  /\ Remember(xn, FALSE)
  /\ UNCHANGED <<kind, lpf, tc, seen>>

MovingAverage(xn) ==
  /\ kind = "average"
  /\ sum' = sum - data[at] + xn
  /\ data' = [data EXCEPT ![at] = xn]
  /\ at' = (at + 1) % Size
  /\ out' = Quotient(sum', Size)
  /\ Remember(xn, FALSE)
  /\ UNCHANGED <<kind, lpf, tc, seen>>

\* movingMax(): a value is kept when it is a new maximum, or when it takes the place
\* of the maximum; any other is dropped, and what its slot held stays.
MovingMax(xn) ==
  /\ kind = "max"
  /\ data' = IF xn > out \/ data[at] = out THEN [data EXCEPT ![at] = xn] ELSE data
  /\ out' = IF xn > out THEN xn
            ELSE IF data[at] = out THEN Max({data'[i] : i \in Slots}) ELSE out
  /\ at' = (at + 1) % Size
  /\ Remember(xn, xn > out)
  /\ UNCHANGED <<kind, sum, lpf, tc, seen>>

\* firstFiltering(): FIX_MUL rounds down.
FirstFiltering(in) ==
  /\ kind \in {"LPF", "HPF"}
  /\ lpf' = lpf + (((in - lpf) * tc) \div Scale)
  /\ out' = IF kind = "LPF" THEN lpf' ELSE in - lpf'
  /\ seen' = seen \cup {in}
  /\ UNCHANGED <<kind, window, tc, recent>>

SetLPF(x) ==
  /\ kind \in {"LPF", "HPF"}
  /\ lpf' = x /\ seen' = seen \cup {x}
  /\ UNCHANGED <<kind, window, out, tc, recent>>

Next == \E x \in Inputs : \/ SetAverage(x) \/ MovingAverage(x)
                          \/ SetMaximum(x) \/ MovingMax(x)
                          \/ FirstFiltering(x) \/ SetLPF(x)
Spec == Init /\ [][Next]_vars

-----------------------------------------------------------------------------
\* The type of the filters' state.
TypeOK ==
  /\ data \in [Slots -> Inputs] /\ at \in Slots
  /\ sum \in Int /\ out \in Int /\ lpf \in Int /\ tc \in Gains \cup {0}

\* The sum of a window's inputs.
WindowSum(w) ==
  LET upTo[n \in 0..Size] == IF n = 0 THEN 0 ELSE upTo[n - 1] + w[n].x
  IN  upTo[Size]

\* The running sum of the moving average is that of the last Size inputs, however
\* long it has run: nothing is added twice or left behind.
SumsWindow == kind = "average" => sum = WindowSum(recent)

\* The moving maximum is never below the input it was just given, nor below one
\* that was a new maximum within the last Size inputs, and it is one of the values
\* it keeps.
PeaksHold ==
  kind = "max" =>
    /\ out >= recent[Size].x
    /\ \A i \in 1..Size : recent[i].peak => out >= recent[i].x
    /\ \E i \in Slots : data[i] = out

\* A first order filter never leaves the range of what was put into it: a low pass
\* returns a value within it, and a high pass none larger than its width.
StaysInRange ==
  kind \in {"LPF", "HPF"} =>
    /\ Min(seen) <= lpf /\ lpf <= Max(seen)
    /\ kind = "LPF" => out = 0 \/ (Min(seen) <= out /\ out <= Max(seen))
    /\ kind = "HPF" => LET width == Max(seen) - Min(seen)
                       IN  -width <= out /\ out <= width

\* The moving maximum is the largest of the last Size inputs ("移動最大フィルタ",
\* Filter.cpp:128).
MaxOfWindow == kind = "max" => out = Max({recent[i].x : i \in 1..Size})
=============================================================================
