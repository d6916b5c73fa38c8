----------------------------- MODULE PatternOutput -----------------------------
(***************************************************************************)
(* What playing a timed pattern means, in a world whose clock never wraps: *)
(* the steps still to be heard, the first of them on the output, each for  *)
(* its duration and at most MaxGap longer.  Only a call of the program     *)
(* starts a pattern, or puts an end to one that is not over.               *)
(***************************************************************************)
EXTENDS Integers, Sequences

CONSTANTS
  Patterns,    \* the patterns of the program
  Silence,     \* the output while nothing is played
  MaxGap,      \* the longest time between two updates
  MaxTime      \* bound: the last instant looked at

VARIABLES
  clock,       \* time
  queue,       \* the steps not yet heard to the end
  since,       \* when the first of them began
  output,      \* what is on the output
  saved,       \* the steps a program set aside to play them later
  calls        \* how often the program called, modulo 2

player == <<clock, queue, since, output, saved, calls>>

Shown(q) == IF q = <<>> THEN Silence ELSE Head(q).output

Init ==
  /\ clock = 0 /\ since = 0
  /\ queue = <<>> /\ saved = <<>>
  /\ output = Silence
  /\ calls = 0

Show(q) == queue' = q /\ output' = Shown(q) /\ since' = clock

\* The program calls: a pattern from its first step, what was set aside, or silence.
Play ==
  /\ \E p \in Patterns \cup {saved, <<>>} : Show(p)
  /\ calls' = 1 - calls
  /\ UNCHANGED <<clock, saved>>

\* The first step is over: the one after it, or silence.
Advance ==
  /\ queue # <<>>
  /\ clock - since >= Head(queue).durationMs
  /\ Show(Tail(queue))
  /\ UNCHANGED <<clock, saved, calls>>

Capture == saved' = queue /\ UNCHANGED <<clock, queue, since, output, calls>>

Tick ==
  /\ clock < MaxTime
  /\ queue # <<>> => clock - since < Head(queue).durationMs + MaxGap
  /\ clock' = clock + 1
  /\ UNCHANGED <<queue, since, output, saved, calls>>

Next == Play \/ Advance \/ Capture \/ Tick
Spec == Init /\ [][Next]_player
=============================================================================
