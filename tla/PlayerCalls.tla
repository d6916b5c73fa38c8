------------------------------ MODULE PlayerCalls ------------------------------
(***************************************************************************)
(* TimedPatternPlayer with a history of who moved it: calls turns over     *)
(* with every play() and stop() of the program and with nothing else, so   *)
(* that no step of update() can pass for something the program asked for.  *)
(***************************************************************************)
EXTENDS TimedPatternPlayer

VARIABLE calls     \* history: the number of play() and stop() calls, modulo 2

CallsInit == Init /\ calls = 0

CallsNext ==
  \/ (Start \/ Stop) /\ calls' = 1 - calls
  \/ (Update \/ Capture \/ Tick) /\ UNCHANGED calls

CallsSpec == CallsInit /\ [][CallsNext]_<<vars, calls>>
FairSpec  == CallsSpec /\ Fairness

-----------------------------------------------------------------------------
\* A player whose device is just the value on it plays patterns as an output with a
\* clock that never wraps does: once started by the program, a whole pattern or what
\* had been captured of one is heard step by step, each for its duration, none
\* dropped, heard twice or out of its turn, and then there is silence.
Output == INSTANCE PatternOutput WITH
  clock  <- now,
  queue  <- Rest(steps, index),
  since  <- startedAt,
  output <- device,
  Silence <- FirstDevice

PlaysPatterns == Output!Spec
=============================================================================
