-------------------------- MODULE MCTimedPatternPlayer --------------------------
(***************************************************************************)
(* A small instance of PlayerCalls for TLC, with a device that is just the *)
(* value on it.                                                            *)
(***************************************************************************)
EXTENDS PlayerCalls

CONSTANTS Silence, a, b, c

Step(output, durationMs) == [output |-> output, durationMs |-> durationMs]

\* One pattern with a step of no duration in the middle, one of a single step.
MCPatterns == {<<Step(a, 2), Step(b, 0), Step(c, 4)>>, <<Step(b, 3)>>}

PlainApply(output, dev) == output
PlainStop(dev) == Silence
=============================================================================
