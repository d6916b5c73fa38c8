-------------------------------- MODULE MCOutputs --------------------------------
(***************************************************************************)
(* Small instances of Outputs for TLC: the values that a configuration     *)
(* cannot write down.                                                      *)
(***************************************************************************)
EXTENDS Outputs

Step(output, durationMs) == [output |-> output, durationMs |-> durationMs]

\* Fully on after PWM, PWM after fully on, a pause, and more than 100 percent.
MCMotorPatterns == {<<Step(30, 1), Step(100, 2), Step(50, 1)>>,
                    <<Step(200, 1), Step(0, 0), Step(30, 2)>>}

\* Notes at both ends of the range, a rest, and notes below and at its end.
MCMelodies == {<<Step(60, 1), Step(0, 1), Step(59, 2)>>,
               <<Step(59, 2), Step(40, 1), Step(109, 0)>>}

\* Two WAV files of different lengths, and something else.
MCLength == [short |-> 3, long |-> 5, noise |-> 2]
MCIsWav  == [f \in Files |-> f # "noise"]

MCSizes == [strip |-> 2, lamp |-> 1]

\* A function that stands in the table twice, an entry without a shortcut, and, with
\* what is typed, a number one past the table and one past a byte.
MCEntries == <<[function |-> "idle", key |-> 0], [function |-> "add", key |-> 97],
               [function |-> "sub", key |-> 98], [function |-> "add", key |-> 99]>>
=================================================================================
