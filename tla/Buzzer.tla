--------------------------------- MODULE Buzzer ---------------------------------
(***************************************************************************)
(* Buzzer (src/src/Buzzer.cpp): a buzzer on a PWM channel that sounds MIDI *)
(* notes.  It plays melodies as a TimedPatternPlayer, and the program may  *)
(* sound single notes between and during them.                             *)
(***************************************************************************)
EXTENDS Integers, Sequences

CONSTANTS Patterns, W, MaxGap, MaxTime,
          Notes,                        \* notes the program sounds by hand
          MIDI_NOTE_MIN, MIDI_NOTE_MAX  \* the notes that playTone() accepts

REST == 0

BuzzerAssumption ==
  /\ Patterns \subseteq Seq([output : Nat, durationMs : Nat])
  /\ Notes \subseteq Nat
  /\ MIDI_NOTE_MIN \in Nat \ {0} /\ MIDI_NOTE_MAX \in Nat

VARIABLES now, steps, index, stepStartedAt, playing, finished, saved,
          lastUpdate, startedAt,
          buzzer,    \* _begun, and the note that sounds, REST for none
          byHand     \* history: a note was set by hand since the player did

-----------------------------------------------------------------------------
FreshBuzzer == [begun |-> FALSE, tone |-> REST]

\* begin(), with its mute(), runs once; every other call runs it first.
Begin(z) == [z EXCEPT !.begun = TRUE, !.tone = IF z.begun THEN z.tone ELSE REST]

Mute(z) == [Begin(z) EXCEPT !.tone = REST]

\* Mutant of PlayTone: the range loses its first note.
PlayToneNarrow(note, z) ==
  IF note = REST THEN Mute(z)
  ELSE IF note \in (MIDI_NOTE_MIN + 1)..MIDI_NOTE_MAX
    THEN [Begin(z) EXCEPT !.tone = note]
  ELSE Begin(z)

\* playTone(): a note out of range is ignored.
PlayTone(note, z) ==
  IF note = REST THEN Mute(z)
  ELSE IF note \in MIDI_NOTE_MIN..MIDI_NOTE_MAX THEN [Begin(z) EXCEPT !.tone = note]
  ELSE Begin(z)

-----------------------------------------------------------------------------
Player == INSTANCE TimedPatternPlayer WITH
  device <- buzzer, FirstDevice <- FreshBuzzer,
  ApplyOutput <- PlayTone, StopOutput <- Mute

vars == <<Player!vars, byHand>>

Init == Player!Init /\ byHand = FALSE

PlayMelody ==
  /\ Player!Start
  /\ byHand' = (byHand /\ ~playing /\ ~playing')

Stop ==
  /\ Player!Stop
  /\ byHand' = (byHand /\ ~playing)

Update ==
  /\ buzzer.begun
  /\ Player!Update
  /\ byHand' = (byHand /\ UNCHANGED <<index, playing>>)

\* update() before the first begin(): nothing can be playing yet.
FirstUpdate ==
  /\ ~buzzer.begun
  /\ buzzer' = Begin(buzzer)
  /\ lastUpdate' = now
  /\ UNCHANGED <<now, steps, index, stepStartedAt, playing, finished, startedAt,
                 saved, byHand>>

ByHand(z) ==
  /\ buzzer' = z
  /\ byHand' = TRUE
  /\ UNCHANGED <<now, lastUpdate, steps, index, stepStartedAt, playing, finished,
                 startedAt, saved>>

Sound   == \E note \in Notes : ByHand(PlayTone(note, buzzer))
Silence == ByHand(Mute(buzzer))

CaptureMelody == Player!Capture /\ UNCHANGED byHand
Tick          == Player!Tick /\ UNCHANGED byHand

Next == \/ PlayMelody \/ Stop \/ Update \/ FirstUpdate
        \/ Sound \/ Silence \/ CaptureMelody \/ Tick
Spec == Init /\ [][Next]_vars

-----------------------------------------------------------------------------
\* The type of the buzzer's state.
TypeOK ==
  /\ buzzer \in [begun : BOOLEAN, tone : {REST} \cup MIDI_NOTE_MIN..MIDI_NOTE_MAX]
  /\ byHand \in BOOLEAN

\* The note of the current step is what sounds, whatever sounded before it (line
\* 102, "reflects the current step's value in the buzzer's output"), if it is one
\* that playTone() accepts.
FollowsStep ==
  (playing /\ ~byHand) =>
    LET note == steps[index + 1].output
    IN  note \in {REST} \cup MIDI_NOTE_MIN..MIDI_NOTE_MAX => buzzer.tone = note

\* Once a melody is over or stopped, the buzzer is silent until a note is set
\* by hand or another melody begins.
SilentAfterMelody == (~playing /\ ~byHand) => buzzer.tone = REST

BuzzerObeys == FollowsStep /\ SilentAfterMelody
=============================================================================
