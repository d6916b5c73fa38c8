--------------------------------- MODULE Outputs ---------------------------------
(***************************************************************************)
(* The output devices and the program's console, put side by side.  They   *)
(* share nothing but the player of the two that play patterns, so that a   *)
(* behaviour is about one of them, and the others rest.                    *)
(***************************************************************************)
EXTENDS Integers, Sequences

\* What each device is a matter of; see the device's own module.
CONSTANTS
  W, MaxGap, MaxTime,
  MotorPatterns, Powers, PwmResolution,
  Melodies, Notes, MIDI_NOTE_MIN, MIDI_NOTE_MAX,
  Files, Length, IsWav, Header, Percents, InitialVolume, None,
  Frames, Nothing, Supported,
  Sizes, Hues, Unknown, Full,
  Entries, Keys, NoKey, MenuKey, Typed, B

VARIABLES
  part,        \* the device a behaviour is about
  now, steps, index, stepStartedAt, playing, finished, saved, lastUpdate, startedAt,
  byHand, motor, buzzer,
  begun, volumeInitialized, audio, length, playRequested, mode, amp, volume,
  at, file, size, count, asking, wanted, heard,
  txData, requestSend, received, held, asked, sent,
  colors, changed, forceDisable, hue, shown, taken, tint,
  menuMode, ran, lastMode, first, chosen

player  == <<now, steps, index, stepStartedAt, playing, finished, saved, lastUpdate,
             startedAt, byHand>>
speaker == <<begun, volumeInitialized, audio, length, playRequested, mode, amp,
             volume, at, file, size, count, asking, wanted, heard>>
remote  == <<txData, requestSend, received, held, asked, sent>>
pixels  == <<colors, changed, forceDisable, hue, shown, taken>>
menu    == <<menuMode, ran, lastMode, first, chosen>>
vars    == <<part, player, motor, buzzer, speaker, remote, pixels, tint, menu>>

Vibrator == INSTANCE Vibrator WITH Patterns <- MotorPatterns

Buzzer == INSTANCE Buzzer WITH Patterns <- Melodies

Speaker == INSTANCE Speaker

Remote == INSTANCE InfraredRemote

Pixels == INSTANCE NeoPixelArray

Palette == INSTANCE NeoPixelColors

Menu == INSTANCE Menu WITH mode <- menuMode

ASSUME OutputsAssumption ==
  /\ Vibrator!VibratorAssumption /\ Buzzer!BuzzerAssumption
  /\ Speaker!SpeakerAssumption /\ Pixels!NeoPixelAssumption
  /\ Palette!ColorsAssumption /\ Menu!MenuAssumption

-----------------------------------------------------------------------------
Init ==
  /\ part \in {"motor", "buzzer", "speaker", "remote", "pixels", "palette", "menu"}
  /\ Vibrator!Init /\ Buzzer!Init /\ Speaker!Init /\ Remote!Init /\ Pixels!Init
  /\ Menu!Init
  /\ Palette!Init /\ (part = "palette" \/ \A i \in Palette!Parts : tint[i] = 0)

Others(p) ==
  /\ part = p /\ UNCHANGED part
  /\ IF p \in {"motor", "buzzer"} THEN TRUE ELSE UNCHANGED player
  /\ IF p = "motor"   THEN TRUE ELSE UNCHANGED motor
  /\ IF p = "buzzer"  THEN TRUE ELSE UNCHANGED buzzer
  /\ IF p = "speaker" THEN TRUE ELSE UNCHANGED speaker
  /\ IF p = "remote"  THEN TRUE ELSE UNCHANGED remote
  /\ IF p = "pixels"  THEN TRUE ELSE UNCHANGED pixels
  /\ IF p = "palette" THEN TRUE ELSE UNCHANGED tint
  /\ IF p = "menu"    THEN TRUE ELSE UNCHANGED menu

Next ==
  \/ Others("motor")   /\ Vibrator!Next
  \/ Others("buzzer")  /\ Buzzer!Next
  \/ Others("speaker") /\ Speaker!Next
  \/ Others("remote")  /\ Remote!Next
  \/ Others("pixels")  /\ Pixels!Next
  \/ Others("palette") /\ Palette!Mix
  \/ Others("menu")    /\ Menu!Next

Spec == Init /\ [][Next]_vars

\* loop() goes on calling updateWav() and drive(), and a task that began to make a
\* request finishes it; nothing else need ever happen.
FairSpec ==
  /\ Spec
  /\ WF_vars(Others("speaker") /\ Speaker!Player)
  /\ WF_vars(Others("speaker") /\ Speaker!WriteLength)
  /\ WF_vars(Others("speaker") /\ Speaker!SetFlag)
  /\ WF_vars(Others("remote") /\ Remote!Drive)

-----------------------------------------------------------------------------
\* The type of the device a behaviour is about; the others stay as they began.
TypeOK ==
  /\ part = "motor"   => Vibrator!TypeOK
  /\ part = "buzzer"  => Buzzer!TypeOK
  /\ part = "speaker" => Speaker!TypeOK
  /\ part = "remote"  => Remote!TypeOK
  /\ part = "pixels"  => Pixels!TypeOK
  /\ part = "palette" => Palette!TypeOK
  /\ part = "menu"    => Menu!TypeOK

\* A motor that was left alone turns as its step says and rests between patterns,
\* and isOn() tells whether it turns; see Vibrator.
MotorObeys == part = "motor" => Vibrator!MotorObeys

\* A buzzer that was left alone sounds its note and is silent between melodies;
\* see Buzzer.
BuzzerObeys == part = "buzzer" => Buzzer!BuzzerObeys

\* A speaker plays a file with another's length only while a request is being
\* made; it gives the pin back, and keeps its settings.  See Speaker.
TornOnlyDuringRequest == part = "speaker" => Speaker!TornOnlyDuringRequest
SpeakerRestores ==
  part = "speaker" => Speaker!PinGoesBack /\ Speaker!SettingsKept

\* Nothing that was painted waits unnoticed for an update(), and a colour is as
\* bright as it was asked to be; see NeoPixelArray and NeoPixelColors.
LightsHold ==
  /\ part = "pixels" => Pixels!ShownWhenQuiet
  /\ part = "palette" => Palette!PaletteHolds

\* A key or a number runs its own entry; see Menu.
ChoiceRuns == part = "menu" => Menu!ChoiceRuns

\* The last WAV and the last frame requested are played and sent; see Speaker and
\* InfraredRemote.
LastRequestServed == Speaker!LastRequestIsPlayed /\ Remote!LastRequestGoesOut
=============================================================================
