----------------------------- MODULE Devices_proofs -----------------------------
(***************************************************************************)
(* The devices that play - the motor, the buzzer and the speaker - for     *)
(* every pattern, melody and file, and every order of the program's calls. *)
(* What is proved of a device on its own holds for Outputs, where the      *)
(* other devices rest while it works.                                      *)
(***************************************************************************)
EXTENDS Outputs, Clocks, SequenceTheorems, TLAPS

\* A behaviour is about one device from beginning to end.
About(p) == part = p

LEMMA AboutStays ==
  ASSUME NEW p PROVE About(p) /\ [Next]_vars => About(p)'
BY DEF About, Next, Others, vars

LEMMA AboutAlways ==
  ASSUME NEW p PROVE ~About(p) /\ [Next]_vars => ~About(p)'
BY DEF About, Next, Others, vars

-----------------------------------------------------------------------------
\* The motor.  Its calls, for any motor whose flag and pin agree.
StepType  == [output : Nat, durationMs : Nat]
MotorType == [begun : BOOLEAN, pwm : BOOLEAN, attached : BOOLEAN,
              pin : {"LOW", "HIGH"}, duty : 0..PwmResolution]

MotorFit(m) ==
  /\ m \in MotorType
  /\ m.pwm = m.attached
  /\ ~m.begun => m.pin = "LOW"

\* What turns it, and what a percentage asks of it.
Turns(m) == IF m.attached THEN m.duty
            ELSE IF m.pin = "HIGH" THEN PwmResolution ELSE 0

Asked(percent) ==
  IF percent >= 100 THEN PwmResolution ELSE (percent * PwmResolution) \div 100

LEMMA MotorBegins ==
  ASSUME NEW m, MotorFit(m)
  PROVE  /\ MotorFit(Vibrator!Begin(m)) /\ Turns(Vibrator!Begin(m)) = Turns(m)
         /\ Vibrator!Begin(m).begun
BY DEF MotorFit, MotorType, Turns, Vibrator!Begin

LEMMA MotorSwitches ==
  ASSUME NEW m, MotorFit(m)
  PROVE  /\ MotorFit(Vibrator!On(m)) /\ Turns(Vibrator!On(m)) = PwmResolution
         /\ MotorFit(Vibrator!Off(m)) /\ Turns(Vibrator!Off(m)) = 0
<1> DEFINE n == Vibrator!Begin(m)
<1>1. MotorFit(n) /\ n.begun
  BY MotorBegins
<1> HIDE DEF n
<1>2. MotorFit([Vibrator!DisablePWM(n) EXCEPT !.pin = "HIGH"])
      /\ Turns([Vibrator!DisablePWM(n) EXCEPT !.pin = "HIGH"]) = PwmResolution
  BY <1>1 DEF MotorFit, MotorType, Turns, Vibrator!DisablePWM
<1>3. MotorFit([Vibrator!DisablePWM(n) EXCEPT !.pin = "LOW"])
      /\ Turns([Vibrator!DisablePWM(n) EXCEPT !.pin = "LOW"]) = 0
  BY <1>1 DEF MotorFit, MotorType, Turns, Vibrator!DisablePWM
<1> QED BY <1>2, <1>3 DEF n, Vibrator!On, Vibrator!Off

LEMMA MotorSets ==
  ASSUME Vibrator!VibratorAssumption, NEW m, MotorFit(m), NEW percent \in Nat
  PROVE  /\ MotorFit(Vibrator!SetPower(percent, m))
         /\ Turns(Vibrator!SetPower(percent, m)) = Asked(percent)
<1>1. PwmResolution \in Nat \ {0}
  BY DEF Vibrator!VibratorAssumption
<1>2. CASE percent >= 100
  BY <1>2, MotorSwitches DEF Vibrator!SetPower, Asked
<1>3. CASE percent = 0
  <2>1. (0 * PwmResolution) \div 100 = 0
    BY <1>1
  <2> QED BY <1>3, <2>1, MotorSwitches DEF Vibrator!SetPower, Asked
<1>4. CASE ~(percent >= 100) /\ percent # 0
  <2> DEFINE duty == (percent * PwmResolution) \div 100
             n == Vibrator!Begin(m)
  <2>1. duty \in 0..PwmResolution
    <3> DEFINE p == percent * PwmResolution
    <3>1. p \in Int /\ 100 * 0 <= p
      BY <1>1
    <3>2. p <= 100 * PwmResolution
      BY <1>1, <1>4, ProductGrows
    <3> HIDE DEF p
    <3>3. 0 <= p \div 100 /\ p \div 100 <= PwmResolution /\ p \div 100 \in Int
      BY <1>1, <3>1, <3>2, QuotientBetween
    <3> QED BY <1>1, <3>3 DEF p
  <2>2. MotorFit(n) /\ n.begun
    BY MotorBegins
  <2>3. Vibrator!SetPower(percent, m) = [Vibrator!EnablePWM(n) EXCEPT !.duty = duty]
    BY <1>4 DEF Vibrator!SetPower
  <2>4. Asked(percent) = duty
    BY <1>4 DEF Asked
  <2> HIDE DEF duty, n
  <2>5. MotorFit([Vibrator!EnablePWM(n) EXCEPT !.duty = duty])
        /\ Turns([Vibrator!EnablePWM(n) EXCEPT !.duty = duty]) = duty
    BY <2>1, <2>2 DEF MotorFit, MotorType, Turns, Vibrator!EnablePWM
  <2> QED BY <2>3, <2>4, <2>5
<1> QED BY <1>2, <1>3, <1>4

-----------------------------------------------------------------------------
\* What is played and what was captured are rows of steps, and the player is within
\* what it plays.
HoldsSteps ==
  /\ steps \in Seq(StepType) /\ saved \in Seq(StepType)
  /\ index \in Nat /\ playing \in BOOLEAN
  /\ playing => index < Len(steps)

LEMMA StepOf ==
  ASSUME NEW p \in Seq(StepType), NEW i \in Nat, i < Len(p)
  PROVE  p[i + 1].output \in Nat
<1>1. i + 1 \in 1..Len(p)
  BY LenProperties
<1>2. p[i + 1] \in StepType
  BY <1>1, ElementOfSeq
<1> QED BY <1>2 DEF StepType

LEMMA RestOf ==
  ASSUME NEW p \in Seq(StepType), NEW i \in Nat, i < Len(p)
  PROVE  SubSeq(p, i + 1, Len(p)) \in Seq(StepType)
<1>1. Len(p) \in Nat
  BY LenProperties
<1> QED BY <1>1, SubSeqProperties

\* The motor keeps what MotorObeys says, and the type of all it rests on.
MotorInv ==
  /\ HoldsSteps /\ MotorFit(motor) /\ byHand \in BOOLEAN
  /\ playing /\ ~byHand => Turns(motor) = Asked(steps[index + 1].output)
  /\ ~playing /\ ~byHand => Turns(motor) = 0

LEMMA MotorInit ==
  ASSUME Vibrator!VibratorAssumption, Vibrator!Init PROVE MotorInv
<1>1. PwmResolution \in Nat
  BY DEF Vibrator!VibratorAssumption
<1>2. /\ steps = <<>> /\ index = 0 /\ saved = <<>> /\ playing = FALSE
      /\ motor = Vibrator!FreshMotor /\ byHand = FALSE
  BY DEF Vibrator!Init, Vibrator!Player!Init
<1>3. HoldsSteps
  BY <1>2, EmptySeq DEF HoldsSteps
<1>4. MotorFit(motor) /\ Turns(motor) = 0
  BY <1>1, <1>2 DEF Vibrator!FreshMotor, MotorFit, MotorType, Turns
<1> QED BY <1>2, <1>3, <1>4 DEF MotorInv

LEMMA MotorStarts ==
  ASSUME Vibrator!VibratorAssumption, MotorInv, Vibrator!PlayPattern
  PROVE  MotorInv'
<1>1. PICK p \in MotorPatterns \cup {saved} : Vibrator!Player!Play(p)
  BY DEF Vibrator!PlayPattern, Vibrator!Player!Start
<1>2. p \in Seq(StepType)
  BY DEF MotorInv, HoldsSteps, Vibrator!VibratorAssumption, StepType
<1>3. byHand' = (byHand /\ ~playing /\ ~playing')
  BY DEF Vibrator!PlayPattern
<1> DEFINE quiet == Vibrator!Player!Quietened
<1>4. MotorFit(quiet) /\ (~playing /\ ~byHand => Turns(quiet) = 0)
      /\ (playing => Turns(quiet) = 0)
  BY MotorSwitches DEF MotorInv, Vibrator!Player!Quietened
<1>5. CASE Vibrator!Player!PlayNothing
  <2>1. /\ steps' = <<>> /\ index' = 0 /\ playing' = FALSE /\ saved' = saved
        /\ motor' = quiet
    BY <1>5 DEF Vibrator!Player!PlayNothing, Vibrator!Player!Cleared
  <2>2. HoldsSteps'
    BY <2>1, EmptySeq DEF MotorInv, HoldsSteps
  <2>3. byHand' \in BOOLEAN /\ (~byHand' => ~byHand \/ playing)
    BY <1>3, <2>1 DEF MotorInv
  <2>4. MotorFit(motor') /\ (~byHand' => Turns(motor') = 0)
    BY <1>4, <2>1, <2>3 DEF MotorInv, HoldsSteps
  <2> QED BY <2>1, <2>2, <2>3, <2>4 DEF MotorInv, MotorFit, MotorType, Turns
<1>6. CASE Vibrator!Player!PlaySteps(p)
  <2>1. /\ p # <<>> /\ steps' = p /\ index' = 0 /\ playing' = TRUE /\ saved' = saved
        /\ motor' = Vibrator!SetPower(p[0 + 1].output, quiet)
    BY <1>6 DEF Vibrator!Player!PlaySteps, Vibrator!Player!StartStep
  <2>2. 0 < Len(p) /\ p[0 + 1].output \in Nat
    BY <1>2, <2>1, EmptySeq, StepOf
  <2>3. HoldsSteps'
    BY <1>2, <2>1, <2>2 DEF MotorInv, HoldsSteps
  <2> HIDE DEF quiet
  <2>4. MotorFit(motor') /\ Turns(motor') = Asked(p[0 + 1].output)
    BY <1>4, <2>1, <2>2, MotorSets
  <2>5. byHand' = FALSE
    BY <1>3, <2>1
  <2> QED BY <2>1, <2>3, <2>4, <2>5 DEF MotorInv, MotorFit, MotorType, Turns, Asked
<1>7. Vibrator!Player!PlayNothing \/ Vibrator!Player!PlaySteps(p)
  BY <1>1 DEF Vibrator!Player!Play
<1> QED BY <1>5, <1>6, <1>7

LEMMA MotorStops ==
  ASSUME Vibrator!VibratorAssumption, MotorInv, Vibrator!Stop PROVE MotorInv'
<1>1. /\ steps' = <<>> /\ index' = 0 /\ playing' = FALSE /\ saved' = saved
      /\ motor' = Vibrator!Player!Quietened
      /\ byHand' = (byHand /\ ~playing)
  BY DEF Vibrator!Stop, Vibrator!Player!Stop, Vibrator!Player!PlayNothing,
         Vibrator!Player!Cleared
<1>2. HoldsSteps'
  BY <1>1, EmptySeq DEF MotorInv, HoldsSteps
<1>3. byHand' \in BOOLEAN /\ (~byHand' => ~byHand \/ playing)
  BY <1>1 DEF MotorInv
<1>4. MotorFit(motor') /\ (~byHand' => Turns(motor') = 0)
  BY <1>1, <1>3, MotorSwitches DEF MotorInv, HoldsSteps, Vibrator!Player!Quietened
<1> QED BY <1>1, <1>2, <1>3, <1>4 DEF MotorInv, MotorFit, MotorType, Turns

LEMMA MotorUpdates ==
  ASSUME Vibrator!VibratorAssumption, MotorInv, Vibrator!Update PROVE MotorInv'
<1>1. Vibrator!Player!Update /\ byHand' = (byHand /\ UNCHANGED <<index, playing>>)
      /\ saved' = saved
  BY DEF Vibrator!Update, Vibrator!Player!Update
<1>2. CASE Vibrator!Player!UpdateWaits
  <2>1. UNCHANGED <<steps, index, playing, motor>>
    BY <1>2 DEF Vibrator!Player!UpdateWaits, Vibrator!Player!state
  <2>2. byHand' = byHand
    BY <1>1, <2>1 DEF MotorInv
  <2> QED BY <1>1, <2>1, <2>2 DEF MotorInv, HoldsSteps, MotorFit, MotorType, Turns, Asked
<1>3. CASE Vibrator!Player!UpdateMovesOn
  <2>1. /\ playing /\ index + 1 < Len(steps) /\ index' = index + 1
        /\ UNCHANGED <<steps, playing>>
        /\ motor' = Vibrator!SetPower(steps[(index + 1) + 1].output, motor)
    BY <1>3 DEF Vibrator!Player!UpdateMovesOn, Vibrator!Player!StartStep
  <2>2. steps \in Seq(StepType) /\ index \in Nat /\ index + 1 \in Nat /\ MotorFit(motor)
    BY DEF MotorInv, HoldsSteps
  <2> DEFINE i == index + 1
             percent == steps[i + 1].output
  <2>3. percent \in Nat
    <3> HIDE DEF i
    <3> QED BY <2>1, <2>2, StepOf DEF i
  <2>4. motor' = Vibrator!SetPower(percent, motor)
    BY <2>1
  <2>5. HoldsSteps'
    BY <1>1, <2>1, <2>2 DEF MotorInv, HoldsSteps
  <2>6. byHand' = FALSE
    <3>1. index' # index
      BY <2>1, <2>2
    <3>2. ~(UNCHANGED <<index, playing>>)
      BY <3>1
    <3> QED BY <1>1, <3>2, Zenon
  <2>7. percent = steps'[index' + 1].output
    BY <2>1
  <2> HIDE DEF i, percent
  <2>8. MotorFit(motor') /\ Turns(motor') = Asked(percent)
    BY <2>2, <2>3, <2>4, MotorSets
  <2> QED BY <2>1, <2>5, <2>6, <2>7, <2>8 DEF MotorInv, HoldsSteps, MotorFit, MotorType,
                                              Turns, Asked
<1>4. CASE Vibrator!Player!UpdateFinishes
  <2>1. /\ playing /\ steps' = <<>> /\ index' = 0 /\ playing' = FALSE
        /\ motor' = Vibrator!Off(motor)
    BY <1>4 DEF Vibrator!Player!UpdateFinishes, Vibrator!Player!Cleared
  <2>2. HoldsSteps'
    BY <1>1, <2>1, EmptySeq DEF MotorInv, HoldsSteps
  <2>3. byHand' = FALSE
    BY <1>1, <2>1
  <2>4. MotorFit(motor') /\ Turns(motor') = 0
    BY <2>1, MotorSwitches DEF MotorInv
  <2> QED BY <2>1, <2>2, <2>3, <2>4 DEF MotorInv, MotorFit, MotorType, Turns
<1> QED BY <1>1, <1>2, <1>3, <1>4 DEF Vibrator!Player!Update

LEMMA MotorByHand ==
  ASSUME MotorInv, NEW m, MotorFit(m), Vibrator!ByHand(m) PROVE MotorInv'
<1>1. UNCHANGED <<steps, index, playing, saved>> /\ motor' = m /\ byHand' = TRUE
  BY DEF Vibrator!ByHand
<1> QED BY <1>1 DEF MotorInv, HoldsSteps, MotorFit, MotorType

LEMMA MotorCaptures ==
  ASSUME MotorInv, Vibrator!Capture PROVE MotorInv'
<1>1. /\ UNCHANGED <<steps, index, playing, motor, byHand>>
      /\ saved' = IF playing /\ index < Len(steps)
                  THEN SubSeq(steps, index + 1, Len(steps)) ELSE <<>>
  BY DEF Vibrator!Capture, Vibrator!Player!Capture, Vibrator!Player!state,
         Vibrator!Player!Rest
<1>2. saved' \in Seq(StepType)
  BY <1>1, RestOf, EmptySeq DEF MotorInv, HoldsSteps
<1> QED BY <1>1, <1>2 DEF MotorInv, HoldsSteps, MotorFit, MotorType, Turns, Asked

LEMMA MotorStep ==
  ASSUME Vibrator!VibratorAssumption, MotorInv, [Vibrator!Next]_(Vibrator!vars)
  PROVE  MotorInv'
<1>1. ASSUME UNCHANGED <<steps, index, playing, saved, byHand>>, MotorFit(motor'),
             Turns(motor') = Turns(motor)
      PROVE  MotorInv'
  BY <1>1 DEF MotorInv, HoldsSteps, MotorFit, MotorType, Turns, Asked
<1>2. CASE Vibrator!FirstUpdate
  BY <1>1, <1>2, MotorBegins DEF MotorInv, Vibrator!FirstUpdate
<1>3. CASE Vibrator!TurnOn \/ Vibrator!TurnOff \/ Vibrator!Set
  <2>1. Powers \subseteq Nat
    BY DEF Vibrator!VibratorAssumption
  <2> QED BY <1>3, <2>1, MotorSwitches, MotorSets, MotorByHand
          DEF MotorInv, Vibrator!TurnOn, Vibrator!TurnOff, Vibrator!Set
<1>4. CASE Vibrator!Tick
  BY <1>1, <1>4 DEF MotorInv, Vibrator!Tick, Vibrator!Player!Tick, Vibrator!Player!state
<1>5. CASE UNCHANGED Vibrator!vars
  BY <1>1, <1>5 DEF MotorInv, Vibrator!vars, Vibrator!Player!vars, Vibrator!Player!state,
                    Vibrator!Player!clocks
<1> QED BY <1>2, <1>3, <1>4, <1>5, MotorStarts, MotorStops, MotorUpdates, MotorCaptures
        DEF Vibrator!Next

LEMMA MotorIsRight ==
  ASSUME Vibrator!VibratorAssumption, MotorInv
  PROVE  Vibrator!TypeOK /\ Vibrator!MotorObeys
<1>1. PwmResolution \in Nat \ {0}
  BY DEF Vibrator!VibratorAssumption
<1>2. Vibrator!TypeOK
  BY DEF MotorInv, MotorFit, MotorType, Vibrator!TypeOK
<1>3. Vibrator!Drive = Turns(motor)
  BY DEF Vibrator!Drive, Turns
<1>4. Vibrator!FollowsStep /\ Vibrator!RestsAfterPattern
  BY <1>3 DEF MotorInv, Asked, Vibrator!FollowsStep, Vibrator!RestsAfterPattern
<1>5. Vibrator!IsOnIsTrue
  BY <1>1, <1>3 DEF MotorInv, MotorFit, MotorType, Turns, Vibrator!IsOnIsTrue, Vibrator!IsOn
<1> QED BY <1>2, <1>4, <1>5 DEF Vibrator!MotorObeys

LEMMA MotorAlone ==
  /\ About("motor") /\ Init => Vibrator!Init
  /\ About("motor") /\ [Next]_vars => [Vibrator!Next]_(Vibrator!vars)
<1>1. About("motor") /\ Init => Vibrator!Init
  BY DEF About, Init
<1>2. About("motor") /\ [Next]_vars => [Vibrator!Next]_(Vibrator!vars)
  BY DEF About, Next, Others, vars, player, Vibrator!vars, Vibrator!Player!vars,
         Vibrator!Player!clocks, Vibrator!Player!state
<1> QED BY <1>1, <1>2

LEMMA MotorInductive == Spec => [](About("motor") => MotorInv)
<1>1. About("motor") /\ Init => MotorInv
  BY OutputsAssumption, MotorAlone, MotorInit DEF OutputsAssumption
<1>2. About("motor") /\ MotorInv /\ [Next]_vars => MotorInv'
  BY OutputsAssumption, MotorAlone, MotorStep DEF OutputsAssumption
<1>3. About("motor") /\ [Next]_vars => About("motor")'
  BY AboutStays
<1>4. ~About("motor") /\ [Next]_vars => ~About("motor")'
  BY AboutAlways
<1> QED BY <1>1, <1>2, <1>3, <1>4, PTL DEF Spec

\* Whatever a motor was doing before, by PWM or not, by hand or not: while a pattern
\* plays it turns as its step says, it rests after the pattern, and isOn() is true
\* exactly while it turns.
THEOREM MotorIsObedient == Spec => []MotorObeys
<1>1. (About("motor") => MotorInv) => MotorObeys
  BY OutputsAssumption, MotorIsRight DEF OutputsAssumption, About, MotorObeys
<1> QED BY <1>1, MotorInductive, PTL

-----------------------------------------------------------------------------
\* The buzzer, and whether it sounds a note that it can play.
BuzzerType == [begun : BOOLEAN, tone : {0} \cup MIDI_NOTE_MIN..MIDI_NOTE_MAX]

BuzzerFit(z) == z \in BuzzerType /\ (~z.begun => z.tone = 0)

Sounds(z, note) == note \in {0} \cup MIDI_NOTE_MIN..MIDI_NOTE_MAX => z.tone = note

LEMMA BuzzerBegins ==
  ASSUME NEW z, BuzzerFit(z)
  PROVE  /\ BuzzerFit(Buzzer!Begin(z)) /\ Buzzer!Begin(z).tone = z.tone
         /\ Buzzer!Begin(z).begun
BY DEF BuzzerFit, BuzzerType, Buzzer!Begin, Buzzer!REST

LEMMA BuzzerSwitches ==
  ASSUME NEW z, BuzzerFit(z)
  PROVE  BuzzerFit(Buzzer!Mute(z)) /\ Buzzer!Mute(z).tone = 0
<1> DEFINE y == Buzzer!Begin(z)
<1>1. BuzzerFit(y) /\ y.begun
  BY BuzzerBegins
<1> HIDE DEF y
<1>2. BuzzerFit([y EXCEPT !.tone = 0]) /\ [y EXCEPT !.tone = 0].tone = 0
  BY <1>1 DEF BuzzerFit, BuzzerType
<1> QED BY <1>2 DEF y, Buzzer!Mute, Buzzer!REST

LEMMA BuzzerSets ==
  ASSUME Buzzer!BuzzerAssumption, NEW z, BuzzerFit(z), NEW note \in Nat
  PROVE  /\ BuzzerFit(Buzzer!PlayTone(note, z))
         /\ Sounds(Buzzer!PlayTone(note, z), note)
<1>1. CASE note = 0
  BY <1>1, BuzzerSwitches DEF Buzzer!PlayTone, Buzzer!REST, Sounds
<1>2. CASE note # 0 /\ note \in MIDI_NOTE_MIN..MIDI_NOTE_MAX
  <2> DEFINE y == Buzzer!Begin(z)
  <2>1. BuzzerFit(y) /\ y.begun
    BY BuzzerBegins
  <2>2. Buzzer!PlayTone(note, z) = [y EXCEPT !.tone = note]
    BY <1>2 DEF Buzzer!PlayTone, Buzzer!REST
  <2> HIDE DEF y
  <2>3. BuzzerFit([y EXCEPT !.tone = note]) /\ [y EXCEPT !.tone = note].tone = note
    BY <1>2, <2>1 DEF BuzzerFit, BuzzerType
  <2> QED BY <2>2, <2>3 DEF Sounds
<1>3. CASE note # 0 /\ note \notin MIDI_NOTE_MIN..MIDI_NOTE_MAX
  BY <1>3, BuzzerBegins DEF Buzzer!PlayTone, Buzzer!REST, Sounds
<1> QED BY <1>1, <1>2, <1>3

\* The buzzer keeps what BuzzerObeys says, and the type of all it rests on.
BuzzerInv ==
  /\ HoldsSteps /\ BuzzerFit(buzzer) /\ byHand \in BOOLEAN
  /\ playing /\ ~byHand => Sounds(buzzer, steps[index + 1].output)
  /\ ~playing /\ ~byHand => buzzer.tone = 0

LEMMA BuzzerInit ==
  ASSUME Buzzer!BuzzerAssumption, Buzzer!Init PROVE BuzzerInv
<1>2. /\ steps = <<>> /\ index = 0 /\ saved = <<>> /\ playing = FALSE
      /\ buzzer = Buzzer!FreshBuzzer /\ byHand = FALSE
  BY DEF Buzzer!Init, Buzzer!Player!Init
<1>3. HoldsSteps
  BY <1>2, EmptySeq DEF HoldsSteps
<1>4. BuzzerFit(buzzer) /\ buzzer.tone = 0
  BY <1>2 DEF Buzzer!FreshBuzzer, Buzzer!REST, BuzzerFit, BuzzerType
<1> QED BY <1>2, <1>3, <1>4 DEF BuzzerInv

LEMMA BuzzerStarts ==
  ASSUME Buzzer!BuzzerAssumption, BuzzerInv, Buzzer!PlayMelody
  PROVE  BuzzerInv'
<1>1. PICK p \in Melodies \cup {saved} : Buzzer!Player!Play(p)
  BY DEF Buzzer!PlayMelody, Buzzer!Player!Start
<1>2. p \in Seq(StepType)
  BY DEF BuzzerInv, HoldsSteps, Buzzer!BuzzerAssumption, StepType
<1>3. byHand' = (byHand /\ ~playing /\ ~playing')
  BY DEF Buzzer!PlayMelody
<1> DEFINE quiet == Buzzer!Player!Quietened
<1>4. BuzzerFit(quiet) /\ (~playing /\ ~byHand => quiet.tone = 0)
      /\ (playing => quiet.tone = 0)
  BY BuzzerSwitches DEF BuzzerInv, Buzzer!Player!Quietened
<1>5. CASE Buzzer!Player!PlayNothing
  <2>1. /\ steps' = <<>> /\ index' = 0 /\ playing' = FALSE /\ saved' = saved
        /\ buzzer' = quiet
    BY <1>5 DEF Buzzer!Player!PlayNothing, Buzzer!Player!Cleared
  <2>2. HoldsSteps'
    BY <2>1, EmptySeq DEF BuzzerInv, HoldsSteps
  <2>3. byHand' \in BOOLEAN /\ (~byHand' => ~byHand \/ playing)
    BY <1>3, <2>1 DEF BuzzerInv
  <2>4. BuzzerFit(buzzer') /\ (~byHand' => buzzer'.tone = 0)
    BY <1>4, <2>1, <2>3 DEF BuzzerInv, HoldsSteps
  <2> QED BY <2>1, <2>2, <2>3, <2>4 DEF BuzzerInv, BuzzerFit, BuzzerType
<1>6. CASE Buzzer!Player!PlaySteps(p)
  <2>1. /\ p # <<>> /\ steps' = p /\ index' = 0 /\ playing' = TRUE /\ saved' = saved
        /\ buzzer' = Buzzer!PlayTone(p[0 + 1].output, quiet)
    BY <1>6 DEF Buzzer!Player!PlaySteps, Buzzer!Player!StartStep
  <2>2. 0 < Len(p) /\ p[0 + 1].output \in Nat
    BY <1>2, <2>1, EmptySeq, StepOf
  <2>3. HoldsSteps'
    BY <1>2, <2>1, <2>2 DEF BuzzerInv, HoldsSteps
  <2> HIDE DEF quiet
  <2>4. BuzzerFit(buzzer') /\ Sounds(buzzer', p[0 + 1].output)
    BY <1>4, <2>1, <2>2, BuzzerSets
  <2>5. byHand' = FALSE
    BY <1>3, <2>1
  <2> QED BY <2>1, <2>3, <2>4, <2>5 DEF BuzzerInv, BuzzerFit, BuzzerType, Sounds
<1>7. Buzzer!Player!PlayNothing \/ Buzzer!Player!PlaySteps(p)
  BY <1>1 DEF Buzzer!Player!Play
<1> QED BY <1>5, <1>6, <1>7

LEMMA BuzzerStops ==
  ASSUME Buzzer!BuzzerAssumption, BuzzerInv, Buzzer!Stop PROVE BuzzerInv'
<1>1. /\ steps' = <<>> /\ index' = 0 /\ playing' = FALSE /\ saved' = saved
      /\ buzzer' = Buzzer!Player!Quietened
      /\ byHand' = (byHand /\ ~playing)
  BY DEF Buzzer!Stop, Buzzer!Player!Stop, Buzzer!Player!PlayNothing,
         Buzzer!Player!Cleared
<1>2. HoldsSteps'
  BY <1>1, EmptySeq DEF BuzzerInv, HoldsSteps
<1>3. byHand' \in BOOLEAN /\ (~byHand' => ~byHand \/ playing)
  BY <1>1 DEF BuzzerInv
<1>4. BuzzerFit(buzzer') /\ (~byHand' => buzzer'.tone = 0)
  BY <1>1, <1>3, BuzzerSwitches DEF BuzzerInv, HoldsSteps, Buzzer!Player!Quietened
<1> QED BY <1>1, <1>2, <1>3, <1>4 DEF BuzzerInv, BuzzerFit, BuzzerType

LEMMA BuzzerUpdates ==
  ASSUME Buzzer!BuzzerAssumption, BuzzerInv, Buzzer!Update PROVE BuzzerInv'
<1>1. Buzzer!Player!Update /\ byHand' = (byHand /\ UNCHANGED <<index, playing>>)
      /\ saved' = saved
  BY DEF Buzzer!Update, Buzzer!Player!Update
<1>2. CASE Buzzer!Player!UpdateWaits
  <2>1. UNCHANGED <<steps, index, playing, buzzer>>
    BY <1>2 DEF Buzzer!Player!UpdateWaits, Buzzer!Player!state
  <2>2. byHand' = byHand
    BY <1>1, <2>1 DEF BuzzerInv
  <2> QED BY <1>1, <2>1, <2>2 DEF BuzzerInv, HoldsSteps, BuzzerFit, BuzzerType, Sounds
<1>3. CASE Buzzer!Player!UpdateMovesOn
  <2>1. /\ playing /\ index + 1 < Len(steps) /\ index' = index + 1
        /\ UNCHANGED <<steps, playing>>
        /\ buzzer' = Buzzer!PlayTone(steps[(index + 1) + 1].output, buzzer)
    BY <1>3 DEF Buzzer!Player!UpdateMovesOn, Buzzer!Player!StartStep
  <2>2. steps \in Seq(StepType) /\ index \in Nat /\ index + 1 \in Nat /\ BuzzerFit(buzzer)
    BY DEF BuzzerInv, HoldsSteps
  <2> DEFINE i == index + 1
             note == steps[i + 1].output
  <2>3. note \in Nat
    <3> HIDE DEF i
    <3> QED BY <2>1, <2>2, StepOf DEF i
  <2>4. buzzer' = Buzzer!PlayTone(note, buzzer)
    BY <2>1
  <2>5. HoldsSteps'
    BY <1>1, <2>1, <2>2 DEF BuzzerInv, HoldsSteps
  <2>6. byHand' = FALSE
    <3>1. index' # index
      BY <2>1, <2>2
    <3>2. ~(UNCHANGED <<index, playing>>)
      BY <3>1
    <3> QED BY <1>1, <3>2, Zenon
  <2>7. note = steps'[index' + 1].output
    BY <2>1
  <2> HIDE DEF i, note
  <2>8. BuzzerFit(buzzer') /\ Sounds(buzzer', note)
    BY <2>2, <2>3, <2>4, BuzzerSets
  <2> QED BY <2>1, <2>5, <2>6, <2>7, <2>8 DEF BuzzerInv, HoldsSteps, BuzzerFit, BuzzerType,
                                              Sounds
<1>4. CASE Buzzer!Player!UpdateFinishes
  <2>1. /\ playing /\ steps' = <<>> /\ index' = 0 /\ playing' = FALSE
        /\ buzzer' = Buzzer!Mute(buzzer)
    BY <1>4 DEF Buzzer!Player!UpdateFinishes, Buzzer!Player!Cleared
  <2>2. HoldsSteps'
    BY <1>1, <2>1, EmptySeq DEF BuzzerInv, HoldsSteps
  <2>3. byHand' = FALSE
    BY <1>1, <2>1
  <2>4. BuzzerFit(buzzer') /\ buzzer'.tone = 0
    BY <2>1, BuzzerSwitches DEF BuzzerInv
  <2> QED BY <2>1, <2>2, <2>3, <2>4 DEF BuzzerInv, BuzzerFit, BuzzerType
<1> QED BY <1>1, <1>2, <1>3, <1>4 DEF Buzzer!Player!Update

LEMMA BuzzerByHand ==
  ASSUME BuzzerInv, NEW m, BuzzerFit(m), Buzzer!ByHand(m) PROVE BuzzerInv'
<1>1. UNCHANGED <<steps, index, playing, saved>> /\ buzzer' = m /\ byHand' = TRUE
  BY DEF Buzzer!ByHand
<1> QED BY <1>1 DEF BuzzerInv, HoldsSteps, BuzzerFit, BuzzerType

LEMMA BuzzerCaptures ==
  ASSUME BuzzerInv, Buzzer!CaptureMelody PROVE BuzzerInv'
<1>1. /\ UNCHANGED <<steps, index, playing, buzzer, byHand>>
      /\ saved' = IF playing /\ index < Len(steps)
                  THEN SubSeq(steps, index + 1, Len(steps)) ELSE <<>>
  BY DEF Buzzer!CaptureMelody, Buzzer!Player!Capture, Buzzer!Player!state,
         Buzzer!Player!Rest
<1>2. saved' \in Seq(StepType)
  BY <1>1, RestOf, EmptySeq DEF BuzzerInv, HoldsSteps
<1> QED BY <1>1, <1>2 DEF BuzzerInv, HoldsSteps, BuzzerFit, BuzzerType, Sounds

LEMMA BuzzerStep ==
  ASSUME Buzzer!BuzzerAssumption, BuzzerInv, [Buzzer!Next]_(Buzzer!vars)
  PROVE  BuzzerInv'
<1>1. ASSUME UNCHANGED <<steps, index, playing, saved, byHand>>, BuzzerFit(buzzer'),
             buzzer'.tone = buzzer.tone
      PROVE  BuzzerInv'
  BY <1>1 DEF BuzzerInv, HoldsSteps, BuzzerFit, BuzzerType, Sounds
<1>2. CASE Buzzer!FirstUpdate
  BY <1>1, <1>2, BuzzerBegins DEF BuzzerInv, Buzzer!FirstUpdate
<1>3. CASE Buzzer!Sound \/ Buzzer!Silence
  <2>1. Notes \subseteq Nat
    BY DEF Buzzer!BuzzerAssumption
  <2> QED BY <1>3, <2>1, BuzzerSwitches, BuzzerSets, BuzzerByHand
          DEF BuzzerInv, Buzzer!Sound, Buzzer!Silence
<1>4. CASE Buzzer!Tick
  BY <1>1, <1>4 DEF BuzzerInv, Buzzer!Tick, Buzzer!Player!Tick, Buzzer!Player!state
<1>5. CASE UNCHANGED Buzzer!vars
  BY <1>1, <1>5 DEF BuzzerInv, Buzzer!vars, Buzzer!Player!vars, Buzzer!Player!state,
                    Buzzer!Player!clocks
<1> QED BY <1>2, <1>3, <1>4, <1>5, BuzzerStarts, BuzzerStops, BuzzerUpdates, BuzzerCaptures
        DEF Buzzer!Next

LEMMA BuzzerIsRight ==
  ASSUME Buzzer!BuzzerAssumption, BuzzerInv
  PROVE  Buzzer!TypeOK /\ Buzzer!BuzzerObeys
<1>1. Buzzer!TypeOK
  BY DEF BuzzerInv, BuzzerFit, BuzzerType, Buzzer!TypeOK, Buzzer!REST
<1>2. Buzzer!FollowsStep /\ Buzzer!SilentAfterMelody
  BY DEF BuzzerInv, Sounds, Buzzer!FollowsStep, Buzzer!SilentAfterMelody, Buzzer!REST
<1> QED BY <1>1, <1>2 DEF Buzzer!BuzzerObeys

LEMMA BuzzerAlone ==
  /\ About("buzzer") /\ Init => Buzzer!Init
  /\ About("buzzer") /\ [Next]_vars => [Buzzer!Next]_(Buzzer!vars)
<1>1. About("buzzer") /\ Init => Buzzer!Init
  BY DEF About, Init
<1>2. About("buzzer") /\ [Next]_vars => [Buzzer!Next]_(Buzzer!vars)
  BY DEF About, Next, Others, vars, player, Buzzer!vars, Buzzer!Player!vars,
         Buzzer!Player!clocks, Buzzer!Player!state
<1> QED BY <1>1, <1>2

LEMMA BuzzerInductive == Spec => [](About("buzzer") => BuzzerInv)
<1>1. About("buzzer") /\ Init => BuzzerInv
  BY OutputsAssumption, BuzzerAlone, BuzzerInit DEF OutputsAssumption
<1>2. About("buzzer") /\ BuzzerInv /\ [Next]_vars => BuzzerInv'
  BY OutputsAssumption, BuzzerAlone, BuzzerStep DEF OutputsAssumption
<1>3. About("buzzer") /\ [Next]_vars => About("buzzer")'
  BY AboutStays
<1>4. ~About("buzzer") /\ [Next]_vars => ~About("buzzer")'
  BY AboutAlways
<1> QED BY <1>1, <1>2, <1>3, <1>4, PTL DEF Spec

\* Whatever sounded before, from a melody or by hand: while a melody plays its note
\* sounds, if it is one that can be played, and the buzzer is silent after it.
THEOREM BuzzerIsObedient == Spec => []BuzzerObeys
<1>1. (About("buzzer") => BuzzerInv) => BuzzerObeys
  BY OutputsAssumption, BuzzerIsRight DEF OutputsAssumption, About, BuzzerObeys
<1> QED BY <1>1, BuzzerInductive, PTL

-----------------------------------------------------------------------------
\* The speaker: what drives its pin follows from where loop() is, and its volume is set
\* after its begin().
SpeakerTyped ==
  /\ begun \in BOOLEAN /\ volumeInitialized \in BOOLEAN /\ amp \in BOOLEAN
  /\ audio \in Files \cup {None} /\ playRequested \in BOOLEAN
  /\ length \in {0} \cup {Length[f] : f \in Files}
  /\ mode \in {"none", "tone", "wav"} 
  /\ at \in {"idle", "clear", "read", "parse", "play"}
  /\ file \in Files \cup {None} /\ size \in Nat /\ count \in Nat
  /\ volume \in Percents \cup {None}
  /\ asking \in (Files \cup {None}) \X {"flag", "audio", "length"}

PinInv ==
  /\ at # "idle" => begun
  /\ at = "idle" /\ begun => mode = "tone"

SettingsInv ==
  /\ volumeInitialized => begun
  /\ wanted = <<amp, volume>>

\* Between two requests what is stored is a file and its own length; and what loop()
\* reads of it while none is made goes together.
RequestInv ==
  /\ asking[2] \in {"audio", "length"} => asking[1] \in Files
  /\ asking[2] \in {"flag", "length"} /\ audio # None => length = Length[audio]
  /\ asking[1] = audio
  /\ asking[2] = "flag" /\ ~playRequested /\ at = "read"
       => file \in {None, audio} /\ size \in {0, length}
  /\ at \in {"parse", "play"} /\ size # Length[file] => asking[2] # "flag" \/ playRequested

SpeakerInv == SpeakerTyped /\ PinInv /\ SettingsInv /\ RequestInv

LEMMA SpeakerConstants ==
  ASSUME Speaker!SpeakerAssumption
  PROVE  /\ Header \in Nat \ {0} /\ InitialVolume \in Percents /\ None \notin Files
         /\ \A f \in Files : Length[f] \in Nat \ {0}
         /\ \A f \in Files : Length[f] \in {0} \cup {Length[g] : g \in Files}
BY DEF Speaker!SpeakerAssumption

LEMMA SpeakerInit ==
  ASSUME Speaker!SpeakerAssumption, Speaker!Init PROVE SpeakerInv
<1>1. SpeakerTyped
  BY DEF Speaker!Init, SpeakerTyped
<1>2. PinInv /\ SettingsInv
  BY DEF Speaker!Init, PinInv, SettingsInv
<1>3. RequestInv
  BY DEF Speaker!Init, RequestInv
<1> QED BY <1>1, <1>2, <1>3 DEF SpeakerInv

\* The settings and the pin, as updateWav() and update() find and leave them.
LEMMA SpeakerPrepares ==
  ASSUME Speaker!SpeakerAssumption, SpeakerInv, at = "idle", Speaker!Prepares
  PROVE  /\ begun' = TRUE /\ amp' \in BOOLEAN /\ volumeInitialized' = TRUE
         /\ volume' \in Percents \cup {None} /\ mode' = "tone" /\ SettingsInv'
<1>1. /\ begun' = TRUE /\ amp' = (amp \/ ~begun)
      /\ mode' = IF begun THEN mode ELSE "tone"
      /\ volumeInitialized' = TRUE
      /\ volume' = IF volumeInitialized THEN volume ELSE InitialVolume
      /\ wanted' = <<IF begun THEN wanted[1] ELSE TRUE,
                     IF volumeInitialized THEN wanted[2] ELSE InitialVolume>>
  BY DEF Speaker!Prepares, Speaker!Begins
<1>2. begun \in BOOLEAN /\ amp \in BOOLEAN /\ volumeInitialized \in BOOLEAN
      /\ volume \in Percents \cup {None} /\ (volumeInitialized => begun)
      /\ wanted = <<amp, volume>> /\ InitialVolume \in Percents
  BY SpeakerConstants DEF SpeakerInv, SpeakerTyped, SettingsInv
<1>3. mode' = "tone"
  BY <1>1 DEF SpeakerInv, PinInv
<1>4. volume' \in Percents \cup {None}
  BY <1>1, <1>2
<1>5. CASE begun
  <2>1. amp' = amp /\ wanted' = <<wanted[1], volume'>> /\ wanted[1] = amp
    BY <1>1, <1>2, <1>5
  <2> QED BY <1>1, <1>2, <1>3, <1>4, <2>1 DEF SettingsInv
<1>6. CASE ~begun
  <2>1. amp' = TRUE /\ wanted' = <<TRUE, volume'>>
    BY <1>1, <1>2, <1>6
  <2> QED BY <1>1, <1>2, <1>3, <1>4, <2>1 DEF SettingsInv
<1> QED BY <1>5, <1>6

\* begin() alone.
LEMMA SpeakerBegins ==
  ASSUME Speaker!SpeakerAssumption, SpeakerInv, Speaker!Begin
  PROVE  SpeakerInv'
<1>1. /\ at = "idle" /\ begun' = TRUE /\ amp' = (amp \/ ~begun)
      /\ mode' = IF begun THEN mode ELSE "tone"
      /\ wanted' = IF begun THEN wanted ELSE <<TRUE, wanted[2]>>
      /\ UNCHANGED <<volumeInitialized, volume, at, file, size, count>>
      /\ UNCHANGED <<audio, length, playRequested, asking>>
  BY DEF Speaker!Begin, Speaker!Begins, Speaker!request
<1>2. mode' = "tone"
  BY <1>1 DEF SpeakerInv, PinInv
<1>3. amp' \in BOOLEAN /\ wanted' = <<amp', volume>>
  <2>1. CASE begun
    BY <1>1, <2>1 DEF SpeakerInv, SpeakerTyped, SettingsInv
  <2>2. CASE ~begun
    BY <1>1, <2>2 DEF SpeakerInv, SpeakerTyped, SettingsInv
  <2> QED BY <2>1, <2>2
<1>4. SpeakerTyped' /\ PinInv'
  BY <1>1, <1>2, <1>3 DEF SpeakerInv, SpeakerTyped, PinInv
<1>5. SettingsInv' /\ RequestInv'
  BY <1>1, <1>3 DEF SpeakerInv, SettingsInv, RequestInv
<1> QED BY <1>4, <1>5 DEF SpeakerInv

LEMMA SpeakerUpdates ==
  ASSUME Speaker!SpeakerAssumption, SpeakerInv, Speaker!Update \/ Speaker!UpdateWav
  PROVE  SpeakerInv'
<1>1. /\ at = "idle" /\ Speaker!Prepares
      /\ at' \in {"idle", "clear"}
      /\ UNCHANGED <<audio, length, playRequested, asking, file, size, count>>
  BY DEF Speaker!Update, Speaker!UpdateWav, Speaker!request
<1>2. /\ begun' = TRUE /\ amp' \in BOOLEAN /\ volumeInitialized' = TRUE
      /\ volume' \in Percents \cup {None} /\ mode' = "tone" /\ SettingsInv'
  BY <1>1, SpeakerPrepares
<1>3. SpeakerTyped'
  BY <1>1, <1>2 DEF SpeakerInv, SpeakerTyped
<1>4. PinInv'
  BY <1>2 DEF PinInv
<1>5. RequestInv'
  <2>1. at' # "read" /\ at' # "play"
    BY <1>1
  <2> QED BY <1>1, <2>1 DEF SpeakerInv, RequestInv
<1> QED BY <1>2, <1>3, <1>4, <1>5 DEF SpeakerInv

LEMMA SpeakerReads ==
  ASSUME Speaker!SpeakerAssumption, SpeakerInv,
         Speaker!ClearRequest \/ Speaker!ReadAudio \/ Speaker!ReadLength
  PROVE  SpeakerInv'
<1>1. UNCHANGED <<amp, volume, wanted, begun, volumeInitialized, audio, length, asking,
                  mode, count>>
  BY DEF Speaker!ClearRequest, Speaker!ReadAudio, Speaker!ReadLength, Speaker!settings,
         Speaker!request
<1>2. SettingsInv'
  BY <1>1 DEF SpeakerInv, SettingsInv
<1>3. at \in {"clear", "read"} /\ at' = "read"
  BY DEF Speaker!ClearRequest, Speaker!ReadAudio, Speaker!ReadLength
<1>4. PinInv'
  BY <1>1, <1>3 DEF SpeakerInv, PinInv
<1>5. length \in Nat
  BY SpeakerConstants DEF SpeakerInv, SpeakerTyped
<1>6. CASE Speaker!ClearRequest
  <2>1. playRequested' = FALSE /\ file' = None /\ size' = 0
    BY <1>6 DEF Speaker!ClearRequest
  <2>2. SpeakerTyped'
    BY <1>1, <1>3, <2>1 DEF SpeakerInv, SpeakerTyped
  <2>3. RequestInv'
    BY <1>1, <1>3, <2>1 DEF SpeakerInv, RequestInv
  <2> QED BY <1>2, <1>4, <2>2, <2>3 DEF SpeakerInv
<1>7. CASE Speaker!ReadAudio
  <2>1. at = "read" /\ playRequested' = playRequested /\ file' = audio /\ size' = size
    BY <1>7 DEF Speaker!ReadAudio, Speaker!request
  <2>2. SpeakerTyped'
    BY <1>1, <1>3, <2>1 DEF SpeakerInv, SpeakerTyped
  <2>3. RequestInv'
    BY <1>1, <1>3, <2>1 DEF SpeakerInv, RequestInv
  <2> QED BY <1>2, <1>4, <2>2, <2>3 DEF SpeakerInv
<1>8. CASE Speaker!ReadLength
  <2>1. at = "read" /\ playRequested' = playRequested /\ file' = file /\ size' = length
    BY <1>8 DEF Speaker!ReadLength, Speaker!request
  <2>2. SpeakerTyped'
    BY <1>1, <1>3, <1>5, <2>1 DEF SpeakerInv, SpeakerTyped
  <2>3. RequestInv'
    BY <1>1, <1>3, <2>1 DEF SpeakerInv, RequestInv
  <2> QED BY <1>2, <1>4, <2>2, <2>3 DEF SpeakerInv
<1> QED BY <1>6, <1>7, <1>8

\* A WAV that starts while no request is made has its own length.
LEMMA SpeakerPlays ==
  ASSUME Speaker!SpeakerAssumption, SpeakerInv,
         \/ Speaker!StartWav \/ Speaker!RejectWav \/ Speaker!MissData \/ Speaker!FindData
         \/ Speaker!Sample \/ Speaker!EndWav
  PROVE  SpeakerInv'
<1>1. /\ UNCHANGED <<amp, volume, wanted, begun, volumeInitialized>>
      /\ UNCHANGED <<audio, length, playRequested, asking, file, size>>
  BY DEF Speaker!StartWav, Speaker!RejectWav, Speaker!MissData, Speaker!FindData,
         Speaker!Sample, Speaker!EndWav, Speaker!settings, Speaker!request
<1>2. SettingsInv'
  BY <1>1 DEF SpeakerInv, SettingsInv
<1>3. Header \in Nat /\ None \notin Files
  BY SpeakerConstants
<1>4. \/ at' = "idle" /\ mode' = "tone" /\ count' \in Nat /\ at \in {"parse", "play"}
      \/ /\ at' = "parse" /\ mode' = "wav" /\ count' = count
         /\ at = "read" /\ file # None /\ size # 0
      \/ at' = "play" /\ mode' = mode /\ count' \in Nat /\ at \in {"parse", "play"}
  BY <1>3 DEF SpeakerInv, SpeakerTyped, Speaker!StartWav, Speaker!RejectWav,
              Speaker!MissData, Speaker!FindData, Speaker!Sample, Speaker!EndWav,
              Speaker!Leave
<1>5. SpeakerTyped'
  BY <1>1, <1>3, <1>4 DEF SpeakerInv, SpeakerTyped
<1>6. PinInv'
  BY <1>1, <1>4 DEF SpeakerInv, PinInv
<1>7. RequestInv'
  <2>1. CASE at' = "idle"
    BY <1>1, <2>1 DEF SpeakerInv, RequestInv
  <2>2. CASE at' = "parse" /\ at = "read" /\ file # None /\ size # 0
    BY <1>1, <1>3, <2>2 DEF SpeakerInv, RequestInv
  <2>3. CASE at' = "play" /\ at \in {"parse", "play"}
    BY <1>1, <2>3 DEF SpeakerInv, RequestInv
  <2> QED BY <1>4, <2>1, <2>2, <2>3
<1> QED BY <1>2, <1>5, <1>6, <1>7 DEF SpeakerInv

LEMMA SpeakerIsAsked ==
  ASSUME Speaker!SpeakerAssumption, SpeakerInv, Speaker!Requester PROVE SpeakerInv'
<1>1. /\ UNCHANGED <<amp, volume, wanted, begun, volumeInitialized>>
      /\ UNCHANGED <<mode, at, file, size, count>>
  BY DEF Speaker!Requester, Speaker!WriteAudio, Speaker!WriteLength, Speaker!SetFlag,
         Speaker!settings, Speaker!playing
<1>2. SettingsInv' /\ PinInv'
  BY <1>1 DEF SpeakerInv, SettingsInv, PinInv
<1>3. asking[1] \in Files \cup {None} /\ asking = <<asking[1], asking[2]>>
  BY DEF SpeakerInv, SpeakerTyped
<1>4. CASE Speaker!WriteAudio
  <2>1. PICK f \in Files : audio' = f /\ asking' = <<f, "audio">>
    BY <1>4 DEF Speaker!WriteAudio
  <2>2. UNCHANGED <<length, playRequested>>
    BY <1>4 DEF Speaker!WriteAudio
  <2>3. SpeakerTyped'
    BY <1>1, <2>1, <2>2 DEF SpeakerInv, SpeakerTyped
  <2>4. RequestInv'
    BY <1>1, <2>1, <2>2 DEF SpeakerInv, RequestInv
  <2> QED BY <1>2, <2>3, <2>4 DEF SpeakerInv
<1>5. CASE Speaker!WriteLength
  <2>1. /\ asking[2] = "audio" /\ length' = Length[asking[1]]
        /\ asking' = <<asking[1], "length">> /\ UNCHANGED <<audio, playRequested>>
    BY <1>3, <1>5 DEF Speaker!WriteLength
  <2>2. asking[1] \in Files /\ asking[1] = audio
    BY <2>1 DEF SpeakerInv, RequestInv
  <2>3. SpeakerTyped'
    BY <1>1, <2>1, <2>2, SpeakerConstants DEF SpeakerInv, SpeakerTyped
  <2>4. RequestInv'
    BY <1>1, <2>1, <2>2 DEF SpeakerInv, RequestInv
  <2> QED BY <1>2, <2>3, <2>4 DEF SpeakerInv
<1>6. CASE Speaker!SetFlag
  <2>1. /\ asking[2] = "length" /\ playRequested' = TRUE
        /\ asking' = <<asking[1], "flag">> /\ UNCHANGED <<audio, length>>
    BY <1>3, <1>6 DEF Speaker!SetFlag
  <2>2. SpeakerTyped'
    BY <1>1, <1>3, <2>1 DEF SpeakerInv, SpeakerTyped
  <2>3. RequestInv'
    BY <1>1, <2>1 DEF SpeakerInv, RequestInv
  <2> QED BY <1>2, <2>2, <2>3 DEF SpeakerInv
<1> QED BY <1>4, <1>5, <1>6 DEF Speaker!Requester

LEMMA SpeakerIsSet ==
  ASSUME SpeakerInv, Speaker!SwitchAmp \/ Speaker!SetVolume PROVE SpeakerInv'
<1>1. /\ UNCHANGED <<audio, length, playRequested, asking>>
      /\ UNCHANGED <<mode, at, file, size, count, begun, volumeInitialized>> /\ begun
  BY DEF Speaker!SwitchAmp, Speaker!SetVolume, Speaker!request, Speaker!playing
<1>2. PinInv' /\ RequestInv'
  BY <1>1 DEF SpeakerInv, PinInv, RequestInv
<1>3. wanted = <<amp, volume>>
  BY <1>1 DEF SpeakerInv, SettingsInv
<1>4. /\ amp' \in BOOLEAN /\ volume' \in Percents \cup {None}
      /\ wanted' = <<amp', volume'>>
  <2>1. amp \in BOOLEAN /\ volume \in Percents \cup {None}
    BY DEF SpeakerInv, SpeakerTyped
  <2>2. CASE Speaker!SwitchAmp
    BY <1>3, <2>1, <2>2 DEF Speaker!SwitchAmp
  <2>3. CASE Speaker!SetVolume
    BY <1>3, <2>1, <2>3 DEF Speaker!SetVolume
  <2> QED BY <2>2, <2>3
<1>5. SpeakerTyped'
  BY <1>1, <1>4 DEF SpeakerInv, SpeakerTyped
<1>6. SettingsInv'
  BY <1>1, <1>4 DEF SpeakerInv, SettingsInv
<1> QED BY <1>2, <1>5, <1>6 DEF SpeakerInv

LEMMA SpeakerStep ==
  ASSUME Speaker!SpeakerAssumption, SpeakerInv, [Speaker!Next]_(Speaker!vars)
  PROVE  SpeakerInv'
<1>1. CASE UNCHANGED Speaker!vars
  BY <1>1 DEF Speaker!vars, Speaker!settings, Speaker!request, Speaker!playing, SpeakerInv,
              SpeakerTyped, PinInv, SettingsInv, RequestInv
<1> QED BY <1>1, SpeakerBegins, SpeakerUpdates, SpeakerReads, SpeakerPlays,
           SpeakerIsAsked, SpeakerIsSet
        DEF Speaker!Next, Speaker!Player

LEMMA SpeakerAlone ==
  /\ About("speaker") /\ Init => Speaker!Init
  /\ About("speaker") /\ [Next]_vars => [Speaker!Next]_(Speaker!vars)
<1>1. About("speaker") /\ Init => Speaker!Init
  BY DEF About, Init
<1>2. About("speaker") /\ [Next]_vars => [Speaker!Next]_(Speaker!vars)
  BY DEF About, Next, Others, vars, speaker, Speaker!vars, Speaker!settings,
         Speaker!request, Speaker!playing
<1> QED BY <1>1, <1>2

LEMMA SpeakerInductive == Spec => [](About("speaker") => SpeakerInv)
<1>1. About("speaker") /\ Init => SpeakerInv
  BY OutputsAssumption, SpeakerAlone, SpeakerInit DEF OutputsAssumption
<1>2. About("speaker") /\ SpeakerInv /\ [Next]_vars => SpeakerInv'
  BY OutputsAssumption, SpeakerAlone, SpeakerStep DEF OutputsAssumption
<1>3. About("speaker") /\ [Next]_vars => About("speaker")'
  BY AboutStays
<1>4. ~About("speaker") /\ [Next]_vars => ~About("speaker")'
  BY AboutAlways
<1> QED BY <1>1, <1>2, <1>3, <1>4, PTL DEF Spec

\* In every interleaving of the three stores of a request with the reading of it, a file
\* goes on with the length of another only until the request is made.
THEOREM TornNotForLong == Spec => []TornOnlyDuringRequest
<1>1. (About("speaker") => SpeakerInv) => TornOnlyDuringRequest
  BY DEF About, SpeakerInv, RequestInv, TornOnlyDuringRequest,
         Speaker!TornOnlyDuringRequest
<1> QED BY <1>1, SpeakerInductive, PTL

\* The tone has the pin whenever loop() goes on, and the amplifier and the volume are as
\* the program set them since the first update.
THEOREM SpeakerGivesBack == Spec => []SpeakerRestores
<1>1. (About("speaker") => SpeakerInv) => SpeakerRestores
  BY DEF About, SpeakerInv, PinInv, SettingsInv, SpeakerRestores, Speaker!PinGoesBack,
         Speaker!SettingsKept
<1> QED BY <1>1, SpeakerInductive, PTL
=================================================================================
