-------------------------------- MODULE Vibrator --------------------------------
(***************************************************************************)
(* Vibrator (src/src/Vibrator.cpp): a motor on one pin, driven fully on or *)
(* off by the GPIO and in between by a PWM channel attached to the pin.    *)
(* It plays patterns as a TimedPatternPlayer, and the program may drive it *)
(* by hand at any moment, during a pattern too.                            *)
(***************************************************************************)
EXTENDS Integers, Sequences

CONSTANTS Patterns, W, MaxGap, MaxTime,
          Powers,          \* percentages the program sets by hand
          PwmResolution    \* _pwmResolution: the duty that is fully on

VibratorAssumption ==
  /\ Patterns \subseteq Seq([output : Nat, durationMs : Nat])
  /\ Powers \subseteq Nat
  /\ PwmResolution \in Nat \ {0}

VARIABLES now, steps, index, stepStartedAt, playing, finished, saved,
          lastUpdate, startedAt,
          motor,     \* _begun, _pwmEnabled, and what the pin and channel do
          byHand     \* history: the motor was driven by hand since the player did

-----------------------------------------------------------------------------
\* The motor before begin(), whose pin is not driven.
FreshMotor == [begun |-> FALSE, pwm |-> FALSE, attached |-> FALSE,
               pin |-> "LOW", duty |-> 0]

Begin(m) == IF m.begun THEN m ELSE [m EXCEPT !.begun = TRUE, !.pin = "LOW"]

\* Mutant of DisablePWM: nothing is done.
DisablePWMNever(m) == m

\* The flag and the pin's connection change together, and only at an edge.
EnablePWM(m)  == IF m.pwm THEN m ELSE [m EXCEPT !.pwm = TRUE, !.attached = TRUE]
DisablePWM(m) == IF m.pwm THEN [m EXCEPT !.pwm = FALSE, !.attached = FALSE] ELSE m

On(m)  == [DisablePWM(Begin(m)) EXCEPT !.pin = "HIGH"]
Off(m) == [DisablePWM(Begin(m)) EXCEPT !.pin = "LOW"]

\* Mutant of SetPower: percentages over 100 are not cut.
SetPowerUncut(percent, m) ==
  IF percent = 100 THEN On(m)
  ELSE IF percent = 0 THEN Off(m)
  ELSE [EnablePWM(Begin(m)) EXCEPT !.duty = (percent * PwmResolution) \div 100]

\* setPower(), integer division included.
SetPower(percent, m) ==
  IF percent >= 100 THEN On(m)
  ELSE IF percent = 0 THEN Off(m)
  ELSE [EnablePWM(Begin(m)) EXCEPT !.duty = (percent * PwmResolution) \div 100]

\* isOn(): the pin's level, or the channel's duty while PWM is in use.
IsOn(m) == IF m.pwm THEN m.duty > 0 ELSE m.pin = "HIGH"

-----------------------------------------------------------------------------
Player == INSTANCE TimedPatternPlayer WITH
  device <- motor, FirstDevice <- FreshMotor,
  ApplyOutput <- SetPower, StopOutput <- Off

vars == <<Player!vars, byHand>>

Init == Player!Init /\ byHand = FALSE

\* The player drives the motor when a step starts and when a pattern ends or
\* is stopped; stop() of a player that plays nothing leaves the motor alone.
PlayPattern ==
  /\ Player!Start
  /\ byHand' = (byHand /\ ~playing /\ ~playing')

Stop ==
  /\ Player!Stop
  /\ byHand' = (byHand /\ ~playing)

\* update() begins the motor before it asks the player.
Update ==
  /\ motor.begun
  /\ Player!Update
  /\ byHand' = (byHand /\ UNCHANGED <<index, playing>>)

\* update() before the first begin(): nothing can be playing yet.
FirstUpdate ==
  /\ ~motor.begun
  /\ motor' = Begin(motor)
  /\ lastUpdate' = now
  /\ UNCHANGED <<now, steps, index, stepStartedAt, playing, finished, startedAt,
                 saved, byHand>>

ByHand(m) ==
  /\ motor' = m
  /\ byHand' = TRUE
  /\ UNCHANGED <<now, lastUpdate, steps, index, stepStartedAt, playing, finished,
                 startedAt, saved>>

TurnOn  == ByHand(On(motor))
TurnOff == ByHand(Off(motor))
Set     == \E percent \in Powers : ByHand(SetPower(percent, motor))

Capture == Player!Capture /\ UNCHANGED byHand
Tick    == Player!Tick /\ UNCHANGED byHand

Next == \/ PlayPattern \/ Stop \/ Update \/ FirstUpdate
        \/ TurnOn \/ TurnOff \/ Set \/ Capture \/ Tick
Spec == Init /\ [][Next]_vars

-----------------------------------------------------------------------------
\* The type of the motor's state.
TypeOK ==
  /\ motor \in [begun : BOOLEAN, pwm : BOOLEAN, attached : BOOLEAN,
                pin : {"LOW", "HIGH"}, duty : 0..PwmResolution]
  /\ byHand \in BOOLEAN

\* What turns the motor, from the wiring alone, in parts of PwmResolution: the
\* channel while it is attached to the pin, else the level of the pin.
Drive == IF motor.attached THEN motor.duty
         ELSE IF motor.pin = "HIGH" THEN PwmResolution ELSE 0

\* The motor turns as the current step says, whatever it was doing before the
\* step began: fully on, on PWM, stopped, or left so by a call by hand.
FollowsStep ==
  (playing /\ ~byHand) =>
    LET percent == steps[index + 1].output
    IN  Drive = IF percent >= 100 THEN PwmResolution
                ELSE (percent * PwmResolution) \div 100

\* Once a pattern is over or stopped, the motor rests until it is driven by
\* hand or by another pattern.
RestsAfterPattern == (~playing /\ ~byHand) => Drive = 0

\* isOn() tells whether the motor turns.
IsOnIsTrue == IsOn(motor) <=> Drive > 0

MotorObeys == FollowsStep /\ RestsAfterPattern /\ IsOnIsTrue
=============================================================================
