------------------------------- MODULE ServoESP32 -------------------------------
(***************************************************************************)
(* ServoESP32 (src/src/ServoESP32.cpp): a servo whose angle a              *)
(* LinearChanger carries to its target, one step per cycle of a Timer.  An *)
(* angle is a float, counted as LinearChanger counts them.  The pulse is   *)
(* what the channel of the PWM was last told.                              *)
(***************************************************************************)
EXTENDS LinearChanger

CONSTANTS
  Angles,        \* the angles the program asks for, some out of range
  Limit,         \* 90 degrees
  PulseOffset, PulseRate, PulseUnit
                 \* PULSE_OFFSET and the half that rounds, and DEG_TO_PULSE, both
                 \* counted in 1/PulseUnit

ServoAssumption ==
  /\ LinearChangerAssumption
  /\ Angles \subseteq Int /\ Limit \in Nat
  /\ PulseOffset \in Nat /\ PulseRate \in Nat /\ PulseUnit \in Nat \ {0}

VARIABLES
  pulse,
  angVel,      \* _angVel
  driven       \* history: the channel was told the present angle since construction

servo == <<changer, pulse, angVel, driven>>

-----------------------------------------------------------------------------
\* Mutant of CheckAngle: the lower end is not looked at.
CheckAngleHigh(angle) == IF angle > Limit THEN Limit ELSE angle

CheckAngle(angle) ==
  IF angle > Limit THEN Limit ELSE IF angle < -Limit THEN -Limit ELSE angle

Pulse(angle) == (PulseOffset + PulseRate * (angle + Limit)) \div PulseUnit

MoveServo(angle) == pulse' = Pulse(CheckAngle(angle)) /\ driven' = TRUE

\* ServoESP32(ch, pin): no angle is set, and the channel is told zero.
ServoInit ==
  /\ Init
  /\ increase = decrease
  /\ angVel \in {v \in Rates : FloatToFix(v) = increase}
  /\ pulse = 0 /\ driven = FALSE

\* setServoAngle(), with which ServoESP32(ch, pin, initAngle, angVel) ends: the servo
\* is moved at once.
SetServoAngle(angle) ==
  /\ MoveServo(angle)
  /\ present' = FloatToFix(CheckAngle(angle))
  /\ target' = FloatToFix(CheckAngle(angle))
  /\ UNCHANGED <<speed, history, angVel>>

SetAngularVelocity(v) ==
  /\ increase' = FloatToFix(v) /\ decrease' = FloatToFix(v)
  /\ UNCHANGED <<ends, cycleTime, history, pulse, angVel, driven>>

SetTargetAngle(angle) ==
  /\ target' = FloatToFix(CheckAngle(angle))
  /\ UNCHANGED <<present, speed, history, pulse, angVel, driven>>

\* setTargetAngle(angle, angVel): a velocity of zero is none.
SetTargetAngleAt(angle, v) ==
  /\ target' = FloatToFix(CheckAngle(angle))
  /\ IF v # 0 THEN increase' = FloatToFix(v) /\ decrease' = FloatToFix(v)
              ELSE UNCHANGED <<increase, decrease>>
  /\ UNCHANGED <<present, cycleTime, history, pulse, angVel, driven>>

\* loop() when the cycle has come; when it has not it does nothing.
Loop ==
  /\ ~IsTarget
  /\ UpdateFix /\ MoveServo(present' * Fine)
  /\ UNCHANGED <<target, speed, history, angVel>>

\* The copy constructor: the copy's changer begins at zero with the velocity of the
\* constructor, and its channel, which is the original's, is told zero.
Copy ==
  /\ present' = 0 /\ target' = 0
  /\ increase' = FloatToFix(angVel) /\ decrease' = FloatToFix(angVel)
  /\ cycleTime' = CycleOf(GetCycleTime)
  /\ pulse' = 0 /\ driven' = FALSE
  /\ UNCHANGED <<history, angVel>>

\* operator=(): the same, but the channel is told nothing, and the rates are those
\* of the original's changer.
Assign ==
  /\ present' = 0 /\ target' = 0
  /\ cycleTime' = CycleOf(GetCycleTime)
  /\ driven' = FALSE
  /\ UNCHANGED <<increase, decrease, history, pulse, angVel>>

ServoNext ==
  \/ \E a \in Angles : SetServoAngle(a) \/ SetTargetAngle(a)
  \/ \E a \in Angles, v \in Rates : SetTargetAngleAt(a, v)
  \/ \E v \in Rates : SetAngularVelocity(v)
  \/ Loop \/ Copy \/ Assign

-----------------------------------------------------------------------------
\* The type of the servo's state: an angle never leaves its range.
ServoTypeOK ==
  /\ TypeOK
  /\ {present * Fine, target * Fine} \subseteq (-Limit)..Limit
  /\ pulse \in 0..Pulse(Limit)
  /\ angVel \in Rates /\ driven \in BOOLEAN

\* Once a servo has been moved, its pulse is that of the present angle, but for what
\* FLOAT_TO_FIX drops of an angle set at once: isTargetAngle() answers for the servo
\* and not only for the changer.
PulseFollows ==
  driven => \E f \in (1 - Fine)..(Fine - 1) :
              pulse = Pulse(CheckAngle(present * Fine + f))

\* Both rates make a step of at least one in a cycle.
Turns == /\ cycleTime > 0
         /\ increase > (Scale - 1) \div cycleTime
         /\ decrease > (Scale - 1) \div cycleTime

\* A servo comes to the angle it was told to go to ("一定時間毎に実行必要", line 198), or
\* it is told another, or it has a velocity that its cycle rounds to nothing.
TargetIsReached == []<>(IsTarget \/ ~Turns) \/ []<><<target' # target>>_servo
=============================================================================
