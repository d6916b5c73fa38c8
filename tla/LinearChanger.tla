----------------------------- MODULE LinearChanger -----------------------------
(***************************************************************************)
(* LinearChanger (src/src/LinearChanger.cpp): a value that moves towards a *)
(* target by the same amount at every update, in the fixed point           *)
(* arithmetic of fix.hpp.  A float is counted in 1/(Scale * Fine), so that *)
(* making a fix of it may lose something.                                  *)
(***************************************************************************)
EXTENDS Integers

CONSTANTS
  Scale,        \* FIX_SHIFT_VAL (2^16)
  Fine,         \* how much finer than a fix a float is
  Second,       \* 1000, the milliseconds the update cycle is divided by
  Time,         \* the update cycle given to the constructor
  Rates,        \* floats: the rates of increase and decrease the program sets
  Targets,      \* floats: the targets and present values it sets
  MaxUpdates    \* bound: updates looked at after one call of a setter

\* A negative rate would drive the value away from its target for ever.
LinearChangerAssumption ==
  /\ Scale \in Nat \ {0} /\ Scale % 2 = 0 /\ Fine \in Nat \ {0}
  /\ Second \in Nat \ {0} /\ Time \in Nat /\ MaxUpdates \in Nat
  /\ Rates \subseteq Nat /\ Targets \subseteq Int

VARIABLES
  present, target, increase, decrease, cycleTime,
  from,        \* history: the value when a setter was last called
  updates      \* history: the updates since then

ends    == <<present, target>>
speed   == <<increase, decrease, cycleTime>>
history == <<from, updates>>
changer == <<ends, speed, history>>

-----------------------------------------------------------------------------
\* FLOAT_TO_FIX drops the digits past a fix, FIX_TO_INT rounds, and FIX_MUL
\* shifts, which rounds down.
FloatToFix(f) == IF f >= 0 THEN f \div Fine ELSE -((-f) \div Fine)
FixToInt(x)   == (x + (Scale \div 2)) \div Scale
FixMul(x, y)  == (x * y) \div Scale

\* The cycle in seconds, and what getCycleTime() makes of it.
CycleOf(time) == (time * Scale) \div Second
GetCycleTime  == FixToInt(cycleTime)

Init ==
  /\ present = 0 /\ target = 0
  /\ \E i, d \in Rates : increase = FloatToFix(i) /\ decrease = FloatToFix(d)
  /\ cycleTime = CycleOf(Time)
  /\ from = 0 /\ updates = 0

\* Mutant of GetDelta: away from zero and towards it are told by the sign of the
\* target alone.
GetDeltaBySign == IF target > 0 THEN increase ELSE decrease

\* getDelta(): away from zero, and through it, the value increases.
GetDelta ==
  IF present = target THEN 0
  ELSE IF target # 0 /\ (target > 0 <=> present < target) THEN increase
  ELSE decrease

\* Mutant of UpdateFix: the value is not held at its target.
UpdateFixUnheld ==
  LET step == FixMul(GetDelta, cycleTime)
  IN  present' = IF present < target THEN present + step ELSE present - step

\* updateFix(), which update() only converts to a float.
UpdateFix ==
  LET step == FixMul(GetDelta, cycleTime)
  IN  present' = IF present < target
                   THEN IF present + step > target THEN target ELSE present + step
                   ELSE IF present - step < target THEN target ELSE present - step

Update ==
  /\ updates < MaxUpdates
  /\ UpdateFix /\ updates' = updates + 1
  /\ UNCHANGED <<target, speed, from>>

Restarted == from' = present' /\ updates' = 0

SetTarget(f)   == target' = FloatToFix(f) /\ UNCHANGED <<present, speed>> /\ Restarted
SetPresent(f)  == present' = FloatToFix(f) /\ UNCHANGED <<target, speed>> /\ Restarted
SetIncrease(f) ==
  increase' = FloatToFix(f) /\ UNCHANGED <<ends, decrease, cycleTime>> /\ Restarted
SetDecrease(f) ==
  decrease' = FloatToFix(f) /\ UNCHANGED <<ends, increase, cycleTime>> /\ Restarted

IsTarget == present = target

Next ==
  \/ Update
  \/ \E f \in Targets : SetTarget(f) \/ SetPresent(f)
  \/ \E f \in Rates : SetIncrease(f) \/ SetDecrease(f)
Spec == Init /\ [][Next]_changer

-----------------------------------------------------------------------------
\* The type of the changer's state.
TypeOK ==
  /\ {present, target, from} \subseteq Int
  /\ {increase, decrease, cycleTime} \subseteq Nat
  /\ updates \in 0..MaxUpdates

\* The step of a value left alone: towards zero it decreases, and else increases.
Rate ==
  IF from * target >= 0 /\ target * target < from * from THEN decrease ELSE increase

\* The value changes linearly ("値を線形で増減させる", LinearChanger.cpp:3): after n
\* updates it is n steps from where it was, or at its target if that is nearer.
\* It never passes the target, and a step that the fixed point rounds to zero
\* never gets there.
ChangesLinearly ==
  LET way == updates * FixMul(Rate, cycleTime)
  IN  present = IF from <= target
                  THEN IF from + way > target THEN target ELSE from + way
                  ELSE IF from - way < target THEN target ELSE from - way
=============================================================================
