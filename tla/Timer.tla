--------------------------------- MODULE Timer ---------------------------------
(***************************************************************************)
(* Timer (src/src/Timer.cpp): a stopwatch and a trigger that tells once    *)
(* per cycle that the cycle has come, both over millis(), which wraps.     *)
(* stopTime doubles as the running flag: zero means that the watch runs.   *)
(***************************************************************************)
EXTENDS Integers

CONSTANTS
  W,            \* millis() counts modulo W (2^32)
  Boots,        \* when the object may be constructed
  CycleTimes,   \* the cycles the program sets
  MaxGap,       \* the longest time between two polls of isCycleTime()
  MaxTime       \* bound: the last instant looked at

\* A cycle of zero makes isCycleTime() divide by it.
TimerAssumption ==
  /\ W \in Nat \ {0} /\ MaxTime \in Nat /\ MaxGap \in 1..(W - 1)
  /\ Boots \subseteq 0..MaxTime
  /\ \A c \in CycleTimes : c \in Nat \ {0} /\ c + MaxGap <= W

VARIABLES
  now,         \* time since power-up
  startTime, stopTime, pastTime, cycleTime,
  running,     \* history: startTimer() was called, and stopTimer() not since
  began,       \* history: when the time to be measured began
  ended,       \* history: when it ended, if it is not running
  lastPoll,    \* history: when isCycleTime() was last called
  synced,      \* history: it was, since the cycle was last set
  fired        \* what isCycleTime() last returned

watch == <<startTime, stopTime, running, began, ended>>
cycle == <<pastTime, cycleTime, lastPoll, synced, fired>>
vars  == <<now, watch, cycle>>

Millis == now % W

\* Timer(time).
Init ==
  /\ now \in Boots
  /\ startTime = Millis /\ stopTime = Millis
  /\ pastTime = 0 /\ cycleTime \in CycleTimes
  /\ running = FALSE /\ began = now /\ ended = now
  /\ lastPoll = now /\ synced = FALSE /\ fired = FALSE

StartTimer ==
  /\ startTime' = Millis /\ stopTime' = 0
  /\ running' = TRUE /\ began' = now
  /\ UNCHANGED <<now, ended, cycle>>

StopTimer ==
  /\ stopTime' = IF stopTime = 0 THEN Millis ELSE stopTime
  /\ running' = FALSE
  /\ ended' = IF running THEN now ELSE ended
  /\ UNCHANGED <<now, startTime, began, cycle>>

\* getTime(), in unsigned arithmetic.
GetTime == ((IF stopTime = 0 THEN Millis ELSE stopTime) - startTime) % W

SetCycleTime ==
  /\ cycleTime' \in CycleTimes
  /\ synced' = FALSE
  /\ UNCHANGED <<now, watch, pastTime, lastPoll, fired>>

\* Mutant of IsCycleTime: the cycle seen is not kept.
IsCycleTimeForgets ==
  /\ fired' = (Millis \div cycleTime # pastTime)
  /\ lastPoll' = now /\ synced' = TRUE
  /\ UNCHANGED <<now, watch, pastTime, cycleTime>>

\* isCycleTime() compares the number of the cycle with the one it saw last.
IsCycleTime ==
  LET temp == Millis \div cycleTime
  IN  /\ fired' = (temp # pastTime)
      /\ pastTime' = temp
      /\ lastPoll' = now /\ synced' = TRUE
      /\ UNCHANGED <<now, watch, cycleTime>>

Tick ==
  /\ now < MaxTime
  /\ now - lastPoll < MaxGap
  /\ now' = now + 1
  /\ UNCHANGED <<watch, cycle>>

Next == StartTimer \/ StopTimer \/ SetCycleTime \/ IsCycleTime \/ Tick
Spec == Init /\ [][Next]_vars

-----------------------------------------------------------------------------
\* The type of the timer's state.
TypeOK ==
  /\ now \in 0..MaxTime
  /\ startTime \in 0..(W - 1) /\ stopTime \in 0..(W - 1)
  /\ pastTime \in 0..(W - 1) /\ cycleTime \in CycleTimes
  /\ running \in BOOLEAN /\ fired \in BOOLEAN /\ synced \in BOOLEAN
  /\ began \in 0..now /\ ended \in 0..now
  /\ lastPoll \in 0..now

\* getTime() is the time between startTimer() and stopTimer(), or until now,
\* modulo the width of the clock, but for one instant in each round of the
\* clock: a watch stopped when millis() reads zero runs on.
MeasuresTime ==
  (running \/ ended % W # 0)
    => GetTime = ((IF running THEN now ELSE ended) - began) % W

\* Whether a multiple of the cycle lies after instant s and not after t.
CycleCame(s, t) == s \div cycleTime # t \div cycleTime

\* isCycleTime() answers TRUE exactly when a cycle has come since the poll
\* before: none is reported twice, or early, or not at all.  Not so for the
\* first poll with a new cycle, nor once the clock has wrapped in the middle of
\* a cycle, which shifts all later ones.
TellsEachCycle ==
  [][IsCycleTime /\ synced /\ (W % cycleTime = 0 \/ now < W)
       => (fired' <=> CycleCame(lastPoll, now))]_vars

\* Both at once.
KeepsTime == []MeasuresTime /\ TellsEachCycle
=============================================================================
