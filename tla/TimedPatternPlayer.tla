--------------------------- MODULE TimedPatternPlayer ---------------------------
(***************************************************************************)
(* TimedPatternPlayer (src/src/TimedPatternPlayer.cpp): a row of steps,    *)
(* each an output and a duration, played without blocking by an update()   *)
(* that loop() calls again and again.  The clock it reads is millis(),     *)
(* which wraps.  The two virtual functions are parameters, so that the     *)
(* classes derived from it are instances of this module.                   *)
(***************************************************************************)
EXTENDS Integers, Sequences

CONSTANTS
  Patterns,            \* the non-empty step arrays of the program
  W,                   \* millis() counts modulo W (2^32)
  MaxGap,              \* loop() calls update() at least every MaxGap ms
  MaxTime,             \* bound: the last instant looked at
  FirstDevice,         \* the output device before it is used
  ApplyOutput(_, _),   \* applyOutput: step value, device -> device
  StopOutput(_)        \* stopOutput: device -> device

Steps == UNION {{p[i] : i \in DOMAIN p} : p \in Patterns}

\* A duration is a uint16_t and the clock a uint32_t; that update() comes in
\* time for the clock not to go round while a step lasts is the program's part.
ASSUME PlayerAssumption ==
  /\ W \in Nat \ {0} /\ MaxGap \in Nat \ {0} /\ MaxTime \in Nat
  /\ Patterns \subseteq Seq(Steps) /\ <<>> \notin Patterns
  /\ \A s \in Steps : s.durationMs \in Nat /\ s.durationMs + MaxGap < W

\* What the program may pass to play(): an array, what is left of one after
\* capturePlayback(), or nothing.
Rest(p, i) == SubSeq(p, i + 1, Len(p))
Playable == {<<>>} \cup UNION {{Rest(p, i) : i \in 0..(Len(p) - 1)} : p \in Patterns}

VARIABLES
  now,             \* time since power-up, which millis() shows modulo W
  steps,           \* _steps and _length; empty for nullptr
  index,           \* _index
  stepStartedAt,   \* _stepStartedAt
  playing,         \* _playing
  finished,        \* _finished
  device,          \* the state behind the virtual functions
  saved,           \* what the program last got from capturePlayback()
  lastUpdate,      \* when loop() last called update()
  startedAt        \* history: when the current step or silence began

clocks == <<now, lastUpdate>>
state  == <<steps, index, stepStartedAt, playing, finished, device, startedAt>>
vars   == <<clocks, state, saved>>

Millis == now % W

Init ==
  /\ now = 0 /\ lastUpdate = 0 /\ startedAt = 0
  /\ steps = <<>> /\ index = 0 /\ stepStartedAt = 0
  /\ playing = FALSE /\ finished = TRUE
  /\ device = FirstDevice
  /\ saved = <<>>

-----------------------------------------------------------------------------
\* Mutant of StartStep: the instant the step ends at is kept, past the clock's
\* width.
StartStepDeadline(p, i, dev) ==
  /\ stepStartedAt' = Millis + p[i + 1].durationMs
  /\ startedAt' = now
  /\ device' = ApplyOutput(p[i + 1].output, dev)

\* startCurrentStep() for step i of p.
StartStep(p, i, dev) ==
  /\ stepStartedAt' = Millis
  /\ startedAt' = now
  /\ device' = ApplyOutput(p[i + 1].output, dev)

\* Mutant of Cleared: the array is not let go of.
ClearedButSteps ==
  /\ index' = 0
  /\ playing' = FALSE /\ finished' = TRUE
  /\ startedAt' = now
  /\ UNCHANGED <<steps, stepStartedAt>>

\* The fields as stop() and finish() leave them.
Cleared ==
  /\ steps' = <<>> /\ index' = 0
  /\ playing' = FALSE /\ finished' = TRUE
  /\ startedAt' = now
  /\ UNCHANGED stepStartedAt

\* stop() silences the device only when a pattern is playing.
Quietened == IF playing THEN StopOutput(device) ELSE device

PlayNothing ==
  /\ Cleared
  /\ device' = Quietened
  /\ UNCHANGED <<clocks, saved>>

PlaySteps(p) ==
  /\ p # <<>>
  /\ steps' = p /\ index' = 0
  /\ playing' = TRUE /\ finished' = FALSE
  /\ StartStep(p, 0, Quietened)
  /\ UNCHANGED <<clocks, saved>>

Stop == PlayNothing
Play(p) == (p = <<>> /\ PlayNothing) \/ PlaySteps(p)

\* Mutant of Due: a step of no duration is held.
DueUnlessZero ==
  /\ steps[index + 1].durationMs # 0
  /\ (Millis - stepStartedAt) % W >= steps[index + 1].durationMs

\* Mutants of Due: the sum of start and duration is compared with the clock,
\* wrapping as the clock does, or not wrapping.
DueByDeadline == Millis >= (stepStartedAt + steps[index + 1].durationMs) % W
DueByWideDeadline == Millis >= stepStartedAt + steps[index + 1].durationMs

\* update(): the step goes on while the clock is less than its duration past
\* its start, in unsigned arithmetic.
Due == (Millis - stepStartedAt) % W >= steps[index + 1].durationMs

UpdateWaits ==
  /\ playing => ~Due
  /\ UNCHANGED state

\* Mutant of UpdateMovesOn: a step of no duration is passed over.
UpdateMovesOnSkipping ==
  /\ playing /\ Due
  /\ index + 1 < Len(steps)
  /\ \E i \in {index + 1, index + 2} :
       /\ (i = index + 2) = (i < Len(steps) /\ steps[index + 2].durationMs = 0)
       /\ index' = i
       /\ StartStep(steps, i, device)
  /\ UNCHANGED <<steps, playing, finished>>

UpdateMovesOn ==
  /\ playing /\ Due
  /\ index + 1 < Len(steps)
  /\ index' = index + 1
  /\ StartStep(steps, index + 1, device)
  /\ UNCHANGED <<steps, playing, finished>>

UpdateFinishes ==
  /\ playing /\ Due
  /\ index + 1 >= Len(steps)
  /\ Cleared
  /\ device' = StopOutput(device)

Update ==
  /\ UpdateWaits \/ UpdateMovesOn \/ UpdateFinishes
  /\ lastUpdate' = now
  /\ UNCHANGED <<now, saved>>

\* capturePlayback(): the program keeps what it got.
Capture ==
  /\ saved' = IF playing /\ index < Len(steps) THEN Rest(steps, index) ELSE <<>>
  /\ UNCHANGED <<clocks, state>>

Tick ==
  /\ now < MaxTime
  /\ now - lastUpdate < MaxGap
  /\ now' = now + 1
  /\ UNCHANGED <<lastUpdate, state, saved>>

Start == \E p \in Patterns \cup {saved} : Play(p)
Next == Start \/ Stop \/ Update \/ Capture \/ Tick

Spec == Init /\ [][Next]_vars

\* loop() runs for ever, and time goes on.
Fairness == WF_vars(Tick) /\ WF_vars(Update)

-----------------------------------------------------------------------------
\* The type of the player's state.
TypeOK ==
  /\ now \in 0..MaxTime /\ lastUpdate \in 0..now /\ startedAt \in 0..now
  /\ steps \in Playable /\ saved \in Playable
  /\ index \in Nat
  /\ stepStartedAt \in 0..(W - 1)
  /\ playing \in BOOLEAN /\ finished \in BOOLEAN

\* The two flags and the array agree, and update() and capturePlayback() never
\* read past the array's end.
WellFormed ==
  /\ playing = (steps # <<>>)
  /\ finished = ~playing
  /\ playing => index < Len(steps)

\* No step is left before its duration is over, wrapping clock or not.
NeverCutShort ==
  [][playing /\ Update /\ (index' # index \/ ~playing')
       => now - startedAt >= steps[index + 1].durationMs]_vars

\* No step stays on the output for longer than its duration and one gap
\* between updates.
OnTime == playing => now - startedAt <= steps[index + 1].durationMs + MaxGap

\* Every step ends, one of no duration too, unless the bound on time is near:
\* update() keeps being called and the clock it reads keeps moving.
StepsEnd ==
  \A t \in 0..MaxTime : \A i \in UNION {DOMAIN p : p \in Patterns} :
    LET Current == playing /\ startedAt = t /\ index + 1 = i
    IN  (Current /\ t + steps[i].durationMs + MaxGap < MaxTime) ~> ~Current
=============================================================================
