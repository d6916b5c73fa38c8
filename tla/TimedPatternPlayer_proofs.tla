----------------------- MODULE TimedPatternPlayer_proofs -----------------------
(***************************************************************************)
(* The timing of TimedPatternPlayer for every pattern, every clock width   *)
(* and every device: a step is neither cut short nor late when update()    *)
(* comes in time for the clock not to go round meanwhile.                  *)
(***************************************************************************)
EXTENDS PlayerCalls, Clocks, SequenceTheorems, TLAPS

-----------------------------------------------------------------------------
Duration == steps[index + 1].durationMs

\* The shape of the state, and the clock readings that go with it.
ShapeInv ==
  /\ now \in Nat /\ lastUpdate \in Nat /\ startedAt \in Nat
  /\ index \in Nat /\ playing \in BOOLEAN
  /\ steps \in Seq(Steps) /\ saved \in Seq(Steps)
  /\ WellFormed

\* The current step began no later than now, and at the last update that came
\* after its beginning it was not over.
TimeInv ==
  /\ lastUpdate <= now /\ now - lastUpdate <= MaxGap
  /\ startedAt <= now
  /\ playing => stepStartedAt = startedAt % W
  /\ playing => (startedAt < lastUpdate => lastUpdate - startedAt < Duration)

IInv == ShapeInv /\ TimeInv

\* What is left of an array of steps is an array of steps.
LEMMA RestType ==
  ASSUME NEW p \in Seq(Steps), NEW i \in Nat
  PROVE  Rest(p, i) \in Seq(Steps)
<1>1. i + 1 \in Int /\ Len(p) \in Int /\ \A j \in (i + 1)..Len(p) : p[j] \in Steps
  BY LenProperties, ElementOfSeq
<1> QED BY <1>1, SubSeqProperties DEF Rest

\* A step that is played has a duration short enough for the clock.
LEMMA DurationType ==
  ASSUME ShapeInv, playing
  PROVE  Duration \in Nat /\ Duration + MaxGap < W
<1>1. steps \in Seq(Steps) /\ index + 1 \in 1..Len(steps)
  BY LenProperties DEF ShapeInv, WellFormed
<1>2. steps[index + 1] \in Steps
  BY <1>1, ElementOfSeq
<1> QED BY <1>2, PlayerAssumption DEF Duration

\* The comparison in update() is the comparison of true times.
LEMMA DueIsTrueTime ==
  ASSUME IInv, playing
  PROVE  /\ now - startedAt <= Duration + MaxGap
         /\ Due <=> now - startedAt >= Duration
<1>1. Duration \in Nat /\ Duration + MaxGap < W
  BY DurationType DEF IInv
<1>2. now - startedAt <= Duration + MaxGap
  BY <1>1, PlayerAssumption DEF IInv, ShapeInv, TimeInv
<1>3. ((now % W) - (startedAt % W)) % W = now - startedAt
  <2>1. W \in Nat \ {0} /\ MaxGap \in Nat
    BY PlayerAssumption
  <2>2. now \in Nat /\ startedAt \in Nat /\ startedAt <= now
    BY DEF IInv, ShapeInv, TimeInv
  <2>3. now - startedAt < W
    BY <1>1, <1>2, <2>1, <2>2
  <2> QED BY <2>1, <2>2, <2>3, ClockDifference
<1> QED BY <1>2, <1>3 DEF IInv, TimeInv, Due, Millis, Duration

-----------------------------------------------------------------------------
LEMMA InitInv == Init => IInv
<1> SUFFICES ASSUME Init PROVE IInv
  OBVIOUS
<1>1. <<>> \in Seq(Steps)
  OBVIOUS
<1>2. playing = (steps # <<>>) /\ finished = ~playing
  BY DEF Init
<1>3. ShapeInv
  BY <1>1, <1>2 DEF Init, ShapeInv, WellFormed
<1>4. MaxGap \in Nat
  BY PlayerAssumption
<1>5. TimeInv
  BY <1>4 DEF Init, TimeInv
<1> QED BY <1>3, <1>5 DEF IInv

\* A step that starts now leaves the times right, whatever the update before.
LEMMA StartStepInv ==
  ASSUME IInv, NEW p, NEW i, NEW dev, StartStep(p, i, dev), UNCHANGED now,
         lastUpdate' \in {lastUpdate, now}
  PROVE  TimeInv' /\ startedAt' \in Nat
<1>1. startedAt' = now /\ stepStartedAt' = startedAt' % W
  BY DEF StartStep, Millis
<1>2. lastUpdate' <= now' /\ now' - lastUpdate' <= MaxGap
  <2>1. MaxGap \in Nat
    BY PlayerAssumption
  <2>2. lastUpdate <= now /\ now - lastUpdate <= MaxGap /\ now \in Nat /\ lastUpdate \in Nat
    BY DEF IInv, ShapeInv, TimeInv
  <2>3. now' = now /\ (lastUpdate' = lastUpdate \/ lastUpdate' = now)
    OBVIOUS
  <2>4. CASE lastUpdate' = lastUpdate
    BY <2>2, <2>3, <2>4
  <2>5. CASE lastUpdate' = now
    BY <2>1, <2>2, <2>3, <2>5
  <2> QED BY <2>3, <2>4, <2>5
<1>3. ~(startedAt' < lastUpdate')
  BY <1>1, <1>2 DEF IInv, ShapeInv
<1> QED BY <1>1, <1>2, <1>3 DEF IInv, ShapeInv, TimeInv

\* The player at rest is in order.
LEMMA ClearedInv ==
  ASSUME IInv, Cleared, UNCHANGED <<now, saved>>, lastUpdate' \in {lastUpdate, now}
  PROVE  IInv'
<1>1. <<>> \in Seq(Steps)
  OBVIOUS
<1>2. ShapeInv'
  <2>1. WellFormed'
    BY DEF Cleared, WellFormed
  <2> QED BY <1>1, <2>1 DEF IInv, ShapeInv, Cleared
<1>3. TimeInv'
  <2>1. MaxGap \in Nat
    BY PlayerAssumption
  <2>2. lastUpdate <= now /\ now - lastUpdate <= MaxGap /\ now \in Nat /\ lastUpdate \in Nat
    BY DEF IInv, ShapeInv, TimeInv
  <2>3. lastUpdate' <= now' /\ now' - lastUpdate' <= MaxGap /\ startedAt' <= now'
    <3>1. now' = now /\ startedAt' = now /\ (lastUpdate' = lastUpdate \/ lastUpdate' = now)
      BY DEF Cleared
    <3>2. CASE lastUpdate' = lastUpdate
      BY <2>2, <3>1, <3>2
    <3>3. CASE lastUpdate' = now
      BY <2>1, <2>2, <3>1, <3>3
    <3> QED BY <3>1, <3>2, <3>3
  <2> QED BY <2>3 DEF TimeInv, Cleared
<1> QED BY <1>2, <1>3 DEF IInv

LEMMA PlayInv ==
  ASSUME IInv, NEW p \in Seq(Steps), Play(p) PROVE IInv'
<1>1. CASE PlayNothing
  BY <1>1, ClearedInv DEF PlayNothing, clocks
<1>2. CASE PlaySteps(p)
  <2>1. Len(p) \in Nat /\ Len(p) # 0
    BY <1>2, EmptySeq, LenProperties DEF PlaySteps
  <2>2. TimeInv' /\ startedAt' \in Nat
    BY <1>2, StartStepInv DEF PlaySteps, clocks
  <2>3. ShapeInv'
    <3>1. playing' = (steps' # <<>>) /\ finished' = ~playing'
      BY <1>2 DEF PlaySteps
    <3>2. index' \in Nat /\ index' < Len(steps')
      BY <1>2, <2>1 DEF PlaySteps
    <3>3. WellFormed'
      BY <3>1, <3>2 DEF WellFormed
    <3>4. playing' \in BOOLEAN /\ steps' \in Seq(Steps) /\ UNCHANGED <<now, lastUpdate, saved>>
      BY <1>2 DEF PlaySteps, clocks
    <3> QED BY <2>2, <3>2, <3>3, <3>4 DEF IInv, ShapeInv
  <2> QED BY <2>2, <2>3 DEF IInv
<1> QED BY <1>1, <1>2 DEF Play

LEMMA UpdateInv ==
  ASSUME IInv, Update PROVE IInv'
<1>1. UNCHANGED <<now, saved>> /\ lastUpdate' = now
  BY DEF Update
<1>2. CASE UpdateWaits
  <2>1. ShapeInv'
    BY <1>1, <1>2 DEF UpdateWaits, state, IInv, ShapeInv, WellFormed
  <2>2. ASSUME playing PROVE now - startedAt < Duration
    <3>1. Duration \in Nat
      BY <2>2, DurationType DEF IInv
    <3> QED BY <1>2, <2>2, <3>1, DueIsTrueTime DEF UpdateWaits, IInv, ShapeInv
  <2>3. Duration' = Duration
    BY <1>2 DEF UpdateWaits, state, Duration
  <2>4. TimeInv'
    BY <1>1, <1>2, <2>2, <2>3, PlayerAssumption
       DEF UpdateWaits, state, IInv, ShapeInv, TimeInv
  <2> QED BY <2>1, <2>4 DEF IInv
<1>3. CASE UpdateMovesOn
  <2>1. TimeInv' /\ startedAt' \in Nat
    BY <1>1, <1>3, StartStepInv DEF UpdateMovesOn
  <2>2. ShapeInv'
    <3>1. UNCHANGED <<now, saved, steps, playing, finished>> /\ lastUpdate' = now
      BY <1>1, <1>3 DEF UpdateMovesOn
    <3>2. index' \in Nat /\ index' < Len(steps')
      BY <1>3, <3>1 DEF UpdateMovesOn, IInv, ShapeInv
    <3>3. WellFormed'
      BY <3>1, <3>2 DEF IInv, ShapeInv, WellFormed
    <3> QED BY <2>1, <3>1, <3>2, <3>3 DEF IInv, ShapeInv
  <2> QED BY <2>1, <2>2 DEF IInv
<1>4. CASE UpdateFinishes
  BY <1>1, <1>4, ClearedInv DEF UpdateFinishes
<1> QED BY <1>2, <1>3, <1>4 DEF Update

LEMMA NextInv == IInv /\ [Next]_vars => IInv'
<1> SUFFICES ASSUME IInv, [Next]_vars PROVE IInv'
  OBVIOUS
<1>1. CASE Start
  <2>1. PICK p \in Patterns \cup {saved} : Play(p)
    BY <1>1 DEF Start
  <2>2. p \in Seq(Steps)
    BY PlayerAssumption DEF IInv, ShapeInv
  <2> QED BY <2>1, <2>2, PlayInv
<1>2. CASE Stop
  BY <1>2, ClearedInv DEF Stop, PlayNothing, clocks
<1>3. CASE Update
  BY <1>3, UpdateInv
<1>4. CASE Capture
  <2>1. saved' \in Seq(Steps)
    <3>1. <<>> \in Seq(Steps) /\ Rest(steps, index) \in Seq(Steps)
      BY RestType DEF IInv, ShapeInv
    <3> QED BY <1>4, <3>1 DEF Capture
  <2> QED BY <1>4, <2>1 DEF Capture, clocks, state, IInv, ShapeInv, TimeInv,
                            WellFormed, Duration
<1>5. CASE Tick
  BY <1>5, PlayerAssumption DEF Tick, state, IInv, ShapeInv, TimeInv,
                                WellFormed, Duration
<1>6. CASE UNCHANGED vars
  BY <1>6 DEF vars, clocks, state, IInv, ShapeInv, TimeInv, WellFormed, Duration
<1> QED BY <1>1, <1>2, <1>3, <1>4, <1>5, <1>6 DEF Next

LEMMA Inductive == Spec => []IInv
<1> QED BY InitInv, NextInv, PTL DEF Spec

-----------------------------------------------------------------------------
\* The flags agree with the array, and the index is always within it: update()
\* and capturePlayback() never read past its end.
THEOREM InBounds == Spec => []WellFormed
<1>1. IInv => WellFormed
  BY DEF IInv, ShapeInv
<1> QED BY <1>1, Inductive, PTL

\* No step stays longer than its duration and one gap between updates, at any
\* point of the clock's round.
THEOREM Punctual == Spec => []OnTime
<1>1. IInv => OnTime
  BY DueIsTrueTime DEF OnTime, Duration
<1> QED BY <1>1, Inductive, PTL

\* update() never leaves a step before its duration is over.
THEOREM FullLength == Spec => NeverCutShort
<1>1. IInv /\ [Next]_vars
        => [playing /\ Update /\ (index' # index \/ ~playing')
              => now - startedAt >= steps[index + 1].durationMs]_vars
  <2> SUFFICES ASSUME IInv, playing, Update, index' # index \/ ~playing'
               PROVE  now - startedAt >= Duration
    BY DEF Duration
  <2>1. Due
    BY DEF Update, UpdateWaits, UpdateMovesOn, UpdateFinishes, state
  <2> QED BY <2>1, DueIsTrueTime
<1> QED BY <1>1, Inductive, PTL DEF Spec, NeverCutShort

-----------------------------------------------------------------------------
\* A device that is just the value on it.
PlainDevice ==
  /\ \A value, dev : ApplyOutput(value, dev) = value
  /\ \A dev : StopOutput(dev) = FirstDevice

Queue == Rest(steps, index)

\* The device shows the first step of what remains.
ShowInv == device = IF playing THEN steps[index + 1].output ELSE FirstDevice

\* What remains after some steps: all of it, nothing, or a first step and the rest.
LEMMA RestProperties ==
  ASSUME NEW p \in Seq(Steps), NEW i \in Nat
  PROVE  /\ Rest(p, 0) = p
         /\ i >= Len(p) => Rest(p, i) = <<>>
         /\ i < Len(p) => /\ Rest(p, i) # <<>>
                         /\ Head(Rest(p, i)) = p[i + 1]
                         /\ Tail(Rest(p, i)) = Rest(p, i + 1)
<1>1. Len(p) \in Nat
  BY LenProperties
<1>2. Rest(p, 0) = p
  BY SubSeqFull DEF Rest
<1>3. ASSUME i >= Len(p) PROVE Rest(p, i) = <<>>
  BY <1>1, <1>3, SubSeqEmpty DEF Rest
<1>4. ASSUME i < Len(p)
      PROVE  /\ Rest(p, i) # <<>>
             /\ Head(Rest(p, i)) = p[i + 1]
             /\ Tail(Rest(p, i)) = Rest(p, i + 1)
  <2>1. i + 1 \in 1..Len(p) /\ Len(p) \in (i + 1)..Len(p)
    BY <1>1, <1>4
  <2>2. Head(Rest(p, i)) = p[i + 1] /\ Tail(Rest(p, i)) = SubSeq(p, i + 2, Len(p))
    BY <2>1, HeadTailOfSubSeq DEF Rest
  <2>3. Len(Rest(p, i)) = Len(p) - i
    <3>1. i + 1 \in Int /\ Len(p) \in Int /\ \A j \in (i + 1)..Len(p) : p[j] \in Steps
      BY <1>1, LenProperties, ElementOfSeq
    <3> QED BY <1>1, <1>4, <3>1, SubSeqProperties DEF Rest
  <2>4. Rest(p, i) # <<>>
    BY <1>1, <1>4, <2>3, EmptySeq
  <2> QED BY <2>2, <2>4 DEF Rest
<1> QED BY <1>2, <1>3, <1>4

\* What remains of something playable is playable, and so is every pattern.
LEMMA RestPlayable ==
  ASSUME NEW p \in Playable, NEW i \in Nat, p \in Seq(Steps), i < Len(p)
  PROVE  Rest(p, i) \in Playable
<1>1. p # <<>>
  BY EmptySeq
<1>7. PICK q \in Patterns : p \in {Rest(q, j) : j \in 0..(Len(q) - 1)}
  BY <1>1 DEF Playable
<1>2. PICK j \in 0..(Len(q) - 1) : p = Rest(q, j)
  BY <1>7
<1>3. q \in Seq(Steps) /\ Len(q) \in Nat
  BY PlayerAssumption, LenProperties
<1>4. Len(p) = Len(q) - j
  <2>1. j + 1 \in Int /\ Len(q) \in Int /\ \A n \in (j + 1)..Len(q) : q[n] \in Steps
    BY <1>3, LenProperties, ElementOfSeq
  <2> QED BY <1>2, <1>3, <2>1, SubSeqProperties DEF Rest
<1>5. i + j \in 0..(Len(q) - 1)
  BY <1>2, <1>3, <1>4
<1>6. Rest(p, i) = Rest(q, i + j)
  <2>1. /\ j + 1 \in 1..Len(q) /\ Len(q) \in 1..Len(q)
        /\ i + 1 \in 1..(Len(q) - (j + 1) + 1)
        /\ Len(p) \in 1..(Len(q) - (j + 1) + 1)
    BY <1>2, <1>3, <1>4
  <2>2. SubSeq(SubSeq(q, j + 1, Len(q)), i + 1, Len(p))
          = SubSeq(q, (j + 1) + (i + 1) - 1, (j + 1) + Len(p) - 1)
    BY <1>3, <2>1, SubSeqOfSubSeq
  <2>3. (j + 1) + (i + 1) - 1 = (i + j) + 1 /\ (j + 1) + Len(p) - 1 = Len(q)
    BY <1>2, <1>3, <1>4
  <2> QED BY <1>2, <2>2, <2>3 DEF Rest
<1> QED BY <1>5, <1>6 DEF Playable

LEMMA PatternPlayable ==
  ASSUME NEW p \in Patterns
  PROVE  p \in Playable
<1>1. p \in Seq(Steps) /\ p # <<>>
  BY PlayerAssumption
<1>2. 0 \in 0..(Len(p) - 1)
  BY <1>1, EmptySeq
<1>3. p = Rest(p, 0)
  BY <1>1, SubSeqFull DEF Rest
<1> QED BY <1>2, <1>3 DEF Playable

\* What TypeOK asks beyond the shape.
BoundsInv ==
  /\ now <= MaxTime /\ stepStartedAt \in 0..(W - 1)
  /\ steps \in Playable /\ saved \in Playable

LEMMA BoundsInit == Init => BoundsInv
BY PlayerAssumption DEF Init, BoundsInv, Playable

\* A step starts at a reading of the clock.
LEMMA StartStepBounds ==
  ASSUME ShapeInv, NEW p, NEW i, NEW dev, StartStep(p, i, dev)
  PROVE  stepStartedAt' \in 0..(W - 1)
<1>1. W \in Nat \ {0} /\ now \in Int
  BY PlayerAssumption DEF ShapeInv
<1>2. now % W \in 0..(W - 1)
  BY <1>1, DivMod
<1> QED BY <1>2 DEF StartStep, Millis

LEMMA BoundsStep == ShapeInv /\ BoundsInv /\ [Next]_vars => BoundsInv'
<1> SUFFICES ASSUME ShapeInv, BoundsInv, [Next]_vars PROVE BoundsInv'
  OBVIOUS
<1>1. <<>> \in Playable
  BY DEF Playable
<1>2. ASSUME Cleared, UNCHANGED <<now, saved>> PROVE BoundsInv'
  BY <1>1, <1>2 DEF Cleared, BoundsInv
<1>3. ASSUME NEW p \in Playable, PlaySteps(p) PROVE BoundsInv'
  BY <1>3, StartStepBounds DEF PlaySteps, clocks, BoundsInv
<1>4. CASE Start
  <2>1. PICK p \in Patterns \cup {saved} : Play(p)
    BY <1>4 DEF Start
  <2>2. p \in Playable
    BY PatternPlayable DEF BoundsInv
  <2> QED BY <1>2, <1>3, <2>1, <2>2 DEF Play, PlayNothing, clocks
<1>5. CASE Stop
  BY <1>2, <1>5 DEF Stop, PlayNothing, clocks
<1>6. CASE Update
  <2>1. CASE UpdateWaits
    BY <1>6, <2>1 DEF Update, UpdateWaits, state, BoundsInv
  <2>2. CASE UpdateMovesOn
    BY <1>6, <2>2, StartStepBounds DEF Update, UpdateMovesOn, BoundsInv
  <2>3. CASE UpdateFinishes
    BY <1>2, <1>6, <2>3 DEF Update, UpdateFinishes
  <2> QED BY <1>6, <2>1, <2>2, <2>3 DEF Update
<1>7. CASE Capture
  <2>1. ASSUME playing PROVE Rest(steps, index) \in Playable
    BY <2>1, RestPlayable DEF ShapeInv, WellFormed, BoundsInv
  <2>2. saved' \in Playable
    BY <1>1, <1>7, <2>1 DEF Capture
  <2> QED BY <1>7, <2>2 DEF Capture, clocks, state, BoundsInv
<1>8. CASE Tick
  BY <1>8, PlayerAssumption DEF Tick, state, BoundsInv, ShapeInv
<1>9. CASE UNCHANGED vars
  BY <1>9 DEF vars, clocks, state, BoundsInv
<1> QED BY <1>4, <1>5, <1>6, <1>7, <1>8, <1>9 DEF Next

\* Every variable of the player keeps its type; above all it never plays anything but
\* a pattern, what was left of one when it was captured, or nothing.
THEOREM TypeCorrect == Spec => []TypeOK
<1>1. ASSUME IInv, BoundsInv PROVE TypeOK
  <2>1. finished \in BOOLEAN
    BY <1>1, Zenon DEF IInv, ShapeInv, WellFormed
  <2> QED BY <1>1, <2>1, PlayerAssumption DEF IInv, ShapeInv, TimeInv, BoundsInv, TypeOK
<1>2. IInv => ShapeInv
  BY DEF IInv
<1> QED BY <1>1, <1>2, BoundsInit, BoundsStep, Inductive, PTL DEF Spec

\* The queue of the abstract output in terms of the player.
LEMMA QueueIs ==
  ASSUME ShapeInv
  PROVE  /\ ~playing => Queue = <<>>
         /\ playing => /\ Queue # <<>>
                       /\ Head(Queue) = steps[index + 1]
                       /\ Tail(Queue) = Rest(steps, index + 1)
<1>1. steps \in Seq(Steps) /\ index \in Nat /\ Len(steps) \in Nat
  BY LenProperties DEF ShapeInv
<1>2. CASE playing
  <2>1. index < Len(steps)
    BY <1>2 DEF ShapeInv, WellFormed
  <2>2. /\ Queue # <<>>
        /\ Head(Queue) = steps[index + 1]
        /\ Tail(Queue) = Rest(steps, index + 1)
    BY <1>1, <2>1, RestProperties DEF Queue
  <2> QED BY <1>2, <2>2
<1>3. CASE ~playing
  <2>1. index >= Len(steps)
    <3>1. steps = <<>>
      BY <1>3, Zenon DEF ShapeInv, WellFormed
    <3>2. Len(<<>>) = 0
      OBVIOUS
    <3> QED BY <1>1, <3>1, <3>2
  <2>2. Queue = <<>>
    BY <1>1, <2>1, RestProperties DEF Queue
  <2> QED BY <1>3, <2>2
<1> QED BY <1>2, <1>3, Zenon

LEMMA ShowInit ==
  ASSUME Init PROVE ShowInv
BY DEF Init, ShowInv

\* A sequence that is started shows its first step.
LEMMA StartShows ==
  ASSUME PlainDevice, IInv, ShowInv, NEW p \in Seq(Steps), Play(p)
  PROVE  /\ ShowInv' /\ Queue' = p /\ device' = Output!Shown(p)
         /\ startedAt' = now /\ UNCHANGED <<now, saved>>
<1>1. CASE p = <<>> /\ PlayNothing
  <2>1. /\ steps' = <<>> /\ index' = 0 /\ playing' = FALSE /\ startedAt' = now
        /\ UNCHANGED <<now, saved>>
    BY <1>1 DEF PlayNothing, Cleared, clocks
  <2>2. device' = FirstDevice
    BY <1>1 DEF PlayNothing, Quietened, PlainDevice, ShowInv
  <2>3. Queue' = <<>>
    BY <1>1, <2>1, RestProperties DEF Queue
  <2> QED BY <1>1, <2>1, <2>2, <2>3 DEF ShowInv, Output!Shown
<1>2. CASE PlaySteps(p)
  <2>1. /\ p # <<>> /\ steps' = p /\ index' = 0 /\ playing' = TRUE /\ startedAt' = now
        /\ UNCHANGED <<now, saved>>
    BY <1>2 DEF PlaySteps, StartStep, clocks
  <2>2. 0 < Len(p)
    BY <2>1, EmptySeq
  <2>3. device' = p[1].output
    BY <1>2 DEF PlaySteps, StartStep, PlainDevice
  <2>4. Head(p) = p[1] /\ Queue' = p
    BY <2>1, <2>2, RestProperties DEF Queue
  <2> QED BY <2>1, <2>3, <2>4 DEF ShowInv, Output!Shown
<1> QED BY <1>1, <1>2 DEF Play

\* A step that is over makes room for the next one, or for silence.
LEMMA UpdateShows ==
  ASSUME PlainDevice, IInv, ShowInv, UpdateMovesOn \/ UpdateFinishes, UNCHANGED saved
  PROVE  /\ ShowInv' /\ Queue' = Tail(Queue) /\ device' = Output!Shown(Tail(Queue))
         /\ startedAt' = now
<1>1. steps \in Seq(Steps) /\ index \in Nat /\ Len(steps) \in Nat /\ playing
  BY LenProperties DEF IInv, ShapeInv, UpdateMovesOn, UpdateFinishes
<1>2. Tail(Queue) = Rest(steps, index + 1)
  BY <1>1, QueueIs DEF IInv
<1>3. CASE UpdateMovesOn
  <2>1. /\ index + 1 < Len(steps) /\ index' = index + 1 /\ UNCHANGED <<steps, playing>>
        /\ startedAt' = now
    BY <1>3 DEF UpdateMovesOn, StartStep
  <2>2. device' = steps[index + 2].output
    <3>1. (index + 1) + 1 = index + 2
      BY <1>1
    <3> QED BY <1>3, <3>1 DEF UpdateMovesOn, StartStep, PlainDevice
  <2>3. /\ Rest(steps, index + 1) # <<>>
        /\ Head(Rest(steps, index + 1)) = steps[index + 2]
    <3>1. (index + 1) + 1 = index + 2 /\ index + 1 \in Nat
      BY <1>1
    <3> QED BY <1>1, <2>1, <3>1, RestProperties
  <2>4. (index + 1) + 1 = index + 2
    BY <1>1
  <2> QED BY <1>1, <1>2, <2>1, <2>2, <2>3, <2>4 DEF ShowInv, Output!Shown, Queue
<1>4. CASE UpdateFinishes
  <2>1. /\ index + 1 >= Len(steps) /\ steps' = <<>> /\ index' = 0 /\ playing' = FALSE
        /\ startedAt' = now
    BY <1>4 DEF UpdateFinishes, Cleared
  <2>2. device' = FirstDevice
    BY <1>4 DEF UpdateFinishes, PlainDevice
  <2>3. Rest(steps, index + 1) = <<>>
    BY <1>1, <2>1, RestProperties
  <2>4. Queue' = <<>>
    <3>1. <<>> \in Seq(Steps)
      OBVIOUS
    <3> QED BY <2>1, <3>1, RestProperties DEF Queue
  <2> QED BY <1>2, <2>1, <2>2, <2>3, <2>4 DEF ShowInv, Output!Shown
<1> QED BY <1>3, <1>4

\* What capturePlayback() hands out is the queue.
LEMMA CaptureQueue ==
  ASSUME IInv, Capture
  PROVE  saved' = Queue
<1>1. playing => index < Len(steps)
  BY DEF IInv, ShapeInv, WellFormed
<1>2. CASE playing
  BY <1>1, <1>2 DEF Capture, Queue
<1>3. CASE ~playing
  BY <1>3, QueueIs DEF Capture, IInv
<1> QED BY <1>2, <1>3 DEF IInv, ShapeInv

\* Every step of the player is one of the output, or changes nothing of it: what the
\* program calls is a Play, and what update() does an Advance or nothing.
LEMMA OutputStep ==
  ASSUME PlainDevice, IInv, ShowInv, [CallsNext]_<<vars, calls>>
  PROVE  ShowInv' /\ [Output!Next]_(Output!player)
<1> USE DEF Queue
<1>1. CASE (Start \/ Stop) /\ calls' = 1 - calls
  <2>1. PICK p \in Patterns \cup {saved, <<>>} : Play(p) /\ p \in Seq(Steps)
    <3>1. <<>> \in Seq(Steps)
      OBVIOUS
    <3>2. \A p \in Patterns \cup {saved} : p \in Seq(Steps)
      BY PlayerAssumption DEF IInv, ShapeInv
    <3> QED BY <1>1, <3>1, <3>2 DEF Start, Stop, Play
  <2>2. /\ ShowInv' /\ Queue' = p /\ device' = Output!Shown(p)
        /\ startedAt' = now /\ UNCHANGED <<now, saved>>
    BY <2>1, StartShows
  <2>3. Output!Play
    BY <1>1, <2>2 DEF Output!Play, Output!Show
  <2> QED BY <2>2, <2>3 DEF Output!Next
<1>2. CASE Update /\ UpdateWaits /\ UNCHANGED calls
  BY <1>2 DEF Update, UpdateWaits, state, ShowInv, Output!player
<1>3. CASE Update /\ ~UpdateWaits /\ UNCHANGED calls
  <2>1. UpdateMovesOn \/ UpdateFinishes
    BY <1>3 DEF Update
  <2>2. UNCHANGED <<now, saved, calls>> /\ playing /\ Due
    BY <1>3, <2>1 DEF Update, UpdateMovesOn, UpdateFinishes
  <2>3. /\ ShowInv' /\ Queue' = Tail(Queue) /\ device' = Output!Shown(Tail(Queue))
        /\ startedAt' = now
    BY <2>1, <2>2, UpdateShows
  <2>4. Queue # <<>> /\ now - startedAt >= Head(Queue).durationMs
    BY <2>2, QueueIs, DueIsTrueTime DEF IInv, Duration
  <2>5. Output!Advance
    BY <2>2, <2>3, <2>4 DEF Output!Advance, Output!Show
  <2> QED BY <2>3, <2>5 DEF Output!Next
<1>4. CASE Capture /\ UNCHANGED calls
  <2>1. saved' = Queue
    BY <1>4, CaptureQueue
  <2>2. UNCHANGED <<now, steps, index, playing, device, startedAt, calls>>
    BY <1>4 DEF Capture, clocks, state
  <2> QED BY <2>1, <2>2 DEF ShowInv, Output!Next, Output!Capture
<1>5. CASE Tick /\ UNCHANGED calls
  <2>1. /\ now < MaxTime /\ now - lastUpdate < MaxGap /\ now' = now + 1
        /\ UNCHANGED <<steps, index, playing, device, startedAt, saved, calls>>
    BY <1>5 DEF Tick, state
  <2>2. ASSUME playing
        PROVE  now - startedAt < Head(Queue).durationMs + MaxGap
    <3>1. Head(Queue) = steps[index + 1]
      BY <2>2, QueueIs DEF IInv
    <3>2. Duration \in Nat /\ MaxGap \in Nat
      BY <2>2, DurationType, PlayerAssumption DEF IInv
    <3>3. now - startedAt < Duration + MaxGap
      BY <2>1, <2>2, <3>2 DEF IInv, ShapeInv, TimeInv
    <3> QED BY <3>1, <3>3 DEF Duration
  <2>3. Queue # <<>> => now - startedAt < Head(Queue).durationMs + MaxGap
    BY <2>2, QueueIs DEF IInv
  <2>4. Output!Tick
    BY <2>1, <2>3 DEF Output!Tick
  <2> QED BY <2>1, <2>4 DEF ShowInv, Output!Next
<1>6. CASE UNCHANGED <<vars, calls>>
  BY <1>6 DEF vars, clocks, state, ShowInv, Output!player
<1> QED BY <1>1, <1>2, <1>3, <1>4, <1>5, <1>6 DEF CallsNext

\* A player whose device is just the value on it implements the output of a world
\* whose clock never wraps, for every pattern and every order of play(), stop(),
\* capturePlayback() and update(): update() goes through what the program started
\* step by step, each for its duration, and nothing else changes the output.
THEOREM PlayerIsOutput ==
  ASSUME PlainDevice PROVE CallsSpec => PlaysPatterns
<1>1. CallsInit => ShowInv /\ Output!Init
  <2> SUFFICES ASSUME CallsInit PROVE ShowInv /\ Output!Init
    OBVIOUS
  <2>1. Rest(steps, index) = <<>>
    <3>1. <<>> \in Seq(Steps) /\ 0 \in Nat /\ steps = <<>> /\ index = 0
      BY DEF CallsInit, Init
    <3>2. Rest(<<>>, 0) = <<>>
      BY <3>1, RestProperties
    <3> QED BY <3>1, <3>2
  <2> QED BY <2>1, ShowInit DEF CallsInit, Init, Output!Init
<1>2. IInv /\ ShowInv /\ [CallsNext]_<<vars, calls>>
        => ShowInv' /\ [Output!Next]_(Output!player)
  BY OutputStep
<1>3. CallsSpec => Spec
  <2>1. CallsInit => Init
    BY DEF CallsInit
  <2>2. [CallsNext]_<<vars, calls>> => [Next]_vars
    BY DEF CallsNext, Next
  <2> QED BY <2>1, <2>2, PTL DEF CallsSpec, Spec
<1> QED BY <1>1, <1>2, <1>3, Inductive, PTL DEF CallsSpec, PlaysPatterns, Output!Spec
=============================================================================
