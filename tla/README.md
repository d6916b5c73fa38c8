# ArduinoCommon in TLA+

ArduinoCommon is a library for Arduino and ESP32 programs: a configuration
store in EEPROM, players of timed patterns for a motor and a buzzer, timers,
network clients and a number of small devices.  A program makes global objects
of these classes, calls their `begin()` from `setup()`, and calls their
`update()`, `healthCheck()` or `connectedAction()` from `loop()`, again and
again.  There are few threads.  What makes the library hard to get right is
what surrounds it: a clock of 32 bits that wraps, a supply that goes at any
moment, memories and networks that fail, and programs that call the operations
in an order nobody wrote down.

Sources are named below relative to `src/src/`, examples to `src/examples/`.

## The system's parts

| Part | State it keeps | Operations | What makes it hard | What makes it correct |
|---|---|---|---|---|
| `EEPROMStore.h`: `EEPROMStore<T>` over `EEPROMSession` | the structure `data`; in the memory a header of magic and CRC, and the structure | `begin`, `save`, `forceSave`, `reset`; the program assigns `data` | power loss between two writes; `EEPROM.begin()` and `commit()` may fail; two kinds of memory | only values this store wrote are loaded; a finished write stays; the answers are true |
| several stores | one buffer for all, sized by each `begin()` | the same, `nextAddress` | a store may lie beyond the buffer another one asked for | no store disturbs another |
| `EEPROMLayoutStore` | a header that tells the layout | `read`, `write`, `isSectionCompatible` | the header is put before what it describes; updates of the program | a configuration is only used in its own layout |
| `TimedPatternPlayer` | array, length, index, start of the step, two flags | `play`, `stop`, `update`, `capturePlayback` | the clock wraps while a step lasts; play during play; capture and resume | each step for its time, in order, then silence |
| `Vibrator` | PWM flag, pin, channel | the player's, and `on`, `off`, `setPower`, `isOn` | two ways of driving one pin; calls by hand during a pattern | the motor does what the step or the last call says |
| `Buzzer` | begun flag, the tone | the player's, and `playTone`, `mute` | notes out of range; calls by hand | the note of the step sounds, silence after the last |
| `Speaker` (a `Buzzer`) | a requested sound, output mode, amplifier, volume | `requestWav`, `updateWav`, `setVolume`, ... | the request comes from another task, in three stores | the last sound requested is played, whole |
| `Timer` | start, stop, cycle, last cycle seen | `startTimer`, `stopTimer`, `getTime`, `setCycleTime`, `isCycleTime` | wrap of the clock; zero as a mark | the time is right; each cycle is told once |
| `WiFiESP32` | none of its own | `begin`, `healthCheck` | blocking retries; a link lost and found inside one call | the link comes back; the program learns that it is gone |
| `TCPClientESP32` | a flag, a timer | `connectedAction`, `disconnectedAction`, `sendString`, `readString` | the connection breaks unseen; two functions reconnect | it connects, reconnects, and not too often |
| `UDPClientESP32` | a flag | `connectedAction`, `disconnectedAction`, `send` | a failed `begin()` | the port is opened again after an outage |
| `MQTTClientESP32` | time of the last attempt, topics, callbacks | `healthCheck`, `subscribe`, `publish`, `onMessage` | widths of the time and size arithmetic; loss of subscriptions | topics survive reconnections; attempts are spaced and made; messages go out |
| `LinearChanger`, `fix.hpp` | present and target value, two rates | `update`, setters | fixed point rounding; signs | linear motion, never past the target |
| `ServoESP32` | a changer, a timer, a PWM channel | `setServoAngle`, `setTargetAngle`, `loop`, copies | copies begin elsewhere than their original | the pulse is that of the angle; the target is reached |
| `Filter` | windows and running values | `movingAverage`, `movingMax`, `firstFiltering`, setters | ring buffers, a sum that is never formed anew | the output is that of the window |
| `NeoPixelArrayBase` | colours, change flag, hue | fills, `rainbow`, `update`, colour arithmetic | a flag consumed on reading; one `show()` for all arrays | no change is left unshown; a colour is as bright as asked |
| `InfraredRemote` | a request, received data | `requestSend`, `drive`, `recieveIR` | a request replaced | the last request is sent, once |
| `Menu` | last mode | `menuApp`, `isFirstAccess` | a mode read uninitialised | the chosen function runs |
| `Log`, `SleepHandler`, `Singleton`, `MacUtils` | little | output, sleep | - | - |

Parts interact by calls inside `loop()`: a `Vibrator` or `Buzzer` *is* a
player whose two virtual functions drive a pin; a `TCPClientESP32` owns a
`Timer`; a `ServoESP32` owns a `Timer` and a `LinearChanger`; the network
examples call `connectedAction()` or `disconnectedAction()` by what
`WiFiESP32::healthCheck()` answers; all stores of a program share the one
`EEPROM` object; all arrays of LEDs share one `FastLED`.  `Speaker` is the only
class that expects a second task.

`PROJECT.json` lists the hazards line by line, with the properties that watch
over each, and says of every part whether it is modelled.

## Modules

### Configuration

`EEPROMStore` is one store.  One action is one early-return path of an
operation, or one byte written: `Begin`, `SaveSkips`, `SaveWrites`,
`ForceSave`, `Reset` open a call, `PutCell` writes one byte of the two puts,
`Commit` or `CommitFails` ends it, and `PowerLoss` may come between any two.
The constant `Buffered` chooses between ESP32 or ESP8266, where `put()`
changes a buffer (`image`) and `commit()` makes it durable, and AVR, where
`put()` changes the cells (`durable`) themselves.  A cell is a byte, the unit an
AVR writes; the magic and the CRC take two each, and a power loss may leave half
of either.

The CRC is a function of the structure given as a constant, because which
structures collide is data.  Nothing is assumed of it.  What the store promises
is said up to what the CRC can tell (`Alike`): behind a buffer, what loads is a
value that was being kept, or what the cells held at first if that had this
store's header; on AVR, where a header may be half of one value's and half of
another's, it is a structure each of whose CRC bytes is one that was written.
`Known` are the values being kept: the last one written to the end, and those
whose writing began since.

Calls before a successful `begin()` are part of the model.  On AVR they work as
after it.  On ESP32 they are actions of their own (`SaveUnmounted`,
`ResetUnmounted`): `put()` and `commit()` do nothing then, and the header that
`save()` compares with is what the stack held, a nondeterministic answer.

`ConfigCell` says what a program expects of the store: one value, replaced by
another, atomically or not, and an answer that it need not be written again only
when one that passes for it is there.  `EEPROMStore` implements it
(`ImplementsCell`) under the mapping that takes what `load()` would accept for
the stored value.

`EEPROMStores` is several stores behind one another in one buffer.  Each
operation is whole and succeeds, as how a single one fares is `EEPROMStore`'s
subject; what is looked at is the size each `begin()` gives the buffer, what
lies beyond it, and whose cells a write reaches.  `keeps` leaves open whether
the platform's library preserves what lies beyond the buffer.

`EEPROMLayout` is `EEPROMLayoutStore` as the example `LayoutMetadata` uses it:
a header is read field by field, and if it is another program's it is put anew,
one field at a time, and the configuration after it.  Power may go at any step,
and the device may come back with another program; behind a buffer the commit may
fail, and the program runs on as if it had not.

`EEPROMDump` is the arithmetic of `EEPROMSession::dump()`: which addresses its
rows show.

### Patterns and sounds

`TimedPatternPlayer` is the player, over a clock `now` that the code sees modulo
`W`.  `_steps` and `_length` are one sequence, empty for `nullptr`; a captured
pattern is the rest of it.  The two virtual functions are operator constants.
`MaxGap` bounds the time between two calls of `update()`; a step's duration and
one gap must fit the clock (`PlayerAssumption`), which for 16 bit durations and
a 32 bit clock allows gaps of almost 50 days.

`PatternOutput` is what a listener expects, in a world whose clock never wraps:
a queue of steps, the first of them audible, each for its time.  It moves on by
itself in one way only (`Advance`): when the time of the first step is over, to the
next one, or to silence after the last.  Anything else begins with a call of the
program (`Play`), and then a whole pattern or the rest that was saved of one.  So
that no step of `update()` can pass for a call, `PlayerCalls` adds to the player
one history variable, `calls`, which turns over with each `play()` and `stop()` and
with nothing else, and the abstract `Play` turns it over too.  With a device that is
just the value on it, the player implements `PatternOutput` (`PlaysPatterns`).

`Vibrator` and `Buzzer` are instances of the player whose device is a motor or
a buzzer.  The calls the program makes by hand are further actions.  The motor's
pin level, the PWM flag, the attachment of the channel and its duty are
separate, so that a level written to an attached pin shows; what turns the
motor is computed from the wiring alone (`Drive`).

`Speaker` is what `Speaker` adds to a `Buzzer`: the WAV files.  The task that
requests one is `WriteAudio`, `WriteLength`, `SetFlag`, one store each; the task
that plays takes the flag down, reads the two fields in an order the compiler
chooses, takes the pin (`StartWav`), and leaves `playWav()` again by the way its file
or the other task has it: not a WAV file (`RejectWav`, for the three checks of its
first chunk), no data within the length (`MissData`), a new request after a sample
(`Sample`), or the end (`EndWav`).  `Begin` is the program's own call of `begin()`.

### Time, motion and filters

`Timer` is the stopwatch and the cycle trigger.  `LinearChanger` is a value in
fixed point that an update carries towards a target; floats are counted finer
than a fix, so that a conversion can lose something.  `ServoESP32` EXTENDS it by
the pulse and by what copies and assignments do.  `Filters` holds the three
filters; the history variables are what was put into them.

### Network

`WiFiESP32` is `begin()` and `healthCheck()` turn by turn of their polling
loops, while the driver joins, loses the link and looks for it again; between the
look that finds no link (`Unhealthy`) and the disconnection that follows
(`Disconnect`) the link may come up.  A turn of a polling loop, the last one
included, takes time.
`TCPClientESP32` contains the part of `Timer` that it uses, over a clock that
goes round for ever, so that its liveness does not end with a bound on time.
`UDPClientESP32` is a flag and a socket that may fail to open, which is then told
from one that is closed (`refused`).  `NetworkLoop`
composes the three into the program of the examples: `healthCheck()`, and what
the clients do upon its answer, with the access point and the server coming and
going between any two steps of it, and a restart where `setup()` makes one.

`MQTTClientESP32` keeps the widths of its arithmetic: a signed clock and a
narrow time stamp, where the comparison may come out either way if the signed
subtraction overflows, and a message size of 16 bits.  Whether the connection
stands (`stands`) is told from what the library knows of it (`connected`): it may
notice a loss late.  `publish()` has the library's buffer and the streamed path for
what does not fit, which ends at a zero byte; the connection may go in the middle of
it.  `refused` are the topics whose subscription the library last refused on the
present connection.

### Lights, remote and menu

`NeoPixelArray` is several arrays with their change flags over one `FastLED`;
`NeoPixelColors` the integer arithmetic of colours.  `InfraredRemote` is the
outstanding request and the received frame.  `Menu` is a table, its keys and
numbers; where nothing is chosen, the mode is any number.

### Instances

`Outputs` and `Parts` put together the small components that share nothing: a
variable `part`, chosen at the start, says which one a behaviour is about, and
the others rest in one state, so that the states add up and do not multiply.  A
property of such a module is the component's own under that condition.  Their
constants are the components', renamed where two would clash; the assumptions
on them are collected in `OutputsAssumption` and `PartsAssumption`.

`MCEEPROMStore`, `MCTimedPatternPlayer`, `MCOutputs` and `MCParts` define the
values of constants that a configuration cannot write down: sequences, records,
functions, negative numbers.

`*_proofs` modules and `Clocks` hold the theorems.  Operators named as mutants
are deliberate errors next to the definition they would replace; they show that
a property notices.

## Runs

| Run | States | Instance | What it shows |
|---|---|---|---|
| `EEPROM_avr` | 64,543 | two binary cells of data behind a header of four, a CRC that differs in both bytes, cells new or of a foreign device, 3 power losses, calls before `begin()` | `RecoversKnown`: never a mixture; `ConfirmedSurvives`; `AnswerHolds`; `CellsComeBack`; `ImplementsCell` |
| `EEPROM_esp` | 62,625 | the same, buffered, a CRC that two structures share, `begin()` and `commit()` failing at will, 2 power losses, cells also of another store | the three safety properties (`KeepsItsPromises`); an atomic cell while buffer and flash agree |
| `Player` | 23,958 | patterns of 1 and 3 steps, one of no duration; clock of 8, 13 instants, gaps to 3 | `OnTime`, `NeverCutShort`, `StepsEnd`, `WellFormed`, `PlaysPatterns` |
| `Outputs` | 193,223 | motor patterns with full power, PWM, pause and over 100 %; melodies with both ends of the range, a rest and notes out of it; two WAV files and one that is none; two arrays of LEDs; a menu with a function twice; three frames | `MotorObeys`, `BuzzerObeys`, `TornOnlyDuringRequest`, `SpeakerRestores`, `LightsHold`, `ChoiceRuns`, `LastRequestServed` |
| `Network` | 101,004 | 3 polls, 2 tries, clock of 7, interval 3, a port that may be refused | `LostLinkClosesAll`, `FollowsTheAir`, `EventuallyServed` |
| `Parts` | 192,161 | timer: clock of 8 over 18 instants, cycles 3 and 4; motion: fixed point of 3 bits, one rate that rounds to nothing; filters of 3; three stores, the last past the first one's buffer; three layouts; TCP: clock of 12, interval 4; MQTT: clock of 32, stamp of 8, subscriptions that are refused | `TimerKeepsTime`, `MovesLinearly`, `TargetIsReached`, `FiltersTrue`, `StoresKeepApart`, `LayoutHolds`, `FlagMatchesSocket`, `ActionsAreSpaced`, `StartedConnects`, `AllResubscribed`, `PublishGoesOut`, `TriesInFirstHalf`, `SpacedWhileNarrow` |
| `EEPROM_commit_lost` | | a commit fails | `save()` answers true and nothing is stored |
| `EEPROM_other_store` | | AVR over the cells of a store with another magic | a power loss after the magic is written makes the other's structure load as one's own |
| `TCPClient_never_connects` | | a fresh client, a server that accepts | `connectedAction()` never makes the first attempt |
| `MQTT_interval` | | beyond the 16 bit time stamp | two attempts within one interval |
| `Filter_moving_max` | | a window of three | the moving maximum is not that of the window, but below or above it |
| `Network_dead_socket` | | the program of `Network`, an access point and a server that stay | a connection that broke is never replaced, as the flag is all the client looks at |

Each passing run but `EEPROM_esp`, whose module is that of `EEPROM_avr`, also
checks the type invariant of its module.

Two cells of data are enough for every way two values can mix, since a mixture
has an old part and a new part; three losses allow a write interrupted, the
repair by `begin()` interrupted, and one more.  The clocks wrap at least once
in every instance, inside a step, a watch and a cycle.  Two polls of a waiting
loop would be enough for a link found at the first, later, or never; there are
three.  Two tries make `begin()` retry once and then restart.  Three stores give
one that every buffer covers, one that lies behind the first, and one beyond
the first one's buffer.  Three layouts let an update be cut off and followed by
a third program.  A window of three tells the newest, the oldest and another
apart.  The fixed point of three bits rounds in each of its conversions, and has
one rate too slow to move anything.

Bounds that are not the code's are named: `MaxLosses`, `MaxTime`, `MaxUpdates`.
Where an instance ends at `MaxTime` the update or poll actions stay enabled, so
deadlock is checked everywhere.

### Fairness

- `EEPROMStore`: after each reset the program calls `begin()` in the end, whatever it
  calls before (strong fairness, as another call may be open), and a call that is
  open runs to its end; both are just the processor going on.
- `TimedPatternPlayer` and `TCPClientESP32`: `loop()` goes on calling the
  periodic function, and time goes on.  So for the servo's `loop()`, the
  speaker's `updateWav()` and the remote's `drive()`.
- `MQTTClientESP32` (`MQTT_interval`): `loop()` goes on calling `healthCheck()`.
- `Speaker`: a task that began `requestWav()` finishes it.  It need not begin.
- `NetworkLoop`: the program goes on.  A program that may send again and again
  does send (the examples do in every turn), and a driver that may join the
  access point during one wait after another does join during one; both are
  strong fairness, as the chances come and go.  Nothing is promised of the
  access point or the server; the properties say for themselves when they are
  there for good.

### Where the code departs from what it says

The six violation runs above; `PROJECT.json` quotes the lines on both sides.
Further departures show as conditions in the properties, which fail without
them, and in the models:

- `AnswerHolds`: after a failed commit, `save()` compares with the buffer and
  answers that nothing changed, though nothing was stored; and a changed structure
  with the CRC of the one that is there is taken for unchanged
  (`EEPROMStore.h:489-493`).
- `RecoversKnown`: on AVR the header may be half of one value's and half of
  another's, so that what loads is told from what was written by single bytes of
  the CRC only (`EEPROMStore.h:509`).
- `begin()` answers false without setting the defaults when `EEPROM.begin()`
  fails (`EEPROMStore.h:464`; line 461 says that false means defaults).
- `StoresKeepApart`: where the library does not keep what lies beyond the
  buffer, the `begin()` of a store at a low address drops what those behind it
  have stored; and a store begun before one at a lower address ends up with no
  room in the buffer.
- `RunsWithOwnLayout`: on AVR, a power loss between the first byte of a header and
  the configuration leaves a header that may read as a program's, the interrupted
  one or a third, whose configuration is not there.
- Buzzer's `FollowsStep`: a note below 59 or above 109 leaves the last one
  sounding (`Buzzer.cpp:61`).
- `TornOnlyDuringRequest`: a sound may start with another's length while a
  request is under way (`Speaker.cpp:82`).
- `MeasuresTime`: a watch stopped at reading zero runs on (`Timer.cpp:77`).
- `TellsEachCycle`: the first poll, the poll after `setCycleTime()`, and polls
  after a wrap of the clock in the middle of a cycle may tell a cycle that did
  not come (`Timer.cpp:55-58`).
- `ActionsAreSpaced` speaks of `connectedAction()` only: `sendString()` connects
  whatever the interval (`TCPClientESP32.cpp:82`).
- `EventuallyServed` is about the sockets, not the flags, and says what brings them
  back: a connection comes, and comes again, unless it broke without a turn of
  `loop()` hearing of it, and a port unless it was refused, as `connectedAction()`
  sets its flag whatever `begin()` answers (`UDPClientESP32.cpp:43`); and after a turn
  that was told of the loss, both are asked for again.  What it excepts of the
  connection is the subject of `Network_dead_socket`.  It needs the program to go on
  sending, since `sendString()` is what makes the first connection of a client.
- `SettingsKept`: a volume set before the first update is replaced by the initial
  one (`Speaker.cpp:121`).
- `TriesInFirstHalf`: from 2^31 ms on, `millis()` reads as negative and no
  attempt is due (`MQTTClientESP32.cpp:80`).
- `AllResubscribed`: a topic whose subscription was refused is missing until the next
  connection, as `reconnect()` drops what `subscribe()` answers
  (`MQTTClientESP32.cpp:63`).
- `PublishGoesOut`: a streamed payload ends at its first zero byte, and the
  stream's answer is true without a connection, or when it is lost on the way.
- `ChangesLinearly` and `Turns`: a rate that a cycle rounds to nothing in fixed
  point never moves the value.
- `PulseFollows`: a servo just constructed, copied or assigned takes itself to
  be at its target zero without having been driven there, and a copy moves the
  original's channel.  Its cycle is what `getCycleTime()` answers, which rounds the
  seconds it is kept in to a whole number: with the usual cycles of some
  milliseconds that is zero, and the copy never moves (`LinearChanger.cpp:244`;
  `TargetIsReached` excepts it).
- `StaysInRange` holds for a low pass, but as its product rounds down, it may
  rest below an input that is held for ever.
- `ShownWhenQuiet`: a program that calls `isChanged()` itself takes the change
  from `update()`; and before the first `show()` nothing is on the LEDs.

## Theorems

TLC checks the instances above; the theorems hold for every value of the
constants that the named assumptions allow.  All are proved for specifications
without fairness.  Every safety property that a passing run checks, invariant,
action property or refinement, is a theorem.

What is assumed of the constants is named in the modules (`StoreAssumption`,
`PlayerAssumption`, `NetworkAssumption`, `PartsAssumption`, `OutputsAssumption`)
and evaluated by the runs.  Two theorems assume more, and say so:

- `PlayerIsOutput`: the device is just the value on it (`PlainDevice`).
- `AttemptsSpacedEarly`: stamp and interval are below half a round of the clock
  (`FarBelow`: 2^16 and some seconds against 2^32).

### Arithmetic and induction

`Clocks` holds what the others need of numbers.  `ClockDifference`: unsigned
subtraction of two readings of a wrapping clock is the time between them, if less
than one round has gone; `ClockDifferenceMod` says the same up to whole rounds,
`ClockTicks` how the difference grows, `ClockBelow` that a clock in its first
round shows the time.  They rest on division with remainder (`DivMod`,
`ModUnique`, `Cancel`), as `QuotientGrows` and `QuotientBetween` do.

The library's induction theorems take an operator, which the provers cannot
instantiate.  `InductionTo` is induction over a set of numbers, proved from the
least element of a non-empty set (`LeastNumber`).  With it two recursive functions
of the models are shown to be what their definitions say: the addresses of the
stores (`AddressExists`, `AddressIs`) and the sum of a filter's window
(`SumsExist`, `WindowSumIs`), from which `SumMovesOn` tells what the sum of a
window becomes when one input leaves and another comes.

### The store and the player

`EEPROMStore_proofs`:

- `TypeCorrect`, `ConfirmedSafe`, `Recovery`, `AnswersAreTrue`, and their
  conjunction `PromisesKept`, which is what the buffered run checks.  None is
  inductive alone.  The invariant adds what holds in the middle of a write
  (`WriteInv`: the first k - 1 cells are those of the new encoding) and what the
  cells may hold at all (`CellsInv`).  The crucial case is the last cell of a put
  on AVR, where a half-written image becomes the new value; the other cases move
  an image that fails `load()` to another one that does, or to one the CRC cannot
  tell from a value that was being written (`Alike`).  Nothing is assumed of the
  CRC or of what the cells held at first.
- `StoreIsCell`: `ToldInv` adds that a mounted store rests on an image that loads.
  With it each step is one of `ConfigCell`'s or none.

`TimedPatternPlayer_proofs`:

- `TypeCorrect`, `InBounds`, `Punctual` and `FullLength`.  `ClockDifference` turns
  the comparison in `update()` into one of true times (`DueIsTrueTime`).  The
  invariant adds that the step was not over at the last update, which bounds the
  time since its start by its duration and one gap, hence below one round.
- `PlayerIsOutput`: initial states and steps of the player with its history of calls
  (`PlayerCalls`) are those of `PatternOutput`, with the output what the current step
  says (`ShowInv`).  A step of `update()` is an `Advance` or none, since `calls` stays.

`NetworkLoop_proofs`: `TypeCorrect` and `LossClosesAll`.  The invariant relates the
place in `loop()` to what `healthCheck()` answered (`ProgramInv`) and the flags to
the sockets (`ClientsInv`).

### Devices and parts

The theorems about `Outputs` and `Parts` are proved component by component.  A
behaviour stays about the component it began with (`AboutStays`, `AboutAlways`), its
steps are then that component's own steps (`MotorAlone`, `ClientAlone`, ...), and an
invariant of the component is carried by its own actions (`MotorStep`, ...).

`Devices_proofs`, of the devices that play:

- `MotorIsObedient`: `MotorInv` says that the PWM flag is the channel's attachment
  (`MotorFit`) and that what turns the motor is what the current step asks, one
  lemma per call (`MotorBegins`, `MotorSwitches`, `MotorSets`): each leaves the
  motor as it should whatever it was before.  `BuzzerIsObedient` is alike.
- `TornNotForLong`: `RequestInv` relates the requester's place among its three
  stores to what `loop()` has read of them.  Between two requests file and length
  belong together; a reading that is torn has its request still to come.
- `SpeakerGivesBack`: the pin follows from the place in `loop()` (`PinInv`); the first
  update sets the volume, the first `begin()` the amplifier, and nothing else undoes
  what the program set (`SettingsInv`).

`Outputs_proofs`, of the lights and the menu, and the types of all:

- `LightsAreRight`: for an array without a noted change, the LEDs show its colours
  (`Quiet`), through each of its calls and the others' updates.  The arithmetic of
  colours is by rounding: `AsBrightAsAsked`, `ComplementUndone`.
- `ChoiceIsRun`: `NumberOf` and `ShortcutMode` find the entry of a mode in a table in
  which keys and functions may occur twice.
- `OutputsTyped`.

`Clients_proofs`, of timer and clients:

- `TimerIsRight`: the two times are readings of the clock (`WatchInv`), and `pastTime`
  is the cycle of the last poll (`CycleInv`).  `CycleOfRound` and `CycleComesAround`
  compare the numbers of two cycles before and after a round: a poll less than a
  round after the last one, by at least a cycle, cannot find the same number again.
- `FlagIsTrue` and `Spaced`: the timer shows no more than the time since the last
  failure as long as that is below the interval (`ClientSpacingInv`); `ClockTicks`
  carries it over the wrap.
- `TopicsComeBack`, `MessagesGoOut`; `TriesAgain` and `AttemptsSpacedEarly`, from what
  the signed reading of the clock is (`SignedReading`) and that the stamp is a
  failure's time, or zero after a success (`StampInv`, `BrokerSpacingInv`).

`Parts_proofs`, of the parts without a clock, and the types of all:

- `LayoutIsRight`: the header's fields before the one to be put are the program's
  (`HeaderInv`), and durable cells whose header is some program's hold that program's
  configuration, but for an AVR cut off inside the header (`DurableInv`).  Of a dump,
  the rows so far show what lies before the address, each byte once (`DumpInv`).
- `MovesAreLinear`: one update adds one step to a way of n steps, without passing the
  target (`ChangerUpdate`); `RateOnTheWay` says that the rate `getDelta()` takes,
  which compares with the value of the moment, is the one of the start until the
  target is reached, zero crossed or not.  For the pulse, an angle that was checked
  is in the limits as a fix too (`AngleToFix`, `PulseInRange`).
- `StoresAreApart`: each store's cells hold nothing of another (`Own`), the buffer shows
  what the flash holds (`BufferInv`), and a saved value is whole in the flash
  (`SavedInv`), unless the library drops what a buffer does not reach.  That the areas
  do not overlap is `AreasApart`.
- `FiltersAreTrue`: the ring buffer is the window in another order (`SlotOf`,
  `AverageInv`); a new maximum stays in its slot for a whole window (`MaximumInv`);
  a step part of the way stays within the range (`PartOfTheWay`, `PassInv`).
- `PartsTyped`.

### Only model-checked

The liveness properties, which are out of the provers' reach: `CellsComeBack`,
`StepsEnd`, `StartedConnects`, `EventuallyConnects`, `FollowsTheAir`,
`EventuallyServed`, `TargetIsReached` and `LastRequestServed`.  And the six
violations, each of which is one behaviour.

## Not modelled

- The calls of MQTT's message callbacks.  The walk over them changes nothing in
  the client; a callback that registers another one moves the vector that is
  being walked, and what happens then is undefined, so that a model would have
  to allow everything.
- The field and byte accessors of `EEPROMLayoutStore`, and the text of a dump:
  copying and formatting.
- FastLED's overall brightness, and programs that write through `colors()`, past
  the change flag.
- `Log` (output; its level is set once), `SleepHandler` (calls of the platform,
  no state), `Singleton` and `MacUtils` (a language feature, a formatting), the
  frequency table and the WAV samples (data), the release script.
- The examples other than `TCPClientESP32`, `UDPClientESP32`, the `setup()` of
  `MQTTClientESP32`, `LayoutMetadata` and `MultipleStores` show one call of a
  component each.

Excluded by assumptions, because the code gives no result worth a property
there: negative rates of a changer, products that overflow a fix, stores whose
end does not fit 16 bits, a timer with a cycle of zero and `rainbow()` with one,
a WAV file with a sample rate of zero, and a `session.begin()` that fails in
`LayoutMetadata`.  `calcTC()` is the set of gains it may return.

## What is left

- The store and several stores as one composition, with failing commits among
  several stores; `EEPROMStores` could then implement one `ConfigCell` a store.
- The network program with its `Timer` as a composition of `Parts`' client, so that
  `ActionsAreSpaced` would hold of the whole loop.
- The steps that `TargetIsReached` and `StepsEnd` need besides fairness: that an
  update comes nearer to its target, and a poll to the end of its step.
- Liveness of the MQTT client, which needs a clock without an end.
