---------------------------------- MODULE Parts ----------------------------------
(***************************************************************************)
(* The parts that others are built from, and the clients on their own, put *)
(* side by side.  They share nothing but the names of a clock and a        *)
(* stopwatch, so that a behaviour is about one of them, and the others     *)
(* rest.                                                                   *)
(***************************************************************************)
EXTENDS Integers, Sequences

\* What each part is a matter of; see the part's own module.
CONSTANTS
  TimerW, TimerBoots, CycleTimes, TimerMaxGap, TimerMaxTime,
  FixScale, Fine, Second, Time, MaxUpdates, Rates, Targets,
  Angles, Limit, PulseOffset, PulseRate, PulseUnit,
  FilterSize, FilterScale, Gains, Inputs,
  Widths, StoreHeader, Slack, StoresA, Values, Default, NoValue,
  Layouts, NoLayout,
  DumpA, RowSize, Sizes, Starts, Lengths,
  ClientW, ClientInterval, ClientMaxGap, ClientBoots, Sends, Hangs,
  Topics, BrokerW, BrokerV, BrokerInterval, BrokerMaxTime, SubscribeMayFail,
  BufferSize, MessageHeader, Messages

VARIABLES
  part,        \* the part a behaviour is about
  now, startTime, stopTime, pastTime, timerCycle, running, began, ended, lastPoll,
  synced, fired,
  present, target, increase, decrease, cycleTime, from, updates,
  pulse, angVel, driven,
  kind, data, at, sum, out, lpf, tc, recent, seen,
  size, buffer, flash, keeps, begun, grew, saved,
  program, direct, step, memory, durable, used, torn,
  range, address, rows,
  millis, tcpFlag, socket, server, gap, age,
  lastReconnectAttempt, connected, stands, subscribedTopics, held, published,
  lastFailure, refused

watch   == <<startTime, stopTime>>
timer   == <<pastTime, timerCycle, running, began, ended, lastPoll, synced, fired>>
changer == <<present, target, increase, decrease, cycleTime, from, updates>>
servo   == <<pulse, angVel, driven>>
filter  == <<kind, data, at, sum, out, lpf, tc, recent, seen>>
stores  == <<size, buffer, flash, keeps, begun, grew, saved>>
layout  == <<program, direct, step, memory, durable, used, torn>>
dump    == <<range, address, rows>>
client  == <<millis, tcpFlag, socket, server, gap, age>>
mqtt    == <<lastReconnectAttempt, connected, stands, subscribedTopics, held,
             published, lastFailure, refused>>
vars    == <<part, now, watch, timer, changer, servo, filter, stores, layout, dump,
             client, mqtt>>

Timer == INSTANCE Timer WITH
  W <- TimerW, Boots <- TimerBoots, MaxGap <- TimerMaxGap, MaxTime <- TimerMaxTime,
  cycleTime <- timerCycle

Servo == INSTANCE ServoESP32 WITH Scale <- FixScale

Filters == INSTANCE Filters WITH Size <- FilterSize, Scale <- FilterScale

Stores == INSTANCE EEPROMStores WITH HeaderSize <- StoreHeader, A <- StoresA

Layout == INSTANCE EEPROMLayout

Dump == INSTANCE EEPROMDump WITH A <- DumpA

Client == INSTANCE TCPClientESP32 WITH
  W <- ClientW, Interval <- ClientInterval, MaxGap <- ClientMaxGap, Boots <- ClientBoots

Broker == INSTANCE MQTTClientESP32 WITH
  W <- BrokerW, V <- BrokerV, Interval <- BrokerInterval, MaxTime <- BrokerMaxTime,
  HeaderSize <- MessageHeader

ASSUME PartsAssumption ==
  /\ Timer!TimerAssumption /\ Servo!ServoAssumption /\ Filters!FiltersAssumption
  /\ Stores!StoresAssumption /\ Layout!LayoutAssumption /\ Dump!DumpAssumption
  /\ Client!TCPAssumption /\ Broker!MQTTAssumption

-----------------------------------------------------------------------------
\* A part that a behaviour is not about rests in one state.
TimerRests ==
  /\ pastTime = 0 /\ timerCycle = 1 /\ running = FALSE /\ began = 0
  /\ ended = 0 /\ lastPoll = 0 /\ synced = FALSE /\ fired = FALSE
ClientRests ==
  /\ millis = 0 /\ tcpFlag = 0 /\ socket = "closed" /\ server = FALSE /\ gap = 0
  /\ age = ClientInterval
ChangerRests ==
  /\ present = 0 /\ target = 0 /\ increase = 0 /\ decrease = 0 /\ cycleTime = 0
  /\ from = 0 /\ updates = 0
BrokerRests ==
  /\ lastReconnectAttempt = 0 /\ connected = FALSE /\ stands = FALSE
  /\ subscribedTopics = {} /\ held = {} /\ published = 0 /\ lastFailure = 0 /\ refused = {}
ServoRests == pulse = 0 /\ angVel = 0 /\ driven = FALSE
FilterRests ==
  /\ kind = "LPF" /\ data = <<>> /\ at = 0 /\ sum = 0 /\ out = 0
  /\ lpf = 0 /\ tc = 0 /\ recent = <<>> /\ seen = {0}
LayoutRests ==
  /\ program = 0 /\ direct = FALSE /\ step = "off" /\ memory = 0 /\ durable = 0
  /\ used = 0 /\ torn = FALSE
DumpRests == range = 0 /\ address = 0 /\ rows = <<>>

Init ==
  /\ part \in {"timer", "changer", "servo", "filter", "stores", "layout", "dump", "client",
              "mqtt"}
  /\ IF part = "timer"  THEN Timer!Init  ELSE TimerRests
  /\ IF part = "mqtt"   THEN Broker!Init ELSE BrokerRests
  /\ IF part = "client" THEN Client!Init ELSE ClientRests
  /\ IF part \in {"timer", "mqtt"}   THEN TRUE ELSE now = 0
  /\ IF part \in {"timer", "client"} THEN TRUE ELSE startTime = 0 /\ stopTime = 0
  /\ IF part = "servo" THEN Servo!ServoInit
     ELSE ServoRests /\ IF part = "changer" THEN Servo!Init ELSE ChangerRests
  /\ IF part = "filter" THEN Filters!Init ELSE FilterRests
  /\ Stores!Init /\ (part = "stores" \/ keeps)
  /\ IF part = "layout" THEN Layout!Init ELSE LayoutRests
  /\ IF part = "dump" THEN Dump!Init ELSE DumpRests

Others(p) ==
  /\ part = p /\ UNCHANGED part
  /\ IF p \in {"timer", "mqtt"} THEN TRUE ELSE UNCHANGED now
  /\ IF p = "mqtt"    THEN TRUE ELSE UNCHANGED mqtt
  /\ IF p \in {"timer", "client"}  THEN TRUE ELSE UNCHANGED watch
  /\ IF p = "timer"   THEN TRUE ELSE UNCHANGED timer
  /\ IF p = "client"  THEN TRUE ELSE UNCHANGED client
  /\ IF p \in {"changer", "servo"} THEN TRUE ELSE UNCHANGED changer
  /\ IF p = "servo"   THEN TRUE ELSE UNCHANGED servo
  /\ IF p = "filter"  THEN TRUE ELSE UNCHANGED filter
  /\ IF p = "stores"  THEN TRUE ELSE UNCHANGED stores
  /\ IF p = "layout"  THEN TRUE ELSE UNCHANGED layout
  /\ IF p = "dump"    THEN TRUE ELSE UNCHANGED dump

Next ==
  \/ Others("timer")   /\ Timer!Next
  \/ Others("changer") /\ Servo!Next
  \/ Others("servo")   /\ Servo!ServoNext
  \/ Others("filter")  /\ Filters!Next
  \/ Others("stores")  /\ Stores!Next
  \/ Others("layout")  /\ Layout!Next
  \/ Others("dump")    /\ Dump!Next
  \/ Others("client")  /\ Client!Next
  \/ Others("mqtt")    /\ Broker!Next

Spec == Init /\ [][Next]_vars

\* loop() goes on calling the servo's loop() and connectedAction(), and time goes by.
FairSpec ==
  /\ Spec
  /\ WF_vars(Others("servo") /\ Servo!Loop)
  /\ WF_vars(Others("client") /\ Client!ConnectedAction)
  /\ WF_vars(Others("client") /\ Client!Tick)

-----------------------------------------------------------------------------
\* The type of the part a behaviour is about; the others stay as they began.
TypeOK ==
  /\ part = "timer"   => Timer!TypeOK
  /\ part = "changer" => Servo!TypeOK
  /\ part = "servo"   => Servo!ServoTypeOK
  /\ part = "filter"  => Filters!TypeOK
  /\ part = "stores"  => Stores!TypeOK
  /\ part = "layout"  => Layout!TypeOK
  /\ part = "dump"    => Dump!TypeOK
  /\ part = "client"  => Client!TypeOK
  /\ part = "mqtt"    => Broker!TypeOK

\* The stopwatch measures, and each cycle is told once; see Timer.
TimerKeepsTime ==
  /\ [](part = "timer" => Timer!MeasuresTime)
  /\ Timer!TellsEachCycle

\* A value changes linearly and a servo's pulse follows it; see LinearChanger and
\* ServoESP32.
MovesLinearly ==
  /\ part = "changer" => Servo!ChangesLinearly
  /\ part = "servo" => Servo!PulseFollows

\* A servo comes to its target; see ServoESP32.
TargetIsReached == part = "servo" => Servo!TargetIsReached

\* The averages are of the window, a maximum is held, and a pass stays in range; see
\* Filters.
FiltersTrue ==
  part = "filter" => Filters!SumsWindow /\ Filters!PeaksHold /\ Filters!StaysInRange

\* Stores in one EEPROM do not disturb one another; see EEPROMStores.
StoresKeepApart == part = "stores" => Stores!StoresKeepApart

\* A program runs with a configuration of its layout, and a dump shows all of it; see
\* EEPROMLayout and EEPROMDump.
LayoutHolds ==
  /\ part = "layout" => Layout!RunsWithOwnLayout
  /\ part = "dump" => Dump!DumpsRange

\* The TCP client's flag, the spacing of its attempts, and that it makes them; see
\* TCPClientESP32.
FlagMatchesSocket == part = "client" => Client!FlagMatchesSocket
ActionsAreSpaced  == Client!ActionsAreSpaced
StartedConnects   == part = "client" => Client!StartedConnects

\* The MQTT client's topics and messages, and when it tries; see MQTTClientESP32.
AllResubscribed  == part = "mqtt" => Broker!AllResubscribed
PublishGoesOut   == part = "mqtt" => Broker!PublishGoesOut
TriesInFirstHalf == part = "mqtt" => Broker!TriesInFirstHalf
SpacedWhileNarrow == Broker!SpacedWhileNarrow
=================================================================================
