----------------------------- MODULE Clients_proofs -----------------------------
(***************************************************************************)
(* The parts that read a clock - the timer, the TCP client and the MQTT    *)
(* client - for every width of the clock, every interval, cycle, topic and *)
(* message, and every order of calls.  What is proved of a part on its own *)
(* holds for Parts, where the other parts rest while it goes on.           *)
(***************************************************************************)
EXTENDS Parts, Clocks, TLAPS

\* A behaviour is about one part from beginning to end, and what happens is a step of
\* that part.
About(p) == part = p

LEMMA AboutStays ==
  ASSUME NEW p PROVE About(p) /\ [Next]_vars => About(p)'
BY DEF About, Next, Others, vars

LEMMA AboutAlways ==
  ASSUME NEW p PROVE ~About(p) /\ [Next]_vars => ~About(p)'
BY DEF About, Next, Others, vars

-----------------------------------------------------------------------------
\* The watch: its start is a reading of the clock, and so is its end, except that a
\* reading of zero says that it runs.
WatchInv ==
  /\ now \in Nat /\ began \in Nat /\ ended \in Nat
  /\ startTime = began % TimerW
  /\ running => stopTime = 0
  /\ (~running /\ ended % TimerW # 0) => stopTime = ended % TimerW

\* The trigger keeps the number of the cycle it saw at the last poll, which is less
\* than a gap ago.
CycleInv ==
  /\ timerCycle \in CycleTimes
  /\ lastPoll \in Nat /\ lastPoll <= now /\ now - lastPoll <= TimerMaxGap
  /\ synced => pastTime = (lastPoll % TimerW) \div timerCycle

-----------------------------------------------------------------------------
LEMMA TimerConstants ==
  ASSUME Timer!TimerAssumption
  PROVE  /\ TimerW \in Nat \ {0} /\ TimerMaxGap \in Nat /\ TimerMaxGap < TimerW
         /\ \A c \in CycleTimes : c \in Nat \ {0} /\ c + TimerMaxGap <= TimerW
BY DEF Timer!TimerAssumption

LEMMA WatchInit ==
  ASSUME Timer!TimerAssumption, Timer!Init PROVE WatchInv
<1>1. now \in Nat
  BY DEF Timer!TimerAssumption, Timer!Init
<1> QED BY <1>1 DEF Timer!Init, Timer!Millis, WatchInv

LEMMA WatchStep ==
  ASSUME Timer!TimerAssumption, WatchInv, [Timer!Next]_(Timer!vars) PROVE WatchInv'
<1>1. CASE Timer!StartTimer
  BY <1>1 DEF Timer!StartTimer, Timer!Millis, WatchInv
<1>2. CASE Timer!StopTimer
  <2>1. CASE running
    BY <1>2, <2>1 DEF Timer!StopTimer, Timer!Millis, WatchInv
  <2>2. CASE ~running
    BY <1>2, <2>2 DEF Timer!StopTimer, WatchInv
  <2> QED BY <2>1, <2>2
<1>3. CASE Timer!SetCycleTime \/ Timer!IsCycleTime
  BY <1>3 DEF Timer!SetCycleTime, Timer!IsCycleTime, Timer!watch, WatchInv
<1>4. CASE Timer!Tick
  BY <1>4 DEF Timer!Tick, Timer!watch, WatchInv
<1>5. CASE UNCHANGED Timer!vars
  BY <1>5 DEF Timer!vars, Timer!watch, WatchInv
<1> QED BY <1>1, <1>2, <1>3, <1>4, <1>5 DEF Timer!Next

LEMMA CycleInit ==
  ASSUME Timer!TimerAssumption, Timer!Init PROVE CycleInv
<1>1. now \in Nat /\ TimerMaxGap \in Nat
  BY TimerConstants DEF Timer!TimerAssumption, Timer!Init
<1> QED BY <1>1 DEF Timer!Init, CycleInv

LEMMA CycleStep ==
  ASSUME Timer!TimerAssumption, WatchInv, CycleInv, [Timer!Next]_(Timer!vars)
  PROVE  CycleInv'
<1>0. TimerMaxGap \in Nat /\ now \in Nat
  BY TimerConstants DEF WatchInv
<1>1. CASE Timer!StartTimer \/ Timer!StopTimer
  BY <1>1 DEF Timer!StartTimer, Timer!StopTimer, Timer!cycle, CycleInv
<1>2. CASE Timer!SetCycleTime
  BY <1>2 DEF Timer!SetCycleTime, CycleInv
<1>3. CASE Timer!IsCycleTime
  <2>1. /\ lastPoll' = now /\ now' = now /\ timerCycle' = timerCycle
        /\ pastTime' = (now % TimerW) \div timerCycle
    BY <1>3 DEF Timer!IsCycleTime, Timer!Millis
  <2> QED BY <1>0, <2>1 DEF CycleInv
<1>4. CASE Timer!Tick
  <2>1. /\ now' = now + 1 /\ now - lastPoll < TimerMaxGap
        /\ UNCHANGED <<pastTime, timerCycle, lastPoll, synced>>
    BY <1>4 DEF Timer!Tick, Timer!cycle
  <2> QED BY <1>0, <2>1 DEF CycleInv
<1>5. CASE UNCHANGED Timer!vars
  BY <1>5 DEF Timer!vars, Timer!cycle, CycleInv
<1> QED BY <1>1, <1>2, <1>3, <1>4, <1>5 DEF Timer!Next

LEMMA TimerInductive ==
  ASSUME Timer!TimerAssumption PROVE Timer!Spec => [](WatchInv /\ CycleInv)
<1>1. Timer!Init => WatchInv /\ CycleInv
  BY WatchInit, CycleInit
<1>2. WatchInv /\ CycleInv /\ [Timer!Next]_(Timer!vars) => WatchInv' /\ CycleInv'
  BY WatchStep, CycleStep
<1> QED BY <1>1, <1>2, PTL DEF Timer!Spec

-----------------------------------------------------------------------------
\* The number of a cycle, for an instant q rounds of the clock after reading r, when
\* a round is k cycles.
LEMMA CycleOfRound ==
  ASSUME NEW c \in Nat \ {0}, NEW k \in Int, NEW q \in Int, NEW r \in Nat
  PROVE  ((c * k) * q + r) \div c = k * q + (r \div c)
<1> DEFINE t == (c * k) * q + r
           a == t \div c
           b == r \div c
<1>1. c * k \in Int /\ k * q \in Int
  OBVIOUS
<1>2. (c * k) * q = c * (k * q)
  OBVIOUS
<1>3. t \in Int
  BY <1>1
<1>4. t = c * a + (t % c) /\ t % c \in 0..(c - 1) /\ a \in Int
  BY <1>3, DivMod
<1>5. r = c * b + (r % c) /\ r % c \in 0..(c - 1) /\ b \in Int
  BY DivMod
<1>6. t = c * (k * q + b) + (r % c)
  <2> DEFINE z == k * q
  <2>1. z \in Int /\ b \in Int /\ r % c \in Int /\ t = c * z + r
    BY <1>1, <1>2, <1>5
  <2>2. r = c * b + (r % c)
    BY <1>5
  <2> HIDE DEF t, b, z
  <2>3. c * (z + b) = c * z + c * b /\ c * z \in Int /\ c * b \in Int
    BY <2>1
  <2>4. t = c * (z + b) + (r % c)
    BY <2>1, <2>2, <2>3
  <2> QED BY <2>4 DEF z
<1>7. k * q + b \in Int
  BY <1>1, <1>5
<1> HIDE DEF t, a, b
<1>8. t % c = r % c
  BY <1>3, <1>5, <1>6, <1>7, ModUnique
<1>9. c * a = c * (k * q + b)
  <2>1. c * a \in Int /\ c * (k * q + b) \in Int
    BY <1>4, <1>7
  <2> QED BY <1>4, <1>5, <1>6, <1>8, <2>1
<1>10. a = k * q + b
  BY <1>4, <1>7, <1>9, Cancel
<1> QED BY <1>10 DEF t, a, b

-----------------------------------------------------------------------------
\* getTime() is the time that has passed between startTimer() and stopTimer(), or
\* until now, modulo the width of the clock: Timer.cpp:86-96.
LEMMA TimerMeasures ==
  ASSUME Timer!TimerAssumption PROVE Timer!Spec => []Timer!MeasuresTime
<1>1. WatchInv => Timer!MeasuresTime
  <2> SUFFICES ASSUME WatchInv PROVE Timer!MeasuresTime
    OBVIOUS
  <2>1. /\ TimerW \in Nat \ {0} /\ now \in Int /\ began \in Int /\ ended \in Int
        /\ startTime = began % TimerW
    BY TimerConstants DEF WatchInv
  <2>2. CASE running
    <3>1. stopTime = 0
      BY <2>2 DEF WatchInv
    <3>2. ((now % TimerW) - (began % TimerW)) % TimerW = (now - began) % TimerW
      BY <2>1, ClockDifferenceMod
    <3> QED BY <2>1, <2>2, <3>1, <3>2 DEF Timer!MeasuresTime, Timer!GetTime,
                  Timer!Millis
  <2>3. CASE ~running /\ ended % TimerW # 0
    <3>1. stopTime = ended % TimerW /\ stopTime # 0
      BY <2>3 DEF WatchInv
    <3>2. ((ended % TimerW) - (began % TimerW)) % TimerW = (ended - began) % TimerW
      BY <2>1, ClockDifferenceMod
    <3> QED BY <2>1, <2>3, <3>1, <3>2 DEF Timer!MeasuresTime, Timer!GetTime
  <2>4. CASE ~running /\ ended % TimerW = 0
    BY <2>4 DEF Timer!MeasuresTime
  <2> QED BY <2>2, <2>3, <2>4
<1> QED BY <1>1, TimerInductive, PTL

\* The readings of two instants are in one cycle of length c just when the instants are.
ReadingsTell(c, n, s, t) ==
  (s % n) \div c = (t % n) \div c <=> s \div c = t \div c

\* The number of the cycle read from a clock that has gone round tells whether a cycle
\* has come, when a round is a whole number of cycles and less than a round and a
\* cycle's length has gone.
LEMMA CycleComesAround ==
  ASSUME NEW c \in Nat \ {0}, NEW n \in Nat \ {0}, n % c = 0,
         NEW s \in Nat, NEW t \in Nat, s <= t, t - s + c <= n
  PROVE  ReadingsTell(c, n, s, t)
<1> DEFINE k == n \div c
           qs == s \div n
           qt == t \div n
           rs == s % n
           rt == t % n
           a == rs \div c
           b == rt \div c
<1>1. n = c * k /\ k \in Int
  BY DivMod
<1>2. s = n * qs + rs /\ rs \in 0..(n - 1) /\ qs \in Int
  BY DivMod
<1>3. t = n * qt + rt /\ rt \in 0..(n - 1) /\ qt \in Int
  BY DivMod
<1>4. s \div c = k * qs + a
  <2>1. s = (c * k) * qs + rs /\ rs \in Nat
    BY <1>1, <1>2
  <2> HIDE DEF k, qs, rs
  <2> QED BY <1>1, <1>2, <2>1, CycleOfRound
<1>5. t \div c = k * qt + b
  <2>1. t = (c * k) * qt + rt /\ rt \in Nat
    BY <1>1, <1>3
  <2> HIDE DEF k, qt, rt
  <2> QED BY <1>1, <1>3, <2>1, CycleOfRound
<1>6. rs = c * a + (rs % c) /\ rs % c \in 0..(c - 1) /\ a \in Int
  <2>1. rs \in Int
    BY <1>2
  <2> HIDE DEF rs
  <2> QED BY <2>1, DivMod
<1>7. rt = c * b + (rt % c) /\ rt % c \in 0..(c - 1) /\ b \in Int
  <2>1. rt \in Int
    BY <1>3
  <2> HIDE DEF rt
  <2> QED BY <2>1, DivMod
<1>8. CASE qs = qt
  <2>1. k * qs \in Int /\ k * qt = k * qs
    BY <1>1, <1>2, <1>8
  <2> HIDE DEF k, qs, qt, a, b
  <2>2. s \div c = t \div c <=> a = b
    BY <1>4, <1>5, <1>6, <1>7, <2>1
  <2> QED BY <2>2, Zenon DEF ReadingsTell, a, b
<1>9. CASE qs # qt
  <2> DEFINE d == qt - qs
  <2>1. d \in Int /\ t - s = n * d + (rt - rs) /\ n * d \in Int
    <3> DEFINE ns == n * qs
               nt == n * qt
    <3>1. n * d = nt - ns /\ nt \in Int /\ ns \in Int
      BY <1>2, <1>3
    <3>2. s = ns + rs /\ t = nt + rt /\ d \in Int
      BY <1>2, <1>3
    <3> HIDE DEF ns, nt, d, rs, rt
    <3> QED BY <1>2, <1>3, <3>1, <3>2
  <2>2. d # 0
    BY <1>2, <1>3, <1>9
  <2> HIDE DEF d, k, qs, qt, rs, rt, a, b
  <2>3. d = 1
    <3>1. CASE d <= -1
      <4>1. n * d <= -n
        BY <2>1, <3>1
      <4> QED BY <1>2, <1>3, <2>1, <4>1
    <3>2. CASE d >= 2
      <4>1. n * d >= 2 * n
        BY <2>1, <3>2
      <4> QED BY <1>2, <1>3, <2>1, <4>1
    <3> QED BY <2>1, <2>2, <3>1, <3>2
  <2>4. t - s = n + (rt - rs)
    BY <2>1, <2>3
  <2>5. rt + c <= rs
    BY <1>2, <1>3, <2>4
  <2>6. b < a
    <3>1. CASE b >= a
      <4>1. c * b >= c * a /\ c * a \in Int /\ c * b \in Int
        BY <1>6, <1>7, <3>1
      <4> QED BY <1>6, <1>7, <2>5, <4>1
    <3> QED BY <1>6, <1>7, <3>1
  <2>7. a < k + b
    <3>1. CASE a >= k + b
      <4>1. c * a >= c * (k + b) /\ c * a \in Int
        BY <1>1, <1>6, <1>7, <3>1
      <4>2. c * (k + b) = n + c * b /\ c * b \in Int
        BY <1>1, <1>7
      <4>3. b >= 0
        <5>1. CASE b <= -1
          <6>1. c * b <= -c
            BY <1>7, <5>1
          <6> QED BY <1>3, <1>7, <6>1, <4>2
        <5> QED BY <1>7, <5>1
      <4>4. c * b >= 0
        BY <1>7, <4>3
      <4> QED BY <1>2, <1>6, <4>1, <4>2, <4>4
    <3> QED BY <1>1, <1>6, <1>7, <3>1
  <2>8. k * qt = k * qs + k /\ k * qs \in Int
    <3>1. qt = qs + 1
      BY <1>2, <1>3, <2>3 DEF d
    <3> QED BY <1>1, <1>2, <3>1
  <2>9. s \div c # t \div c
    BY <1>1, <1>4, <1>5, <1>6, <1>7, <2>7, <2>8
  <2>10. a # b
    BY <1>6, <1>7, <2>6
  <2> QED BY <2>9, <2>10, Zenon DEF ReadingsTell, a, b, rs, rt
<1> QED BY <1>8, <1>9

\* isCycleTime() tells each cycle once, at the first poll after it has come, over a
\* clock that goes round if a round is a whole number of cycles: Timer.cpp:52-63.
LEMMA TimerTells ==
  ASSUME Timer!TimerAssumption PROVE Timer!Spec => Timer!TellsEachCycle
<1>1. WatchInv /\ CycleInv /\ [Timer!Next]_(Timer!vars) =>
        [Timer!IsCycleTime /\ synced /\ (TimerW % timerCycle = 0 \/ now < TimerW)
           => (fired' <=> Timer!CycleCame(lastPoll, now))]_(Timer!vars)
  <2> SUFFICES ASSUME WatchInv, CycleInv, Timer!IsCycleTime, synced,
                      TimerW % timerCycle = 0 \/ now < TimerW
               PROVE  fired' <=> Timer!CycleCame(lastPoll, now)
    OBVIOUS
  <2>1. fired' = ((now % TimerW) \div timerCycle # (lastPoll % TimerW) \div timerCycle)
    <3>1. pastTime = (lastPoll % TimerW) \div timerCycle
      BY DEF CycleInv
    <3> QED BY <3>1 DEF Timer!IsCycleTime, Timer!Millis
  <2>2. /\ TimerW \in Nat \ {0} /\ timerCycle \in Nat \ {0}
        /\ timerCycle + TimerMaxGap <= TimerW
        /\ TimerMaxGap \in Nat /\ lastPoll \in Nat /\ now \in Nat
        /\ lastPoll <= now /\ now - lastPoll <= TimerMaxGap
    BY TimerConstants DEF WatchInv, CycleInv
  <2>3. CASE TimerW % timerCycle = 0
    <3>1. now - lastPoll + timerCycle <= TimerW
      BY <2>2
    <3>2. ReadingsTell(timerCycle, TimerW, lastPoll, now)
      <4>1. /\ TimerW \in Nat \ {0} /\ timerCycle \in Nat \ {0}
            /\ lastPoll \in Nat /\ now \in Nat /\ lastPoll <= now
        BY <2>2
      <4> QED BY <4>1, <2>3, <3>1, CycleComesAround, Zenon
    <3> QED BY <2>1, <3>2, Zenon DEF Timer!CycleCame, ReadingsTell
  <2>4. CASE now < TimerW
    <3>1. now \in 0..(TimerW - 1) /\ lastPoll \in 0..(TimerW - 1)
      BY <2>2, <2>4
    <3>2. now % TimerW = now /\ lastPoll % TimerW = lastPoll
      BY <2>2, <3>1, ClockBelow
    <3> QED BY <2>1, <3>2, Zenon DEF Timer!CycleCame
  <2> QED BY <2>3, <2>4
<1>2. Timer!Spec => [](WatchInv /\ CycleInv)
  BY TimerInductive
<1>3. Timer!Spec => [][Timer!Next]_(Timer!vars)
  BY PTL DEF Timer!Spec
<1> QED BY <1>1, <1>2, <1>3, PTL DEF Timer!TellsEachCycle
-----------------------------------------------------------------------------
\* While the interval since the last failure is not over, the timer runs, and it
\* shows no more than the time since that failure: a hangup meanwhile starts it
\* anew.  The number on it is the true one as the interval is shorter than a round
\* of the clock.
ClientSpacingInv ==
  age < ClientInterval => stopTime = 0 /\ (millis - startTime) % ClientW <= age

ClientInv == Client!TypeOK /\ Client!FlagMatchesSocket /\ ClientSpacingInv

-----------------------------------------------------------------------------
LEMMA ClientInit ==
  ASSUME Client!TCPAssumption, Client!Init PROVE ClientInv
<1>1. age = ClientInterval /\ ClientInterval \in Nat /\ ClientW \in Nat
      /\ ClientBoots \subseteq 0..(ClientW - 1)
  BY DEF Client!TCPAssumption, Client!Init
<1> QED BY <1>1 DEF Client!TCPAssumption, Client!Init, ClientInv, Client!TypeOK,
              Client!FlagMatchesSocket, ClientSpacingInv

\* A timer that has just been started shows nothing.
LEMMA ClientStarted ==
  ASSUME Client!TCPAssumption, Client!TypeOK, Client!StartTimer, millis' = millis

  PROVE   /\ stopTime' = 0 /\ startTime' \in 0..(ClientW - 1)
          /\ (millis' - startTime') % ClientW = 0
<1>1. ClientW \in Nat \ {0} /\ 0 \in 0..(ClientW - 1) /\ 0 = ClientW * 0 + 0
  BY DEF Client!TCPAssumption
<1>2. 0 % ClientW = 0
  BY <1>1, ModUnique
<1>3. millis - millis = 0
  BY DEF Client!TypeOK
<1> QED BY <1>1, <1>2, <1>3 DEF Client!StartTimer, Client!TypeOK

LEMMA ClientCalls ==
  ASSUME Client!TCPAssumption, ClientInv, Client!Client PROVE ClientInv'
<1> USE DEF ClientInv
<1>0. Client!TypeOK /\ ClientInterval \in Nat \ {0} /\ ClientMaxGap \in Nat \ {0}
  BY DEF Client!TCPAssumption
<1>5. server' \in BOOLEAN
  BY Zenon DEF Client!TypeOK, Client!Client, Client!ConnectedAction,
        Client!DisconnectedAction, Client!SendString
<1>1. CASE Client!ConnectedAction /\ (~Client!MayTry \/ server)
  <2>1. UNCHANGED <<millis, Client!timer, age>> /\ gap' = 0
    BY <1>1 DEF Client!ConnectedAction, Client!Fails
  <2>2. UNCHANGED <<tcpFlag, socket>> \/ (tcpFlag' = 1 /\ socket' = "open")
    BY <1>1 DEF Client!ConnectedAction, Client!Connects, Client!Fails
  <2>3. Client!FlagMatchesSocket'
    BY <2>2 DEF Client!FlagMatchesSocket
  <2>4. Client!TypeOK'
    BY <1>0, <1>5, <2>1, <2>2 DEF Client!TypeOK, Client!timer
  <2>5. ClientSpacingInv'
    BY <2>1 DEF ClientSpacingInv, Client!timer
  <2> QED BY <2>3, <2>4, <2>5
<1>2. CASE Client!ConnectedAction /\ Client!MayTry /\ ~server
  <2>1. /\ Client!StartTimer /\ age' = 0 /\ gap' = 0 /\ UNCHANGED millis
        /\ tcpFlag' = 0 /\ socket' = "closed"
    BY <1>2 DEF Client!ConnectedAction, Client!Connects, Client!Fails
  <2>2. stopTime' = 0 /\ startTime' \in 0..(ClientW - 1)
        /\ (millis' - startTime') % ClientW = 0
    BY <2>1, ClientStarted
  <2>3. Client!FlagMatchesSocket'
    BY <2>1 DEF Client!FlagMatchesSocket
  <2>4. Client!TypeOK'
    BY <1>0, <1>5, <2>1, <2>2 DEF Client!TypeOK, Client!TCPAssumption
  <2>5. 0 <= age'
    BY <2>4, <1>0 DEF Client!TypeOK
  <2>6. ClientSpacingInv'
    BY <2>2, <2>5 DEF ClientSpacingInv
  <2> QED BY <2>3, <2>4, <2>6
<1>3. CASE Client!DisconnectedAction
  <2>1. /\ Client!StartTimer /\ UNCHANGED <<millis, gap, age>>
        /\ tcpFlag' = 0 /\ socket' = "closed"
    BY <1>3 DEF Client!DisconnectedAction
  <2>2. stopTime' = 0 /\ startTime' \in 0..(ClientW - 1)
        /\ (millis' - startTime') % ClientW = 0
    BY <2>1, ClientStarted
  <2>3. Client!FlagMatchesSocket'
    BY <2>1 DEF Client!FlagMatchesSocket
  <2>4. Client!TypeOK'
    BY <1>0, <1>5, <2>1, <2>2 DEF Client!TypeOK, Client!TCPAssumption
  <2>5. 0 <= age'
    BY <2>4, <1>0 DEF Client!TypeOK
  <2>6. ClientSpacingInv'
    BY <2>2, <2>5 DEF ClientSpacingInv
  <2> QED BY <2>3, <2>4, <2>6
<1>4. CASE Client!SendString
  <2>1. /\ UNCHANGED <<millis, Client!timer, gap, age>>
        /\ \/ tcpFlag' = 1 /\ socket' = "open"
           \/ tcpFlag' = 0 /\ socket' = "closed"
    BY <1>4 DEF Client!SendString, Client!Connects, Client!Fails
  <2> QED BY <1>0, <1>5, <2>1 DEF Client!TypeOK, Client!FlagMatchesSocket,
                ClientSpacingInv, Client!timer
<1> QED BY <1>1, <1>2, <1>3, <1>4 DEF Client!Client

\* Time adds the same to the age of the failure as to what the timer shows.
LEMMA ClientTicks ==
  ASSUME Client!TCPAssumption, ClientInv, Client!Tick PROVE ClientInv'
<1> USE DEF ClientInv
<1>1. /\ ClientW \in Nat \ {0} /\ ClientInterval \in Nat /\ ClientInterval < ClientW
      /\ ClientMaxGap \in Nat
      /\ millis \in 0..(ClientW - 1) /\ startTime \in 0..(ClientW - 1)
      /\ age \in 0..ClientInterval
      /\ gap \in 0..ClientMaxGap
  BY DEF Client!TCPAssumption, Client!TypeOK
<1>2. /\ millis' = (millis + 1) % ClientW /\ gap' = gap + 1 /\ gap < ClientMaxGap
      /\ age' = IF age < ClientInterval THEN age + 1 ELSE age
      /\ UNCHANGED <<tcpFlag, startTime, stopTime, socket, server>>
  BY DEF Client!Tick, Client!Passes, Client!timer
<1>3. millis' \in 0..(ClientW - 1)
  BY <1>1, <1>2, DivMod
<1>4. Client!TypeOK' /\ Client!FlagMatchesSocket'
  BY <1>1, <1>2, <1>3 DEF Client!TypeOK, Client!FlagMatchesSocket
<1>5. ASSUME age' < ClientInterval
      PROVE  stopTime' = 0 /\ (millis' - startTime') % ClientW <= age'
  <2>1. age < ClientInterval /\ age' = age + 1 /\ stopTime = 0
    BY <1>1, <1>2, <1>5 DEF ClientSpacingInv
  <2>2. (millis - startTime) % ClientW <= age
        /\ (millis - startTime) % ClientW \in 0..(ClientW - 1)
    BY <1>1, <2>1, DivMod DEF ClientSpacingInv
  <2>3. ((millis - startTime) % ClientW) + 1 < ClientW /\ millis \in Int
        /\ startTime \in Int
    BY <1>1, <2>1, <2>2
  <2>4. (((millis + 1) % ClientW) - startTime) % ClientW
          = ((millis - startTime) % ClientW) + 1
    BY <1>1, <2>3, ClockTicks, Zenon
  <2> QED BY <1>1, <1>2, <2>1, <2>2, <2>4
<1> QED BY <1>4, <1>5 DEF ClientSpacingInv

LEMMA ClientStep ==
  ASSUME Client!TCPAssumption, ClientInv, [Client!Next]_(Client!vars) PROVE ClientInv'
<1> USE DEF ClientInv
<1>1. CASE Client!ServerChanges
  BY <1>1 DEF Client!ServerChanges, Client!TypeOK, Client!FlagMatchesSocket,
        ClientSpacingInv, Client!timer
<1>2. CASE Client!Breaks
  BY <1>2 DEF Client!Breaks, Client!TypeOK, Client!FlagMatchesSocket,
        ClientSpacingInv, Client!timer
<1>3. CASE UNCHANGED Client!vars
  BY <1>3 DEF Client!vars, Client!TypeOK, Client!FlagMatchesSocket, ClientSpacingInv,
        Client!timer
<1> QED BY <1>1, <1>2, <1>3, ClientCalls, ClientTicks DEF Client!Next

LEMMA ClientInductive ==
  ASSUME Client!TCPAssumption PROVE Client!Spec => []ClientInv
<1>1. Client!Init => ClientInv
  BY ClientInit
<1>2. ClientInv /\ [Client!Next]_(Client!vars) => ClientInv'
  BY ClientStep
<1> QED BY <1>1, <1>2, PTL DEF Client!Spec

-----------------------------------------------------------------------------
\* Every variable of the client keeps its type.
LEMMA ClientTypeCorrect ==
  ASSUME Client!TCPAssumption PROVE Client!Spec => []Client!TypeOK
<1>1. ClientInv => Client!TypeOK
  BY DEF ClientInv
<1> QED BY <1>1, ClientInductive, PTL

\* The flag is set exactly over a socket the client has not closed, whatever the
\* program calls and whatever becomes of the server and the connection.
LEMMA ClientFlag ==
  ASSUME Client!TCPAssumption PROVE Client!Spec => []Client!FlagMatchesSocket
<1>1. ClientInv => Client!FlagMatchesSocket
  BY DEF ClientInv
<1> QED BY <1>1, ClientInductive, PTL

\* connectedAction() attempts nothing within the interval after it failed, on a
\* clock of any width and across its wrap, even if sendString() connected and
\* disconnectedAction() hung up meanwhile.
LEMMA ClientSpaced ==
  ASSUME Client!TCPAssumption PROVE Client!Spec => Client!ActionsAreSpaced
<1>1. ClientInv => (Client!MayTry => age >= ClientInterval)
  <2> SUFFICES ASSUME ClientInv, Client!MayTry, ~(age >= ClientInterval) PROVE FALSE
    OBVIOUS
  <2>1. age < ClientInterval /\ age \in Nat /\ ClientInterval \in Nat
        /\ ClientW \in Nat \ {0}
        /\ millis \in Int /\ startTime \in Int
    BY DEF Client!TCPAssumption, ClientInv, Client!TypeOK
  <2>2. Client!GetTime <= age /\ Client!GetTime \in Int
    BY <2>1, DivMod DEF ClientInv, ClientSpacingInv, Client!GetTime
  <2> QED BY <2>1, <2>2 DEF Client!MayTry
<1>2. ClientInv /\ [Client!Next]_(Client!vars)
          => [Client!ConnectedAction /\ Client!MayTry
                => age >= ClientInterval]_(Client!vars)
  BY <1>1
<1> QED BY <1>2, ClientInductive, PTL DEF Client!Spec, Client!ActionsAreSpaced
-----------------------------------------------------------------------------
\* The time stamp is a failure's, no later than it was, as long as the clock does
\* not read as negative.
StampInv ==
  2 * lastFailure < BrokerW => lastReconnectAttempt <= lastFailure

\* A time stamp that fits its width is the failure's own, unless a success has
\* cleared it, and then the interval was over.
BrokerSpacingInv ==
  lastFailure < BrokerV =>
    lastReconnectAttempt = lastFailure \/ now - lastFailure > BrokerInterval

BrokerTimeInv ==
  /\ now \in Nat /\ lastFailure \in Nat /\ lastFailure <= now
  /\ lastReconnectAttempt \in 0..(BrokerV - 1)

\* The widths of the source: an interval and a time stamp far below half a round
\* of millis().
FarBelow == 2 * (BrokerV + BrokerInterval) <= BrokerW

-----------------------------------------------------------------------------
\* Below half a round the signed reading is the time; it is never above it, and
\* where it is negative, half a round has passed.
LEMMA SignedReading ==
  ASSUME Broker!MQTTAssumption, now \in Nat
  PROVE  /\ Broker!SignedMillis \in Int /\ Broker!SignedMillis <= now
         /\ 2 * now < BrokerW => Broker!SignedMillis = now
         /\ Broker!SignedMillis < 0 => 2 * now >= BrokerW
<1>1. /\ BrokerW \in Nat \ {0} /\ now % BrokerW \in 0..(BrokerW - 1)
      /\ now \div BrokerW \in Int
      /\ now = BrokerW * (now \div BrokerW) + (now % BrokerW)
  BY DivMod DEF Broker!MQTTAssumption
<1>2. now < BrokerW => now % BrokerW = now
  BY <1>1, ClockBelow
<1>3. now % BrokerW <= now
  <2>1. CASE now < BrokerW
    BY <1>2, <2>1
  <2>2. CASE now >= BrokerW
    BY <1>1, <2>2
  <2> QED BY <1>1, <2>1, <2>2
<1> QED BY <1>1, <1>2, <1>3 DEF Broker!SignedMillis

LEMMA StampReading ==
  ASSUME Broker!MQTTAssumption, now \in Nat
  PROVE  /\ Broker!Narrowed(Broker!SignedMillis) \in 0..(BrokerV - 1)
         /\ 2 * now < BrokerW => Broker!Narrowed(Broker!SignedMillis) <= now
         /\ (2 * now < BrokerW /\ now < BrokerV)
              => Broker!Narrowed(Broker!SignedMillis) = now
<1>1. BrokerV \in Nat \ {0} /\ BrokerW \in Nat
  BY DEF Broker!MQTTAssumption
<1>2. Broker!SignedMillis \in Int /\ (2 * now < BrokerW => Broker!SignedMillis = now)
  BY SignedReading
<1>3. Broker!Narrowed(Broker!SignedMillis) \in 0..(BrokerV - 1)
  BY <1>1, <1>2, DivMod DEF Broker!Narrowed
<1>4. now < BrokerV => now % BrokerV = now
  BY <1>1, ClockBelow
<1>5. now % BrokerV <= now
  BY <1>1, <1>4, DivMod
<1> QED BY <1>2, <1>3, <1>4, <1>5 DEF Broker!Narrowed

LEMMA BrokerTimeInit ==
  ASSUME Broker!MQTTAssumption, Broker!Init
  PROVE  BrokerTimeInv /\ StampInv /\ BrokerSpacingInv
BY DEF Broker!MQTTAssumption, Broker!Init, BrokerTimeInv, StampInv, BrokerSpacingInv

\* What the steps do to the times.
LEMMA BrokerTimes ==
  ASSUME [Broker!Next]_(Broker!vars)
  PROVE  \/ UNCHANGED <<now, lastFailure, lastReconnectAttempt>>
         \/ /\ Broker!Tick /\ now' = now + 1
            /\ UNCHANGED <<lastFailure, lastReconnectAttempt>>
         \/ /\ Broker!Reconnects /\ lastReconnectAttempt' = 0
            /\ UNCHANGED <<now, lastFailure>>
         \/ /\ Broker!ReconnectFails
            /\ lastReconnectAttempt' = Broker!Narrowed(Broker!SignedMillis)
            /\ lastFailure' = now /\ now' = now
BY DEF Broker!Next, Broker!HealthCheck, Broker!StaysConnected,
      Broker!HealthCheckWaits, Broker!Reconnects, Broker!ReconnectFails,
       Broker!Subscribe, Broker!Publish, Broker!ConnectionBreaks, Broker!Tick,
       Broker!vars

LEMMA BrokerTimeStep ==
  ASSUME Broker!MQTTAssumption, BrokerTimeInv, StampInv, [Broker!Next]_(Broker!vars)
  PROVE  BrokerTimeInv' /\ StampInv'
<1>1. BrokerV \in Nat \ {0} /\ BrokerW \in Nat
  BY DEF Broker!MQTTAssumption
<1>2. CASE UNCHANGED <<now, lastFailure, lastReconnectAttempt>>
  BY <1>2 DEF BrokerTimeInv, StampInv
<1>3. CASE now' = now + 1 /\ UNCHANGED <<lastFailure, lastReconnectAttempt>>
  BY <1>3 DEF BrokerTimeInv, StampInv
<1>4. CASE lastReconnectAttempt' = 0 /\ UNCHANGED <<now, lastFailure>>
  BY <1>1, <1>4 DEF BrokerTimeInv, StampInv
<1>5. CASE lastReconnectAttempt' = Broker!Narrowed(Broker!SignedMillis)
      /\ lastFailure' = now /\ now' = now
  BY <1>1, <1>5, StampReading DEF BrokerTimeInv, StampInv
<1> QED BY <1>2, <1>3, <1>4, <1>5, BrokerTimes

\* An attempt that is made before the failure's stamp was narrowed comes after the
\* interval: either the comparison is one of true times, or half a round has passed.
LEMMA AttemptIsSpaced ==
  ASSUME Broker!MQTTAssumption, FarBelow, BrokerTimeInv, BrokerSpacingInv,
         lastFailure < BrokerV, Broker!Due \/ Broker!Overflows
  PROVE  now - lastFailure > BrokerInterval
<1>1. /\ BrokerV \in Nat \ {0} /\ BrokerW \in Nat /\ BrokerInterval \in Nat
      /\ 2 * (BrokerV + BrokerInterval) <= BrokerW
  BY DEF Broker!MQTTAssumption, FarBelow
<1>2. now \in Nat /\ lastFailure \in Nat /\ lastReconnectAttempt \in Nat
  BY DEF BrokerTimeInv
<1>3. /\ Broker!SignedMillis \in Int /\ Broker!SignedMillis <= now
      /\ Broker!SignedMillis < 0 => 2 * now >= BrokerW
  BY <1>2, SignedReading
<1>4. SUFFICES ASSUME lastReconnectAttempt = lastFailure
               PROVE  now - lastFailure > BrokerInterval
  BY DEF BrokerSpacingInv
<1>5. CASE Broker!Due
  BY <1>1, <1>2, <1>3, <1>4, <1>5 DEF Broker!Due
<1>6. CASE Broker!Overflows
  <2>1. Broker!SignedMillis < 0
    BY <1>1, <1>2, <1>3, <1>4, <1>6 DEF Broker!Overflows
  <2> QED BY <1>1, <1>2, <1>3, <2>1
<1> QED BY <1>5, <1>6

LEMMA BrokerSpacingStep ==
  ASSUME Broker!MQTTAssumption, FarBelow, BrokerTimeInv, BrokerSpacingInv,
         [Broker!Next]_(Broker!vars)
  PROVE  BrokerSpacingInv'
<1>1. BrokerV \in Nat \ {0} /\ BrokerW \in Nat /\ BrokerInterval \in Nat
      /\ 2 * (BrokerV + BrokerInterval) <= BrokerW
  BY DEF Broker!MQTTAssumption, FarBelow
<1>2. CASE UNCHANGED <<now, lastFailure, lastReconnectAttempt>>
  BY <1>2 DEF BrokerSpacingInv
<1>3. CASE now' = now + 1 /\ UNCHANGED <<lastFailure, lastReconnectAttempt>>
  BY <1>1, <1>3 DEF BrokerTimeInv, BrokerSpacingInv
<1>4. CASE Broker!Reconnects /\ UNCHANGED <<now, lastFailure>>
  BY <1>4, AttemptIsSpaced DEF Broker!Reconnects, BrokerSpacingInv
<1>5. CASE lastReconnectAttempt' = Broker!Narrowed(Broker!SignedMillis)
      /\ lastFailure' = now /\ now' = now
  BY <1>1, <1>5, StampReading DEF BrokerTimeInv, BrokerSpacingInv
<1> QED BY <1>2, <1>3, <1>4, <1>5, BrokerTimes

LEMMA BrokerTimesRight ==
  ASSUME Broker!MQTTAssumption PROVE Broker!Spec => [](BrokerTimeInv /\ StampInv)
<1>1. Broker!Init => BrokerTimeInv /\ StampInv
  BY BrokerTimeInit
<1>2. BrokerTimeInv /\ StampInv /\ [Broker!Next]_(Broker!vars)
          => BrokerTimeInv' /\ StampInv'
  BY BrokerTimeStep
<1> QED BY <1>1, <1>2, PTL DEF Broker!Spec

-----------------------------------------------------------------------------
\* Whatever breaks and reconnects, on a connection that stands every topic the program
\* ever asked for has been asked of the broker.
LEMMA BrokerResubscribes == Broker!Spec => []Broker!AllResubscribed
<1>1. Broker!Init => Broker!AllResubscribed
  BY DEF Broker!Init, Broker!AllResubscribed
<1>2. Broker!AllResubscribed /\ [Broker!Next]_(Broker!vars) => Broker!AllResubscribed'
  <2> SUFFICES ASSUME Broker!AllResubscribed, [Broker!Next]_(Broker!vars)
               PROVE  Broker!AllResubscribed'
    OBVIOUS
  <2>1. CASE Broker!Reconnects
    BY <2>1 DEF Broker!Reconnects, Broker!Resubscribed, Broker!Refusals,
                Broker!AllResubscribed
  <2>2. CASE Broker!ReconnectFails
    BY <2>2 DEF Broker!ReconnectFails, Broker!AllResubscribed
  <2>3. ASSUME NEW topic \in Topics, Broker!Subscribe(topic) PROVE Broker!AllResubscribed'
    BY <2>3 DEF Broker!Subscribe, Broker!Kept, Broker!Refusals, Broker!AllResubscribed
  <2>4. ASSUME NEW m \in Messages, Broker!Publish(m) PROVE Broker!AllResubscribed'
    BY <2>4 DEF Broker!Publish, Broker!Falls, Broker!AllResubscribed
  <2>5. CASE Broker!ConnectionBreaks
    BY <2>5 DEF Broker!ConnectionBreaks, Broker!Falls, Broker!AllResubscribed
  <2>6. CASE Broker!Tick
    BY <2>6 DEF Broker!Tick, Broker!AllResubscribed
  <2>7. CASE UNCHANGED Broker!vars \/ Broker!StaysConnected
    BY <2>7 DEF Broker!vars, Broker!StaysConnected, Broker!AllResubscribed
  <2> QED BY <2>1, <2>2, <2>3, <2>4, <2>5, <2>6, <2>7
          DEF Broker!Next, Broker!HealthCheck, Broker!HealthCheckWaits
<1> QED BY <1>1, <1>2, PTL DEF Broker!Spec

\* A connection that stands is one the client knows of, and what publish() sends over
\* it goes out.
PublishInv == (stands => connected) /\ Broker!PublishGoesOut

\* publish() answers true for every message over a standing connection whose length 16
\* bits can measure, and all of it goes out unless a zero byte ends it early.
LEMMA BrokerPublishes ==
  ASSUME Broker!MQTTAssumption PROVE Broker!Spec => []Broker!PublishGoesOut
<1>1. Broker!Init => PublishInv
  BY DEF Broker!Init, Broker!PublishGoesOut, PublishInv
<1>2. PublishInv /\ [Broker!Next]_(Broker!vars) => PublishInv'
  <2> SUFFICES ASSUME PublishInv, [Broker!Next]_(Broker!vars) PROVE PublishInv'
    OBVIOUS
  <2>0. stands' => connected'
    BY DEF PublishInv, Broker!Next, Broker!HealthCheck, Broker!StaysConnected,
           Broker!HealthCheckWaits, Broker!Reconnects, Broker!ReconnectFails,
           Broker!Subscribe, Broker!Publish, Broker!ConnectionBreaks, Broker!Falls,
           Broker!Tick, Broker!vars
  <2>1. CASE UNCHANGED published
    BY <2>0, <2>1 DEF PublishInv, Broker!PublishGoesOut
  <2>2. ASSUME NEW m \in Messages, Broker!Publish(m) PROVE PublishInv'
    <3>1. m.size \in Nat /\ MessageHeader \in Nat /\ BrokerV \in Nat \ {0}
          /\ BufferSize \in Nat
      BY DEF Broker!MQTTAssumption
    <3>2. MessageHeader + 2 + m.size < BrokerV
              => Broker!DataSize(m) = MessageHeader + 2 + m.size
      BY <3>1, ClockBelow DEF Broker!DataSize
    <3> DEFINE long == Broker!DataSize(m) > BufferSize
               fits == MessageHeader + 2 + m.size <= BufferSize
    <3>3. PICK on \in {FALSE, stands}, lost \in BOOLEAN :
            published' =
              [size |-> m.size, text |-> m.text, on |-> on,
               answer |-> long \/ (connected /\ fits /\ (on \/ ~lost)),
               announced |-> IF on /\ (long \/ fits) THEN m.size ELSE 0,
               sent |-> IF ~on \/ ~(long \/ fits) THEN 0
                        ELSE IF long THEN m.text ELSE m.size]
      BY <2>2, Zenon DEF Broker!Publish
    <3>4. /\ published'.on = on /\ published'.size = m.size /\ published'.text = m.text
          /\ published'.answer = (long \/ (connected /\ fits /\ (on \/ ~lost)))
          /\ published'.announced = IF on /\ (long \/ fits) THEN m.size ELSE 0
          /\ published'.sent = IF ~on \/ ~(long \/ fits) THEN 0
                               ELSE IF long THEN m.text ELSE m.size
      BY <3>3, Zenon
    <3>5. ASSUME on, MessageHeader + 2 + m.size < BrokerV PROVE long \/ (connected /\ fits)
      <4>1. long \/ fits
        BY <3>1, <3>2, <3>5
      <4> QED BY <4>1, <3>5 DEF PublishInv
    <3> QED BY <2>0, <3>4, <3>5 DEF PublishInv, Broker!PublishGoesOut
  <2> QED BY <2>1, <2>2
          DEF Broker!Next, Broker!HealthCheck, Broker!StaysConnected,
              Broker!HealthCheckWaits, Broker!Reconnects, Broker!ReconnectFails,
              Broker!Subscribe, Broker!ConnectionBreaks, Broker!Tick, Broker!vars
<1>3. PublishInv => Broker!PublishGoesOut
  BY DEF PublishInv
<1> QED BY <1>1, <1>2, <1>3, PTL DEF Broker!Spec

\* In the first half of millis()' range healthCheck() of a client without a
\* connection finds an attempt due as soon as the interval since the last failure
\* is over, narrow time stamp or not.
LEMMA BrokerTries ==
  ASSUME Broker!MQTTAssumption PROVE Broker!Spec => []Broker!TriesInFirstHalf
<1>1. BrokerTimeInv /\ StampInv => Broker!TriesInFirstHalf
  <2> SUFFICES ASSUME BrokerTimeInv, StampInv,
                      now - lastFailure > BrokerInterval, 2 * now < BrokerW
               PROVE  Broker!Due
    BY DEF Broker!TriesInFirstHalf
  <2>1. Broker!SignedMillis = now
    BY SignedReading DEF BrokerTimeInv
  <2> QED BY <2>1 DEF Broker!MQTTAssumption, BrokerTimeInv, StampInv, Broker!Due
<1> QED BY <1>1, BrokerTimesRight, PTL

\* Attempts are spaced by the interval as long as the last failure's time fits the
\* 16 bits it is kept in; MQTT_interval shows that they are not once it does not.
LEMMA BrokerSpaced ==
  ASSUME Broker!MQTTAssumption, FarBelow PROVE Broker!Spec => Broker!SpacedWhileNarrow
<1>1. Broker!Init => BrokerSpacingInv
  BY BrokerTimeInit
<1>2. BrokerTimeInv /\ BrokerSpacingInv /\ [Broker!Next]_(Broker!vars)
          => BrokerSpacingInv'
  BY BrokerSpacingStep
<1>3. BrokerTimeInv /\ BrokerSpacingInv /\ [Broker!Next]_(Broker!vars)
        => [(Broker!Reconnects \/ Broker!ReconnectFails) /\ lastFailure < BrokerV
              => now - lastFailure > BrokerInterval]_(Broker!vars)
  BY AttemptIsSpaced DEF Broker!Reconnects, Broker!ReconnectFails
<1> QED BY <1>1, <1>2, <1>3, BrokerTimesRight, PTL DEF Broker!Spec,
              Broker!SpacedWhileNarrow
-----------------------------------------------------------------------------
\* The types, for the theorem about all of Parts.
LEMMA TimerTyped ==
  ASSUME Timer!TimerAssumption PROVE Timer!Spec => []Timer!TypeOK
<1>1. TimerW \in Nat \ {0} /\ TimerMaxTime \in Nat /\ TimerBoots \subseteq 0..TimerMaxTime
      /\ CycleTimes \subseteq Nat \ {0}
  BY DEF Timer!TimerAssumption
<1>2. \A t \in Nat : t % TimerW \in 0..(TimerW - 1)
  BY <1>1, DivMod
<1>3. Timer!Init => Timer!TypeOK
  <2> SUFFICES ASSUME Timer!Init PROVE Timer!TypeOK
    OBVIOUS
  <2>1. now \in 0..TimerMaxTime /\ Timer!Millis \in 0..(TimerW - 1)
    BY <1>1, <1>2 DEF Timer!Init, Timer!Millis
  <2>2. running \in BOOLEAN /\ fired \in BOOLEAN /\ synced \in BOOLEAN
    BY Zenon DEF Timer!Init
  <2>3. began = now /\ ended = now /\ lastPoll = now
    BY DEF Timer!Init
  <2> QED BY <1>1, <2>1, <2>2, <2>3 DEF Timer!Init, Timer!TypeOK
<1>4. Timer!TypeOK /\ [Timer!Next]_(Timer!vars) => Timer!TypeOK'
  <2> SUFFICES ASSUME Timer!TypeOK, [Timer!Next]_(Timer!vars) PROVE Timer!TypeOK'
    OBVIOUS
  <2>1. now \in Nat /\ Timer!Millis \in 0..(TimerW - 1)
    BY <1>1, <1>2 DEF Timer!TypeOK, Timer!Millis
  <2> USE DEF Timer!TypeOK, Timer!watch, Timer!cycle
  <2>2. CASE Timer!StartTimer
    BY <1>1, <2>1, <2>2 DEF Timer!StartTimer
  <2>3. CASE Timer!StopTimer
    <3>1. (running \in BOOLEAN)' /\ UNCHANGED <<now, startTime, began, pastTime, timerCycle,
                                                lastPoll, synced, fired>>
      BY <2>3 DEF Timer!StopTimer
    <3>2. (stopTime \in 0..(TimerW - 1))'
      BY <2>1, <2>3 DEF Timer!StopTimer
    <3>3. ended' \in 0..now
      BY <1>1, <2>1, <2>3 DEF Timer!StopTimer
    <3> QED BY <3>1, <3>2, <3>3
  <2>4. CASE Timer!SetCycleTime
    BY <2>1, <2>4 DEF Timer!SetCycleTime
  <2>5. CASE Timer!IsCycleTime
    <3>1. timerCycle \in Nat \ {0}
      BY <1>1
    <3>2. Timer!Millis \div timerCycle \in 0..(TimerW - 1)
      <4> DEFINE q == Timer!Millis \div timerCycle
                 r == Timer!Millis % timerCycle
      <4>1. q \in Int /\ r \in 0..(timerCycle - 1) /\ Timer!Millis = timerCycle * q + r
        BY <2>1, <3>1, DivMod
      <4> HIDE DEF q, r
      <4>2. q >= 0
        BY <2>1, <3>1, <4>1
      <4>3. q <= timerCycle * q
        BY <3>1, <4>1, <4>2
      <4>4. q <= TimerW - 1
        BY <1>1, <2>1, <3>1, <4>1, <4>2, <4>3
      <4>5. q \in 0..(TimerW - 1)
        BY <4>1, <4>2, <4>4
      <4> QED BY <4>5 DEF q
    <3>3. (fired \in BOOLEAN)'
      BY <2>5 DEF Timer!IsCycleTime
    <3> QED BY <2>1, <2>5, <3>2, <3>3 DEF Timer!IsCycleTime
  <2>6. CASE Timer!Tick
    BY <1>1, <2>1, <2>6 DEF Timer!Tick
  <2>7. CASE UNCHANGED Timer!vars
    BY <2>7 DEF Timer!vars
  <2> QED BY <2>2, <2>3, <2>4, <2>5, <2>6, <2>7 DEF Timer!Next
<1> QED BY <1>3, <1>4, PTL DEF Timer!Spec

LEMMA BrokerTyped ==
  ASSUME Broker!MQTTAssumption PROVE Broker!Spec => []Broker!TypeOK
<1>1. BrokerV \in Nat \ {0} /\ BrokerMaxTime \in Nat
  BY DEF Broker!MQTTAssumption
<1>2. Broker!Init => Broker!TypeOK
  <2> SUFFICES ASSUME Broker!Init PROVE Broker!TypeOK
    OBVIOUS
  <2>1. connected \in BOOLEAN /\ stands \in BOOLEAN
    BY Zenon DEF Broker!Init
  <2> QED BY <1>1, <2>1 DEF Broker!Init, Broker!TypeOK
<1>3. Broker!TypeOK /\ [Broker!Next]_(Broker!vars) => Broker!TypeOK'
  <2> SUFFICES ASSUME Broker!TypeOK, [Broker!Next]_(Broker!vars) PROVE Broker!TypeOK'
    OBVIOUS
  <2> USE DEF Broker!TypeOK
  <2>1. CASE Broker!Reconnects
    <3>1. held' \subseteq Topics /\ refused' \subseteq Topics
      BY <2>1 DEF Broker!Reconnects, Broker!Resubscribed, Broker!Refusals
    <3>2. connected' = TRUE /\ stands' = TRUE
      BY <2>1 DEF Broker!Reconnects
    <3>3. connected' \in BOOLEAN /\ stands' \in BOOLEAN
      BY <3>2, Zenon
    <3> QED BY <1>1, <2>1, <3>1, <3>2, <3>3 DEF Broker!Reconnects
  <2>2. CASE Broker!ReconnectFails
    <3>1. lastReconnectAttempt' \in 0..(BrokerV - 1)
      BY <2>2, StampReading DEF Broker!ReconnectFails
    <3> QED BY <2>2, <3>1 DEF Broker!ReconnectFails
  <2>3. ASSUME NEW topic \in Topics, Broker!Subscribe(topic) PROVE Broker!TypeOK'
    BY <2>3 DEF Broker!Subscribe, Broker!Kept, Broker!Refusals
  <2>4. ASSUME NEW m \in Messages, Broker!Publish(m) PROVE Broker!TypeOK'
    <3>1. /\ published'.announced \in {0, published'.size}
          /\ published'.sent \in {0, published'.text, published'.size}
      BY <2>4 DEF Broker!Publish
    <3>2. /\ UNCHANGED <<now, lastReconnectAttempt, connected, subscribedTopics,
                        lastFailure>>
          /\ \/ UNCHANGED <<stands, held, refused>>
             \/ stands' = FALSE /\ held' = {} /\ refused' = {}
      BY <2>4 DEF Broker!Publish, Broker!Falls
    <3>3. stands' \in BOOLEAN
      BY <3>2, Zenon
    <3> QED BY <3>1, <3>2, <3>3
  <2>5. CASE Broker!ConnectionBreaks
    <3>1. stands' = FALSE /\ connected' \in BOOLEAN /\ stands' \in BOOLEAN
      BY <2>5, Zenon DEF Broker!ConnectionBreaks, Broker!Falls
    <3> QED BY <2>5, <3>1 DEF Broker!ConnectionBreaks, Broker!Falls
  <2>6. CASE Broker!Tick
    <3>1. now' \in 0..BrokerMaxTime /\ lastFailure' \in 0..now'
      BY <1>1, <2>6 DEF Broker!Tick
    <3> QED BY <2>6, <3>1 DEF Broker!Tick
  <2>7. CASE UNCHANGED Broker!vars \/ Broker!StaysConnected
    <3>1. connected' = connected \/ (connected' = FALSE /\ ~stands)
      BY <2>7 DEF Broker!vars, Broker!StaysConnected
    <3>2. connected' \in BOOLEAN
      BY <3>1, Zenon
    <3> QED BY <2>7, <3>2 DEF Broker!vars, Broker!StaysConnected
  <2> QED BY <2>1, <2>2, <2>3, <2>4, <2>5, <2>6, <2>7
          DEF Broker!Next, Broker!HealthCheck, Broker!HealthCheckWaits
<1> QED BY <1>2, <1>3, PTL DEF Broker!Spec

-----------------------------------------------------------------------------
\* Parts, while it is about the timer, is the timer.
LEMMA TimerAlone ==
  /\ About("timer") /\ Init => Timer!Init
  /\ About("timer") /\ [Next]_vars => [Timer!Next]_(Timer!vars)
<1>1. About("timer") /\ Init => Timer!Init
  BY DEF About, Init
<1>2. About("timer") /\ [Next]_vars => [Timer!Next]_(Timer!vars)
  BY DEF About, Next, Others, vars, watch, timer, Timer!vars, Timer!watch, Timer!cycle
<1> QED BY <1>1, <1>2

LEMMA ClientAlone ==
  /\ About("client") /\ Init => Client!Init
  /\ About("client") /\ [Next]_vars => [Client!Next]_(Client!vars)
<1>1. About("client") /\ Init => Client!Init
  BY DEF About, Init
<1>2. About("client") /\ [Next]_vars => [Client!Next]_(Client!vars)
  BY DEF About, Next, Others, vars, watch, client, Client!vars, Client!timer
<1> QED BY <1>1, <1>2

LEMMA BrokerAlone ==
  /\ About("mqtt") /\ Init => Broker!Init
  /\ About("mqtt") /\ [Next]_vars => [Broker!Next]_(Broker!vars)
<1>1. About("mqtt") /\ Init => Broker!Init
  BY DEF About, Init
<1>2. About("mqtt") /\ [Next]_vars => [Broker!Next]_(Broker!vars)
  BY DEF About, Next, Others, vars, mqtt, Broker!vars
<1> QED BY <1>1, <1>2

\* The flag of the TCP client is set exactly over a socket it has not closed, whatever
\* the program calls and whatever becomes of the server and the connection.
THEOREM FlagIsTrue == Spec => []FlagMatchesSocket
<1>1. Client!Spec => []Client!FlagMatchesSocket
  BY PartsAssumption, ClientFlag DEF PartsAssumption
<1>2. (About("client") => Client!FlagMatchesSocket) => FlagMatchesSocket
  BY DEF About, FlagMatchesSocket
<1>3. About("client") /\ [Next]_vars => About("client")'
  BY AboutStays
<1>4. ~About("client") /\ [Next]_vars => ~About("client")'
  BY AboutAlways
<1> QED BY <1>1, <1>2, <1>3, <1>4, ClientAlone, PTL DEF Spec, Client!Spec

\* connectedAction() attempts nothing within the interval after it failed, on a
\* clock of any width and across its wrap, even if sendString() connected and
\* disconnectedAction() hung up meanwhile.
THEOREM Spaced == Spec => ActionsAreSpaced
<1>1. Client!Spec => Client!ActionsAreSpaced
  BY PartsAssumption, ClientSpaced DEF PartsAssumption
<1>2. ClientInterval \in Nat
  BY PartsAssumption DEF PartsAssumption, Client!TCPAssumption
<1> DEFINE Rested == age = ClientInterval
<1>3. ~About("client") /\ Init => Rested
  BY DEF About, Init, ClientRests
<1>4. ~About("client") /\ Rested /\ [Next]_vars => Rested'
  BY DEF About, Next, Others, vars, client
<1>5. Rested => [Client!ConnectedAction /\ Client!MayTry
                   => age >= ClientInterval]_(Client!vars)
  BY <1>2
<1>6. About("client") /\ [Next]_vars => About("client")'
  BY AboutStays
<1>7. ~About("client") /\ [Next]_vars => ~About("client")'
  BY AboutAlways
<1> HIDE DEF Rested
<1> QED BY <1>1, <1>3, <1>4, <1>5, <1>6, <1>7, ClientAlone, PTL
        DEF Spec, Client!Spec, ActionsAreSpaced, Client!ActionsAreSpaced

-----------------------------------------------------------------------------
\* A polled timer misses no cycle and reports none twice, and a watch shows the time
\* that passed, whatever the order of the program's calls.
THEOREM TimerIsRight == Spec => TimerKeepsTime
<1>1. Timer!Spec => []Timer!MeasuresTime
  BY PartsAssumption, TimerMeasures DEF PartsAssumption
<1>2. Timer!Spec => Timer!TellsEachCycle
  BY PartsAssumption, TimerTells DEF PartsAssumption
<1> DEFINE Told == Timer!IsCycleTime /\ synced /\ (TimerW % timerCycle = 0 \/ now < TimerW)
                     => (fired' <=> Timer!CycleCame(lastPoll, now))
<1>3. ~About("timer") /\ [Next]_vars => [Told]_(Timer!vars)
  BY DEF About, Next, Others, vars, watch, timer, Timer!vars, Timer!watch,
         Timer!cycle, Timer!IsCycleTime
<1>4. About("timer") /\ [Next]_vars => About("timer")'
  BY AboutStays
<1>5. ~About("timer") /\ [Next]_vars => ~About("timer")'
  BY AboutAlways
<1>6. Spec => [](About("timer") => Timer!MeasuresTime)
  BY <1>1, <1>4, <1>5, TimerAlone, PTL DEF Spec, Timer!Spec
<1>7. Spec => [][Told]_(Timer!vars)
  BY <1>2, <1>3, <1>4, <1>5, TimerAlone, PTL
     DEF Spec, Timer!Spec, Timer!TellsEachCycle
<1>8. (About("timer") => Timer!MeasuresTime) <=> (part = "timer" => Timer!MeasuresTime)
  BY DEF About
<1> QED BY <1>6, <1>7, <1>8, PTL DEF TimerKeepsTime, Timer!TellsEachCycle

-----------------------------------------------------------------------------
\* Whatever breaks and reconnects, on a connection that stands every topic the program
\* ever asked for has been subscribed to, so that the broker lacks only those the
\* library refused on it, and holds none that a later reconnection would forget.
THEOREM TopicsComeBack == Spec => []AllResubscribed
<1>1. Broker!Spec => []Broker!AllResubscribed
  BY BrokerResubscribes
<1>2. (About("mqtt") => Broker!AllResubscribed) => AllResubscribed
  BY DEF About, AllResubscribed
<1>3. About("mqtt") /\ [Next]_vars => About("mqtt")'
  BY AboutStays
<1>4. ~About("mqtt") /\ [Next]_vars => ~About("mqtt")'
  BY AboutAlways
<1> QED BY <1>1, <1>2, <1>3, <1>4, BrokerAlone, PTL DEF Spec, Broker!Spec

\* A connected client gets out every message 16 bits can measure, and all of it unless
\* it holds a zero byte.
THEOREM MessagesGoOut == Spec => []PublishGoesOut
<1>1. Broker!Spec => []Broker!PublishGoesOut
  BY PartsAssumption, BrokerPublishes DEF PartsAssumption
<1>2. (About("mqtt") => Broker!PublishGoesOut) => PublishGoesOut
  BY DEF About, PublishGoesOut
<1>3. About("mqtt") /\ [Next]_vars => About("mqtt")'
  BY AboutStays
<1>4. ~About("mqtt") /\ [Next]_vars => ~About("mqtt")'
  BY AboutAlways
<1> QED BY <1>1, <1>2, <1>3, <1>4, BrokerAlone, PTL DEF Spec, Broker!Spec

\* In the first half of millis()' range a client without a connection finds an attempt
\* due as soon as the interval since the last failure is over.
THEOREM TriesAgain == Spec => []TriesInFirstHalf
<1>1. Broker!Spec => []Broker!TriesInFirstHalf
  BY PartsAssumption, BrokerTries DEF PartsAssumption
<1>2. (About("mqtt") => Broker!TriesInFirstHalf) => TriesInFirstHalf
  BY DEF About, TriesInFirstHalf
<1>3. About("mqtt") /\ [Next]_vars => About("mqtt")'
  BY AboutStays
<1>4. ~About("mqtt") /\ [Next]_vars => ~About("mqtt")'
  BY AboutAlways
<1> QED BY <1>1, <1>2, <1>3, <1>4, BrokerAlone, PTL DEF Spec, Broker!Spec

\* Attempts are spaced by the interval as long as the last failure's time fits the 16
\* bits it is kept in, if the two clocks' widths lie as far apart as the code's.
THEOREM AttemptsSpacedEarly ==
  ASSUME FarBelow
  PROVE  Spec => SpacedWhileNarrow
<1>1. Broker!Spec => Broker!SpacedWhileNarrow
  BY PartsAssumption, BrokerSpaced DEF PartsAssumption
<1>2. ~About("mqtt") /\ [Next]_vars
        => [(Broker!Reconnects \/ Broker!ReconnectFails) /\ lastFailure < BrokerV
              => now - lastFailure > BrokerInterval]_(Broker!vars)
  BY DEF About, Next, Others, vars, mqtt, Broker!vars, Broker!Reconnects,
         Broker!ReconnectFails
<1>3. About("mqtt") /\ [Next]_vars => About("mqtt")'
  BY AboutStays
<1>4. ~About("mqtt") /\ [Next]_vars => ~About("mqtt")'
  BY AboutAlways
<1> QED BY <1>1, <1>2, <1>3, <1>4, BrokerAlone, PTL
        DEF Spec, Broker!Spec, SpacedWhileNarrow, Broker!SpacedWhileNarrow
=================================================================================
