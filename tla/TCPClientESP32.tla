----------------------------- MODULE TCPClientESP32 -----------------------------
(***************************************************************************)
(* TCPClientESP32 (src/src/TCPClientESP32.cpp) with the Timer that spaces  *)
(* its attempts, a server that comes and goes, and a connection that may   *)
(* break behind the client's back.  loop() calls the client's functions in *)
(* any order the program likes; connectedAction() it calls regularly.      *)
(*                                                                         *)
(* millis() runs round a finite clock, so that time has no end here.       *)
(***************************************************************************)
EXTENDS Integers

CONSTANTS
  W,           \* millis() counts modulo W (2^32)
  Interval,    \* _reconnectIntervalMs
  MaxGap,      \* the longest time between two calls of connectedAction()
  Boots,       \* what millis() reads when the client is constructed
  Sends,       \* whether the program calls sendString()
  Hangs        \* whether the program calls disconnectedAction()

TCPAssumption ==
  /\ Interval \in Nat \ {0} /\ MaxGap \in Nat \ {0}
  /\ W \in Nat /\ Interval + MaxGap < W
  /\ Boots \subseteq 0..(W - 1)
  /\ Sends \in BOOLEAN /\ Hangs \in BOOLEAN

VARIABLES
  millis,      \* what millis() reads
  tcpFlag,     \* _tcpFlag
  startTime, stopTime,   \* _timer
  socket,      \* the WiFiClient: "closed", "open", or "broken" by the network
  server,      \* whether the server would accept a connection
  gap,         \* time since connectedAction() was last called
  age          \* history: time since connectedAction() last failed, up to
               \* Interval

timer == <<startTime, stopTime>>
vars  == <<millis, tcpFlag, timer, socket, server, gap, age>>

\* Timer() is constructed stopped, its two times equal; see Timer.
Init ==
  /\ millis \in Boots
  /\ tcpFlag = 0
  /\ startTime = millis /\ stopTime = millis
  /\ socket = "closed" /\ server \in BOOLEAN
  /\ gap = 0 /\ age = Interval

-----------------------------------------------------------------------------
\* Mutant of StartTimer: the end of the interval is kept instead of its start.
StartTimerAtEnd == startTime' = millis + Interval /\ stopTime' = 0

\* Mutant of GetTime: signed arithmetic.
GetTimeSigned == (IF stopTime = 0 THEN millis ELSE stopTime) - startTime

\* Timer::startTimer() and Timer::getTime().
StartTimer == startTime' = millis /\ stopTime' = 0
GetTime    == ((IF stopTime = 0 THEN millis ELSE stopTime) - startTime) % W

\* Mutant of Fails: the socket is not stopped.
FailsUnstopped == ~server /\ tcpFlag' = 0 /\ socket' = "broken"

\* connect() of the WiFiClient.
Connects == server /\ tcpFlag' = 1 /\ socket' = "open"
Fails    == ~server /\ tcpFlag' = 0 /\ socket' = "closed"

\* Mutant of MayTry: the interval is not waited for.
MayTryAtOnce == tcpFlag = 0

MayTry == tcpFlag = 0 /\ GetTime >= Interval

\* connectedAction(); begin() is no more than that.
ConnectedAction ==
  /\ gap' = 0
  /\ \/ ~MayTry /\ UNCHANGED <<tcpFlag, socket, timer, age>>
     \/ MayTry /\ Connects /\ UNCHANGED <<timer, age>>
     \/ MayTry /\ Fails /\ StartTimer /\ age' = 0
  /\ UNCHANGED <<millis, server>>

DisconnectedAction ==
  /\ Hangs
  /\ tcpFlag = 1
  /\ tcpFlag' = 0 /\ socket' = "closed"
  /\ StartTimer
  /\ UNCHANGED <<millis, server, gap, age>>

\* Mutant of SendString: no connection is made.
SendStringUnconnected ==
  Sends /\ tcpFlag = 0 /\ UNCHANGED vars

\* sendString(): without a connection it makes one first, interval or not, and a
\* failure starts no interval; with one it changes nothing, as what print() does
\* with the text is not looked at.
SendString ==
  /\ Sends
  /\ tcpFlag = 0
  /\ Connects \/ Fails
  /\ UNCHANGED <<millis, timer, server, gap, age>>

-----------------------------------------------------------------------------
\* The surroundings: the server starts and stops accepting, the connection
\* breaks (the peer closes it, the link is lost), and time goes by.
ServerChanges ==
  /\ server' = ~server
  /\ UNCHANGED <<millis, tcpFlag, timer, socket, gap, age>>

Breaks ==
  /\ socket = "open"
  /\ socket' = "broken"
  /\ UNCHANGED <<millis, tcpFlag, timer, server, gap, age>>

Passes ==
  /\ millis' = (millis + 1) % W
  /\ age' = IF age < Interval THEN age + 1 ELSE age

Tick ==
  /\ gap < MaxGap
  /\ Passes
  /\ gap' = gap + 1
  /\ UNCHANGED <<tcpFlag, timer, socket, server>>

Client == ConnectedAction \/ DisconnectedAction \/ SendString
Next == Client \/ ServerChanges \/ Breaks \/ Tick
Spec == Init /\ [][Next]_vars

\* loop() goes on, and so does time; nothing is promised of the network, nor
\* of what else the program calls.
FairSpec == Spec /\ WF_vars(ConnectedAction) /\ WF_vars(Tick)

-----------------------------------------------------------------------------
\* The type of the client's state.
TypeOK ==
  /\ millis \in 0..(W - 1)
  /\ tcpFlag \in {0, 1}
  /\ startTime \in 0..(W - 1) /\ stopTime \in 0..(W - 1)
  /\ socket \in {"closed", "open", "broken"}
  /\ server \in BOOLEAN
  /\ gap \in 0..MaxGap /\ age \in 0..Interval

\* The flag is the client's only knowledge of the socket: it is never set over
\* a socket the client closed, nor clear over one it left open.
FlagMatchesSocket == tcpFlag = 1 <=> socket # "closed"

\* After connectedAction() failed, it attempts no other time before the interval
\* is over (line 11, "the shortest interval at which a reconnection is
\* attempted"), whatever other calls come between.
ActionsAreSpaced == [][ConnectedAction /\ MayTry => age >= Interval]_vars

\* connectedAction() tries to connect when there is no connection (line 43):
\* a client without one gets one, if the server goes on accepting.
EventuallyConnects == (tcpFlag = 0 /\ <>[]server) ~> (tcpFlag = 1)

\* The same of a client whose timer has been started by a failure or a hangup.
StartedConnects ==
  (tcpFlag = 0 /\ stopTime = 0 /\ <>[]server) ~> (tcpFlag = 1)
=============================================================================
