--------------------------- MODULE NetworkLoop_proofs ---------------------------
(***************************************************************************)
(* The loop of the network examples: after a turn that was told of no link *)
(* no client keeps a connection, for any number of tries and polls, any    *)
(* interval, and outages at any moment.                                    *)
(***************************************************************************)
EXTENDS NetworkLoop, TLAPS

\* What the program knows while it is between two calls of the WiFi.
ProgramInv ==
  /\ pc \notin {"setup", "health"} => call = "none"
  /\ call = "none" => at = "enter"
  /\ pc \in {"tcpUp", "send", "udpUp"} => answer
  /\ pc \in {"tcpDown", "udpDown"} => ~answer

\* What the clients' flags tell of their sockets, and how far the turn that hangs
\* them up has come.
ClientsInv ==
  /\ TCP!FlagMatchesSocket
  /\ udpFlag = 0 => udpSocket = "closed"
  /\ pc = "udpDown" => tcpFlag = 0
  /\ (pc = "delay" /\ ~answer) => tcpFlag = 0 /\ udpFlag = 0

IInv == TypeOK /\ ProgramInv /\ ClientsInv

-----------------------------------------------------------------------------
\* What the assumptions say of the constants.
LEMMA Constants ==
  /\ Polls \in Nat \ {0} /\ Tries \in Nat \ {0}
  /\ W \in Nat /\ Interval \in Nat \ {0} /\ Interval + 1 < W
  /\ Boots \subseteq 0..(W - 1)
BY NetworkAssumption DEF WiFi!WiFiAssumption, TCP!TCPAssumption

LEMMA InitInv == Init => IInv
<1> SUFFICES ASSUME Init PROVE IInv
  OBVIOUS
<1> USE Constants DEF Init
<1>1. WiFi!TypeOK
  <2>1. polls \in 0..Polls /\ cnt \in 0..(Tries - 1)
    BY DEF WiFi!Init
  <2>2. answer \in BOOLEAN
    BY DEF WiFi!Init
  <2> QED BY <2>1, <2>2, Zenon DEF WiFi!Init, WiFi!TypeOK
<1>2. TCP!TypeOK
  <2>1. millis \in 0..(W - 1) /\ gap \in 0..1 /\ age \in 0..Interval
    OBVIOUS
  <2>2. (server /\ link = "up") \in BOOLEAN
    OBVIOUS
  <2> QED BY <2>1, <2>2 DEF TCP!TypeOK
<1>3. UDP!TypeOK
  BY DEF UDP!Init, UDP!TypeOK
<1>4. ProgramInv
  BY DEF ProgramInv, WiFi!Init
<1>5. ClientsInv
  BY DEF ClientsInv, WiFi!Init, UDP!Init, TCP!FlagMatchesSocket
<1> QED BY <1>1, <1>2, <1>3, <1>4, <1>5 DEF IInv, TypeOK

-----------------------------------------------------------------------------
\* A step of the WiFi keeps its type.
LEMMA WiFiType ==
  ASSUME WiFi!TypeOK,
         \/ WiFi!Enter("begin") \/ WiFi!Enter("healthCheck")
         \/ WiFi!Step \/ WiFi!Driver \/ UNCHANGED wifi
  PROVE  WiFi!TypeOK'
<1> USE Constants DEF WiFi!TypeOK
<1>1. CASE WiFi!Enter("begin") \/ WiFi!Enter("healthCheck")
  BY <1>1 DEF WiFi!Enter
<1>2. CASE WiFi!Healthy
  BY <1>2 DEF WiFi!Healthy, WiFi!Return
<1>3. CASE WiFi!Unhealthy
  BY <1>3 DEF WiFi!Unhealthy
<1>31. CASE WiFi!Disconnect
  BY <1>31 DEF WiFi!Disconnect
<1>4. CASE WiFi!Connect
  BY <1>4 DEF WiFi!Connect
<1>5. CASE WiFi!PollAgain
  BY <1>5 DEF WiFi!PollAgain
<1>6. CASE WiFi!PollSees
  <2>1. polls' \in 0..Polls /\ cnt' \in 0..(Tries - 1)
    BY <1>6 DEF WiFi!PollSees, WiFi!Return
  <2>2. answer' \in BOOLEAN
    BY <1>6, Zenon DEF WiFi!PollSees, WiFi!Return
  <2> QED BY <1>6, <2>1, <2>2 DEF WiFi!PollSees, WiFi!Return
<1>7. CASE WiFi!GiveUp
  BY <1>7 DEF WiFi!GiveUp
<1>8. CASE WiFi!HealthAnswer
  <2>1. polls' \in 0..Polls /\ cnt' \in 0..(Tries - 1)
    BY <1>8 DEF WiFi!HealthAnswer, WiFi!Return
  <2>2. answer' \in BOOLEAN
    BY <1>8, Zenon DEF WiFi!HealthAnswer, WiFi!Return, WiFi!IsConnected
  <2> QED BY <1>8, <2>1, <2>2, Zenon DEF WiFi!HealthAnswer, WiFi!Return
<1>9. CASE WiFi!BeginFails
  <2>1. polls' \in 0..Polls /\ cnt' \in 0..(Tries - 1)
    BY <1>9 DEF WiFi!BeginFails, WiFi!Return
  <2>2. answer' \in BOOLEAN
    BY <1>9, Zenon DEF WiFi!BeginFails, WiFi!Return
  <2>3. /\ air' = air /\ link' = "off"
        /\ call' \in {"begin", "none"} /\ at' \in {"enter", "connect"}
    BY <1>9 DEF WiFi!BeginFails, WiFi!Return
  <2> QED BY <2>1, <2>2, <2>3
<1>10. CASE WiFi!Driver
  BY <1>10 DEF WiFi!Driver, WiFi!Joins, WiFi!AirComes, WiFi!AirGoes
<1>11. CASE UNCHANGED wifi
  BY <1>11 DEF wifi
<1> QED
  BY <1>1, <1>2, <1>3, <1>31, <1>4, <1>5, <1>6, <1>7, <1>8, <1>9, <1>10, <1>11
     DEF WiFi!Step

\* A step of the TCP client, of its clock or of its connection keeps its type and
\* leaves the flag true of the socket.
LEMMA TCPKeeps ==
  ASSUME TCP!TypeOK, TCP!FlagMatchesSocket,
         \/ TCP!ConnectedAction \/ TCP!DisconnectedAction \/ TCP!SendString
         \/ TCP!Breaks \/ Passes \/ UNCHANGED tcp
  PROVE  TCP!TypeOK' /\ TCP!FlagMatchesSocket'
<1> USE Constants DEF TCP!TypeOK, TCP!FlagMatchesSocket
<1>0. (server /\ link = "up")' \in BOOLEAN
  OBVIOUS
<1>1. CASE TCP!ConnectedAction
  BY <1>0, <1>1 DEF TCP!ConnectedAction, TCP!Connects, TCP!Fails, TCP!StartTimer, TCP!timer
<1>2. CASE TCP!DisconnectedAction
  BY <1>0, <1>2 DEF TCP!DisconnectedAction, TCP!StartTimer
<1>3. CASE TCP!SendString
  BY <1>0, <1>3 DEF TCP!SendString, TCP!Connects, TCP!Fails, TCP!timer
<1>4. CASE TCP!Breaks
  BY <1>0, <1>4 DEF TCP!Breaks, TCP!timer
<1>5. CASE Passes
  BY <1>0, <1>5 DEF Passes, TCP!Passes
<1>6. CASE UNCHANGED tcp
  BY <1>0, <1>6 DEF tcp
<1> QED BY <1>1, <1>2, <1>3, <1>4, <1>5, <1>6

\* A step of the UDP client keeps its type and closes the socket with the flag.
LEMMA UDPKeeps ==
  ASSUME UDP!TypeOK, udpFlag = 0 => udpSocket = "closed",
         UDP!ConnectedAction \/ UDP!DisconnectedAction \/ UNCHANGED udp
  PROVE  UDP!TypeOK' /\ (udpFlag' = 0 => udpSocket' = "closed")
BY DEF UDP!TypeOK, UDP!ConnectedAction, UDP!DisconnectedAction, UDP!vars, udp

\* A connection that goes with the link is broken, not closed.
LEMMA AirKeeps ==
  ASSUME TCP!TypeOK, TCP!FlagMatchesSocket, TheAir
  PROVE  TCP!TypeOK' /\ TCP!FlagMatchesSocket'
<1>1. (server /\ link = "up")' \in BOOLEAN
  OBVIOUS
<1> QED BY <1>1 DEF TheAir, TCP!TypeOK, TCP!FlagMatchesSocket

\* The invariant is kept by the program.
LEMMA ProgramStep ==
  ASSUME IInv, Program \/ Send
  PROVE  IInv'
<1> DEFINE Pcs == {"setup", "health", "tcpUp", "send", "udpUp", "tcpDown", "udpDown",
                   "delay"}
<1>0. /\ WiFi!TypeOK /\ TCP!TypeOK /\ TCP!FlagMatchesSocket /\ UDP!TypeOK
      /\ udpFlag = 0 => udpSocket = "closed"
      /\ server \in BOOLEAN /\ pc \in Pcs
  BY DEF IInv, TypeOK, ClientsInv
<1>1. SUFFICES /\ WiFi!TypeOK' /\ TCP!TypeOK' /\ TCP!FlagMatchesSocket' /\ UDP!TypeOK'
               /\ udpFlag' = 0 => udpSocket' = "closed"
               /\ server' = server /\ pc' \in Pcs
               /\ ProgramInv'
               /\ pc' = "udpDown" => tcpFlag' = 0
               /\ (pc' = "delay" /\ ~answer') => tcpFlag' = 0 /\ udpFlag' = 0
  BY <1>0 DEF IInv, TypeOK, ClientsInv
<1>2. CASE CallBegin \/ CallHealth
  <2>1. /\ WiFi!Enter("begin") \/ WiFi!Enter("healthCheck")
        /\ pc \in {"setup", "health"} /\ UNCHANGED <<pc, server, tcp, udp>>
    BY <1>2 DEF CallBegin, CallHealth
  <2>2. ProgramInv'
    BY <1>2, <2>1 DEF CallBegin, CallHealth, ProgramInv, WiFi!Enter
  <2> QED BY <1>0, <2>1, <2>2, WiFiType, TCPKeeps, UDPKeeps
<1>3. CASE WiFiStep
  <2>1. WiFi!Step /\ (Passes \/ UNCHANGED tcp) /\ UNCHANGED <<server, udp>>
        /\ \/ call' # "none" /\ pc' = pc
           \/ call' = "none" /\ pc' \in {"health", "tcpUp", "tcpDown"}
    <3>1. WiFi!Step /\ UNCHANGED <<server, udp>>
      BY <1>3 DEF WiFiStep
    <3>2. Passes \/ UNCHANGED tcp
      BY <1>3, Zenon DEF WiFiStep
    <3>3. (call' # "none" /\ pc' = pc)
          \/ (call' = "none" /\ pc' \in {"health", "tcpUp", "tcpDown"})
      BY <1>3 DEF WiFiStep
    <3> QED BY <3>1, <3>2, <3>3
  <2>2. at # "enter" \/ call = "healthCheck"
    BY <2>1 DEF WiFi!Step, WiFi!Healthy, WiFi!Unhealthy, WiFi!Disconnect, WiFi!Connect,
                WiFi!PollAgain, WiFi!PollSees, WiFi!GiveUp, WiFi!HealthAnswer, WiFi!BeginFails
  <2>3. pc \in {"setup", "health"}
    BY <1>0, <2>2 DEF IInv, ProgramInv
  <2>4. call' = "none" => at' = "enter"
    BY <1>0, <2>1, <2>2 DEF IInv, ProgramInv, WiFi!Step, WiFi!Healthy, WiFi!Unhealthy,
                WiFi!Disconnect, WiFi!Connect, WiFi!PollAgain, WiFi!PollSees, WiFi!GiveUp,
                WiFi!HealthAnswer, WiFi!BeginFails, WiFi!Return
  <2>5. ProgramInv'
    BY <1>3, <2>3, <2>4 DEF WiFiStep, ProgramInv
  <2>6. pc' \in {"setup", "health", "tcpUp", "tcpDown"}
    BY <2>1, <2>3
  <2> QED BY <1>0, <2>1, <2>5, <2>6, WiFiType, TCPKeeps, UDPKeeps
<1>4. CASE Restarts
  <2>1. /\ WiFi!Step /\ call' = "none" /\ at' = "enter" /\ pc = "setup"
        /\ UNCHANGED <<pc, server, tcpFlag, socket, gap, age, udp>>
        /\ millis' \in Boots /\ startTime' = millis' /\ stopTime' = millis'
    <3>1. /\ WiFi!BeginFails /\ call' = "none" /\ pc = "setup"
          /\ UNCHANGED <<pc, server, tcpFlag, socket, gap, age, udp>>
          /\ millis' \in Boots /\ startTime' = millis' /\ stopTime' = millis'
      BY <1>4 DEF Restarts
    <3>2. at' = "enter"
      BY <3>1 DEF WiFi!BeginFails, WiFi!Return
    <3> QED BY <3>1, <3>2 DEF WiFi!Step
  <2>2. ProgramInv'
    BY <2>1 DEF ProgramInv
  <2>3. TCP!TypeOK' /\ TCP!FlagMatchesSocket'
    <3>1. (server /\ link = "up")' \in BOOLEAN
      OBVIOUS
    <3> QED BY <1>0, <2>1, <3>1, Constants DEF TCP!TypeOK, TCP!FlagMatchesSocket
  <2> QED BY <1>0, <2>1, <2>2, <2>3, WiFiType, UDPKeeps
<1>5. CASE TCPUp \/ Send \/ NoSend
  <2>1. /\ TCP!ConnectedAction \/ TCP!SendString \/ UNCHANGED tcp
        /\ pc \in {"tcpUp", "send"} /\ pc' \in {"send", "udpUp"}
        /\ UNCHANGED <<wifi, server, udp>>
    BY <1>5 DEF TCPUp, Send, NoSend, Go
  <2>2. ProgramInv'
    BY <2>1 DEF IInv, ProgramInv, wifi
  <2> QED BY <1>0, <2>1, <2>2, WiFiType, TCPKeeps, UDPKeeps
<1>6. CASE TCPDown
  <2>1. /\ TCP!DisconnectedAction \/ (tcpFlag # 1 /\ UNCHANGED tcp)
        /\ pc = "tcpDown" /\ pc' = "udpDown"
        /\ UNCHANGED <<wifi, server, udp>>
    BY <1>6 DEF TCPDown, Go
  <2>2. ProgramInv'
    BY <2>1 DEF IInv, ProgramInv, wifi
  <2>3. tcpFlag' = 0
    BY <1>0, <2>1 DEF TCP!DisconnectedAction, TCP!TypeOK, tcp
  <2> QED BY <1>0, <2>1, <2>2, <2>3, WiFiType, TCPKeeps, UDPKeeps
<1>7. CASE UDPUp
  <2>1. /\ UDP!ConnectedAction /\ UNCHANGED tcp
        /\ pc = "udpUp" /\ pc' = "delay"
        /\ UNCHANGED <<wifi, server>>
    BY <1>7 DEF UDPUp, Go
  <2>2. ProgramInv' /\ answer'
    BY <2>1 DEF IInv, ProgramInv, wifi
  <2> QED BY <1>0, <2>1, <2>2, WiFiType, TCPKeeps, UDPKeeps
<1>8. CASE UDPDown
  <2>1. /\ UDP!DisconnectedAction /\ UNCHANGED tcp
        /\ pc = "udpDown" /\ pc' = "delay"
        /\ UNCHANGED <<wifi, server>>
    BY <1>8 DEF UDPDown, Go
  <2>2. ProgramInv'
    BY <2>1 DEF IInv, ProgramInv, wifi
  <2>3. tcpFlag' = 0 /\ udpFlag' = 0
    BY <1>0, <2>1 DEF IInv, ClientsInv, UDP!DisconnectedAction, UDP!TypeOK, UDP!vars, tcp
  <2> QED BY <1>0, <2>1, <2>2, <2>3, WiFiType, TCPKeeps, UDPKeeps
<1>9. CASE Delay
  <2>1. /\ Passes /\ UNCHANGED udp
        /\ pc = "delay" /\ pc' = "health"
        /\ UNCHANGED <<wifi, server>>
    BY <1>9 DEF Delay, Go
  <2>2. ProgramInv'
    BY <2>1 DEF IInv, ProgramInv, wifi
  <2> QED BY <1>0, <2>1, <2>2, WiFiType, TCPKeeps, UDPKeeps
<1> QED BY <1>2, <1>3, <1>4, <1>5, <1>6, <1>7, <1>8, <1>9 DEF Program

\* The invariant is kept by the air and the server.
LEMMA SurroundingsStep ==
  ASSUME IInv, TheAir \/ TheServer \/ UNCHANGED vars
  PROVE  IInv'
<1>0. WiFi!TypeOK /\ TCP!TypeOK /\ TCP!FlagMatchesSocket /\ UDP!TypeOK
  BY DEF IInv, TypeOK, ClientsInv
<1>1. UNCHANGED <<pc, tcpFlag, udp, call, at, answer>>
  BY DEF TheAir, TheServer, WiFi!Driver, WiFi!Joins, WiFi!AirComes, WiFi!AirGoes,
         TCP!Breaks, wifi, tcp, vars
<1>2. WiFi!TypeOK'
  BY <1>0, WiFiType DEF TheAir, TheServer, vars
<1>3. TCP!TypeOK' /\ TCP!FlagMatchesSocket'
  <2>1. CASE TheAir
    BY <1>0, <2>1, AirKeeps
  <2>2. CASE ~TheAir
    <3>1. UNCHANGED tcp \/ TCP!Breaks
      BY <2>2 DEF TheServer, vars
    <3> QED BY <1>0, <3>1, TCPKeeps
  <2> QED BY <2>1, <2>2
<1>4. server' \in BOOLEAN
  BY DEF IInv, TypeOK, TheAir, TheServer, vars
<1> QED BY <1>0, <1>1, <1>2, <1>3, <1>4
        DEF IInv, TypeOK, UDP!TypeOK, ProgramInv, ClientsInv, udp

-----------------------------------------------------------------------------
LEMMA Invariance == Spec => []IInv
<1>1. IInv /\ [Next]_vars => IInv'
  BY ProgramStep, SurroundingsStep DEF Next
<1> QED BY InitInv, <1>1, PTL DEF Spec

\* Every variable of the program, of the three objects and of their surroundings
\* keeps its type.
THEOREM TypeCorrect == Spec => []TypeOK
<1>1. IInv => TypeOK
  BY DEF IInv
<1> QED BY <1>1, Invariance, PTL

\* A turn of loop() that healthCheck() told of no link leaves no client with a
\* connection or a socket, whenever the link went and whatever the clients had been
\* doing (TCPClientESP32::disconnectedAction(), UDPClientESP32::disconnectedAction()).
THEOREM LossClosesAll == Spec => []LostLinkClosesAll
<1>1. IInv => LostLinkClosesAll
  BY DEF IInv, TypeOK, TCP!TypeOK, ClientsInv, TCP!FlagMatchesSocket, LostLinkClosesAll
<1> QED BY <1>1, Invariance, PTL
=============================================================================
