------------------------------ MODULE NetworkLoop ------------------------------
(***************************************************************************)
(* The program of the examples: setup() brings the WiFi up, or leaves that *)
(* to loop(), and loop() runs healthCheck() and then lets the TCP and UDP  *)
(* clients act on its answer (examples/TCPClientESP32, UDPClientESP32 and, *)
(* for setup(), MQTTClientESP32).  The air comes and goes at any moment,   *)
(* in the middle of a healthCheck() too, and the server as it likes.       *)
(***************************************************************************)
EXTENDS Integers

CONSTANTS Polls, Tries,          \* see WiFiESP32
          W, Interval, Boots,    \* see TCPClientESP32
          BindMayFail            \* see UDPClientESP32

VARIABLES
  pc,                                           \* where the program is
  air, link, call, at, polls, cnt, answer,      \* see WiFiESP32
  server,                                       \* whether the server accepts
  millis, tcpFlag, startTime, stopTime, socket, gap, age,   \* see TCPClientESP32
  udpFlag, udpSocket                            \* see UDPClientESP32

\* Only a link that is up reaches the server.
WiFi == INSTANCE WiFiESP32
TCP  == INSTANCE TCPClientESP32 WITH
  server <- server /\ link = "up", MaxGap <- 1, Sends <- TRUE, Hangs <- TRUE
UDP  == INSTANCE UDPClientESP32

wifi == <<air, link, call, at, polls, cnt, answer>>
udp  == <<udpFlag, udpSocket>>
tcp  == <<millis, tcpFlag, startTime, stopTime, socket, gap, age>>
vars == <<pc, wifi, server, tcp, udp>>

ASSUME NetworkAssumption == WiFi!WiFiAssumption /\ TCP!TCPAssumption

\* Only the MQTT example calls begin(); the others start with loop().
Init ==
  /\ WiFi!Init /\ UDP!Init
  /\ server \in BOOLEAN
  /\ millis \in Boots /\ startTime = millis /\ stopTime = millis
  /\ tcpFlag = 0 /\ socket = "closed" /\ gap = 0 /\ age = Interval
  /\ pc \in {"setup", "health"}

-----------------------------------------------------------------------------
\* A turn of a polling loop takes time; the rest takes none to speak of.
Passes == TCP!Passes /\ UNCHANGED <<tcpFlag, startTime, stopTime, socket, gap>>

CallBegin  == /\ pc = "setup" /\ WiFi!Enter("begin")
              /\ UNCHANGED <<pc, server, tcp, udp>>
CallHealth == /\ pc = "health" /\ WiFi!Enter("healthCheck")
              /\ UNCHANGED <<pc, server, tcp, udp>>

\* A call goes on, or returns.
WiFiStep ==
  /\ WiFi!Step
  /\ IF polls' > polls THEN Passes ELSE UNCHANGED tcp
  /\ \/ call' # "none" /\ UNCHANGED pc
     \/ call' = "none" /\ pc = "setup" /\ answer' /\ pc' = "health"
     \/ call' = "none" /\ pc = "health" /\ pc' = IF answer' THEN "tcpUp" ELSE "tcpDown"
  /\ UNCHANGED <<server, udp>>

\* setup() restarts the processor when begin() fails.
Restarts ==
  /\ WiFi!BeginFails
  /\ pc = "setup" /\ call' = "none"
  /\ millis' \in Boots /\ startTime' = millis' /\ stopTime' = millis'
  /\ UNCHANGED <<pc, server, tcpFlag, socket, gap, age, udp>>

Go(from, to) == pc = from /\ pc' = to /\ UNCHANGED <<wifi, server>>

TCPUp   == Go("tcpUp", "send") /\ TCP!ConnectedAction /\ UNCHANGED udp
TCPDown == /\ Go("tcpDown", "udpDown")
           /\ TCP!DisconnectedAction \/ (tcpFlag # 1 /\ UNCHANGED tcp)
           /\ UNCHANGED udp

\* The program has something to send, or not yet.
Send   == /\ Go("send", "udpUp")
          /\ TCP!SendString \/ (tcpFlag = 1 /\ UNCHANGED tcp)
          /\ UNCHANGED udp
NoSend == Go("send", "udpUp") /\ UNCHANGED <<tcp, udp>>

UDPUp   == Go("udpUp", "delay") /\ UDP!ConnectedAction /\ UNCHANGED tcp
UDPDown == Go("udpDown", "delay") /\ UDP!DisconnectedAction /\ UNCHANGED tcp

Delay == Go("delay", "health") /\ Passes /\ UNCHANGED udp

Program == \/ CallBegin \/ CallHealth \/ WiFiStep \/ Restarts \/ TCPUp \/ TCPDown
           \/ NoSend \/ UDPUp \/ UDPDown \/ Delay

\* A connection does not outlive the link.
TheAir ==
  /\ WiFi!Driver
  /\ socket' = IF socket = "open" /\ link' # "up" THEN "broken" ELSE socket
  /\ UNCHANGED <<pc, server, millis, tcpFlag, startTime, stopTime, gap, age, udp>>

TheServer ==
  /\ UNCHANGED <<pc, wifi, udp>>
  /\ \/ server' = ~server /\ UNCHANGED tcp
     \/ UNCHANGED server /\ TCP!Breaks

Next == Program \/ Send \/ TheAir \/ TheServer
Spec == Init /\ [][Next]_vars

\* The processor goes on; a program that gets the chance to send again and again
\* does send; a driver that may join during one wait after another does join
\* during one.  Nothing else is promised.
FairSpec ==
  /\ Spec
  /\ WF_vars(Program) /\ SF_vars(Send)
  /\ SF_vars(TheAir /\ WiFi!JoinsInTime)

-----------------------------------------------------------------------------
\* The type of the program's state.
TypeOK ==
  /\ WiFi!TypeOK /\ TCP!TypeOK /\ UDP!TypeOK
  /\ server \in BOOLEAN
  /\ pc \in {"setup", "health", "tcpUp", "send", "udpUp", "tcpDown", "udpDown",
             "delay"}

\* A turn of loop() that was told of no link leaves no client with a connection
\* or a socket from before the loss.
LostLinkClosesAll ==
  (pc = "delay" /\ ~answer) =>
    /\ tcpFlag = 0 /\ socket = "closed"
    /\ udpFlag = 0 /\ udpSocket = "closed"

\* healthCheck() and begin() retry (WiFiESP32.cpp:106): with the access point in
\* reach for good, the link comes up and is not torn down again by a check that
\* looked at it too early; and one that stays away leaves no client thinking it is
\* connected.
FollowsTheAir ==
  /\ <>[]air => <>[](link = "up")
  /\ <>[]~air => <>[](tcpFlag = 0 /\ udpFlag = 0)

\* Through any number of outages and restarts, a program that goes on sending has
\* its connection in the end, unless it breaks unnoticed, and its UDP port, unless
\* that is refused; and a loss that loop() was told of ends both exceptions.
EventuallyServed ==
  /\ <>[](air /\ server /\ socket # "broken") => <>[](socket = "open")
  /\ <>[](air /\ udpSocket # "refused") => <>[](udpSocket = "open")
  /\ <>[](air /\ server) => (pc = "delay" /\ ~answer) ~> (socket = "open")
  /\ <>[]air => (pc = "delay" /\ ~answer) ~> (udpSocket \in {"open", "refused"})

\* connectedAction() "tries to connect when there is no connection"
\* (TCPClientESP32.cpp:43): a connection that breaks is replaced in the end, if the
\* access point and the server stay.
DeadIsReplaced == <>[](air /\ server) => (socket = "broken") ~> (socket = "open")
=============================================================================
