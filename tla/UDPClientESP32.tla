----------------------------- MODULE UDPClientESP32 -----------------------------
(***************************************************************************)
(* UDPClientESP32 (src/src/UDPClientESP32.cpp): a flag over a socket of    *)
(* the platform's WiFiUDP, which may fail to open.  send() changes neither.*)
(***************************************************************************)
EXTENDS Integers

CONSTANT BindMayFail    \* WiFiUDP::begin() may fail

VARIABLES
  udpFlag,     \* _udpFlag
  udpSocket    \* the WiFiUDP: "closed", "open", or "refused": its begin() failed

vars == <<udpFlag, udpSocket>>

Init == udpFlag = 0 /\ udpSocket = "closed"

\* connectedAction(), and begin(), which is no more than that.  The flag is set
\* whatever the socket does.
ConnectedAction ==
  IF udpFlag = 0
    THEN /\ udpFlag' = 1
         /\ udpSocket' \in IF BindMayFail THEN {"open", "refused"} ELSE {"open"}
    ELSE UNCHANGED vars

\* Mutant of DisconnectedAction: the flag stays.
DisconnectedActionKeepsFlag ==
  IF udpFlag = 1 THEN udpSocket' = "closed" /\ UNCHANGED udpFlag ELSE UNCHANGED vars

DisconnectedAction ==
  IF udpFlag = 1 THEN udpFlag' = 0 /\ udpSocket' = "closed" ELSE UNCHANGED vars

\* The type of the client's state.
TypeOK == udpFlag \in {0, 1} /\ udpSocket \in {"open", "refused", "closed"}
=============================================================================
