----------------------------- MODULE InfraredRemote -----------------------------
(***************************************************************************)
(* InfraredRemote (src/src/InfraredRemote.cpp): one outstanding request to *)
(* send, taken by drive(), and the frame the last poll received.  The      *)
(* IRremote library holds one received frame until it is told to resume.   *)
(***************************************************************************)
EXTENDS Integers

CONSTANTS
  Frames,      \* raw data and protocol of what is sent and received
  Nothing,     \* data and protocol zero
  Supported    \* whether protocol_ is RC6

VARIABLES
  txData, requestSend,   \* txData_, requestSend_
  received,              \* receivedData_
  held,                  \* the library: the frame it decoded, or Nothing
  asked,                 \* history: what was last requested
  sent                   \* history: what was last sent

vars == <<txData, requestSend, received, held, asked, sent>>

Init ==
  /\ txData = Nothing /\ requestSend = FALSE
  /\ received = Nothing /\ held = Nothing
  /\ asked = Nothing /\ sent = Nothing

\* requestSend(): a request that has not been sent yet is replaced.
RequestSend ==
  /\ \E f \in Frames : txData' = f /\ asked' = f
  /\ requestSend' = TRUE
  /\ UNCHANGED <<received, held, sent>>

\* Mutant of TakesRequest: it is left standing.
TakesRequestTwice == requestSend /\ UNCHANGED requestSend

\* isRequestSend() when it answers TRUE.
TakesRequest == requestSend /\ requestSend' = FALSE

\* sendIR(), which sends in one protocol only, and says nothing of any other.
SendIR == sent' = IF Supported THEN txData ELSE sent

Drive ==
  /\ TakesRequest
  /\ SendIR
  /\ UNCHANGED <<txData, received, held, asked>>

\* A program that calls isRequestSend() itself takes the request from drive().
IsRequestSend ==
  /\ TakesRequest
  /\ asked' = Nothing
  /\ UNCHANGED <<txData, received, held, sent>>

\* recieveIR(): a poll that finds nothing forgets the frame before it.
RecieveIR ==
  /\ received' = held
  /\ held' = Nothing
  /\ UNCHANGED <<txData, requestSend, asked, sent>>

ClearReceivedData ==
  /\ received' = Nothing
  /\ UNCHANGED <<txData, requestSend, held, asked, sent>>

FrameArrives ==
  /\ held = Nothing
  /\ held' \in Frames
  /\ UNCHANGED <<txData, requestSend, received, asked, sent>>

Next == \/ RequestSend \/ Drive \/ IsRequestSend \/ RecieveIR
        \/ ClearReceivedData \/ FrameArrives

-----------------------------------------------------------------------------
\* The type of the remote's state.
TypeOK ==
  /\ {txData, received, held, asked, sent} \subseteq Frames \cup {Nothing}
  /\ requestSend \in BOOLEAN

\* The last request of a program that goes on calling drive() is sent; and each is
\* sent once (line 156): drive() comes to rest unless the requests go on.
LastRequestGoesOut ==
  /\ \A f \in Frames : <>[](asked = f) => <>[](sent = f)
  /\ []<><<RequestSend>>_vars \/ <>[](~requestSend)
=============================================================================
