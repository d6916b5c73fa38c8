------------------------------- MODULE WiFiESP32 -------------------------------
(***************************************************************************)
(* WiFiESP32 (src/src/WiFiESP32.cpp): begin() and healthCheck() block the  *)
(* program while they poll the driver, which joins the access point, loses *)
(* it and rejoins it on its own meanwhile.  The driver and the air are     *)
(* outside.                                                                *)
(***************************************************************************)
EXTENDS Integers

CONSTANTS
  Polls,      \* WIFI_TRY_WAIT / 500: how often connectWiFi() looks
  Tries       \* WIFI_TRY_TIME: how many connectWiFi() begin() makes

WiFiAssumption == Polls \in Nat \ {0} /\ Tries \in Nat \ {0}

VARIABLES
  air,        \* whether the access point is in reach
  link,       \* the driver: "off", "joining", or "up" (WL_CONNECTED)
  call,       \* the function the program is in: "begin", "healthCheck", "none"
  at,         \* where in it: "enter", "disconnect", "connect", "poll", "end"
  polls,      \* tryTime / 500 of connectWiFi()
  cnt,        \* cnt of begin()
  answer      \* what the last call returned

vars == <<air, link, call, at, polls, cnt, answer>>

Init ==
  /\ air \in BOOLEAN /\ link = "off"
  /\ call = "none" /\ at = "enter"
  /\ polls = 0 /\ cnt = 0 /\ answer = FALSE

-----------------------------------------------------------------------------
\* WiFi.status() == WL_CONNECTED.
IsConnected == link = "up"

\* The program calls begin() or healthCheck().
Enter(function) ==
  /\ call = "none"
  /\ call' = function /\ at' = IF function = "begin" THEN "connect" ELSE "enter"
  /\ cnt' = 0
  /\ UNCHANGED <<air, link, polls, answer>>

Return(a) == answer' = a /\ call' = "none" /\ at' = "enter" /\ UNCHANGED cnt

\* Mutant of Healthy: the link is taken for granted once it has been up.
HealthyOnce ==
  /\ call = "healthCheck" /\ at = "enter"
  /\ IsConnected \/ answer
  /\ Return(TRUE)
  /\ UNCHANGED <<air, link, polls>>

Healthy ==
  /\ call = "healthCheck" /\ at = "enter"
  /\ IsConnected
  /\ Return(TRUE)
  /\ UNCHANGED <<air, link, polls>>

Unhealthy ==
  /\ call = "healthCheck" /\ at = "enter"
  /\ ~IsConnected
  /\ at' = "disconnect"
  /\ UNCHANGED <<air, link, call, polls, cnt, answer>>

\* disconnectWiFi(), on a link that may have come up since it was looked at.
Disconnect ==
  /\ at = "disconnect"
  /\ link' = "off" /\ at' = "connect"
  /\ UNCHANGED <<air, call, polls, cnt, answer>>

\* connectWiFi() up to its loop.
Connect ==
  /\ at = "connect"
  /\ link' = "joining" /\ polls' = 0 /\ at' = "poll"
  /\ UNCHANGED <<air, call, cnt, answer>>

\* One turn of connectWiFi()'s loop: it waits, then looks.  A healthCheck()
\* looks once more before it answers; begin() answers at once.
PollAgain ==
  /\ at = "poll" /\ polls < Polls
  /\ ~IsConnected
  /\ polls' = polls + 1
  /\ UNCHANGED <<air, link, call, at, cnt, answer>>

PollSees ==
  /\ at = "poll" /\ polls < Polls
  /\ IsConnected
  /\ polls' = polls + 1
  /\ IF call = "begin" THEN Return(TRUE)
                       ELSE at' = "end" /\ UNCHANGED <<call, cnt, answer>>
  /\ UNCHANGED <<air, link>>

GiveUp ==
  /\ at = "poll" /\ polls >= Polls
  /\ at' = "end"
  /\ UNCHANGED <<air, link, call, polls, cnt, answer>>

\* healthCheck() ends with isConnected(), whatever connectWiFi() returned.
HealthAnswer ==
  /\ call = "healthCheck" /\ at = "end"
  /\ Return(IsConnected)
  /\ UNCHANGED <<air, link, polls>>

\* begin() disconnects after each failure, the last included.
BeginFails ==
  /\ call = "begin" /\ at = "end"
  /\ link' = "off"
  /\ IF cnt + 1 >= Tries
       THEN Return(FALSE)
       ELSE cnt' = cnt + 1 /\ at' = "connect" /\ UNCHANGED <<call, answer>>
  /\ UNCHANGED <<air, polls>>

Step == \/ Healthy \/ Unhealthy \/ Disconnect \/ Connect \/ PollAgain \/ PollSees
        \/ GiveUp \/ HealthAnswer \/ BeginFails

-----------------------------------------------------------------------------
\* The driver and the air.  A link lost with the air is looked for again by the
\* driver, or given up.
Joins == link = "joining" /\ air /\ link' = "up"
         /\ UNCHANGED <<air, call, at, polls, cnt, answer>>

AirComes == ~air /\ air' = TRUE /\ UNCHANGED <<link, call, at, polls, cnt, answer>>

AirGoes ==
  /\ air /\ air' = FALSE
  /\ link' \in IF IsConnected THEN {"joining", "off"} ELSE {link}
  /\ UNCHANGED <<call, at, polls, cnt, answer>>

Driver == Joins \/ AirComes \/ AirGoes
Next == (\E f \in {"begin", "healthCheck"} : Enter(f)) \/ Step \/ Driver

\* A join that is retried often enough comes within one connectWiFi()'s wait.
JoinsInTime == Joins /\ at = "poll" /\ polls < Polls

\* The type of the WiFi's state.
TypeOK ==
  /\ air \in BOOLEAN /\ answer \in BOOLEAN
  /\ link \in {"off", "joining", "up"}
  /\ call \in {"begin", "healthCheck", "none"}
  /\ at \in {"enter", "disconnect", "connect", "poll", "end"}
  /\ polls \in 0..Polls /\ cnt \in 0..(Tries - 1)
=============================================================================
