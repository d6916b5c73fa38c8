---------------------------- MODULE MQTTClientESP32 ----------------------------
(***************************************************************************)
(* MQTTClientESP32 (src/src/MQTTClientESP32.cpp): a client that keeps the  *)
(* topics the program subscribed to, tries to reconnect from healthCheck() *)
(* at intervals, and subscribes to those topics again when it succeeds.    *)
(* PubSubClient and the broker are outside: a connection may be refused,   *)
(* or break at any moment, in a publish() too, and with it go the          *)
(* subscriptions the broker holds; the library may notice only later.      *)
(*                                                                         *)
(* The widths of the time arithmetic matter: millis() is an unsigned 32    *)
(* bit number, read into a signed long, and _lastReconnectAttempt keeps    *)
(* its low 16 bits.                                                        *)
(***************************************************************************)
EXTENDS Integers

CONSTANTS
  Topics,             \* what the program subscribes to
  W,                  \* millis() counts modulo W (2^32)
  V,                  \* _lastReconnectAttempt counts modulo V (2^16)
  Interval,           \* MQTT_RECONNECT_INTERVAL
  MaxTime,            \* bound: the last instant looked at
  SubscribeMayFail,   \* the library may refuse a subscription on a connection
  BufferSize,         \* getBufferSize() of the PubSubClient
  HeaderSize,         \* MQTT_MAX_HEADER_SIZE
  Messages            \* what the program publishes: the topic's and the payload's
                      \* length together, and how much of it precedes a zero byte

MQTTAssumption ==
  /\ V \in Nat \ {0} /\ W \in Nat /\ V < W
  /\ Interval \in Nat /\ MaxTime \in Nat
  /\ SubscribeMayFail \in BOOLEAN
  /\ BufferSize \in 0..(V - 1) /\ HeaderSize \in Nat
  /\ \A m \in Messages : m.size \in Nat /\ m.text \in 0..m.size

VARIABLES
  now,                    \* time since power-up
  lastReconnectAttempt,   \* _lastReconnectAttempt
  connected,              \* _mqttClient.connected()
  stands,                 \* whether the connection does stand
  subscribedTopics,       \* _subscribedTopics
  held,                   \* the subscriptions the broker holds for the client
  published,              \* the last publish(): the message, whether a connection
                          \* stood to its end, the answer, and the bytes
                          \* announced and sent
  lastFailure,            \* history: when an attempt last failed, or power-up
  refused                 \* history: topics last refused on this connection

vars == <<now, lastReconnectAttempt, connected, stands, subscribedTopics, held,
          published, lastFailure, refused>>

Init ==
  /\ now = 0 /\ lastReconnectAttempt = 0 /\ lastFailure = 0
  /\ connected = FALSE /\ stands = FALSE
  /\ subscribedTopics = {} /\ held = {} /\ refused = {}
  /\ published = [size |-> 0, text |-> 0, on |-> FALSE, answer |-> FALSE,
                  announced |-> 0, sent |-> 0]

-----------------------------------------------------------------------------
\* long now = millis(): the upper half of the clock reads as negative.
SignedMillis == LET m == now % W IN IF 2 * m >= W THEN m - W ELSE m

\* Mutants of Due: one too early, and a difference of the narrow width.
DueEarly  == SignedMillis - lastReconnectAttempt >= Interval
DueNarrow == (SignedMillis - lastReconnectAttempt) % V > Interval

Due == SignedMillis - lastReconnectAttempt > Interval

\* The subtraction leaves the range of a signed long: the comparison may then
\* come out either way.
Overflows == 2 * (SignedMillis - lastReconnectAttempt) < -W

\* _lastReconnectAttempt = now.
Narrowed(t) == t % V

\* healthCheck() while connected runs the library's loop(), which may find that the
\* connection is gone.
StaysConnected ==
  /\ connected
  /\ UNCHANGED connected \/ (~stands /\ connected' = FALSE)
  /\ UNCHANGED <<now, lastReconnectAttempt, stands, subscribedTopics, held, published,
                 lastFailure, refused>>

HealthCheckWaits == ~connected /\ (~Due \/ Overflows) /\ UNCHANGED vars

\* Mutant of Resubscribed: the topics are not subscribed to again.
ResubscribedNever == {}

\* The topics reconnect() subscribes to.
Resubscribed == subscribedTopics

\* The topics of a set that the library refuses to subscribe to.
Refusals(topics) == IF SubscribeMayFail THEN SUBSET topics ELSE {{}}

\* reconnect() connected: every topic is subscribed to again, and what
\* subscribe() returns is dropped.
Reconnects ==
  /\ ~connected /\ (Due \/ Overflows)
  /\ connected' = TRUE /\ stands' = TRUE
  /\ lastReconnectAttempt' = 0
  /\ refused' \in Refusals(Resubscribed) /\ held' = Resubscribed \ refused'
  /\ UNCHANGED <<now, subscribedTopics, published, lastFailure>>

ReconnectFails ==
  /\ ~connected /\ (Due \/ Overflows)
  /\ lastReconnectAttempt' = Narrowed(SignedMillis)
  /\ lastFailure' = now
  /\ UNCHANGED <<now, connected, stands, subscribedTopics, held, published, refused>>

HealthCheck == StaysConnected \/ HealthCheckWaits \/ Reconnects \/ ReconnectFails

\* The list of topics, each once.
Kept(topic) == subscribedTopics \cup {topic}

\* subscribe(): the topic is kept whether or not the subscription went out.
Subscribe(topic) ==
  /\ subscribedTopics' = Kept(topic)
  /\ IF stands
       THEN /\ \E no \in Refusals({topic}) : refused' = (refused \ {topic}) \cup no
            /\ held' = IF topic \in refused' THEN held ELSE held \cup {topic}
       ELSE UNCHANGED <<held, refused>>
  /\ UNCHANGED <<now, lastReconnectAttempt, connected, stands, published, lastFailure>>

\* Mutant of DataSize: the header is not counted.
DataSizeBare(m) == (2 + m.size) % V

\* dataSize of publish(), 16 bits wide.
DataSize(m) == (HeaderSize + 2 + m.size) % V

\* With the connection go the broker's subscriptions.
Falls == stands' = FALSE /\ held' = {} /\ refused' = {}

\* publish(): what seems too long for the buffer is streamed to the broker, with
\* print() for the payload, which ends at a zero byte, and the answer is true; the
\* rest is left to the library, which refuses what really is too long and answers as
\* it likes over a connection that is gone.
Publish(m) ==
  LET long == DataSize(m) > BufferSize
      fits == HeaderSize + 2 + m.size <= BufferSize
  IN  \E on \in {FALSE, stands}, lost \in BOOLEAN :
        /\ published' =
             [size |-> m.size, text |-> m.text, on |-> on,
              answer |-> long \/ (connected /\ fits /\ (on \/ ~lost)),
              announced |-> IF on /\ (long \/ fits) THEN m.size ELSE 0,
              sent |-> IF ~on \/ ~(long \/ fits) THEN 0
                       ELSE IF long THEN m.text ELSE m.size]
        /\ IF on = stands THEN UNCHANGED <<stands, held, refused>> ELSE Falls
        /\ UNCHANGED <<now, lastReconnectAttempt, connected, subscribedTopics,
                       lastFailure>>

\* Outside publish(), a connection may break, and the library know at once or not.
ConnectionBreaks ==
  /\ stands
  /\ Falls
  /\ connected' \in BOOLEAN
  /\ UNCHANGED <<now, lastReconnectAttempt, subscribedTopics, published, lastFailure>>

Tick ==
  /\ now < MaxTime
  /\ now' = now + 1
  /\ UNCHANGED <<lastReconnectAttempt, connected, stands, subscribedTopics, held,
                 published, lastFailure, refused>>

Next == \/ HealthCheck
        \/ \E topic \in Topics : Subscribe(topic)
        \/ \E m \in Messages : Publish(m)
        \/ ConnectionBreaks \/ Tick
Spec == Init /\ [][Next]_vars

\* loop() goes on calling healthCheck(), and time goes by.
FairSpec == Spec /\ WF_vars(HealthCheck) /\ WF_vars(Tick)

-----------------------------------------------------------------------------
\* The type of the client's state.
TypeOK ==
  /\ now \in 0..MaxTime
  /\ lastReconnectAttempt \in 0..(V - 1)
  /\ connected \in BOOLEAN /\ stands \in BOOLEAN /\ (stands => connected)
  /\ subscribedTopics \subseteq Topics
  /\ held \subseteq Topics /\ refused \subseteq Topics
  /\ lastFailure \in 0..now
  /\ published.announced \in {0, published.size}
  /\ published.sent \in {0, published.text, published.size}

\* While a connection stands, every topic the program ever asked for, before or
\* during it, has been subscribed to on this very connection: "after the connection
\* succeeds, the kept topics are subscribed to again" (line 60).  The broker lacks
\* only those the library refused then, and never holds one that a later
\* reconnection would forget.
AllResubscribed ==
  /\ stands => subscribedTopics \subseteq held \cup refused
  /\ held \subseteq subscribedTopics

\* An attempt that failed is followed by no other within the interval ("the
\* retry interval of the MQTT connection", MQTTClientESP32.h:27).
AttemptsAreSpaced ==
  [][Reconnects \/ ReconnectFails => now - lastFailure > Interval]_vars

\* The same as long as the time of the attempt fits _lastReconnectAttempt.
SpacedWhileNarrow ==
  [][(Reconnects \/ ReconnectFails) /\ lastFailure < V
       => now - lastFailure > Interval]_vars

\* healthCheck() of a client without a connection tries to reconnect (line 71)
\* as soon as the interval since the last failure is over, until millis() reads
\* as negative in the second half of its range.
TriesInFirstHalf ==
  (~connected /\ now - lastFailure > Interval /\ 2 * now < W) => Due

\* A client whose connection stands gets out any message its 16 bits can measure, too
\* long for the buffer or not (line 119), and of a message without a zero byte all
\* that was announced; and of no message, however long, is it told that it went out
\* when nothing of it did.
PublishGoesOut ==
  published.on =>
    /\ HeaderSize + 2 + published.size < V => published.answer
    /\ published.answer => published.announced = published.size
    /\ (published.answer /\ published.text = published.size)
         => published.sent = published.announced
=============================================================================
