----------------------------- MODULE MqttClient -----------------------------
(***************************************************************************)
(* The MQTT client (user/mqtt.c): the state of its connection, the timer   *)
(* of one second, the task that sends what is queued, and the callbacks of *)
(* the network stack, in any order in which the stack may call them.       *)
(* wifiConnectCb (user/wifi.c, user/user_main.c) starts it whenever the    *)
(* station gets an address, MQTTbroadcastReading (user/broadcastd.c)       *)
(* publishes, and mqttPublishedCb sends the board to sleep.  The queue of  *)
(* messages is the one of module LossyQueue; a message is a publish or     *)
(* another one.  sysCfg.mqtt_use_ssl is off: with it on the code connects  *)
(* nothing and sends nothing, as its calls for that are comments.          *)
(***************************************************************************)
EXTENDS Sequences, Naturals

CONSTANTS Conns,              \* connection blocks (struct espconn)
          NULL,
          Hosts,              \* how the broker may be given
          Cached,             \* may the resolver know it without asking?
          DeepSleep,          \* is sysCfg.mqtt_deep_sleep_time set?
          KeepAlive,          \* connect_info.keepalive
          SendTimeout,        \* MQTT_SEND_TIMOUT
          ReconnectTimeout,   \* MQTT_RECONNECT_TIMEOUT
          MaxQueue,           \* messages that fit the queue
          MaxInFlight,        \* bound on unconfirmed sends
          MaxWifi             \* bound on how often the station gets an address

ASSUME ClientAssumption ==
    /\ NULL \notin Conns
    /\ Hosts \subseteq {"address", "name"}
    /\ Cached \in BOOLEAN /\ DeepSleep \in BOOLEAN
    /\ {KeepAlive, SendTimeout, ReconnectTimeout, MaxQueue, MaxInFlight, MaxWifi} \subseteq Nat
    /\ MaxQueue > 0

VARIABLES host,             \* sysCfg.mqtt_host: an address, or a name to look up
          connState, pCon,
          ip,               \* is client->ip set?
          keepAliveTick, reconnectTick, sendTimeout,
          pending,          \* mqtt_state.pending_msg_type
          msgQueue,
          posted,           \* an event waits in mqtt_procTaskQueue
          mqttTimer,        \* is the timer armed?
          go_to_sleep,      \* is it not zero?
          asleep,           \* system_deep_sleep was called
          stack,            \* what the network stack does with each block
          inFlight,         \* sends of each block that are not confirmed
          connack,          \* has the broker still to answer a CONNECT?
          wifiUps,          \* how often the station got an address
          cut,              \* history: it did so while the client was
                            \* connecting or connected
          nowhere,          \* history: the last lookup found 0.0.0.0
          dangling,         \* history: a callback came for a freed block
          turn              \* history: flips with every message the task sends

client == <<connState, pCon, ip, keepAliveTick, reconnectTick, sendTimeout,
            pending, msgQueue, posted, mqttTimer, go_to_sleep, asleep>>
network == <<stack, inFlight, connack>>
history == <<wifiUps, cut, nowhere, dangling, turn>>
vars == <<host, client, network, history>>

Types == {"PUBLISH", "OTHER"}
States == {"WIFI_INIT", "TCP_RECONNECT_REQ", "TCP_RECONNECT", "TCP_CONNECTING",
           "MQTT_CONNECT_SENDING", "MQTT_DATA"}

TypeOK ==
    /\ host \in Hosts
    /\ connState \in States
    /\ pCon \in Conns \union {NULL}
    /\ ip \in BOOLEAN
    /\ keepAliveTick \in 0..KeepAlive
    /\ reconnectTick \in 0..ReconnectTimeout
    /\ sendTimeout \in 0..SendTimeout
    /\ pending \in Types \union {"NONE", "CONNECT", "PINGREQ"}
    /\ msgQueue \in Seq(Types) /\ Len(msgQueue) <= MaxQueue
    /\ {posted, mqttTimer, go_to_sleep, asleep, cut, nowhere, dangling} \subseteq BOOLEAN
    /\ stack \in [Conns -> {"idle", "dns", "connecting", "up"}]
    /\ inFlight \in [Conns -> 0..MaxInFlight]
    /\ connack \in [Conns -> BOOLEAN]
    /\ wifiUps \in 0..MaxWifi
    /\ turn \in {0, 1}

\* MQTT_InitConnection and MQTT_InitClient, which post the first event.
Init ==
    /\ host \in Hosts
    /\ connState = "WIFI_INIT"
    /\ pCon = NULL
    /\ ip = FALSE
    /\ keepAliveTick = 0 /\ reconnectTick = 0 /\ sendTimeout = 0
    /\ pending = "NONE"
    /\ msgQueue = <<>>
    /\ posted = TRUE
    /\ mqttTimer = FALSE
    /\ go_to_sleep = FALSE
    /\ asleep = FALSE
    /\ stack = [c \in Conns |-> "idle"]
    /\ inFlight = [c \in Conns |-> 0]
    /\ connack = [c \in Conns |-> FALSE]
    /\ wifiUps = 0
    /\ cut = FALSE
    /\ nowhere = FALSE
    /\ dangling = FALSE
    /\ turn = 0
-----------------------------------------------------------------------------
\* MQTT_Connect: MQTT_Disconnect frees the old block, whatever the stack does
\* with it; a new one is connected, or its name looked up.  A name that the
\* resolver knows already is returned at once and nothing calls back.
MQTT_Connect ==
    /\ pCon' \in {c \in Conns : stack[c] = "idle"}
    /\ mqttTimer' = TRUE
    /\ keepAliveTick' = 0
    /\ reconnectTick' = 0
    /\ connState' = "TCP_CONNECTING"
    /\ nowhere' = FALSE
    /\ \/ /\ host = "address"
          /\ stack' = [stack EXCEPT ![pCon'] = "connecting"]
          /\ UNCHANGED ip
       \/ /\ host = "name"
          /\ stack' = [stack EXCEPT ![pCon'] = "dns"]
          /\ UNCHANGED ip
       \/ /\ host = "name"
          /\ Cached
          /\ ip' = TRUE
          /\ UNCHANGED stack

\* A faulty SendOn: nobody registered for the confirmation.
SendOn_Silent(c) == UNCHANGED inFlight

\* espconn_sent: the stack confirms it later, if the connection is up.
SendOn(c) ==
    inFlight' = IF stack[c] = "up" /\ inFlight[c] < MaxInFlight
                THEN [inFlight EXCEPT ![c] = @ + 1] ELSE inFlight

\* n calls of MQTT_Publish or MQTT_Subscribe, which drop the oldest messages
\* to make room; more than MaxQueue leave nothing else in the queue.
Queued(q, type, n) ==
    LET all == q \o [i \in 1..n |-> type]
    IN SubSeq(all, 1 + (IF Len(all) > MaxQueue THEN Len(all) - MaxQueue ELSE 0), Len(all))

\* Acknowledgements do not make room.
Acknowledged(q) == {q \o [i \in 1..n |-> "OTHER"] : n \in 0 .. MaxQueue - Len(q)}

\* A callback for a block: is it still the client's?
Called(c) == dangling' = (dangling \/ c # pCon)
-----------------------------------------------------------------------------
\* wifiConnectCb with STATION_GOT_IP.
WifiUp ==
    /\ ~asleep
    /\ wifiUps < MaxWifi
    /\ wifiUps' = wifiUps + 1
    /\ cut' = (cut \/ connState \in {"TCP_CONNECTING", "MQTT_CONNECT_SENDING", "MQTT_DATA"})
    /\ MQTT_Connect
    /\ UNCHANGED <<sendTimeout, pending, msgQueue, posted, go_to_sleep, asleep,
                   inFlight, connack, dangling, turn, host>>

\* mqtt_dns_found: no answer, an address to connect to, or one that is 0.0.0.0
\* or not the first.  It connects the block the client has now.
mqtt_dns_found(c) ==
    /\ ~asleep
    /\ stack[c] = "dns"
    /\ Called(c)
    /\ \/ /\ connState' = "TCP_RECONNECT_REQ"
          /\ stack' = [stack EXCEPT ![c] = "idle"]
          /\ UNCHANGED <<posted, nowhere>>
       \/ /\ ~ip
          /\ stack' = [stack EXCEPT ![c] = "idle", ![pCon] = "connecting"]
          /\ connState' = "TCP_CONNECTING"
          /\ posted' = TRUE
          /\ UNCHANGED nowhere
       \/ /\ stack' = [stack EXCEPT ![c] = "idle"]
          /\ posted' = TRUE
          /\ nowhere' = ~ip
          /\ UNCHANGED connState
    /\ UNCHANGED <<pCon, ip, keepAliveTick, reconnectTick, sendTimeout, pending, msgQueue,
                   mqttTimer, go_to_sleep, asleep, inFlight, connack, wifiUps, cut, turn, host>>

\* mqtt_tcpclient_connect_cb: the CONNECT message goes out past the queue.
mqtt_tcpclient_connect_cb(c) ==
    /\ ~asleep
    /\ stack[c] = "connecting"
    /\ Called(c)
    /\ stack' = [stack EXCEPT ![c] = "up"]
    /\ inFlight' = [inFlight EXCEPT ![pCon] = IF stack'[pCon] = "up" THEN 1 ELSE @]
    /\ connack' = [connack EXCEPT ![pCon] = stack'[pCon] = "up"]
    /\ pending' = "CONNECT"
    /\ sendTimeout' = SendTimeout
    /\ connState' = "MQTT_CONNECT_SENDING"
    /\ posted' = TRUE
    /\ UNCHANGED <<pCon, ip, keepAliveTick, reconnectTick, msgQueue, mqttTimer,
                   go_to_sleep, asleep, wifiUps, cut, nowhere, turn, host>>

\* A faulty ConnectionLost, which does not leave its state.
ConnectionLost_Stays(c) ==
    /\ ~asleep
    /\ stack[c] \in {"connecting", "up"}
    /\ Called(c)
    /\ stack' = [stack EXCEPT ![c] = "idle"]
    /\ inFlight' = [inFlight EXCEPT ![c] = 0]
    /\ connack' = [connack EXCEPT ![c] = FALSE]
    /\ posted' = TRUE
    /\ UNCHANGED <<connState, pCon, ip, keepAliveTick, reconnectTick, sendTimeout, pending,
                   msgQueue, mqttTimer, go_to_sleep, asleep, wifiUps, cut, nowhere, turn, host>>

\* mqtt_tcpclient_recon_cb (no connection, or an error on it) and
\* mqtt_tcpclient_discon_cb (it was closed).
ConnectionLost(c) ==
    /\ ~asleep
    /\ stack[c] \in {"connecting", "up"}
    /\ Called(c)
    /\ stack' = [stack EXCEPT ![c] = "idle"]
    /\ inFlight' = [inFlight EXCEPT ![c] = 0]
    /\ connack' = [connack EXCEPT ![c] = FALSE]
    /\ connState' = "TCP_RECONNECT_REQ"
    /\ posted' = TRUE
    /\ UNCHANGED <<pCon, ip, keepAliveTick, reconnectTick, sendTimeout, pending, msgQueue,
                   mqttTimer, go_to_sleep, asleep, wifiUps, cut, nowhere, turn, host>>

\* mqtt_tcpclient_recv with the CONNACK, and mqttConnectedCb: a subscription
\* for each relay of the board, and the records of mqtt_config_publish.
RecvConnack(c) ==
    /\ ~asleep
    /\ stack[c] = "up"
    /\ connack[c]
    /\ Called(c)
    /\ connack' = [connack EXCEPT ![c] = FALSE]
    /\ \/ /\ connState = "MQTT_CONNECT_SENDING"
          /\ connState' = "MQTT_DATA"
          /\ \E subscriptions, records \in 0..MaxQueue :
                 msgQueue' = Queued(Queued(msgQueue, "OTHER", subscriptions),
                                    "PUBLISH", records)
       \/ /\ connState # "MQTT_CONNECT_SENDING"
          /\ UNCHANGED <<connState, msgQueue>>
    /\ posted' = TRUE
    /\ UNCHANGED <<pCon, ip, keepAliveTick, reconnectTick, sendTimeout, pending, mqttTimer,
                   go_to_sleep, asleep, stack, inFlight, wifiUps, cut, nowhere, turn, host>>

\* mqtt_tcpclient_recv with anything else: most is only looked at, publishes
\* with a QoS, the steps of QoS 2 and a ping are answered.
Recv(c) ==
    /\ ~asleep
    /\ stack[c] = "up"
    /\ Called(c)
    /\ msgQueue' \in IF connState = "MQTT_DATA" THEN Acknowledged(msgQueue) ELSE {msgQueue}
    /\ posted' = TRUE
    /\ UNCHANGED <<connState, pCon, ip, keepAliveTick, reconnectTick, sendTimeout, pending,
                   mqttTimer, go_to_sleep, asleep, network, wifiUps, cut, nowhere, turn, host>>

\* mqtt_tcpclient_sent_cb; mqttPublishedCb may go to sleep, and frees the
\* block before.
mqtt_tcpclient_sent_cb(c) ==
    /\ ~asleep
    /\ stack[c] = "up"
    /\ inFlight[c] > 0
    /\ Called(c)
    /\ inFlight' = [inFlight EXCEPT ![c] = @ - 1]
    /\ sendTimeout' = 0
    /\ LET sleep == /\ connState = "MQTT_DATA" /\ pending = "PUBLISH"
                    /\ DeepSleep /\ msgQueue = <<>> /\ go_to_sleep
       IN /\ asleep' = sleep
          /\ pCon' = IF sleep THEN NULL ELSE pCon
          /\ mqttTimer' = (mqttTimer /\ ~sleep)
    /\ posted' = TRUE
    /\ UNCHANGED <<connState, ip, keepAliveTick, reconnectTick, pending, msgQueue,
                   go_to_sleep, stack, connack, wifiUps, cut, nowhere, turn, host>>
-----------------------------------------------------------------------------
\* A faulty count, which goes below zero.
Decrement_Unguarded(n) == n - 1

Decrement(n) == IF n > 0 THEN n - 1 ELSE 0

\* A faulty Ping, which takes the end of the period for a lost connection.
Ping_GivesUp ==
    /\ mqttTimer
    /\ connState = "MQTT_DATA"
    /\ keepAliveTick + 1 > KeepAlive
    /\ keepAliveTick' = 0
    /\ connState' = "TCP_RECONNECT_REQ"
    /\ sendTimeout' = Decrement(sendTimeout)
    /\ posted' = TRUE
    /\ UNCHANGED <<pCon, ip, reconnectTick, pending, msgQueue, mqttTimer,
                   go_to_sleep, asleep, network, history, host>>

\* mqtt_timer, when it is time for a PINGREQ, which goes out past the queue.
Ping ==
    /\ mqttTimer
    /\ connState = "MQTT_DATA"
    /\ keepAliveTick + 1 > KeepAlive
    /\ keepAliveTick' = 0
    /\ pending' = "PINGREQ"
    /\ sendTimeout' = Decrement(SendTimeout)
    /\ SendOn(pCon)
    /\ posted' = TRUE
    /\ UNCHANGED <<connState, pCon, ip, reconnectTick, msgQueue, mqttTimer,
                   go_to_sleep, asleep, stack, connack, history, host>>

\* mqtt_timer, when it is time to connect again.
Reconnect ==
    /\ mqttTimer
    /\ connState = "TCP_RECONNECT_REQ"
    /\ reconnectTick + 1 > ReconnectTimeout
    /\ reconnectTick' = 0
    /\ connState' = "TCP_RECONNECT"
    /\ sendTimeout' = Decrement(sendTimeout)
    /\ posted' = TRUE
    /\ UNCHANGED <<pCon, ip, keepAliveTick, pending, msgQueue, mqttTimer,
                   go_to_sleep, asleep, network, history, host>>

\* mqtt_timer in every other case.
Count ==
    /\ mqttTimer
    /\ \/ /\ connState = "MQTT_DATA"
          /\ keepAliveTick + 1 <= KeepAlive
          /\ keepAliveTick' = keepAliveTick + 1
          /\ UNCHANGED reconnectTick
       \/ /\ connState = "TCP_RECONNECT_REQ"
          /\ reconnectTick + 1 <= ReconnectTimeout
          /\ reconnectTick' = reconnectTick + 1
          /\ UNCHANGED keepAliveTick
       \/ /\ connState \notin {"MQTT_DATA", "TCP_RECONNECT_REQ"}
          /\ UNCHANGED <<keepAliveTick, reconnectTick>>
    /\ sendTimeout' = Decrement(sendTimeout)
    /\ UNCHANGED <<connState, pCon, ip, pending, msgQueue, posted, mqttTimer,
                   go_to_sleep, asleep, network, history, host>>

mqtt_timer == Ping \/ Reconnect \/ Count

\* MQTT_Task takes the event and looks at the state.
MQTT_Task ==
    /\ ~asleep
    /\ posted
    /\ posted' = FALSE
    /\ \/ /\ connState = "TCP_RECONNECT"
          /\ MQTT_Connect
          /\ UNCHANGED <<sendTimeout, pending, msgQueue, inFlight, turn>>
       \/ /\ connState = "MQTT_DATA"
          /\ msgQueue # <<>> /\ sendTimeout = 0
          /\ pending' = Head(msgQueue)
          /\ msgQueue' = Tail(msgQueue)
          /\ sendTimeout' = SendTimeout
          /\ SendOn(pCon)
          /\ turn' = 1 - turn
          /\ UNCHANGED <<connState, pCon, ip, keepAliveTick, reconnectTick, mqttTimer, stack, nowhere>>
       \/ /\ connState # "TCP_RECONNECT"
          /\ connState = "MQTT_DATA" => msgQueue = <<>> \/ sendTimeout # 0
          /\ UNCHANGED <<connState, pCon, ip, keepAliveTick, reconnectTick, sendTimeout,
                         pending, msgQueue, mqttTimer, stack, inFlight, nowhere, turn>>
    /\ UNCHANGED <<go_to_sleep, asleep, connack, wifiUps, cut, dangling, host>>

\* MQTTbroadcastReading: readings, which let the board sleep, and the states
\* of the relays, which do not.
MQTTbroadcastReading ==
    /\ ~asleep
    /\ connState = "MQTT_DATA"
    /\ \E n \in 1..MaxQueue : msgQueue' = Queued(msgQueue, "PUBLISH", n)
    /\ go_to_sleep' \in {go_to_sleep, TRUE}
    /\ posted' = TRUE
    /\ UNCHANGED <<connState, pCon, ip, keepAliveTick, reconnectTick, sendTimeout, pending,
                   mqttTimer, asleep, network, history, host>>

\* The board wakes up and starts from the beginning.
Wake ==
    /\ asleep
    /\ connState' = "WIFI_INIT" /\ pCon' = NULL /\ ip' = FALSE
    /\ keepAliveTick' = 0 /\ reconnectTick' = 0 /\ sendTimeout' = 0
    /\ pending' = "NONE" /\ msgQueue' = <<>> /\ posted' = TRUE
    /\ mqttTimer' = FALSE /\ go_to_sleep' = FALSE /\ asleep' = FALSE
    /\ stack' = [c \in Conns |-> "idle"]
    /\ inFlight' = [c \in Conns |-> 0]
    /\ connack' = [c \in Conns |-> FALSE]
    /\ wifiUps' = 0 /\ cut' = FALSE /\ nowhere' = FALSE
    /\ dangling' = FALSE /\ turn' = 0
    /\ UNCHANGED host
-----------------------------------------------------------------------------
Next ==
    \/ WifiUp
    \/ \E c \in Conns :
          \/ mqtt_dns_found(c)
          \/ mqtt_tcpclient_connect_cb(c)
          \/ ConnectionLost(c)
          \/ RecvConnack(c)
          \/ Recv(c)
          \/ mqtt_tcpclient_sent_cb(c)
    \/ mqtt_timer
    \/ MQTT_Task
    \/ MQTTbroadcastReading
    \/ Wake

\* The timer is periodic and the task runs when an event was posted.  The
\* stack answers a lookup, ends an attempt to connect one way or the other,
\* and confirms what it has sent or gives the connection up; the broker
\* answers a CONNECT or closes the connection.  The timer fires once in a
\* second, a posted event waits for the callbacks before it only: that the
\* timer comes first every time, and always sets sendTimeout again before the
\* task looks at it, is ruled out by the strong fairness of sending.
Fairness ==
    /\ WF_vars(mqtt_timer)
    /\ WF_vars(MQTT_Task)
    /\ SF_vars(MQTT_Task /\ turn' # turn)
    /\ \A c \in Conns :
           /\ WF_vars(mqtt_dns_found(c))
           /\ WF_vars(stack[c] = "connecting" /\ (mqtt_tcpclient_connect_cb(c) \/ ConnectionLost(c)))
           /\ WF_vars(inFlight[c] > 0 /\ (mqtt_tcpclient_sent_cb(c) \/ ConnectionLost(c)))
           /\ WF_vars(connack[c] /\ (RecvConnack(c) \/ ConnectionLost(c)))

Spec == Init /\ [][Next]_vars /\ Fairness
-----------------------------------------------------------------------------
\* No callback ever comes for a block that MQTT_Disconnect has freed, unless
\* the station got an address while the client was connecting or connected.
NoDangling == dangling => cut

\* The client sends only on a connection that is up, and takes a CONNACK only
\* after its own CONNECT (the branch "Invalid packet" is never taken).
SendsOnlyWhenUp ==
    ~cut /\ ~asleep =>
        /\ connState \in {"MQTT_CONNECT_SENDING", "MQTT_DATA"} <=>
               (pCon # NULL /\ stack[pCon] = "up")
        /\ connState = "MQTT_CONNECT_SENDING" => pending = "CONNECT"

\* An attempt to connect ends: with a connection, or with another attempt;
\* unless the answer of the resolver was 0.0.0.0.
ConnectingEnds ==
    connState = "TCP_CONNECTING" /\ ~cut /\ ~nowhere
        ~> connState # "TCP_CONNECTING" \/ cut \/ nowhere

\* While the client is connected a queued message is never forgotten: the
\* task sends the next one, though nothing wakes it when sendTimeout runs out.
QueueMoves ==
    \A t \in {0, 1} :
        connState = "MQTT_DATA" /\ msgQueue # <<>> /\ turn = t
            ~> connState # "MQTT_DATA" \/ turn # t \/ asleep

\* "read sensor, publish then sleep" (README.md): the board does not go to
\* sleep while a message waits or is still on its way.
SleepsAfterPublish ==
    asleep => msgQueue = <<>> /\ \A c \in Conns : inFlight[c] = 0
=============================================================================
