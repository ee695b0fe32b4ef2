-------------------------- MODULE MqttClient_proofs --------------------------
(***************************************************************************)
(* Proofs about MqttClient, for any number of connection blocks and any    *)
(* timeouts: no callback comes for a freed block, and the state of the     *)
(* client is that of its connection, until Wi-Fi comes back while a        *)
(* connection is up or being made.  What makes both so is that the stack   *)
(* works for no other block than the client's.                             *)
(***************************************************************************)
EXTENDS MqttClient, TLAPS

Apart == {"WIFI_INIT", "TCP_RECONNECT_REQ", "TCP_RECONNECT"}
Connected == {"MQTT_CONNECT_SENDING", "MQTT_DATA"}

Typed ==
    /\ connState \in States
    /\ pCon \in Conns \union {NULL}
    /\ stack \in [Conns -> {"idle", "dns", "connecting", "up"}]

\* The state of the client, and what the stack does for it.
InStep ==
    ~cut /\ ~asleep =>
        /\ \A c \in Conns : stack[c] # "idle" => c = pCon /\ connState \notin Apart
        /\ \A c \in Conns : stack[c] = "up" => connState \in Connected
        /\ connState \in Connected => pCon # NULL /\ stack[pCon] = "up"
        /\ connState = "MQTT_CONNECT_SENDING" => pending = "CONNECT"

\* A board that sleeps has no timer.
Sleeping == asleep => ~mqttTimer

IInv == Typed /\ InStep /\ Sleeping /\ NoDangling

USE ClientAssumption DEF States, Apart, Connected

LEMMA InitInv == Init => IInv
  BY DEF Init, IInv, Typed, InStep, Sleeping, NoDangling

\* A new connection is made with a block that is idle, when no other is in use.
LEMMA ConnectStep ==
    ASSUME IInv, ~asleep, ~asleep', MQTT_Connect, cut => cut',
           ~cut' => connState \in Apart, UNCHANGED dangling
    PROVE  IInv'
<1> USE DEF IInv, MQTT_Connect
<1>1. Typed'
  BY DEF Typed
<1>2. InStep'
  <2> SUFFICES ASSUME ~cut' PROVE InStep'
    BY DEF InStep
  <2>1. \A c \in Conns : stack[c] = "idle"
    BY DEF InStep
  <2>2. \A c \in Conns : c # pCon' => stack'[c] = "idle"
    BY <2>1 DEF Typed
  <2>3. pCon' \in Conns /\ stack'[pCon'] \in {"idle", "dns", "connecting"}
    BY <2>1 DEF Typed
  <2>4. connState' = "TCP_CONNECTING"
    OBVIOUS
  <2>5. QED
    BY <2>2, <2>3, <2>4 DEF InStep
<1>3. Sleeping' /\ NoDangling'
  BY DEF Sleeping, NoDangling
<1>4. QED
  BY <1>1, <1>2, <1>3

\* A callback for a block that the stack works for is for the client's.
LEMMA CallbackStep ==
    ASSUME IInv, ~asleep, NEW c \in Conns, stack[c] # "idle", Called(c), UNCHANGED cut
    PROVE  NoDangling' /\ (~cut => c = pCon)
<1>1. ~cut => c = pCon
  BY DEF IInv, InStep
<1>2. QED
  BY <1>1 DEF IInv, NoDangling, Called

LEMMA WifiUpInv == IInv /\ WifiUp => IInv'
<1> SUFFICES ASSUME IInv, WifiUp PROVE IInv'
  OBVIOUS
<1>1. cut => cut'
  BY DEF WifiUp
<1>2. ~cut' => connState \in Apart
  BY DEF WifiUp, IInv, Typed
<1>3. QED
  BY <1>1, <1>2, ConnectStep DEF WifiUp

LEMMA CallbacksInv ==
    ASSUME IInv, NEW c \in Conns,
           \/ mqtt_dns_found(c) \/ mqtt_tcpclient_connect_cb(c) \/ ConnectionLost(c)
           \/ RecvConnack(c) \/ Recv(c) \/ mqtt_tcpclient_sent_cb(c)
    PROVE  IInv'
<1> USE DEF IInv, network
<1>0. ~asleep /\ stack[c] # "idle" /\ Called(c) /\ UNCHANGED cut
  BY DEF mqtt_dns_found, mqtt_tcpclient_connect_cb, ConnectionLost, RecvConnack, Recv,
         mqtt_tcpclient_sent_cb
<1>1. NoDangling' /\ (~cut => c = pCon)
  BY <1>0, CallbackStep
<1>2. CASE mqtt_dns_found(c)
  <2>1. Typed'
    BY <1>2 DEF mqtt_dns_found, Typed
  <2>2. InStep'
    BY <1>1, <1>2 DEF mqtt_dns_found, Typed, InStep
  <2>3. QED
    BY <1>1, <1>2, <2>1, <2>2 DEF mqtt_dns_found, Sleeping
<1>3. CASE mqtt_tcpclient_connect_cb(c)
  <2>1. Typed'
    BY <1>3 DEF mqtt_tcpclient_connect_cb, Typed
  <2>2. InStep'
    BY <1>1, <1>3 DEF mqtt_tcpclient_connect_cb, Typed, InStep
  <2>3. QED
    BY <1>1, <1>3, <2>1, <2>2 DEF mqtt_tcpclient_connect_cb, Sleeping
<1>4. CASE ConnectionLost(c)
  <2>1. Typed'
    BY <1>4 DEF ConnectionLost, Typed
  <2>2. InStep'
    BY <1>1, <1>4 DEF ConnectionLost, Typed, InStep
  <2>3. QED
    BY <1>1, <1>4, <2>1, <2>2 DEF ConnectionLost, Sleeping
<1>5. CASE RecvConnack(c)
  <2>1. Typed'
    BY <1>5 DEF RecvConnack, Typed
  <2>2. InStep'
    BY <1>1, <1>5 DEF RecvConnack, Typed, InStep
  <2>3. QED
    BY <1>1, <1>5, <2>1, <2>2 DEF RecvConnack, Sleeping
<1>6. CASE Recv(c)
  BY <1>1, <1>6 DEF Recv, Typed, InStep, Sleeping
<1>7. CASE mqtt_tcpclient_sent_cb(c)
  <2>1. /\ UNCHANGED <<connState, pending, stack, cut>>
        /\ asleep' => ~mqttTimer'
        /\ ~asleep' => pCon' = pCon
        /\ pCon' \in {pCon, NULL}
    BY <1>7 DEF mqtt_tcpclient_sent_cb
  <2>2. QED
    BY <1>0, <1>1, <2>1 DEF Typed, InStep, Sleeping
<1>8. QED
  BY <1>2, <1>3, <1>4, <1>5, <1>6, <1>7

LEMMA TimerInv == IInv /\ mqtt_timer => IInv'
<1> SUFFICES ASSUME IInv, mqtt_timer PROVE IInv'
  OBVIOUS
<1> USE DEF IInv, network, history
<1>1. /\ UNCHANGED <<pCon, stack, asleep, mqttTimer, cut, dangling>>
      /\ connState' \in {connState, "TCP_RECONNECT"}
      /\ connState' # connState => connState = "TCP_RECONNECT_REQ"
      /\ pending' # pending => connState = "MQTT_DATA"
  BY DEF mqtt_timer, Ping, Reconnect, Count
<1>2. QED
  BY <1>1 DEF Typed, InStep, Sleeping, NoDangling

LEMMA TaskInv == IInv /\ MQTT_Task => IInv'
<1> SUFFICES ASSUME IInv, MQTT_Task PROVE IInv'
  OBVIOUS
<1>1. ~asleep /\ UNCHANGED <<asleep, cut, dangling>>
  BY DEF MQTT_Task
<1>2. CASE connState = "TCP_RECONNECT" /\ MQTT_Connect
  BY <1>1, <1>2, ConnectStep
<1>3. CASE UNCHANGED <<connState, pCon, mqttTimer, stack>>
           /\ (pending' # pending => connState = "MQTT_DATA")
  BY <1>1, <1>3 DEF IInv, Typed, InStep, Sleeping, NoDangling
<1>4. QED
  BY <1>2, <1>3 DEF MQTT_Task

LEMMA NextInv == IInv /\ [Next]_vars => IInv'
<1> SUFFICES ASSUME IInv, [Next]_vars PROVE IInv'
  OBVIOUS
<1>1. CASE UNCHANGED vars
  BY <1>1 DEF vars, client, network, history, IInv, Typed, InStep, Sleeping, NoDangling
<1>2. CASE MQTTbroadcastReading
  BY <1>2 DEF MQTTbroadcastReading, network, history, IInv, Typed, InStep, Sleeping, NoDangling
<1>3. CASE Wake
  BY <1>3 DEF Wake, IInv, Typed, InStep, Sleeping, NoDangling
<1>4. CASE \E c \in Conns :
              \/ mqtt_dns_found(c) \/ mqtt_tcpclient_connect_cb(c) \/ ConnectionLost(c)
              \/ RecvConnack(c) \/ Recv(c) \/ mqtt_tcpclient_sent_cb(c)
  BY <1>4, CallbacksInv
<1>5. QED
  BY <1>1, <1>2, <1>3, <1>4, WifiUpInv, TimerInv, TaskInv DEF Next
-----------------------------------------------------------------------------
\* IInv holds in every reachable state.
THEOREM Invariance == Spec => []IInv
  BY InitInv, NextInv, PTL DEF Spec

\* However many blocks there are, no callback of the network stack comes for
\* one that MQTT_Disconnect has freed, unless the station got an address while
\* the client was connecting or connected.
THEOREM NoDanglingHolds == Spec => []NoDangling
<1>1. IInv => NoDangling
  BY DEF IInv
<1>2. QED
  BY <1>1, Invariance, PTL

\* With the same exception the client takes itself for connected exactly when
\* it is, and waits for a CONNACK only after its CONNECT.
THEOREM SendsOnlyWhenUpHolds == Spec => []SendsOnlyWhenUp
<1>1. IInv => SendsOnlyWhenUp
  BY DEF IInv, Typed, InStep, SendsOnlyWhenUp
<1>2. QED
  BY <1>1, Invariance, PTL
=============================================================================
