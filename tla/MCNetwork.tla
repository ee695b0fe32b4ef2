----------------------------- MODULE MCNetwork ------------------------------
(***************************************************************************)
(* The clients of the network on small instances: the time client (Sntp),  *)
(* the MQTT client while the resolver answers (MqttClient), its receiver   *)
(* (MqttReceive), the HTTP client (HttpClient) and the name server         *)
(* (CaptDns).  Each has the callbacks of the stack to itself, and part     *)
(* says which of them moves.  The parameters of MqttClient let every       *)
(* lookup call back; MqttClient alone explores the others.                 *)
(***************************************************************************)
EXTENDS Sntp, SequencesExt, Integers

CONSTANTS None, NULL, c1, c2,
          Answers,        \* what servers send to the HTTP client
          BufferMax, MostAtOnce

\* A segment of the network fits into the buffer of a response: 1460 bytes at
\* the most, into 5000.
ASSUME NetworkAssumption ==
    /\ Answers \subseteq Seq(STRING)
    /\ BufferMax \in Nat /\ MostAtOnce \in Nat /\ MostAtOnce <= BufferMax

VARIABLES part,
          host, connState, pCon, ip, keepAliveTick, reconnectTick, sendTimeout,
          pending, msgQueue, posted, mqttTimer, go_to_sleep, asleep, stack, inFlight,
          connack, wifiUps, mqttCut, nowhere, dangling, mqttTurn,
          post, answer, arrived, state, unconfirmed, sent, closing, buffer, blocks,
          looked, calls,
          packets, ends, stream, pdata, in_buffer, connected, message_id, delivered,
          answers, segmentCut, skipped,
          header, questions, packet, question, labelPtr, end, res, records, pc

Q == INSTANCE MqttClient WITH
    cut <- mqttCut, turn <- mqttTurn, Conns <- {c1, c2}, Hosts <- {"address", "name"},
    Cached <- FALSE, DeepSleep <- FALSE, KeepAlive <- 2, SendTimeout <- 2,
    ReconnectTimeout <- 1, MaxQueue <- 2, MaxInFlight <- 2, MaxWifi <- 1

MCAnswers ==
    LET V == "HTTP/1.1 " S == "status" E == "empty line" IN
    { <<V, S, E, "x">>, <<V, S, E, "x", "x", "x">>, <<V, S, "x">>, <<"x", S, E, "x">>,
      <<V>>, <<V, E, "x">>, <<>>, <<"x", V, S, E, "x", "x">> }
C == INSTANCE HttpClient WITH Segment <- MostAtOnce

Pub(qos, topic, data, id) ==
    [kind |-> "PUBLISH", qos |-> qos, topic |-> topic, data |-> data, id |-> id]
Other(kind, id) == [kind |-> kind, id |-> id, code |-> 0]
Connack == Other("CONNACK", 0)

\* Among them publishes without data, and one whose body is as long as the
\* least length that takes two bytes.
Packets == { Pub(0, <<1>>, <<>>, 0), Pub(0, <<1>>, <<2>>, 0), Pub(1, <<1>>, <<2>>, 3),
             Pub(2, <<1, 2>>, <<>>, 5), Pub(0, <<1>>, <<1, 2, 3, 4, 5>>, 0),
             Other("PUBREC", 4), Other("PUBREL", 6), Other("PINGREQ", 0) }
Lists == {<<Connack>> \o l : l \in BoundedSeq(Packets, 2)}
            \union {<<Connack, p, q, p>> : p \in {Pub(0, <<1>>, <<2>>, 0), Pub(1, <<1>>, <<2>>, 3)},
                                           q \in {Other("PUBREC", 4), Pub(0, <<1>>, <<>>, 0)}}
R == INSTANCE MqttReceive WITH cut <- segmentCut, Half <- 8, BufSize <- 20

D == INSTANCE CaptDns WITH q <- question, p <- labelPtr, answers <- records,
        HeaderSize <- 12, MaxQuestions <- 2,
        Names <- {<<<<1>>>>, <<<<2, 1>>, <<1>>>>, <<<<3>>, <<2, 1>>, <<1>>>>, <<<<1>>, <<3>>>>}

mqttVars == <<host, connState, pCon, ip, keepAliveTick, reconnectTick, sendTimeout, pending,
        msgQueue, posted, mqttTimer, go_to_sleep, asleep, stack, inFlight, connack,
        wifiUps, mqttCut, nowhere, dangling, mqttTurn>>
httpVars == <<post, answer, arrived, state, unconfirmed, sent, closing, buffer, blocks,
        looked, calls>>
receiveVars == <<packets, ends, stream, pdata, in_buffer, connected, message_id, delivered,
        answers, segmentCut, skipped>>
dnsVars == <<header, questions, packet, question, labelPtr, end, res, records, pc>>

NoMqtt ==
    /\ host = None /\ connState = None /\ pCon = None /\ ip = None
    /\ keepAliveTick = None /\ reconnectTick = None /\ sendTimeout = None
    /\ pending = None /\ msgQueue = None /\ posted = None /\ mqttTimer = None
    /\ go_to_sleep = None /\ asleep = None /\ stack = None /\ inFlight = None
    /\ connack = None /\ wifiUps = None /\ mqttCut = None /\ dangling = None
    /\ nowhere = None /\ mqttTurn = None
NoHttp ==
    /\ post = None /\ answer = None /\ arrived = None /\ state = None
    /\ unconfirmed = None /\ sent = None /\ closing = None /\ buffer = None
    /\ blocks = None /\ looked = None /\ calls = None
NoReceive ==
    /\ packets = None /\ ends = None /\ stream = None /\ pdata = None
    /\ in_buffer = None /\ connected = None /\ message_id = None /\ delivered = None
    /\ answers = None /\ segmentCut = None /\ skipped = None
NoDns ==
    /\ header = None /\ questions = None /\ packet = None /\ question = None
    /\ labelPtr = None /\ end = None /\ res = None /\ records = None /\ pc = None

MCInit ==
    /\ Init
    /\ \/ part = "time" /\ NoMqtt /\ NoHttp /\ NoReceive /\ NoDns
       \/ part = "mqtt" /\ Q!Init /\ NoHttp /\ NoReceive /\ NoDns
       \/ part = "http" /\ NoMqtt /\ C!Init /\ NoReceive /\ NoDns
       \/ part = "receive" /\ NoMqtt /\ NoHttp /\ R!Init /\ NoDns
       \/ part = "names" /\ NoMqtt /\ NoHttp /\ NoReceive /\ D!Init

Time(A) == part = "time" /\ A /\ UNCHANGED <<part, mqttVars, httpVars, receiveVars, dnsVars>>
Mqtt(A) == part = "mqtt" /\ A /\ UNCHANGED <<part, vars, httpVars, receiveVars, dnsVars>>
Http(A) == part = "http" /\ A /\ UNCHANGED <<part, vars, mqttVars, receiveVars, dnsVars>>

MCNext ==
    \/ Time(Next) \/ Mqtt(Q!Next) \/ Http(C!Next)
    \/ part = "receive" /\ R!Next /\ UNCHANGED <<part, vars, mqttVars, httpVars, dnsVars>>
    \/ part = "names" /\ D!Next /\ UNCHANGED <<part, vars, mqttVars, httpVars, receiveVars>>

\* The fairness of each.
MCSpec ==
    /\ MCInit /\ [][MCNext]_<<part, vars, mqttVars, httpVars, receiveVars, dnsVars>>
    /\ WF_vars(Time(Request)) /\ WF_vars(Time(RetryTimeout)) /\ WF_vars(Time(DnsFound))
    /\ WF_mqttVars(Mqtt(Q!mqtt_timer))
    /\ WF_mqttVars(Mqtt(Q!MQTT_Task))
    /\ SF_mqttVars(Mqtt(Q!MQTT_Task /\ mqttTurn' # mqttTurn))
    /\ \A c \in {c1, c2} :
          /\ WF_mqttVars(Mqtt(Q!mqtt_dns_found(c)))
          /\ WF_mqttVars(Mqtt(stack[c] = "connecting"
                                /\ (Q!mqtt_tcpclient_connect_cb(c) \/ Q!ConnectionLost(c))))
          /\ WF_mqttVars(Mqtt(inFlight[c] > 0
                                /\ (Q!mqtt_tcpclient_sent_cb(c) \/ Q!ConnectionLost(c))))
          /\ WF_mqttVars(Mqtt(connack[c] /\ (Q!RecvConnack(c) \/ Q!ConnectionLost(c))))
    /\ WF_httpVars(Http(C!Found \/ C!NotFound)) /\ WF_httpVars(Http(C!disconnect_callback))
-----------------------------------------------------------------------------
\* The variables of every part have their types.
PartsTypeOK ==
    /\ TypeOK
    /\ part = "mqtt" => Q!TypeOK
    /\ part = "http" => C!TypeOK
    /\ part = "receive" => R!TypeOK
    /\ part = "names" => D!TypeOK

\* Sntp and HttpClient: sooner or later the time is asked for again, answered
\* or not, and every other request comes to an end that its caller learns of.
RequestsEnd ==
    /\ \A t \in {0, 1} : (part = "time" /\ turn = t) ~> (part = "time" /\ turn # t)
    /\ (part = "http" /\ state = "lookup") ~> (part = "http" /\ Len(calls) = 1)

\* MqttClient: an attempt to connect ends, with a connection or another
\* attempt, unless the resolver answers 0.0.0.0, and while the client is
\* connected a queued message is sent.
MqttMoves ==
    /\ (part = "mqtt" /\ connState = "TCP_CONNECTING" /\ ~mqttCut /\ ~nowhere)
           ~> (part = "mqtt" /\ (connState # "TCP_CONNECTING" \/ mqttCut \/ nowhere))
    /\ \A t \in {0, 1} :
          (part = "mqtt" /\ connState = "MQTT_DATA" /\ msgQueue # <<>> /\ mqttTurn = t)
              ~> (part = "mqtt" /\ (connState # "MQTT_DATA" \/ mqttTurn # t \/ asleep))

\* HttpClient: the caller is told once how a request ended; what it gets is a
\* whole answer, with its body; head and body go out in order, each once; and
\* no memory is left, but on the two paths that forget some.
HttpRight ==
    part = "http" => C!CalledOnce /\ C!AnswerRight /\ C!SentInOrder /\ C!NothingLeft

\* MqttReceive: publishes are delivered once, in order and unchanged, unless
\* another packet stands before one in its segment; nothing is delivered that
\* was not published; and a packet that asks for an answer gets one.  CaptDns:
\* so does a question for a name, and the answer has the name that was asked.
DeliveryRight ==
    /\ part = "receive" => R!DeliveredInOrder /\ R!NothingInvented /\ R!EveryoneAnswered
    /\ part = "names" => D!AnswersRight
=============================================================================
