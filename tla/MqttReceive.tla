---------------------------- MODULE MqttReceive -----------------------------
(***************************************************************************)
(* What the MQTT client makes of the bytes that arrive                     *)
(* (mqtt_tcpclient_recv and deliver_publish in user/mqtt.c).  The broker   *)
(* sends packets, and the network stack delivers them in segments, which   *)
(* may hold several packets, or a part of one.  The loop from READPACKET   *)
(* takes one packet of a segment per step.                                 *)
(*                                                                         *)
(* The messages themselves are made and taken apart as in user/mqtt_msg.c. *)
(* A message is a sequence of bytes; positions are those of C, from 0.     *)
(* Half is 128, the weight of the bit that says that another byte of the   *)
(* length follows: a small instance has small bytes.                       *)
(***************************************************************************)
EXTENDS Integers, SequencesExt, FiniteSetsExt

CONSTANTS Half,
          BufSize,          \* connection->buffer_length
          NULL,
          Lists             \* what the broker may send: sequences of packets

VARIABLES packets,          \* what the broker sends: kind, topic, data, id
          ends,             \* history: where in the stream each packet ends
          stream,           \* the bytes that have not arrived
          pdata,            \* the bytes of the segment not looked at
          in_buffer,        \* and the one byte behind it
          connected,        \* is connState MQTT_DATA? MQTT_CONNECT_SENDING if not
          message_id,       \* mqtt_connection.message_id
          delivered,        \* history: what mqttDataCb was called with
          answers,          \* history: the acknowledgements that were queued
          cut,              \* history: a segment ended within a packet
          skipped           \* history: packets of a segment were not looked at

vars == <<packets, ends, stream, pdata, in_buffer, connected, message_id, delivered, answers,
          cut, skipped>>
-----------------------------------------------------------------------------
Types == [CONNACK |-> 2, PUBLISH |-> 3, PUBACK |-> 4, PUBREC |-> 5, PUBREL |-> 6,
          PUBCOMP |-> 7, SUBACK |-> 9, PINGREQ |-> 12, PINGRESP |-> 13]

\* The first byte, without the bits for a duplicate and for retain, and what
\* mqtt_get_type and mqtt_get_qos take from it.
Header(type, qos) == Types[type] * 16 + qos * 2
TypeOf(b) == b[1] \div 16
QosOf(b) == (b[1] % 8) \div 2

\* Two bytes, the higher one first.
Word(n) == <<n \div (2 * Half), n % (2 * Half)>>
WordAt(b, i) == b[i + 1] * 2 * Half + b[i + 2]
-----------------------------------------------------------------------------
\* A faulty fini_message, with the boundary one too high.
fini_message_OneMore(type, qos, body) ==
    LET n == Len(body) IN
    <<Header(type, qos)>>
        \o (IF n > Half THEN <<Half + (n % Half), n \div Half>> ELSE <<n>>)
        \o body

\* fini_message: the remaining length takes one byte, or two.
fini_message(type, qos, body) ==
    LET n == Len(body) IN
    <<Header(type, qos)>>
        \o (IF n > Half - 1 THEN <<Half + (n % Half), n \div Half>> ELSE <<n>>)
        \o body

\* Three bytes are kept free for the fixed header.
Fits(body) == 3 + Len(body) <= BufSize

\* mqtt_msg_publish, with the identifier that append_message_id gives; <<>>
\* is the message of fail_message.
mqtt_msg_publish(topic, data, qos, id) ==
    LET body == Word(Len(topic)) \o topic \o (IF qos > 0 THEN Word(id) ELSE <<>>) \o data
    IN IF topic # <<>> /\ Fits(body) THEN fini_message("PUBLISH", qos, body) ELSE <<>>

\* mqtt_msg_puback, mqtt_msg_pubrec, mqtt_msg_pubrel, mqtt_msg_pubcomp.
Acknowledgement(type, id) ==
    IF Fits(Word(id)) THEN fini_message(type, IF type = "PUBREL" THEN 1 ELSE 0, Word(id))
    ELSE <<>>

\* mqtt_msg_pingreq and mqtt_msg_pingresp.
Ping(type) == fini_message(type, 0, <<>>)
-----------------------------------------------------------------------------
\* Where the variable header starts, in a buffer of which length bytes count.
AfterLength(b, length) ==
    LET last == {k \in 1 .. length - 1 : b[k + 1] < Half}
    IN IF last = {} THEN Max({1, length}) ELSE Min(last) + 1

\* mqtt_get_total_length: the remaining length, and the fixed header.
mqtt_get_total_length(b, length) ==
    MapThenSumSet(LAMBDA k : (b[k + 1] % Half) * Half ^ (k - 1), 1 .. AfterLength(b, length) - 1)
        + AfterLength(b, length)

\* mqtt_get_publish_topic: a topic that ends where the buffer ends is none.
mqtt_get_publish_topic(b, length) ==
    LET i == AfterLength(b, length) IN
    IF i + 2 >= length \/ i + 2 + WordAt(b, i) >= length THEN NULL
    ELSE SubSeq(b, i + 3, i + 2 + WordAt(b, i))

\* A faulty start of the data, which takes the identifier for data.
DataAt_WithId(b, i) == i + 2 + WordAt(b, i)

\* Where the data starts, with the topic at i.
DataAt(b, i) == i + 2 + WordAt(b, i) + (IF QosOf(b) > 0 THEN 2 ELSE 0)

\* mqtt_get_publish_data
mqtt_get_publish_data(b, length) ==
    LET i == AfterLength(b, length)
        total == mqtt_get_total_length(b, length)
        data == DataAt(b, i)
    IN IF \/ i + 2 >= length
          \/ i + 2 + WordAt(b, i) >= length
          \/ QosOf(b) > 0 /\ data >= length
          \/ total < data
       THEN NULL
       ELSE SubSeq(b, data + 1, IF total <= length THEN total ELSE length)

\* mqtt_get_id
mqtt_get_id(b, length) ==
    LET i == AfterLength(b, length) IN
    CASE TypeOf(b) = Types.PUBLISH ->
             IF \/ i + 2 >= length
                \/ i + 2 + WordAt(b, i) >= length
                \/ QosOf(b) > 0 /\ DataAt(b, i) >= length
             THEN 0
             ELSE WordAt(b, DataAt(b, i))
      [] TypeOf(b) \in {Types.PUBACK, Types.PUBREC, Types.PUBREL, Types.PUBCOMP, Types.SUBACK} ->
             IF length >= 4 /\ b[2] < Half THEN WordAt(b, 2) ELSE 0
      [] OTHER -> 0
-----------------------------------------------------------------------------
\* A packet of the broker, which makes them as the client does.
Encoded(p) ==
    CASE p.kind = "PUBLISH" -> mqtt_msg_publish(p.topic, p.data, p.qos, p.id)
      [] p.kind \in {"PUBREC", "PUBREL"} -> Acknowledgement(p.kind, p.id)
      [] p.kind = "PINGREQ" -> Ping("PINGREQ")
      [] p.kind = "CONNACK" -> fini_message("CONNACK", 0, <<0, p.code>>)
Bytes(list) == FlattenSeq([k \in DOMAIN list |-> Encoded(list[k])])

TypeOK ==
    /\ packets \in Lists
    /\ Len(stream) <= Last(ends)
    /\ Len(pdata) < BufSize /\ Len(in_buffer) = BufSize + 1
    /\ {connected, cut, skipped} \subseteq BOOLEAN
    /\ message_id \in Nat

Init ==
    /\ packets \in Lists
    /\ stream = Bytes(packets)
    /\ ends = [k \in DOMAIN packets |-> Len(Bytes(SubSeq(packets, 1, k)))]
    /\ pdata = <<>>
    /\ in_buffer = [i \in 1 .. BufSize + 1 |-> 0]
    /\ connected = FALSE
    /\ message_id = 0
    /\ delivered = <<>> /\ answers = <<>>
    /\ cut = FALSE /\ skipped = FALSE
-----------------------------------------------------------------------------
\* How much has arrived.
Position == Last(ends) - Len(stream)

\* A segment arrives; one that is too long is dropped.  Nothing is claimed of
\* what follows a packet that was cut, and nothing is sent.
Segment ==
    /\ pdata = <<>>
    /\ ~cut
    /\ \E n \in 1..Len(stream) :
          /\ stream' = SubSeq(stream, n + 1, Len(stream))
          /\ cut' = (cut \/ Position + n \notin Range(ends))
          /\ IF n < BufSize
             THEN pdata' = SubSeq(stream, 1, n) /\ UNCHANGED skipped
             ELSE skipped' = TRUE /\ UNCHANGED pdata
    /\ UNCHANGED <<packets, ends, in_buffer, connected, message_id, delivered, answers>>

\* A buffer with the bytes s put at its start.
Filled(b, s) == [i \in DOMAIN b |-> IF i <= Len(s) THEN s[i] ELSE b[i]]

\* What an answer to a packet is, in bytes; append_message_id gives the
\* identifier 0 a new value.
Answer(type, id, next) ==
    IF type = "PINGRESP" THEN Ping(type)
    ELSE Acknowledgement(type, IF id = 0 THEN next ELSE id)
AnswerTo(b) ==
    CASE TypeOf(b) = Types.PUBLISH /\ QosOf(b) = 1 -> {"PUBACK"}
      [] TypeOf(b) = Types.PUBLISH /\ QosOf(b) = 2 -> {"PUBREC"}
      [] TypeOf(b) = Types.PUBREC -> {"PUBREL"}
      [] TypeOf(b) = Types.PUBREL -> {"PUBCOMP"}
      [] TypeOf(b) = Types.PINGREQ -> {"PINGRESP"}
      [] OTHER -> {}

\* deliver_publish
Delivery(b, length) ==
    [topic |-> mqtt_get_publish_topic(b, length), data |-> mqtt_get_publish_data(b, length)]

\* A faulty Rest, which takes no more than one packet from a segment.
Rest_None(b, length) == <<>>

\* What is left of the segment after a PUBLISH.
Rest(b, length) ==
    LET total == mqtt_get_total_length(b, length)
    IN IF total < length THEN SubSeq(pdata, total + 1, length) ELSE <<>>

\* READPACKET before the connection is accepted, whatever the code says.
ReadConnack ==
    /\ pdata # <<>> /\ ~connected
    /\ in_buffer' = Filled(in_buffer, pdata)
    /\ connected' = (TypeOf(in_buffer') = Types.CONNACK)
    /\ skipped' = (skipped \/ Len(pdata) > mqtt_get_total_length(in_buffer', Len(pdata)))
    /\ pdata' = <<>>
    /\ UNCHANGED <<packets, ends, stream, message_id, delivered, answers, cut>>

\* READPACKET afterwards.
ReadPacket ==
    /\ pdata # <<>> /\ connected
    /\ in_buffer' = Filled(in_buffer, pdata)
    /\ LET b == in_buffer'
           length == Len(pdata)
           id == mqtt_get_id(b, BufSize)
           publish == TypeOf(b) = Types.PUBLISH
       IN /\ answers' = answers \o SetToSeq({Answer(t, id, message_id + 1) : t \in AnswerTo(b)})
          /\ message_id' = message_id + Cardinality({t \in AnswerTo(b) \ {"PINGRESP"} : id = 0})
          /\ delivered' = IF publish THEN Append(delivered, Delivery(b, length)) ELSE delivered
          /\ pdata' = IF publish THEN Rest(b, length) ELSE <<>>
          /\ skipped' = (skipped \/ (~publish /\ length > mqtt_get_total_length(b, length)))
    /\ UNCHANGED <<packets, ends, stream, connected, cut>>

Next == Segment \/ ReadConnack \/ ReadPacket

Spec == Init /\ [][Next]_vars
-----------------------------------------------------------------------------
\* The packets that have been taken from the stream, and not from the segment.
Taken == {k \in DOMAIN packets : ends[k] <= Position - Len(pdata)}
TakenSeq == SelectSeq(SubSeq(packets, 1, Cardinality(Taken)), LAMBDA p : p.kind # "CONNACK")
Published(list) == SelectSeq(list, LAMBDA p : p.kind = "PUBLISH")

\* A PUBLISH at the end of its segment whose data is empty has no data, and
\* without an identifier no topic: they are NULL.
Faithful(event, p) ==
    \/ event = [topic |-> p.topic, data |-> p.data]
    \/ event.topic \in {p.topic, NULL} /\ event.data = NULL /\ p.data = <<>>

\* As long as segments end where packets do, every PUBLISH is delivered once,
\* in order and unchanged, unless a packet of another kind, or the CONNACK,
\* stands before it in its segment.
DeliveredInOrder ==
    ~cut /\ ~skipped =>
        LET p == Published(TakenSeq) IN
        /\ Len(delivered) = Len(p)
        /\ \A k \in DOMAIN delivered : Faithful(delivered[k], p[k])

\* What is skipped is lost, and that is all: nothing is delivered that was not
\* published, nothing twice, nothing out of order.
NothingInvented ==
    ~cut => \A i, j \in DOMAIN delivered :
        i < j => \E k, l \in DOMAIN packets :
            /\ k < l
            /\ packets[k].kind = "PUBLISH" /\ packets[l].kind = "PUBLISH"
            /\ Faithful(delivered[i], packets[k]) /\ Faithful(delivered[j], packets[l])

Expected == [PUBLISH |-> {Types.PUBACK, Types.PUBREC}, PUBREC |-> {Types.PUBREL},
             PUBREL |-> {Types.PUBCOMP}, PINGREQ |-> {Types.PINGRESP}]

\* Every packet that asks for an answer gets one of the right kind; the steps
\* of QoS 2 get it with their identifier.
EveryoneAnswered ==
    ~cut /\ ~skipped =>
        LET asks == SelectSeq(TakenSeq, LAMBDA p : p.kind # "PUBLISH" \/ p.qos > 0) IN
        /\ Len(answers) = Len(asks)
        /\ \A k \in DOMAIN answers :
              /\ TypeOf(answers[k]) \in Expected[asks[k].kind]
              /\ asks[k].kind \in {"PUBREC", "PUBREL"} => WordAt(answers[k], 2) = asks[k].id

\* "Queue response QoS" (user/mqtt.c:184): the answer to a PUBLISH with a QoS
\* names it by its identifier.
ResponseHasId ==
    ~cut /\ ~skipped =>
        LET asks == SelectSeq(TakenSeq, LAMBDA p : p.kind # "PUBLISH" \/ p.qos > 0) IN
        \A k \in DOMAIN answers :
            k \in DOMAIN asks /\ asks[k].kind = "PUBLISH" => WordAt(answers[k], 2) = asks[k].id
=============================================================================
