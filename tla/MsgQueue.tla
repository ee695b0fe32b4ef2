------------------------------ MODULE MsgQueue ------------------------------
(***************************************************************************)
(* The queue of outgoing MQTT messages: QUEUE (user/mqueue.c), the framing *)
(* of messages in the byte ring (user/proto.c), the loop of MQTT_Publish   *)
(* (user/mqtt.c) that makes room, and the answers of mqtt_tcpclient_recv,  *)
(* which do not.  The ring itself is the bounded queue of bytes that       *)
(* module RingBuf is shown to implement.  The callers run to completion,   *)
(* but every call of QUEUE_Puts and QUEUE_Gets is a step, so that the      *)
(* properties hold inside the loop as well.                                *)
(***************************************************************************)
EXTENDS SequencesExt, Integers

CONSTANTS Size,      \* QUEUE_BUFFER_SIZE
          BufSize,   \* MQTT_BUF_SIZE
          Messages,  \* the messages that are published, sequences of bytes
          None

\* What QUEUE_Init and the callers give.
QueueAssumption ==
    /\ Size \in Nat /\ Size >= 2
    /\ BufSize \in Nat
    /\ \A m \in Messages : m \in Seq(0..255) /\ Len(m) <= BufSize
    /\ None \notin Messages

VARIABLES ring,      \* msgQueue.rb: the bytes in the ring, oldest first
          outbound,  \* mqtt_state.outbound_message
          pc,        \* where MQTT_Publish is in its loop
          sent,      \* what MQTT_Task last passed to espconn_sent
          cutOff     \* history: an answer did not fit, and the ring was not
                     \* empty since

vars == <<ring, outbound, pc, sent, cutOff>>

Esc == 125
Begin == 126
End == 127

\* A faulty Flip, v & ~0x20: what it escapes it cannot bring back.
Flip_Clears(v) == IF (v \div 32) % 2 = 1 THEN v - 32 ELSE v

\* v ^ 0x20
Flip(v) == IF (v \div 32) % 2 = 1 THEN v - 32 ELSE v + 32

TypeOK ==
    /\ ring \in Seq(0..255) /\ Len(ring) <= Size
    /\ outbound \in Messages \union {None}
    /\ pc \in {"idle", "put", "evict"}
    /\ sent # None => sent \in Seq(0..255) /\ Len(sent) <= BufSize
    /\ cutOff \in BOOLEAN

Init ==
    /\ ring = <<>>
    /\ outbound = None
    /\ pc = "idle"
    /\ sent = None
    /\ cutOff = FALSE
-----------------------------------------------------------------------------
\* The bytes PROTO_AddRb puts for a message when there is room for all.
Encoded(v) == IF v \in {Esc, Begin, End} THEN <<Esc, Flip(v)>> ELSE <<v>>
Frame(m) == <<Begin>> \o FlattenSeq([i \in DOMAIN m |-> Encoded(m[i])]) \o <<End>>

\* A faulty test for room, off by one.
Fits_OffByOne(r, m) == Len(r) + Len(Frame(m)) <= Size + 1

\* PROTO_AddRb gives up at the first byte that does not fit and leaves the
\* ones before it in the ring.
Fits(r, m) == Len(r) + Len(Frame(m)) <= Size
PROTO_AddRb(r, m) ==
    r \o SubSeq(Frame(m), 1, IF Fits(r, m) THEN Len(Frame(m)) ELSE Size - Len(r))

\* PROTO_ParseByte for every byte but the one that ends a frame.
PROTO_ParseByte(p, v) ==
    CASE v = Esc   -> [p EXCEPT !.isEsc = TRUE]
      [] v = Begin -> [data |-> <<>>, isEsc |-> FALSE, isBegin |-> TRUE]
      [] OTHER     ->
            IF ~p.isBegin THEN p
            ELSE [p EXCEPT !.isEsc = FALSE,
                           !.data = IF Len(@) < BufSize
                                    THEN Append(@, IF p.isEsc THEN Flip(v) ELSE v)
                                    ELSE @]

\* Faulty versions of the next ones: the rest is kept when no frame ends in
\* it, one byte too many is taken, or none.
Consumed_Keep(r) == IF {k \in DOMAIN r : r[k] = End} = {} THEN 0
                    ELSE Min({k \in DOMAIN r : r[k] = End})
Rest_OneMore(r) == SubSeq(r, Min({k \in DOMAIN r : r[k] = End} \union {Len(r)}) + 2, Len(r))
Rest_All(r) == r

\* PROTO_ParseRb takes bytes from the ring up to the end of a frame; with no
\* such byte it takes all and fails.  PROTO_Init does not set isBegin: it
\* starts with what the stack held.
Ends(r) == {k \in DOMAIN r : r[k] = End}
Consumed(r) == IF Ends(r) = {} THEN Len(r) ELSE Min(Ends(r))
Parsed(r, garbage) ==
    FoldLeft(PROTO_ParseByte,
             [data |-> <<>>, isEsc |-> FALSE, isBegin |-> garbage],
             SubSeq(r, 1, Consumed(r) - 1)).data
Rest(r) == SubSeq(r, Consumed(r) + 1, Len(r))
-----------------------------------------------------------------------------
\* MQTT_Publish (and MQTT_Subscribe) with a message that was built.
Publish(m) ==
    /\ pc = "idle"
    /\ outbound' = m
    /\ pc' = "put"
    /\ UNCHANGED <<ring, sent, cutOff>>

\* mqtt_tcpclient_recv queues a PUBACK, PUBREC, PUBREL, PUBCOMP or PINGRESP:
\* when it does not fit, its first bytes stay in the ring all the same.
Answer(m) ==
    /\ pc = "idle"
    /\ ring' = PROTO_AddRb(ring, m)
    /\ cutOff' = (cutOff \/ ~Fits(ring, m))
    /\ UNCHANGED <<outbound, pc, sent>>

\* while (QUEUE_Puts(...) == -1): on success the loop ends and returns TRUE.
Puts ==
    /\ pc = "put"
    /\ ring' = PROTO_AddRb(ring, outbound)
    /\ \/ /\ Fits(ring, outbound)
          /\ pc' = "idle"
          /\ outbound' = None
       \/ /\ ~Fits(ring, outbound)
          /\ pc' = "evict"
          /\ UNCHANGED outbound
    /\ UNCHANGED <<sent, cutOff>>

\* The body of the loop: the oldest message goes, or there is none and the
\* new one is refused ("Serious buffer error").
Evict ==
    /\ pc = "evict"
    /\ ring' = Rest(ring)
    /\ \/ /\ Ends(ring) # {}
          /\ pc' = "put"
          /\ UNCHANGED outbound
       \/ /\ Ends(ring) = {}
          /\ pc' = "idle"
          /\ outbound' = None
    /\ cutOff' = (cutOff /\ ring' # <<>>)
    /\ UNCHANGED sent

\* MQTT_Task in state MQTT_DATA: the next message is sent.
Send ==
    /\ pc = "idle"
    /\ ring # <<>>
    /\ ring' = Rest(ring)
    /\ IF Ends(ring) # {}
       THEN \E garbage \in BOOLEAN : sent' = Parsed(ring, garbage)
       ELSE UNCHANGED sent
    /\ cutOff' = (cutOff /\ ring' # <<>>)
    /\ UNCHANGED <<outbound, pc>>

Next ==
    \/ \E m \in Messages : Publish(m) \/ Answer(m)
    \/ Puts
    \/ Evict
    \/ Send

\* MQTT_Publish is an ordinary loop of the calling handler: it goes on.
Spec == Init /\ [][Next]_vars /\ WF_vars(Puts) /\ WF_vars(Evict)
-----------------------------------------------------------------------------
\* The frame that ends at k begins at the last Begin before it; what is left
\* of a message that did not fit has no end and so is never looked at.
Start(r, k) == CHOOSE b \in 1..k : /\ r[b] = Begin
                                  /\ \A i \in b+1 .. k : r[i] # Begin
Whole(r, k) == CHOOSE m \in Messages : Frame(m) = SubSeq(r, Start(r, k), k)
EndOf(r, i) == CHOOSE k \in Ends(r) : Cardinality({j \in Ends(r) : j <= k}) = i
Queued(r) == [i \in 1..Cardinality(Ends(r)) |-> Whole(r, EndOf(r, i))]

\* Every frame that ends in the ring is a whole message that was published:
\* the unfinished ones before it never run into it.
FramesWhole ==
    \A k \in Ends(ring) : \E m \in Messages, b \in 1..k :
        Frame(m) = SubSeq(ring, b, k)

\* QUEUE_IsEmpty looks at the byte count only.  Between calls it is right,
\* a ring that is not empty holds at least one whole message, unless an
\* answer was cut off: the loop of MQTT_Publish cleans up, Answer does not.
NotEmptyMeansMessage ==
    pc = "idle" /\ ring # <<>> /\ ~cutOff => Ends(ring) # {}

\* The loop of MQTT_Publish ends, whatever the ring holds.
PublishEnds == pc # "idle" ~> pc = "idle"

\* MQTT_Publish refuses only what is too long for the ring.  The code does
\* not keep this: the head of the message that its last try left in the ring
\* may take the room that dropping the others has made.
RefusedIfTooLong ==
    [][pc = "evict" /\ pc' = "idle" => Len(Frame(outbound)) > Size]_vars

\* Framed messages in a byte ring implement a queue of messages that may drop
\* whole messages, oldest first, and never sends anything else: no mixture of
\* two messages, no duplicate, nothing out of order.
Abs == INSTANCE LossyQueue WITH msgs <- Queued(ring)
IsLossyQueue == Abs!Spec
=============================================================================
