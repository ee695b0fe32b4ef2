------------------------------ MODULE MCQueue -------------------------------
(***************************************************************************)
(* The queue of outgoing messages on small instances: the byte ring        *)
(* (RingBuf) with few slots, so that its pointers wrap every few calls,    *)
(* and the messages in it (MsgQueue), which takes the ring for the bounded *)
(* queue of bytes that the first part shows it to be.  part says which of  *)
(* the two moves.                                                          *)
(***************************************************************************)
EXTENDS RingBuf

CONSTANTS a, b, None,
          Room,      \* QUEUE_BUFFER_SIZE
          BufSize,   \* MQTT_BUF_SIZE
          Messages   \* the messages that are published

VARIABLES part, ring, outbound, pc, sent, cutOff

\* Messages of one to three bytes, in an alphabet where a byte that must be
\* escaped (0x7E) meets the byte its escape uses (0x5E): frames of three to
\* eight bytes.  As in the firmware the ring has room for exactly one longest
\* message whose bytes are all escaped (512 = 2 + 2 * 255 there).
MCMessages == { <<94>>, <<126>>, <<94, 126>>, <<126, 126>>, <<126, 94, 94>>,
                <<94, 126, 126>>, <<126, 126, 126>> }

M == INSTANCE MsgQueue WITH Size <- Room

ASSUME MessagesAssumption == M!QueueAssumption

ringVars == <<buf, p_r, p_w, fill_cnt, ret, got>>
messageVars == <<ring, outbound, pc, sent, cutOff>>

\* While the messages move the ring of bytes stays in one of its first states.
MCInit ==
    /\ part \in {"ring", "messages"}
    /\ RINGBUF_Init /\ M!Init
    /\ part = "messages" => buf = [s \in Slots |-> a] /\ got = a

Bytewise == part = "ring" /\ Next /\ UNCHANGED <<part, messageVars>>
Messagewise(A) == part = "messages" /\ A /\ UNCHANGED <<part, ringVars>>
MCNext == Bytewise \/ Messagewise(M!Next)

\* MQTT_Publish is an ordinary loop of the calling handler: it goes on.
MCSpec ==
    /\ MCInit /\ [][MCNext]_<<part, ringVars, messageVars>>
    /\ WF_messageVars(Messagewise(M!Puts)) /\ WF_messageVars(Messagewise(M!Evict))
-----------------------------------------------------------------------------
\* The variables have their types: neither ring is overfull, and the pointers
\* of the ring of bytes are as far apart as its count says.
PartsTypeOK == TypeOK /\ PointersAgree /\ M!TypeOK

\* MsgQueue: every frame that ends in the ring is a message that was published,
\* and a ring that is not empty holds one, unless an answer was cut off.
FramesRight == M!FramesWhole /\ M!NotEmptyMeansMessage

\* MsgQueue: the loop of MQTT_Publish ends, whatever the ring holds.
PublishEnds == M!PublishEnds

\* MsgQueue: messages are dropped whole, oldest first, and never mixed.
IsLossyQueue == M!IsLossyQueue
=============================================================================
