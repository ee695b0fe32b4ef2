----------------------------- MODULE LossyQueue -----------------------------
(***************************************************************************)
(* What MQTT_Publish and MQTT_Task expect of the queue of outgoing         *)
(* messages.  To make room for a new message the oldest ones may be        *)
(* dropped, whole and one after the other; when nothing is left to drop    *)
(* the new one may be refused.  Answers to the broker make no room.  What  *)
(* is sent is always the oldest message, exactly as it was queued.         *)
(***************************************************************************)
EXTENDS Sequences

CONSTANTS Messages,
          None          \* no message

VARIABLES msgs,      \* the queued messages, oldest first
          outbound,  \* the message being queued, or None
          sent       \* the message last handed to the connection, or None

vars == <<msgs, outbound, sent>>

Init ==
    /\ msgs = <<>>
    /\ outbound = None
    /\ sent = None

Publish ==
    /\ outbound = None
    /\ outbound' \in Messages
    /\ UNCHANGED <<msgs, sent>>

Accept ==
    /\ outbound # None
    /\ msgs' = Append(msgs, outbound)
    /\ outbound' = None
    /\ UNCHANGED sent

DropOldest ==
    /\ outbound # None
    /\ msgs # <<>>
    /\ msgs' = Tail(msgs)
    /\ UNCHANGED <<outbound, sent>>

Refuse ==
    /\ outbound # None
    /\ msgs = <<>>
    /\ outbound' = None
    /\ UNCHANGED <<msgs, sent>>

\* An answer to the broker is queued behind the rest, or dropped.
Answer ==
    /\ outbound = None
    /\ \E m \in Messages : msgs' = Append(msgs, m)
    /\ UNCHANGED <<outbound, sent>>

Send ==
    /\ outbound = None
    /\ msgs # <<>>
    /\ sent' = Head(msgs)
    /\ msgs' = Tail(msgs)
    /\ UNCHANGED outbound

Next == Publish \/ Accept \/ DropOldest \/ Refuse \/ Answer \/ Send

Spec == Init /\ [][Next]_vars
=============================================================================
