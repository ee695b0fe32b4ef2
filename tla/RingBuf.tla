------------------------------ MODULE RingBuf -------------------------------
(***************************************************************************)
(* RINGBUF (user/ringbuf.c): the byte ring under the queue of outgoing     *)
(* MQTT messages, with its read and write pointers (as offsets from p_o)   *)
(* and its count of filled slots, the fields exactly as the code keeps     *)
(* them.                                                                   *)
(***************************************************************************)
EXTENDS Sequences, Integers

CONSTANTS Bytes,  \* what a slot can hold
          Size    \* r->size

\* RINGBUF_Init refuses a smaller ring.
ASSUME SizeAssumption == Size \in Nat /\ Size >= 2

VARIABLES buf, p_r, p_w, fill_cnt,
          ret,    \* the value the last call returned
          got     \* where the last RINGBUF_Get stored its byte

vars == <<buf, p_r, p_w, fill_cnt, ret, got>>

Slots == 0 .. Size - 1

TypeOK ==
    /\ buf \in [Slots -> Bytes]
    /\ p_r \in Slots
    /\ p_w \in Slots
    /\ fill_cnt \in 0..Size
    /\ ret \in {0, -1}
    /\ got \in Bytes

\* The bytes of the storage are whatever the allocation holds.
RINGBUF_Init ==
    /\ buf \in [Slots -> Bytes]
    /\ p_r = 0
    /\ p_w = 0
    /\ fill_cnt = 0
    /\ ret = 0
    /\ got \in Bytes

\* Two faulty ways to wrap, one slot late and one slot early.
Advance_Late(p) == IF p + 1 > Size THEN 0 ELSE p + 1
Advance_Early(p) == IF p + 1 >= Size - 1 THEN 0 ELSE p + 1

\* p++; if (p >= p_o + size) p = p_o;
Advance(p) == IF p + 1 >= Size THEN 0 ELSE p + 1

RINGBUF_Put(c) ==
    \/ /\ fill_cnt >= Size
       /\ ret' = -1
       /\ UNCHANGED <<buf, p_r, p_w, fill_cnt, got>>
    \/ /\ fill_cnt < Size
       /\ fill_cnt' = fill_cnt + 1
       /\ buf' = [buf EXCEPT ![p_w] = c]
       /\ p_w' = Advance(p_w)
       /\ ret' = 0
       /\ UNCHANGED <<p_r, got>>

RINGBUF_Get ==
    \/ /\ fill_cnt <= 0
       /\ ret' = -1
       /\ UNCHANGED <<buf, p_r, p_w, fill_cnt, got>>
    \/ /\ fill_cnt > 0
       /\ fill_cnt' = fill_cnt - 1
       /\ got' = buf[p_r]
       /\ p_r' = Advance(p_r)
       /\ ret' = 0
       /\ UNCHANGED <<buf, p_w>>

Next == RINGBUF_Get \/ \E c \in Bytes : RINGBUF_Put(c)

Spec == RINGBUF_Init /\ [][Next]_vars
-----------------------------------------------------------------------------
\* The offset that is n slots behind (after) p, around the ring.
Ahead(p, n) == IF p + n < Size THEN p + n ELSE p + n - Size

\* The three fields never drift apart: the write pointer is fill_cnt slots
\* ahead of the read pointer, so "full" and "empty", where the pointers
\* coincide, are told apart by the count alone.
PointersAgree == p_w = Ahead(p_r, fill_cnt)

\* The ring is a bounded queue of bytes: nothing is lost, duplicated or
\* reordered however often the pointers wrap around.
Contents == [i \in 1..fill_cnt |-> buf[Ahead(p_r, i - 1)]]
Fifo == INSTANCE ByteFifo WITH fifo <- Contents
IsFifo == Fifo!Spec
=============================================================================
