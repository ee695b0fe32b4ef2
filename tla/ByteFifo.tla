------------------------------ MODULE ByteFifo ------------------------------
(***************************************************************************)
(* What the users of a ring buffer rely on: a queue of at most Size bytes. *)
(* A put into a full queue and a get from an empty one fail and change     *)
(* nothing, and bytes come out in the order they went in.                  *)
(***************************************************************************)
EXTENDS Sequences, Integers

CONSTANTS Bytes, Size

VARIABLES fifo,   \* the bytes in the queue, oldest first
          ret,    \* what the last call returned: 0 or -1
          got     \* the byte the last successful get delivered

vars == <<fifo, ret, got>>

Init ==
    /\ fifo = <<>>
    /\ ret = 0
    /\ got \in Bytes

Put(c) ==
    /\ IF Len(fifo) < Size
       THEN fifo' = Append(fifo, c) /\ ret' = 0
       ELSE fifo' = fifo /\ ret' = -1
    /\ got' = got

Get ==
    IF fifo = <<>>
    THEN fifo' = fifo /\ ret' = -1 /\ got' = got
    ELSE fifo' = Tail(fifo) /\ ret' = 0 /\ got' = Head(fifo)

Next == Get \/ \E c \in Bytes : Put(c)

Spec == Init /\ [][Next]_vars
=============================================================================
