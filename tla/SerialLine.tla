----------------------------- MODULE SerialLine -----------------------------
(***************************************************************************)
(* The receive buffer of the serial console: uart0_rx_intr_handler         *)
(* (user/stdout.c) puts a line together byte by byte, goes back to the     *)
(* start of the buffer when it is full, and looks at the buffer when the   *)
(* line ends.  What a relay command does is in module Relays; here it is   *)
(* which bytes it is made of.  A byte is the word "relay", a digit, or     *)
(* something else.                                                         *)
(***************************************************************************)
EXTENDS Integers, Sequences

CONSTANTS Bytes,            \* bytes that may come, but for the end of a line
          RX_BUFF_SIZE,
          MaxLine           \* bound on the bytes of a line

\* The end of a string is no byte of a line, and a line whose command names a
\* state fits the buffer.
ASSUME LineAssumption ==
    /\ RX_BUFF_SIZE \in Nat /\ RX_BUFF_SIZE >= 3
    /\ MaxLine \in Nat
    /\ "null" \notin Bytes

VARIABLES buff,             \* the buffer, and the byte behind it
          pWritePos, pReadPos,
          line,             \* history: the bytes of the line so far
          last,             \* history: the line that ended last
          cmd               \* history: what was made of it

vars == <<buff, pWritePos, pReadPos, line, last, cmd>>

Relay == "relay"
NUL == "null"
Positions == 0..RX_BUFF_SIZE
Nothing == [text |-> <<>>, relay |-> FALSE, state |-> NUL]

TypeOK ==
    /\ buff \in [Positions -> Bytes \union {NUL}]
    /\ pWritePos \in Positions /\ pReadPos \in Positions
    /\ line \in Seq(Bytes) /\ Len(line) <= MaxLine
    /\ last \in Seq(Bytes)
    /\ cmd.relay \in BOOLEAN /\ cmd.state \in Bytes \union {NUL}

Init ==
    /\ buff = [p \in Positions |-> NUL]
    /\ pWritePos = 0 /\ pReadPos = 0
    /\ line = <<>> /\ last = <<>> /\ cmd = Nothing
-----------------------------------------------------------------------------
\* A faulty Following, which goes back one byte late.
Following_Late(p) == IF p > RX_BUFF_SIZE THEN 0 ELSE p + 1

\* The position after p.
Following(p) == IF p = RX_BUFF_SIZE THEN 0 ELSE p + 1

\* A faulty Pushed, which lets the reader be overtaken.
Pushed_Not(w) == pReadPos

\* pReadPos, when the writer has come to w.
Pushed(w) == IF w = pReadPos THEN Following(pReadPos) ELSE pReadPos

Receive(c) ==
    /\ Len(line) < MaxLine
    /\ buff' = [buff EXCEPT ![pWritePos] = c]
    /\ pWritePos' = Following(pWritePos)
    /\ pReadPos' = Pushed(pWritePos')
    /\ line' = Append(line, c)
    /\ UNCHANGED <<last, cmd>>

\* The string that starts at the beginning of the buffer b.
String(b) ==
    LET ends == {p \in Positions : b[p] = NUL}
        n == CHOOSE p \in ends : \A q \in ends : p <= q
    IN [i \in 1..n |-> b[i - 1]]

\* A faulty Ended, which terminates the line behind the end-of-line byte.
Ended_Late == [buff EXCEPT ![Following(pWritePos)] = NUL]

\* The buffer with the line terminated.
Ended == [buff EXCEPT ![pWritePos] = NUL]

\* The end of the line: a command to a relay has the word, the number, any
\* byte, and the state; the two are taken from their places in the buffer.
ReceiveNewline ==
    /\ buff' = Ended
    /\ pWritePos' = 0
    /\ pReadPos' = Pushed(0)
    /\ last' = line
    /\ line' = <<>>
    /\ LET text == String(buff') IN
       cmd' = [text |-> text, relay |-> text # <<>> /\ text[1] = Relay, state |-> buff'[3]]

Next == (\E c \in Bytes : Receive(c)) \/ ReceiveNewline

Spec == Init /\ [][Next]_vars
-----------------------------------------------------------------------------
\* The string that a command is looked for in is the end of the line: what is
\* left after as many whole turns of the buffer as the line has gone through.
\* A line that fits is there as it came, with nothing of an earlier line in
\* it, and the state of a relay is the byte that the line has in its place.
\* (A command that ends before its state takes it from an earlier line.)
CommandIsLine ==
    LET n == Len(last) % (RX_BUFF_SIZE + 1) IN
    /\ cmd.text = SubSeq(last, Len(last) - n + 1, Len(last))
    /\ n = Len(last) /\ n > 3 => cmd.state = last[4]

\* The reader is never where the writer is, once something has come: the
\* buffer that is full does not look empty.
ReaderAhead == line # <<>> \/ last # <<>> => pReadPos # pWritePos

\* What a command is made of is right, and so is where the next one goes.
LineRight == CommandIsLine /\ ReaderAhead
=============================================================================
