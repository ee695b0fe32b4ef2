------------------------- MODULE HeatshrinkEncoder -------------------------
(***************************************************************************)
(* Packing a file into the image of the web pages: handleFile and          *)
(* compressHeatshrink (mkespfsimage/main.c), which hand the file to the    *)
(* encoder of lib/heatshrink as fast as it takes it and poll it.  Of the   *)
(* bits only the number matters; a field that is pushed is a token, or a   *)
(* part of one.                                                            *)
(*                                                                         *)
(* The flag FLAG_HAS_LITERAL is set by the search and cleared when the     *)
(* literal is pushed, before the next search: st_save_backlog never finds  *)
(* it set, and it is left out, with the final literal.  A match is found   *)
(* through an index that do_indexing builds anew before each search of a   *)
(* buffer, so that it is the longest, and the nearest of these.            *)
(***************************************************************************)
EXTENDS HeatshrinkTokens

CONSTANTS BreakEven,   \* break_even_point, 3
          Inputs       \* files

VARIABLES input,       \* the file
          sunk,        \* bytes of it that the encoder has taken
          hse,         \* the encoder
          tokens,      \* what it has given
          bits,        \* its length
          flushed,     \* the last byte, not full, was given as well
          pc,          \* where compressHeatshrink is
          stored       \* the file in the image

vars == <<input, sunk, hse, tokens, bits, flushed, pc, stored>>

WindowLength == 2^WindowBits
LookaheadSize == 2^LookaheadBits
Nothing == [compressed |-> FALSE, size |-> 0]

Yields == {"tag", "literal", "index", "length"}

TypeOK ==
    /\ sunk \in 0..Len(input)
    /\ hse.state \in {"not full", "filled", "search", "backlog", "flush", "done"} \union Yields
    /\ hse.size \in 0..WindowLength
    /\ hse.scan \in 0..hse.size
    /\ hse.buffer \in [0..(2 * WindowLength - 1) -> Bytes]
    /\ hse.backlog \in {"none", "partial", "filled"}
    /\ hse.match.len \in 0..LookaheadSize
    /\ \A t \in Range(tokens) : t.off \in Nat /\ t.len \in Nat /\ t.byte \in Bytes
    /\ bits \in Nat /\ flushed \in BOOLEAN
    /\ pc \in {"sink", "poll", "store", "done"}
    /\ stored \in [compressed : BOOLEAN, size : Nat]

\* heatshrink_encoder_reset
EncoderReset ==
    [state |-> "not full", size |-> 0, scan |-> 0, finishing |-> FALSE,
     backlog |-> "none", match |-> [off |-> 0, len |-> 0],
     buffer |-> [i \in 0..(2 * WindowLength - 1) |-> 0]]

Init ==
    /\ input \in Inputs
    /\ sunk = 0
    /\ hse = EncoderReset
    /\ tokens = <<>> /\ bits = 0 /\ flushed = FALSE
    /\ pc = "sink"
    /\ stored = Nothing

\* The buffer has twice the size of the file; the first byte has the
\* parameters of the encoder.
Written == bits \div ByteBits
CanTakeByte == Written < 2 * Len(input) - 1
-----------------------------------------------------------------------------
\* heatshrink_encoder_sink, and heatshrink_encoder_finish after the last byte.
Sink ==
    /\ pc = "sink" /\ hse.state = "not full"
    /\ LET n == Min({WindowLength - hse.size, Len(input) - sunk})
           at == WindowLength + hse.size
           last == sunk + n = Len(input) IN
       /\ sunk' = sunk + n
       /\ hse' = [hse EXCEPT
              !.buffer = [i \in DOMAIN @ |-> IF i \in at..(at + n - 1)
                                             THEN input[sunk + 1 + i - at] ELSE @[i]],
              !.size = @ + n,
              !.finishing = last,
              !.state = IF last \/ hse.size + n = WindowLength THEN "filled" ELSE @]
    /\ pc' = "poll"
    /\ UNCHANGED <<input, tokens, bits, flushed, stored>>

\* How many bytes from pos on are those from end on, of at most most.
Match(pos, end, most) ==
    Max({k \in 0..most : \A i \in 0..(k - 1) : hse.buffer[pos + i] = hse.buffer[end + i]})

\* find_longest_match: none when it would not save anything.
FindLongestMatch(start, end, most) ==
    LET len == Max({0} \union {Match(pos, end, most) : pos \in start..(end - 1)})
        pos == Max({p \in start..(end - 1) : Match(p, end, most) = len}) IN
    IF len >= BreakEven THEN [off |-> end - pos, len |-> len] ELSE [off |-> 0, len |-> 0]

\* A faulty start that takes the whole buffer for the backlog.
SearchStart_Whole(end) == 0

\* Where the search starts: the first bytes of a backlog that is not yet full
\* are undefined.
SearchStart(end) ==
    CASE hse.backlog = "filled"  -> end - WindowLength + 1
      [] hse.backlog = "partial" -> Max({end - WindowLength + 1, LookaheadSize})
      [] hse.backlog = "none"    -> WindowLength

\* st_step_search
Search ==
    /\ hse.state = "search"
    /\ LET ahead == IF hse.finishing THEN 0 ELSE LookaheadSize
           end == WindowLength + hse.scan IN
       IF hse.scan >= hse.size - ahead
       THEN hse' = [hse EXCEPT !.state = "backlog"]
       ELSE \E m \in {FindLongestMatch(SearchStart(end), end,
                                       Min({LookaheadSize, hse.size - hse.scan}))} :
              hse' = [hse EXCEPT !.state = "tag", !.match = m,
                                 !.scan = IF m.len = 0 THEN @ + 1 ELSE @]
    /\ UNCHANGED <<tokens, bits>>

\* st_yield_tag_bit
YieldTag ==
    /\ hse.state = "tag" /\ CanTakeByte
    /\ bits' = bits + 1
    /\ hse' = [hse EXCEPT !.state = IF hse.match.len = 0 THEN "literal" ELSE "index"]
    /\ UNCHANGED tokens

\* st_yield_literal: the byte before the one that is scanned next.
YieldLiteral ==
    /\ hse.state = "literal" /\ CanTakeByte
    /\ bits' = bits + ByteBits
    /\ tokens' = Append(tokens, Literal(hse.buffer[WindowLength + hse.scan - 1]))
    /\ hse' = [hse EXCEPT !.state = "search"]

\* st_yield_br_index and st_yield_br_length, with their parts of a byte.
YieldIndex ==
    /\ hse.state = "index" /\ CanTakeByte
    /\ bits' = bits + WindowBits
    /\ hse' = [hse EXCEPT !.state = "length"]
    /\ UNCHANGED tokens

YieldLength ==
    /\ hse.state = "length" /\ CanTakeByte
    /\ bits' = bits + LookaheadBits
    /\ tokens' = Append(tokens, Repeat(hse.match.off, hse.match.len))
    /\ hse' = [hse EXCEPT !.state = "search", !.scan = @ + hse.match.len, !.match.len = 0]

\* A faulty move that forgets the bytes that were not looked at.
Shifted_Whole(buffer, n) ==
    [i \in DOMAIN buffer |-> IF i < WindowLength THEN buffer[i + WindowLength] ELSE 0]

\* The memmove of save_backlog, by as many bytes as were scanned.
Shifted(buffer, n) ==
    [i \in DOMAIN buffer |-> IF i + n \in DOMAIN buffer THEN buffer[i + n] ELSE buffer[i]]

\* st_save_backlog
SaveBacklog ==
    /\ hse.state = "backlog"
    /\ hse' = IF hse.finishing THEN [hse EXCEPT !.state = "flush"]
              ELSE [hse EXCEPT
                     !.state = "not full",
                     !.buffer = Shifted(@, hse.scan),
                     !.backlog = IF @ = "none" THEN "partial" ELSE "filled",
                     !.size = @ - hse.scan,
                     !.scan = 0]
    /\ UNCHANGED <<tokens, bits>>

\* do_indexing
Index ==
    /\ hse.state = "filled"
    /\ hse' = [hse EXCEPT !.state = "search"]
    /\ UNCHANGED <<tokens, bits>>

\* heatshrink_encoder_poll: a turn of its loop that goes on.
Turn ==
    /\ pc = "poll"
    /\ Index \/ Search \/ YieldTag \/ YieldLiteral \/ YieldIndex \/ YieldLength \/ SaveBacklog
    /\ UNCHANGED <<input, sunk, flushed, pc, stored>>

\* It returns to have more input,
PollEmpty ==
    /\ pc = "poll" /\ hse.state = "not full"
    /\ pc' = "sink"
    /\ UNCHANGED <<input, sunk, hse, tokens, bits, flushed, stored>>

\* or after st_flush_bit_buffer, whether there was room for the byte or not:
\* the case goes on into the next one.
Flush ==
    /\ pc = "poll" /\ hse.state = "flush"
    /\ flushed' = (bits % ByteBits # 0 /\ CanTakeByte)
    /\ hse' = [hse EXCEPT !.state = IF bits % ByteBits = 0 \/ CanTakeByte THEN "done" ELSE @]
    /\ pc' = "store"
    /\ UNCHANGED <<input, sunk, tokens, bits, stored>>

\* r of compressHeatshrink
CompressedSize == 1 + Written + IF flushed THEN 1 ELSE 0

\* A faulty choice that keeps what the encoder gave.
Keeps_Always(size) == TRUE

\* handleFile: a file that got longer is stored as it is.
Keeps(size) == size <= Len(input)

Store ==
    /\ pc = "store"
    /\ stored' = IF Keeps(CompressedSize) THEN [compressed |-> TRUE, size |-> CompressedSize]
                 ELSE [compressed |-> FALSE, size |-> Len(input)]
    /\ pc' = "done"
    /\ UNCHANGED <<input, sunk, hse, tokens, bits, flushed>>

Next == Sink \/ Turn \/ PollEmpty \/ Flush \/ Store

Spec == Init /\ [][Next]_vars /\ WF_vars(Next)
-----------------------------------------------------------------------------
\* The encoder never loses or changes a byte: at any time its tokens expand to
\* the first bytes of the file, and the fields of their bits can hold them.
EncodesPrefix ==
    /\ IsPrefix(Plain(tokens), input)
    /\ \A t \in Range(tokens) : t.off <= WindowLength /\ t.len <= LookaheadSize

\* What is stored as compressed expands to the file, and all its bits are
\* there, although the encoder reports that it is done when the last byte did
\* not fit; no other file runs out of room.
StoredExpands ==
    /\ pc = "done" /\ stored.compressed =>
          Plain(tokens) = input /\ stored.size = 1 + FileLen(tokens)
    /\ hse.state \in Yields => CanTakeByte

\* Every file is packed.
PackingEnds == <>(pc = "done")
=============================================================================
