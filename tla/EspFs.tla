-------------------------------- MODULE EspFs --------------------------------
(***************************************************************************)
(* Reading a file of the web pages: espFsRead (user/espfs.c) as            *)
(* cgiEspFsHook (user/httpdespfs.c) calls it, a chunk at a time, with the  *)
(* decoder of lib/heatshrink for compressed files.                         *)
(*                                                                         *)
(* A compressed file is a sequence of tokens (HeatshrinkTokens).  Of its   *)
(* bits only the number matters: a field is read when all its bits are in  *)
(* the decoder.  (Fields of more than a byte are read in two parts, which  *)
(* only makes room for more input a little earlier.)                       *)
(***************************************************************************)
EXTENDS HeatshrinkTokens

CONSTANTS InSize,      \* the input buffer of the decoder, 16
          Chunk,       \* the bytes that a read asks for, 1024
          Files        \* sequences of tokens

VARIABLES file,        \* the file that is open, or the plain bytes of one
          compressed,  \* header->compression
          posComp,     \* bytes taken from flash, without the one of parameters
          dec,         \* the decoder
          decoded,     \* the bytes this call of espFsRead has put into buff
          sent,        \* what the client was sent
          pc,          \* where espFsRead is
          cut          \* history: a read was full when all input was in the
                       \* decoder and the decoder was not done with it

vars == <<file, compressed, posComp, dec, decoded, sent, pc, cut>>

\* dec.pos counts the bits taken and dec.sunk the bytes put in; dec.base is
\* sunk when the input buffer last was empty, so that input_size follows.
DecoderReset ==
    [state |-> "empty", pos |-> 0, sunk |-> 0, base |-> 0, token |-> 1,
     count |-> 0, window |-> [i \in 0..(2^WindowBits - 1) |-> 0], head |-> 0]

TypeOK ==
    /\ compressed \in BOOLEAN
    /\ posComp \in Nat
    /\ dec.state \in {"empty", "input", "literal", "index", "count", "yield", "check"}
    /\ dec.window \in [0..(2^WindowBits - 1) -> Bytes]
    /\ decoded \in Seq(Bytes) /\ Len(decoded) <= Chunk
    /\ sent \in Seq(Bytes)
    /\ pc \in {"call", "loop", "poll", "done"}
    /\ cut \in BOOLEAN

Init ==
    /\ \/ compressed = TRUE /\ file \in Files
       \/ compressed = FALSE /\ file \in {Plain(f) : f \in Files}
    /\ posComp = 0
    /\ dec = DecoderReset
    /\ decoded = <<>>
    /\ sent = <<>>
    /\ pc = "call"
    /\ cut = FALSE

Left == (IF compressed THEN FileLen(file) ELSE Len(file)) - posComp
-----------------------------------------------------------------------------
\* get_bits: a new byte is pulled when the current one is used up; with no
\* byte left, all the bits asked for must be in the current one.
Pulled(d) == (d.pos + ByteBits - 1) \div ByteBits
InputSize(d) == IF Pulled(d) = d.sunk THEN 0 ELSE d.sunk - d.base
HasBits(n) == InputSize(dec) > 0 \/ Pulled(dec) * ByteBits - dec.pos >= n
Took(n) ==
    LET d == [dec EXCEPT !.pos = @ + n] IN
    [d EXCEPT !.base = IF Pulled(d) = d.sunk THEN d.sunk ELSE @]

\* A faulty sink that does not look for room.
Sink_Full(d, n) == n

\* heatshrink_decoder_sink: how many of n bytes fit.
Sink(d, n) == Min({n, InSize - InputSize(d)})

\* espFsRead for a file that is not compressed.
ReadPlain ==
    /\ pc = "call" /\ ~compressed
    /\ LET n == Min({Chunk, Left}) IN
       /\ sent' = sent \o SubSeq(file, posComp + 1, posComp + n)
       /\ posComp' = posComp + n
       /\ pc' = IF n = Chunk THEN "call" ELSE "done"
    /\ UNCHANGED <<file, compressed, dec, decoded, cut>>

\* espFsRead for a compressed one, and the loop until the buffer is full.
Call ==
    /\ pc = "call" /\ compressed
    /\ decoded' = <<>>
    /\ pc' = "loop"
    /\ UNCHANGED <<file, compressed, posComp, dec, sent, cut>>

\* The loop takes input first, and takes the end of the input for the end of
\* the file.  A short read is the last one.
Feed ==
    /\ pc = "loop" /\ Len(decoded) < Chunk /\ Left > 0
    /\ LET n == Sink(dec, Min({Left, InSize})) IN
       /\ posComp' = posComp + n
       /\ dec' = [dec EXCEPT !.sunk = @ + n,
                             !.state = IF @ = "empty" THEN "input" ELSE @]
    /\ pc' = "poll"
    /\ UNCHANGED <<file, compressed, decoded, sent, cut>>

\* The state in which nothing is left to be decoded.
AtEnd(d) == d.token > Len(file)

\* A faulty loop that goes on without input.
Return_Full ==
    /\ pc = "loop" /\ Len(decoded) = Chunk
    /\ sent' = sent \o decoded
    /\ pc' = "call"
    /\ UNCHANGED <<file, compressed, posComp, dec, decoded, cut>>

Return ==
    /\ pc = "loop" /\ (Len(decoded) = Chunk \/ Left = 0)
    /\ sent' = sent \o decoded
    /\ pc' = IF Len(decoded) = Chunk THEN "call" ELSE "done"
    /\ cut' = (cut \/ (Len(decoded) = Chunk /\ Left = 0 /\ ~AtEnd(dec)))
    /\ UNCHANGED <<file, compressed, posComp, dec, decoded>>

Token == file[dec.token]

\* A faulty emission that counts the window from its other end.
Back_OneLess(d, off) == d.window[(d.head - off + 1) % 2^WindowBits]

\* The byte off bytes back.
Back(d, off) == d.window[(d.head - off) % 2^WindowBits]

\* st_yield_literal and st_yield_backref for one byte.
Emit(d, v) ==
    /\ decoded' = Append(decoded, v)
    /\ dec' = [d EXCEPT !.window[d.head % 2^WindowBits] = v, !.head = @ + 1]

\* heatshrink_decoder_poll: a turn of its loop that changes the state.  The
\* last state asks for input bytes only: bits that fill the last byte are too
\* few for a token.
PollTag ==
    /\ dec.state = "input"
    /\ dec' = [Took(1) EXCEPT !.state = IF IsLiteral(Token) THEN "literal" ELSE "index"]
    /\ UNCHANGED decoded
PollLiteral ==
    /\ dec.state = "literal" /\ HasBits(ByteBits) /\ Len(decoded) < Chunk
    /\ Emit([Took(ByteBits) EXCEPT !.state = "check", !.token = @ + 1], Token.byte)
PollIndex ==
    /\ dec.state = "index" /\ HasBits(WindowBits)
    /\ dec' = [Took(WindowBits) EXCEPT !.state = "count"]
    /\ UNCHANGED decoded
PollCount ==
    /\ dec.state = "count" /\ HasBits(LookaheadBits)
    /\ dec' = [Took(LookaheadBits) EXCEPT !.state = "yield", !.count = Token.len]
    /\ UNCHANGED decoded
PollYield ==
    /\ dec.state = "yield" /\ Len(decoded) < Chunk
    /\ LET last == dec.count = 1 IN
       Emit([dec EXCEPT !.count = @ - 1, !.state = IF last THEN "check" ELSE @,
                        !.token = IF last THEN @ + 1 ELSE @],
            Back(dec, Token.off))
PollCheck ==
    /\ dec.state = "check"
    /\ dec' = [dec EXCEPT !.state = IF InputSize(dec) = 0 THEN "empty" ELSE "input"]
    /\ UNCHANGED decoded

Advance == PollTag \/ PollLiteral \/ PollIndex \/ PollCount \/ PollYield \/ PollCheck

\* Out of input, or of room for output: the decoder returns.
Blocked ==
    \/ dec.state = "empty"
    \/ dec.state = "literal" /\ (Len(decoded) = Chunk \/ ~HasBits(ByteBits))
    \/ dec.state = "index" /\ ~HasBits(WindowBits)
    \/ dec.state = "count" /\ ~HasBits(LookaheadBits)
    \/ dec.state = "yield" /\ Len(decoded) = Chunk

Poll ==
    /\ pc = "poll"
    /\ \/ /\ Advance
          /\ UNCHANGED pc
       \/ /\ Blocked
          /\ pc' = "loop"
          /\ UNCHANGED <<dec, decoded>>
    /\ UNCHANGED <<file, compressed, posComp, sent, cut>>

Next == ReadPlain \/ Call \/ Feed \/ Return \/ Poll

Spec == Init /\ [][Next]_vars /\ WF_vars(Next)
-----------------------------------------------------------------------------
Contents == IF compressed THEN Plain(file) ELSE file

\* However the input and the output are cut into pieces, what is decoded is
\* the file, up to a point.
SendsPrefix == IsPrefix(sent \o IF pc \in {"loop", "poll"} THEN decoded ELSE <<>>, Contents)

\* The input buffer holds no more than it has room for.
InputFits == InputSize(dec) <= InSize

\* The client is sent the whole file, unless the buffer got full when all the
\* input was in the decoder: the next read sees no input and reports the end.
WholeFile == pc = "done" /\ ~cut => sent = Contents

\* What the comment in espFsRead says of the end of the input, "file is read".
\* The code does not keep this.
ReadToEnd == pc = "done" => sent = Contents

\* Reading ends: every turn of the loops takes input or gives output.
ReadingEnds == <>(pc = "done")
=============================================================================
