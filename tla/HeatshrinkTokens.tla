-------------------------- MODULE HeatshrinkTokens --------------------------
(***************************************************************************)
(* What is in a file compressed with lib/heatshrink: a sequence of tokens, *)
(* each a literal byte or a repetition of len bytes from off bytes back.   *)
(***************************************************************************)
EXTENDS SequencesExt, Integers

CONSTANTS ByteBits,    \* 8
          WindowBits, LookaheadBits    \* the parameters in the first byte

Bytes == 0..(2^ByteBits - 1)
Literal(v) == [off |-> 0, len |-> 1, byte |-> v]
Repeat(off, len) == [off |-> off, len |-> len, byte |-> 0]
IsLiteral(t) == t.off = 0

\* The plain bytes of the first tokens; what lies before the start is zero.
Plain(f) ==
    LET Add(p, t) ==
          IF IsLiteral(t) THEN Append(p, t.byte)
          ELSE FoldLeft(LAMBDA q, k : Append(q, IF t.off > Len(q) THEN 0
                                                ELSE q[Len(q) + 1 - t.off]),
                        p, [k \in 1..t.len |-> k])
    IN  FoldLeft(Add, <<>>, f)

TokenBits(t) == 1 + IF IsLiteral(t) THEN ByteBits ELSE WindowBits + LookaheadBits

\* A faulty length that leaves out a last byte that is not full.
FileLen_Down(f) == FoldLeft(LAMBDA n, t : n + TokenBits(t), 0, f) \div ByteBits

\* fileLenComp, less the byte of parameters; the encoder fills the last byte.
FileLen(f) == (FoldLeft(LAMBDA n, t : n + TokenBits(t), 0, f) + ByteBits - 1) \div ByteBits
=============================================================================
