---------------------------- MODULE EspFsTemplate ----------------------------
(***************************************************************************)
(* cgiEspFsTemplate (user/httpdespfs.c): a page is sent a chunk at a time, *)
(* and each %token% in it is replaced by what the callback of the page     *)
(* sends for it; %% stands for a percent sign.  A token, or the two signs, *)
(* may lie in different chunks.                                            *)
(***************************************************************************)
EXTENDS SequencesExt, Integers

CONSTANTS Pages,       \* the files, sequences of characters
          Value(_),    \* what the callback sends for a token
          Chunk,       \* the characters that are read at a time, 1024
          TokenSize,   \* sizeof(tpd->token), 64
          SendSize,    \* MAX_SENDBUFF_LEN
          None

VARIABLES page,        \* the file
          pos,         \* how far it was read
          token,       \* the token being read, None outside of one
          sent,        \* what the client was sent
          called,      \* a sent callback is to come
          done,        \* HTTPD_CGI_DONE was returned
          dropped      \* history: a piece did not fit the send buffer

vars == <<page, pos, token, sent, called, done, dropped>>

TypeOK ==
    /\ page \in Pages
    /\ pos \in 0..Len(page)
    /\ token # None => Len(token) < TokenSize
    /\ {called, done, dropped} \subseteq BOOLEAN

\* The headers have been sent.
Init ==
    /\ page \in Pages
    /\ pos = 0
    /\ token = None
    /\ sent = <<>>
    /\ called = TRUE
    /\ done = FALSE
    /\ dropped = FALSE
-----------------------------------------------------------------------------
\* httpdSend: a piece goes into the send buffer whole or not at all.
Send(b, piece) ==
    IF Len(b.out) + Len(piece) > SendSize THEN [b EXCEPT !.dropped = TRUE]
    ELSE [b EXCEPT !.out = @ \o piece]

\* A faulty parser that forgets where plain text begins after a token.
Character_KeepsRaw(b, c) ==
    IF b.token = None
    THEN IF c = "%" THEN [Send(b, b.raw) EXCEPT !.token = <<>>]
                    ELSE [b EXCEPT !.raw = Append(@, c)]
    ELSE IF c = "%" THEN [Send(b, IF b.token = <<>> THEN <<c>> ELSE Value(b.token))
                             EXCEPT !.token = None]
         ELSE [b EXCEPT !.token = Append(@, c)]

\* One character: b.raw is the plain text since the last token.
Character(b, c) ==
    CASE b.token = None /\ c = "%" -> [Send(b, b.raw) EXCEPT !.raw = <<>>, !.token = <<>>]
      [] b.token = None /\ c # "%" -> [b EXCEPT !.raw = Append(@, c)]
      [] b.token = <<>> /\ c = "%" -> [Send(b, <<c>>) EXCEPT !.token = None]
      [] b.token # None /\ c # "%" ->
            IF Len(b.token) < TokenSize - 1 THEN [b EXCEPT !.token = Append(@, c)] ELSE b
      [] OTHER -> [Send(b, Value(b.token)) EXCEPT !.token = None]

\* A call of the handler, from the sent callback of the one before: a chunk of
\* which nothing is sent has none, and the page ends with it.
Call ==
    /\ ~done /\ called
    /\ LET n == Min({Chunk, Len(page) - pos})
           b == FoldLeft(Character,
                         [token |-> token, raw |-> <<>>, out |-> <<>>, dropped |-> FALSE],
                         SubSeq(page, pos + 1, pos + n))
           e == Send(b, b.raw)
       IN  /\ pos' = pos + n
           /\ token' = b.token
           /\ sent' = sent \o e.out
           /\ called' = (e.out # <<>>)
           /\ dropped' = (dropped \/ e.dropped)
           /\ done' = (n # Chunk)
    /\ UNCHANGED page

Next == Call

Spec == Init /\ [][Next]_vars
-----------------------------------------------------------------------------
\* The parts of a page between its percent signs: plain text and tokens by
\* turns.
Signs == SelectSeq([i \in DOMAIN page |-> i], LAMBDA i : page[i] = "%")
Cuts == <<0>> \o Signs \o <<Len(page) + 1>>
Part(k) == SubSeq(page, Cuts[k] + 1, Cuts[k + 1] - 1)
Expanded(k) ==
    IF k % 2 = 1 THEN Part(k)
    ELSE IF k = Len(Cuts) - 1 THEN <<>>         \* a token that has no end
    ELSE IF Part(k) = <<>> THEN <<"%">>
    ELSE Value(SubSeq(Part(k), 1, Min({Len(Part(k)), TokenSize - 1})))

\* The client gets the page with its tokens replaced, wherever the chunks are
\* cut, as long as every chunk with its replacements fits the send buffer.
PageExpanded ==
    done /\ ~dropped =>
        sent = FlattenSeq([k \in 1 .. Len(Cuts) - 1 |-> Expanded(k)])
=============================================================================
