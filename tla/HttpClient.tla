----------------------------- MODULE HttpClient -----------------------------
(***************************************************************************)
(* A request of the HTTP client (user/httpclient.c): the lookup of the     *)
(* server, the connection, the request that goes out in one or two sends,  *)
(* the answer that is put together from what arrives, and the one call of  *)
(* the function the caller gave.  The server may answer anything, in any   *)
(* pieces, and close at any point; the blocks that are allocated are kept  *)
(* account of.  A request is a GET, as broadcastReading and wifiConnectCb  *)
(* make them, or a POST.                                                   *)
(***************************************************************************)
EXTENDS Sequences, SequencesExt, Integers

CONSTANTS Answers,        \* what servers send: sequences of tokens
          BufferMax,      \* BUFFER_SIZE_MAX, less the null character
          Segment         \* the most that arrives at once, which is less

\* The tokens of an answer.
Version == "HTTP/1.1 "
Status == "status"
HeadEnd == "empty line"
NUL == "null"

VARIABLES post,           \* is it a POST?
          answer,         \* what the server is still to send
          arrived,        \* history: what it sent
          state,          \* of the connection, or how far the request got
          unconfirmed,    \* sends that sent_callback is still to be called for
          sent,           \* history: what was given to espconn_sent
          closing,        \* espconn_disconnect was called
          buffer,         \* req->buffer, without its last null character
          blocks,         \* the blocks that are allocated
          looked,         \* history: how the lookup ended
          calls           \* history: the calls of user_callback

vars == <<post, answer, arrived, state, unconfirmed, sent, closing, buffer, blocks,
          looked, calls>>

Request == {"req", "hostname", "path", "buffer"}
Connection == {"conn", "tcp"}

TypeOK ==
    /\ post \in BOOLEAN /\ closing \in BOOLEAN
    /\ answer \in Seq(UNION {Range(a) : a \in Answers})
    /\ state \in {"idle", "lookup", "connecting", "open", "done"}
    /\ unconfirmed \in 0..2
    /\ sent \in {<<>>, <<"head">>, <<"head", "post">>}
    /\ Len(buffer) <= BufferMax
    /\ blocks \subseteq Request \union Connection \union {"post_data"}
    /\ looked \in {"not", "found", "failed"}

Init ==
    /\ post \in BOOLEAN
    /\ answer \in Answers
    /\ arrived = <<>>
    /\ state = "idle"
    /\ unconfirmed = 0
    /\ sent = <<>>
    /\ closing = FALSE
    /\ buffer = <<>>
    /\ blocks = {}
    /\ looked = "not"
    /\ calls = <<>>
-----------------------------------------------------------------------------
\* http_raw_request; the address may be known (dns_callback is then called
\* from here) or the lookup fail at once: Found and NotFound, in any case.
http_raw_request ==
    /\ state = "idle"
    /\ state' = "lookup"
    /\ blocks' = Request \union (IF post THEN {"post_data"} ELSE {})
    /\ UNCHANGED <<post, answer, arrived, unconfirmed, sent, closing, buffer, looked, calls>>

\* dns_callback with an address.
Found ==
    /\ state = "lookup"
    /\ state' = "connecting"
    /\ blocks' = blocks \union Connection
    /\ looked' = "found"
    /\ UNCHANGED <<post, answer, arrived, unconfirmed, sent, closing, buffer, calls>>

\* A faulty NotFound, which does not tell the caller.
NotFound_Quiet ==
    /\ state = "lookup"
    /\ state' = "done"
    /\ blocks' = blocks \ {"req"}
    /\ looked' = "failed"
    /\ UNCHANGED <<post, answer, arrived, unconfirmed, sent, closing, buffer, calls>>

\* dns_callback without one: only the block of the request itself is freed.
NotFound ==
    /\ state = "lookup"
    /\ state' = "done"
    /\ calls' = Append(calls, [status |-> -1, body |-> <<>>])
    /\ blocks' = blocks \ {"req"}
    /\ looked' = "failed"
    /\ UNCHANGED <<post, answer, arrived, unconfirmed, sent, closing, buffer>>

\* connect_callback
Connected ==
    /\ state = "connecting"
    /\ state' = "open"
    /\ sent' = <<"head">>
    /\ unconfirmed' = 1
    /\ UNCHANGED <<post, answer, arrived, closing, buffer, blocks, looked, calls>>

\* A faulty sent_callback, which keeps what it has sent.
sent_callback_Again ==
    /\ state = "open" /\ unconfirmed > 0
    /\ IF "post_data" \in blocks
       THEN /\ sent' = Append(sent, "post")
            /\ UNCHANGED <<blocks, unconfirmed>>
       ELSE /\ unconfirmed' = unconfirmed - 1
            /\ UNCHANGED <<sent, blocks>>
    /\ UNCHANGED <<post, answer, arrived, state, closing, buffer, looked, calls>>

\* sent_callback: the body of a POST goes out when its head was sent.
sent_callback ==
    /\ state = "open" /\ unconfirmed > 0
    /\ IF "post_data" \in blocks
       THEN /\ sent' = Append(sent, "post")
            /\ blocks' = blocks \ {"post_data"}
            /\ UNCHANGED unconfirmed
       ELSE /\ unconfirmed' = unconfirmed - 1
            /\ UNCHANGED <<sent, blocks>>
    /\ UNCHANGED <<post, answer, arrived, state, closing, buffer, looked, calls>>


\* The buffer of a response that is too long; a string that starts with the
\* null character is empty.
Discarded(b) == IF b = <<>> THEN b ELSE [b EXCEPT ![1] = NUL]

\* receive_callback with the next n tokens; what is queued in the stack may
\* arrive after espconn_disconnect.
receive_callback ==
    /\ state = "open"
    /\ \E n \in {k \in 1..Segment : k <= Len(answer)} :
          LET buf == SubSeq(answer, 1, n) IN
          /\ arrived' = arrived \o buf
          /\ answer' = SubSeq(answer, n + 1, Len(answer))
          /\ IF Len(buffer) + n > BufferMax
             THEN /\ buffer' = Discarded(buffer)
                  /\ closing' = TRUE
             ELSE /\ buffer' = buffer \o buf
                  /\ UNCHANGED closing
    /\ UNCHANGED <<post, state, unconfirmed, sent, blocks, looked, calls>>

\* What follows the first empty line; without one the code reads from an
\* address that means nothing, and anything may be there.
BodyOf(b) ==
    IF HeadEnd \in Range(b)
    THEN [known |-> TRUE, text |-> SubSeq(b, SelectInSeq(b, LAMBDA t : t = HeadEnd) + 1, Len(b))]
    ELSE [known |-> FALSE, text |-> <<>>]

\* A faulty Outcome, which takes any first line for a status.
Outcome_AnyVersion(b) ==
    IF b = <<>> \/ b[1] = NUL
    THEN [status |-> -1, body |-> <<>>]
    ELSE [status |-> IF Len(b) > 1 /\ b[2] = Status THEN 200 ELSE 0, body |-> BodyOf(b)]

\* What disconnect_callback makes of the buffer; atoi finds the status, or 0.
Outcome(b) ==
    IF b = <<>> \/ b[1] # Version
    THEN [status |-> -1, body |-> <<>>]
    ELSE [status |-> IF Len(b) > 1 /\ b[2] = Status THEN 200 ELSE 0, body |-> BodyOf(b)]

\* A faulty disconnect_callback, which forgets the path.
Freed_NotPath == blocks \ ((Request \union Connection) \ {"path"})

\* What disconnect_callback frees.
Freed == blocks \ (Request \union Connection)

\* disconnect_callback, and error_callback, which is the same: no connection
\* was made, the server closed it or it broke off, or the client asked for it.
disconnect_callback ==
    /\ state \in {"connecting", "open"}
    /\ state' = "done"
    /\ calls' = Append(calls, Outcome(buffer))
    /\ blocks' = Freed
    /\ UNCHANGED <<post, answer, arrived, unconfirmed, sent, closing, buffer, looked>>

Next ==
    \/ http_raw_request \/ Found \/ NotFound
    \/ Connected \/ sent_callback \/ receive_callback \/ disconnect_callback

\* The resolver answers, and a connection is closed in the end.
Fairness == WF_vars(Found \/ NotFound) /\ WF_vars(disconnect_callback)

Spec == Init /\ [][Next]_vars /\ Fairness
-----------------------------------------------------------------------------
\* The caller is told once how the request ended, on every path.
CalledOnce == Len(calls) = (IF state = "done" THEN 1 ELSE 0)

\* The caller never gets a part of a response that was too long, nor anything
\* that is not an answer of this version; what it gets as the body is all that
\* arrived after the head, if the head arrived.
AnswerRight ==
    \A i \in DOMAIN calls :
        calls[i].status # -1 =>
            /\ arrived[1] = Version
            /\ Len(arrived) <= BufferMax
            /\ HeadEnd \in Range(arrived) =>
                  calls[i].body = [known |-> TRUE, text |-> BodyOf(arrived).text]

\* The head of the request goes out once and before its body, which goes out
\* once.
SentInOrder == sent \in {<<>>, <<"head">>} \/ (post /\ sent = <<"head", "post">>)

\* No block is left, but for those of a lookup that failed and the body of a
\* POST that was not sent.
NothingLeft ==
    state = "done" =>
        blocks \subseteq (IF looked = "failed" THEN {"hostname", "path", "buffer"} ELSE {})
                             \union (IF sent # <<"head", "post">> THEN {"post_data"} ELSE {})

\* Every request comes to an end that the caller learns of.
Answered == state = "lookup" ~> Len(calls) = 1
=============================================================================
