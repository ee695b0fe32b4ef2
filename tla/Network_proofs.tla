--------------------------- MODULE Network_proofs ---------------------------
(***************************************************************************)
(* Proofs about the clients of the network, for any bounds and any answers *)
(* of servers.                                                             *)
(*                                                                         *)
(* Sntp: its types, that it never stops asking, and that it asks one       *)
(* question at a time.  OneChain is inductive once the variables have      *)
(* types: one chain is always left, and each late answer adds one at most. *)
(*                                                                         *)
(* HttpClient (C): the caller is told once, gets whole answers only, head  *)
(* and body go out in order and no memory is left.  None of the four is    *)
(* inductive; HttpInv says for every state of a request what was sent,     *)
(* which blocks are allocated and what became of what arrived.             *)
(***************************************************************************)
EXTENDS MCNetwork, TLAPS

\* TypeOK without the bounds, which follow from OneChain.
Typed ==
    /\ timeouts \in [{"request", "retry"} -> Nat]
    /\ lookups \in Nat
    /\ doublings \in 0..MaxDoublings
    /\ synced \in BOOLEAN
    /\ late \in 0..MaxLate
    /\ turn \in {0, 1}

IInv == Typed /\ OneChain

LEMMA InitInv == Init => IInv
<1> SUFFICES ASSUME Init PROVE IInv
  OBVIOUS
<1>1. timeouts \in [{"request", "retry"} -> Nat] /\ Chains = 1
  BY DEF Init, Chains
<1>2. lookups \in Nat /\ doublings \in 0..MaxDoublings /\ late \in 0..MaxLate /\ late = 0
  BY SntpAssumption DEF Init
<1>3. synced \in BOOLEAN /\ turn \in {0, 1}
  BY Zenon DEF Init
<1>4. QED
  BY <1>1, <1>2, <1>3 DEF IInv, Typed, OneChain

\* What arming and disarming do to the number of timeouts.
LEMMA ArmFacts ==
    ASSUME NEW t \in [{"request", "retry"} -> Nat], NEW f \in {"request", "retry"}
    PROVE  /\ Arm(t, f) \in [{"request", "retry"} -> Nat]
           /\ Arm(t, f)["request"] + Arm(t, f)["retry"] = t["request"] + t["retry"] + 1
           /\ Disarm(t, f) \in [{"request", "retry"} -> Nat]
           /\ t[f] > 0 => Disarm(t, f)["request"] + Disarm(t, f)["retry"] + 1
                            = t["request"] + t["retry"]
           /\ Disarm(t, f)["request"] + Disarm(t, f)["retry"] <= t["request"] + t["retry"]
  BY DEF Arm, Disarm

\* Stopping takes the timeout away if there is but one.
LEMMA StoppedFacts ==
    ASSUME NEW t \in [{"request", "retry"} -> Nat]
    PROVE  /\ Stopped(t) \in [{"request", "retry"} -> Nat]
           /\ Stopped(t)["request"] + Stopped(t)["retry"] <= t["request"] + t["retry"]
           /\ t["request"] + t["retry"] > 0 =>
                 Stopped(t)["request"] + Stopped(t)["retry"] + 1 <= t["request"] + t["retry"]
  BY DEF Stopped, Disarm

LEMMA NextInv == IInv /\ [Next]_vars => IInv'
<1> SUFFICES ASSUME IInv, [Next]_vars PROVE IInv'
  OBVIOUS
<1> USE SntpAssumption DEF IInv, Typed, OneChain, Chains
<1> DEFINE Total(t) == t["request"] + t["retry"]
<1>d. Doubled(doublings) \in 0..MaxDoublings
  BY DEF Doubled
<1>1. CASE Request
  <2> DEFINE t == Disarm(timeouts, "request")
  <2>1. t \in [{"request", "retry"} -> Nat] /\ Total(t) + 1 = Total(timeouts)
    BY <1>1, ArmFacts DEF Request
  <2>2. CASE SendRequest(t) /\ UNCHANGED lookups
    <3>1. timeouts' \in [{"request", "retry"} -> Nat] /\ Total(timeouts') = Total(t) + 1
      BY <2>1, <2>2, ArmFacts DEF SendRequest
    <3>2. QED
      BY <1>1, <2>1, <2>2, <3>1 DEF Request
  <2>3. CASE timeouts' = t /\ lookups' = lookups + 1
    BY <1>1, <2>1, <2>3 DEF Request
  <2>4. CASE timeouts' = Arm(t, "retry") /\ UNCHANGED lookups
    <3>1. timeouts' \in [{"request", "retry"} -> Nat] /\ Total(timeouts') = Total(t) + 1
      BY <2>1, <2>4, ArmFacts
    <3>2. QED
      BY <1>1, <2>1, <2>4, <3>1 DEF Request
  <2>5. QED
    BY <1>1, <2>2, <2>3, <2>4 DEF Request
<1>2. CASE RetryTimeout
  <2> DEFINE t == Disarm(timeouts, "retry")
  <2>1. t \in [{"request", "retry"} -> Nat] /\ Total(t) + 1 = Total(timeouts)
    BY <1>2, ArmFacts DEF RetryTimeout
  <2>2. timeouts' \in [{"request", "retry"} -> Nat] /\ Total(timeouts') = Total(t) + 1
    BY <1>2, <2>1, ArmFacts DEF RetryTimeout, Retry
  <2>3. doublings' \in 0..MaxDoublings
    BY <1>2, <1>d DEF RetryTimeout, Retry
  <2>4. QED
    BY <1>2, <2>1, <2>2, <2>3 DEF RetryTimeout
<1>3. CASE DnsFound
  <2>1. timeouts' \in [{"request", "retry"} -> Nat] /\ Total(timeouts') = Total(timeouts) + 1
    BY <1>3, ArmFacts DEF DnsFound, SendRequest, Retry
  <2>2. doublings' \in 0..MaxDoublings
    BY <1>3, <1>d DEF DnsFound, Retry
  <2>3. QED
    BY <1>3, <2>1, <2>2 DEF DnsFound
<1>4. CASE Recv
  <2> DEFINE t == Stopped(timeouts)
  <2>1. t \in [{"request", "retry"} -> Nat]
    BY StoppedFacts
  <2>2. Total(t) <= Total(timeouts) /\ (Total(timeouts) > 0 => Total(t) + 1 <= Total(timeouts))
    BY StoppedFacts
  <2>3. timeouts' \in [{"request", "retry"} -> Nat] /\ Total(timeouts') = Total(t) + 1
    BY <1>4, <2>1, ArmFacts DEF Recv, Retry
  <2>4. doublings' \in 0..MaxDoublings /\ synced' \in BOOLEAN
    <3>1. doublings' = 0 \/ doublings' = Doubled(doublings)
      BY <1>4 DEF Recv, Retry
    <3>2. synced' = TRUE \/ synced' = synced
      BY <1>4 DEF Recv
    <3>3. synced' \in BOOLEAN
      BY <3>2, Zenon
    <3>4. QED
      BY <1>d, <3>1, <3>3
  <2>5. late' \in 0..MaxLate /\ (lookups = 0 => late' = late) /\ (lookups > 0 => late' = late + 1)
    BY <1>4 DEF Recv
  <2>6. Total(t) \in Nat /\ Total(timeouts) \in Nat
    BY <2>1
  <2>7. lookups' = lookups /\ turn' \in {0, 1}
    BY <1>4 DEF Recv
  <2>8. Chains' > 0 /\ Chains' <= 1 + late'
    <3>1. CASE lookups = 0
      BY <2>2, <2>3, <2>5, <2>6, <2>7, <3>1
    <3>2. CASE lookups > 0
      BY <2>2, <2>3, <2>5, <2>6, <2>7, <3>2
    <3>3. QED
      BY <3>1, <3>2
  <2>9. QED
    BY <2>3, <2>4, <2>5, <2>7, <2>8
<1>5. CASE UNCHANGED vars
  BY <1>5 DEF vars
<1>6. QED
  BY <1>1, <1>2, <1>3, <1>4, <1>5 DEF Next

LEMMA Invariant == Spec => []IInv
  BY InitInv, NextInv, PTL DEF Spec

LEMMA InvTypes == IInv => TypeOK
<1> SUFFICES ASSUME IInv PROVE TypeOK
  OBVIOUS
<1>1. \A f \in {"request", "retry"} : timeouts[f] \in 0..(1 + MaxLate)
  BY SntpAssumption DEF IInv, Typed, OneChain, Chains
<1>2. lookups \in 0..(1 + MaxLate)
  BY SntpAssumption DEF IInv, Typed, OneChain, Chains
<1>3. QED
  BY <1>1, <1>2 DEF IInv, Typed, TypeOK

\* No variable leaves its range: the timeout is doubled up to its maximum and
\* no further, and no more timeouts are armed than late answers account for.
THEOREM TypeCorrect == Spec => []TypeOK
  BY Invariant, InvTypes, PTL

\* The client never stops asking, whatever answers come and whenever, and it
\* asks one question at a time, but for the chains that late answers start.
THEOREM OneChainHolds == Spec => []OneChain
<1>1. IInv => OneChain
  BY DEF IInv
<1>2. QED
  BY Invariant, <1>1, PTL

-----------------------------------------------------------------------------
\* HttpClient

Tokens == STRING \union {C!NUL}

\* The body of a POST waits until its head was sent.
Waiting == IF post /\ sent # <<"head", "post">> THEN {"post_data"} ELSE {}

\* What was sent and what is allocated, state by state.
HttpProgress ==
    /\ state = "idle" => sent = <<>> /\ blocks = {} /\ looked = "not"
    /\ state = "lookup" => sent = <<>> /\ blocks = C!Request \union Waiting /\ looked = "not"
    /\ state = "connecting" =>
          sent = <<>> /\ blocks = C!Request \union C!Connection \union Waiting /\ looked = "found"
    /\ state = "open" =>
          /\ sent = <<"head">> \/ (post /\ sent = <<"head", "post">>)
          /\ blocks = C!Request \union C!Connection \union Waiting
          /\ looked = "found"
    /\ state = "done" =>
          /\ sent = <<>> \/ sent = <<"head">> \/ (post /\ sent = <<"head", "post">>)
          /\ looked = "found" => blocks = Waiting
          /\ looked = "failed" =>
                blocks = {"hostname", "path", "buffer"} \union Waiting /\ sent = <<>>
          /\ looked # "not"

\* The buffer has all that arrived, or the mark of a response that was too long.
HttpBuffered ==
    \/ buffer = arrived
    \/ buffer # <<>> /\ buffer[1] = C!NUL

\* What the caller was told.
HttpTold ==
    /\ state # "done" => calls = <<>>
    /\ state = "done" /\ looked = "found" => calls = <<C!Outcome(buffer)>>
    /\ state = "done" /\ looked = "failed" => calls = <<[status |-> -1, body |-> <<>>]>>

HttpTyped ==
    /\ post \in BOOLEAN /\ closing \in BOOLEAN
    /\ answer \in Seq(UNION {C!Range(a) : a \in Answers})
    /\ arrived \in Seq(Tokens)
    /\ buffer \in Seq(Tokens) /\ Len(buffer) <= BufferMax
    /\ state \in {"idle", "lookup", "connecting", "open", "done"}
    /\ unconfirmed \in 0..1
    /\ looked \in {"not", "found", "failed"}

HttpInv == HttpTyped /\ HttpProgress /\ HttpBuffered /\ HttpTold

\* What servers send consists of tokens, and what is left of it too.
LEMMA AnswerTokens ==
    ASSUME NEW s \in Seq(UNION {C!Range(a) : a \in Answers})
    PROVE  s \in Seq(Tokens)
<1>1. \A a \in Answers : C!Range(a) \subseteq Tokens
  BY NetworkAssumption DEF C!Range, Tokens
<1>2. UNION {C!Range(a) : a \in Answers} \subseteq Tokens
  BY <1>1
<1>3. \A k \in 1..Len(s) : s[k] \in Tokens
  BY <1>2
<1>4. QED
  BY <1>3

LEMMA AnswerTyped ==
    ASSUME NEW s \in Answers
    PROVE  s \in Seq(UNION {C!Range(a) : a \in Answers})
<1>1. s \in Seq(STRING)
  BY NetworkAssumption
<1>2. \A k \in 1..Len(s) : s[k] \in UNION {C!Range(a) : a \in Answers}
  BY <1>1 DEF C!Range
<1>3. QED
  BY <1>1, <1>2

LEMMA HttpInit == C!Init => HttpInv
<1> SUFFICES ASSUME C!Init PROVE HttpInv
  OBVIOUS
<1> USE DEF C!Init
<1>1. HttpTyped
  <2>1. post \in BOOLEAN /\ closing \in BOOLEAN
    BY Zenon
  <2>2. answer \in Seq(UNION {C!Range(a) : a \in Answers})
    BY AnswerTyped
  <2>3. QED
    BY <2>1, <2>2, NetworkAssumption DEF HttpTyped
<1>2. HttpProgress /\ HttpBuffered /\ HttpTold
  BY DEF HttpProgress, HttpBuffered, HttpTold
<1>3. QED
  BY <1>1, <1>2 DEF HttpInv

\* The next piece of an answer, and the rest.
LEMMA PieceFacts ==
    ASSUME NEW S, NEW s \in Seq(S), NEW n \in 1..Len(s)
    PROVE  /\ SubSeq(s, 1, n) \in Seq(S) /\ Len(SubSeq(s, 1, n)) = n
           /\ SubSeq(s, n + 1, Len(s)) \in Seq(S)
<1>1. n <= Len(s) /\ 1..n \subseteq 1..Len(s)
  OBVIOUS
<1>2. QED
  BY <1>1

LEMMA DiscardFacts ==
    ASSUME NEW b \in Seq(Tokens)
    PROVE  /\ C!Discarded(b) \in Seq(Tokens) /\ Len(C!Discarded(b)) = Len(b)
           /\ b # <<>> => C!Discarded(b) # <<>> /\ C!Discarded(b)[1] = C!NUL
<1>1. CASE b = <<>>
  BY <1>1 DEF C!Discarded
<1>2. CASE b # <<>>
  <2> DEFINE d == [k \in 1..Len(b) |-> IF k = 1 THEN C!NUL ELSE b[k]]
  <2>1. C!Discarded(b) = d
    <3>1. DOMAIN b = 1..Len(b) /\ b = [k \in 1..Len(b) |-> b[k]]
      OBVIOUS
    <3>2. [b EXCEPT ![1] = C!NUL] = d
      BY <3>1
    <3>3. QED
      BY <1>2, <3>2 DEF C!Discarded
  <2>2. d \in Seq(Tokens) /\ Len(d) = Len(b)
    <3>1. Len(b) \in Nat
      OBVIOUS
    <3>2. C!NUL \in Tokens
      BY DEF Tokens
    <3>3. d \in [1..Len(b) -> Tokens]
      BY <3>1, <3>2
    <3>4. QED
      BY <3>1, <3>3
  <2>3. 1 \in 1..Len(b)
    BY <1>2
  <2>4. d[1] = C!NUL /\ d # <<>>
    BY <1>2, <2>2, <2>3
  <2>5. QED
    BY <1>2, <2>1, <2>2, <2>4
<1>3. QED
  BY <1>1, <1>2

LEMMA ReceiveInv == HttpInv /\ C!receive_callback => HttpInv'
<1> SUFFICES ASSUME HttpInv, C!receive_callback PROVE HttpInv'
  OBVIOUS
<1> USE DEF HttpInv
<1>1. PICK n \in 1..MostAtOnce :
         /\ n <= Len(answer)
         /\ arrived' = arrived \o SubSeq(answer, 1, n)
         /\ answer' = SubSeq(answer, n + 1, Len(answer))
         /\ IF Len(buffer) + n > BufferMax
            THEN buffer' = C!Discarded(buffer) /\ closing' = TRUE
            ELSE buffer' = buffer \o SubSeq(answer, 1, n) /\ UNCHANGED closing
  BY DEF C!receive_callback
<1>2. state = "open" /\ UNCHANGED <<post, state, unconfirmed, sent, blocks, looked, calls>>
  BY DEF C!receive_callback
<1> DEFINE buf == SubSeq(answer, 1, n)
<1>3. /\ answer' \in Seq(UNION {C!Range(a) : a \in Answers})
      /\ buf \in Seq(UNION {C!Range(a) : a \in Answers})
      /\ Len(buf) = n /\ n \in Nat
  BY <1>1, PieceFacts, NetworkAssumption DEF HttpTyped
<1>4. buf \in Seq(Tokens)
  BY <1>3, AnswerTokens
<1>5. HttpTyped' /\ HttpBuffered'
  <2>1. arrived' \in Seq(Tokens)
    BY <1>1, <1>4 DEF HttpTyped
  <2>2. closing' \in BOOLEAN
    BY <1>1, Zenon DEF HttpTyped
  <2>3. post' \in BOOLEAN
    BY <1>2, Zenon DEF HttpTyped
  <2>4. CASE Len(buffer) + n > BufferMax
    <3>1. buffer' = C!Discarded(buffer) /\ buffer # <<>>
      BY <1>1, <1>3, <2>4, NetworkAssumption DEF HttpTyped
    <3>2. /\ buffer' \in Seq(Tokens) /\ Len(buffer') = Len(buffer)
          /\ buffer' # <<>> /\ buffer'[1] = C!NUL
      BY <3>1, DiscardFacts DEF HttpTyped
    <3>3. QED
      BY <1>2, <1>3, <2>1, <2>2, <2>3, <3>2 DEF HttpTyped, HttpBuffered
  <2>5. CASE Len(buffer) + n <= BufferMax
    <3>1. buffer' = buffer \o buf /\ ~(Len(buffer) + n > BufferMax)
      BY <1>1, <1>3, <2>5, NetworkAssumption DEF HttpTyped
    <3>2. buffer' \in Seq(Tokens) /\ Len(buffer') <= BufferMax
      BY <1>3, <1>4, <2>5, <3>1 DEF HttpTyped
    <3>3. buffer' = arrived' \/ (buffer' # <<>> /\ buffer'[1] = C!NUL)
      <4>1. CASE buffer = arrived
        BY <1>1, <3>1, <4>1
      <4>2. CASE buffer # <<>> /\ buffer[1] = C!NUL
        <5>1. Len(buffer) > 0 /\ 1 \in 1..Len(buffer)
          BY <4>2 DEF HttpTyped
        <5>2. buffer'[1] = buffer[1] /\ Len(buffer') > 0
          BY <1>3, <1>4, <3>1, <5>1 DEF HttpTyped
        <5>3. QED
          BY <3>2, <4>2, <5>2
      <4>3. QED
        BY <4>1, <4>2 DEF HttpBuffered
    <3>4. QED
      BY <1>2, <1>3, <2>1, <2>2, <2>3, <3>2, <3>3 DEF HttpTyped, HttpBuffered
  <2>6. QED
    BY <1>3, <2>4, <2>5, NetworkAssumption DEF HttpTyped
<1>6. HttpProgress' /\ HttpTold'
  BY <1>2 DEF HttpProgress, HttpTold, Waiting
<1>7. QED
  BY <1>5, <1>6

LEMMA HttpNext == HttpInv /\ [C!Next]_(C!vars) => HttpInv'
<1> SUFFICES ASSUME HttpInv, [C!Next]_(C!vars) PROVE HttpInv'
  OBVIOUS
<1> USE DEF HttpInv
<1>1. CASE C!http_raw_request
  <2>1. HttpTyped'
    BY <1>1 DEF HttpTyped, C!http_raw_request
  <2>2. HttpProgress'
    BY <1>1 DEF HttpTyped, HttpProgress, Waiting, C!http_raw_request
  <2>3. HttpBuffered' /\ HttpTold'
    BY <1>1 DEF HttpBuffered, HttpTold, C!http_raw_request
  <2>4. QED
    BY <2>1, <2>2, <2>3
<1>2. CASE C!Found
  <2>1. HttpTyped'
    BY <1>2 DEF HttpTyped, C!Found
  <2>2. HttpProgress'
    BY <1>2 DEF HttpTyped, HttpProgress, Waiting, C!Found
  <2>3. HttpBuffered' /\ HttpTold'
    BY <1>2 DEF HttpBuffered, HttpTold, C!Found
  <2>4. QED
    BY <2>1, <2>2, <2>3
<1>3. CASE C!NotFound
  <2>1. HttpTyped'
    BY <1>3 DEF HttpTyped, C!NotFound
  <2>2. HttpProgress'
    BY <1>3 DEF HttpTyped, HttpProgress, Waiting, C!NotFound, C!Request
  <2>3. HttpBuffered' /\ HttpTold'
    BY <1>3 DEF HttpBuffered, HttpTold, C!NotFound
  <2>4. QED
    BY <2>1, <2>2, <2>3
<1>4. CASE C!Connected
  <2>1. HttpTyped'
    BY <1>4 DEF HttpTyped, C!Connected
  <2>2. HttpProgress'
    BY <1>4 DEF HttpTyped, HttpProgress, Waiting, C!Connected
  <2>3. HttpBuffered' /\ HttpTold'
    BY <1>4 DEF HttpBuffered, HttpTold, C!Connected
  <2>4. QED
    BY <2>1, <2>2, <2>3
<1>5. CASE C!sent_callback
  <2>1. HttpTyped'
    BY <1>5 DEF HttpTyped, C!sent_callback
  <2>2. HttpProgress'
    <3>1. "post_data" \in blocks <=> post /\ sent # <<"head", "post">>
      BY <1>5 DEF HttpProgress, Waiting, C!sent_callback, C!Request, C!Connection
    <3>2. CASE "post_data" \in blocks
      <4>1. sent = <<"head">> /\ sent' = <<"head", "post">> /\ post /\ post' = post
        BY <1>5, <3>1, <3>2 DEF HttpProgress, C!sent_callback
      <4>2. blocks' = C!Request \union C!Connection \union Waiting'
        BY <1>5, <3>2, <4>1 DEF HttpProgress, Waiting, C!sent_callback, C!Request, C!Connection
      <4>3. QED
        BY <1>5, <4>1, <4>2 DEF HttpProgress, C!sent_callback
    <3>3. CASE "post_data" \notin blocks
      BY <1>5, <3>3 DEF HttpProgress, Waiting, C!sent_callback
    <3>4. QED
      BY <3>2, <3>3
  <2>3. HttpBuffered' /\ HttpTold'
    BY <1>5 DEF HttpBuffered, HttpTold, C!sent_callback
  <2>4. QED
    BY <2>1, <2>2, <2>3
<1>6. CASE C!receive_callback
  BY <1>6, ReceiveInv
<1>7. CASE C!disconnect_callback
  <2>1. HttpTyped'
    BY <1>7 DEF HttpTyped, C!disconnect_callback
  <2>2. HttpProgress'
    BY <1>7 DEF HttpTyped, HttpProgress, Waiting, C!disconnect_callback, C!Freed, C!Request, C!Connection
  <2>3. HttpBuffered' /\ HttpTold'
    <3>1. calls' = <<C!Outcome(buffer)>> /\ looked = "found" /\ UNCHANGED <<buffer, arrived, looked>>
      <4>1. calls = <<>> /\ calls' = Append(calls, C!Outcome(buffer))
        BY <1>7 DEF HttpTold, C!disconnect_callback
      <4>2. calls' = <<C!Outcome(buffer)>>
        BY <4>1
      <4>3. QED
        BY <1>7, <4>2 DEF HttpProgress, C!disconnect_callback
    <3>2. C!Outcome(buffer') = C!Outcome(buffer)
      BY <3>1
    <3>3. QED
      BY <1>7, <3>1, <3>2 DEF HttpBuffered, HttpTold, C!disconnect_callback
  <2>4. QED
    BY <2>1, <2>2, <2>3
<1>8. CASE UNCHANGED C!vars
  BY <1>8 DEF C!vars, HttpTyped, HttpProgress, HttpBuffered, HttpTold, Waiting
<1>9. QED
  BY <1>1, <1>2, <1>3, <1>4, <1>5, <1>6, <1>7, <1>8 DEF C!Next

\* The body of an answer that was buffered whole is what follows its head.
LEMMA ToldWhole ==
    ASSUME HttpInv, state = "done", looked = "found", C!Outcome(buffer).status # -1
    PROVE  /\ arrived = buffer /\ buffer[1] = C!Version
           /\ C!Outcome(buffer).body = C!BodyOf(buffer)
<1>1. buffer # <<>> /\ buffer[1] = C!Version
  BY DEF C!Outcome
<1>2. C!Outcome(buffer).body = C!BodyOf(buffer)
  BY <1>1 DEF C!Outcome
<1>3. arrived = buffer
  BY <1>1 DEF HttpInv, HttpBuffered, C!NUL, C!Version
<1>4. QED
  BY <1>1, <1>2, <1>3

LEMMA HttpCorrect == HttpInv => C!CalledOnce /\ C!AnswerRight /\ C!SentInOrder /\ C!NothingLeft
<1> SUFFICES ASSUME HttpInv
             PROVE  C!CalledOnce /\ C!AnswerRight /\ C!SentInOrder /\ C!NothingLeft
  OBVIOUS
<1>1. looked # "not" => looked = "found" \/ looked = "failed"
  BY DEF HttpInv, HttpTyped
<1>2. C!CalledOnce
  BY <1>1 DEF HttpInv, HttpProgress, HttpTold, C!CalledOnce
<1>3. C!AnswerRight
  <2> SUFFICES ASSUME NEW k \in DOMAIN calls, calls[k].status # -1
               PROVE  /\ arrived[1] = C!Version
                      /\ Len(arrived) <= BufferMax
                      /\ C!HeadEnd \in C!Range(arrived) =>
                            calls[k].body = [known |-> TRUE, text |-> C!BodyOf(arrived).text]
    BY DEF C!AnswerRight
  <2>1. state = "done" /\ looked = "found" /\ k = 1 /\ calls[1] = C!Outcome(buffer)
    BY <1>1 DEF HttpInv, HttpProgress, HttpTold
  <2>2. /\ arrived = buffer /\ buffer[1] = C!Version
        /\ calls[k].body = C!BodyOf(arrived)
    BY <2>1, ToldWhole
  <2>3. C!HeadEnd \in C!Range(arrived) =>
           C!BodyOf(arrived) = [known |-> TRUE, text |-> C!BodyOf(arrived).text]
    BY DEF C!BodyOf
  <2>4. Len(arrived) <= BufferMax
    BY <2>2 DEF HttpInv, HttpTyped
  <2>5. QED
    BY <2>2, <2>3, <2>4
<1>4. C!SentInOrder
  BY DEF HttpInv, HttpTyped, HttpProgress, C!SentInOrder
<1>5. C!NothingLeft
  BY <1>1 DEF HttpInv, HttpProgress, Waiting, C!NothingLeft
<1>6. QED
  BY <1>2, <1>3, <1>4, <1>5

\* A step of another part leaves the request alone.
LEMMA MCHttp == MCInit => (part = "http" => HttpInv)
  BY HttpInit DEF MCInit

LEMMA MCHttpNext ==
    /\ part = "http" => HttpInv
    /\ [MCNext]_<<part, vars, mqttVars, httpVars, receiveVars, dnsVars>>
    => (part = "http" => HttpInv)'
<1> SUFFICES ASSUME part = "http" => HttpInv,
                    [MCNext]_<<part, vars, mqttVars, httpVars, receiveVars, dnsVars>>,
                    part' = "http"
             PROVE  HttpInv'
  OBVIOUS
<1>1. part = "http" /\ [C!Next]_(C!vars)
  BY DEF MCNext, Time, Mqtt, Http, httpVars, C!vars
<1>2. QED
  BY <1>1, HttpNext

\* Whatever servers answer, in whatever pieces, and wherever they close: the
\* caller of http_get or http_post learns once how the request ended, gets no
\* part of a response that was too long and the whole body of any other; the
\* request goes out in order; and what was allocated is freed, but on the two
\* paths that forget some.
THEOREM HttpIsRight == MCSpec => []HttpRight
<1>1. MCSpec => [](part = "http" => HttpInv)
  BY MCHttp, MCHttpNext, PTL DEF MCSpec
<1>2. (part = "http" => HttpInv) => HttpRight
  BY HttpCorrect DEF HttpRight
<1>3. QED
  BY <1>1, <1>2, PTL

\* The time client keeps its promise also while the other clients run.
THEOREM NetworkKeepsAsking == MCSpec => []OneChain
<1>1. MCInit => IInv
  BY InitInv DEF MCInit
<1>2. IInv /\ [MCNext]_<<part, vars, mqttVars, httpVars, receiveVars, dnsVars>> => IInv'
  <2> SUFFICES ASSUME [MCNext]_<<part, vars, mqttVars, httpVars, receiveVars, dnsVars>>
               PROVE  [Next]_vars
    BY NextInv
  <2>1. QED
    BY DEF MCNext, Time, Mqtt, Http
<1>3. IInv => OneChain
  BY DEF IInv
<1>4. QED
  BY <1>1, <1>2, <1>3, PTL DEF MCSpec
=============================================================================
