-------------------------------- MODULE Httpd --------------------------------
(***************************************************************************)
(* The web server: user/httpd.c with the handler that streams a file,      *)
(* cgiEspFsHook (user/httpdespfs.c).  Callbacks of the network stack run   *)
(* to completion; what varies is their order, and that the stack gives the *)
(* memory of a connection away as soon as it is done with it.              *)
(*                                                                         *)
(* A request is a record: the bytes of its head and of its body, and what  *)
(* the table of URLs finds for it.  "cgi" answers and is done, "mute" is   *)
(* done without an answer, "file" sends what its reads return, "none" is   *)
(* not found and "method" is neither GET nor POST.                         *)
(***************************************************************************)
EXTENDS FiniteSetsExt, Sequences, Integers

CONSTANTS Conns,     \* the blocks of memory the stack keeps connections in
          MAX_CONN, MAX_HEAD_LEN, MAX_POST,
          Chunk,     \* the bytes cgiEspFsHook reads at a time, 1024
          Requests,  \* [page, head, body, reads]
          MaxForgotten,   \* bound on the files that are forgotten
          None

\* The read that ends a file is the first to return less than was asked for.
ASSUME HttpdAssumption ==
    /\ MAX_CONN \in Nat /\ MAX_HEAD_LEN \in Nat /\ MAX_POST \in Nat /\ Chunk \in Nat
    /\ MaxForgotten \in Nat
    /\ None \notin Conns /\ None \notin Requests /\ None # "file"
    /\ \A r \in Requests :
          /\ r.page \in {"method", "mute", "cgi", "none", "file"} /\ r.head \in Nat /\ r.body \in Nat
          /\ r.page = "file" => /\ r.reads \in Seq(0..Chunk) /\ r.reads # <<>>
                                /\ r.reads[Len(r.reads)] < Chunk

VARIABLES slot,      \* connData, connPrivData and connPostData
          stack,     \* what the stack does with a block
          request,   \* the request the client sends on the connection
          toSend,    \* the bytes of it that are still to come
          inflight,  \* the sent callbacks to come
          answers,   \* history: the requests answered on the connection
          files,     \* the number of open files
          forgotten, \* history: the files that a request forgot it had open
          lost,      \* history: the blocks of connections that broke off and
                     \* that a slot still names
          mixed      \* history: a new connection came in such a block; two
                     \* requests now share a slot, and nothing is modelled
                     \* any more

vars == <<slot, stack, request, toSend, inflight, answers, files, forgotten, lost, mixed>>

Slots == 1..MAX_CONN

TypeOK ==
    /\ slot \in [Slots -> [conn : Conns \union {None}, cgi : {"file", None},
                           url : Requests \union {None}, data : Seq(0..Chunk),
                           headPos : 0..MAX_HEAD_LEN,
                           len : Int, buffLen : 0..MAX_POST, received : Nat]]
    /\ stack \in [Conns -> {"free", "open", "closing"}]
    /\ request \in [Conns -> Requests \union {None}]
    /\ toSend \in [Conns -> Nat]
    /\ inflight \in [Conns -> Nat]
    /\ answers \in [Conns -> Seq(Requests)]
    /\ files \in Nat /\ forgotten \in Nat
    /\ lost \subseteq Conns
    /\ mixed \in BOOLEAN

\* A slot that is not in use.  The code leaves old values in it, but sets each
\* field again before it reads it.
EmptySlot == [conn |-> None, cgi |-> None, url |-> None, data |-> <<>>,
              headPos |-> 0, len |-> -1, buffLen |-> 0, received |-> 0]

Init ==
    /\ slot = [i \in Slots |-> EmptySlot]
    /\ stack = [c \in Conns |-> "free"]
    /\ request = [c \in Conns |-> None]
    /\ toSend = [c \in Conns |-> 0]
    /\ inflight = [c \in Conns |-> 0]
    /\ answers = [c \in Conns |-> <<>>]
    /\ files = 0 /\ forgotten = 0
    /\ lost = {}
    /\ mixed = FALSE
-----------------------------------------------------------------------------
\* httpdFindConnData: the first slot with this pointer.  Find_InUse is faulty,
\* it takes the first slot in use.
Holders(c) == {i \in Slots : slot[i].conn = c}
Found(c) == Holders(c) # {}
Find_InUse(c) == Min(IF c = None THEN Holders(None) ELSE Slots \ Holders(None))
Find(c) == Min(Holders(c))

\* httpdConnectCb: the first empty slot; none, and the connection is closed.
Connect(c, r) ==
    /\ stack[c] = "free"
    /\ r.page = "file" /\ r.body > MAX_POST => forgotten < MaxForgotten
    /\ request' = [request EXCEPT ![c] = r]
    /\ toSend' = [toSend EXCEPT ![c] = r.head + r.body]
    /\ IF Holders(None) = {}
       THEN /\ stack' = [stack EXCEPT ![c] = "closing"]
            /\ UNCHANGED slot
       ELSE /\ stack' = [stack EXCEPT ![c] = "open"]
            /\ slot' = [slot EXCEPT ![Find(None)] = [EmptySlot EXCEPT !.conn = c]]
    /\ mixed' = (c \in lost)
    /\ UNCHANGED <<inflight, answers, files, forgotten, lost>>

\* httpdProcessRequest for slot s of connection c, with the table of URLs and
\* the first call of the handler; xmitSendBuff calls espconn_sent once.  A file
\* that an earlier part of the body has opened is forgotten, as cgiData is
\* cleared.
Process(i, c, s) ==
    LET r == s.url IN
    CASE r.page = "method" ->
            /\ slot' = [slot EXCEPT ![i] = s]
            /\ UNCHANGED <<inflight, answers, files, forgotten>>
      [] r.page = "mute" ->
            /\ slot' = [slot EXCEPT ![i] = [s EXCEPT !.cgi = None]]
            /\ UNCHANGED <<inflight, answers, files, forgotten>>
      [] r.page \in {"cgi", "none"} ->
            /\ slot' = [slot EXCEPT ![i] = [s EXCEPT !.cgi = None]]
            /\ inflight' = [inflight EXCEPT ![c] = @ + 1]
            /\ answers' = [answers EXCEPT ![c] = Append(@, r)]
            /\ UNCHANGED <<files, forgotten>>
      [] r.page = "file" ->
            /\ slot' = [slot EXCEPT ![i] = [s EXCEPT !.cgi = "file", !.data = r.reads]]
            /\ inflight' = [inflight EXCEPT ![c] = @ + 1]
            /\ answers' = [answers EXCEPT ![c] = Append(@, r)]
            /\ files' = files + 1
            /\ forgotten' = IF s.cgi = "file" THEN forgotten + 1 ELSE forgotten

\* A faulty end of a part that leaves it in the buffer.
Emptied_Not(s) == s

\* The buffer after a part was processed.
Emptied(s) == [s EXCEPT !.buffLen = 0]

\* The body, or a part of it that fills the buffer, is complete.
ChunkEnds(s) == s.buffLen >= Min({s.len, MAX_POST}) \/ s.received = s.len

\* A faulty test that drops the byte that just fits.
HeadFull_Early(i) == slot[i].headPos + 1 >= MAX_HEAD_LEN

\* The byte is dropped.
HeadFull(i) == slot[i].headPos = MAX_HEAD_LEN

\* A byte of the head.  The bytes past MAX_HEAD_LEN are not kept, so that the
\* end of such a head is never found.  With a body to come nothing is called.
HeadByte(i, c) ==
    LET s == [slot[i] EXCEPT !.headPos = Min({@ + 1, MAX_HEAD_LEN})]
        last == toSend[c] = request[c].body + 1
    IN  IF ~last \/ HeadFull(i)
        THEN /\ slot' = [slot EXCEPT ![i] = s]
             /\ UNCHANGED <<inflight, answers, files, forgotten>>
        ELSE LET t == [s EXCEPT !.url = request[c], !.len = request[c].body] IN
             IF t.len = 0 THEN Process(i, c, t)
             ELSE /\ slot' = [slot EXCEPT ![i] = t]
                  /\ UNCHANGED <<inflight, answers, files, forgotten>>

\* A byte of the body.
BodyByte(i, c) ==
    LET s == [slot[i] EXCEPT !.buffLen = @ + 1, !.received = @ + 1] IN
    IF ChunkEnds(s) THEN Process(i, c, Emptied(s))
    ELSE /\ slot' = [slot EXCEPT ![i] = s]
         /\ UNCHANGED <<inflight, answers, files, forgotten>>

\* httpdRecvCb, one turn of its loop: where segments end makes no difference.
Recv(c) ==
    /\ stack[c] = "open" /\ toSend[c] > 0
    /\ toSend' = [toSend EXCEPT ![c] = @ - 1]
    /\ CASE ~Found(c) \/ slot[Find(c)].len = 0 ->
                UNCHANGED <<slot, inflight, answers, files, forgotten>>
         [] Found(c) /\ slot[Find(c)].len < 0  -> HeadByte(Find(c), c)
         [] OTHER                              -> BodyByte(Find(c), c)
    /\ UNCHANGED <<stack, request, lost, mixed>>

\* A faulty sent callback that forgets the connection but not its slot.
Retire_Kept(s) == [EmptySlot EXCEPT !.conn = s.conn]

\* httpdRetireConn
Retire(s) == EmptySlot

\* httpdSentCb: the next part of a file, or the connection is closed.
Sent(c) ==
    /\ stack[c] = "open" /\ inflight[c] > 0
    /\ \/ /\ ~Found(c)
          /\ inflight' = [inflight EXCEPT ![c] = @ - 1]
          /\ UNCHANGED <<slot, stack, files>>
       \/ /\ Found(c) /\ slot[Find(c)].cgi = None
          /\ inflight' = [inflight EXCEPT ![c] = @ - 1]
          /\ stack' = [stack EXCEPT ![c] = "closing"]
          /\ slot' = [slot EXCEPT ![Find(c)] = Retire(@)]
          /\ UNCHANGED files
       \/ /\ Found(c) /\ slot[Find(c)].cgi = "file"
          /\ LET i == Find(c)
                 read == Head(slot[i].data) IN
             /\ inflight' = [inflight EXCEPT ![c] = IF read > 0 THEN @ ELSE @ - 1]
             /\ IF read = Chunk
                THEN /\ slot' = [slot EXCEPT ![i].data = Tail(@)]
                     /\ UNCHANGED files
                ELSE /\ slot' = [slot EXCEPT ![i].cgi = None, ![i].data = <<>>]
                     /\ files' = files - 1
          /\ UNCHANGED stack
    /\ UNCHANGED <<request, toSend, answers, forgotten, lost, mixed>>

\* A faulty sweep: the handler is not told.
Flushed_Forgotten(I) == 0

\* The files that closing the slots in I closes.
Flushed(I) == Cardinality({i \in I : slot[i].cgi = "file"})

Gone(c) ==
    /\ stack' = [stack EXCEPT ![c] = "free"]
    /\ request' = [request EXCEPT ![c] = None]
    /\ toSend' = [toSend EXCEPT ![c] = 0]
    /\ inflight' = [inflight EXCEPT ![c] = 0]
    /\ answers' = [answers EXCEPT ![c] = <<>>]

\* httpdDisconCb: the callback does not say which connection is gone.  It
\* clears every slot whose block reads as closed; in a block the stack has
\* given up, it reads what is there now.
Discon(c) ==
    /\ \E I \in SUBSET {i \in Slots : slot[i].conn \in Conns /\ stack[slot[i].conn] = "free"} :
          LET gone == I \union Holders(c) IN
          /\ files' = files - Flushed(gone)
          /\ slot' = [i \in Slots |-> IF i \in gone THEN Retire(slot[i]) ELSE slot[i]]
          /\ lost' = {d \in lost : \E i \in Slots \ gone : slot[i].conn = d}
    /\ Gone(c)
    /\ UNCHANGED <<forgotten, mixed>>

\* The client closes the connection, or the stack has closed it as asked.
ClientCloses(c) == stack[c] = "open" /\ Discon(c)
Closed(c) == stack[c] = "closing" /\ Discon(c)

\* The connection breaks off: httpdReconCb does nothing.
Recon(c) ==
    /\ stack[c] = "open"
    /\ Gone(c)
    /\ lost' = lost \union {d \in {c} : Found(d)}
    /\ UNCHANGED <<slot, files, forgotten, mixed>>

Next ==
    ~mixed /\ \E c \in Conns :
        \/ \E r \in Requests : Connect(c, r)
        \/ Recv(c)
        \/ Sent(c)
        \/ ClientCloses(c)
        \/ Closed(c)
        \/ Recon(c)

\* The stack delivers what was sent and confirms it.
Fairness == \A c \in Conns : WF_vars(Recv(c)) /\ WF_vars(Sent(c)) /\ WF_vars(Closed(c))

Spec == Init /\ [][Next]_vars /\ Fairness
-----------------------------------------------------------------------------
\* Every open file belongs to a connection that is still read from it, and the
\* other way round: callbacks in any order close each file once.  Files that
\* were opened again for a further part of a body stay open for good.
NoFileLost == files = Cardinality({i \in Slots : slot[i].cgi = "file"}) + forgotten

\* A slot is held by a connection that is there, and by no other slot.  Only a
\* connection that broke off, of which httpdReconCb makes nothing, keeps its
\* slot, and may share it with the next one in the same memory.
SlotsMatch ==
    \A i \in Slots : slot[i].conn # None /\ slot[i].conn \notin lost =>
        /\ stack[slot[i].conn] = "open"
        /\ \A j \in Slots : slot[j].conn = slot[i].conn => j = i

\* A client is answered what it asked for, and once; but for a body that does
\* not fit the buffer its handler runs for every part, and answers each.
AnsweredOnce ==
    \A c \in Conns : stack[c] = "open" /\ c \notin lost =>
        /\ \A k \in DOMAIN answers[c] : answers[c][k] = request[c]
        /\ Len(answers[c]) <= 1 \/ request[c].body > MAX_POST

\* A request that was read to its end is answered, and the connection is then
\* closed by the server; unless the handler, or its last call, sends nothing,
\* since only a sent callback closes.
Speaks(r) ==
    /\ r.head <= MAX_HEAD_LEN
    /\ \/ r.page \in {"cgi", "none"}
       \/ r.page = "file" /\ r.reads[Len(r.reads)] > 0
AnsweredAndClosed ==
    \A c \in Conns :
        (stack[c] = "open" /\ toSend[c] = 0 /\ Speaks(request[c]) /\ c \notin lost)
            ~> (stack[c] # "open" \/ mixed)
=============================================================================
