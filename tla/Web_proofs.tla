----------------------------- MODULE Web_proofs -----------------------------
(***************************************************************************)
(* Proofs about the web server.                                            *)
(*                                                                         *)
(* Httpd, for a pool of any size, any requests and any order of the        *)
(* callbacks: a slot is held by one connection that is there, each request *)
(* is answered once, and each file that is opened is closed once.          *)
(*                                                                         *)
(* Login (L), for any names and passwords: the table of addresses keeps    *)
(* its barriers before what they protect.                                  *)
(*                                                                         *)
(* EspFsImage (M), for any files and names of any length: what the packer  *)
(* writes, espFsOpen finds.                                                *)
(***************************************************************************)
EXTENDS MCWeb, WellFoundedInduction, FiniteSetTheorems, SequenceTheorems, TLAPS

Records == [conn : Conns \union {None}, cgi : {"file", None},
            url : Requests \union {None}, data : Seq(0..Chunk),
            headPos : 0..MAX_HEAD_LEN, len : Int, buffLen : 0..MAX_POST, received : Nat]

Typed ==
    /\ slot \in [Slots -> Records]
    /\ stack \in [Conns -> {"free", "open", "closing"}]
    /\ request \in [Conns -> Requests \union {None}]
    /\ toSend \in [Conns -> Nat]
    /\ inflight \in [Conns -> Nat]
    /\ answers \in [Conns -> Seq(Requests)]
    /\ forgotten \in Nat
    /\ lost \subseteq Conns

\* The stack is done with the connections that broke off.
LostGone == ~mixed => \A d \in lost : stack[d] = "free"

\* What the stack keeps of a connection.
Blocks ==
    \A c \in Conns : /\ stack[c] = "free" => answers[c] = <<>>
                     /\ stack[c] = "open" => request[c] \in Requests

\* A slot from which a file is sent has a read to come, and the last of them
\* ends the file; one whose head is not complete has read nothing of a body.
Shape(s) ==
    /\ s.conn = None => s.cgi = None
    /\ s.cgi = "file" => /\ s.len >= 0 /\ s.url.page = "file"
                         /\ s.data # <<>> /\ s.data[Len(s.data)] < Chunk
    /\ s.len < 0 => s.cgi = None /\ s.received = 0 /\ s.buffLen = 0

\* A slot and its connection: the request r, the bytes of it that are still to
\* come, and the answers given.
Course(s, r, coming, given) ==
    /\ s.len < 0 => given = <<>>
    /\ s.len >= 0 => s.url = r /\ s.len = r.body
    /\ s.len > 0 => /\ coming = s.len - s.received
                    /\ s.len <= MAX_POST /\ s.received < s.len =>
                          s.buffLen = s.received /\ given = <<>>

InCourse ==
    \A i \in Slots : slot[i].conn # None /\ slot[i].conn \notin lost =>
        Course(slot[i], request[slot[i].conn], toSend[slot[i].conn], answers[slot[i].conn])

Answered(r, given) ==
    /\ \A k \in DOMAIN given : given[k] = r
    /\ Len(given) <= 1 \/ r.body > MAX_POST

IInv ==
    /\ Typed
    /\ LostGone
    /\ Blocks
    /\ \A i \in Slots : Shape(slot[i])
    /\ SlotsMatch
    /\ InCourse
    /\ AnsweredOnce
    /\ NoFileLost
-----------------------------------------------------------------------------
\* Min is the least of a set of numbers that is not empty.
LEMMA Least ==
    ASSUME NEW S \in SUBSET Nat, S # {}
    PROVE  Min(S) \in S /\ \A y \in S : Min(S) <= y
<1> DEFINE R == OpToRel(<, Nat)
<1>0. IsWellFoundedOn(R, Nat)
  BY NatLessThanWellFounded
<1>2. \A k \in Nat, l \in Nat : <<k, l>> \in R <=> k < l
  BY DEF OpToRel
<1>3. S \subseteq Nat
  OBVIOUS
<1> HIDE DEF R
<1>1. \E x \in S : \A y \in S : ~(<<y, x>> \in R)
  BY <1>0, <1>3, WFMin, Zenon
<1>4. PICK x \in S : \A y \in S : ~(<<y, x>> \in R)
  BY <1>1
<1>5. ASSUME NEW y \in S PROVE x <= y
  <2>1. ~(y < x)
    BY <1>2, <1>4, Zenon
  <2>2. QED
    BY <2>1
<1>6. QED
  BY <1>5 DEF Min

LEMMA LeastOfTwo ==
    ASSUME NEW a \in Nat, NEW b \in Nat
    PROVE  Min({a, b}) = IF a <= b THEN a ELSE b
<1>1. Min({a, b}) \in {a, b} /\ Min({a, b}) <= a /\ Min({a, b}) <= b
  BY Least
<1>2. QED
  BY <1>1

\* httpdFindConnData gives a slot that names what was looked for.
LEMMA FindHolds ==
    ASSUME NEW c, Found(c)
    PROVE  Find(c) \in Slots /\ slot[Find(c)].conn = c
<1>1. Holders(c) \in SUBSET Nat /\ Holders(c) # {}
  BY HttpdAssumption DEF Found, Holders, Slots
<1>2. Min(Holders(c)) \in Holders(c)
  BY <1>1, Least
<1>3. QED
  BY <1>2 DEF Find, Holders

LEMMA SlotsFinite == IsFiniteSet(Slots)
  BY FS_Interval, HttpdAssumption DEF Slots

\* The slots from which a file is sent.
Streaming == {i \in Slots : slot[i].cgi = "file"}

LEMMA StreamingFinite == IsFiniteSet(Streaming) /\ Cardinality(Streaming) \in Nat
  BY SlotsFinite, FS_Subset, FS_CardinalityType DEF Streaming

LEMMA EmptySlotGood == EmptySlot \in Records /\ Shape(EmptySlot) /\ EmptySlot.conn = None
                                         /\ EmptySlot.cgi = None /\ EmptySlot.len < 0
  BY HttpdAssumption DEF EmptySlot, Records, Shape

\* Slot i becomes t: a file is opened or closed as its handler changes, or one
\* is opened while the slot has one.
Balanced(i, t) ==
    \/ /\ UNCHANGED forgotten
       /\ files' = IF t.cgi = slot[i].cgi THEN files
                   ELSE IF t.cgi = "file" THEN files + 1 ELSE files - 1
    \/ forgotten' = forgotten + 1 /\ files' = files + 1 /\ t.cgi = slot[i].cgi

LEMMA OneSlotFiles ==
    ASSUME Typed, NoFileLost, NEW i \in Slots, NEW t \in Records,
           slot' = [slot EXCEPT ![i] = t], Balanced(i, t)
    PROVE  NoFileLost' /\ forgotten' \in Nat
<1>1. Streaming' = IF t.cgi = "file" THEN Streaming \union {i} ELSE Streaming \ {i}
  BY DEF Streaming, Typed
<1>2. /\ Cardinality(Streaming \union {i}) = IF i \in Streaming THEN Cardinality(Streaming) ELSE Cardinality(Streaming) + 1
      /\ Cardinality(Streaming \ {i}) = IF i \in Streaming THEN Cardinality(Streaming) - 1 ELSE Cardinality(Streaming)
  BY StreamingFinite, FS_AddElement, FS_RemoveElement
<1>3. i \in Streaming <=> slot[i].cgi = "file"
  BY DEF Streaming
<1>4. t.cgi \in {"file", None} /\ slot[i].cgi \in {"file", None} /\ None # "file"
  BY HttpdAssumption DEF Records, Typed
<1>5. files = Cardinality(Streaming) + forgotten
  BY DEF NoFileLost, Streaming
<1>6. forgotten \in Nat /\ forgotten' \in Nat
  BY DEF Typed, Balanced
<1>7. files' = Cardinality(Streaming') + forgotten'
  <2>1. Cardinality(Streaming) \in Nat
    BY StreamingFinite
  <2> DEFINE n == Cardinality(Streaming)
             m == Cardinality(Streaming')
  <2>2. m = IF t.cgi = "file" THEN (IF slot[i].cgi = "file" THEN n ELSE n + 1)
            ELSE IF slot[i].cgi = "file" THEN n - 1 ELSE n
    BY <1>1, <1>2, <1>3
  <2>3. n \in Nat /\ files = n + forgotten
    BY <1>5, <2>1
  <2> HIDE DEF n, m
  <2>4. files' = m + forgotten'
    BY <1>4, <1>6, <2>2, <2>3 DEF Balanced
  <2>5. QED
    BY <2>4 DEF m
<1>8. QED
  BY <1>6, <1>7 DEF NoFileLost, Streaming

\* A callback for a connection that is open changes its slot and what was
\* answered, and nothing of any other connection.
LEMMA SlotStep ==
    ASSUME IInv, NEW c \in Conns, stack[c] = "open", c \notin lost,
           NEW i \in Slots, slot[i].conn = c, NEW t \in Records, t.conn = c,
           slot' = [slot EXCEPT ![i] = t], Shape(t),
           UNCHANGED <<stack, request, lost, mixed>>,
           toSend' \in [Conns -> Nat], inflight' \in [Conns -> Nat],
           answers' \in [Conns -> Seq(Requests)],
           \A d \in Conns : d # c => toSend'[d] = toSend[d] /\ answers'[d] = answers[d],
           Course(t, request[c], toSend'[c], answers'[c]),
           Answered(request[c], answers'[c]),
           Balanced(i, t)
    PROVE  IInv'
<1> USE DEF IInv
<1>0. NoFileLost' /\ forgotten' \in Nat
  BY OneSlotFiles
<1>1. Typed'
  BY <1>0 DEF Typed
<1>2. LostGone'
  BY DEF LostGone
<1>3. Blocks'
  BY DEF Blocks
<1>4. \A j \in Slots : slot'[j] = IF j = i THEN t ELSE slot[j]
  BY DEF Typed
<1>5. \A j \in Slots : Shape(slot'[j])
  BY <1>4
<1>6. \A j \in Slots : slot'[j].conn = slot[j].conn
  BY <1>4
<1>7. SlotsMatch'
  BY <1>6 DEF SlotsMatch
<1>8. \A j \in Slots : slot[j].conn = c => j = i
  <2>1. slot[i].conn # None /\ slot[i].conn \notin lost
    BY HttpdAssumption
  <2>2. \A j \in Slots : slot[j].conn = slot[i].conn => j = i
    BY <2>1, Zenon DEF SlotsMatch
  <2>3. QED
    BY <2>2, Zenon
<1>9. InCourse'
  <2> SUFFICES ASSUME NEW j \in Slots, slot'[j].conn # None, slot'[j].conn \notin lost
               PROVE  Course(slot'[j], request[slot[j].conn], toSend'[slot[j].conn], answers'[slot[j].conn])
    BY <1>6 DEF InCourse
  <2>1. CASE j = i
    BY <2>1, <1>4
  <2>2. CASE j # i
    <3>1. slot'[j] = slot[j] /\ slot[j].conn \in Conns /\ slot[j].conn # c
      BY <2>2, <1>4, <1>8 DEF Typed, Records
    <3>2. Course(slot[j], request[slot[j].conn], toSend[slot[j].conn], answers[slot[j].conn])
      BY <3>1 DEF InCourse
    <3>3. QED
      BY <3>1, <3>2
  <2>3. QED
    BY <2>1, <2>2
<1>10. AnsweredOnce'
  BY DEF AnsweredOnce, Answered
<1>11. QED
  BY <1>0, <1>1, <1>2, <1>3, <1>5, <1>7, <1>9, <1>10

\* httpdProcessRequest replaces the slot s by t, and answers at most once.
Handled(i, c, s, t) ==
    /\ t.conn = s.conn /\ t.len = s.len /\ t.url = s.url
    /\ t.received = s.received /\ t.buffLen = s.buffLen
    /\ Shape(t)
    /\ slot' = [slot EXCEPT ![i] = t]
    /\ inflight' \in [Conns -> Nat]
    /\ answers' \in [Conns -> Seq(Requests)]
    /\ \A d \in Conns : d # c => answers'[d] = answers[d]
    /\ answers'[c] = answers[c] \/ answers'[c] = Append(answers[c], s.url)
    /\ Balanced(i, t)

LEMMA ProcessStep ==
    ASSUME Typed, NEW i \in Slots, NEW c \in Conns, NEW s \in Records, Shape(s),
           s.url \in Requests, s.len >= 0, s.conn # None, slot[i].cgi = s.cgi,
           Process(i, c, s)
    PROVE  \E t \in Records : Handled(i, c, s, t)
<1> DEFINE r == s.url
           f == [s EXCEPT !.cgi = "file", !.data = r.reads]
           n == [s EXCEPT !.cgi = None]
<1>0. None # "file" /\ s.len \in Int /\ s.cgi \in {"file", None}
  BY HttpdAssumption DEF Records
<1>c. r.page # "file" => s.cgi = None
  BY <1>0 DEF Shape
<1>1. r.page \in {"method", "mute", "cgi", "none", "file"}
  BY HttpdAssumption
<1>2. CASE r.page = "method"
  <2>1. slot' = [slot EXCEPT ![i] = s] /\ UNCHANGED <<inflight, answers, files, forgotten>>
    BY <1>2 DEF Process
  <2>2. QED
    BY <2>1 DEF Typed, Handled, Balanced
<1>3. CASE r.page = "mute"
  <2>1. slot' = [slot EXCEPT ![i] = n] /\ UNCHANGED <<inflight, answers, files, forgotten>>
    BY <1>3 DEF Process
  <2>2. n = s
    BY <1>c, <1>3 DEF Records
  <2>3. QED
    BY <2>1, <2>2 DEF Typed, Handled, Balanced
<1>4. CASE r.page \in {"cgi", "none"}
  <2>1. /\ slot' = [slot EXCEPT ![i] = n]
        /\ inflight' = [inflight EXCEPT ![c] = @ + 1]
        /\ answers' = [answers EXCEPT ![c] = Append(@, r)]
        /\ UNCHANGED <<files, forgotten>>
    BY <1>4 DEF Process
  <2>2. n = s
    BY <1>c, <1>4 DEF Records
  <2>4. answers' \in [Conns -> Seq(Requests)] /\ answers'[c] = Append(answers[c], r)
    BY <2>1 DEF Typed
  <2>5. inflight' \in [Conns -> Nat]
    BY <2>1 DEF Typed
  <2>6. \A d \in Conns : d # c => answers'[d] = answers[d]
    BY <2>1 DEF Typed
  <2>7. QED
    BY <2>1, <2>2, <2>4, <2>5, <2>6 DEF Handled, Balanced
<1>5. CASE r.page = "file"
  <2>1. /\ slot' = [slot EXCEPT ![i] = f]
        /\ inflight' = [inflight EXCEPT ![c] = @ + 1]
        /\ answers' = [answers EXCEPT ![c] = Append(@, r)]
        /\ files' = files + 1
        /\ forgotten' = IF s.cgi = "file" THEN forgotten + 1 ELSE forgotten
    BY <1>5 DEF Process
  <2>2. r.reads \in Seq(0..Chunk) /\ r.reads # <<>> /\ r.reads[Len(r.reads)] < Chunk
    BY <1>5, HttpdAssumption
  <2>3. f \in Records /\ f.conn = s.conn /\ f.len = s.len /\ f.url = s.url
        /\ f.received = s.received /\ f.buffLen = s.buffLen /\ f.cgi = "file" /\ f.data = r.reads
    BY <2>2 DEF Records
  <2>4. Shape(f)
    <3>1. None # "file" /\ s.len \in Int /\ s.conn # None
      BY <1>0
    <3> HIDE DEF f
    <3>2. QED
      BY <2>2, <2>3, <1>5, <3>1 DEF Shape
  <2>5. answers' \in [Conns -> Seq(Requests)] /\ answers'[c] = Append(answers[c], r)
    BY <2>1 DEF Typed
  <2>6. inflight' \in [Conns -> Nat]
    BY <2>1 DEF Typed
  <2>7. \A d \in Conns : d # c => answers'[d] = answers[d]
    BY <2>1 DEF Typed
  <2>8. Balanced(i, f)
    BY <1>0, <2>1, <2>3 DEF Balanced
  <2>9. QED
    BY <2>1, <2>3, <2>4, <2>5, <2>6, <2>7, <2>8 DEF Handled
<1>6. QED
  BY <1>1, <1>2, <1>3, <1>4, <1>5

\* What an EXCEPT changes of a slot, and what it leaves.
LEMMA WithRequest ==
    ASSUME NEW s \in Records, NEW r \in Requests \union {None}, NEW n \in Int,
           NEW t, t = [s EXCEPT !.url = r, !.len = n]
    PROVE  /\ t \in Records /\ t.conn = s.conn /\ t.cgi = s.cgi /\ t.received = s.received
           /\ t.buffLen = s.buffLen /\ t.url = r /\ t.len = n
  BY DEF Records

LEMMA WithByte ==
    ASSUME NEW s \in Records, NEW b \in 0..MAX_POST, NEW n \in Nat,
           NEW t, t = [s EXCEPT !.buffLen = b, !.received = n]
    PROVE  /\ t \in Records /\ t.conn = s.conn /\ t.cgi = s.cgi /\ t.url = s.url
           /\ t.len = s.len /\ t.buffLen = b /\ t.received = n
  BY DEF Records

\* The slot of a connection that is open, and that nothing else is its slot.
LEMMA Own ==
    ASSUME IInv, ~mixed, NEW c \in Conns, stack[c] = "open"
    PROVE  /\ c \notin lost /\ c # None /\ request[c] \in Requests
           /\ Answered(request[c], answers[c])
           /\ Found(c) => /\ Find(c) \in Slots /\ slot[Find(c)].conn = c
                          /\ slot[Find(c)] \in Records /\ Shape(slot[Find(c)])
                          /\ Course(slot[Find(c)], request[c], toSend[c], answers[c])
<1> USE DEF IInv
<1>1. c \notin lost
  BY DEF LostGone
<1>2. c # None
  BY HttpdAssumption
<1>3. request[c] \in Requests
  BY DEF Blocks
<1>4. Answered(request[c], answers[c])
  BY <1>1 DEF AnsweredOnce, Answered
<1>5. ASSUME Found(c)
      PROVE  /\ Find(c) \in Slots /\ slot[Find(c)].conn = c
             /\ slot[Find(c)] \in Records /\ Shape(slot[Find(c)])
             /\ Course(slot[Find(c)], request[c], toSend[c], answers[c])
  <2>1. Find(c) \in Slots /\ slot[Find(c)].conn = c
    BY <1>5, FindHolds
  <2>2. slot[Find(c)] \in Records /\ Shape(slot[Find(c)])
    BY <2>1 DEF Typed
  <2>3. Course(slot[Find(c)], request[slot[Find(c)].conn], toSend[slot[Find(c)].conn], answers[slot[Find(c)].conn])
    BY <2>1, <1>1, <1>2 DEF InCourse
  <2>4. QED
    BY <2>1, <2>2, <2>3
<1>6. QED
  BY <1>1, <1>2, <1>3, <1>4, <1>5

\* A byte of the head: with the last one the request is known.
LEMMA HeadStep ==
    ASSUME IInv, ~mixed, NEW c \in Conns, stack[c] = "open", toSend[c] > 0,
           Found(c), slot[Find(c)].len < 0, HeadByte(Find(c), c),
           toSend' = [toSend EXCEPT ![c] = @ - 1], UNCHANGED <<stack, request, lost, mixed>>
    PROVE  IInv'
<1> DEFINE i == Find(c)
           s == [slot[i] EXCEPT !.headPos = Min({@ + 1, MAX_HEAD_LEN})]
           t == [s EXCEPT !.url = request[c], !.len = request[c].body]
<1>1. /\ c \notin lost /\ request[c] \in Requests /\ i \in Slots /\ slot[i].conn = c /\ c # None
      /\ slot[i] \in Records /\ Shape(slot[i]) /\ Answered(request[c], answers[c])
      /\ Course(slot[i], request[c], toSend[c], answers[c])
  BY Own
<1>2. slot[i].cgi = None /\ slot[i].received = 0 /\ slot[i].buffLen = 0 /\ answers[c] = <<>>
  BY <1>1 DEF Shape, Course
<1>3. toSend' \in [Conns -> Nat] /\ toSend'[c] = toSend[c] - 1 /\ \A d \in Conns : d # c => toSend'[d] = toSend[d]
  BY DEF IInv, Typed
<1>4. s \in Records
  <2>1. slot[i].headPos + 1 \in Nat /\ MAX_HEAD_LEN \in Nat
    BY <1>1, HttpdAssumption DEF Records
  <2>2. Min({slot[i].headPos + 1, MAX_HEAD_LEN}) \in 0..MAX_HEAD_LEN
    BY <2>1, LeastOfTwo
  <2>3. QED
    BY <1>1, <2>2 DEF Records
<1>5. /\ s.conn = c /\ s.cgi = None /\ s.received = 0 /\ s.buffLen = 0 /\ s.len < 0
  BY <1>1, <1>2 DEF Records
<1>6. request[c].body \in Nat
  BY <1>1, HttpdAssumption
<1>7. /\ t \in Records /\ t.conn = c /\ t.cgi = None /\ t.received = 0 /\ t.buffLen = 0
      /\ t.url = request[c] /\ t.len = request[c].body
  <2> HIDE DEF s
  <2>1. request[c].body \in Int
    BY <1>6
  <2>2. request[c] \in Requests \union {None}
    BY <1>1
  <2>3. t = [s EXCEPT !.url = request[c], !.len = request[c].body]
    OBVIOUS
  <2> HIDE DEF t
  <2>4. /\ t \in Records /\ t.conn = s.conn /\ t.cgi = s.cgi /\ t.received = s.received
        /\ t.buffLen = s.buffLen /\ t.url = request[c] /\ t.len = request[c].body
    BY <1>4, <2>1, <2>2, <2>3 DEF Records
  <2>5. QED
    BY <1>5, <2>4
<1>n. None # "file"
  BY HttpdAssumption
<1>t. inflight \in [Conns -> Nat] /\ answers \in [Conns -> Seq(Requests)]
  BY DEF IInv, Typed
<1>8. CASE ~(toSend[c] = request[c].body + 1) \/ HeadFull(i)
  <2>1. slot' = [slot EXCEPT ![i] = s] /\ UNCHANGED <<inflight, answers, files, forgotten>>
    BY <1>8 DEF HeadByte
  <2>2. Shape(s)
    BY <1>5, <1>n DEF Shape
  <2>3. Course(s, request[c], toSend'[c], answers'[c])
    BY <1>2, <1>5, <1>4, <2>1 DEF Course, Records
  <2>4. Answered(request[c], answers'[c])
    BY <1>1, <2>1
  <2>5. s.cgi = slot[i].cgi
    BY <1>2, <1>5
  <2> HIDE DEF s, i
  <2>6. QED
    BY <1>1, <1>3, <1>4, <1>5, <1>t, <2>1, <2>2, <2>3, <2>4, <2>5, SlotStep DEF Balanced
<1>9. CASE toSend[c] = request[c].body + 1 /\ ~HeadFull(i) /\ request[c].body # 0
  <2>1. slot' = [slot EXCEPT ![i] = t] /\ UNCHANGED <<inflight, answers, files, forgotten>>
    BY <1>9, <1>7 DEF HeadByte
  <2>2. Shape(t)
    BY <1>7, <1>6, <1>n DEF Shape
  <2>3. Course(t, request[c], toSend'[c], answers'[c])
    BY <1>2, <1>3, <1>6, <1>7, <1>9, <2>1 DEF Course
  <2>4. Answered(request[c], answers'[c])
    BY <1>1, <2>1
  <2>5. t.cgi = slot[i].cgi
    BY <1>2, <1>7
  <2> HIDE DEF t, i
  <2>6. QED
    BY <1>1, <1>3, <1>7, <1>t, <2>1, <2>2, <2>3, <2>4, <2>5, SlotStep DEF Balanced
<1>10. CASE toSend[c] = request[c].body + 1 /\ ~HeadFull(i) /\ request[c].body = 0
  <2>1. Process(i, c, t)
    BY <1>10, <1>7 DEF HeadByte
  <2>2. t.url \in Requests /\ t.len >= 0 /\ t.conn # None /\ Shape(t) /\ slot[i].cgi = t.cgi
    BY <1>1, <1>2, <1>6, <1>7, <1>n DEF Shape
  <2>3. Typed
    BY DEF IInv
  <2> HIDE DEF t, i
  <2>4. PICK u \in Records : Handled(i, c, t, u)
    BY <1>1, <1>2, <1>7, <2>1, <2>2, <2>3, ProcessStep
  <2>5. Course(u, request[c], toSend'[c], answers'[c])
    BY <1>7, <1>10, <2>4 DEF Course, Handled
  <2>6. Answered(request[c], answers'[c])
    <3>1. answers'[c] = <<>> \/ answers'[c] = <<request[c]>>
      BY <1>2, <1>7, <2>4 DEF Handled
    <3>2. CASE answers'[c] = <<>>
      BY <3>2 DEF Answered
    <3>3. CASE answers'[c] = <<request[c]>>
      <4>1. Len(answers'[c]) = 1
        BY <3>3
      <4>2. \A k \in DOMAIN answers'[c] : answers'[c][k] = request[c]
        BY <3>3
      <4>3. QED
        BY <4>1, <4>2 DEF Answered
    <3>4. QED
      BY <3>1, <3>2, <3>3
  <2>7. u.conn = c
    BY <1>7, <2>4 DEF Handled
  <2>8. QED
    BY <1>1, <1>3, <2>4, <2>5, <2>6, <2>7, SlotStep DEF Handled
<1>11. QED
  BY <1>8, <1>9, <1>10

\* A byte of the body: its handler runs when the body, or the buffer, is full.
LEMMA BodyStep ==
    ASSUME IInv, ~mixed, NEW c \in Conns, stack[c] = "open", toSend[c] > 0,
           Found(c), slot[Find(c)].len > 0, BodyByte(Find(c), c),
           toSend' = [toSend EXCEPT ![c] = @ - 1], UNCHANGED <<stack, request, lost, mixed>>
    PROVE  IInv'
<1> DEFINE i == Find(c)
           s == [slot[i] EXCEPT !.buffLen = @ + 1, !.received = @ + 1]
           e == Emptied(s)
<1>1. /\ c \notin lost /\ request[c] \in Requests /\ i \in Slots /\ slot[i].conn = c /\ c # None
      /\ slot[i] \in Records /\ Shape(slot[i]) /\ Answered(request[c], answers[c])
      /\ Course(slot[i], request[c], toSend[c], answers[c])
  BY Own
<1>n. None # "file" /\ MAX_POST \in Nat
  BY HttpdAssumption
<1>t. inflight \in [Conns -> Nat] /\ answers \in [Conns -> Seq(Requests)] /\ toSend[c] \in Nat
  BY DEF IInv, Typed
<1>k. /\ slot[i].len \in Int /\ slot[i].received \in Nat /\ slot[i].buffLen \in 0..MAX_POST
      /\ slot[i].cgi \in {"file", None}
  BY <1>1 DEF Records
<1>2. /\ slot[i].url = request[c] /\ slot[i].len = request[c].body
      /\ slot[i].received < slot[i].len /\ toSend[c] = slot[i].len - slot[i].received
      /\ slot[i].len <= MAX_POST => slot[i].buffLen = slot[i].received /\ answers[c] = <<>>
  BY <1>1, <1>k, <1>t DEF Shape, Course
<1>3. toSend' \in [Conns -> Nat] /\ toSend'[c] = toSend[c] - 1 /\ \A d \in Conns : d # c => toSend'[d] = toSend[d]
  BY DEF IInv, Typed
<1>4. /\ s.conn = c /\ s.cgi = slot[i].cgi /\ s.data = slot[i].data /\ s.url = request[c] /\ s.len = slot[i].len
      /\ s.received = slot[i].received + 1 /\ s.buffLen = slot[i].buffLen + 1
  BY <1>1, <1>2 DEF Records
<1>5. /\ e \in Records /\ e.conn = c /\ e.cgi = slot[i].cgi /\ e.data = slot[i].data /\ e.url = request[c] /\ e.len = slot[i].len
      /\ e.received = slot[i].received + 1 /\ e.buffLen = 0
  <2>1. e = [slot[i] EXCEPT !.buffLen = 0, !.received = slot[i].received + 1]
    BY <1>1 DEF Records, Emptied
  <2>2. 0 \in 0..MAX_POST /\ slot[i].received + 1 \in Nat
    BY <1>k, <1>n
  <2> HIDE DEF i, e
  <2>3. /\ e \in Records /\ e.conn = slot[i].conn /\ e.cgi = slot[i].cgi /\ e.url = slot[i].url
        /\ e.data = slot[i].data
        /\ e.len = slot[i].len /\ e.buffLen = 0 /\ e.received = slot[i].received + 1
    BY <1>1, <2>1, <2>2 DEF Records
  <2>4. QED
    BY <1>1, <1>2, <2>3
<1>6. Min({slot[i].len, MAX_POST}) = IF slot[i].len <= MAX_POST THEN slot[i].len ELSE MAX_POST
  BY <1>k, <1>n, LeastOfTwo
<1>7. CASE ~ChunkEnds(s)
  <2>1. slot' = [slot EXCEPT ![i] = s] /\ UNCHANGED <<inflight, answers, files, forgotten>>
    BY <1>7 DEF BodyByte
  <2>2. slot[i].buffLen + 1 < Min({slot[i].len, MAX_POST})
    BY <1>4, <1>6, <1>7, <1>k, <1>n DEF ChunkEnds
  <2>3. slot[i].buffLen + 1 \in 0..MAX_POST
    <3> HIDE DEF i
    <3>1. slot[i].buffLen \in Nat
      BY <1>k, <1>n
    <3>2. slot[i].buffLen + 1 < MAX_POST
      BY <2>2, <1>6, <1>k, <1>n, <3>1
    <3>3. QED
      BY <3>1, <3>2, <1>n
  <2>4. s \in Records
    <3>1. s = [slot[i] EXCEPT !.buffLen = slot[i].buffLen + 1, !.received = slot[i].received + 1]
      OBVIOUS
    <3>2. slot[i].received + 1 \in Nat
      BY <1>k
    <3> HIDE DEF s, i
    <3>3. QED
      BY <1>1, <2>3, <3>1, <3>2, WithByte
  <2>5. Shape(s)
    BY <1>4, <1>n, <1>k, <1>1 DEF Shape
  <2>6. Course(s, request[c], toSend'[c], answers'[c])
    BY <1>2, <1>3, <1>4, <1>k, <2>1 DEF Course
  <2>7. Answered(request[c], answers'[c])
    BY <1>1, <2>1
  <2>8. s.cgi = slot[i].cgi
    BY <1>2, <1>4
  <2> HIDE DEF s, i
  <2>9. QED
    BY <1>1, <1>3, <1>4, <1>t, <2>1, <2>4, <2>5, <2>6, <2>7, <2>8, SlotStep DEF Balanced
<1>8. CASE ChunkEnds(s)
  <2>1. Process(i, c, e)
    BY <1>8 DEF BodyByte
  <2>2. e.url \in Requests /\ e.len >= 0 /\ e.conn # None /\ Shape(e)
    BY <1>1, <1>2, <1>5, <1>k DEF Shape
  <2>3. Typed
    BY DEF IInv
  <2>e. slot[i].len <= MAX_POST => slot[i].received + 1 = slot[i].len
    <3>1. s.buffLen >= Min({slot[i].len, MAX_POST}) \/ s.received = slot[i].len
      BY <1>4, <1>8 DEF ChunkEnds
    <3> HIDE DEF s, i
    <3>2. QED
      BY <1>2, <1>4, <1>6, <1>k, <1>n, <3>1
  <2> HIDE DEF e, i
  <2>4. PICK u \in Records : Handled(i, c, e, u)
    <3>1. i \in Slots /\ slot[i].cgi = e.cgi /\ e \in Records
      BY <1>1, <1>5
    <3>2. QED
      BY <2>1, <2>2, <2>3, <3>1, ProcessStep
  <2>5. Course(u, request[c], toSend'[c], answers'[c])
    BY <1>2, <1>3, <1>5, <1>k, <2>4, <2>e DEF Course, Handled
  <2>6. Answered(request[c], answers'[c])
    <3>1. Len(answers'[c]) <= 1 \/ request[c].body > MAX_POST
      BY <1>2, <1>k, <1>n, <2>4 DEF Handled
    <3>2. answers[c] \in Seq(Requests)
      BY <1>t
    <3>3. \A k \in DOMAIN answers'[c] : answers'[c][k] = request[c]
      <4>1. \A k \in DOMAIN answers[c] : answers[c][k] = request[c]
        BY <1>1 DEF Answered
      <4>2. answers'[c] = answers[c] \/ answers'[c] = Append(answers[c], request[c])
        BY <1>5, <2>4 DEF Handled
      <4>3. QED
        BY <1>1, <4>1, <4>2, <3>2
    <3>4. QED
      BY <3>1, <3>3 DEF Answered
  <2>7. u.conn = c
    BY <1>5, <2>4 DEF Handled
  <2>8. QED
    BY <1>1, <1>3, <2>4, <2>5, <2>6, <2>7, SlotStep DEF Handled
<1>9. QED
  BY <1>7, <1>8

LEMMA RecvStep ==
    ASSUME IInv, ~mixed, NEW c \in Conns, Recv(c) PROVE IInv'
<1>1. stack[c] = "open" /\ toSend[c] > 0 /\ UNCHANGED <<stack, request, lost, mixed>>
      /\ toSend' = [toSend EXCEPT ![c] = @ - 1]
  BY DEF Recv
<1>2. toSend' \in [Conns -> Nat] /\ \A d \in Conns : d # c => toSend'[d] = toSend[d]
  BY <1>1 DEF IInv, Typed
<1>t. inflight \in [Conns -> Nat] /\ answers \in [Conns -> Seq(Requests)]
  BY DEF IInv, Typed
<1>3. CASE ~Found(c)
  <2>1. UNCHANGED <<slot, inflight, answers, files, forgotten>>
    BY <1>3 DEF Recv
  <2>2. \A j \in Slots : slot[j].conn # c
    BY <1>3 DEF Found, Holders
  <2>3. Typed' /\ LostGone' /\ Blocks'
    BY <1>1, <1>2, <2>1 DEF IInv, Typed, LostGone, Blocks
  <2>4. SlotsMatch' /\ AnsweredOnce' /\ NoFileLost' /\ \A i \in Slots : Shape(slot'[i])
    BY <1>1, <2>1 DEF IInv, SlotsMatch, AnsweredOnce, NoFileLost
  <2>5. InCourse'
    <3> SUFFICES ASSUME NEW j \in Slots, slot[j].conn # None, slot[j].conn \notin lost
                 PROVE  Course(slot[j], request[slot[j].conn], toSend'[slot[j].conn], answers[slot[j].conn])
      BY <1>1, <2>1 DEF InCourse
    <3>1. Course(slot[j], request[slot[j].conn], toSend[slot[j].conn], answers[slot[j].conn])
      BY DEF IInv, InCourse
    <3>2. slot[j].conn \in Conns
      BY DEF IInv, Typed, Records
    <3>3. QED
      BY <3>1, <3>2, <2>2, <1>2
  <2>6. QED
    BY <2>3, <2>4, <2>5 DEF IInv
<1>4. CASE Found(c)
  <2> DEFINE i == Find(c)
  <2>1. /\ c \notin lost /\ i \in Slots /\ slot[i].conn = c /\ slot[i] \in Records /\ Shape(slot[i])
        /\ Answered(request[c], answers[c]) /\ Course(slot[i], request[c], toSend[c], answers[c])
    BY <1>1, <1>4, Own
  <2>2. slot[i].len \in Int
    BY <2>1 DEF Records
  <2>3. CASE slot[i].len = 0
    <3>1. UNCHANGED <<slot, inflight, answers, files, forgotten>>
      BY <2>3 DEF Recv
    <3>2. slot' = [slot EXCEPT ![i] = slot[i]]
      BY <3>1 DEF IInv, Typed
    <3>3. Course(slot[i], request[c], toSend'[c], answers'[c])
      BY <2>1, <2>3, <3>1 DEF Course
    <3>4. Answered(request[c], answers'[c]) /\ inflight' \in [Conns -> Nat] /\ answers' \in [Conns -> Seq(Requests)]
          /\ \A d \in Conns : d # c => toSend'[d] = toSend[d] /\ answers'[d] = answers[d]
      BY <1>2, <1>t, <2>1, <3>1
    <3> DEFINE t == slot[i]
    <3>5. t \in Records /\ t.conn = c /\ Shape(t) /\ slot' = [slot EXCEPT ![i] = t]
          /\ Course(t, request[c], toSend'[c], answers'[c]) /\ t.cgi = slot[i].cgi
      BY <2>1, <3>2, <3>3
    <3> HIDE DEF i, t
    <3>6. QED
      BY <1>1, <1>2, <2>1, <3>1, <3>4, <3>5, SlotStep DEF Balanced
  <2>4. CASE slot[i].len < 0
    <3>1. HeadByte(i, c)
      BY <1>4, <2>2, <2>4 DEF Recv
    <3>2. QED
      BY <1>1, <1>4, <2>4, <3>1, HeadStep
  <2>5. CASE slot[i].len > 0
    <3>1. BodyByte(i, c)
      BY <1>4, <2>2, <2>5 DEF Recv
    <3>2. QED
      BY <1>1, <1>4, <2>5, <3>1, BodyStep
  <2>6. QED
    BY <2>2, <2>3, <2>4, <2>5
<1>5. QED
  BY <1>3, <1>4

LEMMA SentStep ==
    ASSUME IInv, ~mixed, NEW c \in Conns, Sent(c) PROVE IInv'
<1>1. stack[c] = "open" /\ inflight[c] > 0 /\ UNCHANGED <<request, toSend, answers, forgotten, lost, mixed>>
  BY DEF Sent
<1>t. inflight \in [Conns -> Nat] /\ answers \in [Conns -> Seq(Requests)] /\ toSend \in [Conns -> Nat]
  BY DEF IInv, Typed
<1>2. CASE ~Found(c)
  <2>1. UNCHANGED <<slot, stack, files, forgotten>> /\ inflight' = [inflight EXCEPT ![c] = @ - 1]
    BY <1>2 DEF Sent
  <2>2. inflight' \in [Conns -> Nat]
    BY <1>1, <1>t, <2>1
  <2>3. Typed' /\ LostGone' /\ Blocks'
    BY <1>1, <2>1, <2>2 DEF IInv, Typed, LostGone, Blocks
  <2>4. SlotsMatch' /\ AnsweredOnce' /\ NoFileLost' /\ (\A i \in Slots : Shape(slot'[i])) /\ InCourse'
    BY <1>1, <2>1 DEF IInv, SlotsMatch, AnsweredOnce, NoFileLost, InCourse
  <2>5. QED
    BY <2>3, <2>4 DEF IInv
<1>3. CASE Found(c)
  <2> DEFINE i == Find(c)
  <2>1. /\ c \notin lost /\ c # None /\ i \in Slots /\ slot[i].conn = c /\ slot[i] \in Records /\ Shape(slot[i])
        /\ Answered(request[c], answers[c]) /\ Course(slot[i], request[c], toSend[c], answers[c])
    BY <1>1, <1>3, Own
  <2>n. slot[i].cgi \in {"file", None} /\ None # "file"
    BY <2>1, HttpdAssumption DEF Records
  <2>2. CASE slot[i].cgi = None
    <3>1. /\ inflight' = [inflight EXCEPT ![c] = @ - 1]
          /\ stack' = [stack EXCEPT ![c] = "closing"]
          /\ slot' = [slot EXCEPT ![i] = EmptySlot]
          /\ files' = files
      BY <1>3, <2>2, <2>n DEF Sent, Retire
    <3> HIDE DEF i
    <3>2. inflight' \in [Conns -> Nat]
      BY <1>1, <1>t, <3>1
    <3>3. EmptySlot \in Records /\ Shape(EmptySlot) /\ EmptySlot.conn = None /\ EmptySlot.cgi = None
      BY EmptySlotGood
    <3>4. Typed'
      BY <1>1, <3>1, <3>2, <3>3 DEF IInv, Typed
    <3>5. \A j \in Slots : slot'[j] = IF j = i THEN EmptySlot ELSE slot[j]
      BY <3>1 DEF IInv, Typed
    <3>6. \A d \in Conns : stack'[d] = IF d = c THEN "closing" ELSE stack[d]
      BY <3>1 DEF IInv, Typed
    <3>7. LostGone' /\ Blocks' /\ AnsweredOnce'
      BY <1>1, <2>1, <3>6 DEF IInv, Typed, LostGone, Blocks, AnsweredOnce
    <3>8. \A j \in Slots : Shape(slot'[j])
      BY <3>3, <3>5 DEF IInv
    <3>9. \A j \in Slots : slot[j].conn = c => j = i
      <4>1. \A j \in Slots : slot[j].conn = slot[i].conn => j = i
        BY <2>1, Zenon DEF IInv, SlotsMatch
      <4>2. QED
        BY <2>1, <4>1, Zenon
    <3>10. \A j \in Slots : slot'[j].conn # None => slot'[j] = slot[j] /\ slot[j].conn # c /\ slot[j].conn \in Conns
      BY <3>3, <3>5, <3>9 DEF IInv, Typed, Records
    <3>11. SlotsMatch'
      <4> SUFFICES ASSUME NEW j \in Slots, slot'[j].conn # None, slot'[j].conn \notin lost
                   PROVE  /\ stack'[slot'[j].conn] = "open"
                          /\ \A k \in Slots : slot'[k].conn = slot'[j].conn => k = j
        BY <1>1 DEF SlotsMatch
      <4>1. slot'[j] = slot[j] /\ slot[j].conn # c /\ slot[j].conn \in Conns
        BY <3>10
      <4>2. stack[slot[j].conn] = "open" /\ \A k \in Slots : slot[k].conn = slot[j].conn => k = j
        BY <4>1 DEF IInv, SlotsMatch
      <4>3. stack'[slot'[j].conn] = "open"
        BY <3>6, <4>1, <4>2
      <4>4. ASSUME NEW k \in Slots, slot'[k].conn = slot'[j].conn PROVE k = j
        BY <3>10, <4>1, <4>2, <4>4
      <4>5. QED
        BY <4>3, <4>4
    <3>12. InCourse'
      <4> SUFFICES ASSUME NEW j \in Slots, slot'[j].conn # None, slot'[j].conn \notin lost
                   PROVE  Course(slot'[j], request[slot'[j].conn], toSend[slot'[j].conn], answers[slot'[j].conn])
        BY <1>1 DEF InCourse
      <4>1. slot'[j] = slot[j]
        BY <3>10
      <4>2. QED
        BY <4>1 DEF IInv, InCourse
    <3>13. NoFileLost'
      <4>1. Balanced(i, EmptySlot)
        BY <1>1, <2>2, <3>1, <3>3 DEF Balanced
      <4>2. QED
        BY <2>1, <2>2, <3>1, <3>3, <4>1, OneSlotFiles DEF IInv
    <3>14. QED
      BY <3>4, <3>7, <3>8, <3>11, <3>12, <3>13 DEF IInv
  <2>3. CASE slot[i].cgi = "file"
    <3> DEFINE read == Head(slot[i].data)
               rest == [slot[i] EXCEPT !.data = Tail(@)]
               over == [slot[i] EXCEPT !.cgi = None, !.data = <<>>]
    <3>1. /\ inflight' = [inflight EXCEPT ![c] = IF read > 0 THEN @ ELSE @ - 1]
          /\ IF read = Chunk
             THEN slot' = [slot EXCEPT ![i].data = Tail(@)] /\ UNCHANGED files
             ELSE slot' = [slot EXCEPT ![i].cgi = None, ![i].data = <<>>] /\ files' = files - 1
          /\ UNCHANGED stack
      BY <1>3, <2>3, <2>n DEF Sent
    <3>2. inflight' \in [Conns -> Nat]
      BY <1>1, <1>t, <3>1
    <3>3. slot[i].len >= 0 /\ slot[i].url.page = "file" /\ slot[i].data \in Seq(0..Chunk) /\ slot[i].data # <<>>
          /\ slot[i].data[Len(slot[i].data)] < Chunk
      BY <2>1, <2>3, <2>n DEF Records, Shape
    <3>4. CASE read = Chunk
      <4>1. slot' = [slot EXCEPT ![i] = rest] /\ UNCHANGED files
        BY <2>1, <3>1, <3>4 DEF IInv, Typed
      <4>2. Tail(slot[i].data) \in Seq(0..Chunk) /\ Tail(slot[i].data) # <<>>
            /\ Tail(slot[i].data)[Len(Tail(slot[i].data))] < Chunk
        <5> HIDE DEF i
        <5> DEFINE q == slot[i].data
        <5>1. q \in Seq(0..Chunk) /\ q # <<>> /\ q[Len(q)] < Chunk /\ Head(q) = Chunk /\ Chunk \in Nat
          BY <3>3, <3>4, HttpdAssumption
        <5> HIDE DEF q
        <5>2. Len(q) # 1
          BY <5>1
        <5>3. Tail(q) \in Seq(0..Chunk) /\ Len(Tail(q)) = Len(q) - 1 /\ Len(q) \in Nat /\ Len(q) > 1
          BY <5>1, <5>2
        <5>5. Tail(q) # <<>>
          <6>1. Len(<<>>) = 0
            OBVIOUS
          <6>2. Len(Tail(q)) # 0
            <7> DEFINE m == Len(q)
                       n == Len(Tail(q))
            <7>1. n = m - 1 /\ m \in Nat /\ m > 1
              BY <5>3
            <7> HIDE DEF m, n
            <7>2. n # 0
              BY <7>1
            <7>3. QED
              BY <7>2 DEF n
          <6>3. QED
            BY <6>1, <6>2, Zenon
        <5>6. Tail(q)[Len(q) - 1] = q[Len(q)]
          BY <5>1, <5>3
        <5>4. QED
          BY <5>1, <5>3, <5>5, <5>6 DEF q
      <4>3. /\ rest \in Records /\ rest.conn = c /\ rest.cgi = "file" /\ rest.len = slot[i].len
            /\ rest.data = Tail(slot[i].data) /\ rest.url = slot[i].url
            /\ rest.received = slot[i].received /\ rest.buffLen = slot[i].buffLen
        <5> HIDE DEF i
        <5>1. QED
          BY <2>1, <2>3, <3>3, <4>2 DEF Records
      <4>4. Shape(rest)
        BY <2>1, <3>3, <4>2, <4>3, <2>n DEF Shape
      <4>5. Course(rest, request[c], toSend'[c], answers'[c])
        BY <1>1, <2>1, <3>3, <4>3 DEF Course
      <4>6. Answered(request[c], answers'[c]) /\ rest.cgi = slot[i].cgi
        BY <1>1, <2>1, <2>3, <4>3
      <4> HIDE DEF rest, i
      <4>7. QED
        BY <1>1, <1>t, <2>1, <3>1, <3>2, <4>1, <4>3, <4>4, <4>5, <4>6, SlotStep DEF Balanced
    <3>5. CASE read # Chunk
      <4>1. slot' = [slot EXCEPT ![i] = over] /\ files' = files - 1
        BY <2>1, <3>1, <3>5 DEF IInv, Typed
      <4>3. /\ over \in Records /\ over.conn = c /\ over.cgi = None /\ over.len = slot[i].len /\ over.url = slot[i].url
            /\ over.received = slot[i].received /\ over.buffLen = slot[i].buffLen
        <5> HIDE DEF i
        <5>1. <<>> \in Seq(0..Chunk)
          OBVIOUS
        <5>2. over = [slot[i] EXCEPT !.cgi = None, !.data = <<>>]
          OBVIOUS
        <5> HIDE DEF over
        <5>3. over.conn = slot[i].conn /\ over.cgi = None /\ over.len = slot[i].len /\ over.url = slot[i].url
              /\ over.received = slot[i].received /\ over.buffLen = slot[i].buffLen
          BY <2>1, <5>2 DEF Records
        <5>4. over \in Records
          BY <2>1, <5>1, <5>2 DEF Records
        <5>5. QED
          BY <2>1, <3>3, <5>3, <5>4
      <4>4. Shape(over)
        BY <3>3, <4>3, <2>n, <2>1 DEF Shape
      <4>5. Course(over, request[c], toSend'[c], answers'[c])
        BY <1>1, <2>1, <3>3, <4>3 DEF Course
      <4>6. Answered(request[c], answers'[c])
            /\ files' = IF over.cgi = slot[i].cgi THEN files ELSE IF over.cgi = "file" THEN files + 1 ELSE files - 1
        BY <1>1, <2>1, <2>3, <2>n, <4>1, <4>3
      <4> HIDE DEF over, i
      <4>7. QED
        BY <1>1, <1>t, <2>1, <3>1, <3>2, <4>1, <4>3, <4>4, <4>5, <4>6, SlotStep DEF Balanced
    <3>6. QED
      BY <3>4, <3>5
  <2>4. QED
    BY <2>n, <2>2, <2>3
<1>4. QED
  BY <1>2, <1>3

\* A connection goes, and the slots in gone are cleared.  A slot that is kept
\* names a connection that stays, or one that broke off.
LEMMA GoneStep ==
    ASSUME IInv, ~mixed, NEW c \in Conns, Gone(c), NEW gone \in SUBSET Slots,
           slot' = [i \in Slots |-> IF i \in gone THEN EmptySlot ELSE slot[i]],
           lost' \subseteq lost \union {c}, UNCHANGED mixed,
           \A j \in Slots \ gone : slot[j].conn # None /\ slot[j].conn \notin lost' =>
               slot[j].conn \notin lost /\ slot[j].conn # c,
           UNCHANGED forgotten, NoFileLost'
    PROVE  IInv'
<1>1. EmptySlot \in Records /\ Shape(EmptySlot) /\ EmptySlot.conn = None
  BY EmptySlotGood
<1>2. \A d \in Conns : /\ stack'[d] = IF d = c THEN "free" ELSE stack[d]
                       /\ request'[d] = IF d = c THEN None ELSE request[d]
                       /\ toSend'[d] = IF d = c THEN 0 ELSE toSend[d]
                       /\ answers'[d] = IF d = c THEN <<>> ELSE answers[d]
  BY DEF IInv, Typed, Gone
<1>3. Typed'
  <2>1. slot' \in [Slots -> Records]
    BY <1>1 DEF IInv, Typed
  <2>2. stack' \in [Conns -> {"free", "open", "closing"}] /\ request' \in [Conns -> Requests \union {None}]
    BY DEF IInv, Typed, Gone
  <2>3. toSend' \in [Conns -> Nat] /\ inflight' \in [Conns -> Nat]
    BY DEF IInv, Typed, Gone
  <2>4. answers' \in [Conns -> Seq(Requests)]
    <3>1. <<>> \in Seq(Requests)
      OBVIOUS
    <3>2. QED
      BY <3>1 DEF IInv, Typed, Gone
  <2>5. lost' \subseteq Conns /\ forgotten' \in Nat
    BY DEF IInv, Typed
  <2>6. QED
    BY <2>1, <2>2, <2>3, <2>4, <2>5 DEF Typed
<1>4. LostGone'
  <2> SUFFICES ASSUME NEW d \in lost' PROVE stack'[d] = "free"
    BY DEF LostGone
  <2>1. d \in Conns /\ (d \in lost \/ d = c)
    BY DEF IInv, Typed
  <2>2. d \in lost => stack[d] = "free"
    BY DEF IInv, LostGone
  <2>3. QED
    BY <1>2, <2>1, <2>2
<1>5. Blocks'
  BY <1>2 DEF IInv, Blocks
<1>6. \A j \in Slots : Shape(slot'[j])
  BY <1>1 DEF IInv
<1>7. \A j \in Slots : slot'[j].conn # None /\ slot'[j].conn \notin lost' =>
          slot'[j] = slot[j] /\ slot[j].conn \in Conns /\ slot[j].conn \notin lost /\ slot[j].conn # c
  BY <1>1 DEF IInv, Typed, Records
<1>8. SlotsMatch'
  <2> SUFFICES ASSUME NEW j \in Slots, slot'[j].conn # None, slot'[j].conn \notin lost'
               PROVE  /\ stack'[slot'[j].conn] = "open"
                      /\ \A k \in Slots : slot'[k].conn = slot'[j].conn => k = j
    BY DEF SlotsMatch
  <2>1. slot'[j] = slot[j] /\ slot[j].conn \in Conns /\ slot[j].conn \notin lost /\ slot[j].conn # c
    BY <1>7
  <2>2. stack[slot[j].conn] = "open" /\ \A k \in Slots : slot[k].conn = slot[j].conn => k = j
    BY <2>1 DEF IInv, SlotsMatch
  <2>3. stack'[slot'[j].conn] = "open"
    BY <1>2, <2>1, <2>2
  <2>4. ASSUME NEW k \in Slots, slot'[k].conn = slot'[j].conn PROVE k = j
    <3>1. slot'[k] = slot[k]
      BY <1>7, <2>4
    <3>2. QED
      BY <2>1, <2>2, <2>4, <3>1
  <2>5. QED
    BY <2>3, <2>4
<1>9. InCourse'
  <2> SUFFICES ASSUME NEW j \in Slots, slot'[j].conn # None, slot'[j].conn \notin lost'
               PROVE  Course(slot'[j], request'[slot'[j].conn], toSend'[slot'[j].conn], answers'[slot'[j].conn])
    BY DEF InCourse
  <2>1. slot'[j] = slot[j] /\ slot[j].conn \in Conns /\ slot[j].conn \notin lost /\ slot[j].conn # c
    BY <1>7
  <2>2. Course(slot[j], request[slot[j].conn], toSend[slot[j].conn], answers[slot[j].conn])
    BY <2>1 DEF IInv, InCourse
  <2>3. QED
    BY <1>2, <2>1, <2>2
<1>10. AnsweredOnce'
  <2> SUFFICES ASSUME NEW d \in Conns, stack'[d] = "open", d \notin lost'
               PROVE  Answered(request'[d], answers'[d])
    BY DEF AnsweredOnce, Answered
  <2>1. d # c /\ stack[d] = "open"
    BY <1>2
  <2>2. d \notin lost
    BY <2>1 DEF IInv, LostGone
  <2>3. Answered(request[d], answers[d])
    BY <2>1, <2>2 DEF IInv, AnsweredOnce, Answered
  <2>4. QED
    BY <1>2, <2>1, <2>3
<1>11. QED
  BY <1>3, <1>4, <1>5, <1>6, <1>8, <1>9, <1>10 DEF IInv

LEMMA ReconStep ==
    ASSUME IInv, ~mixed, NEW c \in Conns, Recon(c) PROVE IInv'
<1>1. /\ Gone(c) /\ lost' = lost \union {d \in {c} : Found(d)}
      /\ UNCHANGED <<slot, files, forgotten, mixed>>
  BY DEF Recon
<1>2. slot' = [i \in Slots |-> IF i \in {} THEN EmptySlot ELSE slot[i]]
  BY <1>1 DEF IInv, Typed
<1>3. lost' \subseteq lost \union {c}
  BY <1>1
<1>4. \A j \in Slots \ {} : slot[j].conn # None /\ slot[j].conn \notin lost' =>
          slot[j].conn \notin lost /\ slot[j].conn # c
  BY <1>1 DEF Found, Holders
<1>5. NoFileLost'
  BY <1>1 DEF IInv, NoFileLost
<1>6. {} \in SUBSET Slots /\ UNCHANGED <<forgotten, mixed>>
  BY <1>1
<1>7. QED
  BY <1>1, <1>2, <1>3, <1>4, <1>5, <1>6, GoneStep

LEMMA DisconStep ==
    ASSUME IInv, ~mixed, NEW c \in Conns, Discon(c) PROVE IInv'
<1>1. PICK I \in SUBSET {i \in Slots : slot[i].conn \in Conns /\ stack[slot[i].conn] = "free"} :
          LET gone == I \union Holders(c) IN
          /\ files' = files - Flushed(gone)
          /\ slot' = [i \in Slots |-> IF i \in gone THEN Retire(slot[i]) ELSE slot[i]]
          /\ lost' = {d \in lost : \E i \in Slots \ gone : slot[i].conn = d}
  BY DEF Discon
<1>2. Gone(c) /\ UNCHANGED <<forgotten, mixed>>
  BY DEF Discon
<1> DEFINE gone == I \union Holders(c)
<1>3. gone \in SUBSET Slots
  BY DEF Holders
<1>4. slot' = [i \in Slots |-> IF i \in gone THEN EmptySlot ELSE slot[i]]
  BY <1>1 DEF Retire
<1>5. lost' \subseteq lost \union {c}
  BY <1>1
<1>6. \A j \in Slots \ gone : slot[j].conn # None /\ slot[j].conn \notin lost' =>
          slot[j].conn \notin lost /\ slot[j].conn # c
  BY <1>1 DEF Holders
<1>7. NoFileLost'
  <2> DEFINE closed == {i \in gone : slot[i].cgi = "file"}
  <2>1. EmptySlot.cgi # "file"
    BY EmptySlotGood, HttpdAssumption
  <2>2. Streaming' = Streaming \ closed
    BY <1>3, <1>4, <2>1 DEF Streaming
  <2>3. closed \subseteq Streaming
    BY <1>3 DEF Streaming
  <2>4. Streaming = closed \union (Streaming \ closed) /\ closed \intersect (Streaming \ closed) = {}
    BY <2>3
  <2>5. IsFiniteSet(closed) /\ IsFiniteSet(Streaming \ closed)
    BY <2>3, StreamingFinite, FS_Subset
  <2>6. Cardinality(closed) \in Nat /\ Cardinality(Streaming \ closed) \in Nat
    BY <2>5, FS_CardinalityType
  <2>7. Cardinality(Streaming) = Cardinality(closed) + Cardinality(Streaming \ closed)
    <3>1. Cardinality({}) = 0
      BY FS_EmptySet
    <3>2. Cardinality(closed \union (Streaming \ closed))
             = Cardinality(closed) + Cardinality(Streaming \ closed) - Cardinality(closed \intersect (Streaming \ closed))
      BY <2>5, FS_Union
    <3>3. Cardinality(Streaming) = Cardinality(closed) + Cardinality(Streaming \ closed) - 0
      BY <2>4, <3>1, <3>2, Zenon
    <3> HIDE DEF closed
    <3>4. QED
      BY <2>6, <3>3
  <2>8. files' = files - Cardinality(closed)
    BY <1>1 DEF Flushed
  <2>9. files = Cardinality(Streaming) + forgotten /\ forgotten \in Nat
    BY DEF IInv, Typed, NoFileLost, Streaming
  <2>10. files' = Cardinality(Streaming') + forgotten'
    <3> HIDE DEF closed
    <3>1. QED
      BY <1>2, <2>2, <2>6, <2>7, <2>8, <2>9
  <2>11. QED
    BY <2>10 DEF NoFileLost, Streaming
<1> HIDE DEF gone
<1>8. QED
  BY <1>2, <1>3, <1>4, <1>5, <1>6, <1>7, GoneStep

LEMMA ConnectStep ==
    ASSUME IInv, ~mixed, NEW c \in Conns, NEW r \in Requests, Connect(c, r) PROVE IInv'
<1>1. /\ stack[c] = "free"
      /\ request' = [request EXCEPT ![c] = r]
      /\ toSend' = [toSend EXCEPT ![c] = r.head + r.body]
      /\ mixed' = (c \in lost)
      /\ UNCHANGED <<inflight, answers, files, forgotten, lost>>
  BY DEF Connect
<1>2. r.head + r.body \in Nat
  BY HttpdAssumption
<1>3. request' \in [Conns -> Requests \union {None}] /\ toSend' \in [Conns -> Nat]
  BY <1>1, <1>2 DEF IInv, Typed
<1>4. \A d \in Conns : request'[d] = (IF d = c THEN r ELSE request[d]) /\ (d # c => toSend'[d] = toSend[d])
  BY <1>1 DEF IInv, Typed
<1>5. answers[c] = <<>>
  BY <1>1 DEF IInv, Blocks
<1>6. c # None
  BY HttpdAssumption
<1>7. ASSUME NEW j \in Slots, slot[j].conn # None, slot[j].conn \notin lost PROVE slot[j].conn \in Conns /\ slot[j].conn # c
  BY <1>1, <1>7 DEF IInv, Typed, Records, SlotsMatch
<1>8. Answered(r, answers[c])
  BY <1>5 DEF Answered
<1>9. CASE Holders(None) = {}
  <2>1. stack' = [stack EXCEPT ![c] = "closing"] /\ UNCHANGED slot
    BY <1>9 DEF Connect
  <2>2. \A d \in Conns : stack'[d] = IF d = c THEN "closing" ELSE stack[d]
    BY <2>1 DEF IInv, Typed
  <2>3. Typed'
    BY <1>1, <1>3, <2>1 DEF IInv, Typed
  <2>4. LostGone'
    BY <1>1, <2>2 DEF IInv, Typed, LostGone
  <2>5. Blocks'
    BY <1>1, <1>4, <2>2 DEF IInv, Blocks
  <2>6. SlotsMatch'
    BY <1>1, <1>7, <2>1, <2>2 DEF IInv, SlotsMatch
  <2>7. InCourse'
    <3> SUFFICES ASSUME NEW j \in Slots, slot[j].conn # None, slot[j].conn \notin lost
                 PROVE  Course(slot[j], request'[slot[j].conn], toSend'[slot[j].conn], answers[slot[j].conn])
      BY <1>1, <2>1 DEF InCourse
    <3>1. Course(slot[j], request[slot[j].conn], toSend[slot[j].conn], answers[slot[j].conn])
      BY DEF IInv, InCourse
    <3>2. QED
      BY <1>4, <1>7, <3>1
  <2>8. AnsweredOnce'
    BY <1>1, <1>4, <2>2 DEF IInv, AnsweredOnce
  <2>9. NoFileLost' /\ \A j \in Slots : Shape(slot'[j])
    BY <1>1, <2>1 DEF IInv, NoFileLost
  <2>10. QED
    BY <2>3, <2>4, <2>5, <2>6, <2>7, <2>8, <2>9 DEF IInv
<1>10. CASE Holders(None) # {}
  <2> DEFINE i == Find(None)
             t == [EmptySlot EXCEPT !.conn = c]
  <2>1. stack' = [stack EXCEPT ![c] = "open"] /\ slot' = [slot EXCEPT ![i] = t]
    BY <1>10 DEF Connect
  <2>2. i \in Slots /\ slot[i].conn = None
    BY <1>10, FindHolds DEF Found
  <2>3. /\ t \in Records /\ t.conn = c /\ t.cgi = None /\ t.len < 0 /\ t.received = 0 /\ t.buffLen = 0
    BY EmptySlotGood DEF EmptySlot, Records
  <2>4. slot[i].cgi = None
    BY <2>2 DEF IInv, Shape
  <2> HIDE DEF i, t
  <2>5. \A j \in Slots : slot'[j] = IF j = i THEN t ELSE slot[j]
    BY <2>1 DEF IInv, Typed
  <2>6. \A d \in Conns : stack'[d] = IF d = c THEN "open" ELSE stack[d]
    BY <2>1 DEF IInv, Typed
  <2>7. Typed'
    BY <1>1, <1>3, <2>1, <2>3 DEF IInv, Typed
  <2>8. LostGone'
    BY <1>1, <2>6 DEF IInv, Typed, LostGone
  <2>9. Blocks'
    BY <1>1, <1>4, <2>6 DEF IInv, Blocks
  <2>10. SlotsMatch'
    <3> SUFFICES ASSUME NEW j \in Slots, slot'[j].conn # None, slot'[j].conn \notin lost
                 PROVE  /\ stack'[slot'[j].conn] = "open"
                        /\ \A k \in Slots : slot'[k].conn = slot'[j].conn => k = j
      BY <1>1 DEF SlotsMatch
    <3>1. CASE j = i
      <4>1. slot'[j].conn = c /\ c \notin lost /\ stack'[c] = "open"
        BY <2>3, <2>5, <2>6, <3>1
      <4>2. \A k \in Slots : k # i => slot'[k].conn # c
        BY <1>6, <1>7, <2>5, <4>1
      <4>3. QED
        BY <3>1, <4>1, <4>2
    <3>2. CASE j # i
      <4>1. slot'[j] = slot[j] /\ slot[j].conn \in Conns /\ slot[j].conn # c
        BY <1>7, <2>5, <3>2
      <4>2. stack[slot[j].conn] = "open" /\ \A k \in Slots : slot[k].conn = slot[j].conn => k = j
        BY <4>1 DEF IInv, SlotsMatch
      <4>3. \A k \in Slots : slot'[k].conn = slot'[j].conn => k = j
        BY <2>3, <2>5, <4>1, <4>2
      <4>4. QED
        BY <2>6, <4>1, <4>2, <4>3
    <3>3. QED
      BY <3>1, <3>2
  <2>11. Shape(t)
    <3>1. None # "file"
      BY HttpdAssumption
    <3>2. QED
      BY <1>6, <2>3, <3>1 DEF Shape
  <2>12. InCourse'
    <3> SUFFICES ASSUME NEW j \in Slots, slot'[j].conn # None, slot'[j].conn \notin lost
                 PROVE  Course(slot'[j], request'[slot'[j].conn], toSend'[slot'[j].conn], answers[slot'[j].conn])
      BY <1>1 DEF InCourse
    <3>1. CASE j = i
      <4>1. slot'[j] = t /\ slot'[j].conn = c
        BY <2>3, <2>5, <3>1
      <4>2. t.len \in Int
        BY <2>3 DEF Records
      <4>3. Course(t, request'[c], toSend'[c], answers[c])
        BY <1>5, <2>3, <4>2 DEF Course
      <4>4. QED
        BY <4>1, <4>3
    <3>2. CASE j # i
      <4>1. slot'[j] = slot[j] /\ slot[j].conn \in Conns /\ slot[j].conn # c
        BY <1>7, <2>5, <3>2
      <4>2. Course(slot[j], request[slot[j].conn], toSend[slot[j].conn], answers[slot[j].conn])
        BY <4>1 DEF IInv, InCourse
      <4>3. QED
        BY <1>4, <4>1, <4>2
    <3>3. QED
      BY <3>1, <3>2
  <2>13. AnsweredOnce'
    <3> SUFFICES ASSUME NEW d \in Conns, stack'[d] = "open", d \notin lost
                 PROVE  Answered(request'[d], answers[d])
      BY <1>1 DEF AnsweredOnce, Answered
    <3>1. CASE d = c
      BY <1>4, <1>8, <3>1
    <3>2. CASE d # c
      BY <1>4, <2>6, <3>2 DEF IInv, AnsweredOnce, Answered
    <3>3. QED
      BY <3>1, <3>2
  <2>14. NoFileLost'
    <3>1. Balanced(i, t)
      BY <1>1, <2>3, <2>4 DEF Balanced
    <3>2. QED
      BY <2>1, <2>2, <2>3, <3>1, OneSlotFiles DEF IInv
  <2>15. \A j \in Slots : Shape(slot'[j])
    BY <2>5, <2>11 DEF IInv
  <2>16. QED
    BY <2>7, <2>8, <2>9, <2>10, <2>12, <2>13, <2>14, <2>15 DEF IInv
<1>11. QED
  BY <1>9, <1>10
-----------------------------------------------------------------------------
LEMMA InitInv == ASSUME Init PROVE IInv
<1>1. EmptySlot \in Records /\ Shape(EmptySlot) /\ EmptySlot.conn = None /\ EmptySlot.cgi = None /\ None # "file"
  BY EmptySlotGood, HttpdAssumption
<1>2. \A i \in Slots : slot[i] = EmptySlot
  BY DEF Init
<1>3. Typed
  <2>1. <<>> \in Seq(Requests)
    OBVIOUS
  <2>2. QED
    BY <1>1, <2>1 DEF Init, Typed
<1>4. LostGone /\ Blocks /\ AnsweredOnce
  BY DEF Init, LostGone, Blocks, AnsweredOnce
<1>5. SlotsMatch /\ InCourse /\ \A i \in Slots : Shape(slot[i])
  BY <1>1, <1>2 DEF SlotsMatch, InCourse
<1>6. NoFileLost
  <2>1. {i \in Slots : slot[i].cgi = "file"} = {}
    BY <1>1, <1>2
  <2>2. files = 0 /\ forgotten = 0
    BY DEF Init
  <2>3. QED
    BY <2>1, <2>2, FS_EmptySet DEF NoFileLost
<1>7. QED
  BY <1>3, <1>4, <1>5, <1>6 DEF IInv

LEMMA NextInv == ASSUME IInv, [Next]_vars PROVE IInv'
<1>1. CASE UNCHANGED vars
  BY <1>1, Zenon DEF vars, IInv, Typed, LostGone, Blocks, SlotsMatch, InCourse, AnsweredOnce, NoFileLost
<1>2. CASE Next
  <2>1. ~mixed
    BY <1>2 DEF Next
  <2>2. PICK c \in Conns :
            \/ \E r \in Requests : Connect(c, r)
            \/ Recv(c)
            \/ Sent(c)
            \/ ClientCloses(c)
            \/ Closed(c)
            \/ Recon(c)
    BY <1>2, Zenon DEF Next
  <2>3. QED
    BY <2>1, <2>2, ConnectStep, RecvStep, SentStep, DisconStep, ReconStep DEF ClientCloses, Closed
<1>3. QED
  BY <1>1, <1>2

\* The invariant holds in every state, for a pool of any size.
THEOREM Invariance == Spec => []IInv
<1>1. Init => IInv
  BY InitInv
<1>2. IInv /\ [Next]_vars => IInv'
  BY NextInv
<1>3. QED
  BY <1>1, <1>2, PTL DEF Spec

\* A slot is held by one connection that is there (httpdFindConnData,
\* httpdConnectCb, httpdDisconCb), or by one that broke off.
THEOREM SlotsMatchHolds == Spec => []SlotsMatch
<1>1. IInv => SlotsMatch
  BY DEF IInv
<1>2. QED
  BY <1>1, Invariance, PTL

\* A client is answered what it asked for, and once (httpdRecvCb,
\* httpdProcessRequest), unless its body does not fit the buffer.
THEOREM AnsweredOnceHolds == Spec => []AnsweredOnce
<1>1. IInv => AnsweredOnce
  BY DEF IInv
<1>2. QED
  BY <1>1, Invariance, PTL

\* Each file that is opened is closed once, by the callback that sends its end
\* or by the one that clears the slot (httpdSentCb, httpdDisconCb).
THEOREM NoFileLostHolds == Spec => []NoFileLost
<1>1. IInv => NoFileLost
  BY DEF IInv
<1>2. QED
  BY <1>1, Invariance, PTL
-----------------------------------------------------------------------------
\* Sequences put together, and where their elements are then.
LEMMA Joined ==
    ASSUME NEW S, NEW s \in Seq(S), NEW t \in Seq(S)
    PROVE  /\ s \o t \in Seq(S) /\ Len(s \o t) = Len(s) + Len(t)
           /\ Len(s) \in Nat /\ Len(t) \in Nat
           /\ \A k \in 1..Len(s) : (s \o t)[k] = s[k]
           /\ \A k \in 1..Len(t) : (s \o t)[Len(s) + k] = t[k]
  OBVIOUS

LEMMA Second ==
    ASSUME NEW S, NEW s \in Seq(S), NEW t \in Seq(S), NEW k \in 1..Len(t), NEW m, m = Len(s) + k
    PROVE  (s \o t)[m] = t[k]
  OBVIOUS

\* From m on all elements stay in a set.
LEMMA Within ==
    ASSUME NEW S, NEW s \in Seq(S), NEW t \in Seq(S), NEW P, \A k \in 1..Len(t) : t[k] \in P,
           NEW m \in Nat, m <= Len(s), \A k \in 1..Len(s) : k > m => s[k] \in P
    PROVE  /\ s \o t \in Seq(S) /\ m <= Len(s \o t) /\ Len(s \o t) \in Nat
           /\ \A k \in 1..m : (s \o t)[k] = s[k]
           /\ \A k \in 1..Len(s \o t) : k > m => (s \o t)[k] \in P
<1>1. /\ s \o t \in Seq(S) /\ Len(s \o t) = Len(s) + Len(t)
      /\ Len(s) \in Nat /\ Len(t) \in Nat
  BY Joined
<1>2. ASSUME NEW k \in 1..Len(s \o t), k > m PROVE (s \o t)[k] \in P
  <2>1. CASE k <= Len(s)
    BY <1>1, <1>2, <2>1, Joined
  <2>2. CASE k > Len(s)
    <3>1. k - Len(s) \in 1..Len(t) /\ k = Len(s) + (k - Len(s))
      BY <1>1, <2>2
    <3>2. (s \o t)[k] = t[k - Len(s)]
      BY <3>1, Second
    <3>3. QED
      BY <3>1, <3>2
  <2>3. QED
    BY <1>1, <2>1, <2>2
<1>3. \A k \in 1..m : (s \o t)[k] = s[k]
  BY <1>1, Joined
<1>4. QED
  BY <1>1, <1>2, <1>3

LEMMA Start ==
    ASSUME NEW G, NEW P, NEW h \in Seq(G), NEW b \in Seq(G)
    PROVE  Len(h) = 3 /\ Len(b) = 2 /\ (\A k \in 1..3 : h[k] \in P) =>
             /\ h \o b \in Seq(G) /\ Len(h \o b) = 5
             /\ \A k \in 1..3 : (h \o b)[k] = h[k] /\ (h \o b)[k] \in P
             /\ (h \o b)[4] = b[1] /\ (h \o b)[5] = b[2]
<1>1. 1 \in 1..Len(b) => (h \o b)[Len(h) + 1] = b[1]
  BY Second
<1>2. 2 \in 1..Len(b) => (h \o b)[Len(h) + 2] = b[2]
  BY Second
<1>3. h \o b \in Seq(G) /\ Len(h \o b) = Len(h) + Len(b)
  BY Joined
<1>4. \A k \in 1..Len(h) : (h \o b)[k] = h[k]
  BY Joined
<1>5. ASSUME Len(h) = 3, Len(b) = 2
      PROVE  1 \in 1..Len(b) /\ 2 \in 1..Len(b) /\ Len(h) + 1 = 4 /\ Len(h) + 2 = 5
             /\ Len(h) + Len(b) = 5 /\ 1..Len(h) = 1..3
  BY <1>5
<1>6. QED
  BY <1>1, <1>2, <1>3, <1>4, <1>5, Zenon

LEMMA Closes ==
    ASSUME NEW G, NEW s \in Seq(G), NEW r \in Seq(G)
    PROVE  Len(r) = 1 =>
             /\ s \o r \in Seq(G) /\ Len(s \o r) = Len(s) + 1
             /\ \A k \in 1..Len(s) : (s \o r)[k] = s[k]
             /\ (s \o r)[Len(s) + 1] = r[1]
<1>1. 1 \in 1..Len(r) => (s \o r)[Len(s) + 1] = r[1]
  BY Second
<1>2. s \o r \in Seq(G) /\ Len(s \o r) = Len(s) + Len(r)
  BY Joined
<1>3. \A k \in 1..Len(s) : (s \o r)[k] = s[k]
  BY Joined
<1>4. ASSUME Len(r) = 1 PROVE 1 \in 1..Len(r)
  BY <1>4
<1>5. QED
  BY <1>1, <1>2, <1>3, <1>4, Zenon

\* Three elements of h, two of b, and then those of a set.
Begins(s, h, b, P) ==
    /\ Len(s) = 5
    /\ \A k \in 1..3 : s[k] = h[k] /\ s[k] \in P
    /\ s[4] = b[1] /\ s[5] = b[2]

Longer(s, t, P) ==
    /\ 5 <= Len(s) /\ Len(s) \in Nat
    /\ \A k \in 1..5 : s[k] = t[k]
    /\ \A k \in 1..Len(s) : k > 5 => s[k] \in P

LEMMA BeginsWith ==
    ASSUME NEW G, NEW P, NEW h \in Seq(G), NEW b \in Seq(G),
           Len(h) = 3 /\ Len(b) = 2 /\ (\A k \in 1..3 : h[k] \in P)
    PROVE  h \o b \in Seq(G) /\ Begins(h \o b, h, b, P)
<1>1. Len(h) = 3 /\ Len(b) = 2 /\ (\A k \in 1..3 : h[k] \in P)
  OBVIOUS
<1>2. h \o b \in Seq(G) /\ Begins(h \o b, h, b, P)
  BY <1>1, Start DEF Begins
<1>3. QED
  BY <1>2

LEMMA GoesOn ==
    ASSUME NEW G, NEW P, NEW s \in Seq(G), NEW t, NEW c \in Seq(G), \A k \in 1..Len(c) : c[k] \in P,
           Longer(s, t, P)
    PROVE  s \o c \in Seq(G) /\ Longer(s \o c, t, P)
<1>1. 5 \in Nat
  OBVIOUS
<1>2. /\ s \o c \in Seq(G) /\ 5 <= Len(s \o c) /\ Len(s \o c) \in Nat
      /\ \A k \in 1..5 : (s \o c)[k] = s[k]
      /\ \A k \in 1..Len(s \o c) : k > 5 => (s \o c)[k] \in P
  BY <1>1, Within DEF Longer
<1>3. QED
  BY <1>2 DEF Longer

LEMMA Assembled ==
    ASSUME NEW G, NEW P, NEW h \in Seq(G), NEW b \in Seq(G), NEW c \in Seq(G), NEW d \in Seq(G),
           NEW r \in Seq(G), Len(r) = 1,
           Len(h) = 3 /\ Len(b) = 2 /\ (\A k \in 1..3 : h[k] \in P),
           \A k \in 1..Len(c) : c[k] \in P, \A k \in 1..Len(d) : d[k] \in P
    PROVE  LET s == h \o b \o c \o d \o r IN
           /\ s \in Seq(G) /\ Len(s) \in Nat /\ Len(s) > 5
           /\ \A k \in 1..3 : s[k] = h[k]
           /\ s[4] = b[1] /\ s[5] = b[2] /\ s[Len(s)] = r[1]
           /\ \A k \in 1..Len(s) : k \notin {4, 5, Len(s)} => s[k] \in P
<1>1. PICK s1 : s1 = h \o b
  OBVIOUS
<1>2. s1 \in Seq(G) /\ Begins(s1, h, b, P)
  BY <1>1, BeginsWith
<1>3. Longer(s1, s1, P)
  BY <1>2 DEF Begins, Longer
<1>4. PICK s3 : s3 = s1 \o c \o d
  OBVIOUS
<1>5. s3 \in Seq(G) /\ Longer(s3, s1, P)
  BY <1>2, <1>3, <1>4, GoesOn
<1>6. PICK s : s = s3 \o r
  OBVIOUS
<1>7. /\ s \in Seq(G) /\ Len(s) = Len(s3) + 1
      /\ \A k \in 1..Len(s3) : s[k] = s3[k]
      /\ s[Len(s3) + 1] = r[1]
  <2>1. /\ s3 \o r \in Seq(G) /\ Len(s3 \o r) = Len(s3) + 1
        /\ \A k \in 1..Len(s3) : (s3 \o r)[k] = s3[k]
        /\ (s3 \o r)[Len(s3) + 1] = r[1]
    BY <1>5, Closes
  <2>2. QED
    BY <1>6, <2>1, Zenon
<1>8. \A k \in 1..5 : k \in 1..Len(s3) /\ s[k] = s1[k]
  BY <1>5, <1>7 DEF Longer
<1>9. ASSUME NEW k \in 1..Len(s), k \notin {4, 5, Len(s)} PROVE s[k] \in P
  <2>1. k \in 1..Len(s3) /\ (k \in 1..3 \/ k > 5)
    BY <1>5, <1>7, <1>9 DEF Longer
  <2>2. CASE k \in 1..3
    <3>1. k \in 1..5
      BY <2>2
    <3>2. QED
      BY <1>2, <1>8, <2>2, <3>1 DEF Begins
  <2>3. CASE k > 5
    BY <1>5, <1>7, <2>1, <2>3 DEF Longer
  <2>4. QED
    BY <2>1, <2>2, <2>3
<1>10. s[4] = b[1] /\ s[5] = b[2] /\ \A k \in 1..3 : s[k] = h[k]
  <2>1. s[4] = s1[4] /\ s[5] = s1[5] /\ \A k \in 1..3 : s[k] = s1[k]
    BY <1>8
  <2>2. QED
    BY <1>2, <2>1, Zenon DEF Begins
<1>11. s = h \o b \o c \o d \o r
  BY <1>1, <1>4, <1>6
<1>12. Len(s) \in Nat /\ Len(s) > 5 /\ s[Len(s)] = r[1]
  BY <1>5, <1>7 DEF Longer
<1>13. QED
  BY <1>7, <1>9, <1>10, <1>11, <1>12, Zenon
-----------------------------------------------------------------------------
\* The handlers of the table that are neither pages nor files nor the barrier,
\* and the pieces of its addresses.
CgiNames == {"relay", "ws2812b", "dht22", "ds18b20", "thermostat", "max31855", "si7020", "mlx91205",
          "mqtt", "httpd", "broadcastd", "config", "ntp", "sensor", "state", "reset", "pwm",
          "wifiscan", "connect", "setmode", "connstatus", "redirect"}
Words == CgiNames \union {"", ".cgi", ".tpl", "index", "about", "control", "ui", "wifi"}
Bottom == Len(L!builtInUrls)
Plain == 1..Bottom \ {4, 5, Bottom}
Pieces == Words \union STRING
Fits(k, url) == L!Matches(L!builtInUrls[k], url)

\* An entry for one address; that of a page ends in .tpl, and no other does.
Good == {e \in [url : Seq(Words), any : BOOLEAN, cgi : CgiNames \union {"template"}] :
           ~e.any /\ (e.cgi = "template" <=> e.url # <<>> /\ e.url[Len(e.url)] = ".tpl")}

LEMMA Entry2 ==
    ASSUME NEW x \in Words, NEW y \in Words,
           NEW n \in CgiNames \union {"template"}, n = "template" <=> y = ".tpl"
    PROVE  L!Entry(<<x, y>>, n) \in Good
<1> DEFINE url == <<x, y>>
<1>1. url \in Seq(Words) /\ Len(url) = 2 /\ url[2] = y /\ url # <<>>
  OBVIOUS
<1> HIDE DEF url
<1>2. L!Entry(url, n) \in Good
  BY <1>1 DEF L!Entry, Good
<1>3. QED
  BY <1>2 DEF url

LEMMA Entry3 ==
    ASSUME NEW x \in Words, NEW y \in Words, NEW z \in Words,
           NEW n \in CgiNames \union {"template"}, n = "template" <=> z = ".tpl"
    PROVE  L!Entry(<<x, y, z>>, n) \in Good
<1> DEFINE url == <<x, y, z>>
<1>1. url \in Seq(Words) /\ Len(url) = 3 /\ url[3] = z /\ url # <<>>
  OBVIOUS
<1> HIDE DEF url
<1>2. L!Entry(url, n) \in Good
  BY <1>1 DEF L!Entry, Good
<1>3. QED
  BY <1>2 DEF url

LEMMA Entry4 ==
    ASSUME NEW w \in Words, NEW x \in Words, NEW y \in Words, NEW z \in Words,
           NEW n \in CgiNames \union {"template"}, n = "template" <=> z = ".tpl"
    PROVE  L!Entry(<<w, x, y, z>>, n) \in Good
<1> DEFINE url == <<w, x, y, z>>
<1>1. url \in Seq(Words) /\ Len(url) = 4 /\ url[4] = z /\ url # <<>>
  OBVIOUS
<1> HIDE DEF url
<1>2. L!Entry(url, n) \in Good
  BY <1>1 DEF L!Entry, Good
<1>3. QED
  BY <1>2 DEF url

LEMMA BothGood ==
    ASSUME NEW d \in Words, NEW n \in CgiNames
    PROVE  L!Both(d, n) \in Seq(Good)
<1>1. ".tpl" \in Words /\ ".cgi" \in Words /\ n \in Words /\ n # "template"
  BY DEF Words, CgiNames
<1>2. L!Page(d, n) \in Good
  BY <1>1, Entry3 DEF L!Page
<1>3. L!Entry(<<d, n, ".cgi">>, n) \in Good
  BY <1>1, Entry3
<1>4. QED
  BY <1>2, <1>3 DEF L!Both

LEMMA Seven ==
    ASSUME NEW S, NEW q \in S, NEW r \in S, NEW t \in S, NEW u \in S, NEW v \in S, NEW w \in S,
           NEW x \in S
    PROVE  <<q, r, t, u, v, w, x>> \in Seq(S)
  OBVIOUS

LEMMA HomeGood == L!Home \in Seq(Good)
<1>1. L!Entry(<<>>, "redirect") \in Good
  BY DEF L!Entry, Good, CgiNames
<1>2. L!Entry(<<"index", ".tpl">>, "template") \in Good /\ L!Entry(<<"about", ".tpl">>, "template") \in Good
  BY Entry2 DEF Words
<1>3. QED
  BY <1>1, <1>2 DEF L!Home

LEMMA ControlGood == L!Control \in Seq(Good)
<1>1. \A n \in CgiNames : L!Both("control", n) \in Seq(Good)
  BY BothGood DEF Words
<1>2. /\ L!Page("control", "ui") \in Good
      /\ L!Entry(<<"control", "state", ".cgi">>, "state") \in Good
      /\ L!Entry(<<"control", "reset", ".cgi">>, "reset") \in Good
      /\ L!Entry(<<"control", "pwm", ".cgi">>, "pwm") \in Good
  BY Entry3 DEF L!Page, Words, CgiNames
<1>3. {"relay", "ws2812b", "dht22", "ds18b20", "thermostat", "max31855", "si7020", "mlx91205"} \subseteq CgiNames
  BY DEF CgiNames
<1> DEFINE both(n) == L!Both("control", n)
           s1 == <<L!Page("control", "ui")>> \o both("relay") \o both("ws2812b") \o both("dht22")
                   \o both("ds18b20")
           s2 == <<L!Entry(<<"control", "state", ".cgi">>, "state"),
                   L!Entry(<<"control", "reset", ".cgi">>, "reset")>>
           s3 == <<L!Entry(<<"control", "pwm", ".cgi">>, "pwm")>>
<1>4. s1 \in Seq(Good)
  <2>1. <<L!Page("control", "ui")>> \in Seq(Good)
    BY <1>2
  <2> HIDE DEF Good
  <2>2. QED
    BY <1>1, <1>3, <2>1, Joined
<1>5. s2 \in Seq(Good)
  BY <1>2
<1>6. s3 \in Seq(Good)
  BY <1>2
<1>7. L!Control = s1 \o s2 \o both("thermostat") \o both("max31855") \o both("si7020")
                  \o both("mlx91205") \o s3
  BY DEF L!Control
<1> HIDE DEF s1, s2, s3
<1>8. QED
  BY <1>1, <1>3, <1>4, <1>5, <1>6, <1>7, Joined

LEMMA ConfigGood == L!Config \in Seq(Good)
<1>1. \A n \in CgiNames : L!Both("config", n) \in Seq(Good)
  BY BothGood DEF Words, CgiNames
<1>2. /\ L!Entry(<<"config", "wifi">>, "redirect") \in Good
      /\ L!Entry(<<"config", "wifi", "">>, "redirect") \in Good
      /\ L!Entry(<<"config", "wifi", "wifiscan", ".cgi">>, "wifiscan") \in Good
      /\ L!Entry(<<"config", "wifi", "wifi", ".tpl">>, "template") \in Good
      /\ L!Entry(<<"config", "wifi", "connect", ".cgi">>, "connect") \in Good
      /\ L!Entry(<<"config", "wifi", "setmode", ".cgi">>, "setmode") \in Good
      /\ L!Entry(<<"config", "wifi", "connstatus", ".cgi">>, "connstatus") \in Good
  BY Entry2, Entry3, Entry4 DEF Words, CgiNames
<1>3. {"mqtt", "httpd", "broadcastd", "config", "ntp", "relay", "sensor"} \subseteq CgiNames
  BY DEF CgiNames
<1> DEFINE both(n) == L!Both("config", n)
           s1 == <<L!Entry(<<"config", "wifi">>, "redirect"),
                   L!Entry(<<"config", "wifi", "">>, "redirect"),
                   L!Entry(<<"config", "wifi", "wifiscan", ".cgi">>, "wifiscan"),
                   L!Entry(<<"config", "wifi", "wifi", ".tpl">>, "template"),
                   L!Entry(<<"config", "wifi", "connect", ".cgi">>, "connect"),
                   L!Entry(<<"config", "wifi", "setmode", ".cgi">>, "setmode"),
                   L!Entry(<<"config", "wifi", "connstatus", ".cgi">>, "connstatus")>>
<1>4. s1 \in Seq(Good)
  BY <1>2, Seven
<1>5. L!Config = s1 \o both("mqtt") \o both("httpd") \o both("broadcastd") \o both("config")
                  \o both("ntp") \o both("relay") \o both("sensor")
  BY DEF L!Config
<1> HIDE DEF s1
<1>6. QED
  BY <1>1, <1>3, <1>4, <1>5, Joined

\* The table: the pages above the barriers, the barriers, and the files at its
\* end; every other entry is for one address.
LEMMA Table ==
    /\ Bottom \in Nat /\ Bottom > 5 /\ DOMAIN L!builtInUrls = 1..Bottom
    /\ \A k \in 1..3 : L!builtInUrls[k] = L!Home[k]
    /\ L!builtInUrls[4] = L!Under(<<"config">>, "auth")
    /\ L!builtInUrls[5] = L!Under(<<"control">>, "auth")
    /\ L!builtInUrls[Bottom] = L!Under(<<>>, "file")
    /\ \A k \in 1..Bottom : k \notin {4, 5, Bottom} => L!builtInUrls[k] \in Good
<1> DEFINE wild == {L!Under(<<"config">>, "auth"), L!Under(<<"control">>, "auth"),
                    L!Under(<<>>, "file")}
           G == Good \union wild
<1>1. /\ L!Barriers \in Seq(G) /\ Len(L!Barriers) = 2
      /\ L!Barriers[1] = L!Under(<<"config">>, "auth")
      /\ L!Barriers[2] = L!Under(<<"control">>, "auth")
  BY DEF L!Barriers
<1>2. /\ L!Rest \in Seq(G) /\ Len(L!Rest) = 1 /\ L!Rest[1] = L!Under(<<>>, "file")
  BY DEF L!Rest
<1> HIDE DEF wild
<1>3. Good \subseteq G
  OBVIOUS
<1> HIDE DEF G
<1>4. \A q \in Seq(Good) : q \in Seq(G) /\ \A k \in 1..Len(q) : q[k] \in Good
  BY <1>3
<1>5. /\ L!Home \in Seq(G) /\ L!Control \in Seq(G) /\ L!Config \in Seq(G)
      /\ \A k \in 1..Len(L!Home) : L!Home[k] \in Good
      /\ \A k \in 1..Len(L!Control) : L!Control[k] \in Good
      /\ \A k \in 1..Len(L!Config) : L!Config[k] \in Good
  BY <1>4, HomeGood, ControlGood, ConfigGood
<1>6. Len(L!Home) = 3 /\ 1..Len(L!Home) = 1..3
  BY DEF L!Home
<1>7. PICK t : t = L!Home \o L!Barriers \o L!Control \o L!Config \o L!Rest
  OBVIOUS
<1>8. /\ t \in Seq(G) /\ Len(t) \in Nat /\ Len(t) > 5
      /\ \A k \in 1..3 : t[k] = L!Home[k]
      /\ t[4] = L!Barriers[1] /\ t[5] = L!Barriers[2] /\ t[Len(t)] = L!Rest[1]
      /\ \A k \in 1..Len(t) : k \notin {4, 5, Len(t)} => t[k] \in Good
  <2>1. L!Barriers \in Seq(G) /\ Len(L!Barriers) = 2 /\ L!Rest \in Seq(G) /\ Len(L!Rest) = 1
    BY <1>1, <1>2
  <2>2. \A k \in 1..3 : L!Home[k] \in Good
    BY <1>5, <1>6
  <2>3. LET s == L!Home \o L!Barriers \o L!Control \o L!Config \o L!Rest IN
        /\ s \in Seq(G) /\ Len(s) \in Nat /\ Len(s) > 5
        /\ \A k \in 1..3 : s[k] = L!Home[k]
        /\ s[4] = L!Barriers[1] /\ s[5] = L!Barriers[2] /\ s[Len(s)] = L!Rest[1]
        /\ \A k \in 1..Len(s) : k \notin {4, 5, Len(s)} => s[k] \in Good
    BY <1>5, <1>6, <2>1, <2>2, Assembled, ZenonT(60)
  <2>4. QED
    BY <1>7, <2>3, Zenon
<1>9. DOMAIN t = 1..Len(t)
  BY <1>8
<1>10. t = L!builtInUrls /\ Len(t) = Bottom
  BY <1>7 DEF L!builtInUrls, Bottom
<1>11. QED
  BY <1>1, <1>2, <1>8, <1>9, <1>10, Zenon

LEMMA TableLength == Bottom \in Nat /\ Bottom > 5 /\ DOMAIN L!builtInUrls = 1..Bottom
  BY Table, Zenon

LEMMA PlainIsGood ==
    ASSUME NEW k \in Plain
    PROVE  k \in 1..Bottom /\ k \in Nat /\ L!builtInUrls[k] \in Good
<1>1. k \in 1..Bottom /\ k \notin {4, 5, Bottom}
  BY DEF Plain
<1>2. L!builtInUrls[k] \in Good
  BY <1>1, Table, Zenon
<1>3. QED
  BY <1>1, <1>2

LEMMA BarriersAre ==
    /\ L!builtInUrls[4] = L!Under(<<"config">>, "auth")
    /\ L!builtInUrls[5] = L!Under(<<"control">>, "auth")
  BY Table, Zenon

LEMMA TableTop == \A k \in 1..3 : L!builtInUrls[k] = L!Home[k]
  BY Table, Zenon

LEMMA BottomIs == L!builtInUrls[Bottom] = L!Under(<<>>, "file")
  BY Table, Zenon
-----------------------------------------------------------------------------
LEMMA One == ASSUME NEW S, NEW x \in S PROVE <<x>> \in Seq(S)
  OBVIOUS
LEMMA Wider == ASSUME NEW S, NEW U, S \subseteq U PROVE \A q \in Seq(S) : q \in Seq(U)
  OBVIOUS

\* The first of a sequence.
LEMMA FirstOnly ==
    ASSUME NEW S, NEW s \in Seq(S), Len(s) >= 1
    PROVE  SubSeq(s, 1, 1) = <<s[1]>> /\ (Len(s) = 1 => s = <<s[1]>>)
<1>1. s[1] \in S /\ <<s[1]>> \in Seq(S) /\ Len(<<s[1]>>) = 1
  OBVIOUS
<1>2. SubSeq(s, 1, 1) \in Seq(S) /\ Len(SubSeq(s, 1, 1)) = 1 /\ SubSeq(s, 1, 1)[1] = s[1]
  BY SubSeqProperties
<1>3. \A k \in 1..1 : SubSeq(s, 1, 1)[k] = <<s[1]>>[k]
  BY <1>2
<1>4. SubSeq(s, 1, 1) = <<s[1]>>
  BY <1>1, <1>2, <1>3, SeqEqual
<1>5. Len(s) = 1 => s = <<s[1]>>
  <2>1. Len(s) = 1 => SubSeq(s, 1, 1) = s
    BY SubSeqFull
  <2>2. QED
    BY <1>4, <2>1
<1>6. QED
  BY <1>4, <1>5

\* An entry for one address.
LEMMA PlainEntry ==
    ASSUME NEW k \in Plain, NEW url
    PROVE  /\ Fits(k, url) <=> L!builtInUrls[k].url = url
           /\ ~L!builtInUrls[k].any
           /\ L!builtInUrls[k].cgi \in CgiNames \union {"template"}
           /\ L!builtInUrls[k].cgi = "template" <=>
                LET own == L!builtInUrls[k].url IN own # <<>> /\ own[Len(own)] = ".tpl"
<1>1. L!builtInUrls[k] \in Good
  BY PlainIsGood
<1>2. QED
  BY <1>1 DEF Good, Fits, L!Matches

\* The barriers match what is below /config/ and /control/, and nothing else.
LEMMA BarrierEntry ==
    ASSUME NEW k \in {4, 5}, NEW url \in Seq(Pieces)
    PROVE  /\ L!builtInUrls[k].any /\ L!builtInUrls[k].cgi = "auth"
           /\ Fits(k, url) => L!Guarded(url)
           /\ Fits(4, url) \/ Fits(5, url) <=> L!Guarded(url)
<1> DEFINE dir(m) == IF m = 4 THEN "config" ELSE "control"
<1>1. \A m \in {4, 5} : L!builtInUrls[m] = L!Under(<<dir(m)>>, "auth")
  BY BarriersAre
<1>2. \A m \in {4, 5} : Fits(m, url) <=> L!IsPrefix(<<dir(m)>>, url) /\ <<dir(m)>> # url
  BY <1>1 DEF Fits, L!Matches, L!Under
<1> HIDE DEF dir
<1>3a. \A d : <<d>> \in Seq({d})
  OBVIOUS
<1>3. ASSUME NEW d
      PROVE  L!IsPrefix(<<d>>, url) /\ <<d>> # url <=> Len(url) > 1 /\ url[1] = d
  <2>1. L!IsPrefix(<<d>>, url) <=> Len(url) >= 1 /\ url[1] = d
    <3>1. Len(<<d>>) = 1 /\ SubSeq(<<d>>, 1, 1) = <<d>>
      BY <1>3a, SubSeqFull
    <3>2. Len(url) >= 1 => SubSeq(url, 1, 1) = <<url[1]>>
      BY FirstOnly
    <3>3. L!IsPrefix(<<d>>, url) <=> 1 <= Len(url) /\ SubSeq(url, 1, 1) = <<d>>
      BY <3>1 DEF L!IsPrefix
    <3>4. <<url[1]>> = <<d>> <=> url[1] = d
      OBVIOUS
    <3>5. Len(url) \in Nat
      OBVIOUS
    <3>6. QED
      BY <3>2, <3>3, <3>4, <3>5
  <2>2. Len(url) = 1 => url = <<url[1]>>
    BY FirstOnly
  <2>3. Len(<<d>>) = 1 /\ Len(url) \in Nat
    OBVIOUS
  <2>4. QED
    <3>1. Len(url) = 1 /\ url[1] = d => url = <<d>>
      BY <2>2, Zenon
    <3>2. url = <<d>> => Len(url) = 1
      BY <2>3, Zenon
    <3>3. \A m \in Nat : (m >= 1 <=> m = 1 \/ m > 1) /\ (m > 1 => m # 1)
      OBVIOUS
    <3>4. /\ Len(url) >= 1 <=> Len(url) = 1 \/ Len(url) > 1
          /\ Len(url) > 1 => Len(url) # 1
      BY <2>3, <3>3, Zenon
    <3>5. QED
      BY <2>1, <3>1, <3>2, <3>4, Zenon
<1>4. dir(4) = "config" /\ dir(5) = "control"
  BY DEF dir
<1>5. \A m \in {4, 5} : Fits(m, url) <=> Len(url) > 1 /\ url[1] = dir(m)
  BY <1>2, <1>3
<1>6. Fits(4, url) \/ Fits(5, url) <=> L!Guarded(url)
  BY <1>4, <1>5 DEF L!Guarded
<1>7. L!builtInUrls[k].any /\ L!builtInUrls[k].cgi = "auth"
  BY <1>1 DEF L!Under
<1>8. QED
  BY <1>6, <1>7

\* The last entry matches everything.
LEMMA BottomEntry ==
    ASSUME NEW url \in Seq(Pieces)
    PROVE  /\ Fits(Bottom, url)
           /\ L!builtInUrls[Bottom].any /\ L!builtInUrls[Bottom].cgi = "file"
           /\ Bottom \in 1..Bottom /\ Bottom \notin {4, 5}
<1>1. L!builtInUrls[Bottom] = L!Under(<<>>, "file")
  BY BottomIs
<1>2. L!IsPrefix(<<>>, url)
  <2>1. Len(<<>>) = 0 /\ SubSeq(<<>>, 1, 0) = <<>> /\ SubSeq(url, 1, 0) = <<>>
    BY SubSeqEmpty
  <2>2. 0 <= Len(url)
    OBVIOUS
  <2>3. QED
    BY <2>1, <2>2, Zenon DEF L!IsPrefix
<1>3. QED
  <2>1. Bottom \in 1..Bottom /\ Bottom \notin {4, 5}
    BY TableLength
  <2>2. /\ L!builtInUrls[Bottom].any /\ L!builtInUrls[Bottom].cgi = "file"
        /\ L!builtInUrls[Bottom].url = <<>>
    BY <1>1 DEF L!Under
  <2>3. Fits(Bottom, url)
    BY <1>2, <2>2, Zenon DEF Fits, L!Matches
  <2>4. QED
    BY <2>1, <2>2, <2>3

\* The pages above the barriers are not protected.
LEMMA HomeEntry ==
    ASSUME NEW url \in Seq(Pieces), L!Guarded(url), NEW k \in 1..3
    PROVE  ~Fits(k, url)
<1>1. k \in Plain /\ L!builtInUrls[k] = L!Home[k]
  BY TableLength, TableTop DEF Plain
<1>2. L!Home[k].url \in {<<>>, <<"index", ".tpl">>, <<"about", ".tpl">>}
  <2>1. L!Home[1].url = <<>> /\ L!Home[2].url = <<"index", ".tpl">>
        /\ L!Home[3].url = <<"about", ".tpl">>
    BY DEF L!Home, L!Entry
  <2>2. k = 1 \/ k = 2 \/ k = 3
    OBVIOUS
  <2>3. QED
    BY <2>1, <2>2, Zenon
<1>3. url # <<>> /\ url # <<"index", ".tpl">> /\ url # <<"about", ".tpl">>
  <2>1. <<"index", ".tpl">>[1] = "index" /\ <<"about", ".tpl">>[1] = "about" /\ Len(<<>>) = 0
    OBVIOUS
  <2>2. Len(url) > 1 /\ (url[1] = "config" \/ url[1] = "control")
    BY DEF L!Guarded
  <2>3. QED
    BY <2>1, <2>2
<1>4. QED
  BY <1>1, <1>2, <1>3, PlainEntry

\* A part of a sequence.
LEMMA Slice ==
    ASSUME NEW S, NEW s \in Seq(S), NEW t \in Seq(S), NEW m \in Nat, NEW n \in Nat,
           1 <= m, n <= Len(s), Len(t) = (n - m) + 1,
           \A k \in 1..Len(t) : t[k] = s[(m + k) - 1]
    PROVE  SubSeq(s, m, n) = t
<1>1. \A k \in m..n : s[k] \in S
  OBVIOUS
<1>2. /\ SubSeq(s, m, n) \in Seq(S)
      /\ Len(SubSeq(s, m, n)) = IF m <= n THEN n - m + 1 ELSE 0
      /\ \A k \in 1..n - m + 1 : SubSeq(s, m, n)[k] = s[m + k - 1]
  BY <1>1, SubSeqProperties
<1>3. Len(SubSeq(s, m, n)) = Len(t)
  <2>1. Len(t) \in Nat
    OBVIOUS
  <2>2. QED
    BY <1>2, <2>1
<1>4. \A k \in 1..Len(SubSeq(s, m, n)) : SubSeq(s, m, n)[k] = t[k]
  BY <1>2, <1>3
<1>5. QED
  BY <1>2, <1>3, <1>4, SeqEqual

\* The name and the password, put together as a browser does, are accepted.
LEMMA AcceptedText ==
    ASSUME sysCfg.user \in Seq(0..255), sysCfg.pass \in Seq(0..255)
    PROVE  L!Accepted(sysCfg.user \o <<L!Colon>> \o sysCfg.pass)
<1> DEFINE u == sysCfg.user
           w == sysCfg.pass
           t == u \o <<L!Colon>> \o w
<1>1. <<L!Colon>> \in Seq(0..255) /\ Len(<<L!Colon>>) = 1 /\ <<L!Colon>>[1] = L!Colon
  BY DEF L!Colon
<1>2. PICK s : s = u \o <<L!Colon>>
  OBVIOUS
<1> HIDE DEF u, w
<1>3. u \in Seq(0..255) /\ w \in Seq(0..255)
  BY DEF u, w
<1>4. /\ s \in Seq(0..255) /\ Len(s) = Len(u) + 1
      /\ \A k \in 1..Len(u) : s[k] = u[k]
      /\ s[Len(u) + 1] = L!Colon
  <2>1. /\ u \o <<L!Colon>> \in Seq(0..255) /\ Len(u \o <<L!Colon>>) = Len(u) + 1
        /\ \A k \in 1..Len(u) : (u \o <<L!Colon>>)[k] = u[k]
        /\ (u \o <<L!Colon>>)[Len(u) + 1] = <<L!Colon>>[1]
    BY <1>1, <1>3, Closes
  <2>2. QED
    BY <1>1, <1>2, <2>1, Zenon
<1>5. t = s \o w
  BY <1>2
<1> HIDE DEF t
<1>6. /\ t \in Seq(0..255) /\ Len(t) = Len(s) + Len(w)
      /\ \A k \in 1..Len(s) : t[k] = s[k]
      /\ \A k \in 1..Len(w) : t[Len(s) + k] = w[k]
  <2>1. /\ s \o w \in Seq(0..255) /\ Len(s \o w) = Len(s) + Len(w)
        /\ \A k \in 1..Len(s) : (s \o w)[k] = s[k]
        /\ \A k \in 1..Len(w) : (s \o w)[Len(s) + k] = w[k]
    <3>1. s \in Seq(0..255)
      BY <1>4
    <3>2. QED
      BY <1>3, <3>1, Joined
  <2>2. QED
    BY <1>5, <2>1, Zenon
<1>7. Len(u) \in Nat /\ Len(w) \in Nat
  BY <1>3
<1>8. SubSeq(t, 1, Len(u)) = u
  <2>1. \A k \in 1..Len(u) : u[k] = t[(1 + k) - 1]
    BY <1>4, <1>6, <1>7
  <2>2. Len(u) <= Len(t) /\ Len(u) = (Len(u) - 1) + 1
    BY <1>4, <1>6, <1>7
  <2>3. QED
    BY <1>3, <1>6, <1>7, <2>1, <2>2, Slice
<1>9. SubSeq(t, Len(u) + 2, Len(t)) = w
  <2>1. \A k \in 1..Len(w) : w[k] = t[(Len(u) + 2 + k) - 1]
    <3>1. \A k \in 1..Len(w) : (Len(u) + 2 + k) - 1 = Len(s) + k
      BY <1>4, <1>7
    <3>2. QED
      BY <1>6, <3>1
  <2>2. /\ Len(w) = (Len(t) - (Len(u) + 2)) + 1 /\ 1 <= Len(u) + 2
        /\ Len(u) + 2 \in Nat /\ Len(t) \in Nat
    BY <1>4, <1>6, <1>7
  <2>3. QED
    BY <1>3, <1>6, <2>1, <2>2, Slice
<1>10. t[Len(u) + 1] = L!Colon
  BY <1>4, <1>6, <1>7
<1>11. Len(t) = Len(u) + Len(w) + 1
  BY <1>4, <1>6, <1>7
<1>12. QED
  BY <1>8, <1>9, <1>10, <1>11 DEF L!Accepted, t, u, w
-----------------------------------------------------------------------------
LoginTyped ==
    /\ sysCfg \in [auth : BOOLEAN, user : Users, pass : Passwords]
    /\ wasIn \subseteq Conns
    /\ remoteip \in wasIn \/ (remoteip = None /\ wasIn = {})
    /\ asked \in [from : Conns \union {None}, url : Seq(Pieces), typed : L!Typed \union {L!NoText}]
    /\ entry \in Nat
    /\ entry > 0 => asked.from \in Conns
    /\ by # "-" => entry > 0

\* Of an entry that was passed only a barrier, or a file that is not there, let
\* the walk go on.
Passed ==
    entry > 0 =>
      \A k \in 1..Bottom : k < entry /\ Fits(k, asked.url) =>
        \/ L!builtInUrls[k].cgi = "auth"
        \/ L!builtInUrls[k].cgi \in {"template", "file"} /\ L!Stripped(asked.url) \notin Pages

\* Who was let through a barrier.
LetIn ==
    L!Walking => \A k \in {4, 5} : k < entry /\ Fits(k, asked.url) =>
                    ~sysCfg.auth \/ asked.from \in wasIn

LoginInv ==
    /\ LoginTyped
    /\ Passed
    /\ LetIn
    /\ L!WelcomeWhenKnown
    /\ L!OwnHandlerAnswers

\* The next entry that matches.
LEMMA HereIs ==
    ASSUME LoginTyped, L!Matching # {}
    PROVE  /\ L!Here \in entry..Bottom /\ L!Here \in Nat /\ Fits(L!Here, asked.url)
           /\ \A k \in entry..Bottom : k < L!Here => ~Fits(k, asked.url)
<1>1. L!Matching = {k \in entry..Bottom : Fits(k, asked.url)}
  BY DEF L!Matching, Fits, Bottom
<1>2. L!Matching \in SUBSET Nat
  BY <1>1 DEF LoginTyped
<1>3. L!Here = Min(L!Matching)
  BY DEF L!Here, L!Min, Min
<1>4. L!Here \in L!Matching /\ \A y \in L!Matching : L!Here <= y
  BY <1>2, <1>3, Least
<1>5. QED
  BY <1>1, <1>2, <1>4

\* The entry of an address of its own.
LEMMA OwnIs ==
    ASSUME NEW url \in Seq(Pieces)
    PROVE  \/ L!OwnHandler(url) = "file" /\ \A k \in Plain : ~Fits(k, url)
           \/ \E k \in Plain : /\ L!OwnHandler(url) = L!builtInUrls[k].cgi /\ Fits(k, url)
                               /\ \A m \in Plain : Fits(m, url) => k <= m
<1> DEFINE own == {k \in DOMAIN L!builtInUrls :
                     L!builtInUrls[k].url = url /\ ~L!builtInUrls[k].any}
<1>1. DOMAIN L!builtInUrls = 1..Bottom /\ Bottom \in Nat
  BY TableLength
<1>2. own = {k \in Plain : Fits(k, url)}
  <2>1. ASSUME NEW k \in own PROVE k \in Plain /\ Fits(k, url)
    <3>1. k \in 1..Bottom /\ ~L!builtInUrls[k].any /\ L!builtInUrls[k].url = url
      BY <1>1, <2>1
    <3>2. k \notin {4, 5} /\ k # Bottom
      BY <3>1, BarrierEntry, BottomEntry
    <3>3. QED
      BY <3>1, <3>2, PlainEntry DEF Plain
  <2>2. ASSUME NEW k \in Plain, Fits(k, url) PROVE k \in own
    <3>1. k \in 1..Bottom
      BY DEF Plain
    <3>2. QED
      BY <1>1, <2>2, <3>1, PlainEntry
  <2>3. QED
    BY <2>1, <2>2
<1>3. L!OwnHandler(url) = IF own = {} THEN "file" ELSE L!builtInUrls[Min(own)].cgi
  BY DEF L!OwnHandler, L!Min, Min
<1> HIDE DEF own
<1>4. CASE own = {}
  BY <1>2, <1>3, <1>4
<1>5. CASE own # {}
  <2>1. own \in SUBSET Nat
    BY <1>1, <1>2 DEF Plain
  <2>2. Min(own) \in own /\ \A y \in own : Min(own) <= y
    BY <1>5, <2>1, Least
  <2>3. QED
    BY <1>2, <1>3, <1>5, <2>2
<1>6. QED
  BY <1>4, <1>5
-----------------------------------------------------------------------------
LEMMA LoginBegins == ASSUME L!Init PROVE LoginInv
<1>1. L!NoRequest \in [from : Conns \union {None}, url : Seq(Pieces),
                       typed : L!Typed \union {L!NoText}]
  BY DEF L!NoRequest
<1>2. LoginTyped
  BY <1>1 DEF L!Init, LoginTyped
<1>3. Passed /\ LetIn /\ L!WelcomeWhenKnown /\ L!OwnHandlerAnswers
  BY DEF L!Init, Passed, LetIn, L!Walking, L!WelcomeWhenKnown, L!OwnHandlerAnswers
<1>4. QED
  BY <1>2, <1>3 DEF LoginInv

\* What is asked for is a sequence of pieces.
LEMMA UrlTyped == L!Urls \subseteq Seq(Pieces)
<1>1. \A k \in 1..Bottom : L!builtInUrls[k].url \in Seq(Pieces)
  <2>1. ASSUME NEW k \in Plain PROVE L!builtInUrls[k].url \in Seq(Pieces)
    <3>1. L!builtInUrls[k] \in Good
      BY PlainIsGood
    <3>2. Words \subseteq Pieces
      BY DEF Pieces
    <3>3. \A q \in Seq(Words) : q \in Seq(Pieces)
      BY <3>2, Wider
    <3>4. QED
      BY <3>1, <3>3 DEF Good
  <2>2. ASSUME NEW k \in {4, 5, Bottom} PROVE L!builtInUrls[k].url \in Seq(Pieces)
    <3>1. /\ L!builtInUrls[4].url = <<"config">> /\ L!builtInUrls[5].url = <<"control">>
          /\ L!builtInUrls[Bottom].url = <<>>
      BY BarriersAre, BottomIs DEF L!Under
    <3>2. "config" \in Pieces /\ "control" \in Pieces
      <4>1. "config" \in Words /\ "control" \in Words
        BY DEF Words, CgiNames
      <4>2. QED
        BY <4>1, Zenon DEF Pieces
    <3>3. <<>> \in Seq(Pieces) /\ <<"config">> \in Seq(Pieces) /\ <<"control">> \in Seq(Pieces)
      BY <3>2, One
    <3>4. /\ L!builtInUrls[4].url \in Seq(Pieces) /\ L!builtInUrls[5].url \in Seq(Pieces)
          /\ L!builtInUrls[Bottom].url \in Seq(Pieces)
      BY <3>1, <3>3, Zenon
    <3>5. k = 4 \/ k = 5 \/ k = Bottom
      OBVIOUS
    <3>6. QED
      BY <3>4, <3>5, Zenon
  <2>3. QED
    BY <2>1, <2>2 DEF Plain
<1>2. DOMAIN L!builtInUrls = 1..Bottom
  BY TableLength
<1>3. QED
  <2>1. Others \subseteq Seq(Pieces)
    <3>1. Others \subseteq Seq(STRING)
      BY LoginAssumption
    <3>2. STRING \subseteq Pieces
      BY DEF Pieces
    <3>3. \A q \in Seq(STRING) : q \in Seq(Pieces)
      BY <3>2, Wider
    <3>4. QED
      BY <3>1, <3>3
  <2>2. QED
    BY <1>1, <1>2, <2>1 DEF L!Urls, L!Range

LEMMA RequestStep ==
    ASSUME LoginInv, NEW from \in Conns, NEW url \in L!Urls, NEW typed \in L!Typed \union {L!NoText},
           L!Request(from, url, typed)
    PROVE  LoginInv'
<1>1. url \in Seq(Pieces)
  BY UrlTyped
<1>2. LoginTyped'
  <2>1. [from |-> from, url |-> url, typed |-> typed]
          \in [from : Conns \union {None}, url : Seq(Pieces), typed : L!Typed \union {L!NoText}]
    BY <1>1
  <2>2. asked' \in [from : Conns \union {None}, url : Seq(Pieces), typed : L!Typed \union {L!NoText}]
        /\ asked'.from = from
    BY <2>1 DEF L!Request
  <2>3. QED
    BY <2>2 DEF LoginInv, LoginTyped, L!Request
<1>3. entry' = 1 /\ by' = "-"
  BY DEF L!Request
<1>4. Bottom' = Bottom /\ \A k \in Nat : k < 1 => k \notin 1..Bottom /\ k \notin {4, 5}
  BY DEF Bottom
<1>5. Passed' /\ LetIn'
  BY <1>3, <1>4 DEF Passed, LetIn, Bottom
<1>6. L!WelcomeWhenKnown' /\ L!OwnHandlerAnswers'
  BY <1>3 DEF L!WelcomeWhenKnown, L!OwnHandlerAnswers
<1>7. QED
  BY <1>2, <1>5, <1>6 DEF LoginInv

LEMMA DoneStep ==
    ASSUME LoginInv, L!Done PROVE LoginInv'
<1>1. L!NoRequest \in [from : Conns \union {None}, url : Seq(Pieces),
                       typed : L!Typed \union {L!NoText}]
  BY DEF L!NoRequest
<1>2. LoginTyped'
  BY <1>1 DEF L!Done, LoginInv, LoginTyped
<1>3. Passed' /\ LetIn' /\ L!WelcomeWhenKnown' /\ L!OwnHandlerAnswers'
  BY DEF L!Done, Passed, LetIn, L!Walking, L!WelcomeWhenKnown, L!OwnHandlerAnswers
<1>4. QED
  BY <1>2, <1>3 DEF LoginInv

LEMMA RestartStep ==
    ASSUME LoginInv, L!Restart PROVE LoginInv'
<1>1. LoginTyped'
  BY DEF L!Restart, LoginInv, LoginTyped
<1>2. entry' = 0 /\ by' = "-"
  BY DEF L!Restart, LoginInv, LoginTyped
<1>3. Passed' /\ LetIn' /\ L!WelcomeWhenKnown' /\ L!OwnHandlerAnswers'
  BY <1>2 DEF Passed, LetIn, L!Walking, L!WelcomeWhenKnown, L!OwnHandlerAnswers
<1>4. QED
  BY <1>1, <1>3 DEF LoginInv

\* The walk ends only if there is no such file.
LEMMA NotFoundStep ==
    ASSUME LoginInv, L!NotFound PROVE LoginInv'
<1>1. LoginTyped'
  BY DEF L!NotFound, L!AnswerBy, L!Walking, LoginInv, LoginTyped
<1>2. by' = "404" /\ UNCHANGED <<sysCfg, remoteip, asked, entry, wasIn>>
  BY DEF L!NotFound, L!AnswerBy
<1>3. Passed'
  BY <1>2 DEF LoginInv, Passed, Fits, Bottom
<1>4. LetIn' /\ L!WelcomeWhenKnown'
  BY <1>2 DEF LetIn, L!Walking, L!WelcomeWhenKnown
<1>5. asked.url \in Seq(Pieces) /\ entry \in Nat /\ entry > 0
  BY DEF LoginInv, LoginTyped, L!NotFound, L!Walking
<1>6. \A k \in 1..Bottom : Fits(k, asked.url) => k < entry
  <2>1. L!Matching = {k \in entry..Bottom : Fits(k, asked.url)}
    BY DEF L!Matching, Fits, Bottom
  <2>2. Bottom \in Nat
    BY TableLength
  <2>3. L!Matching = {}
    BY DEF L!NotFound
  <2>4. QED
    BY <1>5, <2>1, <2>2, <2>3
<1>7. \A k \in 1..Bottom : Fits(k, asked.url) =>
        \/ L!builtInUrls[k].cgi = "auth"
        \/ L!builtInUrls[k].cgi \in {"template", "file"} /\ L!Stripped(asked.url) \notin Pages
  BY <1>5, <1>6 DEF LoginInv, Passed
<1>8. L!Stripped(asked.url) \notin Pages
  BY <1>5, <1>7, BottomEntry
<1>9. L!OwnHandler(asked.url) \in {"template", "file"}
  <2>1. \A k \in Plain : Fits(k, asked.url) => L!builtInUrls[k].cgi \in {"template", "file"}
    <3>1. \A k \in Plain : k \in 1..Bottom /\ L!builtInUrls[k].cgi # "auth"
      BY PlainEntry DEF Plain, CgiNames
    <3>2. QED
      BY <1>7, <3>1
  <2>2. QED
    BY <1>5, <2>1, OwnIs
<1>10. L!OwnHandlerAnswers'
  BY <1>2, <1>8, <1>9 DEF L!OwnHandlerAnswers, L!OwnHandler
<1>11. QED
  BY <1>1, <1>3, <1>4, <1>10 DEF LoginInv

\* The handler that answers is that of the address: what was passed with the
\* same address is a page that is not there.
LEMMA AnswerIsOwn ==
    ASSUME LoginInv, L!Walking, L!Matching # {}, L!builtInUrls[L!Here].cgi # "auth",
           L!builtInUrls[L!Here].cgi \in {"template", "file"} => L!Stripped(asked.url) \in Pages
    PROVE  L!OwnHandler(asked.url) = L!builtInUrls[L!Here].cgi
<1> DEFINE k == L!Here
           url == asked.url
<1>1. url \in Seq(Pieces) /\ entry \in Nat /\ entry > 0 /\ Bottom \in Nat
  BY TableLength DEF LoginInv, LoginTyped, L!Walking
<1>2. /\ k \in entry..Bottom /\ k \in Nat /\ Fits(k, url)
      /\ \A m \in entry..Bottom : m < k => ~Fits(m, url)
  BY HereIs DEF LoginInv
<1>3. \A m \in 1..Bottom : m < entry /\ Fits(m, url) =>
        \/ L!builtInUrls[m].cgi = "auth"
        \/ L!builtInUrls[m].cgi \in {"template", "file"} /\ L!Stripped(url) \notin Pages
  BY <1>1 DEF LoginInv, Passed
<1>4. k \in Plain \/ k = Bottom
  <2>1. k \notin {4, 5}
    BY <1>1, BarrierEntry
  <2>2. QED
    BY <1>1, <1>2, <2>1 DEF Plain
<1> HIDE DEF k, url
<1>5. L!builtInUrls[k].cgi \in {"template", "file"} => L!Stripped(url) \in Pages
  BY DEF k, url
<1>6. ASSUME NEW m \in Plain, Fits(m, url), m <= k, m # k
      PROVE  L!builtInUrls[m].cgi = "template" /\ L!Stripped(url) \notin Pages
  <2>1. m \in 1..Bottom /\ m < k /\ m \in Nat
    BY <1>2, <1>6 DEF Plain
  <2>2. m < entry
    BY <1>1, <1>2, <1>6, <2>1
  <2>3. \/ L!builtInUrls[m].cgi = "auth"
        \/ L!builtInUrls[m].cgi \in {"template", "file"} /\ L!Stripped(url) \notin Pages
    BY <1>3, <1>6, <2>1, <2>2
  <2>4. L!builtInUrls[m].cgi \in CgiNames \union {"template"}
    BY PlainEntry
  <2>5. "auth" \notin CgiNames \union {"template"} /\ "file" \notin CgiNames \union {"template"}
    BY DEF CgiNames
  <2>6. QED
    BY <2>3, <2>4, <2>5
<1>7. CASE L!OwnHandler(url) = "file" /\ \A m \in Plain : ~Fits(m, url)
  <2>1. k = Bottom
    BY <1>2, <1>4, <1>7
  <2>2. QED
    BY <1>1, <1>7, <2>1, BottomEntry DEF k, url
<1>8. CASE \E m \in Plain : /\ L!OwnHandler(url) = L!builtInUrls[m].cgi /\ Fits(m, url)
                            /\ \A n \in Plain : Fits(n, url) => m <= n
  <2>1. PICK m \in Plain : /\ L!OwnHandler(url) = L!builtInUrls[m].cgi /\ Fits(m, url)
                           /\ \A n \in Plain : Fits(n, url) => m <= n
    BY <1>8
  <2>2. CASE m = k
    BY <2>1, <2>2 DEF k, url
  <2>3. CASE m # k
    <3>1. m <= k
      <4>1. m \in 1..Bottom
        BY DEF Plain
      <4>2. k \in Plain => m <= k
        BY <1>2, <2>1
      <4>3. QED
        BY <1>1, <1>4, <4>1, <4>2
    <3>2. L!builtInUrls[m].cgi = "template" /\ L!Stripped(url) \notin Pages
      BY <1>6, <2>1, <2>3, <3>1
    <3>3. k = Bottom => FALSE
      BY <1>1, <1>5, <3>2, BottomEntry
    <3>4. k \in Plain => L!builtInUrls[k].cgi = "template"
      <4>1. ASSUME k \in Plain PROVE L!builtInUrls[k].cgi = "template"
        <5>1. L!builtInUrls[k].url = url /\ L!builtInUrls[m].url = url
          BY <1>2, <2>1, <4>1, PlainEntry
        <5>2. QED
          BY <3>2, <4>1, <5>1, PlainEntry
      <4>2. QED
        BY <4>1
    <3>5. QED
      BY <1>4, <1>5, <3>2, <3>3, <3>4
  <2>4. QED
    BY <2>2, <2>3
<1>9. QED
  BY <1>1, <1>7, <1>8, OwnIs DEF url

\* Above the barriers nothing is protected, and below it nobody walks who is
\* not let in.
LEMMA Protected == ASSUME LoginInv PROVE L!ProtectedAsMeant
<1> SUFFICES ASSUME L!Walking, L!Matching # {}, L!Guarded(asked.url)
             PROVE  \/ L!builtInUrls[L!Here].cgi = "auth"
                    \/ ~sysCfg.auth
                    \/ asked.from \in wasIn
  BY DEF L!ProtectedAsMeant
<1>1. asked.url \in Seq(Pieces) /\ entry \in Nat /\ entry > 0 /\ Bottom \in Nat /\ Bottom > 5
  BY TableLength DEF LoginInv, LoginTyped, L!Walking
<1>2. /\ L!Here \in entry..Bottom /\ L!Here \in Nat /\ Fits(L!Here, asked.url)
      /\ \A m \in entry..Bottom : m < L!Here => ~Fits(m, asked.url)
  BY HereIs DEF LoginInv
<1>3. PICK d \in {4, 5} : Fits(d, asked.url)
  BY <1>1, BarrierEntry
<1>4. CASE d < entry
  BY <1>3, <1>4 DEF LoginInv, LetIn
<1>5. CASE d >= entry
  <2>1. d \in entry..Bottom
    BY <1>1, <1>5
  <2>2. L!Here <= 5
    BY <1>2, <1>3, <2>1
  <2>3. L!Here \notin 1..3
    BY <1>1, <1>2, HomeEntry
  <2>4. L!Here \in {4, 5}
    BY <1>1, <1>2, <2>2, <2>3
  <2>5. QED
    BY <1>1, <2>4, BarrierEntry
<1>6. QED
  BY <1>1, <1>4, <1>5

\* A barrier: who is turned away is not known, and not let in.
LEMMA BarrierStep ==
    ASSUME LoginInv, L!Walking, L!Matching # {}, L!builtInUrls[L!Here].cgi = "auth",
           UNCHANGED <<asked, sysCfg>>, L!authBasic
    PROVE  LoginInv'
<1> DEFINE k == L!Here
           url == asked.url
           table == L!builtInUrls
<1>1. /\ url \in Seq(Pieces) /\ entry \in Nat /\ entry > 0 /\ Bottom \in Nat /\ Bottom > 5
      /\ asked.from \in Conns /\ by = "-" /\ None \notin Conns
  BY TableLength, HttpdAssumption DEF LoginInv, LoginTyped, L!Walking
<1>2. /\ k \in entry..Bottom /\ k \in Nat /\ Fits(k, url)
      /\ \A m \in entry..Bottom : m < k => ~Fits(m, url)
  BY HereIs DEF LoginInv
<1>3. k \in {4, 5}
  <2>1. k # Bottom
    BY <1>1, BottomEntry
  <2>2. k \notin Plain
    BY PlainEntry DEF CgiNames
  <2>3. QED
    BY <1>1, <1>2, <2>1, <2>2 DEF Plain
<1>4. L!Guarded(url)
  BY <1>1, <1>2, <1>3, BarrierEntry
<1>5. /\ UNCHANGED <<asked, sysCfg>>
      /\ \/ remoteip' = asked.from /\ wasIn' = wasIn \union {asked.from} /\ L!GoOn
         \/ /\ UNCHANGED <<remoteip, wasIn>>
            /\ \/ sysCfg.auth /\ remoteip # asked.from /\ L!AnswerBy("401")
               \/ (~sysCfg.auth \/ remoteip = asked.from) /\ L!GoOn
  BY DEF L!authBasic, L!Noted
<1>6. \/ by' = "-" /\ entry' = k + 1
      \/ by' = "401" /\ entry' = entry
  BY <1>1, <1>5 DEF L!GoOn, L!AnswerBy
<1>7. LoginTyped'
  <2>1. asked.from \in wasIn' \/ UNCHANGED <<remoteip, wasIn>>
    BY <1>5
  <2>2. wasIn' \subseteq Conns
    BY <1>1, <1>5 DEF LoginInv, LoginTyped
  <2>3. remoteip' \in wasIn' \/ (remoteip' = None /\ wasIn' = {})
    BY <1>5 DEF LoginInv, LoginTyped
  <2>4. entry' \in Nat /\ entry' > 0
    BY <1>1, <1>2, <1>6
  <2>5. QED
    BY <1>1, <1>5, <2>2, <2>3, <2>4 DEF LoginInv, LoginTyped
<1>8. Passed'
  <2>1. ASSUME NEW m \in 1..Bottom, m < entry', Fits(m, url)
        PROVE  \/ table[m].cgi = "auth"
               \/ table[m].cgi \in {"template", "file"} /\ L!Stripped(url) \notin Pages
    <3>1. m < entry \/ m = k
      <4>1. m <= k \/ m < entry
        BY <1>1, <1>2, <1>6, <2>1
      <4>2. m < entry \/ m \in entry..Bottom
        BY <1>1
      <4>3. QED
        BY <1>2, <2>1, <4>1, <4>2
    <3>2. QED
      BY <1>1, <2>1, <3>1 DEF LoginInv, Passed
  <2>2. QED
    BY <1>5, <2>1 DEF Passed, Fits, Bottom
<1>9. LetIn'
  <2>1. CASE by' = "401"
    BY <2>1 DEF LetIn, L!Walking
  <2>2. CASE by' = "-"
    <3>1. L!GoOn
      BY <1>5, <2>2 DEF L!AnswerBy
    <3>2. ~sysCfg.auth \/ asked.from \in wasIn'
      <4>1. remoteip = asked.from => asked.from \in wasIn
        BY <1>1 DEF LoginInv, LoginTyped
      <4>2. QED
        BY <1>5, <2>2, <4>1 DEF L!AnswerBy
    <3>3. ~sysCfg'.auth \/ asked'.from \in wasIn'
      BY <1>5, <3>2
    <3>4. QED
      BY <3>3, Zenon DEF LetIn
  <2>3. QED
    BY <1>6, <2>1, <2>2
<1>10. L!WelcomeWhenKnown'
  <2>1. CASE by' = "-"
    BY <2>1 DEF L!WelcomeWhenKnown
  <2>2. CASE by' = "401"
    <3>1. /\ UNCHANGED <<asked, sysCfg, wasIn>> /\ sysCfg.auth /\ remoteip # asked.from
          /\ ~(asked.typed # L!NoText /\ L!Accepted(L!Decoded(L!Encoded(asked.typed))))
      BY <1>1, <2>2 DEF L!authBasic, L!GoOn
    <3>2. wasIn # {asked.from}
      BY <3>1 DEF LoginInv, LoginTyped
    <3>3. ~L!Knows(asked.typed)
      <4>1. SUFFICES ASSUME L!Knows(asked.typed) PROVE FALSE
        OBVIOUS
      <4>2. asked.typed # L!NoText /\ asked.typed \in L!Typed
        BY <4>1 DEF L!Knows, LoginInv, LoginTyped
      <4>3. L!Decoded(L!Encoded(asked.typed)) = sysCfg.user \o <<L!Colon>> \o sysCfg.pass
        BY <4>1, <4>2, LoginAssumption DEF L!Knows
      <4>4. sysCfg.user \in Seq(0..255) /\ sysCfg.pass \in Seq(0..255)
        BY LoginAssumption DEF LoginInv, LoginTyped
      <4>5. QED
        BY <3>1, <4>2, <4>3, <4>4, AcceptedText
    <3>4. QED
      BY <1>4, <3>1, <3>2, <3>3 DEF L!WelcomeWhenKnown, L!Knows
  <2>3. QED
    BY <1>6, <2>1, <2>2
<1>11. L!OwnHandlerAnswers'
  BY <1>6 DEF L!OwnHandlerAnswers
<1>12. QED
  BY <1>7, <1>8, <1>9, <1>10, <1>11 DEF LoginInv

\* A handler that is no barrier: it answers, but for a page that is not there.
LEMMA HandlerStep ==
    ASSUME LoginInv, L!Call, L!builtInUrls[L!Here].cgi # "auth"
    PROVE  LoginInv'
<1> DEFINE k == L!Here
           cgi == L!builtInUrls[k].cgi
           url == asked.url
<1>1. /\ url \in Seq(Pieces) /\ entry \in Nat /\ entry > 0 /\ Bottom \in Nat /\ Bottom > 5
      /\ by = "-" /\ L!Walking /\ L!Matching # {}
  BY TableLength DEF LoginInv, LoginTyped, L!Walking, L!Call
<1>2. /\ k \in entry..Bottom /\ k \in Nat /\ Fits(k, url)
      /\ \A m \in entry..Bottom : m < k => ~Fits(m, url)
  BY <1>1, HereIs DEF LoginInv
<1>3. cgi \in CgiNames \union {"template", "file"}
  <2>1. k \notin {4, 5}
    BY <1>1, BarrierEntry
  <2>2. k \in Plain \/ k = Bottom
    BY <1>1, <1>2, <2>1 DEF Plain
  <2>3. QED
    BY <1>1, <2>2, PlainEntry, BottomEntry
<1>4. /\ UNCHANGED <<asked, remoteip, wasIn>>
      /\ \/ cgi \in {"template", "file"} /\ L!Stripped(url) \notin Pages /\ L!GoOn /\ UNCHANGED sysCfg
         \/ /\ L!AnswerBy(cgi) /\ (cgi \in {"template", "file"} => L!Stripped(url) \in Pages)
            /\ UNCHANGED sysCfg \/ sysCfg' \in [auth : BOOLEAN, user : Users, pass : Passwords]
  BY DEF L!Call, L!cgiHTTPD
<1>5. L!builtInUrls[k].cgi # "auth"
  OBVIOUS
<1>6. LoginTyped'
  <2>1. sysCfg' \in [auth : BOOLEAN, user : Users, pass : Passwords]
    BY <1>4 DEF LoginInv, LoginTyped
  <2>2. entry' \in Nat /\ entry' > 0
    BY <1>1, <1>2, <1>4 DEF L!GoOn, L!AnswerBy
  <2>3. asked' = asked /\ remoteip' = remoteip /\ wasIn' = wasIn
    BY <1>4
  <2>4. /\ wasIn \subseteq Conns
        /\ remoteip \in wasIn \/ (remoteip = None /\ wasIn = {})
        /\ asked \in [from : Conns \union {None}, url : Seq(Pieces),
                     typed : L!Typed \union {L!NoText}]
        /\ asked.from \in Conns
    BY <1>1 DEF LoginInv, LoginTyped
  <2>5. LoginTyped' <=>
           /\ sysCfg' \in [auth : BOOLEAN, user : Users, pass : Passwords]
           /\ wasIn' \subseteq Conns
           /\ remoteip' \in wasIn' \/ (remoteip' = None /\ wasIn' = {})
           /\ asked' \in [from : Conns \union {None}, url : Seq(Pieces),
                         typed : L!Typed \union {L!NoText}]
           /\ entry' \in Nat /\ (entry' > 0 => asked'.from \in Conns)
           /\ (by' # "-" => entry' > 0)
    BY Zenon DEF LoginTyped, L!Typed, L!NoText
  <2>6. QED
    BY <2>1, <2>2, <2>3, <2>4, <2>5, Zenon
<1>7. CASE cgi \in {"template", "file"} /\ L!Stripped(url) \notin Pages /\ L!GoOn /\ UNCHANGED sysCfg
  <2>1. by' = "-" /\ entry' = k + 1
    BY <1>1, <1>7 DEF L!GoOn
  <2>2. ASSUME NEW m \in 1..Bottom, m < entry', Fits(m, url)
        PROVE  m < entry \/ m = k
    <3>1. m <= k /\ (m < entry \/ m \in entry..Bottom)
      BY <1>1, <1>2, <2>1, <2>2
    <3>2. QED
      BY <1>2, <2>2, <3>1
  <2>3. Passed'
    <3>1. ASSUME NEW m \in 1..Bottom, m < entry', Fits(m, url)
          PROVE  \/ L!builtInUrls[m].cgi = "auth"
                 \/ L!builtInUrls[m].cgi \in {"template", "file"} /\ L!Stripped(url) \notin Pages
      <4>1. CASE m < entry
        BY <1>1, <3>1, <4>1 DEF LoginInv, Passed
      <4>2. CASE m = k
        BY <1>7, <4>2
      <4>3. QED
        BY <2>2, <3>1, <4>1, <4>2
    <3>2. QED
      BY <1>4, <3>1 DEF Passed, Fits, Bottom
  <2>4. LetIn'
    <3>1. ASSUME NEW m \in {4, 5}, m < entry', Fits(m, url)
          PROVE  ~sysCfg.auth \/ asked.from \in wasIn
      <4>1. m \in 1..Bottom /\ m # k
        BY <1>1, <1>5, BarrierEntry
      <4>2. m < entry
        BY <2>2, <3>1, <4>1
      <4>3. QED
        BY <1>1, <3>1, <4>2 DEF LoginInv, LetIn
    <3>2. QED
      BY <1>4, <1>7, <3>1 DEF LetIn, Fits
  <2>5. L!WelcomeWhenKnown' /\ L!OwnHandlerAnswers'
    BY <2>1 DEF L!WelcomeWhenKnown, L!OwnHandlerAnswers
  <2>6. QED
    BY <1>6, <2>3, <2>4, <2>5 DEF LoginInv
<1>8. CASE L!AnswerBy(cgi) /\ (cgi \in {"template", "file"} => L!Stripped(url) \in Pages)
  <2>1. by' = cgi /\ entry' = entry /\ UNCHANGED <<asked, wasIn>>
    BY <1>4, <1>8 DEF L!AnswerBy
  <2>2. cgi # "-" /\ cgi # "401"
    BY <1>3 DEF CgiNames
  <2>3. Passed'
    BY <2>1 DEF LoginInv, Passed, Fits, Bottom
  <2>4. LetIn' /\ L!WelcomeWhenKnown'
    BY <2>1, <2>2 DEF LetIn, L!Walking, L!WelcomeWhenKnown
  <2>5. L!OwnHandler(url) = cgi
    BY <1>1, <1>5, <1>8, AnswerIsOwn
  <2>6. L!OwnHandlerAnswers'
    BY <2>1, <2>5 DEF L!OwnHandlerAnswers, L!OwnHandler
  <2>7. QED
    BY <1>6, <2>3, <2>4, <2>6 DEF LoginInv
<1>9. QED
  BY <1>4, <1>7, <1>8

LEMMA LoginGoesOn ==
    ASSUME LoginInv, [L!Next]_(L!vars) PROVE LoginInv'
<1>1. CASE UNCHANGED L!vars
  <2>1. UNCHANGED <<sysCfg, remoteip, asked, entry, by, wasIn>>
    BY <1>1 DEF L!vars
  <2>2. LoginTyped' /\ Passed' /\ LetIn'
    BY <2>1 DEF LoginInv, LoginTyped, Passed, LetIn, Fits, Bottom, L!Walking
  <2>3. L!WelcomeWhenKnown' /\ L!OwnHandlerAnswers'
    BY <2>1 DEF LoginInv, L!WelcomeWhenKnown, L!Knows, L!OwnHandlerAnswers, L!OwnHandler
  <2>4. QED
    BY <2>2, <2>3 DEF LoginInv
<1>2. CASE L!Call
  <2>1. CASE L!builtInUrls[L!Here].cgi = "auth"
    <3>1. /\ L!Walking /\ L!Matching # {} /\ UNCHANGED <<asked, sysCfg>> /\ L!authBasic
      BY <1>2, <2>1 DEF L!Call
    <3>2. QED
      BY <2>1, <3>1, BarrierStep
  <2>2. QED
    BY <1>2, <2>1, HandlerStep
<1>3. CASE L!Next
  BY <1>2, <1>3, RequestStep, NotFoundStep, DoneStep, RestartStep DEF L!Next
<1>4. QED
  BY <1>1, <1>3
-----------------------------------------------------------------------------
\* The invariants of the two parts, in the steps that are explored.
WebInv ==
    /\ part = "connections" => IInv
    /\ part = "login" => LoginInv

\* The web server: every connection that is there has its slot, every request
\* its answer and every file its end (httpd.c); and what is asked for is
\* answered by its own handler, below /config/ and /control/ only for somebody
\* who logged in or from an address from which somebody did (auth.c,
\* user_main.c).
THEOREM ConnectionsAreRight == MCSpec => []ConnectionsRight
<1>1. MCInit => WebInv
  <2>1. SUFFICES ASSUME MCInit PROVE WebInv
    OBVIOUS
  <2>2. part = "connections" => Init
    BY <2>1 DEF MCInit
  <2>3. part = "login" => L!Init
    BY <2>1 DEF MCInit
  <2>4. QED
    BY <2>2, <2>3, InitInv, LoginBegins DEF WebInv
<1>2. WebInv /\ [MCNext]_allVars => WebInv'
  <2>1. SUFFICES ASSUME WebInv, [MCNext]_allVars PROVE WebInv'
    OBVIOUS
  <2>2. part' = part
    BY <2>1 DEF MCNext, Connections, Reading, Expanding, Packing, Finding, LoggingIn, allVars
  <2>3. part = "connections" => [Next]_vars
    BY <2>1 DEF MCNext, Connections, Reading, Expanding, Packing, Finding, LoggingIn, allVars
  <2>4. part = "login" => [L!Next]_(L!vars)
    <3>1. part = "login" => L!Next \/ UNCHANGED loginVars
      BY <2>1 DEF MCNext, Connections, Reading, Expanding, Packing, Finding, LoggingIn, allVars,
                  others
    <3>2. UNCHANGED loginVars => UNCHANGED L!vars
      BY DEF loginVars, L!vars
    <3>3. QED
      BY <3>1, <3>2
  <2>5. QED
    BY <2>1, <2>2, <2>3, <2>4, NextInv, LoginGoesOn DEF WebInv
<1>3. WebInv => ConnectionsRight
  <2>1. IInv => NoFileLost /\ SlotsMatch /\ AnsweredOnce
    BY DEF IInv
  <2>2. LoginInv => L!ProtectedAsMeant /\ L!WelcomeWhenKnown /\ L!OwnHandlerAnswers
    BY Protected DEF LoginInv
  <2>3. QED
    BY <2>1, <2>2 DEF WebInv, ConnectionsRight
<1>4. QED
  BY <1>1, <1>2, <1>3, PTL DEF MCSpec

\* EspFsImage

\* Where the header behind that at a is.
After(a) == M!Aligned(a + M!HeaderSize + headers[a].nameLen + headers[a].size)
Files == {a \in DOMAIN headers : ~headers[a].last}
Header == [last : BOOLEAN, name : Names \union {M!NoName}, nameLen : Nat, size : Nat]

ImageTyped ==
    /\ DOMAIN headers \subseteq Nat
    /\ \A a \in DOMAIN headers : headers[a] \in Header
    /\ end \in Nat /\ end % 4 = 0 /\ p \in Nat
    /\ wanted \in Names \union {M!NoName}

\* The files follow each other without a gap, to the end of the image.
Chain ==
    /\ \A a \in Files : After(a) \in DOMAIN headers \/ (~M!Packed /\ After(a) = end)
    /\ \A a, b \in DOMAIN headers : a < b => a \in Files /\ After(a) <= b
    /\ 0 \in DOMAIN headers \/ (~M!Packed /\ end = 0)
    /\ ~M!Packed => \A a \in Files : a < end /\ After(a) <= end

\* What is known of the content is in the headers.
Listed ==
    /\ DOMAIN content = {headers[a].name : a \in Files}
    /\ \A a \in Files : /\ headers[a].name \in Names
                        /\ content[headers[a].name] = a + M!HeaderSize + headers[a].nameLen

\* espFsOpen steps on headers, and those it has left behind were of other files.
Searched ==
    /\ M!Packed => p \in DOMAIN headers
    /\ ~M!Packed => wanted = M!NoName
    /\ wanted = M!NoName => opened = M!Pending /\ p = 0
    /\ opened = M!Pending => \A a \in Files : a < p => headers[a].name # wanted

ImageInv == ImageTyped /\ Chain /\ Listed /\ Searched /\ M!FilesFound

LEMMA AlignedFacts ==
    ASSUME NEW n \in Nat
    PROVE  /\ M!Aligned(n) \in Nat /\ M!Aligned(n) % 4 = 0 /\ M!Aligned(n) >= n
           /\ \A k \in Nat : k % 4 = 0 => M!Aligned(k + n) = k + M!Aligned(n)
<1>1. M!Aligned(n) \in Nat /\ M!Aligned(n) >= n
  BY DEF M!Aligned
<1>2. M!Aligned(n) % 4 = 0
  BY DEF M!Aligned
<1>3. ASSUME NEW k \in Nat, k % 4 = 0 PROVE M!Aligned(k + n) = k + M!Aligned(n)
  BY <1>3 DEF M!Aligned
<1>4. QED
  BY <1>1, <1>2, <1>3

LEMMA ImageInit == M!Init => ImageInv
<1> SUFFICES ASSUME M!Init PROVE ImageInv
  OBVIOUS
<1>1. DOMAIN headers = {} /\ DOMAIN content = {} /\ ~M!Packed /\ Files = {}
  BY DEF M!Init, M!Packed, Files
<1>2. QED
  BY <1>1 DEF M!Init, ImageInv, ImageTyped, Chain, Listed, Searched, M!FilesFound, M!Pending, M!Broken

\* A header that is written behind the others, of a file or of the end.
LEMMA HeaderWritten ==
    ASSUME ImageInv, ~M!Packed, NEW h \in Header, headers' = M!With(headers, end, h)
    PROVE  /\ end \notin DOMAIN headers
           /\ DOMAIN headers' = DOMAIN headers \union {end}
           /\ headers'[end] = h
           /\ \A a \in DOMAIN headers : headers'[a] = headers[a] /\ After(a)' = After(a)
           /\ Files = DOMAIN headers
           /\ Files' = IF h.last THEN DOMAIN headers ELSE DOMAIN headers \union {end}
           /\ M!Packed' = h.last
           /\ DOMAIN headers' \subseteq Nat /\ \A a \in DOMAIN headers' : headers'[a] \in Header
<1>1. Files = DOMAIN headers
  BY DEF M!Packed, Files
<1>2. end \notin DOMAIN headers
  BY <1>1 DEF ImageInv, ImageTyped, Chain
<1>3. /\ DOMAIN headers' = DOMAIN headers \union {end}
      /\ headers'[end] = h
      /\ \A a \in DOMAIN headers : headers'[a] = headers[a]
  BY <1>2 DEF M!With
<1>4. \A a \in DOMAIN headers : After(a)' = After(a)
  BY <1>3 DEF After
<1>5. Files' = IF h.last THEN DOMAIN headers ELSE DOMAIN headers \union {end}
  BY <1>1, <1>2, <1>3 DEF Files
<1>6. M!Packed' = h.last
  <2>1. h.last \in BOOLEAN
    BY DEF Header
  <2>2. M!Packed' <=> h.last
    BY <1>1, <1>3 DEF M!Packed, Files
  <2>3. M!Packed' \in BOOLEAN
    BY DEF M!Packed
  <2>4. QED
    BY <2>1, <2>2, <2>3
<1>7. DOMAIN headers' \subseteq Nat /\ \A a \in DOMAIN headers' : headers'[a] \in Header
  BY <1>3 DEF ImageInv, ImageTyped
<1>8. QED
  BY <1>1, <1>2, <1>3, <1>4, <1>5, <1>6, <1>7

LEMMA HandleFileInv ==
    ASSUME ImageInv, NEW name \in Names, NEW size \in Sizes, M!HandleFile(name, size)
    PROVE  ImageInv'
<1> DEFINE h == [last |-> FALSE, name |-> name, nameLen |-> M!NameLen(name), size |-> size]
           at == end + M!HeaderSize + M!NameLen(name)
<1>1. name.len \in Nat /\ size \in Nat /\ name # M!NoName
  BY ImageAssumption
<1>2. /\ M!NameLen(name) \in Nat /\ M!NameLen(name) % 4 = 0
      /\ M!Aligned(size) \in Nat /\ M!Aligned(size) % 4 = 0 /\ M!Aligned(size) >= size
  <2>1. name.len + 1 \in Nat
    BY <1>1
  <2>2. QED
    BY <1>1, <2>1, AlignedFacts DEF M!NameLen
<1>3. h \in Header
  BY <1>1, <1>2 DEF Header
<1>4. /\ ~M!Packed /\ headers' = M!With(headers, end, h)
      /\ content' = M!With(content, name, at) /\ end' = at + M!Aligned(size)
      /\ name \notin DOMAIN content
      /\ wanted' = wanted /\ p' = p /\ opened' = opened
  BY DEF M!HandleFile
<1>5. /\ end \notin DOMAIN headers
      /\ DOMAIN headers' = DOMAIN headers \union {end}
      /\ headers'[end] = h
      /\ \A a \in DOMAIN headers : headers'[a] = headers[a] /\ After(a)' = After(a)
      /\ Files = DOMAIN headers
      /\ Files' = DOMAIN headers \union {end}
      /\ ~M!Packed'
      /\ DOMAIN headers' \subseteq Nat /\ \A a \in DOMAIN headers' : headers'[a] \in Header
  <2> HIDE DEF h
  <2>1. h.last = FALSE
    BY DEF h
  <2>2. QED
    BY <1>3, <1>4, <2>1, HeaderWritten
<1>6. end \in Nat /\ end % 4 = 0
  BY DEF ImageInv, ImageTyped
<1>7. at \in Nat /\ at % 4 = 0 /\ end' \in Nat /\ end' % 4 = 0 /\ end < end'
  BY <1>2, <1>4, <1>6 DEF M!HeaderSize
<1>8. M!Aligned(end + M!HeaderSize + h.nameLen + h.size) = end'
  BY <1>1, <1>4, <1>7, AlignedFacts
<1>9. ImageTyped'
  BY <1>4, <1>5, <1>7 DEF ImageInv, ImageTyped
<1>10. Chain'
  <2> HIDE DEF h, at
  <2>1. \A a \in Files' : a = end => After(a)' = end'
    BY <1>5, <1>8 DEF After
  <2>2. \A a \in DOMAIN headers : /\ a \in Nat /\ (After(a) \in DOMAIN headers \/ After(a) = end)
                                  /\ a < end /\ After(a) <= end
    BY <1>4, <1>5 DEF ImageInv, ImageTyped, Chain
  <2>3. 0 \in DOMAIN headers'
    BY <1>4, <1>5 DEF ImageInv, Chain
  <2>4. \A a, b \in DOMAIN headers' : a < b => a \in Files' /\ (After(a) <= b)'
    <3> SUFFICES ASSUME NEW a \in DOMAIN headers', NEW b \in DOMAIN headers', a < b
                 PROVE  a \in Files' /\ (After(a) <= b)'
      OBVIOUS
    <3>1. a \in DOMAIN headers
      BY <1>5, <1>6, <2>2
    <3>2. After(a)' = After(a) /\ After(a) <= b
      BY <1>5, <2>2, <3>1 DEF ImageInv, Chain
    <3>3. QED
      BY <1>5, <3>1, <3>2
  <2>5. \A a \in Files' : /\ After(a)' \in DOMAIN headers' \/ After(a)' = end'
                          /\ a < end' /\ After(a)' <= end'
    <3> SUFFICES ASSUME NEW a \in Files'
                 PROVE  /\ After(a)' \in DOMAIN headers' \/ After(a)' = end'
                        /\ a < end' /\ After(a)' <= end'
      OBVIOUS
    <3>1. CASE a = end
      BY <1>6, <1>7, <2>1, <3>1
    <3>2. CASE a \in DOMAIN headers
      <4>1. After(a)' = After(a) /\ After(a) <= end /\ (After(a) \in DOMAIN headers \/ After(a) = end) /\ a < end
        BY <1>5, <2>2, <3>2
      <4>2. After(a) \in DOMAIN headers'
        BY <1>5, <4>1
      <4>3. After(a) \in Nat /\ a \in Nat
        BY <1>5, <4>2
      <4>4. QED
        BY <1>6, <1>7, <4>1, <4>2, <4>3
    <3>3. QED
      BY <1>5, <3>1, <3>2
  <2>6. QED
    BY <1>5, <2>3, <2>4, <2>5 DEF Chain
<1>11. Listed'
  <2>1. h.name = name /\ h.nameLen = M!NameLen(name)
    OBVIOUS
  <2> HIDE DEF h, at
  <2>2. DOMAIN content' = DOMAIN content \union {name} /\ content'[name] = at
        /\ \A x \in DOMAIN content : content'[x] = content[x]
    BY <1>4 DEF M!With
  <2>3. DOMAIN content' = {headers'[a].name : a \in Files'}
    BY <1>5, <2>1, <2>2 DEF ImageInv, Listed
  <2>4. ASSUME NEW a \in Files'
        PROVE  /\ headers'[a].name \in Names
               /\ content'[headers'[a].name] = a + M!HeaderSize + headers'[a].nameLen
    <3>1. CASE a = end
      BY <1>5, <2>1, <2>2, <3>1 DEF at
    <3>2. CASE a \in DOMAIN headers
      BY <1>5, <2>2, <3>2 DEF ImageInv, Listed
    <3>3. QED
      BY <1>5, <3>1, <3>2
  <2>5. QED
    BY <2>3, <2>4 DEF Listed
<1>12. Searched' /\ M!FilesFound'
  <2>1. wanted = M!NoName /\ opened = M!Pending /\ p = 0
    BY <1>4 DEF ImageInv, Searched
  <2>2. \A a \in Files' : ~(a < 0)
    BY <1>5
  <2>3. QED
    BY <1>4, <1>5, <2>1, <2>2 DEF Searched, M!FilesFound, M!Pending, M!Broken
<1>13. QED
  BY <1>9, <1>10, <1>11, <1>12 DEF ImageInv

LEMMA FinishInv == ASSUME ImageInv, M!FinishArchive PROVE ImageInv'
<1> DEFINE h == [last |-> TRUE, name |-> M!NoName, nameLen |-> 0, size |-> 0]
<1>1. h \in Header /\ h.last = TRUE
  BY DEF Header
<1> HIDE DEF h
<1>2. /\ ~M!Packed /\ headers' = M!With(headers, end, h) /\ end' = end + M!HeaderSize
      /\ content' = content /\ wanted' = wanted /\ p' = p /\ opened' = opened
  BY DEF M!FinishArchive, h
<1>3. /\ end \notin DOMAIN headers
      /\ DOMAIN headers' = DOMAIN headers \union {end}
      /\ headers'[end] = h
      /\ \A a \in DOMAIN headers : headers'[a] = headers[a] /\ After(a)' = After(a)
      /\ Files = DOMAIN headers
      /\ Files' = DOMAIN headers
      /\ M!Packed'
      /\ DOMAIN headers' \subseteq Nat /\ \A a \in DOMAIN headers' : headers'[a] \in Header
  BY <1>1, <1>2, HeaderWritten
<1>4. end \in Nat /\ end % 4 = 0
  BY DEF ImageInv, ImageTyped
<1>5. ImageTyped'
  BY <1>2, <1>3, <1>4 DEF ImageInv, ImageTyped, M!HeaderSize
<1>6. \A a \in DOMAIN headers : /\ a \in Nat /\ (After(a) \in DOMAIN headers \/ After(a) = end)
                                /\ a < end /\ After(a) <= end
  BY <1>2, <1>3 DEF ImageInv, ImageTyped, Chain
<1>7. 0 \in DOMAIN headers'
  BY <1>2, <1>3 DEF ImageInv, Chain
<1>8. \A a, b \in DOMAIN headers' : a < b => a \in Files' /\ (After(a) <= b)'
  <2> SUFFICES ASSUME NEW a \in DOMAIN headers', NEW b \in DOMAIN headers', a < b
               PROVE  a \in Files' /\ (After(a) <= b)'
    OBVIOUS
  <2>1. a \in DOMAIN headers
    BY <1>3, <1>4, <1>6
  <2>2. After(a)' = After(a) /\ After(a) <= b
    BY <1>3, <1>6, <2>1 DEF ImageInv, Chain
  <2>3. QED
    BY <1>3, <2>1, <2>2
<1>9. Chain'
  BY <1>3, <1>6, <1>7, <1>8 DEF Chain
<1>10. Listed'
  BY <1>2, <1>3 DEF ImageInv, Listed
<1>11. Searched' /\ M!FilesFound'
  <2>1. wanted = M!NoName /\ opened = M!Pending /\ p = 0
    BY <1>2 DEF ImageInv, Searched
  <2>2. \A a \in Files' : ~(a < 0)
    BY <1>3
  <2>3. QED
    BY <1>2, <1>3, <1>7, <2>1, <2>2 DEF Searched, M!FilesFound, M!Pending, M!Broken
<1>12. QED
  BY <1>5, <1>9, <1>10, <1>11 DEF ImageInv

\* Nothing but the search moves once the image is packed.
LEMMA SearchInv ==
    ASSUME ImageInv, M!Look \/ \E name \in Names : M!Open(name)
    PROVE  ImageInv'
<1>1. headers' = headers /\ end' = end /\ content' = content
  BY DEF M!Look, M!Open
<1>2. /\ (M!Packed)' = M!Packed /\ Files' = Files /\ \A a \in Files : After(a)' = After(a)
  BY <1>1 DEF M!Packed, Files, After
<1>3. Chain' /\ Listed'
  BY <1>1, <1>2 DEF ImageInv, Chain, Listed
<1>4. M!Packed
  BY DEF M!Look, M!Open, ImageInv, Searched
<1>5. ASSUME NEW name \in Names, M!Open(name) PROVE ImageInv'
  <2>1. wanted' = name /\ wanted = M!NoName /\ p' = p /\ opened' = opened /\ name # M!NoName
    BY <1>5, ImageAssumption DEF M!Open
  <2>2. opened = M!Pending /\ p = 0 /\ p \in DOMAIN headers
    BY <1>4, <2>1 DEF ImageInv, Searched
  <2>3. ImageTyped'
    BY <1>1, <2>1 DEF ImageInv, ImageTyped
  <2>4. \A a \in Files : ~(a < 0)
    BY DEF ImageInv, ImageTyped, Files
  <2>5. Searched' /\ M!FilesFound'
    BY <1>1, <1>2, <1>4, <2>1, <2>2, <2>4 DEF Searched, M!FilesFound, M!Pending, M!Broken
  <2>6. QED
    BY <1>3, <2>3, <2>5 DEF ImageInv
<1>6. CASE M!Look
  <2>1. wanted # M!NoName /\ opened = M!Pending /\ wanted' = wanted
    BY <1>6 DEF M!Look
  <2>2. p \in DOMAIN headers /\ p \in Nat /\ headers[p] \in Header
    BY <1>4 DEF ImageInv, Searched, ImageTyped
  <2>3. \A a \in Files : a \in Nat /\ (a < p => headers[a].name # wanted)
    BY <2>1 DEF ImageInv, Searched, ImageTyped, Files
  <2>4. CASE headers[p].last
    <3>1. opened' = M!EndOfImage /\ p' = p
      BY <1>6, <2>2, <2>4 DEF M!Look
    <3>2. \A a \in Files : a < p
      BY <2>2, <2>4 DEF ImageInv, ImageTyped, Chain, Files
    <3>3. wanted \notin DOMAIN content
      BY <2>3, <3>2 DEF ImageInv, Listed
    <3>4. M!FilesFound' /\ Searched'
      BY <1>1, <1>2, <1>4, <2>1, <2>2, <3>1, <3>3
      DEF M!FilesFound, Searched, M!EndOfImage, M!Broken, M!Pending
    <3>5. ImageTyped'
      BY <1>1, <2>1, <3>1 DEF ImageInv, ImageTyped
    <3>6. QED
      BY <1>3, <3>4, <3>5 DEF ImageInv
  <2>5. CASE ~headers[p].last /\ headers[p].name = wanted
    <3>1. opened' = p + M!HeaderSize + headers[p].nameLen /\ p' = p
      BY <1>6, <2>2, <2>5 DEF M!Look
    <3>2. p \in Files
      BY <2>2, <2>5 DEF Files
    <3>3. wanted \in DOMAIN content /\ content[wanted] = opened'
      BY <2>5, <3>1, <3>2 DEF ImageInv, Listed
    <3>4. opened' \in Nat
      BY <2>2, <3>1 DEF Header, M!HeaderSize
    <3>5. M!FilesFound' /\ Searched'
      BY <1>1, <1>2, <1>4, <2>1, <2>2, <3>1, <3>3, <3>4
      DEF M!FilesFound, Searched, M!Broken, M!Pending
    <3>6. ImageTyped'
      BY <1>1, <2>1, <3>1 DEF ImageInv, ImageTyped
    <3>7. QED
      BY <1>3, <3>5, <3>6 DEF ImageInv
  <2>6. CASE ~headers[p].last /\ headers[p].name # wanted
    <3>1. opened' = opened /\ p' = After(p)
      BY <1>6, <2>2, <2>6 DEF M!Look, M!Skipped, After
    <3>2. p \in Files
      BY <2>2, <2>6 DEF Files
    <3>3. p' \in DOMAIN headers /\ p' \in Nat
      BY <1>4, <3>1, <3>2 DEF ImageInv, ImageTyped, Chain
    <3>4. ASSUME NEW a \in Files, a < p' PROVE headers[a].name # wanted
      <4>1. a \in DOMAIN headers /\ a \in Nat
        BY <2>3 DEF Files
      <4>2. ~(p < a)
        BY <2>2, <3>1, <3>3, <3>4, <4>1 DEF ImageInv, Chain
      <4>3. QED
        BY <2>2, <2>3, <2>6, <4>1, <4>2
    <3>5. M!FilesFound' /\ Searched'
      BY <1>1, <1>2, <1>4, <2>1, <3>1, <3>3, <3>4 DEF M!FilesFound, Searched, M!Broken, M!Pending
    <3>6. ImageTyped'
      BY <1>1, <2>1, <3>3 DEF ImageInv, ImageTyped
    <3>7. QED
      BY <1>3, <3>5, <3>6 DEF ImageInv
  <2>7. headers[p].last \in BOOLEAN
    BY <2>2 DEF Header
  <2>8. QED
    BY <2>4, <2>5, <2>6, <2>7
<1>7. QED
  BY <1>5, <1>6

LEMMA ImageNext == ImageInv /\ [M!Next]_(M!vars) => ImageInv'
<1> SUFFICES ASSUME ImageInv, [M!Next]_(M!vars) PROVE ImageInv'
  OBVIOUS
<1>1. CASE UNCHANGED M!vars
  BY <1>1 DEF M!vars, ImageInv, ImageTyped, Chain, Listed, Searched, M!FilesFound, Files, After, M!Packed
<1>2. QED
  BY <1>1, HandleFileInv, FinishInv, SearchInv DEF M!Next

\* An image of any files, with names of any length: each is found by its name,
\* at its own bytes, and a name that is not in it is not.
THEOREM FilesAreFound == MCSpec => [](part = "image" => M!FilesFound)
<1> DEFINE Inv == part = "image" => ImageInv
<1>1. MCInit => Inv
  BY ImageInit DEF MCInit
<1>2. Inv /\ [MCNext]_allVars => Inv'
  <2> SUFFICES ASSUME Inv, [MCNext]_allVars, part' = "image" PROVE ImageInv'
    OBVIOUS
  <2>1. part = "image" /\ [M!Next]_(M!vars)
    BY DEF MCNext, Connections, Reading, Expanding, Packing, Finding, LoggingIn, allVars,
           others, served, imageVars, M!vars
  <2>2. QED
    BY <2>1, ImageNext
<1>3. Inv => (part = "image" => M!FilesFound)
  BY DEF ImageInv
<1>4. QED
  BY <1>1, <1>2, <1>3, PTL DEF MCSpec
=============================================================================
