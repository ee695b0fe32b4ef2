---------------------------- MODULE Queue_proofs ----------------------------
(***************************************************************************)
(* Proofs about the queue of outgoing messages.                            *)
(*                                                                         *)
(* RingBuf, for a ring of any size and any bytes: its type and pointer     *)
(* invariants and that it implements the bounded queue.                    *)
(*                                                                         *)
(* MsgQueue (M), for a ring of any size and any messages: what ends in the *)
(* ring is a message that was published, whatever was cut off before it.   *)
(***************************************************************************)
EXTENDS MCQueue, WellFoundedInduction, FiniteSetTheorems, SequenceTheorems, TLAPS

IInv == TypeOK /\ PointersAgree

\* Going around the ring stays inside it, and one step further is Advance.
LEMMA AheadFacts ==
    ASSUME NEW p \in Slots, NEW n \in Nat
    PROVE  /\ n <= Size => Ahead(p, n) \in Slots
           /\ n < Size => Ahead(p, n + 1) = Advance(Ahead(p, n))
           /\ n < Size => Ahead(Advance(p), n) = Ahead(p, n + 1)
           /\ Ahead(p, 0) = p
           /\ Advance(p) \in Slots
  BY SizeAssumption DEF Ahead, Advance, Slots

\* Different distances lead to different slots.
LEMMA AheadInjective ==
    ASSUME NEW p \in Slots, NEW m \in Nat, NEW n \in Nat, m < n, n < Size
    PROVE  Ahead(p, m) # Ahead(p, n)
  BY SizeAssumption DEF Ahead, Slots

LEMMA InitInv == RINGBUF_Init => IInv
  BY SizeAssumption DEF RINGBUF_Init, IInv, TypeOK, PointersAgree, Slots, Ahead

LEMMA NextInv == IInv /\ [Next]_vars => IInv'
<1> SUFFICES ASSUME IInv, [Next]_vars PROVE IInv'
  OBVIOUS
<1> USE SizeAssumption DEF IInv, TypeOK, PointersAgree
<1>1. ASSUME NEW c \in Bytes, RINGBUF_Put(c) PROVE IInv'
  <2>1. CASE fill_cnt >= Size
    BY <1>1, <2>1 DEF RINGBUF_Put
  <2>2. CASE fill_cnt < Size
    BY <1>1, <2>2, AheadFacts DEF RINGBUF_Put
  <2>3. QED
    BY <2>1, <2>2
<1>2. CASE RINGBUF_Get
  <2>1. CASE fill_cnt <= 0
    BY <1>2, <2>1 DEF RINGBUF_Get
  <2>2. CASE fill_cnt > 0
    <3>1. fill_cnt - 1 \in Nat /\ fill_cnt - 1 < Size /\ fill_cnt = (fill_cnt - 1) + 1
      BY <2>2
    <3>2. Ahead(Advance(p_r), fill_cnt - 1) = p_w
      BY <3>1, AheadFacts
    <3>3. QED
      BY <1>2, <2>2, <3>1, <3>2, AheadFacts DEF RINGBUF_Get
  <2>3. QED
    BY <2>1, <2>2
<1>3. CASE UNCHANGED vars
  BY <1>3 DEF vars, Ahead
<1>4. QED
  BY <1>1, <1>2, <1>3 DEF Next

\* Every field keeps its range: no call reads or writes outside the storage.
THEOREM TypeCorrect == Spec => []TypeOK
  BY InitInv, NextInv, PTL DEF Spec, IInv

\* Pointers and count never drift apart (see PointersAgree).
THEOREM PointersAlwaysAgree == Spec => []PointersAgree
  BY InitInv, NextInv, PTL DEF Spec, IInv
-----------------------------------------------------------------------------
\* The abstraction is a sequence as long as the count says.
LEMMA ContentsSeq ==
    IInv => Contents \in Seq(Bytes) /\ Len(Contents) = fill_cnt
  <1> SUFFICES ASSUME IInv
               PROVE  Contents \in Seq(Bytes) /\ Len(Contents) = fill_cnt
    OBVIOUS
  <1>1. \A i \in 1..fill_cnt : buf[Ahead(p_r, i - 1)] \in Bytes
    <2> TAKE i \in 1..fill_cnt
    <2>1. i - 1 \in Nat /\ i - 1 <= Size
      BY SizeAssumption DEF IInv, TypeOK
    <2>2. QED
      BY <2>1, AheadFacts DEF IInv, TypeOK
  <1>2. fill_cnt \in Nat
    BY SizeAssumption DEF IInv, TypeOK
  <1>3. QED
    BY <1>1, <1>2 DEF Contents

LEMMA ContentsSeqNext ==
    (IInv => Contents \in Seq(Bytes) /\ Len(Contents) = fill_cnt)'
  BY ContentsSeq, PTL

\* A successful put appends, a successful get takes the first byte.
LEMMA PutAppends ==
    ASSUME IInv, IInv', NEW c \in Bytes, RINGBUF_Put(c), fill_cnt < Size
    PROVE  Contents' = Append(Contents, c)
  <1> USE SizeAssumption
  <1>0. /\ Contents \in Seq(Bytes) /\ Len(Contents) = fill_cnt
        /\ Contents' \in Seq(Bytes) /\ Len(Contents') = fill_cnt'
    BY ContentsSeq, ContentsSeqNext
  <1>1. /\ fill_cnt' = fill_cnt + 1 /\ buf' = [buf EXCEPT ![p_w] = c] /\ p_r' = p_r
        /\ fill_cnt \in Nat
    BY DEF RINGBUF_Put, IInv, TypeOK
  <1>2. \A i \in 1..fill_cnt : Contents'[i] = Contents[i]
    <2> TAKE i \in 1..fill_cnt
    <2>1. i - 1 \in Nat /\ i - 1 < fill_cnt
      BY <1>1
    <2>2. Ahead(p_r, i - 1) # p_w /\ Ahead(p_r, i - 1) \in Slots
      BY <1>1, <2>1, AheadInjective, AheadFacts DEF IInv, TypeOK, PointersAgree
    <2>3. Contents[i] = buf[Ahead(p_r, i - 1)] /\ Contents'[i] = buf'[Ahead(p_r, i - 1)]
      BY <1>1 DEF Contents, Ahead
    <2>4. QED
      BY <1>1, <2>2, <2>3 DEF IInv, TypeOK
  <1>3. Contents'[fill_cnt + 1] = c
    <2>1. Contents'[fill_cnt + 1] = buf'[Ahead(p_r, fill_cnt)]
      BY <1>1 DEF Contents, Ahead
    <2>2. QED
      BY <1>1, <2>1 DEF IInv, TypeOK, PointersAgree
  <1>4. QED
    BY <1>0, <1>1, <1>2, <1>3, AppendProperties, SeqEqual

LEMMA GetTakesFirst ==
    ASSUME IInv, IInv', RINGBUF_Get, fill_cnt > 0
    PROVE  /\ Contents # <<>>
           /\ Contents' = Tail(Contents)
           /\ buf[p_r] = Head(Contents)
  <1> USE SizeAssumption
  <1>0. /\ Contents \in Seq(Bytes) /\ Len(Contents) = fill_cnt
        /\ Contents' \in Seq(Bytes) /\ Len(Contents') = fill_cnt'
    BY ContentsSeq, ContentsSeqNext
  <1>1. /\ fill_cnt' = fill_cnt - 1 /\ buf' = buf /\ p_r' = Advance(p_r)
        /\ fill_cnt \in Nat
    BY DEF RINGBUF_Get, IInv, TypeOK
  <1>2. Contents # <<>> /\ Head(Contents) = Contents[1]
    BY <1>0, <1>1
  <1>3. Contents[1] = buf[p_r]
    BY <1>1, AheadFacts DEF Contents, IInv, TypeOK
  <1>4. \A i \in 1..(fill_cnt - 1) : Contents'[i] = Contents[i + 1]
    <2> TAKE i \in 1..(fill_cnt - 1)
    <2>1. i - 1 \in Nat /\ i - 1 < Size /\ i = (i - 1) + 1
      BY <1>1 DEF IInv, TypeOK
    <2>2. Ahead(Advance(p_r), i - 1) = Ahead(p_r, i)
      BY <2>1, AheadFacts DEF IInv, TypeOK
    <2>3. Contents'[i] = buf[Ahead(Advance(p_r), i - 1)]
      BY <1>1 DEF Contents, Ahead
    <2>4. Contents[i + 1] = buf[Ahead(p_r, i)]
      BY <1>1 DEF Contents
    <2>5. QED
      BY <2>2, <2>3, <2>4
  <1>5. Contents' = Tail(Contents)
    BY <1>0, <1>1, <1>2, <1>4, HeadTailProperties, SeqEqual
  <1>6. QED
    BY <1>2, <1>3, <1>5

\* A call of RINGBUF_Put or RINGBUF_Get is the same call of the queue.
LEMMA FifoStep == IInv /\ IInv' /\ [Next]_vars => [Fifo!Next]_(Fifo!vars)
<1> SUFFICES ASSUME IInv, IInv', [Next]_vars PROVE [Fifo!Next]_(Fifo!vars)
  OBVIOUS
<1>0. /\ Contents \in Seq(Bytes) /\ Len(Contents) = fill_cnt
      /\ Contents' \in Seq(Bytes) /\ Len(Contents') = fill_cnt'
      /\ fill_cnt \in Nat /\ Size \in Nat
  BY SizeAssumption, ContentsSeq, ContentsSeqNext DEF IInv, TypeOK
<1>1. ASSUME NEW c \in Bytes, RINGBUF_Put(c) PROVE Fifo!Put(c)
  <2>1. CASE fill_cnt >= Size
    <3>1. Contents' = Contents /\ ret' = -1 /\ got' = got
      BY <1>0, <1>1, <2>1 DEF RINGBUF_Put, Contents, Ahead
    <3>2. QED
      BY <1>0, <2>1, <3>1 DEF Fifo!Put
  <2>2. CASE fill_cnt < Size
    <3>1. Contents' = Append(Contents, c)
      BY <1>1, <2>2, PutAppends
    <3>2. ret' = 0 /\ got' = got
      BY <1>0, <1>1, <2>2 DEF RINGBUF_Put
    <3>3. QED
      BY <1>0, <2>2, <3>1, <3>2 DEF Fifo!Put
  <2>3. QED
    BY <1>0, <2>1, <2>2
<1>2. ASSUME RINGBUF_Get PROVE Fifo!Get
  <2>1. CASE fill_cnt <= 0
    <3>1. Contents' = Contents /\ ret' = -1 /\ got' = got
      BY <1>0, <1>2, <2>1 DEF RINGBUF_Get, Contents, Ahead
    <3>2. Contents = <<>>
      BY <1>0, <2>1
    <3>3. QED
      BY <3>1, <3>2 DEF Fifo!Get
  <2>2. CASE fill_cnt > 0
    <3>1. Contents # <<>> /\ Contents' = Tail(Contents) /\ buf[p_r] = Head(Contents)
      BY <1>2, <2>2, GetTakesFirst
    <3>2. ret' = 0 /\ got' = buf[p_r]
      BY <1>0, <1>2, <2>2 DEF RINGBUF_Get
    <3>3. QED
      BY <3>1, <3>2 DEF Fifo!Get
  <2>3. QED
    BY <1>0, <2>1, <2>2
<1>3. CASE UNCHANGED vars
  BY <1>3 DEF vars, Fifo!vars, Contents, Ahead
<1>4. QED
  BY <1>1, <1>2, <1>3 DEF Next, Fifo!Next

\* The ring implements a bounded first-in first-out queue, whatever its size.
THEOREM ImplementsFifo == Spec => IsFifo
<1>1. RINGBUF_Init => Fifo!Init
  BY DEF RINGBUF_Init, Fifo!Init, Contents
<1>2. QED
  BY <1>1, InitInv, NextInv, FifoStep, PTL DEF Spec, IsFifo, Fifo!Spec
-----------------------------------------------------------------------------
\* Counting up from zero reaches every number.
LEMMA Counting ==
    ASSUME NEW G \in SUBSET Nat, 0 \in G, \A n \in G : n + 1 \in G
    PROVE  \A n \in Nat : n \in G
<1> SUFFICES ASSUME Nat \ G # {} PROVE FALSE
  OBVIOUS
<1> DEFINE R == OpToRel(<, Nat)
<1>1. IsWellFoundedOn(R, Nat)
  BY NatLessThanWellFounded
<1>2. \A k \in Nat, l \in Nat : <<k, l>> \in R <=> k < l
  BY DEF OpToRel
<1> HIDE DEF R
<1>3. Nat \ G \subseteq Nat
  OBVIOUS
<1>4. PICK x \in Nat \ G : \A y \in Nat \ G : ~(<<y, x>> \in R)
  BY <1>1, <1>3, WFMin, Zenon
<1>5. x \in Nat /\ x # 0 /\ x - 1 \in Nat /\ x - 1 < x
  OBVIOUS
<1>6. <<x - 1, x>> \in R
  BY <1>2, <1>5
<1>7. x - 1 \in G
  BY <1>4, <1>5, <1>6
<1>8. QED
  BY <1>5, <1>7

\* A set of numbers that is not empty has a least one.
LEMMA Least ==
    ASSUME NEW S \in SUBSET Nat, S # {}
    PROVE  M!Min(S) \in S /\ \A y \in S : M!Min(S) <= y
<1>1. ASSUME \A x \in S : \E y \in S : y < x PROVE FALSE
  <2> DEFINE G == {n \in Nat : \A x \in S : n <= x}
  <2>1. 0 \in G
    OBVIOUS
  <2>2. ASSUME NEW n \in G PROVE n + 1 \in G
    BY <1>1
  <2> HIDE DEF G
  <2>3. \A n \in Nat : n \in G
    <3>1. G \in SUBSET Nat
      BY DEF G
    <3>2. QED
      BY <2>1, <2>2, <3>1, Counting, Zenon
  <2>4. PICK x \in S : TRUE
    OBVIOUS
  <2>5. x + 1 <= x
    BY <2>3 DEF G
  <2>6. QED
    BY <2>5
<1>2. PICK x \in S : \A y \in S : x <= y
  BY <1>1
<1>3. QED
  BY <1>2 DEF M!Min

\* Sequences are put together one after the other, and stay in a set that is
\* closed under it.
LEMMA Flattened ==
    ASSUME NEW C, \A t \in C, u \in C : t \o u \in C,
           NEW s \in Seq(C), s # <<>>
    PROVE  \E h \in [1..Len(s) -> C] :
               /\ \A i \in 1..Len(s) : h[i] = IF i = 1 THEN s[i] ELSE h[i - 1] \o s[i]
               /\ M!FlattenSeq(s) = h[Len(s)]
<1> DEFINE n == Len(s)
           Step(g) == [i \in 1..n |-> IF i = 1 THEN s[i] ELSE g[i - 1] \o s[i]]
           Upto(k, g) == /\ g \in [1..k -> C]
                         /\ \A i \in 1..k : g[i] = IF i = 1 THEN s[i] ELSE g[i - 1] \o s[i]
           G == {k \in Nat : k <= n => \E g : Upto(k, g)}
<1>0. n \in Nat /\ n # 0 /\ \A i \in 1..n : s[i] \in C
  OBVIOUS
<1>1. 0 \in G
  <2>1. Upto(0, [i \in 1..0 |-> s[i]])
    OBVIOUS
  <2>2. QED
    BY <2>1
<1>2. ASSUME NEW k \in G PROVE k + 1 \in G
  <2> SUFFICES ASSUME k + 1 <= n PROVE \E g : Upto(k + 1, g)
    OBVIOUS
  <2>1. k \in Nat /\ \E g : Upto(k, g)
    OBVIOUS
  <2>2. PICK g : Upto(k, g)
    BY <2>1
  <2>3. PICK t : t = IF k = 0 THEN s[1] ELSE g[k] \o s[k + 1]
    OBVIOUS
  <2>4. t \in C
    BY <1>0, <2>1, <2>2, <2>3
  <2>5. PICK w : w = [i \in 1..(k + 1) |-> IF i = k + 1 THEN t ELSE g[i]]
    OBVIOUS
  <2>6. w \in [1..(k + 1) -> C]
    BY <2>1, <2>2, <2>4, <2>5
  <2>7. \A i \in 1..k : w[i] = g[i]
    BY <2>1, <2>5
  <2>8. w[k + 1] = t
    BY <2>1, <2>5
  <2> HIDE DEF n
  <2>9. ASSUME NEW i \in 1..(k + 1) PROVE w[i] = IF i = 1 THEN s[i] ELSE w[i - 1] \o s[i]
    <3>1. CASE i = k + 1
      BY <2>1, <2>3, <2>7, <2>8, <3>1
    <3>2. CASE i # k + 1
      <4>1. i \in 1..k /\ (i # 1 => i - 1 \in 1..k)
        BY <2>1, <3>2
      <4>2. g[i] = IF i = 1 THEN s[i] ELSE g[i - 1] \o s[i]
        BY <2>2, <4>1
      <4>3. w[i] = g[i] /\ (i # 1 => w[i - 1] = g[i - 1])
        BY <2>7, <4>1
      <4>4. QED
        BY <4>2, <4>3
    <3>3. QED
      BY <3>1, <3>2
  <2>10. QED
    BY <2>6, <2>9
<1>3. \E g : Upto(n, g)
  <2>1. G \in SUBSET Nat
    OBVIOUS
  <2> HIDE DEF G
  <2>2. n \in G
    BY <1>0, <1>1, <1>2, <2>1, Counting, Zenon
  <2>3. QED
    BY <1>0, <2>2 DEF G
<1>4. \E g : g = Step(g)
  BY <1>3
<1>5. PICK h : h = CHOOSE g : g = Step(g)
  OBVIOUS
<1>6. h = Step(h)
  BY <1>4, <1>5, Zenon
<1>7. M!FlattenSeq(s) = h[n]
  BY <1>0, <1>5, Zenon DEF M!FlattenSeq
<1> DEFINE H == {k \in Nat : k + 1 <= n => h[k + 1] \in C}
<1>8. 0 \in H
  BY <1>0, <1>6
<1>9. ASSUME NEW k \in H PROVE k + 1 \in H
  <2> SUFFICES ASSUME k + 2 <= n PROVE h[k + 2] \in C
    OBVIOUS
  <2>1. h[k + 2] = h[k + 1] \o s[k + 2]
    <3>1. PICK i : i = k + 2
      OBVIOUS
    <3>2. i \in 1..n /\ i # 1 /\ i - 1 = k + 1
      BY <1>0, <3>1
    <3>3. h[i] = h[i - 1] \o s[i]
      BY <1>6, <3>2, Zenon
    <3>4. QED
      BY <3>1, <3>2, <3>3
  <2>2. h[k + 1] \in C /\ s[k + 2] \in C
    BY <1>0
  <2>3. QED
    BY <2>1, <2>2
<1>10. h \in [1..n -> C]
  <2>1. H \in SUBSET Nat
    OBVIOUS
  <2> HIDE DEF H
  <2>2. \A k \in Nat : k \in H
    BY <1>8, <1>9, <2>1, Counting, Zenon
  <2>3. ASSUME NEW i \in 1..n PROVE h[i] \in C
    <3>1. i - 1 \in Nat /\ (i - 1) + 1 = i /\ i <= n
      BY <1>0
    <3>2. i - 1 \in H
      BY <2>2, <3>1
    <3>3. QED
      BY <3>1, <3>2 DEF H
  <2> HIDE DEF n
  <2>4. DOMAIN h = 1..n /\ h = [i \in 1..n |-> h[i]]
    BY <1>6
  <2>5. QED
    BY <2>3, <2>4
<1>11. \A i \in 1..n : h[i] = IF i = 1 THEN s[i] ELSE h[i - 1] \o s[i]
  BY <1>6, Zenon
<1>12. QED
  BY <1>7, <1>10, <1>11, Zenon

\* Bytes among which none begins or ends a frame.
Clean == {t \in Seq(0..255) : \A i \in 1..Len(t) : t[i] \notin {M!Begin, M!End}}

LEMMA CleanJoined == \A t \in Clean, u \in Clean : t \o u \in Clean
<1> SUFFICES ASSUME NEW t \in Clean, NEW u \in Clean PROVE t \o u \in Clean
  OBVIOUS
<1>1. t \in Seq(0..255) /\ u \in Seq(0..255)
  BY DEF Clean
<1>2. PICK w : w = t \o u
  OBVIOUS
<1>3. /\ w \in Seq(0..255) /\ Len(w) = Len(t) + Len(u)
      /\ \A i \in 1..Len(w) : w[i] = IF i <= Len(t) THEN t[i] ELSE u[i - Len(t)]
  BY <1>1, <1>2
<1>4. \A i \in 1..Len(w) : w[i] \notin {M!Begin, M!End}
  <2> TAKE i \in 1..Len(w)
  <2>1. CASE i <= Len(t)
    BY <1>1, <1>3, <2>1 DEF Clean
  <2>2. CASE ~(i <= Len(t))
    <3>1. i - Len(t) \in 1..Len(u)
      BY <1>1, <1>3, <2>2
    <3>2. QED
      BY <1>3, <2>2, <3>1 DEF Clean
  <2>3. QED
    BY <2>1, <2>2
<1>5. QED
  BY <1>2, <1>3, <1>4 DEF Clean

\* What is put for a byte neither begins nor ends a frame, whatever the byte.
LEMMA EncodedClean == \A v \in 0..255 : M!Encoded(v) \in Clean
<1> SUFFICES ASSUME NEW v \in 0..255 PROVE M!Encoded(v) \in Clean
  OBVIOUS
<1>1. CASE v \in {M!Esc, M!Begin, M!End}
  <2>1. M!Flip(v) \in 93..95
    BY <1>1 DEF M!Flip, M!Esc, M!Begin, M!End
  <2>2. <<M!Esc, M!Flip(v)>> \in Clean
    BY <2>1 DEF Clean, M!Esc, M!Begin, M!End
  <2>3. QED
    BY <1>1, <2>2 DEF M!Encoded
<1>2. CASE v \notin {M!Esc, M!Begin, M!End}
  <2>1. <<v>> \in Clean
    BY <1>2 DEF Clean
  <2>2. QED
    BY <1>2, <2>1 DEF M!Encoded
<1>3. QED
  BY <1>1, <1>2

\* The bytes between the first and the last of a frame.
Body(m) == M!FlattenSeq([i \in DOMAIN m |-> M!Encoded(m[i])])

\* parts[i] is what is put for the first i bytes of m.
Grows(parts, m) ==
    /\ parts \in [0..Len(m) -> Clean]
    /\ parts[0] = <<>>
    /\ \A i \in 1..Len(m) : parts[i] = parts[i - 1] \o M!Encoded(m[i])

LEMMA BodyGrows ==
    ASSUME NEW m \in Seq(0..255)
    PROVE  \E parts : Grows(parts, m) /\ Body(m) = parts[Len(m)]
<1>0. Len(m) \in Nat /\ <<>> \in Clean
  BY DEF Clean
<1>1. PICK s : s = [i \in DOMAIN m |-> M!Encoded(m[i])]
  OBVIOUS
<1>2. /\ s \in Seq(Clean) /\ Len(s) = Len(m)
      /\ \A i \in 1..Len(m) : s[i] = M!Encoded(m[i]) /\ s[i] \in Clean
  <2>1. \A i \in 1..Len(m) : s[i] = M!Encoded(m[i]) /\ s[i] \in Clean
    <3> TAKE i \in 1..Len(m)
    <3>1. m[i] \in 0..255 /\ i \in DOMAIN m
      BY LenProperties, ElementOfSeq, Zenon
    <3>2. s[i] = M!Encoded(m[i])
      BY <1>1, <3>1, Zenon
    <3>3. QED
      BY <3>1, <3>2, EncodedClean, Zenon
  <2>2. s = [i \in 1..Len(m) |-> s[i]] /\ Len(m) \in Nat
    BY <1>1
  <2>3. QED
    BY <2>1, <2>2
<1>3. Body(m) = M!FlattenSeq(s)
  BY <1>1 DEF Body
<1>4. CASE s = <<>>
  <2>1. M!FlattenSeq(s) = <<>> /\ Len(m) = 0
    BY <1>2, <1>4 DEF M!FlattenSeq
  <2>2. PICK parts : parts = [i \in 0..0 |-> <<>>]
    OBVIOUS
  <2>3. parts \in [0..0 -> Clean] /\ parts[0] = <<>> /\ 1..0 = {}
    BY <1>0, <2>2
  <2>4. Grows(parts, m)
    BY <2>1, <2>3 DEF Grows
  <2>5. QED
    BY <1>3, <2>1, <2>3, <2>4
<1>5. CASE s # <<>>
  <2>0. Len(m) \in 1..Len(m)
    BY <1>0, <1>2, <1>5
  <2>1. PICK h \in [1..Len(m) -> Clean] :
            /\ \A i \in 1..Len(m) : h[i] = IF i = 1 THEN s[i] ELSE h[i - 1] \o s[i]
            /\ M!FlattenSeq(s) = h[Len(m)]
    BY <1>2, <1>5, Flattened, CleanJoined
  <2>2. PICK parts : parts = [i \in 0..Len(m) |-> IF i = 0 THEN <<>> ELSE h[i]]
    OBVIOUS
  <2>3. /\ parts[0] = <<>> /\ \A i \in 1..Len(m) : parts[i] = h[i]
        /\ parts \in [0..Len(m) -> Clean]
    BY <1>0, <2>1, <2>2
  <2>4. ASSUME NEW i \in 1..Len(m) PROVE parts[i] = parts[i - 1] \o M!Encoded(m[i])
    <3>1. CASE i = 1
      <4>1. parts[i] = s[i] /\ parts[i - 1] = <<>>
        BY <2>1, <2>3, <3>1
      <4>2. s[i] \in Seq(0..255)
        BY <1>2 DEF Clean
      <4>3. s[i] = <<>> \o s[i]
        BY <4>2, ConcatEmptySeq, Zenon
      <4>4. QED
        BY <1>2, <4>1, <4>3, Zenon
    <3>2. CASE i # 1
      <4>1. i - 1 \in 1..Len(m)
        BY <1>0, <3>2
      <4>2. parts[i] = h[i] /\ parts[i - 1] = h[i - 1] /\ h[i] = h[i - 1] \o s[i]
        BY <2>1, <2>3, <3>2, <4>1, Zenon
      <4>3. QED
        BY <1>2, <4>2, Zenon
    <3>3. QED
      BY <3>1, <3>2
  <2>5. Grows(parts, m)
    BY <2>3, <2>4, Zenon DEF Grows
  <2>6. Body(m) = parts[Len(m)]
    BY <1>3, <2>0, <2>1, <2>3, Zenon
  <2>7. QED
    BY <2>5, <2>6
<1>6. QED
  BY <1>4, <1>5

\* A frame has its begin in its first place, its end in its last place, and
\* neither anywhere else.
Framed(f) ==
    /\ f \in Seq(0..255) /\ Len(f) >= 2
    /\ f[1] = M!Begin /\ f[Len(f)] = M!End
    /\ \A i \in 1..Len(f) : /\ f[i] = M!Begin => i = 1
                            /\ f[i] = M!End => i = Len(f)

\* A frame is its body, with the two around it.
Around(f, t) ==
    /\ Len(f) = Len(t) + 2
    /\ \A i \in 1..Len(t) : f[i + 1] = t[i]

LEMMA FrameEndsOnce ==
    \A m \in Seq(0..255) : Framed(M!Frame(m)) /\ Around(M!Frame(m), Body(m))
<1> SUFFICES ASSUME NEW m \in Seq(0..255)
             PROVE  Framed(M!Frame(m)) /\ Around(M!Frame(m), Body(m))
  OBVIOUS
<1>1. PICK t : t = Body(m)
  OBVIOUS
<1>2. t \in Clean
  <2>1. PICK parts : Grows(parts, m) /\ Body(m) = parts[Len(m)]
    BY BodyGrows
  <2>2. Len(m) \in 0..Len(m)
    OBVIOUS
  <2>3. QED
    BY <1>1, <2>1, <2>2 DEF Grows
<1>3. t \in Seq(0..255) /\ \A i \in 1..Len(t) : t[i] # M!Begin /\ t[i] # M!End
  BY <1>2 DEF Clean
<1>4. PICK u : u = <<M!Begin>> \o t
  OBVIOUS
<1>5. /\ u \in Seq(0..255) /\ Len(u) = Len(t) + 1 /\ u[1] = M!Begin
      /\ \A i \in 1..Len(t) : u[i + 1] = t[i]
  BY <1>3, <1>4 DEF M!Begin
<1>6. PICK f : f = Append(u, M!End)
  OBVIOUS
<1>7. /\ f \in Seq(0..255) /\ Len(f) = Len(t) + 2 /\ f[Len(t) + 2] = M!End
      /\ \A i \in 1..(Len(t) + 1) : f[i] = u[i]
  <2>1. M!End \in 0..255
    BY DEF M!End
  <2>2. QED
    BY <1>5, <1>6, <2>1
<1>8. M!Frame(m) = f
  <2>1. M!Frame(m) = u \o <<M!End>>
    BY <1>1, <1>4, Zenon DEF M!Frame, Body
  <2>2. u \o <<M!End>> = f
    <3>1. M!End \in 0..255
      BY DEF M!End
    <3>2. QED
      BY <1>5, <1>6, <3>1, AppendIsConcat
  <2>3. QED
    BY <2>1, <2>2
<1>9. Len(t) \in Nat
  BY <1>3
<1>10. \A i \in 1..Len(t) : f[i + 1] = t[i]
  BY <1>5, <1>7, <1>9
<1>11. f[1] = M!Begin
  BY <1>5, <1>7, <1>9
<1>12. ASSUME NEW i \in 1..Len(f)
       PROVE  (f[i] = M!Begin => i = 1) /\ (f[i] = M!End => i = Len(f))
  <2>1. CASE i = 1
    BY <1>11, <2>1 DEF M!Begin, M!End
  <2>2. CASE i = Len(f)
    BY <1>7, <2>2 DEF M!Begin, M!End
  <2>3. CASE i # 1 /\ i # Len(f)
    <3>1. i - 1 \in 1..Len(t) /\ (i - 1) + 1 = i
      BY <1>7, <1>9, <2>3
    <3>2. f[i] = t[i - 1]
      BY <1>10, <3>1
    <3>3. QED
      BY <1>3, <3>1, <3>2
  <2>4. QED
    BY <2>1, <2>2, <2>3
<1>13. Framed(f)
  BY <1>7, <1>9, <1>11, <1>12 DEF Framed
<1>14. Around(f, t)
  BY <1>7, <1>10 DEF Around
<1>15. QED
  BY <1>1, <1>8, <1>13, <1>14

\* What MsgQueue assumes of its constants, and the frames of the messages.
LEMMA Frames ==
    /\ Room \in Nat /\ Room >= 2 /\ None \notin Messages
    /\ \A m \in Messages :
           /\ m \in Seq(0..255) /\ Len(m) <= BufSize
           /\ Framed(M!Frame(m)) /\ Around(M!Frame(m), Body(m))
  BY MessagesAssumption, FrameEndsOnce DEF M!QueueAssumption

\* The bytes of f are those of r from its place s on, the last at place k.
Spans(f, r, s, k) ==
    /\ Len(f) = (k - s) + 1
    /\ \A i \in 1..Len(f) : f[i] = r[(s + i) - 1]

Bounded(r) == r \in Seq(0..255) /\ Len(r) <= Room

\* t holds the bytes of s from one place to another.
Slices(t, s, m, n) ==
    /\ t \in Seq(0..255)
    /\ Len(t) = IF m <= n THEN (n - m) + 1 ELSE 0
    /\ \A i \in 1..(n - m) + 1 : t[i] = s[(m + i) - 1]

LEMMA Cut ==
    ASSUME NEW s \in Seq(0..255), NEW m \in Nat, m # 0, NEW n \in Int, n <= Len(s)
    PROVE  Slices(SubSeq(s, m, n), s, m, n)
<1>1. \A i \in m..n : i \in 1..Len(s)
  OBVIOUS
<1>2. \A i \in m..n : s[i] \in 0..255
  BY <1>1, ElementOfSeq
<1>3. m \in Int
  OBVIOUS
<1>4. /\ SubSeq(s, m, n) \in Seq(0..255)
      /\ Len(SubSeq(s, m, n)) = IF m <= n THEN n - m + 1 ELSE 0
      /\ \A i \in 1..n - m + 1 : SubSeq(s, m, n)[i] = s[m + i - 1]
  BY <1>2, <1>3, SubSeqProperties
<1>5. QED
  BY <1>4 DEF Slices

LEMMA SpansSubSeq ==
    ASSUME NEW f \in Seq(0..255), NEW r \in Seq(0..255),
           NEW k \in 1..Len(r), NEW s \in 1..k, Spans(f, r, s, k)
    PROVE  f = SubSeq(r, s, k)
<1>0. s \in Nat /\ s # 0 /\ k \in Int /\ k <= Len(r) /\ s <= k
  OBVIOUS
<1>1. Slices(SubSeq(r, s, k), r, s, k)
  BY <1>0, Cut, Zenon
<1>2. \A i \in 1..Len(f) : f[i] = SubSeq(r, s, k)[i]
  BY <1>0, <1>1 DEF Spans, Slices
<1>3. QED
  BY <1>0, <1>1, <1>2, SeqEqual DEF Spans, Slices

\* What the parser keeps between two bytes.
Parsers == {p \in [data : Seq(0..255), isEsc : BOOLEAN, isBegin : BOOLEAN] :
              Len(p.data) <= BufSize}

LEMMA ParsersStep ==
    \A p \in Parsers, v \in 0..255 : M!PROTO_ParseByte(p, v) \in Parsers
<1> SUFFICES ASSUME NEW p \in Parsers, NEW v \in 0..255 PROVE M!PROTO_ParseByte(p, v) \in Parsers
  OBVIOUS
<1>1. /\ p.data \in Seq(0..255) /\ Len(p.data) <= BufSize
      /\ p \in [data : Seq(0..255), isEsc : BOOLEAN, isBegin : BOOLEAN] /\ BufSize \in Nat
  BY MessagesAssumption DEF Parsers, M!QueueAssumption
<1>2. CASE v = M!Esc
  <2>1. M!PROTO_ParseByte(p, v) = [p EXCEPT !.isEsc = TRUE]
    BY <1>2 DEF M!PROTO_ParseByte, M!Begin, M!Esc
  <2>2. QED
    BY <1>1, <2>1 DEF Parsers
<1>3. CASE v = M!Begin
  BY <1>1, <1>3 DEF M!PROTO_ParseByte, Parsers, M!Begin, M!Esc
<1>4. CASE v # M!Esc /\ v # M!Begin
  <2>1. CASE ~p.isBegin
    BY <1>4, <2>1 DEF M!PROTO_ParseByte
  <2>2. CASE p.isBegin
    <3>1. M!Flip(v) \in 0..255
      BY DEF M!Flip
    <3>2. PICK u : u = IF p.isEsc THEN M!Flip(v) ELSE v
      OBVIOUS
    <3>3. PICK d : d = IF Len(p.data) < BufSize THEN Append(p.data, u) ELSE p.data
      OBVIOUS
    <3>4. d \in Seq(0..255) /\ Len(d) <= BufSize
      <4>1. u \in 0..255
        BY <3>1, <3>2
      <4>2. Append(p.data, u) \in Seq(0..255) /\ Len(Append(p.data, u)) = Len(p.data) + 1
        BY <1>1, <4>1, AppendProperties
      <4>3. QED
        BY <1>1, <3>3, <4>2
    <3>5. M!PROTO_ParseByte(p, v) = [p EXCEPT !.isEsc = FALSE, !.data = d]
      BY <1>1, <1>4, <2>2, <3>2, <3>3 DEF M!PROTO_ParseByte
    <3>6. QED
      BY <1>1, <3>4, <3>5 DEF Parsers
  <2>3. QED
    BY <2>1, <2>2
<1>5. QED
  BY <1>2, <1>3, <1>4

\* A set of numbers from 1 to k + 1 has a greatest one, the others are smaller.
LEMMA Greatest ==
    ASSUME NEW k \in Nat, NEW S \in SUBSET (1..(k + 1)), S # {}
    PROVE  /\ M!Max(S) \in S /\ \A y \in S : y <= M!Max(S)
           /\ S \ {M!Max(S)} \in SUBSET (1..k)
<1> DEFINE n == k + 1
           Rests == {n - x : x \in S}
<1>1. Rests \in SUBSET Nat /\ Rests # {}
  <2>1. \A x \in S : n - x \in Nat
    OBVIOUS
  <2> HIDE DEF n
  <2>2. QED
    BY <2>1
<1>2. PICK j \in Rests : \A l \in Rests : j <= l
  BY <1>1, Least
<1>3. PICK x \in S : j = n - x
  OBVIOUS
<1>4. \A y \in S : y <= x
  <2> TAKE y \in S
  <2>1. n - y \in Rests
    OBVIOUS
  <2>2. j <= n - y
    BY <1>2, <2>1
  <2>3. QED
    BY <1>3, <2>2
<1>5. \E z \in S : \A y \in S : z >= y
  BY <1>4
<1>6. M!Max(S) \in S /\ \A y \in S : M!Max(S) >= y
  BY <1>5 DEF M!Max
<1>7. PICK z : z = M!Max(S)
  OBVIOUS
<1>8. z \in S /\ \A y \in S : y <= z
  BY <1>6, <1>7
<1>9. S \ {z} \in SUBSET (1..k)
  BY <1>8
<1>10. QED
  BY <1>7, <1>8, <1>9

\* The parser stays one over any bytes: the fold takes them first to last.
LEMMA Folded ==
    ASSUME NEW base \in Parsers, NEW q \in Seq(0..255)
    PROVE  \E p \in [0..Len(q) -> Parsers] :
               /\ p[0] = base
               /\ \A k \in 1..Len(q) : p[k] = M!PROTO_ParseByte(p[k - 1], q[k])
               /\ M!FoldLeft(M!PROTO_ParseByte, base, q) = p[Len(q)]
<1> DEFINE n == Len(q)
           F(g, s) == IF s = {} THEN base
                      ELSE M!PROTO_ParseByte(g[s \ {M!Max(s)}], q[M!Max(s)])
           Upto(k, g) == /\ g \in [SUBSET (1..k) -> Parsers]
                         /\ \A s \in SUBSET (1..k) : g[s] = F(g, s)
           G == {k \in Nat : k <= n => \E g : Upto(k, g)}
<1>0. n \in Nat /\ DOMAIN q = 1..n /\ \A i \in 1..n : q[i] \in 0..255
  BY LenProperties, ElementOfSeq
<1>1. 0 \in G
  <2>1. Upto(0, [s \in SUBSET (1..0) |-> base])
    OBVIOUS
  <2>2. QED
    BY <2>1
<1>2. ASSUME NEW k \in G PROVE k + 1 \in G
  <2> HIDE DEF Upto
  <2> SUFFICES ASSUME k + 1 <= n PROVE \E g : Upto(k + 1, g)
    OBVIOUS
  <2>0. k \in Nat /\ k + 1 <= n
    OBVIOUS
  <2>1. k \in Nat /\ \E g : Upto(k, g)
    BY <1>0
  <2> HIDE DEF G
  <2> USE DEF Upto
  <2>2. PICK g : Upto(k, g)
    BY <2>1
  <2>3. PICK w : w = [s \in SUBSET (1..(k + 1)) |-> F(g, s)]
    OBVIOUS
  <2>4. ASSUME NEW s \in SUBSET (1..(k + 1)) PROVE F(g, s) \in Parsers
    <3>1. CASE s = {}
      BY <3>1
    <3>2. CASE s # {}
      <4>1. M!Max(s) \in s /\ s \ {M!Max(s)} \in SUBSET (1..k)
        BY <2>1, <3>2, Greatest
      <4>2. q[M!Max(s)] \in 0..255
        <5>1. \A i \in 1..(k + 1) : i \in 1..n
          BY <1>0, <2>0
        <5>2. QED
          BY <1>0, <4>1, <5>1, Zenon
      <4>3. g[s \ {M!Max(s)}] \in Parsers
        BY <2>2, <4>1
      <4>4. F(g, s) = M!PROTO_ParseByte(g[s \ {M!Max(s)}], q[M!Max(s)])
        BY <3>2
      <4>5. QED
        BY <4>2, <4>3, <4>4, ParsersStep, Zenon
    <3>3. QED
      BY <3>1, <3>2
  <2>5. w \in [SUBSET (1..(k + 1)) -> Parsers]
    BY <2>3, <2>4, Zenon
  <2>6. ASSUME NEW s \in SUBSET (1..k) PROVE w[s] = g[s]
    <3>1. s \in SUBSET (1..(k + 1))
      BY <2>1
    <3>2. w[s] = F(g, s)
      BY <2>3, <3>1, Zenon
    <3>3. QED
      BY <2>2, <3>2, Zenon
  <2>7. ASSUME NEW s \in SUBSET (1..(k + 1)) PROVE w[s] = F(w, s)
    <3>1. w[s] = F(g, s)
      BY <2>3, Zenon
    <3>2. CASE s = {}
      BY <3>1, <3>2, Zenon
    <3>3. CASE s # {}
      <4>1. s \ {M!Max(s)} \in SUBSET (1..k)
        BY <2>1, <3>3, Greatest
      <4>2. w[s \ {M!Max(s)}] = g[s \ {M!Max(s)}]
        BY <2>6, <4>1, Zenon
      <4>3. QED
        BY <3>1, <4>2, Zenon
    <3>4. QED
      BY <3>2, <3>3
  <2>8. QED
    BY <2>5, <2>7, Zenon
<1>3. \E g : Upto(n, g)
  <2>1. G \in SUBSET Nat
    OBVIOUS
  <2> HIDE DEF G
  <2>2. n \in G
    BY <1>0, <1>1, <1>2, <2>1, Counting, Zenon
  <2>3. n <= n
    BY <1>0
  <2> HIDE DEF Upto, n
  <2>4. QED
    BY <2>2, <2>3, Zenon DEF G
<1>4. \E g : g = [s \in SUBSET (1..n) |-> F(g, s)]
  <2>1. PICK g : Upto(n, g)
    BY <1>3
  <2>2. g = [s \in SUBSET (1..n) |-> F(g, s)]
    BY <2>1, Zenon
  <2>3. QED
    BY <2>2
<1>5. PICK h : h = CHOOSE g : g = [s \in SUBSET (1..n) |-> F(g, s)]
  OBVIOUS
<1>6. h = [s \in SUBSET (1..n) |-> F(h, s)]
  BY <1>4, <1>5, Zenon
<1>7. M!FoldLeft(M!PROTO_ParseByte, base, q) = h[1..n]
  BY <1>0, <1>5, Zenon DEF M!FoldLeft, M!MapThenFoldSet
<1> DEFINE Typed(k) == \A s \in SUBSET (1..k) : h[s] \in Parsers
           H == {k \in Nat : k <= n => Typed(k)}
<1>8. 0 \in H
  <2>1. \A s \in SUBSET (1..0) : s = {} /\ s \in SUBSET (1..n)
    OBVIOUS
  <2>2. h[{}] = base
    BY <1>6, Zenon
  <2>3. QED
    BY <2>1, <2>2
<1>9. ASSUME NEW k \in H PROVE k + 1 \in H
  <2> HIDE DEF Typed
  <2>0. k \in Nat /\ (k <= n => Typed(k))
    OBVIOUS
  <2> SUFFICES ASSUME k + 1 <= n PROVE Typed(k + 1)
    OBVIOUS
  <2> HIDE DEF H
  <2> USE DEF Typed
  <2> SUFFICES ASSUME NEW s \in SUBSET (1..(k + 1)) PROVE h[s] \in Parsers
    OBVIOUS
  <2>1. k \in Nat /\ s \in SUBSET (1..n) /\ Typed(k)
    BY <1>0, <2>0
  <2>2. h[s] = F(h, s)
    BY <1>6, <2>1, Zenon
  <2>3. CASE s = {}
    BY <2>2, <2>3
  <2>4. CASE s # {}
    <3>1. M!Max(s) \in s /\ s \ {M!Max(s)} \in SUBSET (1..k)
      BY <2>1, <2>4, Greatest
    <3>2. q[M!Max(s)] \in 0..255
      <4>1. M!Max(s) \in 1..n
        BY <1>0, <2>1, <3>1
      <4>2. QED
        BY <1>0, <4>1, Zenon
    <3>3. h[s \ {M!Max(s)}] \in Parsers
      BY <1>0, <2>1, <3>1
    <3>4. h[s] = M!PROTO_ParseByte(h[s \ {M!Max(s)}], q[M!Max(s)])
      BY <2>2, <2>4, Zenon
    <3>5. QED
      BY <3>2, <3>3, <3>4, ParsersStep, Zenon
  <2>5. QED
    BY <2>3, <2>4
<1>10. \A s \in SUBSET (1..n) : h[s] \in Parsers
  <2>1. H \in SUBSET Nat
    OBVIOUS
  <2> HIDE DEF H
  <2>2. n \in H
    BY <1>0, <1>8, <1>9, <2>1, Counting, Zenon
  <2>3. QED
    BY <1>0, <2>2 DEF H
<1> HIDE DEF n
<1>11. PICK p : p = [k \in 0..n |-> h[1..k]]
  OBVIOUS
<1>12. \A k \in 0..n : 1..k \in SUBSET (1..n) /\ p[k] = h[1..k]
  BY <1>0, <1>11
<1>13. p \in [0..n -> Parsers]
  <2>1. \A k \in 0..n : h[1..k] \in Parsers
    BY <1>10, <1>12
  <2>2. QED
    BY <1>11, <2>1, Zenon
<1>14. p[0] = base
  <2>1. 1..0 = {} /\ 0 \in 0..n
    BY <1>0
  <2>2. h[{}] = F(h, {})
    BY <1>6, <1>12, <2>1, Zenon
  <2>3. QED
    BY <1>12, <2>1, <2>2
<1>15. ASSUME NEW k \in 1..n PROVE p[k] = M!PROTO_ParseByte(p[k - 1], q[k])
  <2>1. k \in 0..n /\ k - 1 \in 0..n /\ 1..k # {} /\ k - 1 \in Nat
    <3>1. k \in 1..k
      <4>1. k \in Int /\ 1 <= k
        BY <1>0
      <4>2. QED
        BY <4>1
    <3>2. k \in 0..n /\ k - 1 \in 0..n /\ k - 1 \in Nat
      BY <1>0
    <3>3. QED
      BY <3>1, <3>2, Zenon
  <2>2. PICK z : z = M!Max(1..k)
    OBVIOUS
  <2>3. z = k
    <3>1. (k - 1) + 1 = k /\ 1..k \in SUBSET (1..k)
      BY <1>0
    <3>2. z \in 1..k /\ \A y \in 1..k : y <= z
      BY <2>1, <2>2, <3>1, Greatest
    <3>3. QED
      BY <3>2
  <2>4. (1..k) \ {k} = 1..(k - 1)
    BY <1>0
  <2>5. h[1..k] = F(h, 1..k)
    BY <1>6, <1>12, <2>1, Zenon
  <2>6. F(h, 1..k) = M!PROTO_ParseByte(h[(1..k) \ {k}], q[k])
    BY <2>1, <2>2, <2>3, Zenon
  <2>7. QED
    BY <1>12, <2>1, <2>4, <2>5, <2>6, Zenon
<1>16. p[n] = h[1..n]
  BY <1>0, <1>12
<1>17. QED
  BY <1>7, <1>13, <1>14, <1>15, <1>16, Zenon DEF n

\* A message that is taken from the ring fits the buffer it is parsed into.
LEMMA ParsedTyped ==
    ASSUME NEW r \in Seq(0..255), NEW garbage \in BOOLEAN
    PROVE  M!Parsed(r, garbage) \in Seq(0..255) /\ Len(M!Parsed(r, garbage)) <= BufSize
<1> DEFINE base == [data |-> <<>>, isEsc |-> FALSE, isBegin |-> garbage]
           q == SubSeq(r, 1, M!Consumed(r) - 1)
<1>1. base \in Parsers
  BY MessagesAssumption DEF Parsers, M!QueueAssumption
<1>2. M!Consumed(r) \in 0..Len(r)
  <2>1. CASE M!Ends(r) = {}
    BY <2>1 DEF M!Consumed
  <2>2. CASE M!Ends(r) # {}
    <3>1. M!Ends(r) \in SUBSET (1..Len(r)) /\ M!Ends(r) \in SUBSET Nat
      BY DEF M!Ends
    <3>2. M!Min(M!Ends(r)) \in 1..Len(r)
      BY <2>2, <3>1, Least
    <3>3. QED
      BY <2>2, <3>2 DEF M!Consumed
  <2>3. QED
    BY <2>1, <2>2
<1>3. q \in Seq(0..255)
  <2>1. /\ 1 \in Nat /\ 1 # 0
        /\ M!Consumed(r) - 1 \in Int /\ M!Consumed(r) - 1 <= Len(r)
    BY <1>2
  <2>2. QED
    BY <2>1, Cut, Zenon DEF Slices
<1>4. M!FoldLeft(M!PROTO_ParseByte, base, q) \in Parsers
  <2> HIDE DEF base, q
  <2>1. Len(q) \in 0..Len(q)
    BY <1>3
  <2>2. \E p \in [0..Len(q) -> Parsers] :
            M!FoldLeft(M!PROTO_ParseByte, base, q) = p[Len(q)]
    BY <1>1, <1>3, Folded, Zenon
  <2>3. QED
    BY <2>1, <2>2
<1>5. M!Parsed(r, garbage) = M!FoldLeft(M!PROTO_ParseByte, base, q).data
  BY Zenon DEF M!Parsed
<1>6. QED
  BY <1>4, <1>5 DEF Parsers

\* The first k bytes of m are read, and no escape is pending.
Reads(p, m, k) ==
    /\ p \in Parsers /\ p.isBegin /\ ~p.isEsc
    /\ Len(p.data) = k /\ \A j \in 1..k : p.data[j] = m[j]

\* A byte of the message is read back, whether it was escaped or not.
LEMMA PlainRead ==
    ASSUME NEW m \in Seq(0..255), Len(m) <= BufSize, NEW k \in Nat, k < Len(m),
           NEW p \in Parsers, p.isBegin, Len(p.data) = k, \A j \in 1..k : p.data[j] = m[j],
           NEW v \in 0..255, v \notin {M!Esc, M!Begin},
           m[k + 1] = IF p.isEsc THEN M!Flip(v) ELSE v
    PROVE  Reads(M!PROTO_ParseByte(p, v), m, k + 1)
<1>1. PICK d : d = Append(p.data, m[k + 1])
  OBVIOUS
<1>2. p.data \in Seq(0..255) /\ p \in [data : Seq(0..255), isEsc : BOOLEAN, isBegin : BOOLEAN]
  BY DEF Parsers
<1>3. m[k + 1] \in 0..255
  <2>1. k + 1 \in 1..Len(m)
    OBVIOUS
  <2>2. QED
    BY <2>1, ElementOfSeq
<1>4. d \in Seq(0..255) /\ Len(d) = k + 1 /\ \A j \in 1..(k + 1) : d[j] = m[j]
  <2>1. PICK u : u = m[k + 1]
    OBVIOUS
  <2>2. PICK w \in Seq(0..255) : w = p.data
    BY <1>2
  <2>3. d = Append(w, u) /\ u \in 0..255 /\ Len(w) = k /\ \A j \in 1..k : w[j] = m[j]
    BY <1>1, <1>3, <2>1, <2>2
  <2>4. Len(d) = k + 1 /\ d \in Seq(0..255) /\ d[k + 1] = u /\ \A j \in 1..k : d[j] = w[j]
    BY <2>3, AppendProperties
  <2>5. QED
    BY <2>1, <2>3, <2>4
<1>5. M!PROTO_ParseByte(p, v) = [p EXCEPT !.isEsc = FALSE, !.data = d]
  <2>1. Len(p.data) < BufSize
    BY MessagesAssumption DEF M!QueueAssumption
  <2>2. d = IF Len(p.data) < BufSize
            THEN Append(p.data, IF p.isEsc THEN M!Flip(v) ELSE v) ELSE p.data
    BY <1>1, <2>1, Zenon
  <2>3. QED
    BY <2>2 DEF M!PROTO_ParseByte
<1>6. PICK x : x = M!PROTO_ParseByte(p, v)
  OBVIOUS
<1>7. x.data = d /\ ~x.isEsc /\ x.isBegin
  BY <1>2, <1>5, <1>6
<1>8. x \in Parsers
  BY <1>6, ParsersStep
<1>9. QED
  BY <1>4, <1>6, <1>7, <1>8 DEF Reads

LEMMA EscapeRead ==
    ASSUME NEW m \in Seq(0..255), Len(m) <= BufSize, NEW k \in Nat, k < Len(m),
           NEW p \in Parsers, Reads(p, m, k),
           m[k + 1] \in {M!Esc, M!Begin, M!End}
    PROVE  Reads(M!PROTO_ParseByte(M!PROTO_ParseByte(p, M!Esc), M!Flip(m[k + 1])), m, k + 1)
<1>1. PICK x : x = M!PROTO_ParseByte(p, M!Esc)
  OBVIOUS
<1>2. x = [p EXCEPT !.isEsc = TRUE]
  BY <1>1 DEF M!PROTO_ParseByte, M!Esc, M!Begin
<1>3. p \in [data : Seq(0..255), isEsc : BOOLEAN, isBegin : BOOLEAN]
  BY DEF Parsers
<1>4. x.isEsc /\ x.isBegin = p.isBegin /\ x.data = p.data
  BY <1>2, <1>3
<1>5. x \in Parsers
  BY <1>1, ParsersStep DEF M!Esc
<1>6. PICK u : u = m[k + 1]
  OBVIOUS
<1>7. u \in {125, 126, 127}
  BY <1>6 DEF M!Esc, M!Begin, M!End
<1>8. M!Flip(u) \in 93..95 /\ M!Flip(M!Flip(u)) = u
  <2>1. M!Flip(125) = 93 /\ M!Flip(126) = 94 /\ M!Flip(127) = 95
    BY DEF M!Flip
  <2>2. M!Flip(93) = 125 /\ M!Flip(94) = 126 /\ M!Flip(95) = 127
    BY DEF M!Flip
  <2>3. QED
    BY <1>7, <2>1, <2>2
<1>9. /\ M!Flip(u) \in 0..255 /\ M!Flip(u) \notin {M!Esc, M!Begin}
      /\ m[k + 1] = IF x.isEsc THEN M!Flip(M!Flip(u)) ELSE M!Flip(u)
  BY <1>4, <1>6, <1>8 DEF M!Esc, M!Begin
<1>10. x.isBegin /\ Len(x.data) = k /\ \A j \in 1..k : x.data[j] = m[j]
  BY <1>4 DEF Reads
<1>11. Reads(M!PROTO_ParseByte(x, M!Flip(u)), m, k + 1)
  BY <1>5, <1>9, <1>10, PlainRead
<1>12. QED
  BY <1>1, <1>6, <1>11

\* What is put for the first bytes comes first in what is put for more.
LEMMA Prefixes ==
    ASSUME NEW m \in Seq(0..255), NEW parts, Grows(parts, m)
    PROVE  \A k \in 0..Len(m), i \in 0..Len(m) : i <= k =>
               /\ Len(parts[i]) <= Len(parts[k])
               /\ \A j \in 1..Len(parts[i]) : parts[k][j] = parts[i][j]
<1> DEFINE Before(i, k) == /\ Len(parts[i]) <= Len(parts[k])
                           /\ \A j \in 1..Len(parts[i]) : parts[k][j] = parts[i][j]
           G == {k \in Nat : k <= Len(m) => \A i \in 0..k : Before(i, k)}
<1>0. Len(m) \in Nat /\ \A k \in 0..Len(m) : parts[k] \in Seq(0..255) /\ Len(parts[k]) \in Nat
  BY DEF Grows, Clean
<1>1. 0 \in G
  BY <1>0
<1>2. ASSUME NEW k \in G PROVE k + 1 \in G
  <2> HIDE DEF Before
  <2>0. k \in Nat /\ (k <= Len(m) => \A i \in 0..k : Before(i, k))
    OBVIOUS
  <2> SUFFICES ASSUME k + 1 <= Len(m) PROVE \A i \in 0..(k + 1) : Before(i, k + 1)
    OBVIOUS
  <2> HIDE DEF G
  <2>1. k + 1 \in 1..Len(m) /\ k \in 0..Len(m) /\ (k + 1) - 1 = k /\ k + 1 \in 0..Len(m)
    BY <1>0, <2>0
  <2>2. PICK t : t = M!Encoded(m[k + 1])
    OBVIOUS
  <2>3. t \in Seq(0..255)
    <3>1. m[k + 1] \in 0..255
      BY <2>1, ElementOfSeq
    <3>2. QED
      BY <2>2, <3>1, EncodedClean DEF Clean
  <2>4. PICK u : u = parts[k]
    OBVIOUS
  <2>5. PICK w : w = u \o t
    OBVIOUS
  <2>6. w = parts[k + 1]
    BY <2>1, <2>2, <2>4, <2>5, Zenon DEF Grows
  <2>7. u \in Seq(0..255)
    BY <1>0, <2>1, <2>4
  <2>8. Len(w) = Len(u) + Len(t) /\ \A j \in 1..Len(u) : w[j] = u[j]
    BY <2>3, <2>5, <2>7
  <2>9. Len(u) \in Nat /\ Len(t) \in Nat
    BY <2>3, <2>7
  <2>10. ASSUME NEW i \in 0..(k + 1) PROVE Before(i, k + 1)
    <3>1. CASE i = k + 1
      BY <1>0, <2>1, <3>1 DEF Before
    <3>2. CASE i # k + 1
      <4>1. i \in 0..k
        BY <2>0, <3>2
      <4>2. Len(parts[i]) <= Len(u) /\ \A j \in 1..Len(parts[i]) : u[j] = parts[i][j]
        BY <2>0, <2>1, <2>4, <4>1 DEF Before
      <4>3. Len(parts[i]) \in Nat
        BY <1>0, <2>1, <4>1
      <4>4. \A j \in 1..Len(parts[i]) : w[j] = parts[i][j]
        BY <2>8, <2>9, <4>2, <4>3
      <4>5. Len(parts[i]) <= Len(w)
        BY <2>8, <2>9, <4>2, <4>3
      <4>6. QED
        BY <2>6, <4>4, <4>5, Zenon DEF Before
    <3>3. QED
      BY <3>1, <3>2
  <2>11. QED
    BY <2>10
<1>3. \A k \in Nat : k \in G
  <2>1. G \in SUBSET Nat
    OBVIOUS
  <2> HIDE DEF G
  <2>2. QED
    BY <1>1, <1>2, <2>1, Counting, Zenon
<1>4. ASSUME NEW k \in 0..Len(m), NEW i \in 0..Len(m), i <= k PROVE Before(i, k)
  <2>1. k \in Nat /\ k <= Len(m) /\ i \in 0..k
    BY <1>0, <1>4
  <2> HIDE DEF Before
  <2>2. k \in G
    BY <1>3, <2>1
  <2>3. QED
    BY <2>1, <2>2
<1>5. QED
  BY <1>4, Zenon
\* A frame begins at place s of q, and t is what follows.
EndsWith(q, s, t) ==
    /\ q \in Seq(0..255) /\ s \in 1..Len(q)
    /\ q[s] = M!Begin /\ Len(q) = s + Len(t)
    /\ \A i \in 1..Len(t) : q[s + i] = t[i]

\* The message is read back from its frame, whatever is before the frame.
LEMMA ReadBack ==
    ASSUME NEW m \in Seq(0..255), Len(m) <= BufSize, NEW parts, Grows(parts, m),
           NEW q, NEW s, EndsWith(q, s, parts[Len(m)]), NEW base \in Parsers
    PROVE  M!FoldLeft(M!PROTO_ParseByte, base, q).data = m
<1>a. /\ q \in Seq(0..255) /\ s \in 1..Len(q) /\ q[s] = M!Begin
      /\ Len(q) = s + Len(parts[Len(m)])
  BY DEF EndsWith
<1>b. \A i \in 1..Len(parts[Len(m)]) : q[s + i] = parts[Len(m)][i]
  BY DEF EndsWith
<1>0. /\ Len(m) \in Nat /\ s \in Nat /\ s >= 1 /\ s <= Len(q) /\ Len(q) \in Nat
      /\ \A k \in 0..Len(m) : parts[k] \in Seq(0..255) /\ Len(parts[k]) \in Nat
  BY <1>a DEF Grows, Clean
<1>1. PICK p \in [0..Len(q) -> Parsers] :
          /\ p[0] = base
          /\ \A k \in 1..Len(q) : p[k] = M!PROTO_ParseByte(p[k - 1], q[k])
          /\ M!FoldLeft(M!PROTO_ParseByte, base, q) = p[Len(q)]
  BY <1>a, Folded, Zenon
<1> DEFINE At(k) == s + Len(parts[k])
           G == {k \in Nat : k <= Len(m) => Reads(p[At(k)], m, k)}
<1>2. 0 \in G
  <2>1. Len(parts[0]) = 0
    BY DEF Grows
  <2>2. At(0) = s
    BY <1>0, <2>1
  <2>3. p[s] = M!PROTO_ParseByte(p[s - 1], q[s]) /\ p[s] \in Parsers
    <3>1. s \in 1..Len(q) /\ s \in 0..Len(q)
      BY <1>0
    <3>2. QED
      BY <1>1, <3>1, Zenon
  <2>4. p[s] = [data |-> <<>>, isEsc |-> FALSE, isBegin |-> TRUE]
    BY <1>a, <2>3 DEF M!PROTO_ParseByte, M!Begin, M!Esc
  <2>5. Reads(p[s], m, 0)
    BY <2>3, <2>4 DEF Reads
  <2>6. QED
    BY <2>2, <2>5
<1>3. ASSUME NEW k \in G PROVE k + 1 \in G
  <2>0. k \in Nat /\ (k <= Len(m) => Reads(p[At(k)], m, k))
    OBVIOUS
  <2> SUFFICES ASSUME k + 1 <= Len(m) PROVE Reads(p[At(k + 1)], m, k + 1)
    OBVIOUS
  <2> HIDE DEF G
  <2>1. /\ k + 1 \in 1..Len(m) /\ k \in 0..Len(m) /\ (k + 1) - 1 = k /\ k + 1 \in 0..Len(m)
        /\ Len(m) \in 0..Len(m) /\ k < Len(m)
    BY <1>0, <2>0
  <2>2. PICK v : v = m[k + 1]
    OBVIOUS
  <2>3. v \in 0..255
    BY <2>1, <2>2, ElementOfSeq
  <2>4. PICK t : t = M!Encoded(v)
    OBVIOUS
  <2>5. t \in Seq(0..255)
    BY <2>3, <2>4, EncodedClean DEF Clean
  <2>6. PICK u \in Seq(0..255) : u = parts[k]
    BY <1>0, <2>1
  <2>7. PICK w : w = u \o t
    OBVIOUS
  <2>8. w = parts[k + 1]
    BY <2>1, <2>2, <2>4, <2>6, <2>7, Zenon DEF Grows
  <2>9. /\ Len(w) = Len(u) + Len(t) /\ Len(u) \in Nat /\ Len(t) \in Nat
        /\ \A j \in 1..Len(t) : w[Len(u) + j] = t[j]
    BY <2>5, <2>6, <2>7
  <2>10. /\ Len(w) <= Len(parts[Len(m)])
         /\ \A j \in 1..Len(w) : parts[Len(m)][j] = w[j]
    <3>1. \A l \in 0..Len(m), i \in 0..Len(m) : i <= l =>
              /\ Len(parts[i]) <= Len(parts[l])
              /\ \A j \in 1..Len(parts[i]) : parts[l][j] = parts[i][j]
      BY Prefixes
    <3>2. /\ Len(parts[k + 1]) <= Len(parts[Len(m)])
          /\ \A j \in 1..Len(parts[k + 1]) : parts[Len(m)][j] = parts[k + 1][j]
      BY <2>1, <3>1, Zenon
    <3>3. QED
      BY <2>8, <3>2, Zenon
  <2>11. ASSUME NEW j \in 1..Len(t)
         PROVE  /\ (s + Len(u)) + j \in 1..Len(q)
                /\ q[(s + Len(u)) + j] = t[j]
    <3>1. PICK l : l = Len(u) + j
      OBVIOUS
    <3>2. PICK z : z = Len(parts[Len(m)])
      OBVIOUS
    <3>3. z \in Nat /\ Len(q) = s + z /\ Len(w) <= z
      BY <1>0, <1>a, <2>1, <2>10, <3>2
    <3>4. l \in 1..Len(w) /\ l \in 1..z /\ s + l = (s + Len(u)) + j /\ s + l \in 1..Len(q)
      BY <1>0, <2>9, <3>1, <3>3
    <3>5. q[s + l] = parts[Len(m)][l]
      BY <1>b, <3>2, <3>4, Zenon
    <3>6. parts[Len(m)][l] = w[l]
      BY <2>10, <3>4, Zenon
    <3>7. w[l] = t[j]
      BY <2>9, <3>1
    <3>8. QED
      BY <3>4, <3>5, <3>6, <3>7
  <2>12. PICK x : x = s + Len(u)
    OBVIOUS
  <2>13. x \in Nat /\ x = At(k) /\ At(k + 1) = x + Len(t)
    BY <1>0, <2>6, <2>8, <2>9, <2>12
  <2>14. ASSUME NEW j \in 1..Len(t)
         PROVE  p[x + j] = M!PROTO_ParseByte(p[(x + j) - 1], t[j])
    BY <1>1, <2>11, <2>12
  <2>15. Reads(p[x], m, k) /\ p[x] \in Parsers
    BY <2>0, <2>1, <2>13 DEF Reads
  <2> HIDE DEF At
  <2>16. CASE v \in {M!Esc, M!Begin, M!End}
    <3>1. Len(t) = 2 /\ t[1] = M!Esc /\ t[2] = M!Flip(v)
      BY <2>4, <2>16 DEF M!Encoded
    <3>2. p[x + 1] = M!PROTO_ParseByte(p[x], M!Esc)
      BY <2>13, <2>14, <3>1
    <3>3. p[x + 2] = M!PROTO_ParseByte(p[x + 1], M!Flip(v))
      BY <2>13, <2>14, <3>1
    <3>4. Reads(p[x + 2], m, k + 1)
      BY <2>0, <2>1, <2>2, <2>15, <2>16, <3>2, <3>3, EscapeRead
    <3>5. QED
      BY <2>13, <3>1, <3>4
  <2>17. CASE v \notin {M!Esc, M!Begin, M!End}
    <3>1. Len(t) = 1 /\ t[1] = v
      BY <2>4, <2>17 DEF M!Encoded
    <3>2. p[x + 1] = M!PROTO_ParseByte(p[x], v)
      BY <2>13, <2>14, <3>1
    <3>3. /\ p[x].isBegin /\ Len(p[x].data) = k /\ \A j \in 1..k : p[x].data[j] = m[j]
          /\ m[k + 1] = IF p[x].isEsc THEN M!Flip(v) ELSE v
      BY <2>2, <2>15, Zenon DEF Reads
    <3>4. v \notin {M!Esc, M!Begin}
      BY <2>17
    <3>5. Reads(M!PROTO_ParseByte(p[x], v), m, k + 1)
      BY <2>0, <2>1, <2>3, <2>15, <3>3, <3>4, PlainRead, Zenon
    <3>6. QED
      BY <2>13, <3>1, <3>2, <3>5
  <2>18. QED
    BY <2>16, <2>17
<1>4. Reads(p[Len(q)], m, Len(m))
  <2>1. G \in SUBSET Nat /\ At(Len(m)) = Len(q)
    BY <1>a
  <2> HIDE DEF G
  <2>2. Len(m) \in G
    BY <1>0, <1>2, <1>3, <2>1, Counting, Zenon
  <2>3. Len(m) <= Len(m)
    BY <1>0
  <2> HIDE DEF At
  <2>4. QED
    BY <2>1, <2>2, <2>3 DEF G
<1>5. p[Len(q)].data = m
  <2>1. PICK d : d = p[Len(q)].data
    OBVIOUS
  <2>2. d \in Seq(0..255) /\ Len(d) = Len(m) /\ \A j \in 1..Len(m) : d[j] = m[j]
    BY <1>4, <2>1 DEF Reads, Parsers
  <2>3. QED
    BY <2>1, <2>2, SeqEqual
<1>6. QED
  BY <1>1, <1>5

\* What is taken from the ring is the message of the first frame that ends.
LEMMA Taken ==
    ASSUME NEW r \in Seq(0..255), NEW m \in Seq(0..255), Len(m) <= BufSize,
           M!Ends(r) # {}, NEW s \in 1..M!Consumed(r),
           Spans(M!Frame(m), r, s, M!Consumed(r)), NEW garbage \in BOOLEAN
    PROVE  M!Parsed(r, garbage) = m
<1>1. PICK parts : Grows(parts, m) /\ Body(m) = parts[Len(m)]
  BY BodyGrows
<1>2. PICK t : t = parts[Len(m)]
  OBVIOUS
<1>3. PICK f : f = M!Frame(m)
  OBVIOUS
<1>4. Framed(f) /\ Around(f, t)
  BY <1>1, <1>2, <1>3, FrameEndsOnce
<1>5. t \in Seq(0..255)
  <2>1. Len(m) \in 0..Len(m)
    OBVIOUS
  <2>2. QED
    BY <1>1, <1>2, <2>1 DEF Grows, Clean
<1>6. PICK c : c = M!Consumed(r)
  OBVIOUS
<1>7. c \in M!Ends(r) /\ c \in 1..Len(r)
  <2>1. M!Ends(r) \in SUBSET Nat /\ M!Ends(r) \in SUBSET (1..Len(r))
    BY DEF M!Ends
  <2>2. c \in M!Ends(r)
    BY <1>6, <2>1, Least DEF M!Consumed
  <2>3. QED
    BY <2>1, <2>2
<1>8. /\ Len(t) \in Nat /\ s \in Nat /\ s >= 1 /\ c = (s + Len(t)) + 1
      /\ \A i \in 1..(Len(t) + 2) : f[i] = r[(s + i) - 1]
  <2>1. Len(f) = (c - s) + 1 /\ \A i \in 1..Len(f) : f[i] = r[(s + i) - 1]
    BY <1>3, <1>6, Zenon DEF Spans
  <2>2. s \in 1..c /\ Len(f) = Len(t) + 2 /\ Len(t) \in Nat
    BY <1>4, <1>5, <1>6 DEF Around
  <2>3. s \in Nat /\ s >= 1 /\ c = (s + Len(t)) + 1
    BY <1>7, <2>1, <2>2
  <2>4. QED
    BY <2>1, <2>2, <2>3, Zenon
<1>9. PICK q : q = SubSeq(r, 1, c - 1)
  OBVIOUS
<1>10. q \in Seq(0..255) /\ Len(q) = c - 1 /\ \A i \in 1..(c - 1) : q[i] = r[i]
  <2>1. 1 \in Nat /\ 1 # 0 /\ c - 1 \in Int /\ c - 1 <= Len(r)
    BY <1>7
  <2>2. Slices(q, r, 1, c - 1)
    BY <1>9, <2>1, Cut, Zenon
  <2>3. QED
    BY <1>7, <2>2 DEF Slices
<1>11. s \in 1..Len(q) /\ Len(q) = s + Len(t)
  BY <1>8, <1>10
<1>12. q[s] = M!Begin
  <2>1. s \in 1..(c - 1) /\ (s + 1) - 1 = s /\ 1 \in 1..(Len(t) + 2)
    BY <1>8
  <2>2. QED
    BY <1>4, <1>8, <1>10, <2>1 DEF Framed
<1>13. ASSUME NEW i \in 1..Len(t) PROVE q[s + i] = t[i]
  <2>1. s + i \in 1..(c - 1) /\ (s + (i + 1)) - 1 = s + i /\ i + 1 \in 1..(Len(t) + 2)
    BY <1>8
  <2>2. f[i + 1] = t[i]
    BY <1>4 DEF Around
  <2>3. QED
    BY <1>8, <1>10, <2>1, <2>2
<1> DEFINE base == [data |-> <<>>, isEsc |-> FALSE, isBegin |-> garbage]
<1>14. base \in Parsers
  BY MessagesAssumption DEF Parsers, M!QueueAssumption
<1>15. M!Parsed(r, garbage) = M!FoldLeft(M!PROTO_ParseByte, base, q).data
  BY <1>6, <1>9, Zenon DEF M!Parsed
<1> HIDE DEF base
<1>16. EndsWith(q, s, parts[Len(m)])
  <2>1. EndsWith(q, s, t)
    BY <1>10, <1>11, <1>12, <1>13, Zenon DEF EndsWith
  <2>2. QED
    BY <1>2, <2>1, Zenon
<1>17. M!FoldLeft(M!PROTO_ParseByte, base, q).data = m
  BY <1>1, <1>14, <1>16, ReadBack, Zenon
<1>18. QED
  BY <1>15, <1>17

\* Different messages have different frames.
LEMMA OneMessage ==
    ASSUME NEW m \in Messages, NEW n \in Messages, M!Frame(m) = M!Frame(n)
    PROVE  m = n
<1>1. PICK f : f = M!Frame(m)
  OBVIOUS
<1>2. f \in Seq(0..255) /\ Framed(f)
  BY <1>1, Frames DEF Framed
<1>3. M!Ends(f) = {Len(f)}
  BY <1>2 DEF Framed, M!Ends
<1>4. M!Consumed(f) = Len(f)
  <2>1. M!Min({Len(f)}) = Len(f)
    BY <1>2 DEF M!Min
  <2>2. QED
    BY <1>3, <2>1 DEF M!Consumed
<1>5. Spans(f, f, 1, Len(f)) /\ 1 \in 1..Len(f)
  BY <1>2 DEF Spans, Framed
<1>6. ASSUME NEW k \in Messages, M!Frame(k) = f PROVE M!Parsed(f, TRUE) = k
  <2>1. /\ M!Ends(f) # {} /\ 1 \in 1..M!Consumed(f)
        /\ Spans(M!Frame(k), f, 1, M!Consumed(f)) /\ TRUE \in BOOLEAN
    BY <1>3, <1>4, <1>5, <1>6
  <2>2. k \in Seq(0..255) /\ Len(k) <= BufSize
    BY Frames
  <2>3. QED
    BY <1>2, <2>1, <2>2, Taken, Zenon
<1>7. QED
  BY <1>1, <1>6
\* The frames that end in r are those of ms, in this order; e are their ends.
Lists(ms, e, r) ==
    /\ ms \in Seq(Messages) /\ e \in [1..Len(ms) -> 1..Len(r)]
    /\ \A i \in 1..Len(ms) :
           /\ r[e[i]] = M!End
           /\ \E s \in 1..e[i] : Spans(M!Frame(ms[i]), r, s, e[i])
    /\ \A i \in 1..Len(ms), j \in 1..Len(ms) : i < j => e[i] < e[j]
    /\ \A k \in 1..Len(r) : r[k] = M!End => \E i \in 1..Len(ms) : e[i] = k

Listed(ms, r) == \E e : Lists(ms, e, r)

\* A set that is numbered in its order has as many elements as the numbers.
LEMMA Numbered ==
    ASSUME NEW n \in Nat, NEW e, \A i \in 1..n : e[i] \in Nat,
           \A i \in 1..n, j \in 1..n : i < j => e[i] < e[j]
    PROVE  Cardinality({e[i] : i \in 1..n}) = n
<1>1. PICK S : S = {e[i] : i \in 1..n}
  OBVIOUS
<1>2. PICK f : f = [i \in 1..n |-> e[i]]
  OBVIOUS
<1>3. f \in [1..n -> S] /\ \A i \in 1..n : f[i] = e[i]
  BY <1>1, <1>2
<1>4. ASSUME NEW i \in 1..n, NEW j \in 1..n, f[i] = f[j] PROVE i = j
  <2>1. e[i] = e[j] /\ e[i] \in Nat /\ e[j] \in Nat
    BY <1>3, <1>4, Zenon
  <2>2. i \in Nat /\ j \in Nat
    OBVIOUS
  <2>3. CASE i < j
    <3>1. e[i] < e[j]
      BY <2>3, Zenon
    <3>2. QED
      BY <2>1, <3>1
  <2>4. CASE j < i
    <3>1. e[j] < e[i]
      BY <2>4, Zenon
    <3>2. QED
      BY <2>1, <3>1
  <2>5. QED
    BY <2>2, <2>3, <2>4
<1>5. f \in Injection(1..n, S)
  BY <1>3, <1>4, Zenon DEF Injection, IsInjective
<1>6. \A t \in S : \E i \in 1..n : f[i] = t
  BY <1>1, <1>3
<1>7. f \in Surjection(1..n, S)
  BY <1>3, <1>6, Zenon DEF Surjection
<1>8. ExistsBijection(1..n, S)
  BY <1>5, <1>7, Zenon DEF ExistsBijection, Bijection
<1>9. QED
  BY <1>1, <1>8, FS_CountingElements, Zenon

\* MsgQueue counts as this module does.
LEMMA SameCount == \A S : M!Cardinality(S) = Cardinality(S)
  BY Zenon DEF M!Cardinality, Cardinality

\* The message that ends at k is the one whose frame does.
LEMMA WholeIs ==
    ASSUME NEW r \in Seq(0..255), NEW k \in 1..Len(r), NEW m \in Messages,
           NEW s \in 1..k, Spans(M!Frame(m), r, s, k)
    PROVE  M!Whole(r, k) = m
<1>1. PICK f : f = M!Frame(m)
  OBVIOUS
<1>2. /\ Framed(f) /\ Len(f) = (k - s) + 1 /\ Len(f) \in Nat
      /\ \A i \in 1..Len(f) : f[i] = r[(s + i) - 1]
  <2>1. Framed(f)
    BY <1>1, Frames
  <2>2. Len(f) = (k - s) + 1 /\ \A i \in 1..Len(f) : f[i] = r[(s + i) - 1]
    BY <1>1, Zenon DEF Spans
  <2>3. Len(f) \in Nat
    BY <2>1 DEF Framed
  <2>4. QED
    BY <2>1, <2>2, <2>3, Zenon
<1>3. r[s] = M!Begin
  <2>1. 1 \in 1..Len(f) /\ (s + 1) - 1 = s
    BY <1>2 DEF Framed
  <2>2. QED
    BY <1>2, <2>1 DEF Framed
<1>4. ASSUME NEW i \in (s + 1)..k PROVE r[i] # M!Begin
  <2>1. (i - s) + 1 \in 1..Len(f) /\ (i - s) + 1 # 1 /\ (s + ((i - s) + 1)) - 1 = i
    BY <1>2
  <2>2. QED
    BY <1>2, <2>1 DEF Framed
<1>5. PICK t : t = M!Start(r, k)
  OBVIOUS
<1>6. t \in 1..k /\ r[t] = M!Begin /\ \A i \in (t + 1)..k : r[i] # M!Begin
  BY <1>3, <1>4, <1>5 DEF M!Start
<1>7. t = s
  <2>1. CASE t < s
    <3>1. s \in (t + 1)..k
      BY <1>6, <2>1
    <3>2. QED
      BY <1>3, <1>6, <3>1
  <2>2. CASE s < t
    <3>1. t \in (s + 1)..k
      BY <1>6, <2>2
    <3>2. QED
      BY <1>4, <1>6, <3>1
  <2>3. QED
    BY <1>6, <2>1, <2>2
<1>8. f = SubSeq(r, s, k)
  BY <1>1, Frames, SpansSubSeq DEF Framed
<1>9. PICK n : n = M!Whole(r, k)
  OBVIOUS
<1>10. n = CHOOSE l \in Messages : M!Frame(l) = SubSeq(r, s, k)
  BY <1>5, <1>7, <1>9, Zenon DEF M!Whole
<1>11. n \in Messages /\ M!Frame(n) = M!Frame(m)
  BY <1>1, <1>8, <1>10
<1>12. QED
  BY <1>9, <1>11, OneMessage

\* The queue that the ring stands for is the list of its messages.
LEMMA QueuedIs ==
    ASSUME NEW r \in Seq(0..255), NEW ms, Listed(ms, r)
    PROVE  M!Queued(r) = ms
<1>1. PICK e : Lists(ms, e, r)
  BY DEF Listed
<1>2. PICK n : n = Len(ms)
  OBVIOUS
<1>3. /\ n \in Nat /\ ms \in Seq(Messages) /\ \A i \in 1..n : ms[i] \in Messages
      /\ \A i \in 1..n : e[i] \in 1..Len(r)
      /\ \A i \in 1..n, j \in 1..n : i < j => e[i] < e[j]
  <2>1. /\ n \in Nat /\ ms \in Seq(Messages) /\ e \in [1..n -> 1..Len(r)]
        /\ \A i \in 1..n, j \in 1..n : i < j => e[i] < e[j]
    BY <1>1, <1>2 DEF Lists
  <2>2. \A i \in 1..n : ms[i] \in Messages
    BY <1>2, <2>1, ElementOfSeq
  <2>3. \A i \in 1..n : e[i] \in 1..Len(r)
    BY <2>1
  <2>4. QED
    BY <2>1, <2>2, <2>3, Zenon
<1>4. M!Ends(r) = {e[i] : i \in 1..n}
  <2>1. \A k : k \in M!Ends(r) <=> k \in 1..Len(r) /\ r[k] = M!End
    BY DEF M!Ends
  <2>2. /\ \A k \in 1..Len(r) : r[k] = M!End => \E i \in 1..n : e[i] = k
        /\ \A i \in 1..n : r[e[i]] = M!End
    BY <1>1, <1>2, Zenon DEF Lists
  <2>3. \A k \in M!Ends(r) : \E i \in 1..n : e[i] = k
    BY <2>1, <2>2, Zenon
  <2>4. \A i \in 1..n : e[i] \in M!Ends(r)
    BY <1>3, <2>1, <2>2, Zenon
  <2>5. QED
    BY <2>3, <2>4
<1>5. \A i \in 1..n : e[i] \in Nat
  BY <1>3
<1>6. Cardinality(M!Ends(r)) = n
  <2>1. Cardinality({e[i] : i \in 1..n}) = n
    BY <1>3, <1>5, Numbered, Zenon
  <2>2. QED
    BY <1>4, <2>1
<1>7. ASSUME NEW i \in 1..n
      PROVE  Cardinality({j \in M!Ends(r) : j <= e[i]}) = i
  <2>1. \A j \in 1..n : e[j] <= e[i] <=> j <= i
    <3> TAKE j \in 1..n
    <3>1. CASE j < i
      BY <1>3, <1>5, <3>1
    <3>2. CASE i < j
      BY <1>3, <1>5, <3>2
    <3>3. CASE i = j
      BY <1>5, <3>3
    <3>4. QED
      BY <1>3, <3>1, <3>2, <3>3
  <2>2. i \in Nat /\ \A j \in 1..i : j \in 1..n
    BY <1>3
  <2>3. {j \in M!Ends(r) : j <= e[i]} = {e[j] : j \in 1..i}
    <3>1. ASSUME NEW k \in M!Ends(r), k <= e[i] PROVE k \in {e[j] : j \in 1..i}
      <4>1. PICK j \in 1..n : k = e[j]
        BY <1>4
      <4>2. j <= i
        BY <2>1, <3>1, <4>1
      <4>3. j \in 1..i
        BY <2>2, <4>2
      <4>4. QED
        BY <4>1, <4>3
    <3>2. ASSUME NEW j \in 1..i PROVE e[j] \in M!Ends(r) /\ e[j] <= e[i]
      BY <1>4, <2>1, <2>2
    <3>3. QED
      BY <3>1, <3>2
  <2>4. \A j \in 1..i : e[j] \in Nat
    BY <1>5, <2>2
  <2>5. \A j \in 1..i, l \in 1..i : j < l => e[j] < e[l]
    BY <1>3, <2>2
  <2>6. Cardinality({e[j] : j \in 1..i}) = i
    BY <2>2, <2>4, <2>5, Numbered, Zenon
  <2>7. QED
    BY <2>3, <2>6
<1>8. ASSUME NEW i \in 1..n PROVE M!EndOf(r, i) = e[i]
  <2>1. PICK k : k = M!EndOf(r, i)
    OBVIOUS
  <2>2. k \in M!Ends(r) /\ Cardinality({j \in M!Ends(r) : j <= k}) = i
    <3>1. e[i] \in M!Ends(r) /\ Cardinality({j \in M!Ends(r) : j <= e[i]}) = i
      BY <1>4, <1>7
    <3>2. \E l \in M!Ends(r) : M!Cardinality({j \in M!Ends(r) : j <= l}) = i
      BY <3>1, SameCount, Zenon
    <3>3. k \in M!Ends(r) /\ M!Cardinality({j \in M!Ends(r) : j <= k}) = i
      BY <2>1, <3>2, Zenon DEF M!EndOf
    <3>4. QED
      BY <3>3, SameCount, Zenon
  <2>3. PICK l \in 1..n : k = e[l]
    BY <1>4, <2>2
  <2>4. l = i
    BY <1>7, <2>2, <2>3, Zenon
  <2>5. QED
    BY <2>1, <2>3, <2>4
<1>9. ASSUME NEW i \in 1..n PROVE M!Whole(r, e[i]) = ms[i]
  <2>1. PICK s \in 1..e[i] : Spans(M!Frame(ms[i]), r, s, e[i])
    BY <1>1, <1>2 DEF Lists
  <2>2. QED
    BY <1>3, <2>1, WholeIs, Zenon
<1>10. PICK q : q = M!Queued(r)
  OBVIOUS
<1>11. q = [i \in 1..n |-> M!Whole(r, M!EndOf(r, i))]
  <2>1. q = [i \in 1..M!Cardinality(M!Ends(r)) |-> M!Whole(r, M!EndOf(r, i))]
    BY <1>10 DEF M!Queued
  <2>2. M!Cardinality(M!Ends(r)) = n
    BY <1>6, SameCount, Zenon
  <2>3. QED
    BY <2>1, <2>2
<1>12. q = [i \in 1..n |-> ms[i]]
  <2>1. \A i \in 1..n : M!Whole(r, M!EndOf(r, i)) = ms[i]
    BY <1>8, <1>9, Zenon
  <2>2. QED
    BY <1>11, <2>1, Zenon
<1>13. QED
  BY <1>2, <1>3, <1>10, <1>12

\* Bytes with no end in them change nothing, a frame comes last.
LEMMA Behind ==
    ASSUME NEW r \in Seq(0..255), NEW t \in Seq(0..255), NEW ms, NEW e, Lists(ms, e, r),
           NEW w, w = r \o t
    PROVE  /\ (\A i \in 1..Len(t) : t[i] # M!End) => Listed(ms, w)
           /\ \A m \in Messages : t = M!Frame(m) => Listed(Append(ms, m), w)
<1>1. /\ w \in Seq(0..255) /\ Len(w) = Len(r) + Len(t)
      /\ \A i \in 1..Len(r) : w[i] = r[i]
      /\ \A i \in 1..Len(t) : w[Len(r) + i] = t[i]
      /\ Len(r) \in Nat /\ Len(t) \in Nat
  OBVIOUS
<1>2. PICK n : n = Len(ms)
  OBVIOUS
<1>3. /\ n \in Nat /\ ms \in Seq(Messages) /\ \A i \in 1..n : ms[i] \in Messages
      /\ e \in [1..n -> 1..Len(r)] /\ \A i \in 1..n : e[i] \in 1..Len(r) /\ e[i] \in 1..Len(w)
      /\ \A i \in 1..n, j \in 1..n : i < j => e[i] < e[j]
      /\ \A k \in 1..Len(r) : r[k] = M!End => \E i \in 1..n : e[i] = k
  <2>1. /\ n \in Nat /\ ms \in Seq(Messages) /\ e \in [1..n -> 1..Len(r)]
        /\ \A i \in 1..n, j \in 1..n : i < j => e[i] < e[j]
        /\ \A k \in 1..Len(r) : r[k] = M!End => \E i \in 1..n : e[i] = k
    BY <1>2 DEF Lists
  <2>2. \A i \in 1..n : ms[i] \in Messages
    BY <1>2, <2>1, ElementOfSeq
  <2>3. \A i \in 1..n : e[i] \in 1..Len(r)
    BY <2>1
  <2>4. \A k \in 1..Len(r) : k \in 1..Len(w)
    BY <1>1
  <2>5. QED
    BY <2>1, <2>2, <2>3, <2>4, Zenon
<1>4. ASSUME NEW i \in 1..n
      PROVE  w[e[i]] = M!End /\ \E s \in 1..e[i] : Spans(M!Frame(ms[i]), w, s, e[i])
  <2>1. r[e[i]] = M!End
    BY <1>2 DEF Lists
  <2>2. PICK s \in 1..e[i] : Spans(M!Frame(ms[i]), r, s, e[i])
    BY <1>2 DEF Lists
  <2>3. PICK f : f = M!Frame(ms[i])
    OBVIOUS
  <2>4. PICK k \in 1..Len(r) : k = e[i]
    BY <1>3
  <2>5. Len(f) = (k - s) + 1 /\ \A j \in 1..Len(f) : f[j] = r[(s + j) - 1]
    BY <2>2, <2>3, <2>4, Zenon DEF Spans
  <2>6. \A j \in 1..Len(f) : (s + j) - 1 \in 1..Len(r)
    BY <2>4, <2>5
  <2>7. \A j \in 1..Len(f) : f[j] = w[(s + j) - 1]
    BY <1>1, <2>5, <2>6, Zenon
  <2>8. Spans(f, w, s, k)
    BY <2>5, <2>7, Zenon DEF Spans
  <2>9. QED
    BY <1>1, <2>1, <2>3, <2>4, <2>8, Zenon
<1>5. ASSUME \A i \in 1..Len(t) : t[i] # M!End PROVE Listed(ms, w)
  <2>1. ASSUME NEW k \in 1..Len(w), w[k] = M!End PROVE \E i \in 1..n : e[i] = k
    <3>1. CASE k <= Len(r)
      BY <1>1, <1>3, <2>1, <3>1
    <3>2. CASE ~(k <= Len(r))
      <4>1. k - Len(r) \in 1..Len(t) /\ Len(r) + (k - Len(r)) = k
        BY <1>1, <3>2
      <4>2. w[k] = t[k - Len(r)]
        BY <1>1, <4>1
      <4>3. QED
        BY <1>5, <2>1, <4>1, <4>2
    <3>3. QED
      BY <3>1, <3>2
  <2>2. e \in [1..n -> 1..Len(w)]
    BY <1>3
  <2>3. Lists(ms, e, w)
    BY <1>2, <1>3, <1>4, <2>1, <2>2, Zenon DEF Lists
  <2>4. QED
    BY <2>3 DEF Listed
<1>6. ASSUME NEW m \in Messages, t = M!Frame(m) PROVE Listed(Append(ms, m), w)
  <2>1. PICK q : q = Append(ms, m)
    OBVIOUS
  <2>2. /\ q \in Seq(Messages) /\ Len(q) = n + 1 /\ q[n + 1] = m
        /\ \A i \in 1..n : q[i] = ms[i]
    BY <1>2, <1>3, <2>1, AppendProperties
  <2>3. PICK z : z = Len(w)
    OBVIOUS
  <2>4. Framed(t) /\ Len(t) >= 2
    BY <1>6, Frames DEF Framed
  <2>5. PICK g : g = [i \in 1..(n + 1) |-> IF i <= n THEN e[i] ELSE z]
    OBVIOUS
  <2>6. \A i \in 1..(n + 1) : (i \in 1..n /\ i <= n) \/ (i = n + 1 /\ ~(i <= n))
    BY <1>3
  <2>7. /\ n + 1 \in 1..(n + 1) /\ ~(n + 1 <= n)
        /\ \A i \in 1..n : i \in 1..(n + 1) /\ i <= n
    BY <1>3
  <2>8. (\A i \in 1..n : g[i] = e[i]) /\ g[n + 1] = z
    BY <2>5, <2>6, <2>7, Zenon
  <2>9. z \in 1..z /\ z \in Nat /\ \A i \in 1..n : e[i] < z
    BY <1>1, <1>3, <2>3, <2>4
  <2>10. g \in [1..(n + 1) -> 1..z]
    <3>1. \A i \in 1..(n + 1) : g[i] \in 1..z
      BY <1>3, <2>3, <2>6, <2>8, <2>9, Zenon
    <3>2. QED
      BY <2>5, <3>1
  <2>11. ASSUME NEW i \in 1..(n + 1)
         PROVE  w[g[i]] = M!End /\ \E s \in 1..g[i] : Spans(M!Frame(q[i]), w, s, g[i])
    <3>1. CASE i \in 1..n
      BY <1>4, <2>2, <2>8, <3>1, Zenon
    <3>2. CASE i = n + 1
      <4>1. Len(t) = (z - (Len(r) + 1)) + 1
        BY <1>1, <2>3
      <4>2. \A j \in 1..Len(t) : ((Len(r) + 1) + j) - 1 = Len(r) + j
        BY <1>1
      <4>3. Spans(t, w, Len(r) + 1, z)
        BY <1>1, <4>1, <4>2, Zenon DEF Spans
      <4>4. Len(r) + 1 \in 1..z
        BY <1>1, <2>3, <2>4
      <4>5. w[z] = M!End
        <5>1. Len(t) \in 1..Len(t) /\ z = Len(r) + Len(t) /\ t[Len(t)] = M!End
          BY <1>1, <2>3, <2>4 DEF Framed
        <5>2. QED
          BY <1>1, <5>1, Zenon
      <4>6. g[i] = z /\ q[i] = m
        BY <2>2, <2>8, <3>2
      <4>7. QED
        BY <1>6, <4>3, <4>4, <4>5, <4>6, Zenon
    <3>3. QED
      BY <2>6, <3>1, <3>2
  <2>12. ASSUME NEW i \in 1..(n + 1), NEW j \in 1..(n + 1), i < j PROVE g[i] < g[j]
    <3>1. i \in 1..n
      BY <1>3, <2>12
    <3>2. CASE j \in 1..n
      BY <1>3, <2>8, <2>12, <3>1, <3>2
    <3>3. CASE j = n + 1
      BY <2>8, <2>9, <3>1, <3>3
    <3>4. QED
      BY <2>6, <3>2, <3>3
  <2>13. ASSUME NEW k \in 1..z, w[k] = M!End PROVE \E i \in 1..(n + 1) : g[i] = k
    <3>1. CASE k <= Len(r)
      <4>1. k \in 1..Len(r) /\ r[k] = M!End
        BY <1>1, <2>13, <3>1
      <4>2. PICK i \in 1..n : e[i] = k
        BY <1>3, <4>1
      <4>3. QED
        BY <2>7, <2>8, <4>2, Zenon
    <3>2. CASE ~(k <= Len(r))
      <4>1. k - Len(r) \in 1..Len(t) /\ Len(r) + (k - Len(r)) = k
        BY <1>1, <2>3, <3>2
      <4>2. t[k - Len(r)] = M!End
        BY <1>1, <2>13, <4>1
      <4>3. k = z
        BY <1>1, <2>3, <2>4, <4>1, <4>2 DEF Framed
      <4>4. QED
        BY <2>7, <2>8, <4>3, Zenon
    <3>3. QED
      BY <3>1, <3>2
  <2>14. Lists(q, g, w)
    BY <2>2, <2>3, <2>10, <2>11, <2>12, <2>13, Zenon DEF Lists
  <2>15. QED
    BY <2>1, <2>14 DEF Listed
<1>7. QED
  BY <1>5, <1>6

\* A message comes last if all of it fits; if not, its first bytes add none.
LEMMA Added ==
    ASSUME NEW r, Bounded(r), NEW ms, Listed(ms, r), NEW m \in Messages
    PROVE  /\ Bounded(M!PROTO_AddRb(r, m))
           /\ M!Fits(r, m) => /\ Listed(Append(ms, m), M!PROTO_AddRb(r, m))
                              /\ M!PROTO_AddRb(r, m)[Len(M!PROTO_AddRb(r, m))] = M!End
           /\ ~M!Fits(r, m) => Listed(ms, M!PROTO_AddRb(r, m))
<1>0. PICK e : Lists(ms, e, r)
  BY DEF Listed
<1>1. PICK f : f = M!Frame(m)
  OBVIOUS
<1>2. Framed(f)
  BY <1>1, Frames
<1>3. f \in Seq(0..255) /\ r \in Seq(0..255) /\ Len(r) <= Room /\ Room \in Nat
  BY <1>2, Frames DEF Framed, Bounded
<1>4. CASE M!Fits(r, m)
  <2>1. M!PROTO_AddRb(r, m) = r \o SubSeq(f, 1, Len(f))
    BY <1>1, <1>4, Zenon DEF M!PROTO_AddRb
  <2>2. SubSeq(f, 1, Len(f)) = f
    BY <1>3, SubSeqFull, Zenon
  <2>3. PICK w : w = r \o f
    OBVIOUS
  <2>4. M!PROTO_AddRb(r, m) = w
    BY <2>1, <2>2, <2>3, Zenon
  <2>5. /\ w \in Seq(0..255) /\ Len(w) = Len(r) + Len(f)
        /\ \A i \in 1..Len(f) : w[Len(r) + i] = f[i]
    BY <1>3, <2>3
  <2>6. Len(r) + Len(f) <= Room
    BY <1>1, <1>4 DEF M!Fits
  <2>7. w[Len(w)] = M!End
    BY <1>2, <1>3, <2>5 DEF Framed
  <2>8. Listed(Append(ms, m), w)
    BY <1>0, <1>1, <1>3, <2>3, Behind, Zenon
  <2>9. Bounded(w)
    BY <2>5, <2>6 DEF Bounded
  <2>10. QED
    BY <1>4, <2>4, <2>7, <2>8, <2>9, Zenon
<1>5. CASE ~M!Fits(r, m)
  <2>1. PICK j : j = Room - Len(r)
    OBVIOUS
  <2>2. PICK t : t = SubSeq(f, 1, j)
    OBVIOUS
  <2>3. M!PROTO_AddRb(r, m) = r \o t
    BY <1>1, <1>5, <2>1, <2>2, Zenon DEF M!PROTO_AddRb
  <2>4. j \in Nat /\ j < Len(f)
    BY <1>1, <1>3, <1>5, <2>1 DEF M!Fits
  <2>6. t \in Seq(0..255) /\ Len(t) = j /\ \A i \in 1..j : t[i] = f[i]
    <3>1. 1 \in Nat /\ 1 # 0 /\ j \in Int /\ j <= Len(f)
      BY <2>4
    <3>2. Slices(t, f, 1, j)
      BY <1>3, <2>2, <3>1, Cut, Zenon
    <3>3. QED
      BY <2>4, <3>2 DEF Slices
  <2>7. \A i \in 1..Len(t) : t[i] # M!End
    BY <1>2, <2>4, <2>6 DEF Framed
  <2>8. Listed(ms, r \o t)
    BY <1>0, <1>3, <2>6, <2>7, Behind, Zenon
  <2>9. r \o t \in Seq(0..255) /\ Len(r \o t) = Len(r) + j
    BY <1>3, <2>6, ConcatProperties
  <2>10. Bounded(r \o t)
    BY <1>3, <2>1, <2>9 DEF Bounded
  <2>11. QED
    BY <1>5, <2>3, <2>8, <2>10, Zenon
<1>6. QED
  BY <1>4, <1>5

\* With no message in it the ring is emptied; else its first message is taken.
LEMMA Left ==
    ASSUME NEW r, Bounded(r), NEW ms, Listed(ms, r)
    PROVE  /\ Bounded(M!Rest(r))
           /\ M!Ends(r) = {} => M!Rest(r) = <<>> /\ ms = <<>>
           /\ M!Ends(r) # {} => /\ ms # <<>> /\ Listed(Tail(ms), M!Rest(r))
                                /\ \A garbage \in BOOLEAN : M!Parsed(r, garbage) = Head(ms)
           /\ M!Rest(r) # <<>> => r # <<>> /\ M!Rest(r)[Len(M!Rest(r))] = r[Len(r)]
<1>0. PICK e : Lists(ms, e, r)
  BY DEF Listed
<1>1. r \in Seq(0..255) /\ Len(r) \in Nat /\ Len(r) <= Room /\ Room \in Nat
  BY Frames DEF Bounded
<1>2. PICK c : c = M!Consumed(r)
  OBVIOUS
<1>3. /\ c \in Nat /\ c <= Len(r) /\ (M!Ends(r) = {} => c = Len(r))
      /\ M!Ends(r) # {} => c \in M!Ends(r) /\ c \in 1..Len(r) /\ \A k \in M!Ends(r) : c <= k
  <2>1. CASE M!Ends(r) = {}
    BY <1>1, <1>2, <2>1 DEF M!Consumed
  <2>2. CASE M!Ends(r) # {}
    <3>1. M!Ends(r) \in SUBSET Nat /\ \A k \in M!Ends(r) : k \in 1..Len(r)
      BY <1>1 DEF M!Ends
    <3>2. c \in M!Ends(r) /\ \A k \in M!Ends(r) : c <= k
      BY <1>2, <2>2, <3>1, Least DEF M!Consumed
    <3>3. QED
      BY <1>1, <2>2, <3>1, <3>2
  <2>3. QED
    BY <2>1, <2>2
<1>4. PICK w : w = M!Rest(r)
  OBVIOUS
<1>5. w = SubSeq(r, c + 1, Len(r))
  BY <1>2, <1>4, Zenon DEF M!Rest
<1>6. /\ w \in Seq(0..255) /\ Len(w) = Len(r) - c
      /\ \A i \in 1..Len(w) : w[i] = r[c + i]
  <2>1. c + 1 \in Nat /\ c + 1 # 0 /\ Len(r) \in Int /\ Len(r) <= Len(r)
    BY <1>1, <1>3
  <2>2. Slices(w, r, c + 1, Len(r))
    BY <1>1, <1>5, <2>1, Cut, Zenon
  <2>3. QED
    BY <1>1, <1>3, <2>2 DEF Slices
<1>7. Bounded(w)
  BY <1>1, <1>3, <1>6 DEF Bounded
<1>8. w # <<>> => r # <<>> /\ w[Len(w)] = r[Len(r)]
  <2> SUFFICES ASSUME w # <<>> PROVE r # <<>> /\ w[Len(w)] = r[Len(r)]
    OBVIOUS
  <2>1. Len(w) \in 1..Len(w) /\ c + Len(w) = Len(r)
    BY <1>1, <1>3, <1>6
  <2>2. QED
    BY <1>1, <1>3, <1>6, <2>1
<1>9. PICK n : n = Len(ms)
  OBVIOUS
<1>10. /\ n \in Nat /\ ms \in Seq(Messages) /\ \A i \in 1..n : ms[i] \in Messages
       /\ \A i \in 1..n : e[i] \in 1..Len(r) /\ e[i] \in M!Ends(r)
       /\ \A i \in 1..n, j \in 1..n : i < j => e[i] < e[j]
       /\ \A k \in M!Ends(r) : \E i \in 1..n : e[i] = k
  <2>1. /\ n \in Nat /\ ms \in Seq(Messages) /\ e \in [1..n -> 1..Len(r)]
        /\ \A i \in 1..n, j \in 1..n : i < j => e[i] < e[j]
        /\ \A k \in 1..Len(r) : r[k] = M!End => \E i \in 1..n : e[i] = k
        /\ \A i \in 1..n : r[e[i]] = M!End
    BY <1>0, <1>9 DEF Lists
  <2>2. \A i \in 1..n : ms[i] \in Messages
    BY <1>9, <2>1, ElementOfSeq
  <2>3. \A i \in 1..n : e[i] \in 1..Len(r)
    BY <2>1
  <2>4. \A k : k \in M!Ends(r) <=> k \in 1..Len(r) /\ r[k] = M!End
    BY <1>1 DEF M!Ends
  <2>5. QED
    BY <2>1, <2>2, <2>3, <2>4, Zenon
<1>11. M!Ends(r) = {} => w = <<>> /\ ms = <<>>
  <2> SUFFICES ASSUME M!Ends(r) = {} PROVE w = <<>> /\ ms = <<>>
    OBVIOUS
  <2>1. Len(w) = 0
    BY <1>1, <1>3, <1>6
  <2>2. \A i \in 1..n : FALSE
    BY <1>10
  <2>3. n = 0
    BY <1>10, <2>2
  <2>4. w = <<>>
    BY <1>6, <2>1, EmptySeq
  <2>5. ms = <<>>
    BY <1>9, <1>10, <2>3, EmptySeq
  <2>6. QED
    BY <2>4, <2>5
<1>12. ASSUME M!Ends(r) # {} PROVE 1 \in 1..n /\ e[1] = c
  <2>1. PICK i \in 1..n : e[i] = c
    BY <1>3, <1>10, <1>12
  <2>2. 1 \in 1..n
    BY <1>10
  <2>3. c <= e[1]
    BY <1>3, <1>10, <1>12, <2>2
  <2>4. i = 1
    <3>1. CASE i > 1
      <4>1. e[1] < e[i] /\ e[1] \in Nat
        BY <1>10, <2>2, <3>1
      <4>2. QED
        BY <1>3, <2>1, <2>3, <4>1
    <3>2. QED
      BY <1>10, <3>1
  <2>5. QED
    BY <2>1, <2>2, <2>4
<1>13. ASSUME M!Ends(r) # {}, NEW garbage \in BOOLEAN PROVE M!Parsed(r, garbage) = ms[1]
  <2>1. PICK s \in 1..e[1] : Spans(M!Frame(ms[1]), r, s, e[1])
    BY <1>0, <1>9, <1>12, <1>13 DEF Lists
  <2>2. s \in 1..M!Consumed(r) /\ Spans(M!Frame(ms[1]), r, s, M!Consumed(r))
    BY <1>2, <1>12, <1>13, <2>1, Zenon
  <2>3. ms[1] \in Seq(0..255) /\ Len(ms[1]) <= BufSize
    BY <1>10, <1>12, <1>13, Frames
  <2>4. QED
    BY <1>1, <1>13, <2>2, <2>3, Taken, Zenon
<1>14. ASSUME M!Ends(r) # {} PROVE Listed(Tail(ms), w)
  <2>1. PICK q : q = Tail(ms)
    OBVIOUS
  <2>2. PICK l : l = n - 1
    OBVIOUS
  <2>3. n >= 1 /\ l \in Nat
    BY <1>10, <1>12, <1>14, <2>2
  <2>4. /\ q \in Seq(Messages) /\ Len(q) = l /\ \A i \in 1..l : q[i] = ms[i + 1]
    BY <1>9, <1>10, <2>1, <2>2, <2>3
  <2>5. PICK g : g = [i \in 1..l |-> e[i + 1] - c]
    OBVIOUS
  <2>6. \A i \in 1..l : g[i] = e[i + 1] - c /\ i + 1 \in 1..n /\ 1 < i + 1
    BY <1>10, <2>2, <2>5
  <2>7. \A i \in 1..l : e[i + 1] > c /\ e[i + 1] \in Nat /\ e[i + 1] <= Len(r)
    <3> TAKE i \in 1..l
    <3>1. i + 1 \in 1..n /\ 1 < i + 1 /\ 1 \in 1..n /\ e[1] = c
      BY <1>12, <1>14, <2>6
    <3>2. e[1] < e[i + 1] /\ e[i + 1] \in 1..Len(r)
      BY <1>10, <3>1, Zenon
    <3>3. QED
      BY <1>3, <3>1, <3>2
  <2>8. g \in [1..l -> 1..Len(w)]
    <3>1. \A i \in 1..l : g[i] \in 1..Len(w)
      BY <1>1, <1>3, <1>6, <2>6, <2>7
    <3>2. QED
      BY <2>5, <3>1
  <2>9. ASSUME NEW i \in 1..l
        PROVE  w[g[i]] = M!End /\ \E s \in 1..g[i] : Spans(M!Frame(q[i]), w, s, g[i])
    <3>1. PICK k : k = e[i + 1]
      OBVIOUS
    <3>2. k \in 1..Len(r) /\ k > c /\ g[i] = k - c /\ i + 1 \in 1..n
      BY <1>10, <2>6, <2>7, <3>1
    <3>3. r[k] = M!End
      BY <1>0, <1>9, <3>1, <3>2 DEF Lists
    <3>4. PICK s \in 1..k : Spans(M!Frame(ms[i + 1]), r, s, k)
      BY <1>0, <1>9, <3>1, <3>2 DEF Lists
    <3>5. PICK f : f = M!Frame(ms[i + 1])
      OBVIOUS
    <3>6. ms[i + 1] \in Messages
      BY <1>10, <3>2
    <3>7. Framed(f) /\ Len(f) \in Nat
      BY <3>5, <3>6, Frames DEF Framed
    <3>8. Len(f) = (k - s) + 1 /\ \A j \in 1..Len(f) : f[j] = r[(s + j) - 1]
      BY <3>4, <3>5, Zenon DEF Spans
    <3>9. c < s
      <4> SUFFICES ASSUME s <= c PROVE FALSE
        BY <1>3
      <4>1. PICK j : j = (c - s) + 1
        OBVIOUS
      <4>2. j \in 1..Len(f) /\ (s + j) - 1 = c /\ j # Len(f)
        BY <1>3, <3>2, <3>8, <4>1
      <4>3. r[c] = M!End
        BY <1>1, <1>3, <1>14 DEF M!Ends
      <4>4. f[j] = M!End
        BY <3>8, <4>2, <4>3
      <4>5. QED
        BY <3>7, <4>2, <4>4 DEF Framed
    <3>10. s - c \in 1..g[i] /\ Len(f) = (g[i] - (s - c)) + 1
      BY <1>3, <3>2, <3>8, <3>9
    <3>11. \A j \in 1..Len(f) : f[j] = w[((s - c) + j) - 1]
      <4> TAKE j \in 1..Len(f)
      <4>1. ((s - c) + j) - 1 \in 1..Len(w) /\ c + (((s - c) + j) - 1) = (s + j) - 1
        BY <1>1, <1>3, <1>6, <3>2, <3>8, <3>9
      <4>2. QED
        BY <1>6, <3>8, <4>1
    <3>12. Spans(f, w, s - c, g[i])
      BY <3>10, <3>11, Zenon DEF Spans
    <3>13. w[g[i]] = M!End
      <4>1. g[i] \in 1..Len(w) /\ c + g[i] = k
        BY <1>1, <1>3, <1>6, <3>2
      <4>2. QED
        BY <1>6, <3>3, <4>1
    <3>14. f = M!Frame(q[i])
      BY <2>4, <3>5
    <3>15. QED
      BY <3>10, <3>12, <3>13, <3>14, Zenon
  <2>10. ASSUME NEW i \in 1..l, NEW j \in 1..l, i < j PROVE g[i] < g[j]
    <3>1. i + 1 \in 1..n /\ j + 1 \in 1..n /\ i + 1 < j + 1
      BY <2>6, <2>10
    <3>2. e[i + 1] < e[j + 1]
      BY <1>10, <3>1
    <3>3. QED
      BY <1>3, <2>6, <2>7, <3>2
  <2>11. ASSUME NEW k \in 1..Len(w), w[k] = M!End PROVE \E i \in 1..l : g[i] = k
    <3>1. c + k \in 1..Len(r) /\ r[c + k] = M!End
      BY <1>1, <1>3, <1>6, <2>11
    <3>2. c + k \in M!Ends(r)
      BY <1>1, <3>1 DEF M!Ends
    <3>3. PICK i \in 1..n : e[i] = c + k
      BY <1>10, <3>2
    <3>4. i # 1
      BY <1>3, <1>12, <1>14, <3>3
    <3>5. i - 1 \in 1..l /\ (i - 1) + 1 = i
      BY <1>10, <2>2, <3>4
    <3>6. g[i - 1] = k
      BY <1>3, <2>6, <3>3, <3>5
    <3>7. QED
      BY <3>5, <3>6
  <2>12. Lists(q, g, w)
    BY <2>4, <2>8, <2>9, <2>10, <2>11, Zenon DEF Lists
  <2>13. QED
    BY <2>1, <2>12 DEF Listed
<1>15. M!Ends(r) # {} => ms # <<>> /\ Head(ms) = ms[1]
  <2>1. M!Ends(r) # {} => Len(ms) # 0
    BY <1>9, <1>10, <1>12
  <2>2. QED
    BY <1>10, <2>1
<1>16. QED
  BY <1>4, <1>7, <1>8, <1>11, <1>13, <1>14, <1>15, Zenon
-----------------------------------------------------------------------------
\* Between the calls of the queue the last byte of the ring ends a frame,
\* unless an answer was cut off.
EndsLast == pc = "idle" /\ ring # <<>> /\ ~cutOff => ring[Len(ring)] = M!End

QueueInv ==
    /\ Bounded(ring) /\ \E ms : Listed(ms, ring)
    /\ outbound \in Messages \union {None} /\ (pc = "idle" <=> outbound = None)
    /\ pc \in {"idle", "put", "evict"}
    /\ sent # None => sent \in Seq(0..255) /\ Len(sent) <= BufSize
    /\ cutOff \in BOOLEAN
    /\ EndsLast

LEMMA QueueInit == M!Init => QueueInv /\ M!Queued(ring) = <<>>
<1> SUFFICES ASSUME M!Init PROVE QueueInv /\ M!Queued(ring) = <<>>
  OBVIOUS
<1>1. ring = <<>> /\ ring \in Seq(0..255) /\ Len(ring) = 0
  BY DEF M!Init
<1>2. Bounded(ring)
  BY <1>1, Frames DEF Bounded
<1>3. Lists(<<>>, <<>>, ring)
  <2>1. 1..Len(ring) = {} /\ 1..Len(<<>>) = {} /\ <<>> \in Seq(Messages)
    BY <1>1
  <2>2. <<>> \in [1..Len(<<>>) -> 1..Len(ring)]
    BY <2>1
  <2>3. QED
    BY <2>1, <2>2 DEF Lists
<1>4. Listed(<<>>, ring)
  BY <1>3 DEF Listed
<1>5. M!Queued(ring) = <<>>
  BY <1>1, <1>4, QueuedIs
<1>6. QED
  BY <1>1, <1>2, <1>4, <1>5 DEF M!Init, QueueInv, EndsLast

\* What a call that puts a message does to the queue.
LEMMA Put ==
    ASSUME QueueInv, NEW m \in Messages, ring' = M!PROTO_AddRb(ring, m)
    PROVE  /\ Bounded(ring') /\ \E ms : Listed(ms, ring')
           /\ M!Fits(ring, m) => /\ M!Queued(ring') = Append(M!Queued(ring), m)
                                 /\ ring'[Len(ring')] = M!End
           /\ ~M!Fits(ring, m) => M!Queued(ring') = M!Queued(ring)
<1>1. PICK ms : Listed(ms, ring)
  BY DEF QueueInv
<1>2. Bounded(ring) /\ ring \in Seq(0..255)
  BY DEF QueueInv, Bounded
<1>3. Bounded(ring') /\ ring' \in Seq(0..255)
  <2>1. Bounded(ring')
    BY <1>1, <1>2, Added, Zenon
  <2>2. QED
    BY <2>1 DEF Bounded
<1>4. M!Queued(ring) = ms
  BY <1>1, <1>2, QueuedIs
<1>5. CASE M!Fits(ring, m)
  <2>1. Listed(Append(ms, m), ring') /\ ring'[Len(ring')] = M!End
    BY <1>1, <1>2, <1>5, Added, Zenon
  <2>2. M!Queued(ring') = Append(ms, m)
    BY <1>3, <2>1, QueuedIs, Zenon
  <2>3. QED
    BY <1>3, <1>4, <1>5, <2>1, <2>2, Zenon
<1>6. CASE ~M!Fits(ring, m)
  <2>1. Listed(ms, ring')
    BY <1>1, <1>2, <1>6, Added, Zenon
  <2>2. M!Queued(ring') = ms
    BY <1>3, <2>1, QueuedIs, Zenon
  <2>3. QED
    BY <1>3, <1>4, <1>6, <2>1, <2>2, Zenon
<1>7. QED
  BY <1>5, <1>6

\* What a call that takes one does.
LEMMA Take ==
    ASSUME QueueInv, ring' = M!Rest(ring)
    PROVE  /\ Bounded(ring') /\ \E ms : Listed(ms, ring')
           /\ M!Ends(ring) = {} =>
                  ring' = <<>> /\ M!Queued(ring) = <<>> /\ M!Queued(ring') = <<>>
           /\ M!Ends(ring) # {} =>
                  /\ M!Queued(ring) # <<>> /\ M!Queued(ring') = Tail(M!Queued(ring))
                  /\ \A garbage \in BOOLEAN : M!Parsed(ring, garbage) = Head(M!Queued(ring))
           /\ ring' # <<>> => ring # <<>> /\ ring'[Len(ring')] = ring[Len(ring)]
<1>1. PICK ms : Listed(ms, ring)
  BY DEF QueueInv
<1>2. Bounded(ring) /\ ring \in Seq(0..255)
  BY DEF QueueInv, Bounded
<1>3. /\ Bounded(ring')
      /\ ring' # <<>> => ring # <<>> /\ ring'[Len(ring')] = ring[Len(ring)]
  BY <1>1, <1>2, Left, Zenon
<1>4. ring' \in Seq(0..255)
  BY <1>3 DEF Bounded
<1>5. M!Queued(ring) = ms
  BY <1>1, <1>2, QueuedIs
<1>6. CASE M!Ends(ring) = {}
  <2>1. ring' = <<>> /\ ms = <<>>
    <3>1. M!Ends(ring) = {} => M!Rest(ring) = <<>> /\ ms = <<>>
      BY <1>1, <1>2, Left
    <3>2. QED
      BY <1>6, <3>1, Zenon
  <2>2. Lists(<<>>, <<>>, ring')
    <3>1. Len(ring') = 0 /\ 1..Len(ring') = {} /\ 1..Len(<<>>) = {} /\ <<>> \in Seq(Messages)
      BY <2>1
    <3>2. <<>> \in [1..Len(<<>>) -> 1..Len(ring')]
      BY <3>1
    <3>3. QED
      BY <3>1, <3>2 DEF Lists
  <2>3. Listed(<<>>, ring')
    BY <2>2 DEF Listed
  <2>4. M!Queued(ring') = <<>>
    BY <1>4, <2>3, QueuedIs, Zenon
  <2>5. QED
    BY <1>3, <1>5, <1>6, <2>1, <2>3, <2>4, Zenon
<1>7. CASE M!Ends(ring) # {}
  <2>1. /\ ms # <<>> /\ Listed(Tail(ms), ring')
        /\ \A garbage \in BOOLEAN : M!Parsed(ring, garbage) = Head(ms)
    BY <1>1, <1>2, <1>7, Left, Zenon
  <2>2. M!Queued(ring') = Tail(ms)
    BY <1>4, <2>1, QueuedIs, Zenon
  <2>3. QED
    BY <1>3, <1>5, <1>7, <2>1, <2>2, Zenon
<1>8. QED
  BY <1>6, <1>7

LEMMA QueueNext == QueueInv /\ [M!Next]_(M!vars) => QueueInv'
<1> SUFFICES ASSUME QueueInv, [M!Next]_(M!vars) PROVE QueueInv'
  OBVIOUS
<1>0. None \notin Messages
  BY Frames
<1> USE DEF QueueInv
<1>1. ASSUME NEW m \in Messages, M!Publish(m) PROVE QueueInv'
  BY <1>0, <1>1 DEF M!Publish, EndsLast
<1>2. ASSUME NEW m \in Messages, M!Answer(m) PROVE QueueInv'
  <2>1. /\ Bounded(ring') /\ \E ms : Listed(ms, ring')
        /\ M!Fits(ring, m) => ring'[Len(ring')] = M!End
    BY <1>2, Put, Zenon DEF M!Answer
  <2>2. EndsLast'
    BY <1>2, <2>1 DEF M!Answer, EndsLast
  <2>3. QED
    BY <1>2, <2>1, <2>2 DEF M!Answer
<1>3. CASE M!Puts
  <2>0. outbound \in Messages
    BY <1>3 DEF M!Puts
  <2>1. /\ Bounded(ring') /\ \E ms : Listed(ms, ring')
        /\ M!Fits(ring, outbound) => ring'[Len(ring')] = M!End
    BY <1>3, <2>0, Put, Zenon DEF M!Puts
  <2>2. EndsLast'
    BY <1>3, <2>1 DEF M!Puts, EndsLast
  <2>3. QED
    BY <1>3, <2>0, <2>1, <2>2 DEF M!Puts
<1>4. CASE M!Evict
  <2>1. /\ Bounded(ring') /\ \E ms : Listed(ms, ring')
        /\ M!Ends(ring) = {} => ring' = <<>>
    BY <1>4, Take, Zenon DEF M!Evict
  <2>2. EndsLast'
    BY <1>4, <2>1 DEF M!Evict, EndsLast
  <2>3. QED
    BY <1>4, <2>1, <2>2 DEF M!Evict
<1>5. CASE M!Send
  <2>1. /\ Bounded(ring') /\ \E ms : Listed(ms, ring')
        /\ ring' # <<>> => ring'[Len(ring')] = ring[Len(ring)]
    BY <1>5, Take, Zenon DEF M!Send
  <2>2. EndsLast'
    BY <1>5, <2>1 DEF M!Send, EndsLast
  <2>3. sent' # None => sent' \in Seq(0..255) /\ Len(sent') <= BufSize
    <3>1. CASE M!Ends(ring) # {}
      <4>1. PICK garbage \in BOOLEAN : sent' = M!Parsed(ring, garbage)
        BY <1>5, <3>1, Zenon DEF M!Send
      <4>2. ring \in Seq(0..255)
        BY DEF Bounded
      <4>3. QED
        BY <4>1, <4>2, ParsedTyped, Zenon
    <3>2. CASE M!Ends(ring) = {}
      BY <1>5, <3>2 DEF M!Send
    <3>3. QED
      BY <3>1, <3>2
  <2>4. cutOff' \in BOOLEAN
    BY <1>5, Zenon DEF M!Send
  <2>5. QED
    BY <1>5, <2>1, <2>2, <2>3, <2>4 DEF M!Send
<1>6. CASE UNCHANGED M!vars
  BY <1>6 DEF M!vars, EndsLast
<1>7. QED
  BY <1>1, <1>2, <1>3, <1>4, <1>5, <1>6 DEF M!Next

LEMMA QueueImplies == QueueInv => M!TypeOK /\ FramesRight
<1> SUFFICES ASSUME QueueInv PROVE M!TypeOK /\ FramesRight
  OBVIOUS
<1> USE DEF QueueInv
<1>0. ring \in Seq(0..255)
  BY DEF Bounded
<1>1. M!TypeOK
  BY DEF M!TypeOK, Bounded
<1>2. ASSUME NEW k \in M!Ends(ring)
      PROVE  \E m \in Messages, s \in 1..k : M!Frame(m) = SubSeq(ring, s, k)
  <2>1. k \in 1..Len(ring) /\ ring[k] = M!End
    BY <1>0 DEF M!Ends
  <2>2. PICK ms, e : Lists(ms, e, ring)
    BY DEF Listed
  <2>3. PICK i \in 1..Len(ms) : e[i] = k
    BY <2>1, <2>2 DEF Lists
  <2>4. PICK s \in 1..k : Spans(M!Frame(ms[i]), ring, s, k)
    BY <2>2, <2>3 DEF Lists
  <2>5. ms[i] \in Messages
    BY <2>2, ElementOfSeq DEF Lists
  <2>6. M!Frame(ms[i]) \in Seq(0..255)
    BY <2>5, Frames DEF Framed
  <2>7. M!Frame(ms[i]) = SubSeq(ring, s, k)
    BY <1>0, <2>1, <2>4, <2>6, SpansSubSeq
  <2>8. QED
    BY <2>5, <2>7
<1>3. M!FramesWhole
  BY <1>2, Zenon DEF M!FramesWhole
<1>4. M!NotEmptyMeansMessage
  <2> SUFFICES ASSUME pc = "idle", ring # <<>>, ~cutOff PROVE M!Ends(ring) # {}
    BY DEF M!NotEmptyMeansMessage
  <2>1. ring[Len(ring)] = M!End /\ Len(ring) \in DOMAIN ring
    BY <1>0 DEF EndsLast
  <2>2. QED
    BY <2>1 DEF M!Ends
<1>5. QED
  BY <1>1, <1>3, <1>4 DEF FramesRight

\* Each step is one of the abstract queue, or leaves it alone: a message that
\* does not fit adds none, and what is taken when none ends was none.
LEMMA LossyStep == QueueInv /\ [M!Next]_(M!vars) => [M!Abs!Next]_(M!Abs!vars)
<1> SUFFICES ASSUME QueueInv, [M!Next]_(M!vars) PROVE [M!Abs!Next]_(M!Abs!vars)
  OBVIOUS
<1>0. /\ None \notin Messages /\ (pc = "idle" <=> outbound = None)
      /\ outbound \in Messages \union {None}
  BY Frames DEF QueueInv
<1>1. ASSUME NEW m \in Messages, M!Publish(m) PROVE M!Abs!Publish
  BY <1>0, <1>1 DEF M!Publish, M!Abs!Publish
<1>2. ASSUME NEW m \in Messages, M!Answer(m) PROVE [M!Abs!Next]_(M!Abs!vars)
  <2>1. CASE M!Fits(ring, m)
    <3>1. M!Queued(ring') = Append(M!Queued(ring), m)
      BY <1>2, <2>1, Put, Zenon DEF M!Answer
    <3>2. M!Abs!Answer
      BY <1>0, <1>2, <3>1 DEF M!Answer, M!Abs!Answer
    <3>3. QED
      BY <3>2 DEF M!Abs!Next
  <2>2. CASE ~M!Fits(ring, m)
    <3>1. M!Queued(ring') = M!Queued(ring)
      BY <1>2, <2>2, Put, Zenon DEF M!Answer
    <3>2. QED
      BY <1>2, <3>1 DEF M!Answer, M!Abs!vars
  <2>3. QED
    BY <2>1, <2>2
<1>3. CASE M!Puts
  <2>0. outbound \in Messages /\ outbound # None
    BY <1>0, <1>3 DEF M!Puts
  <2>1. CASE M!Fits(ring, outbound)
    <3>1. M!Queued(ring') = Append(M!Queued(ring), outbound)
      BY <1>3, <2>0, <2>1, Put, Zenon DEF M!Puts
    <3>2. M!Abs!Accept
      BY <1>3, <2>0, <2>1, <3>1 DEF M!Puts, M!Abs!Accept
    <3>3. QED
      BY <3>2 DEF M!Abs!Next
  <2>2. CASE ~M!Fits(ring, outbound)
    <3>1. M!Queued(ring') = M!Queued(ring)
      BY <1>3, <2>0, <2>2, Put, Zenon DEF M!Puts
    <3>2. QED
      BY <1>3, <2>2, <3>1 DEF M!Puts, M!Abs!vars
  <2>3. QED
    BY <2>1, <2>2
<1>4. CASE M!Evict
  <2>0. outbound # None
    BY <1>0, <1>4 DEF M!Evict
  <2>1. CASE M!Ends(ring) # {}
    <3>1. M!Queued(ring) # <<>> /\ M!Queued(ring') = Tail(M!Queued(ring))
      BY <1>4, <2>1, Take, Zenon DEF M!Evict
    <3>2. M!Abs!DropOldest
      BY <1>4, <2>0, <2>1, <3>1 DEF M!Evict, M!Abs!DropOldest
    <3>3. QED
      BY <3>2 DEF M!Abs!Next
  <2>2. CASE M!Ends(ring) = {}
    <3>1. M!Queued(ring) = <<>> /\ M!Queued(ring') = <<>>
      BY <1>4, <2>2, Take, Zenon DEF M!Evict
    <3>2. M!Abs!Refuse
      BY <1>4, <2>0, <2>2, <3>1 DEF M!Evict, M!Abs!Refuse
    <3>3. QED
      BY <3>2 DEF M!Abs!Next
  <2>3. QED
    BY <2>1, <2>2
<1>5. CASE M!Send
  <2>0. outbound = None
    BY <1>0, <1>5 DEF M!Send
  <2>1. CASE M!Ends(ring) # {}
    <3>1. /\ M!Queued(ring) # <<>> /\ M!Queued(ring') = Tail(M!Queued(ring))
          /\ \A garbage \in BOOLEAN : M!Parsed(ring, garbage) = Head(M!Queued(ring))
      BY <1>5, <2>1, Take, Zenon DEF M!Send
    <3>2. sent' = Head(M!Queued(ring))
      BY <1>5, <2>1, <3>1, Zenon DEF M!Send
    <3>3. M!Abs!Send
      BY <1>5, <2>0, <3>1, <3>2 DEF M!Send, M!Abs!Send
    <3>4. QED
      BY <3>3 DEF M!Abs!Next
  <2>2. CASE M!Ends(ring) = {}
    <3>1. M!Queued(ring) = <<>> /\ M!Queued(ring') = <<>>
      BY <1>5, <2>2, Take, Zenon DEF M!Send
    <3>2. QED
      BY <1>5, <2>2, <3>1 DEF M!Send, M!Abs!vars
  <2>3. QED
    BY <2>1, <2>2
<1>6. CASE UNCHANGED M!vars
  BY <1>6 DEF M!vars, M!Abs!vars
<1>7. QED
  BY <1>1, <1>2, <1>3, <1>4, <1>5, <1>6 DEF M!Next, M!Abs!Next

\* A step of the composition is a step of one of the two, or of none.
LEMMA PartStep ==
    [MCNext]_<<part, ringVars, messageVars>> => [Next]_vars /\ [M!Next]_(M!vars)
  BY DEF MCNext, Bytewise, Messagewise, ringVars, messageVars, vars, M!vars

LEMMA PartInit == MCInit => IInv /\ QueueInv
  BY InitInv, QueueInit DEF MCInit

\* Both rings have their types, and the pointers of the ring of bytes are as
\* far apart as its count says (see PartsTypeOK).
THEOREM QueueTypeCorrect == MCSpec => []PartsTypeOK
<1>1. IInv /\ QueueInv => PartsTypeOK
  BY QueueImplies DEF PartsTypeOK, IInv
<1>2. QED
  BY <1>1, PartInit, PartStep, NextInv, QueueNext, PTL DEF MCSpec

\* Whatever is published, answered, evicted and sent, a frame that ends in the
\* ring is one of the messages, and between calls a ring that is not empty
\* holds one, unless an answer was cut off (see FramesRight).
THEOREM FramesAreRight == MCSpec => []FramesRight
  BY QueueImplies, PartInit, PartStep, NextInv, QueueNext, PTL DEF MCSpec

\* The frames in the ring implement the queue that drops whole messages,
\* oldest first, and sends each as it was queued (see IsLossyQueue).
THEOREM ImplementsLossyQueue == MCSpec => IsLossyQueue
<1>1. MCInit => M!Abs!Init
  BY QueueInit DEF MCInit, M!Init, M!Abs!Init
<1>2. QED
  BY <1>1, PartInit, PartStep, QueueNext, LossyStep, PTL
     DEF MCSpec, IsLossyQueue, M!IsLossyQueue, M!Abs!Spec
=============================================================================
