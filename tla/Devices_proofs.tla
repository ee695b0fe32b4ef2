--------------------------- MODULE Devices_proofs ---------------------------
(***************************************************************************)
(* Proofs about the devices.                                               *)
(*                                                                         *)
(* SerialLine, for a receive buffer of any size and lines of any length:   *)
(* its types, and that a command is made of the bytes of its own line.     *)
(* The buffer holds the end of the line so far, from its start to the      *)
(* writer, and the line has gone through it a number of whole times.       *)
(*                                                                         *)
(* Ds18b20 (D), for addresses of any length and any devices on the wire:   *)
(* the searches find each device once, in the order of the bits.           *)
(*                                                                         *)
(* LedString (L), for any patterns and any number of LEDs: a pattern stays *)
(* within its elements, and a published colour fills the string up to it.  *)
(*                                                                         *)
(* Pwm (P), for any outputs, depth, period and width of the times: the     *)
(* points of a table come in the order of their times, and between two of  *)
(* them each output was high up to its time, or from the rise of all on.   *)
(*                                                                         *)
(* Dht22 (H), for bytes of any width and any readings of the sensor: one   *)
(* bit that is misread makes the sum wrong.                                *)
(*                                                                         *)
(* I2cMaster (B), for bytes of any width, any commands and any readings:   *)
(* where each sequence of levels stands, and what the sensor has made of   *)
(* it so far.                                                              *)
(***************************************************************************)
EXTENDS MCDevices, FiniteSetTheorems, SequenceTheorems, WellFoundedInduction, TLAPS

USE LineAssumption DEF Positions, NUL

allVars == <<part, vars, pwmVars, ledVars, dsVars, dhtVars, busVars>>
USE DEF allVars

\* The writer is where the number of bytes takes it.
Wrapped == \E turns \in Nat : Len(line) = turns * (RX_BUFF_SIZE + 1) + pWritePos

\* Before the writer is the end of the line.
Held ==
    \A k \in 0 .. RX_BUFF_SIZE : k < pWritePos =>
        buff[k] = line[Len(line) - pWritePos + k + 1]

IInv == TypeOK /\ Wrapped /\ Held /\ LineRight

\* Whole turns leave no remainder.
LEMMA Remainder ==
    ASSUME NEW turns \in Nat, NEW m \in Nat, NEW r \in Nat, r < m
    PROVE  (turns * m + r) % m = r
  BY SMTT(30)

LEMMA FollowingType ==
    ASSUME NEW p \in Positions
    PROVE  Following(p) \in Positions /\ Following(p) # p
  BY DEF Following

\* Wherever the writer comes, the reader is pushed ahead of it.
LEMMA PushedAhead ==
    ASSUME pReadPos \in Positions, NEW w \in Positions
    PROVE  Pushed(w) \in Positions /\ Pushed(w) # w
  BY FollowingType DEF Pushed

LEMMA InitInv == Init => IInv
<1> SUFFICES ASSUME Init PROVE IInv
  OBVIOUS
<1>1. TypeOK
  BY DEF Init, TypeOK, Nothing
<1>2. Wrapped
  BY DEF Init, Wrapped
<1>3. Held
  BY DEF Init, Held
<1>4. LineRight
  <2>1. Len(last) = 0 /\ Len(last) % (RX_BUFF_SIZE + 1) = 0
    BY DEF Init
  <2>2. SubSeq(last, 1, 0) = <<>>
    BY DEF Init
  <2>3. QED
    BY <2>1, <2>2 DEF Init, LineRight, CommandIsLine, ReaderAhead, Nothing
<1>5. QED
  BY <1>1, <1>2, <1>3, <1>4 DEF IInv

LEMMA ReceiveInv ==
    ASSUME IInv, NEW c \in Bytes, Receive(c)
    PROVE  IInv'
<1> USE DEF IInv
<1>w. pWritePos' \in Positions /\ pReadPos' \in Positions /\ pReadPos' # pWritePos'
  BY FollowingType, PushedAhead DEF Receive, TypeOK
<1>1. TypeOK'
  BY <1>w DEF Receive, TypeOK
<1>2. Wrapped'
  <2>1. PICK turns \in Nat : Len(line) = turns * (RX_BUFF_SIZE + 1) + pWritePos
    BY DEF Wrapped
  <2>2. Len(line') = Len(line) + 1
    BY DEF Receive, TypeOK
  <2>3. CASE pWritePos = RX_BUFF_SIZE
    <3>1. (turns + 1) * (RX_BUFF_SIZE + 1) = turns * (RX_BUFF_SIZE + 1) + RX_BUFF_SIZE + 1
      OBVIOUS
    <3>2. Len(line') = (turns + 1) * (RX_BUFF_SIZE + 1) + pWritePos'
      BY <2>3, <2>1, <2>2, <3>1 DEF Receive, Following
    <3>3. turns + 1 \in Nat
      OBVIOUS
    <3>4. QED
      BY <3>2, <3>3, Zenon DEF Wrapped
  <2>4. CASE pWritePos # RX_BUFF_SIZE
    BY <2>4, <2>1, <2>2 DEF Receive, Following, Wrapped, TypeOK
  <2>5. QED
    BY <2>3, <2>4
<1>3. Held'
  <2> SUFFICES ASSUME NEW k \in 0 .. RX_BUFF_SIZE, k < pWritePos'
               PROVE  buff'[k] = line'[Len(line') - pWritePos' + k + 1]
    BY DEF Held
  <2>1. pWritePos' = pWritePos + 1 /\ k <= pWritePos
    BY DEF Receive, Following, TypeOK
  <2>2. line' = Append(line, c) /\ Len(line') = Len(line) + 1 /\ pWritePos <= Len(line)
    BY DEF Receive, TypeOK, Wrapped
  <2>3. CASE k = pWritePos
    BY <2>1, <2>2, <2>3 DEF Receive, TypeOK
  <2>4. CASE k < pWritePos
    <3>1. buff'[k] = buff[k]
      BY <2>4 DEF Receive, TypeOK
    <3>2. Len(line) - pWritePos + k + 1 \in 1 .. Len(line)
      BY <2>2, <2>4 DEF TypeOK
    <3>3. QED
      BY <2>1, <2>2, <2>4, <3>1, <3>2 DEF Held, TypeOK
  <2>5. QED
    BY <2>1, <2>3, <2>4 DEF TypeOK
<1>4. LineRight'
  BY <1>w DEF LineRight, CommandIsLine, ReaderAhead, Receive
<1>5. QED
  BY <1>1, <1>2, <1>3, <1>4

\* The string in the terminated buffer is the end of the line.
LEMMA StringIsEnd ==
    ASSUME IInv
    PROVE  String(Ended) = SubSeq(line, Len(line) - pWritePos + 1, Len(line))
<1> USE DEF IInv
<1>1. pWritePos <= Len(line) /\ Len(line) \in Nat /\ pWritePos \in Positions
  BY DEF TypeOK, Wrapped
<1>2. \A k \in Positions : k < pWritePos =>
          /\ Ended[k] = line[Len(line) - pWritePos + k + 1]
          /\ Ended[k] # NUL
  BY <1>1 DEF Ended, Held, TypeOK
<1>3. Ended[pWritePos] = NUL
  BY <1>1 DEF Ended, TypeOK
<1> DEFINE ends == {p \in Positions : Ended[p] = NUL}
           n == CHOOSE p \in ends : \A q \in ends : p <= q
<1>4. pWritePos \in ends /\ \A q \in ends : pWritePos <= q
  BY <1>1, <1>2, <1>3
<1>5. n = pWritePos
  BY <1>4, <1>1
<1>6. String(Ended) = [k \in 1 .. pWritePos |-> Ended[k - 1]]
  BY <1>5 DEF String
<1>7. \A k \in 1 .. pWritePos : Ended[k - 1] = line[Len(line) - pWritePos + k]
  BY <1>1, <1>2
<1> DEFINE s == SubSeq(line, Len(line) - pWritePos + 1, Len(line))
<1>8. s = [k \in 1 .. pWritePos |-> line[Len(line) - pWritePos + k]]
  BY <1>1 DEF TypeOK
<1>9. QED
  BY <1>6, <1>7, <1>8

LEMMA NewlineInv == IInv /\ ReceiveNewline => IInv'
<1> SUFFICES ASSUME IInv, ReceiveNewline PROVE IInv'
  OBVIOUS
<1> USE DEF IInv
<1>w. pWritePos' = 0 /\ pReadPos' \in Positions /\ pReadPos' # 0
  BY PushedAhead DEF ReceiveNewline, TypeOK
<1>b. buff' = Ended /\ buff' \in [Positions -> Bytes \union {NUL}]
  BY DEF ReceiveNewline, Ended, TypeOK
<1>l. line' = <<>> /\ last' = line
  BY DEF ReceiveNewline
<1>c. /\ cmd'.text = String(Ended) /\ cmd'.state = Ended[3]
      /\ cmd'.relay = (cmd'.text # <<>> /\ cmd'.text[1] = Relay)
  BY <1>b DEF ReceiveNewline
<1>1. TypeOK'
  <2>1. cmd'.relay \in BOOLEAN
    BY <1>c, Zenon
  <2>2. cmd'.state \in Bytes \union {NUL}
    BY <1>b, <1>c
  <2>3. QED
    BY <1>w, <1>b, <1>l, <2>1, <2>2 DEF TypeOK
<1>2. Wrapped'
  BY <1>w, <1>l DEF Wrapped
<1>3. Held'
  BY <1>w DEF Held
<1>4. CommandIsLine'
  <2>1. Len(line) % (RX_BUFF_SIZE + 1) = pWritePos
    <3>1. PICK turns \in Nat : Len(line) = turns * (RX_BUFF_SIZE + 1) + pWritePos
      BY DEF Wrapped
    <3>2. RX_BUFF_SIZE + 1 \in Nat /\ pWritePos \in Nat /\ pWritePos < RX_BUFF_SIZE + 1
      BY DEF TypeOK
    <3>3. (turns * (RX_BUFF_SIZE + 1) + pWritePos) % (RX_BUFF_SIZE + 1) = pWritePos
      BY <3>2, Remainder
    <3>4. QED
      BY <3>1, <3>3
  <2>2. ASSUME pWritePos = Len(line), pWritePos > 3 PROVE Ended[3] = line[4]
    <3>1. 3 \in 0 .. RX_BUFF_SIZE /\ Len(line) - pWritePos + 3 + 1 = 4
      BY <2>2 DEF TypeOK
    <3>2. buff[3] = line[Len(line) - pWritePos + 3 + 1]
      BY <2>2, <3>1 DEF Held
    <3>3. Ended[3] = buff[3]
      <4>1. 3 # pWritePos /\ 3 \in Positions
        <5>1. pWritePos \in 0 .. RX_BUFF_SIZE
          BY DEF TypeOK
        <5>2. QED
          BY <2>2, <3>1, <5>1
      <4>2. buff \in [Positions -> Bytes \union {NUL}]
        BY DEF TypeOK
      <4>3. QED
        BY <4>1, <4>2 DEF Ended
    <3>4. QED
      BY <3>1, <3>2, <3>3
  <2>3. QED
    BY <1>c, <1>l, <2>1, <2>2, StringIsEnd DEF CommandIsLine
<1>5. ReaderAhead'
  BY <1>w DEF ReaderAhead
<1>6. QED
  BY <1>1, <1>2, <1>3, <1>4, <1>5 DEF LineRight

LEMMA NextInv == IInv /\ [Next]_vars => IInv'
<1> SUFFICES ASSUME IInv, [Next]_vars PROVE IInv'
  OBVIOUS
<1>1. CASE UNCHANGED vars
  BY <1>1 DEF vars, IInv, TypeOK, Wrapped, Held, LineRight, CommandIsLine, ReaderAhead
<1>2. QED
  BY <1>1, ReceiveInv, NewlineInv DEF Next
-----------------------------------------------------------------------------
\* IInv holds in every reachable state.
THEOREM Invariance == Spec => []IInv
  BY InitInv, NextInv, PTL DEF Spec

\* Every variable of SerialLine keeps its type: the writer never leaves the
\* buffer, whatever its size.
THEOREM TypeCorrect == Spec => []TypeOK
<1>1. IInv => TypeOK
  BY DEF IInv
<1>2. QED
  BY <1>1, Invariance, PTL

\* A command is looked for in the end of its own line, all of it if it fits,
\* and a buffer that is full never looks empty, for every size of the buffer.
THEOREM LineRightHolds == Spec => []LineRight
<1>1. IInv => LineRight
  BY DEF IInv
<1>2. QED
  BY <1>1, Invariance, PTL

-----------------------------------------------------------------------------
\* Ds18b20

Addresses == [1 .. D!Bits -> 0..1]
ZeroFamily(c) == D!Family(c) = SubSeq(D!Zero, 1, FamilyBits)

WireTyped ==
    /\ present \subseteq Codes /\ selected \subseteq Codes
    /\ removed \in BOOLEAN /\ LastDeviceFlag \in BOOLEAN /\ shorted \in BOOLEAN
    /\ pc \in {"search", "bits", "poll"}
    /\ ROM_NO \in Addresses
    /\ bit \in 1 .. D!Bits + 1 /\ LastDiscrepancy \in 0 .. D!Bits /\ last_zero \in 0 .. D!Bits
    /\ i \in 0..4 /\ (pc = "bits" => i < 4)
    /\ addr \in [D!Slots -> Addresses]
    /\ found \in Seq(Addresses)

\* The first n bits of two addresses are the same.
Agree(c, d, n) == \A k \in 1..n : c[k] = d[k]

\* z is the last of the first n places where r has 0 and a device that agrees
\* with r up to there has 1; 0 if there is none.
Branches(r, z, n) ==
    /\ z # 0 => r[z] = 0 /\ \E c \in present : Agree(c, r, z - 1) /\ c[z] = 1
    /\ \A c \in present : \A k \in z + 1 .. n : Agree(c, r, k - 1) /\ r[k] = 0 => c[k] = 0

\* Every device agrees with the first n bits of r or leaves them somewhere.
Placed(r, n) ==
    \A c \in present : Agree(c, r, n) \/ \E k \in 1..n : c[k] # r[k] /\ Agree(c, r, k - 1)

LastFound == found[Len(found)]

\* What the searches have given are the first devices, in their order.
FoundSoFar ==
    /\ \A k \in DOMAIN found : found[k] \in present /\ ~ZeroFamily(found[k])
    /\ \A k, l \in DOMAIN found : k < l => D!Before(found[k], found[l])
    /\ found # <<>> =>
          /\ Placed(LastFound, D!Bits)
          /\ \A c \in present : D!Before(c, LastFound) => \E k \in DOMAIN found : c = found[k]
          /\ Branches(LastFound, LastDiscrepancy, D!Bits) \/ i = 4

\* Between two searches.
BetweenSearches ==
    /\ Len(found) = i
    /\ found = <<>> => LastDiscrepancy = 0 /\ ~LastDeviceFlag
    /\ found # <<>> => (LastDeviceFlag <=> LastDiscrepancy = 0)

\* In the middle of a search: the bits so far are those of the first device
\* behind the last one found.
MidSearch ==
    /\ Len(found) = i
    /\ ~LastDeviceFlag
    /\ found = <<>> => LastDiscrepancy = 0
    /\ found # <<>> =>
          /\ LastDiscrepancy > 0
          /\ \A k \in 1 .. D!Bits : k < LastDiscrepancy \/ k >= bit => ROM_NO[k] = LastFound[k]
          /\ LastDiscrepancy < bit => ROM_NO[LastDiscrepancy] = 1
    /\ \A c \in present : \A k \in LastDiscrepancy + 1 .. bit - 1 :
          Agree(c, ROM_NO, k - 1) /\ ROM_NO[k] = 1 => c[k] = 1
    /\ last_zero < bit /\ Branches(ROM_NO, last_zero, bit - 1)
    /\ Placed(ROM_NO, bit - 1)
    /\ selected = {c \in present : Agree(c, ROM_NO, bit - 1)} /\ selected # {}

\* The searches are over: four devices were found, or all there are, or the
\* first device is one that ends them.
SearchesOver ==
    \/ Len(found) = 4
    \/ \A c \in present : \E k \in DOMAIN found : c = found[k]
    \/ found = <<>> /\ \E d \in present : ZeroFamily(d) /\ \A c \in present : ~D!Before(c, d)

SearchInv ==
    pc # "poll" /\ ~removed =>
        /\ FoundSoFar /\ Len(found) <= 4
        /\ pc = "search" /\ i < 4 =>
              BetweenSearches /\ (found # <<>> => ROM_NO = LastFound)
        /\ pc = "bits" => MidSearch
        /\ i = 4 => SearchesOver

WireReadings == [temperature : Temperatures \union {0}, success : BOOLEAN,
             of : Addresses \union {None}]

\* What is counted, and whose turn it is; nothing is read before all is found.
PollInv ==
    /\ numds \in 0 .. 2 * i
    /\ currds \in 0 .. numds + 1
    /\ (\A c \in D!Range(found) : D!Family(c) = Families.b) => numds = Len(found)
    /\ dsreading \in [D!Slots -> WireReadings]
    /\ pc # "poll" => currds = 0 /\ \A s \in D!Slots : ~dsreading[s].success
    /\ D!ReadingIsOwn

WireInv == WireTyped /\ SearchInv /\ PollInv

\* One bit more of an address.
LEMMA AgreeSet ==
    ASSUME NEW r, NEW r2, NEW b \in 1 .. D!Bits,
           \A k \in 1 .. D!Bits : k # b => r2[k] = r[k]
    PROVE  /\ \A c : \A n \in 0 .. b - 1 : Agree(c, r2, n) <=> Agree(c, r, n)
           /\ \A c : Agree(c, r2, b) <=> Agree(c, r, b - 1) /\ c[b] = r2[b]
<1>1. ASSUME NEW c, NEW n \in 0 .. b - 1 PROVE Agree(c, r2, n) <=> Agree(c, r, n)
  BY WireAssumption DEF Agree
<1>2. ASSUME NEW c PROVE Agree(c, r2, b) <=> Agree(c, r2, b - 1) /\ c[b] = r2[b]
  BY WireAssumption DEF Agree
<1>3. b - 1 \in 0 .. b - 1
  BY WireAssumption
<1>4. QED
  BY <1>1, <1>2, <1>3

\* The direction that a search takes at a bit is one that a device answered:
\* that of the last search before its last branch, 1 at it, and behind it 0
\* if any device has it.
LEMMA Direction ==
    ASSUME WireTyped, FoundSoFar, MidSearch, ~removed, pc = "bits", D!SearchBit
    PROVE  \E v \in 0..1 :
              /\ ROM_NO' = [ROM_NO EXCEPT ![bit] = v]
              /\ selected' = {c \in selected : c[bit] = v}
              /\ last_zero' = IF v = 0 /\ \E c \in selected : c[bit] = 1 THEN bit ELSE last_zero
              /\ \E c \in selected : c[bit] = v
              /\ bit < LastDiscrepancy => found # <<>> /\ v = LastFound[bit]
              /\ bit = LastDiscrepancy => v = 1
              /\ bit > LastDiscrepancy => v = 0 \/ \A c \in selected : c[bit] = 1
<1> DEFINE answers == {c[bit] : c \in selected \intersect present}
           v == IF answers = {0, 1} THEN D!Branch ELSE CHOOSE b \in answers : TRUE
<1>1. /\ answers # {} /\ bit <= D!Bits /\ bit \in 1 .. D!Bits
      /\ ROM_NO' = [ROM_NO EXCEPT ![bit] = v]
      /\ selected' = {c \in selected : c[bit] = v}
      /\ last_zero' = IF answers = {0, 1} /\ v = 0 THEN bit ELSE last_zero
  BY WireAssumption DEF D!SearchBit, WireTyped
<1>2. selected \subseteq present /\ selected \subseteq Addresses
  BY WireAssumption DEF MidSearch, WireTyped, Addresses
<1>3. answers = {c[bit] : c \in selected} /\ answers \subseteq 0..1
  BY <1>1, <1>2 DEF Addresses
<1>4. ROM_NO[bit] \in 0..1
  BY <1>1 DEF WireTyped, Addresses
<1>5. v \in answers /\ (answers = {0, 1} => v = D!Branch)
  <2>1. CASE answers = {0, 1}
    <3>1. v = D!Branch
      BY <2>1
    <3>2. D!Branch \in 0..1
      BY <1>4 DEF D!Branch
    <3>3. QED
      BY <2>1, <3>1, <3>2
  <2>2. CASE answers # {0, 1}
    BY <1>1, <2>2
  <2>3. QED
    BY <2>1, <2>2
<1> HIDE DEF v
<1>6. v \in 0..1
  BY <1>3, <1>5
<1>7. \E c \in selected : c[bit] = v
  BY <1>3, <1>5
<1>8. answers = {0, 1} /\ v = 0 <=> v = 0 /\ \E c \in selected : c[bit] = 1
  BY <1>3, <1>5
<1>9. \A c \in selected : c[bit] \in answers
  BY <1>3
<1>10. answers # {0, 1} => \A x \in answers : x = v
  BY <1>3, <1>5
<1>11. bit \in Nat /\ LastDiscrepancy \in Nat
  BY WireAssumption DEF WireTyped
<1> HIDE DEF answers
<1>12. ASSUME bit <= LastDiscrepancy
      PROVE  /\ found # <<>>
             /\ \E w \in selected : w[bit] = IF bit < LastDiscrepancy THEN LastFound[bit] ELSE 1
  <2>1. found # <<>> /\ LastDiscrepancy > 0 /\ i # 4
    BY <1>1, <1>12 DEF MidSearch, WireTyped
  <2>2. PICK w \in present : /\ Agree(w, LastFound, LastDiscrepancy - 1)
                             /\ w[LastDiscrepancy] = 1
    BY <2>1 DEF FoundSoFar, Branches
  <2>3. \A k \in 1 .. bit - 1 : ROM_NO[k] = LastFound[k]
    BY <1>1, <1>12, <2>1, WireAssumption DEF MidSearch, WireTyped
  <2>4. \A k \in 1 .. LastDiscrepancy - 1 : w[k] = LastFound[k]
    BY <2>2 DEF Agree
  <2>5. Agree(w, ROM_NO, bit - 1)
    BY <1>11, <1>12, <2>3, <2>4 DEF Agree
  <2>6. w \in selected
    BY <2>5 DEF MidSearch
  <2>7. w[bit] = IF bit < LastDiscrepancy THEN LastFound[bit] ELSE 1
    <3>1. bit \in Nat /\ bit >= 1 /\ LastDiscrepancy \in Nat
      BY <1>1, WireAssumption DEF WireTyped
    <3>2. CASE bit < LastDiscrepancy
      BY <3>1, <3>2, <2>4
    <3>3. CASE ~(bit < LastDiscrepancy)
      <4>1. bit = LastDiscrepancy
        BY <1>12, <3>1, <3>3
      <4>2. QED
        BY <2>2, <3>3, <4>1, Zenon
    <3>4. QED
      BY <3>2, <3>3
  <2>8. QED
    BY <2>1, <2>6, <2>7
<1>13. bit < LastDiscrepancy => found # <<>> /\ v = LastFound[bit]
  <2> SUFFICES ASSUME bit < LastDiscrepancy PROVE found # <<>> /\ v = LastFound[bit]
    OBVIOUS
  <2>1. found # <<>> /\ LastFound[bit] \in answers
    BY <1>12, <1>9, <1>11
  <2>2. ROM_NO[bit] = LastFound[bit]
    BY <1>1, <2>1 DEF MidSearch
  <2>3. CASE answers = {0, 1}
    BY <1>5, <2>1, <2>2, <2>3 DEF D!Branch
  <2>4. CASE answers # {0, 1}
    BY <1>10, <2>1, <2>4
  <2>5. QED
    BY <2>1, <2>3, <2>4
<1>14. bit = LastDiscrepancy => v = 1
  <2> SUFFICES ASSUME bit = LastDiscrepancy PROVE v = 1
    OBVIOUS
  <2>1. 1 \in answers
    BY <1>12, <1>9, <1>11
  <2>2. CASE answers = {0, 1}
    BY <1>5, <1>11, <2>2 DEF D!Branch
  <2>3. CASE answers # {0, 1}
    BY <1>10, <2>1, <2>3
  <2>4. QED
    BY <2>2, <2>3
<1>15. bit > LastDiscrepancy => v = 0 \/ \A c \in selected : c[bit] = 1
  <2> SUFFICES ASSUME bit > LastDiscrepancy, v # 0 PROVE \A c \in selected : c[bit] = 1
    OBVIOUS
  <2>1. answers # {0, 1}
    BY <1>5, <1>11 DEF D!Branch
  <2>2. answers = {1}
    BY <1>3, <1>5, <1>6, <1>10, <2>1
  <2>3. QED
    BY <1>9, <2>2
<1>16. QED
  BY <1>1, <1>6, <1>7, <1>8, <1>13, <1>14, <1>15

\* A search goes on to the first device behind the last one found.
LEMMA BitKeeps ==
    ASSUME WireTyped, FoundSoFar, MidSearch, ~removed, pc = "bits", D!SearchBit
    PROVE  FoundSoFar' /\ MidSearch'
<1>1. PICK v \in 0..1 :
         /\ ROM_NO' = [ROM_NO EXCEPT ![bit] = v]
         /\ selected' = {c \in selected : c[bit] = v}
         /\ last_zero' = IF v = 0 /\ \E c \in selected : c[bit] = 1 THEN bit ELSE last_zero
         /\ \E c \in selected : c[bit] = v
         /\ bit < LastDiscrepancy => found # <<>> /\ v = LastFound[bit]
         /\ bit = LastDiscrepancy => v = 1
         /\ bit > LastDiscrepancy => v = 0 \/ \A c \in selected : c[bit] = 1
  BY Direction
<1>2. /\ bit' = bit + 1 /\ bit \in 1 .. D!Bits
      /\ UNCHANGED <<present, pc, LastDiscrepancy, LastDeviceFlag, i, found, removed>>
  BY WireAssumption DEF D!SearchBit, WireTyped
<1>3. D!Bits \in Nat /\ LastDiscrepancy \in Nat /\ last_zero \in Nat
  BY WireAssumption DEF WireTyped
<1>4. ROM_NO \in Addresses
  BY DEF WireTyped
<1>5. ROM_NO'[bit] = v /\ \A k \in 1 .. D!Bits : k # bit => ROM_NO'[k] = ROM_NO[k]
  BY <1>1, <1>2, <1>4 DEF Addresses
<1>6. /\ \A c : \A n \in 0 .. bit - 1 : Agree(c, ROM_NO', n) <=> Agree(c, ROM_NO, n)
      /\ \A c : Agree(c, ROM_NO', bit) <=> Agree(c, ROM_NO, bit - 1) /\ c[bit] = v
  BY <1>2, <1>5, AgreeSet
<1>7. selected = {c \in present : Agree(c, ROM_NO, bit - 1)}
  BY DEF MidSearch
<1>8. LastFound' = LastFound
  BY <1>2 DEF LastFound
<1>9. FoundSoFar'
  BY <1>2, <1>8 DEF FoundSoFar, Placed, Branches, ZeroFamily
<1>10. selected' = {c \in present' : Agree(c, ROM_NO', bit' - 1)} /\ selected' # {}
  <2>1. bit' - 1 = bit
    BY <1>2
  <2>2. QED
    BY <1>1, <1>2, <1>6, <1>7, <2>1
<1>11. Placed(ROM_NO, bit - 1)'
  <2> SUFFICES ASSUME NEW c \in present
               PROVE  \/ Agree(c, ROM_NO', bit)
                      \/ \E k \in 1..bit : c[k] # ROM_NO'[k] /\ Agree(c, ROM_NO', k - 1)
    BY <1>2 DEF Placed
  <2>1. CASE Agree(c, ROM_NO, bit - 1)
    <3>1. Agree(c, ROM_NO', bit - 1)
      BY <1>2, <1>6, <2>1
    <3>2. CASE c[bit] = v
      BY <1>6, <2>1, <3>2
    <3>3. CASE c[bit] # v
      BY <1>2, <1>5, <3>1, <3>3
    <3>4. QED
      BY <3>2, <3>3
  <2>2. ASSUME NEW k \in 1 .. bit - 1, c[k] # ROM_NO[k], Agree(c, ROM_NO, k - 1)
        PROVE  c[k] # ROM_NO'[k] /\ Agree(c, ROM_NO', k - 1) /\ k \in 1..bit
    BY <1>2, <1>3, <1>5, <1>6, <2>2
  <2>3. QED
    BY <2>1, <2>2 DEF MidSearch, Placed
<1>12. ASSUME NEW c \in present, NEW k \in LastDiscrepancy + 1 .. bit,
             Agree(c, ROM_NO', k - 1), ROM_NO'[k] = 1
       PROVE c[k] = 1
  <2>1. CASE k < bit
    <3>1. k \in 1 .. D!Bits /\ k # bit /\ k - 1 \in 0 .. bit - 1
            /\ k \in LastDiscrepancy + 1 .. bit - 1
      BY <1>2, <1>3, <2>1
    <3>2. Agree(c, ROM_NO, k - 1) /\ ROM_NO[k] = 1
      BY <1>5, <1>6, <1>12, <3>1
    <3>3. QED
      BY <3>1, <3>2 DEF MidSearch
  <2>2. CASE k = bit
    <3>1. Agree(c, ROM_NO, bit - 1) /\ v = 1 /\ bit > LastDiscrepancy
      BY <1>2, <1>3, <1>5, <1>6, <1>12, <2>2
    <3>2. c \in selected
      BY <1>7, <3>1
    <3>3. QED
      BY <1>1, <2>2, <3>1, <3>2
  <2>3. QED
    BY <1>2, <1>3, <2>1, <2>2
<1>13. last_zero' < bit' /\ Branches(ROM_NO, last_zero, bit - 1)'
  <2>1. /\ last_zero < bit
        /\ last_zero # 0 => ROM_NO[last_zero] = 0
              /\ \E c \in present : Agree(c, ROM_NO, last_zero - 1) /\ c[last_zero] = 1
        /\ \A c \in present : \A k \in last_zero + 1 .. bit - 1 :
              Agree(c, ROM_NO, k - 1) /\ ROM_NO[k] = 0 => c[k] = 0
    BY DEF MidSearch, Branches
  <2>2. CASE v = 0 /\ \E c \in selected : c[bit] = 1
    <3>1. last_zero' = bit
      BY <1>1, <2>2
    <3>2. PICK c \in selected : c[bit] = 1
      BY <2>2
    <3>3. c \in present /\ Agree(c, ROM_NO', bit - 1) /\ ROM_NO'[bit] = 0
      BY <1>2, <1>5, <1>6, <1>7, <2>2
    <3>4. \A k \in bit + 1 .. bit : FALSE
      BY <1>2, <1>3
    <3>5. QED
      BY <1>2, <1>3, <3>1, <3>2, <3>3, <3>4 DEF Branches
  <2>3. CASE ~(v = 0 /\ \E c \in selected : c[bit] = 1)
    <3>1. last_zero' = last_zero
      BY <1>1, <2>3
    <3>2. ASSUME last_zero # 0
          PROVE  ROM_NO'[last_zero] = 0
                   /\ \E c \in present : Agree(c, ROM_NO', last_zero - 1) /\ c[last_zero] = 1
      BY <1>2, <1>3, <2>1, <3>2, <1>5, <1>6
    <3>3. ASSUME NEW c \in present, NEW k \in last_zero + 1 .. bit,
                 Agree(c, ROM_NO', k - 1), ROM_NO'[k] = 0
          PROVE  c[k] = 0
      <4>1. CASE k < bit
        <5>1. k \in 1 .. D!Bits /\ k # bit /\ k - 1 \in 0 .. bit - 1
                /\ k \in last_zero + 1 .. bit - 1
          BY <1>2, <1>3, <4>1
        <5>2. Agree(c, ROM_NO, k - 1) /\ ROM_NO[k] = 0
          BY <1>5, <1>6, <3>3, <5>1
        <5>3. QED
          BY <2>1, <5>1, <5>2
      <4>2. CASE k = bit
        <5>1. bit - 1 \in 0 .. bit - 1
          BY <1>2, <1>3
        <5>2. c \in selected /\ v = 0
          BY <1>5, <1>6, <1>7, <3>3, <4>2, <5>1
        <5>3. c[bit] \in 0..1
          BY <1>2, WireAssumption DEF WireTyped
        <5>4. QED
          BY <2>3, <4>2, <5>2, <5>3
      <4>3. QED
        BY <1>2, <1>3, <4>1, <4>2
    <3>4. bit' - 1 = bit /\ last_zero < bit'
      BY <1>2, <1>3, <2>1
    <3>5. QED
      BY <1>2, <3>1, <3>2, <3>3, <3>4 DEF Branches
  <2>4. QED
    BY <2>2, <2>3
<1>14. ASSUME found # <<>>
       PROVE  /\ LastDiscrepancy > 0
              /\ \A k \in 1 .. D!Bits : k < LastDiscrepancy \/ k >= bit' => ROM_NO'[k] = LastFound[k]
              /\ LastDiscrepancy < bit' => ROM_NO'[LastDiscrepancy] = 1
  <2>1. /\ LastDiscrepancy > 0
        /\ \A k \in 1 .. D!Bits : k < LastDiscrepancy \/ k >= bit => ROM_NO[k] = LastFound[k]
        /\ LastDiscrepancy < bit => ROM_NO[LastDiscrepancy] = 1
    BY <1>14 DEF MidSearch
  <2>2. ASSUME NEW k \in 1 .. D!Bits, k < LastDiscrepancy \/ k >= bit'
        PROVE  ROM_NO'[k] = LastFound[k]
    BY <1>1, <1>2, <1>3, <1>5, <2>1, <2>2
  <2>3. LastDiscrepancy \in 1 .. D!Bits
    BY <1>3, <2>1 DEF WireTyped
  <2>4. LastDiscrepancy < bit' => ROM_NO'[LastDiscrepancy] = 1
    BY <1>1, <1>2, <1>3, <1>5, <2>1, <2>3
  <2>5. QED
    BY <2>1, <2>2, <2>4
<1>15. MidSearch'
  <2>1. Len(found)' = i' /\ ~LastDeviceFlag' /\ (found' = <<>> => LastDiscrepancy' = 0)
    BY <1>2 DEF MidSearch
  <2>2. bit' - 1 = bit
    BY <1>2, <1>3
  <2>3. QED
    BY <1>2, <1>8, <1>10, <1>11, <1>12, <1>13, <1>14, <2>1, <2>2 DEF MidSearch
<1>16. QED
  BY <1>9, <1>15

LEMMA AgreeEqual ==
    ASSUME NEW c \in Addresses, NEW d \in Addresses, Agree(c, d, D!Bits)
    PROVE  c = d
<1>1. c = [k \in 1 .. D!Bits |-> c[k]] /\ d = [k \in 1 .. D!Bits |-> d[k]]
  BY DEF Addresses
<1>2. \A k \in 1 .. D!Bits : c[k] = d[k]
  BY DEF Agree
<1>3. QED
  BY <1>1, <1>2

\* The order of the bits.
LEMMA BeforeTransitive ==
    ASSUME NEW c \in Addresses, NEW d \in Addresses, NEW e \in Addresses,
           D!Before(c, d), D!Before(d, e)
    PROVE  D!Before(c, e)
<1>1. PICK k \in 1 .. D!Bits : c[k] < d[k] /\ \A l \in 1 .. k - 1 : c[l] = d[l]
  BY DEF D!Before
<1>2. PICK m \in 1 .. D!Bits : d[m] < e[m] /\ \A l \in 1 .. m - 1 : d[l] = e[l]
  BY DEF D!Before
<1>3. \A l \in 1 .. D!Bits : c[l] \in Int /\ d[l] \in Int /\ e[l] \in Int
  BY DEF Addresses
<1>4. k \in Int /\ m \in Int
  BY WireAssumption
<1>5. CASE k <= m
  <2>1. c[k] < e[k]
    BY <1>1, <1>2, <1>3, <1>4, <1>5
  <2>2. \A l \in 1 .. k - 1 : c[l] = e[l]
    BY <1>1, <1>2, <1>4, <1>5
  <2>3. QED
    BY <2>1, <2>2 DEF D!Before
<1>6. CASE m < k
  <2>1. c[m] < e[m]
    BY <1>1, <1>2, <1>3, <1>4, <1>6
  <2>2. \A l \in 1 .. m - 1 : c[l] = e[l]
    BY <1>1, <1>2, <1>4, <1>6
  <2>3. QED
    BY <2>1, <2>2 DEF D!Before
<1>7. QED
  BY <1>4, <1>5, <1>6

LEMMA BeforeAgree ==
    ASSUME NEW c \in Addresses, NEW d \in Addresses
    PROVE  D!Before(c, d) <=>
              \E k \in 1 .. D!Bits : c[k] = 0 /\ d[k] = 1 /\ Agree(c, d, k - 1)
<1>1. \A k \in 1 .. D!Bits : c[k] \in 0..1 /\ d[k] \in 0..1
  BY DEF Addresses
<1>2. \A k \in 1 .. D!Bits : c[k] < d[k] <=> c[k] = 0 /\ d[k] = 1
  BY <1>1
<1>3. QED
  BY <1>2 DEF D!Before, Agree

\* The family is zero if its bits are.
LEMMA FamilyFacts ==
    ASSUME NEW c \in Addresses
    PROVE  ZeroFamily(c) <=> \A k \in 1 .. FamilyBits : c[k] = 0
<1>1. FamilyBits \in Nat /\ D!Bits \in Nat /\ FamilyBits <= D!Bits
  BY WireAssumption
<1>2. c \in Seq(0..1) /\ Len(c) = D!Bits
  BY <1>1 DEF Addresses
<1>3. D!Zero \in Seq(0..1) /\ Len(D!Zero) = D!Bits /\ \A k \in 1 .. D!Bits : D!Zero[k] = 0
  BY <1>1 DEF D!Zero
<1>4. /\ Len(SubSeq(c, 1, FamilyBits)) = FamilyBits
      /\ Len(SubSeq(D!Zero, 1, FamilyBits)) = FamilyBits
      /\ SubSeq(c, 1, FamilyBits) \in Seq(0..1) /\ SubSeq(D!Zero, 1, FamilyBits) \in Seq(0..1)
      /\ \A k \in 1 .. FamilyBits : SubSeq(c, 1, FamilyBits)[k] = c[k]
                                      /\ SubSeq(D!Zero, 1, FamilyBits)[k] = 0
  BY <1>1, <1>2, <1>3
<1>5. QED
  BY <1>4 DEF ZeroFamily, D!Family

\* At the end of a search its result is a device, the last one found is before
\* it, and every device before it was found.
LEMMA SearchResult ==
    ASSUME WireTyped, FoundSoFar, MidSearch, i < 4, D!SearchEnds
    PROVE  /\ bit = D!Bits + 1
           /\ ROM_NO \in present
           /\ \A c \in present : D!Before(c, ROM_NO) => \E k \in DOMAIN found : c = found[k]
           /\ found # <<>> =>
                 /\ LastDiscrepancy \in 1 .. D!Bits
                 /\ LastFound[LastDiscrepancy] = 0 /\ ROM_NO[LastDiscrepancy] = 1
                 /\ Agree(LastFound, ROM_NO, LastDiscrepancy - 1)
<1>1. present \subseteq Addresses /\ ROM_NO \in Addresses /\ D!Bits \in Nat
  BY WireAssumption DEF WireTyped, Addresses
<1>2. selected = {c \in present : Agree(c, ROM_NO, bit - 1)} /\ selected # {}
  BY DEF MidSearch
<1>3. bit = D!Bits + 1
  BY <1>2, WireAssumption DEF WireTyped, D!SearchEnds
<1>4. ROM_NO \in present
  <2>1. PICK c \in present : Agree(c, ROM_NO, D!Bits)
    BY <1>1, <1>2, <1>3
  <2>2. c = ROM_NO
    BY <1>1, <2>1, AgreeEqual
  <2>3. QED
    BY <2>2
<1>5. ASSUME found # <<>>
      PROVE  /\ LastDiscrepancy \in 1 .. D!Bits
             /\ LastFound[LastDiscrepancy] = 0 /\ ROM_NO[LastDiscrepancy] = 1
             /\ \A k \in 1 .. LastDiscrepancy - 1 : ROM_NO[k] = LastFound[k]
             /\ LastFound \in present
             /\ Branches(LastFound, LastDiscrepancy, D!Bits)
  <2>1. LastDiscrepancy \in 1 .. D!Bits
    BY <1>5 DEF MidSearch, WireTyped
  <2>2. Branches(LastFound, LastDiscrepancy, D!Bits)
    BY <1>5 DEF FoundSoFar
  <2>3. LastFound[LastDiscrepancy] = 0
    BY <2>1, <2>2 DEF Branches
  <2>4. ROM_NO[LastDiscrepancy] = 1
    BY <1>1, <1>3, <1>5, <2>1 DEF MidSearch
  <2>5. \A k \in 1 .. LastDiscrepancy - 1 : ROM_NO[k] = LastFound[k]
    BY <1>1, <1>5, <2>1 DEF MidSearch
  <2>6. Len(found) \in DOMAIN found
    BY <1>5 DEF WireTyped
  <2>7. LastFound \in present
    BY <2>6 DEF FoundSoFar, LastFound
  <2>8. QED
    BY <2>1, <2>2, <2>3, <2>4, <2>5, <2>7
<1>6. ASSUME NEW c \in present, D!Before(c, ROM_NO)
      PROVE  \E k \in DOMAIN found : c = found[k]
  <2>1. PICK k \in 1 .. D!Bits : c[k] = 0 /\ ROM_NO[k] = 1 /\ Agree(c, ROM_NO, k - 1)
    BY <1>1, <1>6, BeforeAgree
  <2>2. k <= LastDiscrepancy
    BY <1>1, <1>3, <2>1 DEF MidSearch, WireTyped
  <2>3. found # <<>>
    BY <1>1, <2>2 DEF MidSearch
  <2>4. LastFound \in present /\ LastFound \in Addresses /\ c \in Addresses
    BY <1>1, <1>5, <2>3
  <2>5. Agree(c, LastFound, k - 1)
    BY <1>1, <1>5, <2>2, <2>3, <2>1 DEF Agree
  <2>6. D!Before(c, LastFound) => \E m \in DOMAIN found : c = found[m]
    BY <2>3 DEF FoundSoFar
  <2>7. CASE k < LastDiscrepancy
    <3>1. k \in 1 .. LastDiscrepancy - 1
      BY <1>1, <1>5, <2>3, <2>7
    <3>2. LastFound[k] = 1
      BY <1>5, <2>1, <2>3, <3>1
    <3>3. D!Before(c, LastFound)
      BY <2>1, <2>4, <2>5, <3>2, BeforeAgree
    <3>4. QED
      BY <2>6, <3>3
  <2>8. CASE k = LastDiscrepancy
    <3>1. \A l \in 1..k : c[l] = LastFound[l]
      BY <1>1, <1>5, <2>1, <2>3, <2>5, <2>8 DEF Agree
    <3>2. CASE Agree(c, LastFound, D!Bits)
      <4>1. c = LastFound
        BY <2>4, <3>2, AgreeEqual
      <4>2. Len(found) \in DOMAIN found
        BY <2>3 DEF WireTyped
      <4>3. QED
        BY <4>1, <4>2 DEF LastFound
    <3>3. ASSUME NEW m \in 1 .. D!Bits, c[m] # LastFound[m], Agree(c, LastFound, m - 1)
          PROVE  D!Before(c, LastFound)
      <4>1. m > LastDiscrepancy
        BY <1>1, <1>5, <2>3, <2>8, <3>1, <3>3
      <4>2. LastFound[m] = 0 => c[m] = 0
        BY <1>1, <1>5, <2>3, <3>3, <4>1 DEF Branches
      <4>3. c[m] \in 0..1 /\ LastFound[m] \in 0..1
        BY <2>4 DEF Addresses
      <4>4. QED
        BY <2>4, <3>3, <4>2, <4>3, BeforeAgree
    <3>4. QED
      BY <2>3, <2>6, <3>2, <3>3 DEF FoundSoFar, Placed
  <2>9. QED
    BY <1>1, <1>5, <2>2, <2>3, <2>7, <2>8
<1>7. QED
  BY <1>3, <1>4, <1>5, <1>6 DEF Agree

\* A device of family zero comes first, so that none is there once another
\* has been found.
LEMMA NoZeroFamily ==
    ASSUME WireTyped, FoundSoFar, found # <<>>, NEW d \in present
    PROVE  ~ZeroFamily(d)
<1> SUFFICES ASSUME ZeroFamily(d) PROVE FALSE
  OBVIOUS
<1>1. present \subseteq Addresses /\ D!Bits \in Nat
  BY WireAssumption DEF WireTyped, Addresses
<1>2. Len(found) \in DOMAIN found
  BY DEF WireTyped
<1>3. LastFound \in present /\ ~ZeroFamily(LastFound)
  BY <1>2 DEF FoundSoFar, LastFound
<1>4. \A k \in 1 .. FamilyBits : d[k] = 0
  BY <1>1, FamilyFacts
<1>5. CASE Agree(d, LastFound, D!Bits)
  BY <1>1, <1>3, <1>5, AgreeEqual
<1>6. ASSUME NEW k \in 1 .. D!Bits, d[k] # LastFound[k], Agree(d, LastFound, k - 1)
      PROVE  FALSE
  <2>1. d[k] \in 0..1 /\ LastFound[k] \in 0..1
    BY <1>1, <1>3 DEF Addresses
  <2>2. CASE d[k] = 0
    <3>1. D!Before(d, LastFound)
      BY <1>1, <1>3, <1>6, <2>1, <2>2, BeforeAgree
    <3>2. PICK m \in DOMAIN found : d = found[m]
      BY <3>1 DEF FoundSoFar
    <3>3. QED
      BY <3>2 DEF FoundSoFar
  <2>3. CASE d[k] = 1
    <3>1. \A l \in 1 .. FamilyBits : l \in 1 .. k - 1
      BY <1>1, <1>4, <2>3, WireAssumption
    <3>2. \A l \in 1 .. FamilyBits : LastFound[l] = 0
      BY <1>4, <1>6, <3>1 DEF Agree
    <3>3. QED
      BY <1>1, <1>3, <3>2, FamilyFacts
  <2>4. QED
    BY <2>1, <2>2, <2>3
<1>7. QED
  BY <1>5, <1>6 DEF FoundSoFar, Placed

\* A search that ends well gives the next device; one that does not has met a
\* device of family zero, which is the first.
LEMMA EndKeeps ==
    ASSUME WireTyped, FoundSoFar, MidSearch, i < 4, ~removed, pc = "bits", D!SearchEnds
    PROVE  /\ FoundSoFar' /\ Len(found') <= 4
           /\ i' < 4 => BetweenSearches' /\ (found' # <<>> => ROM_NO' = LastFound')
           /\ i' = 4 => SearchesOver'
<1>1. /\ present \subseteq Addresses /\ ROM_NO \in Addresses /\ D!Bits \in Nat
      /\ last_zero \in Nat /\ i \in 0..3
  BY WireAssumption DEF WireTyped, Addresses
<1>2. /\ bit = D!Bits + 1
      /\ ROM_NO \in present
      /\ \A c \in present : D!Before(c, ROM_NO) => \E k \in DOMAIN found : c = found[k]
      /\ found # <<>> =>
            /\ LastDiscrepancy \in 1 .. D!Bits
            /\ LastFound[LastDiscrepancy] = 0 /\ ROM_NO[LastDiscrepancy] = 1
            /\ Agree(LastFound, ROM_NO, LastDiscrepancy - 1)
  BY SearchResult
<1>3. UNCHANGED <<present, ROM_NO, removed>>
  BY DEF D!SearchEnds
<1>4. found \in Seq(Addresses) /\ Len(found) = i /\ DOMAIN found = 1 .. Len(found)
  BY DEF WireTyped, MidSearch
<1>5. CASE ZeroFamily(ROM_NO)
  <2>1. found' = found /\ i' = 4
    BY <1>5 DEF D!SearchEnds, ZeroFamily
  <2>2. found = <<>>
    BY <1>2, <1>5, NoZeroFamily
  <2>3. FoundSoFar'
    BY <2>1, <2>2 DEF FoundSoFar
  <2>4. SearchesOver'
    <3>1. DOMAIN found = {}
      BY <1>4, <2>2
    <3>2. \A c \in present : ~D!Before(c, ROM_NO)
      BY <1>2, <3>1
    <3>3. found' = <<>> /\ ROM_NO \in present /\ ZeroFamily(ROM_NO) /\ present' = present
      BY <1>2, <1>3, <1>5, <2>1, <2>2
    <3>4. \E d \in present' : ZeroFamily(d) /\ \A c \in present' : ~D!Before(c, d)
      BY <3>2, <3>3
    <3>5. QED
      BY <3>3, <3>4 DEF SearchesOver, ZeroFamily
  <2>5. QED
    BY <2>1, <2>2, <2>3, <2>4
<1>6. CASE ~ZeroFamily(ROM_NO)
  <2>1. /\ LastDiscrepancy' = last_zero /\ LastDeviceFlag' = (last_zero = 0)
        /\ i' = i + 1
        /\ found' = Append(found, ROM_NO)
    BY <1>1, <1>2, <1>6 DEF D!SearchEnds, ZeroFamily
  <2>2. /\ Len(found') = Len(found) + 1 /\ DOMAIN found' = 1 .. Len(found) + 1
        /\ found'[Len(found) + 1] = ROM_NO
        /\ \A k \in 1 .. Len(found) : found'[k] = found[k]
    BY <1>1, <1>4, <2>1
  <2>3. LastFound' = ROM_NO /\ found' # <<>>
    BY <1>4, <2>2 DEF LastFound
  <2>4. \A k \in DOMAIN found' : found'[k] \in present' /\ ~ZeroFamily(found'[k])
    BY <1>2, <1>3, <1>4, <1>6, <2>2 DEF FoundSoFar
  <2>5. \A k \in DOMAIN found : D!Before(found[k], ROM_NO)
    <3> SUFFICES ASSUME NEW k \in DOMAIN found PROVE D!Before(found[k], ROM_NO)
      OBVIOUS
    <3>1. found # <<>> /\ LastFound \in Addresses /\ found[k] \in Addresses
      BY <1>4 DEF LastFound
    <3>2. D!Before(LastFound, ROM_NO)
      BY <1>1, <1>2, <3>1, BeforeAgree
    <3>3. CASE k = Len(found)
      BY <3>2, <3>3 DEF LastFound
    <3>4. CASE k < Len(found)
      BY <1>4, <3>4, <1>1, <3>1, <3>2, BeforeTransitive DEF FoundSoFar, LastFound
    <3>5. QED
      BY <1>4, <3>3, <3>4
  <2>6. ASSUME NEW k \in DOMAIN found', NEW l \in DOMAIN found', k < l
        PROVE  D!Before(found'[k], found'[l])
    <3>1. CASE l = Len(found) + 1
      BY <1>4, <2>2, <2>5, <2>6, <3>1
    <3>2. CASE l <= Len(found)
      BY <1>4, <2>2, <2>6, <3>2 DEF FoundSoFar
    <3>3. QED
      BY <1>4, <2>2, <3>1, <3>2
  <2>7. Placed(ROM_NO, D!Bits) /\ Branches(ROM_NO, last_zero, D!Bits)
    BY <1>1, <1>2 DEF MidSearch
  <2>8. Placed(LastFound, D!Bits)' /\ Branches(LastFound, LastDiscrepancy, D!Bits)'
    BY <1>3, <2>1, <2>3, <2>7 DEF Placed, Branches
  <2>9. ASSUME NEW c \in present', D!Before(c, LastFound')
        PROVE  \E k \in DOMAIN found' : c = found'[k]
    <3>1. PICK k \in DOMAIN found : c = found[k]
      BY <1>2, <1>3, <2>3, <2>9
    <3>2. QED
      BY <1>4, <2>2, <3>1
  <2>10. FoundSoFar'
    BY <2>4, <2>6, <2>8, <2>9 DEF FoundSoFar
  <2>11. BetweenSearches'
    BY <1>4, <2>1, <2>2, <2>3 DEF BetweenSearches
  <2>12. i' = 4 => SearchesOver'
    BY <1>4, <2>1, <2>2 DEF SearchesOver
  <2>13. QED
    BY <1>1, <1>3, <1>4, <2>2, <2>3, <2>10, <2>11, <2>12
<1>7. QED
  BY <1>5, <1>6

LEMMA WireInitInv == D!Init => WireInv
<1> SUFFICES ASSUME D!Init PROVE WireInv
  OBVIOUS
<1>1. D!Bits \in Nat /\ D!Zero \in Addresses
  BY WireAssumption DEF D!Zero, Addresses
<1>2. WireTyped
  <2>1. present \subseteq Codes /\ selected \subseteq Codes
    BY DEF D!Init
  <2>2. removed \in BOOLEAN /\ LastDeviceFlag \in BOOLEAN /\ shorted \in BOOLEAN
    BY DEF D!Init
  <2>3. addr \in [D!Slots -> Addresses] /\ found \in Seq(Addresses)
    BY <1>1 DEF D!Init
  <2>4. /\ pc \in {"search", "bits", "poll"} /\ pc # "bits" /\ i \in 0..4
        /\ ROM_NO \in Addresses
        /\ bit \in 1 .. D!Bits + 1 /\ LastDiscrepancy \in 0 .. D!Bits /\ last_zero \in 0 .. D!Bits
    BY <1>1 DEF D!Init
  <2>5. QED
    BY <2>1, <2>2, <2>3, <2>4 DEF WireTyped
<1>3. found = <<>> /\ Len(found) = 0 /\ DOMAIN found = {} /\ i = 0 /\ pc = "search"
      /\ LastDiscrepancy = 0 /\ LastDeviceFlag = FALSE
  BY DEF D!Init
<1>4. SearchInv
  BY <1>3 DEF SearchInv, FoundSoFar, BetweenSearches
<1>5. D!NoReading \in WireReadings
  BY DEF D!NoReading, WireReadings
<1>6. PollInv
  BY <1>3, <1>5 DEF D!Init, PollInv, D!ReadingIsOwn, D!NoReading
<1>7. QED
  BY <1>2, <1>4, <1>6 DEF WireInv

LEMMA WireTypedNext == WireTyped /\ [D!Next]_(D!vars) => WireTyped'
<1> SUFFICES ASSUME WireTyped, [D!Next]_(D!vars) PROVE WireTyped'
  OBVIOUS
<1>1. D!Bits \in Nat
  BY WireAssumption
<1>2. CASE D!Remove
  BY <1>2 DEF D!Remove, WireTyped
<1>3. CASE D!Short
  BY <1>3 DEF D!Short, WireTyped
<1>4. CASE D!SearchReset
  BY <1>1, <1>4 DEF D!SearchReset, WireTyped
<1>5. CASE D!SearchFails
  <2>1. addr' \in [D!Slots -> Addresses]
    BY <1>5 DEF D!SearchFails, WireTyped
  <2>2. LastDeviceFlag' \in BOOLEAN
    BY <1>5 DEF D!SearchFails
  <2>3. LastDiscrepancy' \in 0 .. D!Bits /\ i' \in 0..4 /\ pc' = "search"
    BY <1>1, <1>5 DEF D!SearchFails
  <2>4. QED
    BY <1>5, <2>1, <2>2, <2>3 DEF D!SearchFails, WireTyped
<1>6. CASE D!SearchBit
  <2> DEFINE answers == {c[bit] : c \in selected \intersect present}
             v == IF answers = {0, 1} THEN D!Branch ELSE CHOOSE b \in answers : TRUE
  <2>1. /\ answers # {} /\ bit \in 1 .. D!Bits
        /\ ROM_NO' = [ROM_NO EXCEPT ![bit] = v]
        /\ selected' = {c \in selected : c[bit] = v}
        /\ last_zero' = IF answers = {0, 1} /\ v = 0 THEN bit ELSE last_zero
        /\ bit' = bit + 1
    BY <1>1, <1>6 DEF D!SearchBit, WireTyped
  <2>2. answers \subseteq 0..1 /\ D!Branch \in 0..1
    BY <2>1, WireAssumption DEF WireTyped, Addresses, D!Branch
  <2>3. v \in 0..1
    BY <2>1, <2>2
  <2> HIDE DEF v
  <2>4. ROM_NO' \in Addresses
    BY <2>1, <2>3 DEF WireTyped, Addresses
  <2>5. last_zero' \in 0 .. D!Bits /\ bit' \in 1 .. D!Bits + 1 /\ selected' \subseteq Codes
    BY <1>1, <2>1 DEF WireTyped
  <2>6. QED
    BY <1>6, <2>4, <2>5 DEF D!SearchBit, WireTyped
<1>7. CASE D!SearchEnds
  <2>1. i \in 0..3
    BY <1>7 DEF D!SearchEnds, WireTyped
  <2>2. addr' \in [D!Slots -> Addresses]
    BY <1>7, <2>1 DEF D!SearchEnds, WireTyped
  <2>3. found' \in Seq(Addresses) /\ i' \in 0..4
    <3>1. \/ i' = 4 /\ found' = found
          \/ i' = i + 1 /\ found' = Append(found, ROM_NO)
      BY <1>7, Zenon DEF D!SearchEnds
    <3>2. found \in Seq(Addresses) /\ ROM_NO \in Addresses
      BY DEF WireTyped
    <3>3. Append(found, ROM_NO) \in Seq(Addresses)
      BY <3>2
    <3>4. QED
      BY <2>1, <3>1, <3>2, <3>3
  <2>4. LastDeviceFlag' \in BOOLEAN
    BY <1>7, Zenon DEF D!SearchEnds
  <2>5. LastDiscrepancy' \in 0 .. D!Bits
    <3>1. LastDiscrepancy' = 0 \/ LastDiscrepancy' = last_zero
      BY <1>7, Zenon DEF D!SearchEnds
    <3>2. QED
      BY <1>1, <3>1 DEF WireTyped
  <2>6. pc' = "search" /\ UNCHANGED <<present, selected, removed, shorted, ROM_NO, bit, last_zero>>
    BY <1>7 DEF D!SearchEnds
  <2>7. QED
    BY <2>2, <2>3, <2>4, <2>5, <2>6 DEF WireTyped
<1>8. CASE D!Ready
  BY <1>8 DEF D!Ready, WireTyped
<1>9. CASE D!Poll
  BY <1>9 DEF D!Poll, WireTyped
<1>10. CASE UNCHANGED D!vars
  BY <1>10 DEF D!vars, WireTyped
<1>11. QED
  BY <1>2, <1>3, <1>4, <1>5, <1>6, <1>7, <1>8, <1>9, <1>10 DEF D!Next

\* If the last search has taken its last branch, every device was found.
LEMMA AllFound ==
    ASSUME WireTyped, FoundSoFar, BetweenSearches, i < 4, LastDeviceFlag, NEW c \in present
    PROVE  \E k \in DOMAIN found : c = found[k]
<1>1. present \subseteq Addresses /\ D!Bits \in Nat
  BY WireAssumption DEF WireTyped, Addresses
<1>2. found # <<>> /\ LastDiscrepancy = 0
  BY DEF BetweenSearches
<1>3. Len(found) \in DOMAIN found
  BY <1>2 DEF WireTyped
<1>4. LastFound \in Addresses /\ c \in Addresses
  BY <1>1, <1>3 DEF FoundSoFar, LastFound
<1>5. Branches(LastFound, 0, D!Bits)
  BY <1>2 DEF FoundSoFar
<1>6. CASE Agree(c, LastFound, D!Bits)
  BY <1>3, <1>4, <1>6, AgreeEqual DEF LastFound
<1>7. ASSUME NEW k \in 1 .. D!Bits, c[k] # LastFound[k], Agree(c, LastFound, k - 1)
      PROVE  D!Before(c, LastFound)
  <2>1. c[k] \in 0..1 /\ LastFound[k] \in 0..1
    BY <1>4 DEF Addresses
  <2>2. LastFound[k] = 0 => c[k] = 0
    BY <1>1, <1>5, <1>7 DEF Branches
  <2>3. QED
    BY <1>4, <1>7, <2>1, <2>2, BeforeAgree
<1>8. QED
  BY <1>2, <1>6, <1>7 DEF FoundSoFar, Placed

LEMMA SearchNext == WireTyped /\ SearchInv /\ [D!Next]_(D!vars) => SearchInv'
<1> SUFFICES ASSUME WireTyped, SearchInv, [D!Next]_(D!vars), (pc # "poll")', (~removed)'
             PROVE  /\ FoundSoFar' /\ Len(found') <= 4
                    /\ pc' = "search" /\ i' < 4 =>
                          BetweenSearches' /\ (found' # <<>> => ROM_NO' = LastFound')
                    /\ pc' = "bits" => MidSearch'
                    /\ i' = 4 => SearchesOver'
  BY DEF SearchInv
<1>1. CASE D!Remove \/ D!Short \/ D!Ready \/ D!Poll
  BY <1>1 DEF D!Remove, D!Short, D!Ready, D!Poll
<1>2. CASE D!SearchReset
  <2>1. /\ FoundSoFar /\ Len(found) <= 4 /\ BetweenSearches
        /\ found # <<>> => ROM_NO = LastFound
    BY <1>2 DEF D!SearchReset, SearchInv
  <2>2. /\ bit' = 1 /\ last_zero' = 0 /\ selected' = present /\ pc' = "bits" /\ present # {}
        /\ i < 4 /\ ~LastDeviceFlag
        /\ UNCHANGED <<present, ROM_NO, LastDiscrepancy, LastDeviceFlag, i, found>>
    BY <1>2 DEF D!SearchReset
  <2>3. FoundSoFar' /\ LastFound' = LastFound
    BY <2>1, <2>2 DEF FoundSoFar, LastFound, Placed, Branches
  <2>4. LastDiscrepancy \in Nat
    BY WireAssumption DEF WireTyped
  <2>5. \A c : Agree(c, ROM_NO, 0)
    BY DEF Agree
  <2>6. Branches(ROM_NO, 0, 0)' /\ Placed(ROM_NO, 0)'
    BY <2>2, <2>5 DEF Branches, Placed
  <2>7. found # <<>> => LastDiscrepancy > 0
    BY <2>1, <2>2, <2>4 DEF BetweenSearches
  <2>8. selected' = {c \in present' : Agree(c, ROM_NO', 0)}
    BY <2>2, <2>5
  <2>9. bit' - 1 = 0 /\ bit' = 1 /\ last_zero' = 0 /\ \A k \in LastDiscrepancy' + 1 .. 0 : FALSE
    BY <2>2, <2>4
  <2>10. MidSearch'
    <3>1. Len(found') = i' /\ ~LastDeviceFlag' /\ (found' = <<>> => LastDiscrepancy' = 0)
      BY <2>1, <2>2 DEF BetweenSearches
    <3>2. found' # <<>> =>
            /\ LastDiscrepancy' > 0
            /\ \A k \in 1 .. D!Bits : ROM_NO'[k] = LastFound'[k]
            /\ ~(LastDiscrepancy' < bit')
      BY <2>1, <2>2, <2>3, <2>4, <2>7
    <3>3. QED
      BY <2>2, <2>6, <2>8, <2>9, <3>1, <3>2 DEF MidSearch
  <2>11. QED
    BY <2>1, <2>2, <2>3, <2>10
<1>3. CASE D!SearchFails
  <2>1. /\ FoundSoFar /\ Len(found) <= 4 /\ BetweenSearches /\ i < 4
    BY <1>3 DEF D!SearchFails, SearchInv
  <2>2. /\ LastDeviceFlag \/ present = {}
        /\ i' = 4 /\ pc' = "search"
        /\ UNCHANGED <<present, found>>
    BY <1>3 DEF D!SearchFails
  <2>3. FoundSoFar'
    BY <2>1, <2>2 DEF FoundSoFar, LastFound, Placed
  <2>4. \A c \in present : \E k \in DOMAIN found : c = found[k]
    BY <2>1, <2>2, AllFound
  <2>5. SearchesOver'
    BY <2>2, <2>4 DEF SearchesOver
  <2>6. QED
    BY <2>1, <2>2, <2>3, <2>5
<1>4. CASE D!SearchBit
  <2>1. FoundSoFar /\ Len(found) <= 4 /\ MidSearch /\ ~removed /\ pc = "bits" /\ i < 4
    BY <1>4 DEF D!SearchBit, SearchInv, WireTyped
  <2>2. pc' = "bits" /\ i' = i /\ found' = found
    BY <1>4, <2>1 DEF D!SearchBit
  <2>3. QED
    BY <1>4, <2>1, <2>2, BitKeeps
<1>5. CASE D!SearchEnds
  <2>1. FoundSoFar /\ Len(found) <= 4 /\ MidSearch /\ ~removed /\ pc = "bits" /\ i < 4
    BY <1>5 DEF D!SearchEnds, SearchInv, WireTyped
  <2>2. pc' = "search"
    BY <1>5 DEF D!SearchEnds
  <2>3. QED
    BY <1>5, <2>1, <2>2, EndKeeps
<1>6. CASE UNCHANGED D!vars
  <2>1. /\ FoundSoFar /\ Len(found) <= 4
        /\ pc = "search" /\ i < 4 => BetweenSearches /\ (found # <<>> => ROM_NO = LastFound)
        /\ pc = "bits" => MidSearch
        /\ i = 4 => SearchesOver
    BY <1>6 DEF D!vars, SearchInv
  <2>2. FoundSoFar' /\ LastFound' = LastFound
    BY <1>6, <2>1 DEF D!vars, FoundSoFar, LastFound, Placed, Branches
  <2>3. MidSearch => MidSearch'
    BY <1>6, <2>2 DEF D!vars, MidSearch, Placed, Branches
  <2>4. (BetweenSearches => BetweenSearches') /\ (SearchesOver => SearchesOver')
    BY <1>6 DEF D!vars, BetweenSearches, SearchesOver
  <2>5. QED
    BY <1>6, <2>1, <2>2, <2>3, <2>4 DEF D!vars
<1>7. QED
  BY <1>1, <1>2, <1>3, <1>4, <1>5, <1>6 DEF D!Next

LEMMA PollNext == WireTyped /\ PollInv /\ [D!Next]_(D!vars) => PollInv'
<1> SUFFICES ASSUME WireTyped, PollInv, [D!Next]_(D!vars) PROVE PollInv'
  OBVIOUS
<1>1. /\ i \in 0..4 /\ (pc = "bits" => i < 4)
      /\ numds \in 0 .. 2 * i /\ currds \in 0 .. numds + 1
  BY DEF WireTyped, PollInv
<1>2. ASSUME UNCHANGED <<pc, addr, numds, currds, dsreading, found>>, i' = i \/ i' = 4,
             shorted' = shorted
      PROVE  PollInv'
  BY <1>1, <1>2 DEF PollInv, D!ReadingIsOwn
<1>3. CASE D!Remove \/ D!SearchBit \/ UNCHANGED D!vars
  BY <1>2, <1>3 DEF D!Remove, D!SearchBit, D!vars
<1>4. CASE D!Short
  BY <1>4 DEF D!Short, PollInv, D!ReadingIsOwn
<1>5. CASE D!SearchReset \/ D!SearchFails \/ D!Ready \/ D!SearchEnds
  <2>1. /\ UNCHANGED <<currds, dsreading, shorted>>
        /\ pc # "poll"
    BY <1>5 DEF D!SearchReset, D!SearchFails, D!Ready, D!SearchEnds
  <2>2. D!ReadingIsOwn'
    BY <2>1 DEF PollInv, D!ReadingIsOwn
  <2>3. CASE ~D!SearchEnds
    BY <1>5, <2>3, <1>1, <2>1, <2>2 DEF D!SearchReset, D!SearchFails, D!Ready, PollInv
  <2>4. CASE D!SearchEnds /\ found' = found
    <3>1. numds' = numds /\ i' = 4
      <4>1. \/ i' = 4 /\ numds' = numds
            \/ found' = Append(found, ROM_NO)
        BY <2>4, Zenon DEF D!SearchEnds
      <4>2. Append(found, ROM_NO) # found
        BY DEF WireTyped
      <4>3. QED
        BY <2>4, <4>1, <4>2
    <3>2. QED
      BY <1>1, <2>1, <2>2, <2>4, <3>1 DEF PollInv
  <2>5. CASE D!SearchEnds /\ found' # found
    <3>1. i' = i + 1 /\ numds' = numds + D!Counted(ROM_NO) /\ found' = Append(found, ROM_NO)
            /\ i < 4
      BY <1>1, <2>5 DEF D!SearchEnds
    <3>2. D!Counted(ROM_NO) \in 0..2
      BY DEF D!Counted
    <3>3. numds' \in 0 .. 2 * i' /\ currds' = 0 /\ currds' \in 0 .. numds' + 1
      BY <1>1, <2>1, <3>1, <3>2 DEF PollInv
    <3>4. ASSUME \A c \in D!Range(found') : D!Family(c) = Families.b
          PROVE  numds' = Len(found')
      <4>1. /\ Len(found') = Len(found) + 1
            /\ \A k \in DOMAIN found : k \in DOMAIN found' /\ found'[k] = found[k]
            /\ Len(found') \in DOMAIN found' /\ found'[Len(found')] = ROM_NO
        BY <3>1 DEF WireTyped
      <4>2. \A c \in D!Range(found) : D!Family(c) = Families.b
        BY <3>4, <4>1 DEF D!Range
      <4>3. D!Family(ROM_NO) = Families.b
        BY <3>4, <4>1 DEF D!Range
      <4>4. D!Counted(ROM_NO) = 1
        BY <4>3, WireAssumption DEF D!Counted
      <4>5. QED
        BY <3>1, <4>1, <4>2, <4>4 DEF PollInv
    <3>5. QED
      BY <2>1, <2>2, <3>3, <3>4 DEF PollInv
  <2>6. QED
    BY <2>3, <2>4, <2>5
<1>6. CASE D!Poll
  <2>1. /\ pc = "poll" /\ currds' = D!Turn + 1
        /\ UNCHANGED <<pc, addr, numds, found, i, shorted>>
    BY <1>6 DEF D!Poll
  <2>2. D!Turn \in 0 .. numds /\ currds' \in 0 .. numds' + 1
    BY <1>1, <2>1 DEF D!Turn
  <2>3. CASE D!Turn \notin D!Slots
    BY <1>6, <2>3, <2>1, <2>2 DEF D!Poll, PollInv, D!ReadingIsOwn
  <2>4. CASE D!Turn \in D!Slots
    <3> DEFINE s == D!Turn
    <3>1. PICK r \in D!Read(s) : dsreading' = [dsreading EXCEPT ![s] = r]
      BY <1>6, <2>4 DEF D!Poll
    <3>2. dsreading \in [D!Slots -> WireReadings] /\ dsreading[s] \in WireReadings /\ addr[s] \in Addresses
      BY <2>4 DEF PollInv, WireTyped
    <3> HIDE DEF s
    <3>3. r \in WireReadings /\ (r.success => r.of = addr[s]
                                 \/ (r.of = None /\ shorted /\ r.temperature = 0))
      <4>1. CASE shorted
        <5>1. r = [temperature |-> 0, success |-> TRUE, of |-> None]
          BY <3>1, <4>1 DEF D!Read
        <5>2. QED
          BY <4>1, <5>1 DEF WireReadings
      <4>2. CASE ~shorted /\ addr[s] \in present
        <5>1. PICK t \in Temperatures : r = [temperature |-> t, success |-> TRUE, of |-> addr[s]]
          BY <3>1, <4>2 DEF D!Read, D!Selected
        <5>2. QED
          BY <3>2, <5>1 DEF WireReadings
      <4>3. CASE ~shorted /\ addr[s] \notin present
        BY <3>1, <4>3, <3>2 DEF D!Read, D!Selected, D!Failed, WireReadings
      <4>4. QED
        BY <4>1, <4>2, <4>3
    <3>4. dsreading' \in [D!Slots -> WireReadings]
      BY <3>1, <3>2, <3>3
    <3>5. D!ReadingIsOwn'
      BY <2>1, <3>1, <3>2, <3>3 DEF PollInv, D!ReadingIsOwn
    <3>6. QED
      BY <2>1, <2>2, <3>4, <3>5 DEF PollInv
  <2>5. QED
    BY <2>3, <2>4
<1>7. QED
  BY <1>3, <1>4, <1>5, <1>6 DEF D!Next

\* The searches find what can be found, each device once.
LEMMA AllAreFound == WireInv => D!SearchFindsAll
<1> SUFFICES ASSUME WireInv, pc # "poll", ~removed PROVE D!SearchFindsAll
  BY DEF D!SearchFindsAll
<1>1. WireTyped /\ FoundSoFar /\ Len(found) <= 4 /\ (i = 4 => SearchesOver)
  BY DEF WireInv, SearchInv
<1>2. found \in Seq(Addresses) /\ DOMAIN found = 1 .. Len(found) /\ Len(found) \in Nat
  BY <1>1 DEF WireTyped
<1>3. D!Range(found) \subseteq D!Findable
  BY <1>1, <1>2, NoZeroFamily DEF FoundSoFar, ZeroFamily, D!Range, D!Findable
<1>4. \A S : D!Cardinality(S) = Cardinality(S)
  BY DEF D!Cardinality, Cardinality
<1>5. IsFiniteSet(D!Findable)
  BY <1>1, WireAssumption, FS_Subset DEF D!Findable, WireTyped
<1>6. /\ IsFiniteSet(D!Range(found)) /\ Cardinality(D!Range(found)) \in Nat
      /\ Cardinality(D!Findable) \in Nat
      /\ Cardinality(D!Range(found)) <= Cardinality(D!Findable)
  BY <1>3, <1>5, FS_Subset, FS_CardinalityType
<1>7. ASSUME Len(found) = 4 PROVE Cardinality(D!Range(found)) = 4
  <2>1. \A k, l \in 1..4 : found[k] = found[l] => k = l
    <3> SUFFICES ASSUME NEW k \in 1..4, NEW l \in 1..4, found[k] = found[l], k < l PROVE FALSE
      OBVIOUS
    <3>1. D!Before(found[k], found[k])
      BY <1>1, <1>2, <1>7 DEF FoundSoFar
    <3>2. found[k] \in Addresses
      <4>1. k \in DOMAIN found
        BY <1>2, <1>7
      <4>2. QED
        BY <1>2, <4>1
    <3>3. PICK m \in 1 .. D!Bits : found[k][m] = 0 /\ found[k][m] = 1
      BY <3>1, <3>2, BeforeAgree
    <3>4. QED
      BY <3>3
  <2>2. found \in Bijection(1..4, D!Range(found))
    BY <1>2, <1>7, <2>1 DEF Bijection, Injection, Surjection, IsInjective, D!Range
  <2>3. ExistsBijection(1..4, D!Range(found))
    BY <2>2 DEF ExistsBijection
  <2>4. QED
    BY <2>3, FS_CountingElements
<1>8. Cardinality(D!Range(found)) <= 4
  <2>1. found \in Surjection(1 .. Len(found), D!Range(found))
    BY <1>2 DEF Surjection, D!Range
  <2>2. ExistsSurjection(1 .. Len(found), D!Range(found))
    BY <2>1 DEF ExistsSurjection
  <2>3. Cardinality(D!Range(found)) <= Len(found)
    BY <1>2, <2>2, FS_SurjCardinalityBound
  <2>4. QED
    BY <1>1, <1>2, <1>6, <2>3
<1>9. ASSUME NEW m \in Nat
      PROVE  D!Min({4, m}) = IF m < 4 THEN m ELSE 4
  BY DEF D!Min
<1>10. ASSUME i = 4
       PROVE Cardinality(D!Range(found)) = D!Min({4, Cardinality(D!Findable)})
  <2>1. CASE Len(found) = 4
    BY <1>6, <1>7, <1>9, <2>1
  <2>2. CASE \A c \in present : \E k \in DOMAIN found : c = found[k]
    <3>1. D!Findable \subseteq D!Range(found)
      BY <2>2 DEF D!Findable, D!Range
    <3>2. D!Findable = D!Range(found)
      BY <1>3, <3>1
    <3>3. QED
      BY <1>6, <1>8, <1>9, <3>2
  <2>3. CASE found = <<>> /\ \E d \in present : ZeroFamily(d) /\ \A c \in present : ~D!Before(c, d)
    <3>1. D!Findable = {}
      BY <2>3 DEF D!Findable, ZeroFamily
    <3>2. D!Range(found) = D!Findable
      BY <1>3, <3>1
    <3>3. QED
      BY <1>6, <1>8, <1>9, <3>2
  <2>4. QED
    BY <1>1, <1>10, <2>1, <2>2, <2>3 DEF SearchesOver
<1>11. QED
  BY <1>1, <1>3, <1>4, <1>10 DEF FoundSoFar, D!SearchFindsAll

LEMMA WireResult ==
    WireInv => D!TypeOK /\ D!SearchFindsAll /\ D!ReadingIsOwn /\ D!PollsInside
<1> SUFFICES ASSUME WireInv PROVE D!TypeOK /\ D!ReadingIsOwn /\ D!PollsInside
  BY AllAreFound
<1>1. i \in 0..4 /\ numds \in 0 .. 2 * i /\ currds \in 0 .. numds + 1
  BY DEF WireInv, WireTyped, PollInv
<1>2. numds \in 0..8 /\ currds \in 0..9 /\ (numds <= 3 => currds <= 4)
  BY <1>1
<1>3. D!TypeOK
  BY <1>2 DEF WireInv, WireTyped, D!TypeOK, Addresses
<1>4. QED
  BY <1>2, <1>3 DEF WireInv, PollInv, D!PollsInside

\* The searches find each device that is there once, in the order of the bits,
\* until four are found or one of family zero ends them; a reading was sent by
\* the device whose address is at its place; and no poll goes past the places.
\* It holds for addresses of any length and any devices on the wire.
THEOREM ThermometersAreRight == MCSpec => []ThermometersRight
<1> DEFINE Inv == part = "wire" => WireInv
<1>1. MCInit => Inv
  BY WireInitInv DEF MCInit
<1>2. Inv /\ [MCNext]_allVars => Inv'
  <2> SUFFICES ASSUME part = "wire", WireInv, [MCNext]_allVars PROVE WireInv'
    BY DEF MCNext, Modulation, OneWire, Bus
  <2>1. [D!Next]_(D!vars)
    BY DEF MCNext, Modulation, OneWire, Bus, dsVars, D!vars
  <2>2. QED
    BY <2>1, WireTypedNext, SearchNext, PollNext DEF WireInv
<1>3. Inv => ThermometersRight
  BY WireResult DEF ThermometersRight
<1>4. QED
  BY <1>1, <1>2, <1>3, PTL DEF MCSpec
-----------------------------------------------------------------------------
\* LedString

Elements == Len(patterns[pattern])
Colours == [pattern : Int, ms_delay : 0..1, brightness : Int, stringlen : L!Leds]

LedTyped ==
    /\ pattern \in 1 .. L!NUM_PATTERNS
    /\ cur \in 0 .. Elements - 1 \/ (Elements = 1 /\ cur = 1)
    /\ ms_delay \in 0..1 /\ stringlen \in L!Leds /\ brightness \in Int
    /\ sysCfg \in Colours

\* The LED j shows the element before the one of the next frame.
FrameShown ==
    framed => \A j \in L!Leds : j <= stringlen =>
        leds[j] = [colour |-> patterns[pattern][((cur + Elements + j - 2) % Elements) + 1],
                   level |-> brightness]

\* A restart would return to the pattern, or has done so.
PatternSaved == sysCfg.pattern = pattern \/ (pattern = 1 /\ ~L!Restores(sysCfg))

LedInv ==
    /\ LedTyped /\ FrameShown /\ PatternSaved
    /\ published # None /\ ~delayed => ms_delay = 0
    /\ L!PublishedStays

LEMMA PatternFacts ==
    ASSUME NEW p \in 1 .. L!NUM_PATTERNS
    PROVE  /\ patterns[p] \in Seq(STRING) /\ Len(patterns[p]) \in Nat /\ Len(patterns[p]) > 0
<1>1. p \in 1 .. Len(patterns) /\ patterns \in Seq(Seq(STRING)) /\ Len(patterns) \in Nat
  BY LedAssumption DEF L!NUM_PATTERNS
<1>2. patterns[p] \in Seq(STRING)
  BY <1>1
<1>3. QED
  BY <1>1, <1>2, LedAssumption

LEMMA Around ==
    ASSUME NEW x \in Nat, NEW m \in Nat, m > 0
    PROVE  (x + m) % m = x % m
<1>1. x % m \in Nat /\ x % m < m /\ x \div m \in Nat /\ x = (x \div m) * m + (x % m)
  BY SMTT(30)
<1>2. x + m = (x \div m + 1) * m + (x % m)
  BY <1>1, SMTT(30)
<1>3. ((x \div m + 1) * m + (x % m)) % m = x % m
  <2>1. (x \div m + 1) \in Nat
    BY <1>1
  <2>2. QED
    BY <1>1, <2>1, Remainder
<1>4. QED
  BY <1>2, <1>3

\* A frame shows what FrameShown says of the place that it moves on to.
LEMMA FrameMoves ==
    ASSUME LedTyped, NEW j \in L!Leds
    PROVE  LET after == IF cur + 1 >= Elements THEN 0 ELSE cur + 1
           IN  (after + Elements + j - 2) % Elements = (cur + j - 1) % Elements
<1>1. Elements \in Nat /\ Elements > 0
  BY PatternFacts DEF LedTyped, Elements
<1>2. j \in Nat /\ j > 0 /\ cur \in Nat
  BY <1>1, LedAssumption DEF L!Leds, LedTyped
<1>3. CASE cur + 1 < Elements
  <2>1. (cur + 1) + Elements + j - 2 = (cur + j - 1) + Elements /\ cur + j - 1 \in Nat
    BY <1>1, <1>2
  <2>2. ((cur + j - 1) + Elements) % Elements = (cur + j - 1) % Elements
    BY <1>1, <2>1, Around, Zenon
  <2>3. ~(cur + 1 >= Elements)
    BY <1>1, <1>2, <1>3
  <2>4. QED
    BY <2>1, <2>2, <2>3, Zenon
<1>4. CASE cur + 1 >= Elements /\ Elements > 1
  <2>1. cur = Elements - 1
    BY <1>1, <1>4 DEF LedTyped
  <2>2. 0 + Elements + j - 2 = cur + j - 1
    BY <1>1, <1>2, <2>1
  <2>3. QED
    BY <1>4, <2>2
<1>5. CASE Elements = 1
  <2>1. \A x \in Nat : x % 1 = 0
    OBVIOUS
  <2>2. 0 + Elements + j - 2 \in Nat /\ cur + j - 1 \in Nat /\ (cur + 1) + Elements + j - 2 \in Nat
    BY <1>2, <1>5
  <2>3. QED
    BY <1>5, <2>1, <2>2
<1>6. QED
  BY <1>1, <1>2, <1>3, <1>4, <1>5


LEMMA RestoredTyped ==
    ASSUME NEW c \in Colours
    PROVE  LET pcfg == L!ws2812b_init(c)
           IN  /\ pcfg.pattern \in 1 .. L!NUM_PATTERNS /\ pcfg.ms_delay \in 0..1
               /\ pcfg.stringlen \in L!Leds /\ pcfg.brightness \in Int
               /\ pcfg.pattern = IF L!Restores(c) THEN c.pattern ELSE 1
<1>1. L!NUM_PATTERNS \in Nat /\ L!NUM_PATTERNS > 1 /\ 2 \in L!Leds
  BY LedAssumption DEF L!NUM_PATTERNS, L!Leds, L!Default
<1>2. CASE L!Restores(c)
  <2>1. L!ws2812b_init(c) = [c EXCEPT !.stringlen = L!Length(c.stringlen)]
    BY <1>2 DEF L!ws2812b_init
  <2>2. L!Length(c.stringlen) \in L!Leds
    BY <1>1 DEF L!Length, L!Default, Colours
  <2>3. c.pattern \in 1 .. L!NUM_PATTERNS
    BY <1>1, <1>2 DEF L!Restores
  <2>4. QED
    BY <1>2, <2>1, <2>2, <2>3 DEF Colours
<1>3. CASE ~L!Restores(c)
  BY <1>1, <1>3 DEF L!ws2812b_init, L!Default
<1>4. QED
  BY <1>2, <1>3

\* What holds after a start.
LEMMA Started ==
    ASSUME NEW p \in 1 .. L!NUM_PATTERNS
    PROVE  1 \in 0 .. Len(patterns[p]) - 1 \/ (Len(patterns[p]) = 1 /\ 1 = 1)
<1>1. \A m \in Nat : m > 0 => 1 \in 0 .. m - 1 \/ (m = 1 /\ 1 = 1)
  OBVIOUS
<1>2. Len(patterns[p]) \in Nat /\ Len(patterns[p]) > 0
  BY PatternFacts, Zenon
<1>3. QED
  BY <1>1, <1>2, Zenon

LEMMA LedInitInv == L!Init => LedInv
<1> SUFFICES ASSUME L!Init PROVE LedInv
  OBVIOUS
<1> DEFINE pcfg == L!ws2812b_init(sysCfg)
<1>1. 2 \in L!Leds
  BY LedAssumption DEF L!Leds, L!Default
<1>2. sysCfg \in Colours /\ sysCfg.pattern = 0
  BY <1>1 DEF L!Init, L!Default, Colours
<1>3. /\ pcfg.pattern \in 1 .. L!NUM_PATTERNS /\ pcfg.ms_delay \in 0..1
      /\ pcfg.stringlen \in L!Leds /\ pcfg.brightness \in Int
      /\ pcfg.pattern = IF L!Restores(sysCfg) THEN sysCfg.pattern ELSE 1
  BY <1>2, RestoredTyped
<1>4. /\ pattern = pcfg.pattern /\ ms_delay = pcfg.ms_delay
      /\ brightness = pcfg.brightness /\ stringlen = pcfg.stringlen
      /\ cur = 1 /\ published = None /\ ~framed
  BY DEF L!Init
<1> HIDE DEF pcfg
<1>5. LedTyped
  BY <1>2, <1>3, <1>4, Started DEF LedTyped, Elements
<1>6. PatternSaved
  BY <1>3, <1>4 DEF PatternSaved
<1>7. QED
  BY <1>4, <1>5, <1>6 DEF LedInv, FrameShown, L!PublishedStays

LEMMA FrameInv == LedInv /\ L!PatternTimerHandler => LedInv'
<1> SUFFICES ASSUME LedInv, L!PatternTimerHandler PROVE LedInv'
  OBVIOUS
<1>1. LedTyped /\ PatternSaved
  BY DEF LedInv
<1>2. /\ UNCHANGED <<pattern, ms_delay, brightness, stringlen, armed, sysCfg>>
      /\ cur' = (IF cur + 1 >= Elements THEN 0 ELSE cur + 1)
      /\ published' = None
      /\ \A j \in L!Leds : j <= stringlen =>
            leds'[j] = [colour |-> patterns[pattern][((cur + j - 1) % Elements) + 1],
                        level |-> brightness]
  BY DEF L!PatternTimerHandler, L!NextElement, L!Element, Elements
<1>3. Elements' = Elements /\ Elements \in Nat /\ Elements > 0
  BY <1>1, <1>2, PatternFacts DEF Elements, LedTyped
<1>4. cur' \in 0 .. Elements - 1
  BY <1>1, <1>2, <1>3 DEF LedTyped
<1>5. LedTyped'
  BY <1>1, <1>2, <1>3, <1>4 DEF LedTyped
<1>6. FrameShown'
  <2> SUFFICES ASSUME NEW j \in L!Leds, j <= stringlen'
               PROVE  leds'[j] = [colour |-> patterns[pattern'][((cur' + Elements' + j - 2) % Elements') + 1],
                                  level |-> brightness']
    BY DEF FrameShown
  <2>1. (cur' + Elements + j - 2) % Elements = (cur + j - 1) % Elements
    BY <1>1, <1>2, FrameMoves
  <2>2. QED
    BY <1>2, <1>3, <2>1
<1>7. PatternSaved'
  BY <1>1, <1>2 DEF PatternSaved, L!Restores
<1>8. QED
  BY <1>2, <1>5, <1>6, <1>7 DEF LedInv, L!PublishedStays

LEMMA SettingsInv == LedInv /\ L!Settings => LedInv'
<1> SUFFICES ASSUME LedInv, L!Settings PROVE LedInv'
  OBVIOUS
<1>1. LedTyped /\ PatternSaved /\ (published # None /\ ~delayed => ms_delay = 0)
        /\ L!PublishedStays
  BY DEF LedInv
<1>2. PICK len \in Lengths \union {stringlen}, delay \in {None, 0, 1}, level \in {None, 7},
           p \in {None} \union 1 .. L!NUM_PATTERNS :
        /\ stringlen' = L!Length(len)
        /\ ms_delay' = IF delay = None THEN ms_delay ELSE delay
        /\ brightness' = IF level = None THEN brightness ELSE level
        /\ pattern' = IF p = None THEN pattern ELSE p
        /\ cur' = IF p = None THEN cur ELSE 0
        /\ armed' = IF delay = None /\ p = None THEN armed ELSE ms_delay' > 0
        /\ delayed' = (delayed \/ delay # None)
  BY DEF L!Settings
<1>3. /\ sysCfg' = [pattern |-> pattern', ms_delay |-> ms_delay', brightness |-> brightness',
                    stringlen |-> stringlen']
      /\ ~framed' /\ UNCHANGED <<leds, published>>
  BY DEF L!Settings, L!Saved
<1>4. stringlen' \in L!Leds
  BY <1>1, <1>2, LedAssumption DEF LedTyped, L!Length, L!Default, L!Leds
<1>5. ms_delay' \in 0..1 /\ brightness' \in Int /\ pattern' \in 1 .. L!NUM_PATTERNS
  BY <1>1, <1>2 DEF LedTyped
<1>6. sysCfg' \in Colours /\ sysCfg'.pattern = pattern'
  BY <1>3, <1>4, <1>5, LedAssumption DEF Colours, L!NUM_PATTERNS
<1>7. cur' \in 0 .. Elements' - 1 \/ (Elements' = 1 /\ cur' = 1)
  <2>1. CASE p = None
    BY <1>1, <1>2, <2>1 DEF LedTyped, Elements
  <2>2. CASE p # None
    BY <1>2, <2>2, PatternFacts DEF Elements
  <2>3. QED
    BY <2>1, <2>2
<1>8. LedTyped'
  BY <1>4, <1>5, <1>6, <1>7 DEF LedTyped
<1>9. ASSUME published' # None, ~delayed' PROVE ms_delay' = 0 /\ ~armed'
  <2>1. delay = None /\ ~delayed /\ published # None
    BY <1>2, <1>3, <1>9
  <2>2. ms_delay = 0 /\ ~armed
    BY <1>1, <2>1 DEF L!PublishedStays
  <2>3. ms_delay' = 0 /\ ~(ms_delay' > 0)
    BY <1>2, <2>1, <2>2
  <2>4. CASE p = None
    BY <1>2, <2>1, <2>4, <2>2, <2>3, Zenon
  <2>5. CASE p # None
    BY <1>2, <2>5, <2>3, Zenon
  <2>6. QED
    BY <2>4, <2>5
<1>10. L!PublishedStays'
  BY <1>1, <1>3, <1>9 DEF L!PublishedStays
<1>11. QED
  BY <1>3, <1>6, <1>8, <1>9, <1>10 DEF LedInv, FrameShown, PatternSaved

LEMMA PublishInv == LedInv /\ L!Publish => LedInv'
<1> SUFFICES ASSUME LedInv, L!Publish PROVE LedInv'
  OBVIOUS
<1>1. LedTyped /\ PatternSaved
  BY DEF LedInv
<1>2. /\ ms_delay' = 0 /\ ~armed' /\ ~framed'
      /\ UNCHANGED <<pattern, cur, brightness, stringlen, sysCfg>>
  <2>1. armed' = (0 > 0)
    BY Zenon DEF L!Publish, L!DelayOf
  <2>2. ~(0 > 0)
    OBVIOUS
  <2>3. ~armed'
    BY <2>1, <2>2, Zenon
  <2>4. QED
    BY <2>3 DEF L!Publish, L!DelayOf
<1>3. PICK m \in 0 .. Shades - 1, c \in Published :
        /\ leds' = [j \in L!Leds |-> IF j <= L!Parsed(m, c).n
                                    THEN [colour |-> L!Parsed(m, c).colour, level |-> 8] ELSE leds[j]]
        /\ published' = [n |-> m, colour |-> c]
  BY DEF L!Publish
<1>4. LedTyped' /\ PatternSaved'
  BY <1>1, <1>2 DEF LedTyped, PatternSaved, Elements, L!Restores
<1>5. m < Shades \div 2 => \A j \in L!Leds : j <= m => leds'[j].colour = c
  BY <1>3 DEF L!Parsed
<1>6. L!PublishedStays'
  BY <1>2, <1>3, <1>5 DEF L!PublishedStays
<1>7. QED
  BY <1>2, <1>4, <1>6 DEF LedInv, FrameShown

LEMMA RestartInv == LedInv /\ L!Restart => LedInv'
<1> SUFFICES ASSUME LedInv, L!Restart PROVE LedInv'
  OBVIOUS
<1> DEFINE pcfg == L!ws2812b_init(sysCfg)
<1>1. sysCfg \in Colours
  BY DEF LedInv, LedTyped
<1>2. /\ pcfg.pattern \in 1 .. L!NUM_PATTERNS /\ pcfg.ms_delay \in 0..1
      /\ pcfg.stringlen \in L!Leds /\ pcfg.brightness \in Int
      /\ pcfg.pattern = IF L!Restores(sysCfg) THEN sysCfg.pattern ELSE 1
  BY <1>1, RestoredTyped
<1>3. /\ pattern' = pcfg.pattern /\ ms_delay' = pcfg.ms_delay
      /\ brightness' = pcfg.brightness /\ stringlen' = pcfg.stringlen
      /\ cur' = 1 /\ published' = None /\ ~framed' /\ sysCfg' = sysCfg
  BY DEF L!Restart
<1> HIDE DEF pcfg
<1>4. LedTyped'
  BY <1>1, <1>2, <1>3, Started DEF LedTyped, Elements
<1>5. PatternSaved'
  BY <1>2, <1>3 DEF PatternSaved, L!Restores
<1>6. QED
  BY <1>3, <1>4, <1>5 DEF LedInv, FrameShown, L!PublishedStays

LEMMA LedNext == LedInv /\ [L!Next]_(L!vars) => LedInv'
<1> SUFFICES ASSUME LedInv, UNCHANGED L!vars PROVE LedInv'
  BY FrameInv, SettingsInv, PublishInv, RestartInv DEF L!Next
<1>1. QED
  BY DEF L!vars, LedInv, LedTyped, FrameShown, PatternSaved, L!PublishedStays, Elements, L!Restores

\* What a step may do to the LEDs and to the pattern.
LEMMA LedStep ==
    ASSUME LedInv, L!Next
    PROVE  /\ framed /\ framed' => \A j \in 1 .. stringlen - 1 : leds'[j] = leds[j + 1]
           /\ pattern' # pattern => pattern' = sysCfg'.pattern \/ pattern = L!NUM_PATTERNS
<1>1. LedTyped /\ FrameShown /\ PatternSaved
  BY DEF LedInv
<1>2. ASSUME framed, framed', NEW j \in 1 .. stringlen - 1 PROVE leds'[j] = leds[j + 1]
  <2>1. L!PatternTimerHandler
    BY <1>2 DEF L!Next, L!Settings, L!Publish, L!Restart
  <2>2. j \in L!Leds /\ j + 1 \in L!Leds /\ j <= stringlen /\ j + 1 <= stringlen
    BY <1>1, LedAssumption DEF LedTyped, L!Leds
  <2>3. leds'[j] = [colour |-> patterns[pattern][((cur + j - 1) % Elements) + 1],
                    level |-> brightness]
    BY <2>1, <2>2 DEF L!PatternTimerHandler, L!Element, Elements
  <2>4. leds[j + 1] = [colour |-> patterns[pattern][((cur + Elements + (j + 1) - 2) % Elements) + 1],
                       level |-> brightness]
    BY <1>1, <1>2, <2>2 DEF FrameShown
  <2>5. /\ Elements \in Nat /\ Elements > 0 /\ cur \in Nat /\ j \in Nat /\ j > 0
        /\ cur + j - 1 \in Nat
        /\ cur + Elements + (j + 1) - 2 = (cur + j - 1) + Elements
    BY <1>1, PatternFacts DEF LedTyped, Elements
  <2>6. (cur + Elements + (j + 1) - 2) % Elements = (cur + j - 1) % Elements
    BY <2>5, Around
  <2>7. QED
    BY <2>3, <2>4, <2>6
<1>3. ASSUME pattern' # pattern PROVE pattern' = sysCfg'.pattern \/ pattern = L!NUM_PATTERNS
  <2>1. CASE L!Settings
    BY <2>1 DEF L!Settings, L!Saved
  <2>2. CASE L!Restart
    <3>1. sysCfg' = sysCfg /\ pattern' = IF L!Restores(sysCfg) THEN sysCfg.pattern ELSE 1
      BY <1>1, <2>2, RestoredTyped DEF L!Restart, LedTyped
    <3>2. L!NUM_PATTERNS \in Nat
      BY LedAssumption DEF L!NUM_PATTERNS
    <3>3. QED
      BY <1>1, <1>3, <3>1, <3>2 DEF PatternSaved, LedTyped, L!Restores
  <2>3. QED
    BY <1>3, <2>1, <2>2 DEF L!Next, L!PatternTimerHandler, L!Publish
<1>4. QED
  BY <1>2, <1>3

\* From frame to frame the pattern moves by one LED, a published colour stays
\* until a delay is set, and the pattern is the saved one but for the last of
\* the page: for patterns and strings of any length.
THEOREM LedsAreRight == MCSpec => LedsRight
<1> DEFINE Inv == part = "leds" => LedInv
           Moves == part = "leds" =>
              /\ framed /\ framed' => \A j \in 1 .. stringlen - 1 : leds'[j] = leds[j + 1]
              /\ L!PublishedStays'
              /\ pattern' # pattern => pattern' = sysCfg'.pattern \/ pattern = L!NUM_PATTERNS
<1>1. MCInit => Inv
  BY LedInitInv DEF MCInit
<1>2. Inv /\ [MCNext]_allVars => Inv'
  <2> SUFFICES ASSUME part = "leds", LedInv, [MCNext]_allVars PROVE LedInv'
    BY DEF MCNext, Modulation, OneWire, Bus
  <2>1. [L!Next]_(L!vars)
    BY DEF MCNext, Modulation, OneWire, Bus, ledVars, L!vars
  <2>2. QED
    BY <2>1, LedNext
<1>3. Inv /\ Inv' /\ [MCNext]_allVars => [Moves]_ledVars
  <2> SUFFICES ASSUME Inv, Inv', [MCNext]_allVars, part = "leds", ledVars' # ledVars
               PROVE  Moves
    OBVIOUS
  <2>1. L!Next /\ part' = "leds"
    BY DEF MCNext, Modulation, OneWire, Bus, ledVars
  <2>2. LedInv /\ LedInv'
    BY <2>1
  <2>3. QED
    BY <2>1, <2>2, LedStep DEF LedInv
<1>4. [][Moves]_ledVars => LedsRight
  BY PTL DEF LedsRight
<1>5. QED
  BY <1>1, <1>2, <1>3, <1>4, PTL DEF MCSpec
-----------------------------------------------------------------------------
(***************************************************************************)
(* Pwm                                                                     *)
(***************************************************************************)
Duties == [Outputs -> 0..PWM_DEPTH]
Span == 0 .. Modulus - 1
Count(d) == Cardinality(P!Times(d))

\* A set of numbers with a bound has a greatest.
LEMMA Greatest ==
    ASSUME NEW S \in SUBSET Nat, NEW top \in Nat, \A y \in S : y <= top, S # {}
    PROVE  \E x \in S : \A y \in S : y <= x
<1> DEFINE R == OpToRel(<, Nat)
           Below == {top - y : y \in S}
<1>1. IsWellFoundedOn(R, Nat)
  BY NatLessThanWellFounded
<1>2. \A k \in Nat, l \in Nat : <<k, l>> \in R <=> k < l
  BY DEF OpToRel
<1>3. Below \subseteq Nat /\ Below # {}
  <2>1. \A y \in S : top - y \in Nat
    OBVIOUS
  <2>2. QED
    BY <2>1, Zenon
<1> HIDE DEF R
<1>4. PICK x \in Below : \A y \in Below : ~(<<y, x>> \in R)
  <2> HIDE DEF Below
  <2>1. QED
    BY <1>1, <1>3, WFMin
<1>5. PICK m \in S : x = top - m
  BY <1>4
<1>6. \A y \in S : y <= m
  <2> SUFFICES ASSUME NEW y \in S PROVE y <= m
    OBVIOUS
  <2>1. top - y \in Below /\ top - y \in Nat /\ x \in Nat
    BY <1>3, <1>4
  <2>2. ~(top - y < x)
    BY <1>2, <1>4, <2>1
  <2>3. QED
    BY <1>5, <2>2
<1>7. QED
  BY <1>6

\* Counting up from zero reaches every number.
LEMMA Upward ==
    ASSUME NEW G \in SUBSET Nat, 0 \in G, \A n \in G : n + 1 \in G
    PROVE  \A n \in Nat : n \in G
<1> SUFFICES ASSUME Nat \ G # {} PROVE FALSE
  OBVIOUS
<1> DEFINE R == OpToRel(<, Nat)
<1>1. IsWellFoundedOn(R, Nat)
  BY NatLessThanWellFounded
<1>2. \A k \in Nat, l \in Nat : <<k, l>> \in R <=> k < l
  BY DEF OpToRel
<1> HIDE DEF R
<1>3. Nat \ G \subseteq Nat
  OBVIOUS
<1>4. PICK x \in Nat \ G : \A y \in Nat \ G : ~(<<y, x>> \in R)
  BY <1>1, <1>3, WFMin
<1>5. x # 0 /\ x - 1 \in Nat /\ x - 1 < x /\ x = (x - 1) + 1
  BY <1>4
<1>6. x - 1 \in G
  BY <1>2, <1>4, <1>5
<1>7. QED
  BY <1>4, <1>5, <1>6

\* Dividing what was multiplied.
LEMMA Share ==
    ASSUME NEW p \in Nat, NEW m \in Nat, m > 0, m <= p, NEW n \in 0..m
    PROVE  /\ (p * n) \div m \in 0..p
           /\ (p * n) \div m = 0 <=> n = 0
           /\ (p * n) \div m = p <=> n = m
<1> DEFINE q == (p * n) \div m
<1>1. p * n \in Nat /\ q \in Nat /\ q * m <= p * n /\ p * n < q * m + m
  BY SMTT(30)
<1>2. q <= p
  <2>1. p * n <= p * m
    BY SMTT(30)
  <2>2. q * m <= p * m
    BY <1>1, <2>1, SMTT(30)
  <2> HIDE DEF q
  <2>3. QED
    BY <1>1, <2>2, SMTT(30)
<1>3. ASSUME n = 0 PROVE q = 0
  BY <1>3, SMTT(30)
<1>4. ASSUME n # 0 PROVE q # 0
  BY <1>4, <1>1, SMTT(30)
<1>5. ASSUME n = m PROVE q = p
  <2>1. p * m < q * m + m /\ q * m + m = (q + 1) * m
    BY <1>1, <1>5, SMTT(30)
  <2> HIDE DEF q
  <2>2. p < q + 1
    BY <1>1, <2>1, SMTT(30)
  <2>3. QED
    BY <1>1, <1>2, <2>2
<1>6. ASSUME n # m PROVE q # p
  <2>1. p * n <= p * (m - 1) /\ p * (m - 1) = p * m - p
    BY <1>6, SMTT(30)
  <2>2. p * n < p * m
    BY <2>1, SMTT(30)
  <2>3. QED
    BY <1>1, <2>2
<1>7. QED
  BY <1>1, <1>2, <1>3, <1>4, <1>5, <1>6

LEMMA HighTimes ==
    ASSUME NEW n \in 0..PWM_DEPTH
    PROVE  /\ P!HighTime(n) \in Span /\ P!End \in Span \ {0} /\ Modulus \in Nat
           /\ P!HighTime(n) = 0 <=> n = 0
           /\ P!HighTime(n) = P!End <=> n = PWM_DEPTH
<1> DEFINE q == (PwmPeriod * n) \div PWM_DEPTH
<1>1. /\ PWM_DEPTH \in Nat \ {0} /\ PwmPeriod \in Nat /\ PWM_DEPTH <= PwmPeriod /\ PwmPeriod # 0
      /\ Modulus \in Nat \ {0} /\ P!End # 0
      /\ \A us \in 1 .. PwmPeriod - 1 : P!Ticks(us) # 0 /\ P!Ticks(us) # P!End
  BY PwmAssumption
<1>2. q \in 0..PwmPeriod /\ (q = 0 <=> n = 0) /\ (q = PwmPeriod <=> n = PWM_DEPTH)
  BY <1>1, Share
<1>3. P!HighTime(n) = P!Ticks(q) /\ P!End = P!Ticks(PwmPeriod)
  BY DEF P!HighTime, P!End
<1> HIDE DEF q
<1>4. \A us \in Nat : P!Ticks(us) \in Span
  BY <1>1, SMTT(30) DEF P!Ticks, Span
<1>5. P!Ticks(0) = 0
  BY <1>1, SMTT(30) DEF P!Ticks
<1>6. q = 0 \/ q = PwmPeriod \/ q \in 1 .. PwmPeriod - 1
  BY <1>1, <1>2
<1>7. QED
  BY <1>1, <1>2, <1>3, <1>4, <1>5, <1>6

LEMMA TimesFacts ==
    ASSUME NEW d \in Duties
    PROVE  /\ P!Times(d) \subseteq 1 .. Modulus - 1 /\ P!End \in P!Times(d)
           /\ IsFiniteSet(P!Times(d)) /\ Count(d) \in Nat \ {0}
           /\ Count(d) = 1 => P!Times(d) = {P!End} /\ P!Longest(d) = P!End
           /\ \A c \in Outputs : P!HighTime(d[c]) \in P!Times(d) \union {0}
           /\ P!Longest(d) \in P!Times(d) /\ \A y \in P!Times(d) : y <= P!Longest(d)
<1>1. /\ P!End \in Span \ {0} /\ Modulus \in Nat
      /\ \A c \in Outputs : P!HighTime(d[c]) \in Span
  BY PwmAssumption, HighTimes DEF Duties
<1>2. P!Times(d) \subseteq 1 .. Modulus - 1 /\ P!End \in P!Times(d)
  BY <1>1 DEF P!Times, Span
<1>3. IsFiniteSet(P!Times(d))
  <2>1. IsFiniteSet(1 .. Modulus - 1)
    BY <1>1, FS_Interval
  <2>2. QED
    BY <1>2, <2>1, FS_Subset
<1>4. Count(d) \in Nat /\ Count(d) # 0
  BY <1>2, <1>3, FS_CardinalityType, FS_EmptySet DEF Count
<1>5. Count(d) = 1 => P!Times(d) = {P!End}
  BY <1>2, <1>3, FS_Singleton DEF Count
<1>6. \A c \in Outputs : P!HighTime(d[c]) \in P!Times(d) \union {0}
  BY DEF P!Times
<1>7. P!Longest(d) \in P!Times(d) /\ \A y \in P!Times(d) : y <= P!Longest(d)
  <2> DEFINE S == P!Times(d)
  <2>1. \E x \in S : \A y \in S : y <= x
    <3>1. S \in SUBSET Nat /\ S # {} /\ Modulus \in Nat /\ \A y \in S : y <= Modulus
      BY <1>1, <1>2
    <3> HIDE DEF S
    <3>2. QED
      BY <3>1, Greatest
  <2>2. \A x \in S, y \in S : x >= y <=> y <= x
    BY <1>1, <1>2
  <2> HIDE DEF S
  <2>3. \E x \in S : \A y \in S : x >= y
    BY <2>1, <2>2
  <2>4. P!Max(S) \in S /\ \A y \in S : P!Max(S) >= y
    BY <2>3, Zenon DEF P!Max
  <2>5. QED
    BY <2>2, <2>4 DEF P!Longest, S
<1>8. QED
  BY <1>2, <1>3, <1>4, <1>5, <1>6, <1>7

Rank(S, x) == Cardinality({y \in S : y <= x})

\* The rank of an element goes up with it.
LEMMA RankFacts ==
    ASSUME NEW S \in SUBSET Nat, IsFiniteSet(S), NEW x \in S
    PROVE  /\ Rank(S, x) \in 1..Cardinality(S)
           /\ \A z \in S : x < z => Rank(S, x) < Rank(S, z)
           /\ (\A y \in S : y <= x) => Rank(S, x) = Cardinality(S)
<1> DEFINE Low(z) == {y \in S : y <= z}
<1>1. \A z : Low(z) \in SUBSET S /\ IsFiniteSet(Low(z)) /\ Cardinality(Low(z)) \in Nat
             /\ Cardinality(Low(z)) <= Cardinality(S)
  BY FS_Subset, FS_CardinalityType
<1>2. Cardinality(S) \in Nat
  BY FS_CardinalityType
<1>3. x \in Low(x)
  OBVIOUS
<1>4. Cardinality(Low(x)) # 0
  BY <1>1, <1>3, FS_EmptySet
<1>5. ASSUME NEW z \in S, x < z PROVE Cardinality(Low(x)) < Cardinality(Low(z))
  <2>1. Low(x) \in SUBSET Low(z) /\ z \in Low(z) /\ z \notin Low(x)
    <3>1. z <= z /\ ~(z <= x) /\ \A y \in S : y <= x => y <= z
      BY <1>5
    <3>2. QED
      BY <3>1, Zenon
  <2> HIDE DEF Low
  <2>2. /\ Cardinality(Low(x)) <= Cardinality(Low(z))
        /\ Cardinality(Low(x)) # Cardinality(Low(z))
    BY <1>1, <2>1, FS_Subset
  <2>3. QED
    BY <1>1, <2>2
<1>6. ASSUME \A y \in S : y <= x PROVE Cardinality(Low(x)) = Cardinality(S)
  BY <1>6
<1> HIDE DEF Low
<1>7. \A z : Rank(S, z) = Cardinality(Low(z))
  BY DEF Rank, Low
<1>8. QED
  BY <1>1, <1>2, <1>4, <1>5, <1>6, <1>7
\* Every rank is some element's.
LEMMA Ranked ==
    ASSUME NEW S \in SUBSET Nat, IsFiniteSet(S), NEW top \in S, \A y \in S : y <= top,
           NEW k \in 1..Cardinality(S)
    PROVE  \E x \in S : Rank(S, x) = k
<1> DEFINE n == Cardinality(S)
           G == {j \in Nat : j < n => \E x \in S : Rank(S, x) = n - j}
<1>1. n \in Nat /\ \A x \in S : Rank(S, x) \in Nat
  BY FS_CardinalityType, RankFacts
<1>2. 0 \in G
  <2>1. Rank(S, top) = n
    BY RankFacts
  <2>2. n = n - 0
    BY <1>1
  <2>3. QED
    BY <2>1, <2>2
<1>3. \A j \in G : j + 1 \in G
  <2> SUFFICES ASSUME NEW j \in Nat, NEW x \in S, Rank(S, x) = n - j, j + 1 < n
               PROVE  \E z \in S : Rank(S, z) = n - (j + 1)
    BY <1>1
  <2> DEFINE Low == {y \in S : y <= x}
             Below == {y \in S : y < x}
  <2>1. Low = Below \union {x} /\ x \notin Below /\ Below = Low \ {x} /\ Below \in SUBSET Nat
        /\ \A y \in Below : y <= x
    <3>1. /\ \A y \in S : y < x <=> (y <= x /\ y # x)
          /\ \A y \in S : y \in Nat
      OBVIOUS
    <3>2. x \in S /\ x <= x
      OBVIOUS
    <3>3. \A y : y \in Low <=> (y \in Below \/ y = x)
      BY <3>1, <3>2, Zenon
    <3>4. x \notin Below
      BY <3>1, Zenon
    <3>6. Below \in SUBSET Nat /\ \A y \in Below : y <= x
      BY <3>1, Zenon
    <3> HIDE DEF Low, Below
    <3>7. Low = Below \union {x} /\ Below = Low \ {x}
      BY <3>3, <3>4
    <3>5. QED
      BY <3>4, <3>6, <3>7
  <2>2. IsFiniteSet(Low) /\ Cardinality(Low) = n - j
    <3>1. Low \in SUBSET S
      OBVIOUS
    <3>2. IsFiniteSet(Low)
      BY <3>1, FS_Subset
    <3>3. QED
      BY <3>2, Zenon DEF Rank
  <2>3. IsFiniteSet(Below) /\ Cardinality(Below) = n - j - 1
    <3>1. x \in Low /\ Below = Low \ {x}
      BY <2>1, Zenon
    <3> HIDE DEF Low, Below
    <3>2. IsFiniteSet(Low \ {x}) /\ Cardinality(Low \ {x}) = Cardinality(Low) - 1
      BY <2>2, <3>1, FS_RemoveElement
    <3>3. QED
      BY <2>2, <3>1, <3>2
  <2>4. Below # {}
    BY <1>1, <2>3, FS_EmptySet
  <2>5. PICK z \in Below : \A y \in Below : y <= z
    <3>1. x \in Nat
      OBVIOUS
    <3> HIDE DEF Below
    <3>2. QED
      BY <2>1, <2>4, <3>1, Greatest
  <2>6. {y \in S : y <= z} = Below
    <3>1. z \in S /\ z < x /\ \A y \in S : y < x => y <= z
      BY <2>5
    <3>2. \A y \in S : y <= z <=> y < x
      BY <3>1
    <3>3. QED
      BY <3>2, Zenon
  <2>7. Rank(S, z) = n - (j + 1)
    <3>1. Rank(S, z) = Cardinality(Below)
      BY <2>6, Zenon DEF Rank
    <3>2. QED
      BY <1>1, <2>3, <3>1
  <2>8. QED
    BY <2>5, <2>7
<1>4. \A j \in Nat : j \in G
  <2>1. G \in SUBSET Nat
    OBVIOUS
  <2> HIDE DEF G
  <2>2. QED
    BY <1>2, <1>3, <2>1, Upward, Zenon
<1>5. n - k \in G /\ n - k \in Nat /\ n - k < n /\ n - (n - k) = k
  BY <1>1, <1>4
<1>6. QED
  BY <1>5

LEMMA SameCount == \A S : P!Cardinality(S) = Cardinality(S)
  BY DEF P!Cardinality, Cardinality

\* The times of a table: they start at zero and go up to the longest, each of
\* them in its turn.
LEMMA TimeFacts ==
    ASSUME NEW d \in Duties
    PROVE  /\ P!Time(d, 0) = 0 /\ P!Time(d, Count(d)) = P!Longest(d)
           /\ \A k \in 0 .. Count(d) : P!Time(d, k) \in Span
           /\ \A k \in 0 .. Count(d) - 1 :
                 /\ P!Time(d, k) < P!Time(d, k + 1) /\ P!Time(d, k) < P!Longest(d)
                 /\ \A x \in P!Times(d) : x > P!Time(d, k) => x >= P!Time(d, k + 1)
<1> DEFINE S == P!Times(d)
           n == Count(d)
           At(k) == P!Time(d, k)
           top == P!Longest(d)
<1>1. /\ S \subseteq 1 .. Modulus - 1 /\ top \in S /\ IsFiniteSet(S) /\ n \in Nat \ {0}
      /\ n = Cardinality(S) /\ Modulus \in Nat /\ \A y \in S : y <= top
  BY TimesFacts, PwmAssumption DEF Count
<1>2. At(0) = 0
  BY DEF P!Time
<1>3. \A k \in 1..n : At(k) = CHOOSE x \in S : Rank(S, x) = k
  <2>1. \A k \in 1..n : k # 0
    BY <1>1
  <2> HIDE DEF n
  <2>2. QED
    BY <2>1, SameCount DEF P!Time, Rank
<1> HIDE DEF S, n, At, top
<1>4. S \in SUBSET Nat /\ \A y \in S : y \in Nat /\ y # 0 /\ y \in Span /\ y <= top /\ ~(y < y)
  BY <1>1 DEF Span
<1>5. \A k \in 1..n : At(k) \in S /\ Rank(S, At(k)) = k
  <2> SUFFICES ASSUME NEW k \in 1..n PROVE At(k) \in S /\ Rank(S, At(k)) = k
    OBVIOUS
  <2>1. \E x \in S : Rank(S, x) = k
    BY <1>1, <1>4, Ranked
  <2>2. QED
    BY <1>3, <2>1, Zenon
<1>6. \A x \in S : /\ Rank(S, x) \in 1..n
                   /\ \A z \in S : x < z => Rank(S, x) < Rank(S, z)
                   /\ (\A y \in S : y <= x) => Rank(S, x) = n
  BY <1>1, <1>4, RankFacts, Zenon
<1>7. At(n) = top
  <2>1. At(n) \in S /\ Rank(S, At(n)) = n /\ Rank(S, top) = n
    BY <1>1, <1>4, <1>5, <1>6
  <2>2. At(n) < top => n < n
    <3>1. At(n) < top => Rank(S, At(n)) < Rank(S, top)
      BY <1>1, <1>6, <2>1, Zenon
    <3>2. QED
      BY <2>1, <3>1, Zenon
  <2>3. At(n) <= top /\ At(n) \in Nat /\ top \in Nat
    BY <1>1, <1>4, <2>1
  <2>4. QED
    BY <1>1, <2>2, <2>3
<1>8. \A k \in 0..n : At(k) \in Span
  <2> TAKE k \in 0..n
  <2>1. k = 0 \/ k \in 1..n
    BY <1>1
  <2>2. k \in 1..n => At(k) \in Span
    BY <1>4, <1>5, Zenon
  <2>3. 0 \in Span
    BY <1>1, PwmAssumption DEF Span
  <2>4. QED
    BY <1>2, <2>1, <2>2, <2>3
<1>9. ASSUME NEW k \in 0 .. n - 1
      PROVE  /\ At(k) < At(k + 1) /\ At(k) < top
             /\ \A x \in S : x > At(k) => x >= At(k + 1)
  <2>1. k + 1 \in 1..n /\ (k = 0 \/ k \in 1..n) /\ k < k + 1 /\ k \in Nat
    BY <1>1
  <2>2. At(k + 1) \in S /\ Rank(S, At(k + 1)) = k + 1 /\ At(k + 1) \in Nat /\ At(k + 1) # 0
        /\ At(k + 1) <= top /\ top \in Nat
    BY <1>1, <1>4, <1>5, <2>1
  <2>3. CASE k = 0
    <3>1. ASSUME NEW x \in S, x < At(k + 1) PROVE FALSE
      BY <1>6, <2>2, <2>3, <3>1
    <3>2. QED
      BY <1>1, <1>2, <1>4, <2>2, <2>3, <3>1
  <2>4. CASE k \in 1..n
    <3>1. At(k) \in S /\ Rank(S, At(k)) = k
      BY <1>5, <2>4
    <3>2. At(k) \in Nat /\ At(k) # At(k + 1)
      <4>1. k # k + 1
        BY <2>1
      <4>2. QED
        BY <1>4, <2>2, <3>1, <4>1
    <3>3. ~(At(k + 1) < At(k))
      BY <1>6, <2>2, <3>1, <2>1
    <3>4. ASSUME NEW x \in S, x > At(k), x < At(k + 1) PROVE FALSE
      <4>1. Rank(S, x) \in Nat /\ k < Rank(S, x) /\ Rank(S, x) < k + 1
        <5>1. At(k) < x /\ Rank(S, x) \in 1..n
          BY <1>4, <1>6, <3>2, <3>4
        <5>2. Rank(S, At(k)) < Rank(S, x) /\ Rank(S, x) < Rank(S, At(k + 1))
          BY <1>6, <2>2, <3>1, <3>4, <5>1
        <5>3. QED
          BY <2>2, <3>1, <5>1, <5>2
      <4>2. QED
        BY <2>1, <4>1
    <3>5. QED
      BY <1>4, <2>2, <3>2, <3>3, <3>4
  <2>5. QED
    BY <2>1, <2>3, <2>4
<1>10. QED
  BY <1>2, <1>7, <1>8, <1>9 DEF At, n, S, top

\* The outputs whose time has not come after k points, and those that rise at
\* the point k.
Lit(d, k) == {c \in Outputs : P!HighTime(d[c]) > P!Time(d, k)}
Rising(d, k) == IF P!Time(d, k) = P!End THEN Outputs ELSE {}
Falling(d, k) == {c \in Outputs : P!HighTime(d[c]) = P!Time(d, k)}

\* The table of some duties, entry by entry.
LEMMA PointsFacts ==
    ASSUME NEW d \in Duties
    PROVE  /\ Len(P!Points(d)) = Count(d) /\ DOMAIN P!Points(d) = 1..Count(d)
           /\ \A k \in 1..Count(d) :
                 P!Points(d)[k] =
                    [h |-> P!Delta(d, k),
                     set |-> IF k < Count(d) THEN Rising(d, k) ELSE Rising(d, k) \ P!LastClear(d),
                     clear |-> IF k < Count(d) THEN Falling(d, k) ELSE P!LastClear(d)]
           /\ P!Points(d)[Len(P!Points(d))] = P!Points(d)[Count(d)]
<1> DEFINE n == Count(d)
           p == P!Points(d)
<1>1. n \in Nat \ {0} /\ P!Cardinality(P!Times(d)) = n
  BY TimesFacts, SameCount DEF Count
<1>2. p = [k \in 1..n |->
             [h |-> P!Delta(d, k),
              set |-> IF k < n THEN Rising(d, k) ELSE Rising(d, k) \ P!LastClear(d),
              clear |-> IF k < n THEN Falling(d, k) ELSE P!LastClear(d)]]
  BY <1>1, Zenon DEF P!Points, Rising, Falling
<1> HIDE DEF n, p
<1>3. Len(p) = n
  BY <1>1, <1>2
<1>4. QED
  BY <1>2, <1>3, Zenon DEF n, p

\* The first k points lower the outputs whose time has come, and the last raises
\* those with a duty, whatever was high, if none falls later.  An output that
\* falls last rises at End and falls at no point before the last.
LEMMA DrivenFacts ==
    ASSUME NEW d \in Duties, NEW k \in 1..Count(d), out \subseteq Outputs
    PROVE  /\ P!Points(d)[k].h = P!Delta(d, k)
           /\ P!Driven(P!Points(d)[k]) \subseteq Outputs
           /\ P!End = P!Longest(d) =>
                 IF k = Count(d) THEN P!Driven(P!Points(d)[k]) = Lit(d, 0)
                 ELSE out = Lit(d, k - 1) => P!Driven(P!Points(d)[k]) = Lit(d, k)
           /\ k < Count(d) =>
                 \A c \in Outputs : /\ P!HighTime(d[c]) = P!Longest(d)
                                    /\ P!Time(d, k) = P!End \/ c \in out
                                    => c \in P!Driven(P!Points(d)[k])
<1> DEFINE e == P!Points(d)[k]
           n == Count(d)
           Due(c) == P!HighTime(d[c])
           now == P!Time(d, k)
           rise == IF k < n THEN Rising(d, k) ELSE Rising(d, k) \ P!LastClear(d)
           fall == IF k < n THEN Falling(d, k) ELSE P!LastClear(d)
<1>1. /\ n \in Nat \ {0} /\ P!Time(d, 0) = 0 /\ P!Time(d, n) = P!Longest(d)
      /\ \A c \in Outputs : Due(c) \in Nat /\ Due(c) \in P!Times(d) \union {0}
  BY HighTimes, TimesFacts, TimeFacts DEF Duties, Span
<1>2. e = [h |-> P!Delta(d, k), set |-> rise, clear |-> fall]
  BY PointsFacts, Zenon
<1> HIDE DEF rise, fall
<1>3. e.h = P!Delta(d, k) /\ e.set = rise /\ e.clear = fall
  BY <1>2
<1> USE DEF rise, fall
<1>4. P!Driven(e) = (out \union e.set) \ e.clear
  BY Zenon DEF P!Driven
<1> HIDE DEF e, Due, now
<1>5. Rising(d, k) \subseteq Outputs
  BY DEF Rising
<1>6. P!Driven(e) \subseteq Outputs
  BY <1>3, <1>4, <1>5
<1>7. k < n => k - 1 \in 0 .. n - 1 /\ (k - 1) + 1 = k /\ k \in 0 .. n - 1 /\ k \in 0..n /\ k - 1 \in 0..n
  BY <1>1
<1>8. ASSUME P!End = P!Longest(d), k = n PROVE P!Driven(e) = Lit(d, 0)
  <2>1. Rising(d, k) = Outputs /\ ~(k < n)
    BY <1>1, <1>8 DEF Rising
  <2>2. P!Driven(e) = Outputs \ P!LastClear(d)
    BY <1>3, <1>4, <2>1
  <2>3. \A c \in Outputs : Due(c) > P!Time(d, 0) <=> Due(c) # 0
    BY <1>1
  <2>4. QED
    BY <2>2, <2>3, Zenon DEF P!LastClear, Lit, Due
<1>9. ASSUME P!End = P!Longest(d), k # n, out = Lit(d, k - 1) PROVE P!Driven(e) = Lit(d, k)
  <2>1. k < n /\ now < P!Longest(d) /\ now \in Nat /\ P!Time(d, k - 1) \in Nat
    BY <1>1, <1>7, <1>9, TimeFacts DEF now, Span
  <2>2. Rising(d, k) = {}
    BY <1>9, <2>1 DEF Rising, now
  <2>3. P!Driven(e) = out \ Falling(d, k)
    BY <1>3, <1>4, <2>1, <2>2
  <2>4. P!Time(d, k - 1) < now /\ \A c \in Outputs : Due(c) > P!Time(d, k - 1) => Due(c) >= now
    BY <1>1, <1>7, <2>1, TimeFacts DEF now
  <2>5. \A c \in Outputs : Due(c) > now <=> (Due(c) > P!Time(d, k - 1) /\ Due(c) # now)
    BY <1>1, <2>1, <2>4
  <2>6. QED
    BY <1>9, <2>3, <2>5, Zenon DEF Lit, Falling, Due, now
<1>10. ASSUME k < n, NEW c \in Outputs, Due(c) = P!Longest(d), now = P!End \/ c \in out
       PROVE  c \in P!Driven(e)
  <2>1. now < P!Longest(d) /\ now \in Nat
    BY <1>7, <1>10, TimeFacts DEF now, Span
  <2>2. c \notin Falling(d, k)
    BY <1>10, <2>1 DEF Falling, Due, now
  <2>3. QED
    BY <1>3, <1>4, <1>10, <2>2 DEF Rising, now
<1>11. QED
  BY <1>3, <1>6, <1>8, <1>9, <1>10 DEF e, n, Due, now
-----------------------------------------------------------------------------
PwmTyped ==
    /\ duty \in Duties /\ meant \in [0..1 -> Duties]
    /\ table = [t \in 0..1 |-> P!Points(meant[t])]
    /\ pwm_toggle \in 0..1 /\ using \in 0..1
    /\ pwm_timer_down \in BOOLEAN /\ first \in BOOLEAN /\ ended \in BOOLEAN /\ hurried \in BOOLEAN
    /\ load \in Span /\ out \subseteq Outputs /\ high \in [Outputs -> Nat] /\ ran \in Nat
    /\ pwmPc \in {"idle", "filled", "checked"}

\* The newest duties are in the table that is next, or in the one that
\* pwm_start fills; only after a request has ended in the period may the
\* interrupt have yet to change.
Tables ==
    /\ meant[IF pwmPc = "idle" THEN pwm_toggle ELSE P!Other(pwm_toggle)] = duty
    /\ pwm_timer_down \/ (pwmPc # "idle" /\ ~hurried) \/ ~ended => using = pwm_toggle
    /\ pwmPc = "checked" => ~pwm_timer_down
    /\ hurried => ~pwm_timer_down

\* With the timer down, there is one point, and it was driven.
Resting ==
    pwm_timer_down =>
        /\ pwm_current_channel = 0 /\ ran = 0 /\ ~first
        /\ Count(meant[using]) = 1 /\ out = Lit(meant[using], 0)

Lesser(x, y) == IF x < y THEN x ELSE y

\* After the point k, in a period that lasts as it should: each output was high
\* until its time.
Exact(d, k) ==
    /\ out = Lit(d, k)
    /\ high = [c \in Outputs |-> Lesser(P!HighTime(d[c]), P!Time(d, k))]

\* After the point k, whatever the period: an output that falls last is high
\* from End on.
Lasting(d, k) ==
    \A c \in Outputs : P!HighTime(d[c]) = P!Longest(d) =>
        /\ P!End <= P!Time(d, k) => c \in out
        /\ high[c] >= P!Time(d, k) - P!End

\* Between two points, what has gone by is the time of the one before.
Running ==
    ~pwm_timer_down /\ ~hurried =>
        /\ pwm_current_channel \in 0 .. Count(meant[using]) - 1 /\ Count(meant[using]) # 1
        /\ ran = P!Time(meant[using], pwm_current_channel)
        /\ load = P!Delta(meant[using], pwm_current_channel + 1)
        /\ ~first /\ P!End = P!Longest(meant[using]) => Exact(meant[using], pwm_current_channel)
        /\ Lasting(meant[using], pwm_current_channel)

PwmInv == PwmTyped /\ Tables /\ Resting /\ Running

LEMMA DeltaType ==
    ASSUME NEW d \in Duties, NEW k \in 1..Count(d)
    PROVE  /\ P!Delta(d, k) \in Span /\ P!Time(d, k) = P!Time(d, k - 1) + P!Delta(d, k)
           /\ P!Delta(d, k) > 0
<1>1. k - 1 \in 0 .. Count(d) - 1 /\ (k - 1) + 1 = k /\ k \in 0..Count(d) /\ k - 1 \in 0..Count(d)
  BY TimesFacts
<1>2. /\ P!Time(d, k) \in Span /\ P!Time(d, k - 1) \in Span
      /\ P!Time(d, k - 1) < P!Time(d, k)
  BY <1>1, TimeFacts
<1>3. Modulus \in Nat
  BY PwmAssumption
<1>4. QED
  BY <1>2, <1>3 DEF P!Delta, Span

LEMMA OtherFacts ==
    ASSUME NEW t \in 0..1
    PROVE  P!Other(t) \in 0..1 /\ P!Other(t) # t /\ \A u \in 0..1 : u # t => u = P!Other(t)
  BY DEF P!Other

\* Nothing has lasted when a period begins.
LEMMA NothingYet ==
    ASSUME NEW d \in Duties, NEW h \in [Outputs -> Nat], NEW S
    PROVE  \A c \in Outputs : (P!End <= P!Time(d, 0) => c \in S) /\ h[c] >= P!Time(d, 0) - P!End
  BY TimeFacts, HighTimes, PwmAssumption DEF Span

LEMMA PwmInitInv == P!Init => PwmInv
<1> SUFFICES ASSUME P!Init PROVE PwmInv
  OBVIOUS
<1>1. P!Off \in Duties /\ P!Off \in [Outputs -> Nat] /\ \A c \in Outputs : P!Off[c] = 0
  BY PwmAssumption DEF P!Off, Duties
<1>2. P!HighTime(0) = 0
  BY PwmAssumption, HighTimes
<1>3. P!Times(P!Off) = {P!End}
  BY <1>1, <1>2, Zenon DEF P!Times
<1>4. Count(P!Off) = 1
  BY <1>3, FS_Singleton DEF Count
<1>5. Lit(P!Off, 0) = {}
  BY <1>1, TimeFacts, <1>2 DEF Lit
<1>6. /\ duty = P!Off /\ meant = [t \in 0..1 |-> P!Off] /\ high = P!Off
      /\ table = [t \in 0..1 |-> P!Points(P!Off)]
      /\ pwm_toggle = 1 /\ using = 1 /\ pwm_current_channel = 0 /\ pwm_timer_down = TRUE
      /\ load = 0 /\ out = {} /\ pwmPc = "idle" /\ ran = 0
      /\ first = FALSE /\ ended = FALSE /\ hurried = FALSE
  BY DEF P!Init
<1>7. meant \in [0..1 -> Duties] /\ meant[1] = P!Off /\ table = [t \in 0..1 |-> P!Points(meant[t])]
  BY <1>1, <1>6
<1>8. PwmTyped
  <2>1. 0 \in Span /\ 1 \in 0..1
    BY PwmAssumption DEF Span
  <2>2. 0 \in Nat
    OBVIOUS
  <2>3. QED
    BY <1>1, <1>6, <1>7, <2>1, <2>2, Zenon DEF PwmTyped
<1>9. Tables /\ Resting /\ Running
  BY <1>4, <1>5, <1>6, <1>7 DEF Tables, Resting, Running
<1>10. QED
  BY <1>8, <1>9 DEF PwmInv

LEMMA FillInv == PwmInv /\ P!Fill => PwmInv'
<1> SUFFICES ASSUME PwmInv, P!Fill PROVE PwmInv'
  OBVIOUS
<1> DEFINE t == P!Other(pwm_toggle)
<1>1. PwmTyped /\ Tables /\ Resting /\ Running
  BY DEF PwmInv
<1>2. PICK c \in Outputs, n \in Asked :
         LET d == [duty EXCEPT ![c] = n % (PWM_DEPTH + 1)]
         IN  /\ duty' = d
             /\ table' = [table EXCEPT ![t] = P!Points(d)]
             /\ meant' = [meant EXCEPT ![t] = d]
             /\ hurried' = (hurried \/ (t = using /\ ~pwm_timer_down))
  BY Zenon DEF P!Fill, P!Local
<1>3. /\ pwmPc = "idle" /\ ~hurried /\ pwmPc' = "filled"
      /\ UNCHANGED <<pwm_toggle, using, pwm_current_channel, pwm_timer_down, load, out,
                     high, ran, first, ended>>
  BY DEF P!Fill
<1>4. duty' \in Duties
  BY PwmAssumption, <1>1, <1>2, SMTT(30) DEF PwmTyped, Duties
<1>5. t \in 0..1 /\ t # pwm_toggle /\ (using # t => using = pwm_toggle) /\ t = P!Other(pwm_toggle')
  BY <1>1, <1>3, OtherFacts DEF PwmTyped
<1>6. /\ meant' \in [0..1 -> Duties] /\ meant'[t] = duty'
      /\ \A u \in 0..1 : u # t => meant'[u] = meant[u]
      /\ table' = [u \in 0..1 |-> P!Points(meant'[u])]
  <2> HIDE DEF t
  <2>1. meant' = [meant EXCEPT ![t] = duty'] /\ table' = [table EXCEPT ![t] = P!Points(duty')]
    BY <1>2
  <2>2. QED
    BY <1>1, <1>4, <1>5, <2>1 DEF PwmTyped
<1>7. hurried' = (t = using /\ ~pwm_timer_down)
  BY <1>2, <1>3
<1> HIDE DEF t
<1>8. PwmTyped'
  BY <1>1, <1>3, <1>4, <1>6, <1>7, Zenon DEF PwmTyped
<1>9. Tables'
  BY <1>1, <1>3, <1>5, <1>6, <1>7 DEF Tables
<1>10. ~hurried' => using # t /\ meant'[using] = meant[using] /\ using' = using
  BY <1>1, <1>3, <1>5, <1>7, <1>6 DEF Tables, PwmTyped
<1>11. Resting'
  BY <1>1, <1>3, <1>7, <1>10 DEF Resting
<1>12. Running'
  BY <1>1, <1>3, <1>10 DEF Running, Exact, Lasting
<1>13. QED
  BY <1>8, <1>9, <1>11, <1>12 DEF PwmInv

LEMMA StartInv == PwmInv /\ P!Start => PwmInv'
<1> SUFFICES ASSUME PwmInv, P!Start PROVE PwmInv'
  OBVIOUS
<1> DEFINE t == P!Other(pwm_toggle)
           d == meant[t]
<1>1. PwmTyped /\ Tables /\ Resting
  BY DEF PwmInv
<1>2. /\ pwmPc = "filled" /\ pwm_timer_down /\ using' = t /\ out' = P!Driven(table[t][1])
      /\ pwm_toggle' = t /\ pwmPc' = "idle" /\ ended' = FALSE
      /\ UNCHANGED <<duty, table, pwm_current_channel, meant, high, ran, hurried>>
  BY DEF P!Start, P!Local, P!Toggled
<1>3. IF Len(table[t]) # 1
      THEN pwm_timer_down' = FALSE /\ load' = table[t][1].h /\ first' = TRUE
      ELSE UNCHANGED <<pwm_timer_down, load, first>>
  BY DEF P!Start, P!Local
<1>4. t \in 0..1 /\ d \in Duties /\ table[t] = P!Points(d) /\ ~hurried /\ d = duty
  BY <1>1, <1>2, OtherFacts DEF PwmTyped, Tables
<1>5. /\ Len(table[t]) = Count(d) /\ Count(d) \in Nat \ {0} /\ P!Time(d, 0) = 0
      /\ pwm_current_channel = 0 /\ ran = 0 /\ ~first /\ out \subseteq Outputs
      /\ high \in [Outputs -> Nat]
  BY <1>1, <1>2, <1>4, PointsFacts, TimesFacts, TimeFacts DEF Resting, PwmTyped
<1> HIDE DEF t, d
<1>6. /\ 1 \in 1..Count(d) /\ meant'[using'] = d
      /\ table[t][1].h = P!Delta(d, 1) /\ P!Delta(d, 1) \in Span /\ out' \subseteq Outputs
  <2>1. 1 \in 1..Count(d) /\ meant'[using'] = d
    BY <1>2, <1>5 DEF d
  <2>2. QED
    BY <1>2, <1>4, <1>5, <2>1, DrivenFacts, DeltaType
<1>7. CASE Count(d) # 1
  <2>1. pwm_timer_down' = FALSE /\ load' = P!Delta(d, 1) /\ first' = TRUE
    BY <1>3, <1>5, <1>6, <1>7
  <2>2. PwmTyped'
    <3>1. load' \in Span /\ pwm_timer_down' \in BOOLEAN /\ first' \in BOOLEAN /\ ended' \in BOOLEAN
      BY <1>2, <1>6, <2>1
    <3>2. QED
      BY <1>1, <1>2, <1>4, <1>6, <3>1, Zenon DEF PwmTyped
  <2>3. Tables' /\ Resting'
    BY <1>2, <1>4, <2>1 DEF Tables, Resting, d
  <2>4. Running'
    <3>1. 0 \in 0 .. Count(d) - 1 /\ 0 + 1 = 1
      BY <1>5
    <3>2. \A c \in Outputs : (P!End <= P!Time(d, 0) => c \in out') /\ high[c] >= P!Time(d, 0) - P!End
      BY <1>4, <1>5, NothingYet
    <3>3. QED
      BY <1>2, <1>5, <1>6, <1>7, <2>1, <3>1, <3>2 DEF Running, Lasting
  <2>5. QED
    BY <2>2, <2>3, <2>4 DEF PwmInv
<1>8. CASE Count(d) = 1
  <2>1. UNCHANGED <<pwm_timer_down, load, first>>
    BY <1>3, <1>5, <1>8
  <2>2. out' = Lit(d, 0)
    BY <1>2, <1>4, <1>5, <1>6, <1>8, DrivenFacts, TimesFacts
  <2>3. PwmTyped'
    BY <1>1, <1>2, <1>4, <1>6, <2>1 DEF PwmTyped
  <2>4. Tables'
    BY <1>1, <1>2, <1>4, <2>1 DEF Tables, d
  <2>5. Resting' /\ Running'
    BY <1>1, <1>2, <1>8, <2>1, <2>2 DEF Resting, Running, d
  <2>6. QED
    BY <2>3, <2>4, <2>5 DEF PwmInv
<1>9. QED
  BY <1>7, <1>8

\* Check and Toggle leave the timer, the tables and the outputs alone.
LEMMA AskInv == PwmInv /\ (P!Check \/ P!Toggle) => PwmInv'
<1> SUFFICES ASSUME PwmInv, P!Check \/ P!Toggle PROVE PwmInv'
  OBVIOUS
<1>1. PwmTyped /\ Tables /\ Resting /\ Running
  BY DEF PwmInv
<1>2. UNCHANGED <<duty, table, using, pwm_current_channel, pwm_timer_down, load, out, meant, high,
                  ran, first, hurried>>
  BY DEF P!Check, P!Toggle
<1>3. Resting' /\ Running'
  BY <1>1, <1>2 DEF Resting, Running, Exact, Lasting
<1>4. CASE P!Check
  <2>1. pwmPc = "filled" /\ ~pwm_timer_down /\ pwmPc' = "checked"
        /\ UNCHANGED <<pwm_toggle, ended>>
    BY <1>4 DEF P!Check
  <2>2. PwmTyped' /\ Tables'
    BY <1>1, <1>2, <2>1 DEF PwmTyped, Tables
  <2>3. QED
    BY <1>3, <2>2 DEF PwmInv
<1>5. CASE P!Toggle
  <2>1. pwmPc = "checked" /\ pwmPc' = "idle" /\ pwm_toggle' = P!Other(pwm_toggle) /\ ended' = TRUE
    BY <1>5 DEF P!Toggle, P!Toggled
  <2>2. PwmTyped' /\ Tables'
    BY <1>1, <1>2, <2>1, OtherFacts DEF PwmTyped, Tables
  <2>3. QED
    BY <1>3, <2>2 DEF PwmInv
<1>6. QED
  BY <1>4, <1>5

\* What was high in the period, after the time to one more point.
LEMMA ElapsedFacts ==
    ASSUME NEW d \in Duties, NEW k \in 0 .. Count(d) - 1,
           out \subseteq Outputs, high \in [Outputs -> Nat], load = P!Delta(d, k + 1)
    PROVE  /\ P!Elapsed \in [Outputs -> Nat]
           /\ Exact(d, k) =>
                 P!Elapsed = [c \in Outputs |-> Lesser(P!HighTime(d[c]), P!Time(d, k + 1))]
           /\ Lasting(d, k) =>
                 \A c \in Outputs : P!HighTime(d[c]) = P!Longest(d)
                                       => P!Elapsed[c] >= P!Time(d, k + 1) - P!End
<1>1. k + 1 \in 1..Count(d) /\ (k + 1) - 1 = k /\ k \in 0..Count(d) /\ k + 1 \in 0..Count(d)
  BY TimesFacts
<1>2. /\ P!Time(d, k) \in Nat /\ P!Time(d, k + 1) \in Nat /\ P!Time(d, k) < P!Time(d, k + 1)
      /\ P!End \in Nat /\ P!End \in P!Times(d)
      /\ P!End > P!Time(d, k) => P!End >= P!Time(d, k + 1)
  BY <1>1, TimeFacts, TimesFacts, PwmAssumption DEF Span
<1>3. load = P!Time(d, k + 1) - P!Time(d, k) /\ load \in Nat
  BY <1>1, <1>2 DEF P!Delta
<1>4. P!Elapsed = [c \in Outputs |-> high[c] + (IF c \in out THEN load ELSE 0)]
  BY DEF P!Elapsed
<1>5. ASSUME Exact(d, k), NEW c \in Outputs
      PROVE  high[c] + (IF c \in out THEN load ELSE 0) = Lesser(P!HighTime(d[c]), P!Time(d, k + 1))
  <2>1. P!HighTime(d[c]) \in Nat
    BY HighTimes DEF Duties, Span
  <2>2. P!HighTime(d[c]) > P!Time(d, k) => P!HighTime(d[c]) >= P!Time(d, k + 1)
    BY <1>2, <2>1, TimeFacts, TimesFacts
  <2>3. high[c] = Lesser(P!HighTime(d[c]), P!Time(d, k))
    BY <1>5, Zenon DEF Exact
  <2>4. c \in out <=> P!HighTime(d[c]) > P!Time(d, k)
    BY <1>5, Zenon DEF Exact, Lit
  <2>5. CASE P!HighTime(d[c]) > P!Time(d, k)
    BY <1>2, <1>3, <2>1, <2>2, <2>3, <2>4, <2>5 DEF Lesser
  <2>6. CASE ~(P!HighTime(d[c]) > P!Time(d, k))
    BY <1>2, <1>3, <2>1, <2>3, <2>4, <2>6 DEF Lesser
  <2>7. QED
    BY <2>5, <2>6
<1>6. ASSUME Lasting(d, k), NEW c \in Outputs, P!HighTime(d[c]) = P!Longest(d)
      PROVE  P!Elapsed[c] >= P!Time(d, k + 1) - P!End
  <2>1. (P!End <= P!Time(d, k) => c \in out) /\ high[c] >= P!Time(d, k) - P!End
    BY <1>6 DEF Lasting
  <2>2. P!Elapsed[c] = high[c] + (IF c \in out THEN load ELSE 0) /\ high[c] \in Nat
    BY <1>4
  <2>3. QED
    BY <1>2, <1>3, <2>1, <2>2
<1>7. P!Elapsed \in [Outputs -> Nat]
  BY <1>3, <1>4
<1>8. QED
  BY <1>4, <1>5, <1>6, <1>7, Zenon

LEMMA SwitchInv == PwmInv /\ P!Switch => PwmInv'
<1> SUFFICES ASSUME PwmInv, P!Switch PROVE PwmInv'
  OBVIOUS
<1> DEFINE d == meant[using]
           k == pwm_current_channel
<1>1. PwmTyped /\ Tables /\ Running
  BY DEF PwmInv
<1>2. /\ ~pwm_timer_down /\ ~hurried
      /\ k # Len(table[using]) - 1
      /\ out' = P!Driven(table[using][k + 1])
      /\ pwm_current_channel' = k + 1
      /\ load' = table[using][k + 2].h
      /\ high' = P!Elapsed /\ ran' = ran + load
      /\ UNCHANGED <<duty, table, pwm_toggle, using, pwm_timer_down, pwmPc, meant, first,
                     ended, hurried>>
  BY DEF P!Switch, P!Interrupt
<1>3. d \in Duties /\ table[using] = P!Points(d) /\ Len(table[using]) = Count(d)
      /\ out \subseteq Outputs /\ high \in [Outputs -> Nat]
  BY <1>1, PointsFacts DEF PwmTyped
<1>4. /\ k \in 0 .. Count(d) - 1 /\ Count(d) # 1
      /\ ran = P!Time(d, k) /\ load = P!Delta(d, k + 1)
      /\ ~first /\ P!End = P!Longest(d) => Exact(d, k)
      /\ Lasting(d, k)
  BY <1>1, <1>2 DEF Running
<1>5. meant'[using'] = d
  BY <1>2
<1> HIDE DEF d, k
<1>6. /\ k + 1 \in 1..Count(d) /\ k + 1 \in 0 .. Count(d) - 1 /\ k + 2 \in 1..Count(d)
      /\ (k + 1) - 1 = k /\ (k + 1) + 1 = k + 2 /\ (k + 2) - 1 = k + 1
      /\ k + 1 # Count(d) /\ k + 1 < Count(d) /\ k \in Nat
  BY <1>2, <1>3, <1>4, TimesFacts
<1>7. load' = P!Delta(d, k + 2) /\ load' \in Span
  BY <1>2, <1>3, <1>6, DrivenFacts, DeltaType
<1>8. ran' = P!Time(d, k + 1) /\ ran' \in Nat
  <2>1. ran' = P!Time(d, k + 1) /\ k + 1 \in 0..Count(d)
    BY <1>2, <1>3, <1>4, <1>6, DeltaType
  <2>2. QED
    BY <1>3, <2>1, TimeFacts, PwmAssumption DEF Span
<1>9. /\ out' \subseteq Outputs /\ high' \in [Outputs -> Nat]
  BY <1>2, <1>3, <1>4, <1>6, DrivenFacts, ElapsedFacts
<1>10. ASSUME ~first, P!End = P!Longest(d) 
       PROVE  /\ out' = Lit(d, k + 1)
              /\ high' = [c \in Outputs |-> Lesser(P!HighTime(d[c]), P!Time(d, k + 1))]
  <2>1. Exact(d, k) /\ out = Lit(d, k)
    BY <1>4, <1>10 DEF Exact
  <2>2. P!Driven(P!Points(d)[k + 1]) = Lit(d, k + 1)
    BY <1>3, <1>6, <1>10, <2>1, DrivenFacts
  <2>3. P!Elapsed = [c \in Outputs |-> Lesser(P!HighTime(d[c]), P!Time(d, k + 1))]
    BY <1>3, <1>4, <2>1, ElapsedFacts, Zenon
  <2>4. QED
    BY <1>2, <1>3, <2>2, <2>3
<1>11. ASSUME NEW c \in Outputs, P!HighTime(d[c]) = P!Longest(d)
       PROVE  /\ P!End <= P!Time(d, k + 1) => c \in out'
              /\ high'[c] >= P!Time(d, k + 1) - P!End
  <2>1. high'[c] >= P!Time(d, k + 1) - P!End
    BY <1>2, <1>11, <1>3, <1>4, ElapsedFacts
  <2>2. ASSUME P!End <= P!Time(d, k + 1) PROVE c \in out'
    <3>1. /\ P!Time(d, k) \in Nat /\ P!Time(d, k + 1) \in Nat /\ P!End \in Nat
          /\ P!End > P!Time(d, k) => P!End >= P!Time(d, k + 1)
      BY <1>3, <1>4, <1>6, TimeFacts, TimesFacts, PwmAssumption DEF Span
    <3>2. P!Time(d, k + 1) = P!End \/ c \in out
      BY <1>4, <1>11, <2>2, <3>1 DEF Lasting
    <3>3. c \in P!Driven(P!Points(d)[k + 1])
      BY <1>3, <1>6, <1>11, <3>2, DrivenFacts
    <3>4. QED
      BY <1>2, <1>3, <3>3
  <2>3. QED
    BY <2>1, <2>2
<1>12. PwmTyped'
  BY <1>1, <1>2, <1>7, <1>8, <1>9, Zenon DEF PwmTyped
<1>13. Tables' /\ Resting'
  BY <1>1, <1>2 DEF Tables, Resting
<1>14. Running'
  BY <1>2, <1>4, <1>5, <1>6, <1>7, <1>8, <1>10, <1>11 DEF Running, Exact, Lasting
<1>15. QED
  BY <1>12, <1>13, <1>14 DEF PwmInv

\* What has gone by at the last point of a period.
LEMMA PeriodEnds ==
    ASSUME PwmInv, P!EndOfPeriod
    PROVE  P!PeriodEndsRight
<1> DEFINE d == meant[using]
           k == pwm_current_channel
<1>1. /\ PwmTyped /\ Running /\ ~pwm_timer_down /\ ~hurried /\ k = Len(table[using]) - 1
  BY DEF PwmInv, P!EndOfPeriod, P!Interrupt
<1>2. /\ d \in Duties /\ Len(table[using]) = Count(d)
      /\ out \subseteq Outputs /\ high \in [Outputs -> Nat]
  BY <1>1, PointsFacts DEF PwmTyped
<1>3. /\ k \in 0 .. Count(d) - 1 /\ ran = P!Time(d, k) /\ load = P!Delta(d, k + 1)
      /\ ~first /\ P!End = P!Longest(d) => Exact(d, k)
      /\ Lasting(d, k)
  BY <1>1 DEF Running
<1> HIDE DEF d, k
<1>4. k + 1 = Count(d) /\ (k + 1) - 1 = k /\ k + 1 \in 1..Count(d)
  BY <1>1, <1>2, <1>3, TimesFacts
<1>5. P!Time(d, k + 1) = P!Longest(d) /\ ran + load = P!Longest(d)
  BY <1>2, <1>3, <1>4, TimeFacts, DeltaType
<1>6. ASSUME ~first, P!End = P!Longest(d), NEW c \in Outputs PROVE P!Elapsed[c] = P!HighTime(d[c])
  <2>1. P!Elapsed = [x \in Outputs |-> Lesser(P!HighTime(d[x]), P!Time(d, k + 1))]
    BY <1>2, <1>3, <1>6, ElapsedFacts, Zenon
  <2>2. P!HighTime(d[c]) \in Nat /\ P!HighTime(d[c]) <= P!Longest(d) /\ P!Longest(d) \in Nat
    BY <1>2, HighTimes, TimesFacts DEF Duties, Span
  <2>3. QED
    BY <1>5, <2>1, <2>2 DEF Lesser
<1>7. \A c \in Outputs : P!HighTime(d[c]) = P!Longest(d) => P!Elapsed[c] >= P!Longest(d) - P!End
  BY <1>2, <1>3, <1>5, ElapsedFacts
<1>8. QED
  BY <1>5, <1>6, <1>7 DEF P!PeriodEndsRight, d

LEMMA EndInv == PwmInv /\ P!EndOfPeriod => PwmInv'
<1> SUFFICES ASSUME PwmInv, P!EndOfPeriod PROVE PwmInv'
  OBVIOUS
<1> DEFINE e == meant[pwm_toggle]
<1>1. PwmTyped /\ Tables /\ Running
  BY DEF PwmInv
<1>2. /\ ~pwm_timer_down /\ ~hurried
      /\ using' = pwm_toggle /\ out' = P!Driven(table[using'][Len(table[using'])])
      /\ pwm_current_channel' = 0 /\ high' = P!Off /\ ran' = 0 /\ first' = FALSE /\ ended' = FALSE
      /\ UNCHANGED <<duty, table, pwm_toggle, pwmPc, meant, hurried>>
  BY DEF P!EndOfPeriod, P!Interrupt, P!Taken
<1>3. IF Len(table[using']) # 1
      THEN load' = table[using'][1].h /\ UNCHANGED pwm_timer_down
      ELSE pwm_timer_down' = TRUE /\ UNCHANGED load
  BY DEF P!EndOfPeriod
<1>4. /\ e \in Duties /\ table[using'] = P!Points(e) /\ Len(table[using']) = Count(e)
      /\ table[using'][Len(table[using'])] = P!Points(e)[Count(e)] /\ out \subseteq Outputs
  BY <1>1, <1>2, PointsFacts DEF PwmTyped
<1>5. Count(meant[using]) # 1
  BY <1>1, <1>2 DEF Running
<1>6. /\ meant'[using'] = e /\ P!Off = [c \in Outputs |-> 0] /\ high' \in [Outputs -> Nat] /\ ran' \in Nat
  BY <1>2 DEF P!Off
<1>7. Count(meant[using]) # 1 /\ Count(e) = 1 => using # pwm_toggle
  OBVIOUS
<1> HIDE DEF e
<1>8. Count(e) \in Nat \ {0} /\ Count(e) \in 1..Count(e) /\ 1 \in 1..Count(e)
  BY <1>4, TimesFacts
<1>9. /\ out' \subseteq Outputs
      /\ P!End = P!Longest(e) => out' = Lit(e, 0)
      /\ P!Points(e)[1].h = P!Delta(e, 1) /\ P!Delta(e, 1) \in Span
  BY <1>2, <1>4, <1>8, DrivenFacts, DeltaType
<1>10. CASE Count(e) # 1
  <2>1. load' = P!Delta(e, 1) /\ pwm_timer_down' = FALSE
    BY <1>1, <1>2, <1>3, <1>4, <1>9, <1>10 DEF PwmTyped
  <2>2. PwmTyped'
    BY <1>1, <1>2, <1>6, <1>9, <2>1, Zenon DEF PwmTyped
  <2>3. Tables' /\ Resting'
    BY <1>1, <1>2, <2>1 DEF Tables, Resting
  <2>4. Running'
    <3>1. 0 \in 0 .. Count(e) - 1 /\ 0 + 1 = 1 /\ P!Time(e, 0) = 0
      BY <1>4, <1>8, TimeFacts
    <3>2. \A c \in Outputs : Lesser(P!HighTime(e[c]), 0) = 0
      BY <1>4, HighTimes DEF Duties, Span, Lesser
    <3>3. high' = [c \in Outputs |-> Lesser(P!HighTime(e[c]), P!Time(e, 0))]
      BY <1>2, <1>6, <3>1, <3>2
    <3>4. \A c \in Outputs : (P!End <= P!Time(e, 0) => c \in out')
                             /\ high'[c] >= P!Time(e, 0) - P!End
      BY <1>4, <1>6, NothingYet
    <3>5. QED
      BY <1>2, <1>6, <1>9, <1>10, <2>1, <3>1, <3>3, <3>4 DEF Running, Exact, Lasting
  <2>5. QED
    BY <2>2, <2>3, <2>4 DEF PwmInv
<1>11. CASE Count(e) = 1
  <2>1. pwm_timer_down' = TRUE /\ load' = load
    BY <1>3, <1>4, <1>11
  <2>2. PwmTyped'
    BY <1>1, <1>2, <1>6, <1>9, <2>1, Zenon DEF PwmTyped
  <2>3. pwmPc # "checked"
    BY <1>1, <1>2, <1>5, <1>7, <1>11 DEF Tables
  <2>4. Tables'
    BY <1>1, <1>2, <2>1, <2>3 DEF Tables
  <2>5. Resting' /\ Running'
    BY <1>2, <1>4, <1>6, <1>9, <1>11, <2>1, TimesFacts DEF Resting, Running
  <2>6. QED
    BY <2>2, <2>4, <2>5 DEF PwmInv
<1>12. QED
  BY <1>10, <1>11

LEMMA PwmNext == PwmInv /\ [P!Next]_(P!vars) => PwmInv'
<1> SUFFICES ASSUME PwmInv, UNCHANGED P!vars PROVE PwmInv'
  BY FillInv, StartInv, AskInv, SwitchInv, EndInv DEF P!Next
<1>1. QED
  BY DEF P!vars, PwmInv, PwmTyped, Tables, Resting, Running, Exact, Lasting

\* A table of one point has no output that falls within the period.
LEMMA SteadyResult == PwmInv => P!RestIsSteady
<1> SUFFICES ASSUME PwmInv, pwm_timer_down, pwmPc = "idle", NEW c \in Outputs
             PROVE  duty[c] = IF c \in out THEN PWM_DEPTH ELSE 0
  BY DEF P!RestIsSteady
<1>1. /\ duty \in Duties /\ meant[using] = duty
      /\ Count(duty) = 1 /\ out = Lit(duty, 0)
  BY DEF PwmInv, PwmTyped, Tables, Resting
<1>2. P!HighTime(duty[c]) \in {0, P!End} /\ P!Time(duty, 0) = 0
  BY <1>1, TimesFacts, TimeFacts
<1>3. duty[c] \in 0..PWM_DEPTH
  BY <1>1 DEF Duties
<1>4. /\ P!HighTime(duty[c]) = 0 <=> duty[c] = 0
      /\ P!HighTime(duty[c]) = P!End <=> duty[c] = PWM_DEPTH
      /\ P!End \in Nat \ {0}
  BY <1>3, HighTimes, PwmAssumption DEF Span
<1>5. c \in out <=> P!HighTime(duty[c]) > 0
  BY <1>1, <1>2 DEF Lit
<1>6. QED
  BY <1>2, <1>4, <1>5

\* Only the end of a period sets its clock back.
LEMMA PeriodStep == PwmInv /\ P!Next => P!PeriodEndsRight
<1> SUFFICES ASSUME PwmInv, P!Next, ran' < ran PROVE P!PeriodEndsRight
  BY DEF P!PeriodEndsRight
<1>1. ran \in Nat /\ load \in Nat
  BY PwmAssumption DEF PwmInv, PwmTyped, Span
<1>2. ran' # ran /\ ran' # ran + load
  BY <1>1
<1>3. P!EndOfPeriod
  BY <1>2 DEF P!Next, P!Fill, P!Start, P!Check, P!Toggle, P!Switch
<1>4. QED
  BY <1>3, PeriodEnds

LEMMA PwmAlways == MCSpec => [](part = "pwm" => PwmInv)
<1> DEFINE Inv == part = "pwm" => PwmInv
<1>1. MCInit => Inv
  BY PwmInitInv DEF MCInit
<1>2. Inv /\ [MCNext]_allVars => Inv'
  <2> SUFFICES ASSUME part = "pwm", PwmInv, [MCNext]_allVars PROVE PwmInv'
    BY DEF MCNext, Modulation, OneWire, Bus
  <2>1. [P!Next]_(P!vars)
    BY DEF MCNext, Modulation, OneWire, Bus, pwmVars, P!vars
  <2>2. QED
    BY <2>1, PwmNext
<1>3. QED
  BY <1>1, <1>2, PTL DEF MCSpec

\* In every period, whatever is asked and when: it lasts to the longest time of
\* its table, and each output is high for its time, but for one that falls after
\* the others rise; and with the timer down each is high or low for good, as it
\* was asked: for any outputs, depth, period and width of the times.
THEOREM PulsesAreRight == MCSpec => PulsesRight
<1> DEFINE Inv == part = "pwm" => PwmInv
           Ends == part = "pwm" => P!PeriodEndsRight
           Rests == part = "pwm" => P!RestIsSteady
<1>1. Inv /\ [MCNext]_allVars => [Ends]_pwmVars
  <2> SUFFICES ASSUME PwmInv, [MCNext]_allVars, part = "pwm", pwmVars' # pwmVars
               PROVE  P!PeriodEndsRight
    OBVIOUS
  <2>1. P!Next
    BY DEF MCNext, Modulation, OneWire, Bus, pwmVars
  <2>2. QED
    BY <2>1, PeriodStep
<1>2. Inv => Rests
  BY SteadyResult
<1>3. [][Ends]_pwmVars /\ []Rests => PulsesRight
  BY PTL DEF PulsesRight
<1>4. QED
  BY <1>1, <1>2, <1>3, PwmAlways, PTL DEF MCSpec

\* The table in use is written only by a request that comes when another one has
\* ended in the same period: without one, the interrupt has changed to the table
\* that is next, and pwm_start writes the other.
THEOREM OneRequestAPeriod ==
    MCSpec => [][part = "pwm" /\ ~hurried /\ hurried' => ended]_pwmVars
<1> DEFINE Inv == part = "pwm" => PwmInv
           Once == part = "pwm" /\ ~hurried /\ hurried' => ended
<1>1. Inv /\ [MCNext]_allVars => [Once]_pwmVars
  <2> SUFFICES ASSUME PwmInv, [MCNext]_allVars, part = "pwm", ~hurried, hurried'
               PROVE  ended
    OBVIOUS
  <2>1. P!Fill
    BY DEF MCNext, Modulation, OneWire, Bus, pwmVars, P!Next, P!Start, P!Check, P!Toggle, P!Switch,
           P!EndOfPeriod
  <2>2. using = P!Other(pwm_toggle) /\ pwm_toggle \in 0..1
    BY <2>1, Zenon DEF P!Fill, P!Local, PwmInv, PwmTyped
  <2>3. using # pwm_toggle
    BY <2>2, OtherFacts
  <2>4. QED
    BY <2>3 DEF PwmInv, Tables
<1>2. QED
  BY <1>1, PwmAlways, PTL DEF MCSpec

\* A period whose ticks fit h_time, as those from 77 Hz up do: End is its ticks,
\* no output falls later, and each has its share.
THEOREM FittingPeriod ==
    ASSUME 5 * PwmPeriod < Modulus, NEW d \in Duties, NEW n \in 0..PWM_DEPTH
    PROVE  /\ P!End = 5 * PwmPeriod /\ P!Longest(d) = P!End
           /\ P!HighTime(n) = 5 * ((PwmPeriod * n) \div PWM_DEPTH)
<1>1. /\ PWM_DEPTH \in Nat \ {0} /\ PwmPeriod \in Nat /\ PWM_DEPTH <= PwmPeriod
      /\ Modulus \in Nat \ {0}
  BY PwmAssumption
<1>2. ASSUME NEW us \in 0..PwmPeriod PROVE P!Ticks(us) = 5 * us
  <2>1. 5 * us \in Nat /\ 5 * us < Modulus
    BY <1>1
  <2>2. \A x \in Nat : x < Modulus => x % Modulus = x
    BY <1>1, SMTT(30)
  <2>3. QED
    BY <2>1, <2>2 DEF P!Ticks
<1>3. P!End = 5 * PwmPeriod
  BY <1>1, <1>2 DEF P!End
<1>4. ASSUME NEW m \in 0..PWM_DEPTH
      PROVE  P!HighTime(m) = 5 * ((PwmPeriod * m) \div PWM_DEPTH) /\ P!HighTime(m) <= P!End
  <2> DEFINE q == (PwmPeriod * m) \div PWM_DEPTH
  <2>1. q \in 0..PwmPeriod
    BY <1>1, Share
  <2>2. P!HighTime(m) = P!Ticks(q)
    BY DEF P!HighTime
  <2> HIDE DEF q
  <2>3. P!HighTime(m) = 5 * q
    BY <1>2, <2>1, <2>2
  <2>4. QED
    BY <1>1, <1>3, <2>1, <2>3 DEF q
<1>5. P!Longest(d) = P!End
  <2>1. P!Longest(d) \in P!Times(d) /\ P!End \in P!Times(d) /\ P!End <= P!Longest(d)
        /\ P!Times(d) \subseteq 1 .. Modulus - 1
    BY TimesFacts
  <2>2. \A x \in P!Times(d) : x <= P!End
    BY <1>1, <1>3, <1>4 DEF P!Times, Duties
  <2>3. QED
    BY <1>1, <1>3, <2>1, <2>2
<1>6. QED
  BY <1>3, <1>4, <1>5
-----------------------------------------------------------------------------
\* Dht22

\* A power of two counts the sets of so many things; with one thing more there
\* are as many sets with it as without.
LEMMA PowerFacts ==
    /\ 2 ^ 0 = 1
    /\ \A n \in Nat : 2 ^ n \in Nat \ {0} /\ 2 ^ (n + 1) = 2 * 2 ^ n
<1>1. \A n \in Nat : /\ IsFiniteSet(1..n) /\ Cardinality(1..n) = n
                     /\ IsFiniteSet(SUBSET (1..n)) /\ Cardinality(SUBSET (1..n)) = 2 ^ n
                     /\ 2 ^ n \in Nat
  <2> TAKE n \in Nat
  <2>1. IsFiniteSet(1..n) /\ Cardinality(1..n) = n
    BY FS_Interval
  <2>2. IsFiniteSet(SUBSET (1..n)) /\ Cardinality(SUBSET (1..n)) = 2 ^ n
    BY <2>1, FS_SUBSET
  <2>3. Cardinality(SUBSET (1..n)) \in Nat
    BY <2>2, FS_CardinalityType
  <2>4. QED
    BY <2>1, <2>2, <2>3
<1>2. 2 ^ 0 = 1
  <2>1. SUBSET (1..0) = {{}}
    OBVIOUS
  <2>2. Cardinality({{}}) = 1
    BY FS_Singleton
  <2>3. QED
    BY <1>1, <2>1, <2>2
<1>3. ASSUME NEW n \in Nat PROVE 2 ^ (n + 1) = 2 * 2 ^ n
  <2> DEFINE S == SUBSET (1..n)
             T == {s \union {n + 1} : s \in S}
             f == [s \in S |-> s \union {n + 1}]
  <2>1. \A s \in S : n + 1 \notin s
    OBVIOUS
  <2>2. SUBSET (1..(n + 1)) = S \union T
    <3>1. ASSUME NEW u \in SUBSET (1..(n + 1)) PROVE u \in S \union T
      <4>1. CASE n + 1 \in u
        <5>1. u \ {n + 1} \in S /\ u = (u \ {n + 1}) \union {n + 1}
          BY <4>1
        <5>2. QED
          BY <5>1
      <4>2. CASE n + 1 \notin u
        BY <4>2
      <4>3. QED
        BY <4>1, <4>2
    <3>2. S \union T \subseteq SUBSET (1..(n + 1))
      <4>1. n + 1 \in 1..(n + 1) /\ 1..n \subseteq 1..(n + 1)
        OBVIOUS
      <4>2. QED
        BY <4>1, Zenon
    <3>3. QED
      BY <3>1, <3>2
  <2>3. S \cap T = {}
    BY <2>1
  <2>4. f \in Bijection(S, T)
    <3>1. f \in [S -> T] /\ \A t \in T : \E s \in S : f[s] = t
      OBVIOUS
    <3>2. \A s, t \in S : f[s] = f[t] => s = t
      BY <2>1
    <3> HIDE DEF S, T, f
    <3>3. QED
      BY <3>1, <3>2 DEF Bijection, Injection, Surjection, IsInjective
  <2>5. n + 1 \in Nat /\ IsFiniteSet(S) /\ Cardinality(S) = 2 ^ n /\ 2 ^ n \in Nat
        /\ Cardinality(SUBSET (1..(n + 1))) = 2 ^ (n + 1)
    <3>1. n + 1 \in Nat
      OBVIOUS
    <3>2. QED
      BY <1>1, <3>1, Zenon
  <2> HIDE DEF S, T, f
  <2>6. IsFiniteSet(T) /\ Cardinality(T) = Cardinality(S)
    BY <2>4, <2>5, FS_Bijection, Zenon DEF ExistsBijection
  <2>7. /\ Cardinality(S \union T) = Cardinality(S) + Cardinality(T) - Cardinality(S \cap T)
        /\ Cardinality({}) = 0
    BY <2>5, <2>6, FS_Union, FS_EmptySet, Zenon
  <2>8. Cardinality(S \union T) = Cardinality(S) + Cardinality(S) - 0
    BY <2>3, <2>6, <2>7, Zenon
  <2>9. Cardinality(S) \in Nat
    BY <2>5, Zenon
  <2>10. Cardinality(S \union T) = 2 * Cardinality(S)
    BY <2>8, <2>9
  <2>11. QED
    BY <2>2, <2>5, <2>10, Zenon
<1>4. \A n \in Nat : 2 ^ n # 0
  <2> TAKE n \in Nat
  <2>1. {} \in SUBSET (1..n)
    OBVIOUS
  <2>2. QED
    BY <1>1, <2>1, FS_EmptySet, Zenon
<1>5. QED
  BY <1>1, <1>2, <1>3, <1>4, Zenon

\* The powers of two grow.
LEMMA PowersGrow ==
    \A n \in Nat : \A k \in 0..n : 2 ^ k \in 1 .. 2 ^ n /\ (k < n => 2 ^ k < 2 ^ n)
<1> DEFINE G == {n \in Nat : \A k \in 0..n : 2 ^ k \in 1 .. 2 ^ n /\ (k < n => 2 ^ k < 2 ^ n)}
<1>1. 0 \in G
  <2>1. \A k \in 0..0 : k = 0 /\ ~(k < 0)
    OBVIOUS
  <2>2. 2 ^ 0 \in 1 .. 2 ^ 0
    <3>1. 1 \in 1..1
      OBVIOUS
    <3>2. QED
      BY <3>1, PowerFacts, Zenon
  <2>3. 0 \in Nat
    OBVIOUS
  <2>4. QED
    BY <2>1, <2>2, <2>3, Zenon
<1>2. ASSUME NEW n \in G PROVE n + 1 \in G
  <2>1. PICK p, q : p = 2 ^ n /\ q = 2 ^ (n + 1)
    OBVIOUS
  <2>2. n \in Nat /\ p \in Nat \ {0} /\ q = 2 * p
    BY <2>1, PowerFacts
  <2>3. \A k \in 0..n : 2 ^ k \in 1..p
    BY <2>1
  <2>4. \A k \in 0..n : 2 ^ k \in 1..q /\ 2 ^ k < q
    BY <2>2, <2>3
  <2>5. ASSUME NEW k \in 0..(n + 1)
        PROVE  2 ^ k \in 1..q /\ (k < n + 1 => 2 ^ k < q)
    <3>1. CASE k \in 0..n
      BY <2>4, <3>1
    <3>2. CASE k = n + 1
      <4>1. 2 ^ k = q
        BY <2>1, <3>2
      <4>2. q \in 1..q
        BY <2>2
      <4>3. QED
        BY <3>2, <4>1, <4>2
    <3>3. QED
      BY <2>2, <3>1, <3>2
  <2>6. QED
    BY <2>1, <2>2, <2>5
<1>3. \A n \in Nat : n \in G
  <2>1. G \in SUBSET Nat
    OBVIOUS
  <2> HIDE DEF G
  <2>2. QED
    BY <1>1, <1>2, <2>1, Upward, Zenon
<1>4. QED
  BY <1>3, Zenon

\* The powers of two up to a byte.
LEMMA PowersFit ==
    /\ H!Byte \in Nat \ {0}
    /\ \A k \in 0 .. Width - 1 : 2 ^ k \in 1 .. H!Byte - 1
<1>1. Width \in Nat \ {0}
  BY DhtAssumption
<1>2. 2 ^ Width \in Nat \ {0}
  BY <1>1, PowerFacts
<1>3. PICK b : b = 2 ^ Width
  OBVIOUS
<1>4. \A k \in 0 .. Width - 1 : 2 ^ k \in 1..b /\ 2 ^ k < b
  <2> TAKE k \in 0 .. Width - 1
  <2>1. k \in 0..Width /\ k < Width
    BY <1>1
  <2>2. QED
    BY <1>1, <1>3, <2>1, PowersGrow, Zenon
<1>5. \A k \in 0 .. Width - 1 : 2 ^ k \in 1 .. b - 1
  BY <1>2, <1>3, <1>4
<1>6. QED
  BY <1>2, <1>3, <1>5, Zenon DEF H!Byte

\* The first n bits of a byte, as a number.
Upper(byte, n) == byte \div 2 ^ (Width - n)

\* All bits make the byte, and none make nothing; a bit more is what reading one
\* adds.
LEMMA UpperFacts ==
    ASSUME NEW x \in 0 .. H!Byte - 1
    PROVE  /\ Upper(x, 0) = 0 /\ Upper(x, Width) = x
           /\ \A n \in 0 .. Width - 1 :
                 /\ Upper(x, n) \in Nat /\ H!Bit(x, n + 1) \in 0..1
                 /\ Upper(x, n + 1) = 2 * Upper(x, n) + H!Bit(x, n + 1)
<1>1. Upper(x, 0) = 0
  <2>1. PICK b \in Nat : b = H!Byte /\ b > 0
    BY PowersFit
  <2>2. x \div b = 0
    BY <2>1
  <2>3. Width - 0 = Width
    BY DhtAssumption
  <2>4. QED
    BY <2>1, <2>2, <2>3, Zenon DEF Upper, H!Byte
<1>2. Upper(x, Width) = x
  <2>1. Width - Width = 0 /\ 2 ^ 0 = 1
    BY DhtAssumption, PowerFacts
  <2>2. x \div 1 = x
    BY PowersFit
  <2>3. QED
    BY <2>1, <2>2, Zenon DEF Upper
<1>3. ASSUME NEW n \in 0 .. Width - 1
      PROVE  /\ Upper(x, n) \in Nat /\ H!Bit(x, n + 1) \in 0..1
             /\ Upper(x, n + 1) = 2 * Upper(x, n) + H!Bit(x, n + 1)
  <2>1. Width - (n + 1) \in Nat /\ Width - n = (Width - (n + 1)) + 1
    BY DhtAssumption
  <2>2. PICK p \in Nat \ {0} : p = 2 ^ (Width - (n + 1)) /\ 2 * p = 2 ^ (Width - n)
    BY <2>1, PowerFacts, Zenon
  <2>3. PICK q \in Nat : q = x \div p /\ q * p <= x /\ x < q * p + p
    BY PowersFit, SMTT(30)
  <2>4. PICK h \in Nat, r \in 0..1 : q = 2 * h + r
    <3>1. q = 2 * (q \div 2) + (q % 2) /\ q \div 2 \in Nat /\ q % 2 \in 0..1
      OBVIOUS
    <3>2. QED
      BY <3>1
  <2>5. x \in Nat /\ h * (2 * p) <= x /\ x < h * (2 * p) + 2 * p
    BY <2>4, <2>3, PowersFit
  <2>6. x \div (2 * p) = h
    BY <2>5, SMTT(30)
  <2>7. q % 2 = r
    BY <2>4
  <2>8. Upper(x, n) = h
    BY <2>2, <2>6, Zenon DEF Upper
  <2>9. Upper(x, n + 1) = q
    BY <2>2, <2>3, Zenon DEF Upper
  <2>10. H!Bit(x, n + 1) = r
    BY <2>2, <2>3, <2>7, Zenon DEF H!Bit
  <2>11. QED
    BY <2>4, <2>8, <2>9, <2>10
<1>4. QED
  BY <1>1, <1>2, <1>3
-----------------------------------------------------------------------------
\* Two numbers of which one has a bit that the other does not have.
OneBit(x, y, n) == \E k \in 0 .. n - 1 : x = y + 2 ^ k \/ y = x + 2 ^ k

DhtBytes == 0 .. H!Byte - 1

DhtTyped ==
    /\ dhtPc \in {"idle", "start", "bits", "check"}
    /\ sent \in Seq(DhtBytes) /\ Len(sent) = 5
    /\ data \in Seq(DhtBytes) /\ Len(data) \in 0..5
    /\ inbits \in 0 .. Width - 1 /\ inbyte \in 0 .. 2 ^ inbits - 1
    /\ Len(data) = 5 => inbits = 0
    /\ misread \in 0..1
    /\ locked \in BOOLEAN /\ checked \in BOOLEAN
    /\ reading \in [success : BOOLEAN, temperature : Int, humidity : Int]

\* The bytes so far are those that were sent, and so are the bits of the one
\* that is being read; but for the bit that was misread.
SentSoFar ==
    /\ misread = 0 => /\ \A b \in 1 .. Len(data) : data[b] = sent[b]
                      /\ Len(data) < 5 => inbyte = Upper(sent[Len(data) + 1], inbits)
    /\ misread = 1 =>
          \/ /\ \A b \in 1 .. Len(data) : data[b] = sent[b]
             /\ Len(data) < 5 /\ OneBit(inbyte, Upper(sent[Len(data) + 1], inbits), inbits)
          \/ /\ \E e \in 1 .. Len(data) :
                   /\ OneBit(data[e], sent[e], Width)
                   /\ \A b \in 1 .. Len(data) \ {e} : data[b] = sent[b]
             /\ Len(data) < 5 => inbyte = Upper(sent[Len(data) + 1], inbits)

DhtInv ==
    /\ DhtTyped
    /\ sent[5] = H!Checksum(sent)
    /\ dhtPc \in {"start", "bits", "check"} => SentSoFar /\ ~checked
    /\ dhtPc = "start" => data = <<>> /\ misread = 0
    /\ dhtPc = "check" => Len(data) = 5 /\ ~locked
    /\ H!ReadingRight /\ H!LockedMeansFailed

LEMMA SentFacts ==
    ASSUME NEW s \in {H!WithSum(m) : m \in Measured}
    PROVE  s \in Seq(DhtBytes) /\ Len(s) = 5 /\ s[5] = H!Checksum(s)
<1>1. PICK m \in Measured : s = Append(m, H!Checksum(m))
  BY DEF H!WithSum
<1>2. m \in Seq(DhtBytes) /\ Len(m) = 4
  BY DhtAssumption DEF DhtBytes, H!Byte
<1>4. H!Checksum(m) \in DhtBytes
  <2>1. m[1] \in Nat /\ m[2] \in Nat /\ m[3] \in Nat /\ m[4] \in Nat
    <3>1. \A k \in 1 .. Len(m) : m[k] \in DhtBytes
      BY <1>2, ElementOfSeq
    <3>2. DhtBytes \subseteq Nat
      BY PowersFit DEF DhtBytes
    <3>3. 1 \in 1..4 /\ 2 \in 1..4 /\ 3 \in 1..4 /\ 4 \in 1..4
      OBVIOUS
    <3>4. QED
      BY <1>2, <3>1, <3>2, <3>3, Zenon
  <2>2. PICK n \in Nat : n = m[1] + m[2] + m[3] + m[4]
    BY <2>1
  <2>3. \A b \in Nat \ {0} : n % b \in 0 .. b - 1
    OBVIOUS
  <2>4. QED
    BY <2>2, <2>3, PowersFit DEF H!Checksum, DhtBytes
<1>5. PICK v \in DhtBytes : v = H!Checksum(m)
  BY <1>4
<1>6. /\ s \in Seq(DhtBytes) /\ Len(s) = 5 /\ s[5] = v
      /\ s[1] = m[1] /\ s[2] = m[2] /\ s[3] = m[3] /\ s[4] = m[4]
  <2>0. s = Append(m, v) /\ m \in Seq(DhtBytes) /\ v \in DhtBytes
    BY <1>1, <1>2, <1>5, Zenon
  <2>1. /\ s \in Seq(DhtBytes) /\ Len(s) = Len(m) + 1 /\ s[Len(m) + 1] = v
        /\ \A k \in 1 .. Len(m) : s[k] = m[k]
    BY <2>0, AppendProperties
  <2>2. 1 \in 1..4 /\ 2 \in 1..4 /\ 3 \in 1..4 /\ 4 \in 1..4 /\ 4 + 1 = 5
    OBVIOUS
  <2>3. QED
    BY <1>2, <2>1, <2>2, Zenon
<1>7. H!Checksum(s) = H!Checksum(m)
  BY <1>6, Zenon DEF H!Checksum
<1>8. QED
  BY <1>5, <1>6, <1>7, Zenon

LEMMA DhtInit == H!Init => DhtInv
<1> SUFFICES ASSUME H!Init PROVE DhtInv
  OBVIOUS
<1>1. sent \in Seq(DhtBytes) /\ Len(sent) = 5 /\ sent[5] = H!Checksum(sent)
  BY SentFacts DEF H!Init
<1>2. DhtTyped
  <2>1. inbits \in 0 .. Width - 1
    BY DhtAssumption DEF H!Init
  <2>2. inbyte \in 0 .. 2 ^ inbits - 1
    <3>1. 0 \in 0 .. 1 - 1
      OBVIOUS
    <3>2. QED
      BY <3>1, PowerFacts, Zenon DEF H!Init
  <2>3. reading \in [success : BOOLEAN, temperature : Int, humidity : Int]
    BY DEF H!Init
  <2>4. data \in Seq(DhtBytes) /\ Len(data) \in 0..5 /\ (Len(data) = 5 => inbits = 0)
    BY DEF H!Init
  <2>5. misread \in 0..1
    BY DEF H!Init
  <2>6. dhtPc = "idle" /\ locked = FALSE /\ checked = FALSE
    BY DEF H!Init
  <2>7. QED
    BY <1>1, <2>1, <2>2, <2>3, <2>4, <2>5, <2>6, Zenon DEF DhtTyped
<1>3. H!ReadingRight /\ H!LockedMeansFailed
  BY DEF H!Init, H!ReadingRight, H!LockedMeansFailed
<1>4. QED
  BY <1>1, <1>2, <1>3 DEF H!Init, DhtInv

\* What another bit does to two numbers of which one has a bit more.
LEMMA OneBitMore ==
    ASSUME NEW x \in Nat, NEW y \in Nat, NEW n \in Nat, NEW b \in 0..1
    PROVE  /\ OneBit(x, y, n) => OneBit(2 * x + b, 2 * y + b, n + 1)
           /\ x = y => OneBit(2 * x + (1 - b), 2 * y + b, n + 1)
<1>1. ASSUME OneBit(x, y, n) PROVE OneBit(2 * x + b, 2 * y + b, n + 1)
  <2>1. PICK k \in 0 .. n - 1 : x = y + 2 ^ k \/ y = x + 2 ^ k
    BY <1>1 DEF OneBit
  <2>2. PICK p \in Nat : p = 2 ^ k /\ 2 ^ (k + 1) = 2 * p
    BY <2>1, PowerFacts
  <2>3. 2 * x + b = (2 * y + b) + 2 * p \/ 2 * y + b = (2 * x + b) + 2 * p
    BY <2>1, <2>2
  <2>4. k + 1 \in 0 .. (n + 1) - 1
    BY <2>1
  <2>5. QED
    BY <2>2, <2>3, <2>4, Zenon DEF OneBit
<1>2. ASSUME x = y PROVE OneBit(2 * x + (1 - b), 2 * y + b, n + 1)
  <2>1. 2 * x + (1 - b) = (2 * y + b) + 1 \/ 2 * y + b = (2 * x + (1 - b)) + 1
    BY <1>2
  <2>2. 0 \in 0 .. (n + 1) - 1 /\ 2 ^ 0 = 1
    BY PowerFacts
  <2>3. QED
    BY <2>1, <2>2, Zenon DEF OneBit
<1>3. QED
  BY <1>1, <1>2

\* A bit more or less changes a byte to another.
LEMMA OneBitChanges ==
    ASSUME NEW x \in Nat, NEW y \in Nat, OneBit(x, y, Width), NEW a \in Nat
    PROVE  x # y /\ (a + x) % H!Byte # (a + y) % H!Byte
<1>1. PICK k \in 0 .. Width - 1 : x = y + 2 ^ k \/ y = x + 2 ^ k
  BY DEF OneBit
<1>2. PICK p \in Nat, b \in Nat : p = 2 ^ k /\ b = H!Byte /\ 0 < p /\ p < b
  BY <1>1, PowersFit
<1>3. ASSUME NEW u \in Nat PROVE (u + p) % b # u % b
  <2>1. PICK q \in Nat, r \in 0 .. b - 1 : u = q * b + r
    <3>1. u = (u \div b) * b + (u % b) /\ u \div b \in Nat /\ u % b \in 0 .. b - 1
      BY <1>2, SMTT(30)
    <3>2. QED
      BY <3>1
  <2>2. \A q2 \in Nat, r2 \in 0 .. b - 1 : (q2 * b + r2) % b = r2
    BY <1>2, SMTT(30)
  <2>3. u % b = r
    BY <2>1, <2>2
  <2>4. CASE r + p < b
    <3>1. u + p = q * b + (r + p) /\ r + p \in 0 .. b - 1
      BY <1>2, <2>1, <2>4
    <3>2. (u + p) % b = r + p
      BY <2>2, <3>1
    <3>3. QED
      BY <1>2, <2>3, <3>2
  <2>5. CASE r + p >= b
    <3>1. u + p = (q + 1) * b + (r + p - b) /\ r + p - b \in 0 .. b - 1 /\ q + 1 \in Nat
      BY <1>2, <2>1, <2>5
    <3>2. (u + p) % b = r + p - b
      BY <2>2, <3>1
    <3>3. QED
      BY <1>2, <2>3, <3>2
  <2>6. QED
    BY <1>2, <2>1, <2>4, <2>5
<1>4. x = y + p \/ y = x + p
  BY <1>1, <1>2
<1>5. (a + x) % b # (a + y) % b
  <2>1. CASE x = y + p
    <3>1. a + y \in Nat /\ a + x = (a + y) + p
      BY <2>1
    <3>2. QED
      BY <1>3, <3>1
  <2>2. CASE y = x + p
    <3>1. a + x \in Nat /\ a + y = (a + x) + p
      BY <2>2
    <3>2. QED
      BY <1>3, <3>1
  <2>3. QED
    BY <1>4, <2>1, <2>2
<1>6. x # y
  BY <1>2, <1>4
<1>7. QED
  BY <1>2, <1>5, <1>6

\* The bytes so far but for one bit of one of them.
AllAsSent == \A b \in 1 .. Len(data) : data[b] = sent[b]
OneDiffers ==
    \E e \in 1 .. Len(data) :
        /\ OneBit(data[e], sent[e], Width)
        /\ \A b \in 1 .. Len(data) \ {e} : data[b] = sent[b]

\* What a bit makes of the byte that is being read.
LEMMA BitRead ==
    ASSUME DhtInv, dhtPc = "bits", Len(data) < 5, NEW wrong \in 0..1, wrong + misread <= 1,
           NEW x, x = sent[Len(data) + 1], NEW value,
           value = 2 * inbyte + IF wrong = 1 THEN 1 - H!Bit(x, inbits + 1) ELSE H!Bit(x, inbits + 1)
    PROVE  /\ x \in DhtBytes
           /\ value \in 0 .. 2 ^ (inbits + 1) - 1
           /\ wrong + misread = 0 => AllAsSent /\ value = Upper(x, inbits + 1)
           /\ wrong + misread = 1 =>
                 \/ AllAsSent /\ OneBit(value, Upper(x, inbits + 1), inbits + 1)
                 \/ OneDiffers /\ value = Upper(x, inbits + 1)
<1>1. /\ sent \in Seq(DhtBytes) /\ Len(sent) = 5 /\ Len(data) \in 0..5
      /\ inbits \in 0 .. Width - 1 /\ inbyte \in 0 .. 2 ^ inbits - 1 /\ misread \in 0..1
  BY Zenon DEF DhtInv, DhtTyped
<1>2. x \in DhtBytes
  <2>1. Len(data) + 1 \in 1 .. Len(sent)
    BY <1>1
  <2>2. QED
    BY <1>1, <2>1, ElementOfSeq, Zenon
<1>3. PICK u, b, n : u = Upper(x, inbits) /\ b = H!Bit(x, inbits + 1) /\ n = inbits
  OBVIOUS
<1>4. u \in Nat /\ b \in 0..1 /\ n \in Nat /\ Upper(x, inbits + 1) = 2 * u + b
  <2>1. n \in Nat
    BY <1>1, <1>3, DhtAssumption
  <2>2. QED
    BY <1>1, <1>2, <1>3, <2>1, UpperFacts, Zenon DEF DhtBytes
<1>5. PICK p \in Nat : p = 2 ^ n /\ 2 ^ (n + 1) = 2 * p
  BY <1>4, PowerFacts, Zenon
<1>6. inbyte \in 0 .. p - 1
  BY <1>1, <1>3, <1>5, Zenon
<1>7. value = 2 * inbyte + (IF wrong = 1 THEN 1 - b ELSE b)
  BY <1>3, Zenon
<1>8. value \in 0 .. 2 * p - 1
  BY <1>4, <1>6, <1>7
<1>9. /\ misread = 0 => AllAsSent /\ inbyte = u
      /\ misread = 1 => (AllAsSent /\ OneBit(inbyte, u, n)) \/ (OneDiffers /\ inbyte = u)
  BY <1>3, Zenon DEF DhtInv, SentSoFar, AllAsSent, OneDiffers
<1>10. inbyte \in Nat
  BY <1>6
<1>11. CASE wrong = 0
  <2>1. value = 2 * inbyte + b /\ wrong + misread = misread
    BY <1>1, <1>7, <1>11
  <2>2. OneBit(inbyte, u, n) => OneBit(value, 2 * u + b, n + 1)
    BY <1>4, <1>10, <2>1, OneBitMore, Zenon
  <2>3. inbyte = u => value = 2 * u + b
    BY <2>1, Zenon
  <2>4. QED
    BY <1>2, <1>3, <1>4, <1>5, <1>8, <1>9, <2>1, <2>2, <2>3, Zenon
<1>12. CASE wrong = 1
  <2>1. value = 2 * inbyte + (1 - b) /\ misread = 0 /\ wrong + misread = 1 /\ 1 # 0
    BY <1>1, <1>7, <1>12
  <2>2. inbyte = u
    BY <1>9, <2>1, Zenon
  <2>3. OneBit(value, 2 * u + b, n + 1)
    BY <1>4, <1>10, <2>1, <2>2, OneBitMore, Zenon
  <2>4. QED
    BY <1>2, <1>3, <1>4, <1>5, <1>8, <1>9, <2>1, <2>3, Zenon
<1>13. QED
  BY <1>11, <1>12

LEMMA ReadBitInv == ASSUME DhtInv, H!ReadBit PROVE DhtInv'
<1> USE DEF AllAsSent, OneDiffers
<1>1. /\ sent \in Seq(DhtBytes) /\ Len(sent) = 5 /\ sent[5] = H!Checksum(sent)
      /\ data \in Seq(DhtBytes) /\ Len(data) \in 0..5
      /\ inbits \in 0 .. Width - 1 /\ misread \in 0..1
  BY Zenon DEF DhtInv, DhtTyped
<1>2. dhtPc = "bits" /\ Len(data) < 5 /\ dhtPc' = dhtPc /\ sent' = sent
      /\ reading' = reading /\ locked' = locked /\ checked' = checked
  BY Zenon DEF H!ReadBit
<1>3. PICK x : x = sent[Len(data) + 1]
  OBVIOUS
<1>4. PICK wrong, value :
         /\ wrong \in 0..1
         /\ value = 2 * inbyte + IF wrong = 1 THEN 1 - H!Bit(x, inbits + 1) ELSE H!Bit(x, inbits + 1)
         /\ wrong + misread <= 1 /\ misread' = misread + wrong
         /\ IF inbits + 1 = Width
            THEN data' = Append(data, value) /\ inbyte' = 0 /\ inbits' = 0
            ELSE inbyte' = value /\ inbits' = inbits + 1 /\ data' = data
  BY <1>3, Zenon DEF H!ReadBit
<1>5. /\ x \in DhtBytes
      /\ value \in 0 .. 2 ^ (inbits + 1) - 1
      /\ wrong + misread = 0 => AllAsSent /\ value = Upper(x, inbits + 1)
      /\ wrong + misread = 1 =>
            \/ AllAsSent /\ OneBit(value, Upper(x, inbits + 1), inbits + 1)
            \/ OneDiffers /\ value = Upper(x, inbits + 1)
  BY <1>2, <1>3, <1>4, BitRead
<1>6. misread' \in 0..1 /\ misread' = wrong + misread
  BY <1>1, <1>4
<1>7. /\ misread' = 0 => AllAsSent /\ value = Upper(x, inbits + 1)
      /\ misread' = 1 =>
            \/ AllAsSent /\ OneBit(value, Upper(x, inbits + 1), inbits + 1)
            \/ OneDiffers /\ value = Upper(x, inbits + 1)
  BY <1>5, <1>6, Zenon
<1>8. locked' \in BOOLEAN /\ checked' \in BOOLEAN /\ ~checked'
      /\ reading' \in [success : BOOLEAN, temperature : Int, humidity : Int]
  BY <1>2, Zenon DEF DhtInv, DhtTyped
<1>9. H!ReadingRight' /\ H!LockedMeansFailed'
  BY <1>2 DEF H!ReadingRight, H!LockedMeansFailed
<1>10. CASE inbits + 1 # Width
  <2>1. data' = data /\ inbyte' = value /\ inbits' = inbits + 1
    BY <1>4, <1>10
  <2>2. inbits' \in 0 .. Width - 1 /\ Len(data) # 5
    <3>1. \A n \in 0 .. Width - 1 : n + 1 # Width => n + 1 \in 0 .. Width - 1
      BY DhtAssumption
    <3>2. \A n \in 0..5 : n < 5 => n # 5
      OBVIOUS
    <3>3. QED
      BY <1>1, <1>2, <1>10, <2>1, <3>1, <3>2, Zenon
  <2>3. DhtTyped'
    BY <1>1, <1>2, <1>5, <1>6, <1>8, <2>1, <2>2, Zenon DEF DhtTyped
  <2>4. SentSoFar'
    BY <1>2, <1>3, <1>7, <2>1, Zenon DEF SentSoFar
  <2>5. QED
    BY <1>1, <1>2, <1>8, <1>9, <2>3, <2>4 DEF DhtInv
<1>11. CASE inbits + 1 = Width
  <2>1. data' = Append(data, value) /\ inbyte' = 0 /\ inbits' = 0
    BY <1>4, <1>11
  <2>2. value \in DhtBytes /\ Upper(x, inbits + 1) = x
    BY <1>5, <1>11, UpperFacts, Zenon DEF DhtBytes, H!Byte
  <2>3. /\ data' \in Seq(DhtBytes) /\ Len(data') = Len(data) + 1 /\ data'[Len(data) + 1] = value
        /\ \A b \in 1 .. Len(data) : data'[b] = data[b]
    BY <1>1, <2>1, <2>2, AppendProperties
  <2>4. /\ Len(data') \in 1..5
        /\ \A b \in 1 .. Len(data') : b \in 1 .. Len(data) \/ b = Len(data) + 1
        /\ \A b \in 1 .. Len(data) : b \in 1 .. Len(data') /\ b # Len(data) + 1
        /\ Len(data) + 1 \in 1 .. Len(data')
    BY <1>1, <1>2, <2>3
  <2>5. DhtTyped'
    <3>1. inbyte' \in 0 .. 2 ^ inbits' - 1 /\ inbits' \in 0 .. Width - 1
      <4>1. 0 \in 0 .. 1 - 1 /\ 0 \in 0 .. Width - 1
        BY DhtAssumption
      <4>2. QED
        BY <2>1, <4>1, PowerFacts, Zenon
    <3>2. Len(data') \in 0..5
      BY <2>4
    <3>3. QED
      BY <1>1, <1>2, <1>6, <1>8, <2>1, <2>3, <3>1, <3>2, Zenon DEF DhtTyped
  <2>6. Len(data') < 5 => inbyte' = Upper(sent'[Len(data') + 1], inbits')
    <3>1. SUFFICES ASSUME Len(data') < 5 PROVE Upper(sent[Len(data') + 1], 0) = 0
      BY <1>2, <2>1, Zenon
    <3>2. Len(data') + 1 \in 1 .. Len(sent)
      BY <1>1, <2>4, <3>1
    <3>3. sent[Len(data') + 1] \in DhtBytes
      BY <1>1, <3>2, ElementOfSeq, Zenon
    <3>4. QED
      BY <3>3, UpperFacts, Zenon DEF DhtBytes
  <2>7. AllAsSent /\ value = x => AllAsSent'
    BY <1>2, <1>3, <2>3, <2>4, Zenon
  <2>8. AllAsSent /\ OneBit(value, x, Width) => OneDiffers'
    <3>1. ASSUME AllAsSent, OneBit(value, x, Width)
          PROVE  /\ OneBit(data'[Len(data) + 1], sent'[Len(data) + 1], Width)
                 /\ \A b \in 1 .. Len(data') \ {Len(data) + 1} : data'[b] = sent'[b]
      BY <1>2, <1>3, <2>3, <2>4, <3>1, Zenon
    <3>2. QED
      BY <2>4, <3>1, Zenon
  <2>9. OneDiffers /\ value = x => OneDiffers'
    <3>1. SUFFICES ASSUME OneDiffers, value = x PROVE OneDiffers'
      OBVIOUS
    <3>2. PICK e \in 1 .. Len(data) : /\ OneBit(data[e], sent[e], Width)
                                      /\ \A b \in 1 .. Len(data) \ {e} : data[b] = sent[b]
      BY <3>1, Zenon
    <3>3. e \in 1 .. Len(data') /\ OneBit(data'[e], sent'[e], Width)
      BY <1>2, <2>3, <2>4, <3>2, Zenon
    <3>4. ASSUME NEW b \in 1 .. Len(data') \ {e} PROVE data'[b] = sent'[b]
      BY <1>2, <1>3, <2>3, <2>4, <3>1, <3>2, <3>4, Zenon
    <3>5. QED
      BY <3>3, <3>4, Zenon
  <2>10. SentSoFar'
    BY <1>7, <1>11, <2>2, <2>7, <2>8, <2>9, <2>6, Zenon DEF SentSoFar
  <2>11. QED
    BY <1>1, <1>2, <1>8, <1>9, <2>5, <2>10 DEF DhtInv
<1>12. QED
  BY <1>10, <1>11

\* With a bit misread the sum is wrong, and without the bytes are those that
\* were sent.
LEMMA SumTells ==
    ASSUME DhtInv, dhtPc = "check"
    PROVE  /\ misread = 0 => H!scale_temperature(data) = H!scale_temperature(sent)
                             /\ H!scale_humidity(data) = H!scale_humidity(sent)
           /\ misread = 1 => ~H!Accepted(data)
           /\ H!scale_temperature(data) \in Int /\ H!scale_humidity(data) \in Int
<1>1. /\ Len(data) = 5 /\ SentSoFar /\ misread \in 0..1
      /\ sent \in Seq(DhtBytes) /\ Len(sent) = 5 /\ sent[5] = H!Checksum(sent)
      /\ data \in Seq(DhtBytes)
  BY Zenon DEF DhtInv, DhtTyped
<1>2. \A k \in 1..5 : data[k] \in DhtBytes /\ sent[k] \in DhtBytes
  BY <1>1, ElementOfSeq, Zenon
<1>3. 1 \in 1..5 /\ 2 \in 1..5 /\ 3 \in 1..5 /\ 4 \in 1..5 /\ 5 \in 1..5
  OBVIOUS
<1>4. PICK m \in Nat \ {0} : m = H!Byte
  BY PowersFit
<1>5. DhtBytes = 0 .. m - 1 /\ DhtBytes \subseteq Nat
  BY <1>4 DEF DhtBytes
<1>6. PICK d1 \in Nat, d2 \in Nat, d3 \in Nat, d4 \in Nat, d5 \in DhtBytes :
         d1 = data[1] /\ d2 = data[2] /\ d3 = data[3] /\ d4 = data[4] /\ d5 = data[5]
  BY <1>2, <1>3, <1>5, Zenon
<1>7. PICK s1 \in Nat, s2 \in Nat, s3 \in Nat, s4 \in Nat, s5 \in DhtBytes :
         s1 = sent[1] /\ s2 = sent[2] /\ s3 = sent[3] /\ s4 = sent[4] /\ s5 = sent[5]
  BY <1>2, <1>3, <1>5, Zenon
<1>8. ASSUME misread = 0
      PROVE  H!scale_temperature(data) = H!scale_temperature(sent)
             /\ H!scale_humidity(data) = H!scale_humidity(sent)
  BY <1>1, <1>8, <1>3, Zenon DEF SentSoFar, H!scale_temperature, H!scale_humidity
<1>9. ASSUME misread = 1 PROVE ~H!Accepted(data)
  <2>1. PICK e \in 1..5 : /\ OneBit(data[e], sent[e], Width)
                          /\ \A b \in 1..5 \ {e} : data[b] = sent[b]
    <3>1. ~(5 < 5)
      OBVIOUS
    <3>2. QED
      BY <1>1, <1>9, <3>1, Zenon DEF SentSoFar
  <2>2. H!Accepted(data) <=> d5 = (d1 + d2 + d3 + d4) % m
    BY <1>4, <1>6, Zenon DEF H!Accepted, H!Checksum
  <2>3. s5 = (s1 + s2 + s3 + s4) % m
    BY <1>1, <1>4, <1>7, Zenon DEF H!Checksum
  <2>4. \A x \in Nat, y \in Nat, a \in Nat :
           OneBit(x, y, Width) => x # y /\ (a + x) % m # (a + y) % m
    BY <1>4, OneBitChanges, Zenon
  <2>5. CASE e = 5
    <3>0. OneBit(d5, s5, Width) /\ d1 = s1 /\ d2 = s2 /\ d3 = s3 /\ d4 = s4
      BY <1>3, <1>6, <1>7, <2>1, <2>5
    <3>1. d5 # s5
      BY <1>5, <2>4, <3>0
    <3>2. QED
      BY <2>2, <2>3, <3>0, <3>1, Zenon
  <2>6. ASSUME NEW x \in Nat, NEW y \in Nat, NEW a \in Nat, OneBit(x, y, Width), d5 = s5,
               d1 + d2 + d3 + d4 = a + x, s1 + s2 + s3 + s4 = a + y
        PROVE  ~H!Accepted(data)
    BY <2>2, <2>3, <2>4, <2>6, Zenon
  <2>7. CASE e = 1
    <3>1. OneBit(d1, s1, Width) /\ d2 = s2 /\ d3 = s3 /\ d4 = s4 /\ d5 = s5
      BY <1>3, <1>6, <1>7, <2>1, <2>7
    <3>2. d2 + d3 + d4 \in Nat /\ d1 + d2 + d3 + d4 = (d2 + d3 + d4) + d1
          /\ s1 + s2 + s3 + s4 = (d2 + d3 + d4) + s1
      BY <3>1
    <3>3. QED
      BY <2>6, <3>1, <3>2, Zenon
  <2>8. CASE e = 2
    <3>1. OneBit(d2, s2, Width) /\ d1 = s1 /\ d3 = s3 /\ d4 = s4 /\ d5 = s5
      BY <1>3, <1>6, <1>7, <2>1, <2>8
    <3>2. d1 + d3 + d4 \in Nat /\ d1 + d2 + d3 + d4 = (d1 + d3 + d4) + d2
          /\ s1 + s2 + s3 + s4 = (d1 + d3 + d4) + s2
      BY <3>1
    <3>3. QED
      BY <2>6, <3>1, <3>2, Zenon
  <2>9. CASE e = 3
    <3>1. OneBit(d3, s3, Width) /\ d1 = s1 /\ d2 = s2 /\ d4 = s4 /\ d5 = s5
      BY <1>3, <1>6, <1>7, <2>1, <2>9
    <3>2. d1 + d2 + d4 \in Nat /\ d1 + d2 + d3 + d4 = (d1 + d2 + d4) + d3
          /\ s1 + s2 + s3 + s4 = (d1 + d2 + d4) + s3
      BY <3>1
    <3>3. QED
      BY <2>6, <3>1, <3>2, Zenon
  <2>10. CASE e = 4
    <3>1. OneBit(d4, s4, Width) /\ d1 = s1 /\ d2 = s2 /\ d3 = s3 /\ d5 = s5
      BY <1>3, <1>6, <1>7, <2>1, <2>10
    <3>2. d1 + d2 + d3 \in Nat /\ d1 + d2 + d3 + d4 = (d1 + d2 + d3) + d4
          /\ s1 + s2 + s3 + s4 = (d1 + d2 + d3) + s4
      BY <3>1
    <3>3. QED
      BY <2>6, <3>1, <3>2, Zenon
  <2>11. QED
    BY <2>5, <2>7, <2>8, <2>9, <2>10
<1>10. H!scale_temperature(data) \in Int /\ H!scale_humidity(data) \in Int
  <2>1. PICK h \in Nat \ {0} : h = m \div 2
    <3>1. 0 \in 0 .. Width - 1 /\ 2 ^ 0 = 1
      BY DhtAssumption, PowerFacts
    <3>2. 1 \in 1 .. m - 1
      BY <1>4, <3>1, PowersFit, Zenon
    <3>3. QED
      BY <3>2
  <2>2. PICK low \in Nat : low = d3 % h
    OBVIOUS
  <2>3. low * m \in Nat /\ d1 * m \in Nat
    BY SMTT(30)
  <2>4. low * m + d4 \in Int /\ -(low * m + d4) \in Int /\ d1 * m + d2 \in Int
    BY <2>3
  <2>5. H!scale_temperature(data) = IF d3 >= h THEN -(low * m + d4) ELSE low * m + d4
    BY <1>4, <1>6, <2>1, <2>2, Zenon DEF H!scale_temperature
  <2>6. H!scale_humidity(data) = d1 * m + d2
    BY <1>4, <1>6, Zenon DEF H!scale_humidity
  <2>7. QED
    BY <2>4, <2>5, <2>6, Zenon
<1>11. QED
  BY <1>1, <1>8, <1>9, <1>10

LEMMA CheckInv == ASSUME DhtInv, H!Check PROVE DhtInv'
<1>1. /\ dhtPc = "check" /\ dhtPc' = "idle" /\ checked' = TRUE
      /\ sent' = sent /\ data' = data /\ inbyte' = inbyte /\ inbits' = inbits
      /\ locked' = locked /\ misread' = misread
  BY Zenon DEF H!Check
<1>2. locked = FALSE /\ DhtTyped /\ misread \in 0..1 /\ sent[5] = H!Checksum(sent)
  BY <1>1, Zenon DEF DhtInv, DhtTyped
<1>3. PICK t \in Int, h \in Int : t = H!scale_temperature(data) /\ h = H!scale_humidity(data)
  BY <1>1, SumTells, Zenon
<1>4. reading' = IF H!Accepted(data) THEN [success |-> TRUE, temperature |-> t, humidity |-> h]
                 ELSE [reading EXCEPT !.success = FALSE]
  BY <1>3, Zenon DEF H!Check
<1>5. reading \in [success : BOOLEAN, temperature : Int, humidity : Int]
  BY <1>2, Zenon DEF DhtTyped
<1>6. reading' \in [success : BOOLEAN, temperature : Int, humidity : Int]
  BY <1>4, <1>5
<1>7. DhtTyped'
  BY <1>1, <1>2, <1>6, Zenon DEF DhtTyped
<1>8. H!ReadingRight'
  <2>1. CASE H!Accepted(data)
    <3>1. misread = 0 /\ t = H!scale_temperature(sent) /\ h = H!scale_humidity(sent)
      <4>1. misread = 0
        BY <1>1, <1>2, <2>1, SumTells
      <4>2. QED
        BY <1>1, <1>3, <4>1, SumTells, Zenon
    <3>2. reading' = [success |-> TRUE, temperature |-> t, humidity |-> h]
      BY <1>4, <2>1, Zenon
    <3>3. reading'.temperature = t /\ reading'.humidity = h
      BY <3>2
    <3>4. QED
      BY <1>1, <3>1, <3>3, Zenon DEF H!ReadingRight, H!scale_temperature, H!scale_humidity
  <2>2. CASE ~H!Accepted(data)
    BY <1>4, <1>5, <2>2, Zenon DEF H!ReadingRight
  <2>3. QED
    BY <2>1, <2>2
<1>9. H!LockedMeansFailed'
  BY <1>1, <1>2, Zenon DEF H!LockedMeansFailed
<1>10. QED
  BY <1>1, <1>2, <1>7, <1>8, <1>9, Zenon DEF DhtInv, H!Checksum

LEMMA OtherDhtInv ==
    ASSUME DhtInv, H!Poll \/ H!BadSensor \/ H!Lock \/ H!Timeout \/ H!AllBits \/ UNCHANGED H!vars
    PROVE  DhtInv'
<1>1. DhtTyped /\ sent[5] = H!Checksum(sent)
      /\ reading \in [success : BOOLEAN, temperature : Int, humidity : Int]
  BY Zenon DEF DhtInv, DhtTyped
<1>2. CASE H!Poll
  <2>1. /\ dhtPc = "idle" /\ dhtPc' = "start" /\ data' = <<>> /\ inbyte' = 0 /\ inbits' = 0
        /\ misread' = 0 /\ checked' = FALSE /\ reading' = reading /\ locked' = locked
        /\ sent' \in {H!WithSum(m) : m \in Measured}
    BY <1>2, Zenon DEF H!Poll
  <2>2. sent' \in Seq(DhtBytes) /\ Len(sent') = 5 /\ sent'[5] = H!Checksum(sent')
    BY <2>1, SentFacts, Zenon
  <2>3. inbits' \in 0 .. Width - 1 /\ inbyte' \in 0 .. 2 ^ inbits' - 1
    <3>1. 0 \in 0 .. 1 - 1 /\ 0 \in 0 .. Width - 1
      BY DhtAssumption
    <3>2. QED
      BY <2>1, <3>1, PowerFacts, Zenon
  <2>4. data' \in Seq(DhtBytes) /\ Len(data') = 0
    BY <2>1
  <2>5. 0 \in 0..5 /\ 0 # 5 /\ 0 \in 0..1 /\ 0 # 1 /\ 0 + 1 = 1 /\ 1 \in 1..5 /\ \A b \in 1..0 : FALSE
    OBVIOUS
  <2>6. DhtTyped'
    BY <1>1, <2>1, <2>2, <2>3, <2>4, <2>5, Zenon DEF DhtTyped
  <2>7. SentSoFar'
    <3>1. sent'[1] \in DhtBytes
      BY <2>2, <2>5, ElementOfSeq, Zenon
    <3>2. Upper(sent'[Len(data') + 1], inbits') = 0
      BY <2>1, <2>4, <2>5, <3>1, UpperFacts, Zenon DEF DhtBytes
    <3>3. QED
      BY <2>1, <2>4, <2>5, <3>2, Zenon DEF SentSoFar
  <2>8. H!ReadingRight' /\ H!LockedMeansFailed'
    BY <2>1 DEF H!ReadingRight, H!LockedMeansFailed
  <2>9. QED
    BY <2>1, <2>2, <2>6, <2>7, <2>8, Zenon DEF DhtInv
<1>3. CASE H!BadSensor \/ H!Timeout
  <2>1. /\ dhtPc \in {"start", "bits"} /\ dhtPc' = "idle"
        /\ reading' = [reading EXCEPT !.success = FALSE]
        /\ sent' = sent /\ data' = data /\ inbyte' = inbyte /\ inbits' = inbits
        /\ locked' = locked /\ misread' = misread /\ checked' = checked
    BY <1>3, Zenon DEF H!BadSensor, H!Timeout, H!Fail
  <2>2. /\ reading' \in [success : BOOLEAN, temperature : Int, humidity : Int]
        /\ reading'.success = FALSE
    BY <1>1, <2>1
  <2>3. ~checked
    BY <2>1 DEF DhtInv
  <2>4. DhtTyped'
    BY <1>1, <2>1, <2>2, Zenon DEF DhtTyped
  <2>5. H!ReadingRight' /\ H!LockedMeansFailed'
    BY <2>1, <2>2, <2>3 DEF H!ReadingRight, H!LockedMeansFailed
  <2>6. dhtPc' \notin {"start", "bits", "check"} /\ dhtPc' # "start" /\ dhtPc' # "check"
    BY <2>1
  <2>7. QED
    BY <1>1, <2>1, <2>4, <2>5, <2>6, Zenon DEF DhtInv, H!Checksum
<1>4. CASE H!Lock \/ H!AllBits
  <2>1. /\ dhtPc \in {"start", "bits"} /\ dhtPc' \in {"bits", "check"}
        /\ dhtPc' = "check" => Len(data) = 5 /\ locked' = FALSE
        /\ reading' = reading /\ locked' \in BOOLEAN
        /\ sent' = sent /\ data' = data /\ inbyte' = inbyte /\ inbits' = inbits
        /\ misread' = misread /\ checked' = checked
    BY <1>4 DEF H!Lock, H!AllBits, H!Unlocked
  <2>2. SentSoFar /\ ~checked
    BY <2>1 DEF DhtInv
  <2>3. SentSoFar'
    BY <2>1, <2>2, Zenon DEF SentSoFar
  <2>4. DhtTyped'
    BY <2>1, <1>1, Zenon DEF DhtTyped
  <2>5. H!ReadingRight' /\ H!LockedMeansFailed'
    BY <2>1 DEF H!ReadingRight, H!LockedMeansFailed
  <2>6. dhtPc' # "start"
    BY <2>1
  <2>7. QED
    BY <1>1, <2>1, <2>2, <2>3, <2>4, <2>5, <2>6, Zenon DEF DhtInv, H!Checksum
<1>5. CASE UNCHANGED H!vars
  <2>1. /\ dhtPc' = dhtPc /\ sent' = sent /\ data' = data /\ inbyte' = inbyte
        /\ inbits' = inbits /\ reading' = reading /\ locked' = locked
        /\ misread' = misread /\ checked' = checked
    BY <1>5, Zenon DEF H!vars
  <2>2. DhtTyped'
    BY <1>1, <2>1, Zenon DEF DhtTyped
  <2>3. SentSoFar => SentSoFar'
    BY <2>1, Zenon DEF SentSoFar
  <2>4. H!ReadingRight' /\ H!LockedMeansFailed'
    BY <2>1 DEF DhtInv, H!ReadingRight, H!LockedMeansFailed
  <2>5. QED
    BY <1>1, <2>1, <2>2, <2>3, <2>4, Zenon DEF DhtInv, H!Checksum
<1>6. QED
  BY <1>2, <1>3, <1>4, <1>5

LEMMA DhtNext == DhtInv /\ [H!Next]_(H!vars) => DhtInv'
<1> SUFFICES ASSUME DhtInv, [H!Next]_(H!vars) PROVE DhtInv'
  OBVIOUS
<1>1. \/ H!ReadBit \/ H!Check
      \/ H!Poll \/ H!BadSensor \/ H!Lock \/ H!Timeout \/ H!AllBits \/ UNCHANGED H!vars
  BY Zenon DEF H!Next
<1>2. CASE H!ReadBit
  BY <1>2, ReadBitInv, Zenon
<1>3. CASE H!Check
  BY <1>3, CheckInv, Zenon
<1>4. CASE H!Poll \/ H!BadSensor \/ H!Lock \/ H!Timeout \/ H!AllBits \/ UNCHANGED H!vars
  BY <1>4, OtherDhtInv, Zenon
<1>5. QED
  BY <1>1, <1>2, <1>3, <1>4, Zenon

\* A reading that counts is what the sensor sent for the last poll, whichever
\* bit is misread, for bytes of any width and whatever it sends; and the
\* interrupts stay locked only after a pulse that was too long.
THEOREM DhtIsRight == MCSpec => [](part = "dht22" => H!ReadingRight /\ H!LockedMeansFailed)
<1> DEFINE Inv == part = "dht22" => DhtInv
<1>1. MCInit => Inv
  BY DhtInit DEF MCInit
<1>2. Inv /\ [MCNext]_allVars => Inv'
  <2> SUFFICES ASSUME part = "dht22", DhtInv, [MCNext]_allVars PROVE DhtInv'
    BY DEF MCNext, Modulation, OneWire, Bus
  <2>1. [H!Next]_(H!vars)
    BY DEF MCNext, Modulation, OneWire, Bus, dhtVars, H!vars
  <2>2. QED
    BY <2>1, DhtNext
<1>3. Inv => (part = "dht22" => H!ReadingRight /\ H!LockedMeansFailed)
  BY DEF DhtInv
<1>4. QED
  BY <1>1, <1>2, <1>3, PTL DEF MCSpec

BusOps == [op : {"set"}, sda : 0..2, scl : 0..2] \union {B!Sample, B!Stretch}
Modes == {"idle", "address", "write", "read"}
Works == {"none", "resets", "measures", "done"}
Known == Commands \union {ResetCommand}
JobLists ==
    {<<>>, <<B!Setup>>} \union {<<c>> : c \in Commands} \union {<<B!Discard, c>> : c \in Commands}
        \union {<<B!Setup, B!Discard, c>> : c \in Commands}
Sensors ==
    [mode : Modes, clocks : 0 .. ByteBits + 1, bits : Nat, nack : 0..1, sda : 0..1, scl : 0..1,
     at : Nat \ {0}, work : Works, of : Known, reading : Seq(B!ByteValues)]

\* The first k bits of a byte, as a number.
First(byte, k) == byte \div 2 ^ (ByteBits - k)

\* The last operations of s, without the first n.
Rest(s, n) == SubSeq(s, n + 1, Len(s))

\* The variables of the master.
MasterTyped ==
    /\ lines \in [sda : 0..1, scl : 0..1]
    /\ todo \in Seq(BusOps)
    /\ heard \in B!ByteValues
    /\ busPc \in {"boot", "idle", "next", "setup", "command", "settle", "write", "address", "data", "byte"}
    /\ jobs \in JobLists
    /\ timeout \in 0 .. Tries
    /\ values \in Seq(B!ByteValues) /\ Len(values) <= B!Length
    /\ inited \in BOOLEAN
    /\ answer \in [of : Known, ok : BOOLEAN, values : Seq(B!ByteValues)]
    /\ kind \in {"holds", "refuses", "none"} /\ spoilt \in BOOLEAN
    /\ busPc \in {"address", "data", "byte"} => timeout >= 1 /\ Head(jobs) # B!Setup
    /\ busPc = "byte" => Len(values) < B!Length
    /\ busPc \in {"boot", "idle"} => jobs = <<>> /\ todo = <<>>
    /\ busPc \notin {"boot", "idle", "next"} => jobs # <<>>
    /\ busPc \in {"setup", "settle"} => Head(jobs) = B!Setup
    /\ jobs # <<>> => answer = B!NoAnswer
    /\ busPc = "boot" => answer = B!NoAnswer

\* The clocks that count for the bits.
Counted(s) == IF s.clocks <= ByteBits THEN s.clocks ELSE ByteBits

\* The bits of the sensor are those of its clocks; what it drives belongs to the clock
\* it is at.
Sensing(s) ==
    /\ s \in Sensors
    /\ s.bits < 2 ^ Counted(s)
    /\ s.mode = "idle" => s.clocks = 0 /\ s.bits = 0 /\ s.sda = 1
    /\ s.mode = "read" => s.bits = 0
    /\ s.scl = 0 => s.mode = "read" /\ s.clocks = 0 /\ s.sda = 1 /\ s.work = "measures"
    /\ s.mode \in {"address", "write"} /\ s.clocks < ByteBits => s.sda = 1
    /\ s.mode = "write" /\ s.clocks = ByteBits + 1 => s.bits \in Known
    /\ s.work \in {"measures", "done"} => s.of \in Commands
    /\ s.work = "done" => s.reading \in Readings[s.of]

\* The same, with the clock down.
SensingLow(s) ==
    /\ Sensing(s)
    /\ s.clocks <= ByteBits
    /\ s.mode = "write" /\ s.clocks = ByteBits => s.bits \in Known
    /\ s.mode = "read" /\ s.clocks = ByteBits => s.sda = 1

SensorTyped ==
    /\ Sensing(sensor)
    /\ B!Lines(lines, sensor).scl = 0 => SensingLow(sensor)
    /\ kind = "none" => sensor = B!NewSensor

\* How many clocks with SDA high bring the sensor to rest at the most.
Ones(s) == s.mode = "write" /\ s.clocks <= ByteBits /\ s.bits = 2 ^ s.clocks - 1
Needs(s) == (IF s.mode = "read" \/ Ones(s) THEN ByteBits + 1 ELSE 2 * (ByteBits + 1)) - s.clocks

High == [sda |-> 1, scl |-> 1]
Low == [sda |-> 1, scl |-> 0]

\* What follows is said of lines o, a sensor s of kind k and what was heard, h.

\* The set-up, after n operations; j of its clocks are over.
Clocked(o, s, j) ==
    /\ s.mode # "idle" => Needs(s) <= 2 * (ByteBits + 1) - j
    /\ o.scl = 1 /\ s.mode = "read" /\ s.clocks = ByteBits + 1 => s.nack = 1

SetupState(o, s, k, n) ==
    /\ n > 0 => s.scl = 1
    /\ n \in 0..1 => o = High
    /\ n \in 2..4 => o.scl = 0 /\ (n = 4 => o = Low)
    /\ \A j \in 0 .. InitClocks :
          /\ n = 4 + 2 * j => o = (IF j = 0 THEN Low ELSE High) /\ Clocked(o, s, j)
          /\ n = 5 + 2 * j /\ j < InitClocks => o = Low /\ Clocked(o, s, j)
    /\ n \in 5 + 2 * InitClocks .. 6 + 2 * InitClocks =>
          /\ o = [sda |-> 0, scl |-> 1]
          /\ k # "none" => s.mode = "address" /\ s.clocks = 0
    /\ n = 7 + 2 * InitClocks => o = High /\ s.mode = "idle"

\* A stop, after n operations.
StopState(o, s, n) ==
    /\ s.scl = 1 /\ s.sda = 1
    /\ n = 0 => o.scl = 0
    /\ n = 1 => o.scl = 0 /\ o.sda = 0
    /\ n = 2 => o.scl = 1 /\ o.sda = 0
    /\ n = 3 => o = High /\ s.mode = "idle"

\* A byte is offered, or will be.
ClockHeld(s) == s.scl = 0
Offered(s, k, v) ==
    /\ k # "none" /\ s.mode = "read" /\ s.at = v /\ s.clocks = 0
    /\ \/ ClockHeld(s) /\ v = 1
       \/ s.scl = 1 /\ s.work = "done" /\ s.sda = B!Bit(s.reading[v], 1)

\* A byte is written: the bits, and what comes of them.
Written1(s, k, mode, byte, c) ==
    k # "none" => s.mode = mode /\ s.clocks = c /\ s.bits = First(byte, c)
Acknowledging(s, k, mode, byte, clocks) ==
    /\ k # "none" /\ s.mode = mode /\ s.clocks = clocks /\ s.bits = byte /\ s.sda = 0
    /\ byte = Address + 1 /\ mode = "address" => s.work = "done" \/ k = "holds"
Refusing(s, k, mode, byte) ==
    s.mode = "idle" /\ (k = "none" \/ (k = "refuses" /\ mode = "address" /\ byte = Address + 1))
AfterAck(s, k, mode, byte) ==
    IF mode = "address" /\ byte = Address + 1 THEN Offered(s, k, 1)
    ELSE /\ k # "none" /\ s.scl = 1 /\ s.mode = "write" /\ s.clocks = 0
         /\ mode = "write" => s.of = byte

\* Of its bits, c are over: the next is not yet on the lines; it is; it was seen.
BitState(o, s, h, k, mode, byte, c, place) ==
    /\ s.scl = 1 /\ h = 0
    /\ place = 0 => (c > 0 => o.scl = 0) /\ Written1(s, k, mode, byte, c)
    /\ place = 1 => o = [sda |-> B!Bit(byte, c + 1), scl |-> 0] /\ Written1(s, k, mode, byte, c)
    /\ place = 2 => o = [sda |-> B!Bit(byte, c + 1), scl |-> 1] /\ Written1(s, k, mode, byte, c + 1)

\* After that, e operations of the acknowledgement are over.
AckedState(o, s, h, k, mode, byte, e) ==
    /\ e < 5 => s.scl = 1
    /\ e \in 0..2 => o.scl = 0 /\ (Acknowledging(s, k, mode, byte, ByteBits) \/ Refusing(s, k, mode, byte))
    /\ e = 2 => o = Low
    /\ e \in 3..4 => o = High /\ (Acknowledging(s, k, mode, byte, ByteBits + 1) \/ Refusing(s, k, mode, byte))
    /\ e < 4 => h = 0
    /\ e = 4 => (h = 0 => ~Refusing(s, k, mode, byte)) /\ (h # 0 => Refusing(s, k, mode, byte))
    /\ e = 5 => /\ o = Low
                /\ h = 0 => AfterAck(s, k, mode, byte)
                /\ h # 0 => Refusing(s, k, mode, byte)

WriteState(o, s, h, k, mode, byte, n) ==
    /\ \A c \in 0 .. ByteBits - 1, place \in 0..2 : n = 3 * c + place => BitState(o, s, h, k, mode, byte, c, place)
    /\ \A e \in 0..5 : n = 3 * ByteBits + e => AckedState(o, s, h, k, mode, byte, e)

AddressedState(o, s, h, k, byte, n) ==
    /\ n < 3 => o = High /\ s.mode = "idle" /\ h = 0
    /\ n >= 3 => WriteState(o, s, h, k, "address", byte, n - 3)

\* Byte v is read: before it, at its bits, and after.
Reads(s, k, v) == k # "none" /\ s.mode = "read" /\ s.at = v
Sends(s, h, v, c, clocks) ==
    s.scl = 1 /\ s.work = "done" /\ s.clocks = clocks /\ h = First(s.reading[v], c)
InState(o, s, h, k, v, c, place) ==
    /\ Reads(s, k, v)
    /\ place = 1 => IF c = 0 THEN o = Low /\ Offered(s, k, v) /\ h = 0
                   ELSE o = High /\ Sends(s, h, v, c, c)
    /\ place = 2 => /\ o = Low
                   /\ IF c = 0 THEN Offered(s, k, v) /\ h = 0
                      ELSE Sends(s, h, v, c, c) /\ s.sda = B!Bit(s.reading[v], c + 1)
    /\ place = 3 => /\ o = High
                   /\ \/ c = 0 /\ ClockHeld(s) /\ v = 1 /\ h = 0
                      \/ Sends(s, h, v, c, c + 1) /\ s.sda = B!Bit(s.reading[v], c + 1)
    /\ place = 4 => o = High /\ Sends(s, h, v, c, c + 1) /\ s.sda = B!Bit(s.reading[v], c + 1)

ReadState(o, s, h, k, v, n) ==
    /\ Reads(s, k, v)
    /\ n = 0 => o.scl = 0 /\ Offered(s, k, v) /\ h = 0
    /\ \A c \in 0 .. ByteBits - 1, place \in 1..4 : n = 4 * c + place => InState(o, s, h, k, v, c, place)
    /\ n = 4 * ByteBits + 1 => o = High /\ Sends(s, h, v, ByteBits, ByteBits)
    /\ n = 4 * ByteBits + 2 => o = Low /\ Sends(s, h, v, ByteBits, ByteBits)

\* The acknowledgement of byte v.
Level(v) == IF v = B!Length THEN 1 ELSE 0
AckState(o, s, k, v, n) ==
    /\ k # "none" /\ s.scl = 1 /\ s.work = "done"
    /\ n \in 0..3 => s.mode = "read" /\ s.at = v
    /\ n \in 0..2 => o.scl = 0 /\ s.clocks = ByteBits /\ s.sda = 1
    /\ n = 2 => o.sda = Level(v)
    /\ n = 3 => o = [sda |-> Level(v), scl |-> 1] /\ s.clocks = ByteBits + 1 /\ s.nack = Level(v)
    /\ n \in 4..6 =>
          /\ o.scl = 0 /\ (n > 4 => o = Low)
          /\ IF v = B!Length THEN s.mode = "idle" ELSE Offered(s, k, v + 1)

Rested == sensor.work \in {"none", "done"}
Told ==
    /\ kind # "none" => inited /\ (answer # B!NoAnswer => answer.ok)
    /\ answer.ok => /\ kind # "none" /\ sensor.work = "done" /\ sensor.of = answer.of
                    /\ Len(answer.values) = B!Length
                    /\ \A v \in 1 .. B!Length : answer.values[v] = sensor.reading[v]
Taken == sensor.work = "done" => \A v \in 1 .. Len(values) : values[v] = sensor.reading[v]

\* By what goes on.
InNext ==
    IF jobs # <<>> /\ Head(jobs) = B!Setup THEN todo = <<>> /\ lines = High
    ELSE /\ \E n \in 0..3 : todo = Rest(B!i2c_master_stop, n) /\ StopState(lines, sensor, n)
         /\ Rested /\ (jobs = <<>> => Told)
InSetup ==
    \E n \in 0 .. 7 + 2 * InitClocks : todo = Rest(B!i2c_master_gpio_init, n) /\ SetupState(lines, sensor, kind, n)
InWrite ==
    /\ \E n \in 0 .. 3 * ByteBits + 8 :
          todo = Rest(B!Addressed(Address), n) /\ AddressedState(lines, sensor, heard, kind, Address, n)
    /\ Rested
InCommand ==
    \E n \in 0 .. 3 * ByteBits + 5 :
       /\ todo = Rest(B!i2c_master_writeByte(B!Command) \o B!i2c_master_getAck, n)
       /\ WriteState(lines, sensor, heard, kind, "write", B!Command, n)
       /\ IF n < 3 * ByteBits + 5 THEN Rested
          ELSE sensor.work \in (IF B!Command = ResetCommand THEN {"resets", "none"} ELSE {"measures", "done"})
InSettle ==
    /\ \E n \in 0..3 : todo = Rest(B!i2c_master_stop, n) /\ StopState(lines, sensor, n)
    /\ sensor.work \in {"resets", "none"}
InAddress ==
    /\ \E n \in 0 .. 3 * ByteBits + 11 :
          /\ todo = Rest(B!i2c_master_stop \o B!Addressed(Address + 1), n)
          /\ n < 3 => StopState(lines, sensor, n) /\ heard = 0
          /\ n >= 3 => AddressedState(lines, sensor, heard, kind, Address + 1, n - 3)
    /\ sensor.work \in {"measures", "done"} /\ sensor.of = B!Command /\ values = <<>>
InData ==
    /\ IF values = <<>> THEN todo = <<>> /\ lines = Low /\ Offered(sensor, kind, 1)
       ELSE \E n \in 0..6 :
               /\ todo = Rest(B!i2c_master_setAck(Level(Len(values))) \o <<B!Set(1, 0)>>, n)
               /\ AckState(lines, sensor, kind, Len(values), n)
    /\ sensor.work \in {"measures", "done"} /\ sensor.of = B!Command
    /\ Taken /\ timeout > B!Length - Len(values)
InByte ==
    /\ \E n \in 0 .. 4 * ByteBits + 2 :
          todo = Rest(B!i2c_master_readByte, n) /\ ReadState(lines, sensor, heard, kind, Len(values) + 1, n)
    /\ sensor.work \in {"measures", "done"} /\ sensor.of = B!Command
    /\ Taken /\ timeout > B!Length - Len(values) - 1

Course ==
    /\ busPc = "boot" => lines = High
    /\ busPc = "idle" => StopState(lines, sensor, 3) /\ Rested /\ Told
    /\ busPc = "next" => InNext
    /\ busPc = "setup" => InSetup
    /\ busPc = "write" => InWrite
    /\ busPc = "command" => InCommand
    /\ busPc = "settle" => InSettle
    /\ busPc = "address" => InAddress
    /\ busPc = "data" => InData
    /\ busPc = "byte" => InByte
    /\ busPc \in {"command", "settle", "address", "data", "byte"} => kind # "none"
    /\ busPc \in {"setup", "write", "command"} => values = <<>>
    /\ kind # "none" /\ jobs # <<>> /\ Head(jobs) # B!Setup => inited

BusInv == MasterTyped /\ SensorTyped /\ (~spoilt => Course)
-----------------------------------------------------------------------------
\* A set of levels is an operation.
LEMMA SetIsOp ==
    /\ \A a, c \in 0..2 : B!Set(a, c) \in BusOps
    /\ B!Sample \in BusOps /\ B!Stretch \in BusOps /\ B!Kept = 2
  BY DEF BusOps, B!Set, B!Sample, B!Stretch, B!Kept

LEMMA BitIsBit == \A x \in Nat, k \in 1 .. ByteBits : B!Bit(x, k) \in 0..1
<1> SUFFICES ASSUME NEW x \in Nat, NEW k \in 1 .. ByteBits PROVE B!Bit(x, k) \in 0..1
  OBVIOUS
<1>1. PICK p \in Nat \ {0} : p = 2 ^ (ByteBits - k)
  BY BusAssumption, PowerFacts
<1>2. x \div p \in Nat
  BY SMTT(30)
<1>3. \A y \in Nat : y % 2 \in 0..1
  OBVIOUS
<1>4. QED
  BY <1>1, <1>2, <1>3, Zenon DEF B!Bit

LEMMA ShortSeqs ==
    ASSUME NEW S, NEW a \in S, NEW b \in S, NEW c \in S, NEW d \in S, NEW e \in S
    PROVE  /\ <<a>> \in Seq(S) /\ Len(<<a>>) = 1
           /\ <<a, b>> \in Seq(S) /\ Len(<<a, b>>) = 2
           /\ <<a, b, c>> \in Seq(S) /\ Len(<<a, b, c>>) = 3
           /\ <<a, b, c, d>> \in Seq(S) /\ Len(<<a, b, c, d>>) = 4
           /\ <<a, b, c, d, e>> \in Seq(S) /\ Len(<<a, b, c, d, e>>) = 5
  OBVIOUS

LEMMA StartOps ==
    /\ B!i2c_master_start \in Seq(BusOps) /\ Len(B!i2c_master_start) = 3
    /\ B!i2c_master_start[1] = B!Set(1, B!Kept) /\ B!i2c_master_start[2] = B!Set(1, 1)
    /\ B!i2c_master_start[3] = B!Set(0, 1)
  BY SetIsOp, ShortSeqs DEF B!i2c_master_start

LEMMA StopOps ==
    /\ B!i2c_master_stop \in Seq(BusOps) /\ Len(B!i2c_master_stop) = 3
    /\ B!i2c_master_stop[1] = B!Set(0, B!Kept) /\ B!i2c_master_stop[2] = B!Set(0, 1)
    /\ B!i2c_master_stop[3] = B!Set(1, 1)
  BY SetIsOp, ShortSeqs DEF B!i2c_master_stop

LEMMA GetAckOps ==
    /\ B!i2c_master_getAck \in Seq(BusOps) /\ Len(B!i2c_master_getAck) = 5
    /\ B!i2c_master_getAck[1] = B!Set(B!Kept, 0) /\ B!i2c_master_getAck[2] = B!Set(1, 0)
    /\ B!i2c_master_getAck[3] = B!Set(1, 1) /\ B!i2c_master_getAck[4] = B!Sample
    /\ B!i2c_master_getAck[5] = B!Set(1, 0)
  BY SetIsOp, ShortSeqs DEF B!i2c_master_getAck

LEMMA SetAckOps ==
    ASSUME NEW x \in 0..1
    PROVE  LET s == B!i2c_master_setAck(x) \o <<B!Set(1, 0)>> IN
           /\ s \in Seq(BusOps) /\ Len(s) = 6
           /\ s[1] = B!Set(B!Kept, 0) /\ s[2] = B!Set(x, 0) /\ s[3] = B!Set(x, 1) /\ s[4] = B!Set(x, 0)
           /\ s[5] = B!Set(1, 0) /\ s[6] = B!Set(1, 0)
<1>1. B!i2c_master_setAck(x) = <<B!Set(2, 0), B!Set(x, 0), B!Set(x, 1), B!Set(x, 0), B!Set(1, 0)>>
  BY SetIsOp DEF B!i2c_master_setAck
<1>2. /\ B!i2c_master_setAck(x) \in Seq(BusOps) /\ Len(B!i2c_master_setAck(x)) = 5
      /\ <<B!Set(1, 0)>> \in Seq(BusOps) /\ Len(<<B!Set(1, 0)>>) = 1
  BY <1>1, SetIsOp, ShortSeqs
<1>3. QED
  BY <1>1, <1>2, ConcatProperties, SetIsOp

LEMMA WriteOps ==
    ASSUME NEW x \in Nat
    PROVE  LET s == B!i2c_master_writeByte(x) IN
           /\ s \in Seq(BusOps) /\ Len(s) = 3 * ByteBits
           /\ \A c \in 0 .. ByteBits - 1 :
                 /\ s[3 * c + 1] = B!Set(B!Bit(x, c + 1), 0)
                 /\ s[3 * c + 2] = B!Set(B!Bit(x, c + 1), 1)
                 /\ s[3 * c + 3] = B!Set(B!Bit(x, c + 1), 0)
<1> DEFINE s == B!i2c_master_writeByte(x)
<1>1. ASSUME NEW k \in 1 .. 3 * ByteBits PROVE s[k] \in BusOps
  <2>1. s[k] = B!Set(B!Bit(x, (k + 2) \div 3), IF k % 3 = 2 THEN 1 ELSE 0)
    BY DEF B!i2c_master_writeByte
  <2>2. (k + 2) \div 3 \in 1 .. ByteBits
    BY BusAssumption
  <2>3. B!Bit(x, (k + 2) \div 3) \in 0..1
    BY <2>2, BitIsBit
  <2>4. \A b \in 0..1 : b \in 0..2
    OBVIOUS
  <2>5. 0 \in 0..2 /\ 1 \in 0..2
    OBVIOUS
  <2>6. QED
    BY <2>1, <2>3, <2>4, <2>5, SetIsOp, Zenon
<1>2. 3 * ByteBits \in Nat /\ s = [k \in 1 .. 3 * ByteBits |-> s[k]]
  BY BusAssumption DEF B!i2c_master_writeByte
<1>3. s \in [1 .. 3 * ByteBits -> BusOps]
  BY <1>1, <1>2
<1>4. s \in Seq(BusOps) /\ Len(s) = 3 * ByteBits
  BY <1>2, <1>3
<1>5. ASSUME NEW c \in 0 .. ByteBits - 1
      PROVE  /\ s[3 * c + 1] = B!Set(B!Bit(x, c + 1), 0)
             /\ s[3 * c + 2] = B!Set(B!Bit(x, c + 1), 1)
             /\ s[3 * c + 3] = B!Set(B!Bit(x, c + 1), 0)
  <2>1. /\ 3 * c + 1 \in 1 .. 3 * ByteBits /\ (3 * c + 1) % 3 = 1 /\ ((3 * c + 1) + 2) \div 3 = c + 1
        /\ 3 * c + 2 \in 1 .. 3 * ByteBits /\ (3 * c + 2) % 3 = 2 /\ ((3 * c + 2) + 2) \div 3 = c + 1
        /\ 3 * c + 3 \in 1 .. 3 * ByteBits /\ (3 * c + 3) % 3 = 0 /\ ((3 * c + 3) + 2) \div 3 = c + 1
    BY BusAssumption
  <2>2. QED
    BY <2>1 DEF B!i2c_master_writeByte
<1>6. QED
  BY <1>4, <1>5

\* Some operations, so many times.
Twofold(s, n, a, b) ==
    /\ s \in Seq(BusOps) /\ Len(s) = 2 * n
    /\ \A c \in 0 .. n - 1 : s[2 * c + 1] = a /\ s[2 * c + 2] = b
Fourfold(s, n, a, b, c, d) ==
    /\ s \in Seq(BusOps) /\ Len(s) = 4 * n
    /\ \A k \in 0 .. n - 1 : s[4 * k + 1] = a /\ s[4 * k + 2] = b /\ s[4 * k + 3] = c /\ s[4 * k + 4] = d

LEMMA TimesOps ==
    ASSUME NEW n \in Nat, NEW a \in BusOps, NEW b \in BusOps
    PROVE  Twofold(B!Times(n, <<a, b>>), n, a, b)
<1> DEFINE s == B!Times(n, <<a, b>>)
<1>1. s = [k \in 1 .. 2 * n |-> <<a, b>>[((k - 1) % 2) + 1]]
  BY DEF B!Times
<1>2. \A k \in 1 .. 2 * n : s[k] = IF k % 2 = 1 THEN a ELSE b
  BY <1>1, SMTT(30)
<1>3. 2 * n \in Nat /\ \A c \in 0 .. n - 1 :
          /\ 2 * c + 1 \in 1 .. 2 * n /\ (2 * c + 1) % 2 = 1
          /\ 2 * c + 2 \in 1 .. 2 * n /\ (2 * c + 2) % 2 = 0
  OBVIOUS
<1>4. s \in [1 .. 2 * n -> BusOps]
  BY <1>1, <1>2
<1> HIDE DEF s
<1>5. s \in Seq(BusOps) /\ Len(s) = 2 * n
  BY <1>1, <1>3, <1>4
<1>6. QED
  BY <1>2, <1>3, <1>5, SMTT(30) DEF s, Twofold

LEMMA FourTimesOps ==
    ASSUME NEW n \in Nat, NEW a \in BusOps, NEW b \in BusOps, NEW c \in BusOps, NEW d \in BusOps
    PROVE  Fourfold(B!Times(n, <<a, b, c, d>>), n, a, b, c, d)
<1> DEFINE s == B!Times(n, <<a, b, c, d>>)
<1>1. s = [k \in 1 .. 4 * n |-> <<a, b, c, d>>[((k - 1) % 4) + 1]]
  BY DEF B!Times
<1>2. \A k \in 1 .. 4 * n : s[k] \in BusOps
  BY <1>1
<1>3. 4 * n \in Nat /\ \A k \in 0 .. n - 1 :
          /\ 4 * k + 1 \in 1 .. 4 * n /\ (((4 * k + 1) - 1) % 4) + 1 = 1
          /\ 4 * k + 2 \in 1 .. 4 * n /\ (((4 * k + 2) - 1) % 4) + 1 = 2
          /\ 4 * k + 3 \in 1 .. 4 * n /\ (((4 * k + 3) - 1) % 4) + 1 = 3
          /\ 4 * k + 4 \in 1 .. 4 * n /\ (((4 * k + 4) - 1) % 4) + 1 = 4
  OBVIOUS
<1>4. s \in [1 .. 4 * n -> BusOps]
  BY <1>1, <1>2
<1> HIDE DEF s
<1>5. s \in Seq(BusOps) /\ Len(s) = 4 * n
  BY <1>1, <1>3, <1>4
<1>6. \A k \in 0 .. n - 1 :
          s[4 * k + 1] = a /\ s[4 * k + 2] = b /\ s[4 * k + 3] = c /\ s[4 * k + 4] = d
  BY <1>1, <1>3
<1>7. QED
  BY <1>5, <1>6 DEF s, Fourfold

\* Two sequences of operations, one after the other.
Joins(s, m, a, k, b) ==
    /\ s \in Seq(BusOps) /\ Len(s) = m + k
    /\ \A j \in 1 .. m : s[j] = a[j]
    /\ \A j \in 1 .. k : s[m + j] = b[j]

LEMMA Joined ==
    ASSUME NEW m \in Nat, NEW k \in Nat, NEW a \in Seq(BusOps), NEW b \in Seq(BusOps), NEW s,
           Len(a) = m, Len(b) = k, s = a \o b
    PROVE  Joins(s, m, a, k, b)
<1>1. /\ s \in Seq(BusOps) /\ Len(s) = m + k
      /\ \A j \in 1 .. m + k : s[j] = IF j <= m THEN a[j] ELSE b[j - m]
  BY ConcatProperties
<1>2. \A j \in 1 .. m : j \in 1 .. m + k /\ j <= m
  OBVIOUS
<1>3. \A j \in 1 .. k : m + j \in 1 .. m + k /\ ~(m + j <= m) /\ (m + j) - m = j
  OBVIOUS
<1>4. \A j \in 1 .. k : s[m + j] = b[j]
  BY <1>1, <1>3, Zenon
<1>5. QED
  BY <1>1, <1>2, <1>4, Zenon DEF Joins

LEMMA ReadOps ==
    LET s == B!i2c_master_readByte IN
    /\ s \in Seq(BusOps) /\ Len(s) = 4 * ByteBits + 2
    /\ s[1] = B!Set(1, B!Kept)
    /\ \A c \in 0 .. ByteBits - 1 :
          /\ s[4 * c + 2] = B!Set(1, 0) /\ s[4 * c + 3] = B!Set(1, 1)
          /\ s[4 * c + 4] = B!Stretch /\ s[4 * c + 5] = B!Sample
    /\ s[4 * ByteBits + 2] = B!Set(B!Kept, 0)
<1> DEFINE t == B!Times(ByteBits, <<B!Set(1, 0), B!Set(1, 1), B!Stretch, B!Sample>>)
<1>1. /\ t \in Seq(BusOps) /\ Len(t) = 4 * ByteBits
      /\ \A c \in 0 .. ByteBits - 1 : t[4 * c + 1] = B!Set(1, 0) /\ t[4 * c + 2] = B!Set(1, 1)
                                      /\ t[4 * c + 3] = B!Stretch /\ t[4 * c + 4] = B!Sample
  <2>1. /\ B!Set(1, 0) \in BusOps /\ B!Set(1, 1) \in BusOps /\ B!Stretch \in BusOps /\ B!Sample \in BusOps
        /\ ByteBits \in Nat
    BY SetIsOp, BusAssumption
  <2>2. Fourfold(t, ByteBits, B!Set(1, 0), B!Set(1, 1), B!Stretch, B!Sample)
    BY <2>1, FourTimesOps, Zenon
  <2>3. QED
    BY <2>2, Zenon DEF Fourfold
<1>2. /\ <<B!Set(1, B!Kept)>> \in Seq(BusOps) /\ Len(<<B!Set(1, B!Kept)>>) = 1
      /\ <<B!Set(B!Kept, 0)>> \in Seq(BusOps) /\ Len(<<B!Set(B!Kept, 0)>>) = 1
  BY SetIsOp, ShortSeqs
<1>3. B!i2c_master_readByte = (<<B!Set(1, B!Kept)>> \o t) \o <<B!Set(B!Kept, 0)>>
  BY DEF B!i2c_master_readByte
<1> HIDE DEF t
<1>4. PICK u : u = <<B!Set(1, B!Kept)>> \o t
  OBVIOUS
<1>b. 1 \in Nat /\ 4 * ByteBits \in Nat /\ 1 + 4 * ByteBits \in Nat
  BY BusAssumption
<1>5. /\ u \in Seq(BusOps) /\ Len(u) = 1 + 4 * ByteBits
      /\ \A k \in 1 .. 1 : u[k] = <<B!Set(1, B!Kept)>>[k]
      /\ \A k \in 1 .. 4 * ByteBits : u[1 + k] = t[k]
  <2>1. <<B!Set(1, B!Kept)>> \in Seq(BusOps) /\ t \in Seq(BusOps) /\ Len(<<B!Set(1, B!Kept)>>) = 1 /\ Len(t) = (4 * ByteBits)
    BY <1>1, <1>2
  <2>2. Joins(u, 1, <<B!Set(1, B!Kept)>>, 4 * ByteBits, t)
    BY <1>b, <1>4, <2>1, Joined, Zenon
  <2>3. QED
    BY <2>2, Zenon DEF Joins
<1>6. /\ u[1] = B!Set(1, B!Kept)
      /\ \A c \in 0 .. ByteBits - 1 :
            /\ u[4 * c + 2] = B!Set(1, 0) /\ u[4 * c + 3] = B!Set(1, 1)
            /\ u[4 * c + 4] = B!Stretch /\ u[4 * c + 5] = B!Sample
  <2>1. \A c \in 0 .. ByteBits - 1 :
            /\ 4 * c + 1 \in 1 .. 4 * ByteBits /\ 1 + (4 * c + 1) = 4 * c + 2
            /\ 4 * c + 2 \in 1 .. 4 * ByteBits /\ 1 + (4 * c + 2) = 4 * c + 3
            /\ 4 * c + 3 \in 1 .. 4 * ByteBits /\ 1 + (4 * c + 3) = 4 * c + 4
            /\ 4 * c + 4 \in 1 .. 4 * ByteBits /\ 1 + (4 * c + 4) = 4 * c + 5
    BY BusAssumption
  <2>2. u[1] = B!Set(1, B!Kept)
    BY <1>5
  <2>3. ASSUME NEW c \in 0 .. ByteBits - 1
        PROVE  /\ u[4 * c + 2] = t[4 * c + 1] /\ u[4 * c + 3] = t[4 * c + 2]
               /\ u[4 * c + 4] = t[4 * c + 3] /\ u[4 * c + 5] = t[4 * c + 4]
    BY <1>5, <2>1, Zenon
  <2>4. QED
    BY <1>1, <2>2, <2>3, Zenon
<1>7. PICK v : v = u \o <<B!Set(B!Kept, 0)>>
  OBVIOUS
<1>8. /\ v \in Seq(BusOps) /\ Len(v) = (1 + 4 * ByteBits) + 1
      /\ \A k \in 1 .. 1 + 4 * ByteBits : v[k] = u[k]
      /\ \A k \in 1 .. 1 : v[(1 + 4 * ByteBits) + k] = <<B!Set(B!Kept, 0)>>[k]
  <2>1. u \in Seq(BusOps) /\ <<B!Set(B!Kept, 0)>> \in Seq(BusOps) /\ Len(u) = (1 + 4 * ByteBits) /\ Len(<<B!Set(B!Kept, 0)>>) = 1
    BY <1>2, <1>5
  <2>2. Joins(v, 1 + 4 * ByteBits, u, 1, <<B!Set(B!Kept, 0)>>)
    BY <1>b, <1>7, <2>1, Joined, Zenon
  <2>3. QED
    BY <2>2, Zenon DEF Joins
<1>9. /\ v[1] = B!Set(1, B!Kept)
      /\ \A c \in 0 .. ByteBits - 1 :
            /\ v[4 * c + 2] = B!Set(1, 0) /\ v[4 * c + 3] = B!Set(1, 1)
            /\ v[4 * c + 4] = B!Stretch /\ v[4 * c + 5] = B!Sample
      /\ v[4 * ByteBits + 2] = B!Set(B!Kept, 0) /\ Len(v) = 4 * ByteBits + 2
  <2>1. /\ 1 \in 1 .. 1 + 4 * ByteBits
        /\ \A c \in 0 .. ByteBits - 1 :
            /\ 4 * c + 2 \in 1 .. 1 + 4 * ByteBits /\ 4 * c + 3 \in 1 .. 1 + 4 * ByteBits
            /\ 4 * c + 4 \in 1 .. 1 + 4 * ByteBits /\ 4 * c + 5 \in 1 .. 1 + 4 * ByteBits
    BY BusAssumption
  <2>2. (1 + 4 * ByteBits) + 1 = 4 * ByteBits + 2
    BY BusAssumption
  <2>3. v[(1 + 4 * ByteBits) + 1] = B!Set(B!Kept, 0)
    BY <1>8
  <2>4. QED
    BY <1>6, <1>8, <2>1, <2>2, <2>3, Zenon
<1>10. QED
  BY <1>3, <1>4, <1>7, <1>8, <1>9, Zenon

LEMMA SetupOps ==
    LET s == B!i2c_master_gpio_init IN
    /\ s \in Seq(BusOps) /\ Len(s) = 7 + 2 * InitClocks
    /\ s[1] = B!Set(1, 1) /\ s[2] = B!Set(1, 0) /\ s[3] = B!Set(0, 0) /\ s[4] = B!Set(1, 0)
    /\ \A c \in 0 .. InitClocks - 1 : s[2 * c + 5] = B!Set(1, 0) /\ s[2 * c + 6] = B!Set(1, 1)
    /\ s[5 + 2 * InitClocks] = B!Set(0, B!Kept) /\ s[6 + 2 * InitClocks] = B!Set(0, 1)
    /\ s[7 + 2 * InitClocks] = B!Set(1, 1)
<1> DEFINE h == <<B!Set(1, 1), B!Set(1, 0), B!Set(0, 0), B!Set(1, 0)>>
           t == B!Times(InitClocks, <<B!Set(1, 0), B!Set(1, 1)>>)
<1>1. /\ t \in Seq(BusOps) /\ Len(t) = 2 * InitClocks
      /\ \A c \in 0 .. InitClocks - 1 : t[2 * c + 1] = B!Set(1, 0) /\ t[2 * c + 2] = B!Set(1, 1)
  <2>1. B!Set(1, 0) \in BusOps /\ B!Set(1, 1) \in BusOps /\ InitClocks \in Nat
    BY SetIsOp, BusAssumption
  <2>2. Twofold(t, InitClocks, B!Set(1, 0), B!Set(1, 1))
    BY <2>1, TimesOps, Zenon
  <2>3. QED
    BY <2>2, Zenon DEF Twofold
<1>2. h \in Seq(BusOps) /\ Len(h) = 4
  BY SetIsOp, ShortSeqs
<1>3. B!i2c_master_gpio_init = (h \o t) \o B!i2c_master_stop
  BY DEF B!i2c_master_gpio_init
<1>h. h[1] = B!Set(1, 1) /\ h[2] = B!Set(1, 0) /\ h[3] = B!Set(0, 0) /\ h[4] = B!Set(1, 0)
  OBVIOUS
<1> HIDE DEF t, h
<1>4. PICK u : u = h \o t
  OBVIOUS
<1>b. 4 \in Nat /\ 3 \in Nat /\ 2 * InitClocks \in Nat /\ 4 + 2 * InitClocks \in Nat
  BY BusAssumption
<1>5. /\ u \in Seq(BusOps) /\ Len(u) = 4 + 2 * InitClocks
      /\ \A k \in 1 .. 4 : u[k] = h[k]
      /\ \A k \in 1 .. 2 * InitClocks : u[4 + k] = t[k]
  <2>1. h \in Seq(BusOps) /\ t \in Seq(BusOps) /\ Len(h) = 4 /\ Len(t) = (2 * InitClocks)
    BY <1>1, <1>2
  <2>2. Joins(u, 4, h, 2 * InitClocks, t)
    BY <1>b, <1>4, <2>1, Joined, Zenon
  <2>3. QED
    BY <2>2, Zenon DEF Joins
<1>6. /\ u[1] = B!Set(1, 1) /\ u[2] = B!Set(1, 0) /\ u[3] = B!Set(0, 0) /\ u[4] = B!Set(1, 0)
      /\ \A c \in 0 .. InitClocks - 1 : u[2 * c + 5] = B!Set(1, 0) /\ u[2 * c + 6] = B!Set(1, 1)
  <2>1. \A c \in 0 .. InitClocks - 1 :
            /\ 2 * c + 1 \in 1 .. 2 * InitClocks /\ 4 + (2 * c + 1) = 2 * c + 5
            /\ 2 * c + 2 \in 1 .. 2 * InitClocks /\ 4 + (2 * c + 2) = 2 * c + 6
    BY BusAssumption
  <2>2. 1 \in 1..4 /\ 2 \in 1..4 /\ 3 \in 1..4 /\ 4 \in 1..4
    OBVIOUS
  <2>3. ASSUME NEW c \in 0 .. InitClocks - 1
        PROVE  u[2 * c + 5] = t[2 * c + 1] /\ u[2 * c + 6] = t[2 * c + 2]
    BY <1>5, <2>1, Zenon
  <2>4. QED
    BY <1>h, <1>1, <1>5, <2>2, <2>3, Zenon
<1>7. PICK v : v = u \o B!i2c_master_stop
  OBVIOUS
<1>8. /\ v \in Seq(BusOps) /\ Len(v) = (4 + 2 * InitClocks) + 3
      /\ \A k \in 1 .. 4 + 2 * InitClocks : v[k] = u[k]
      /\ \A k \in 1 .. 3 : v[(4 + 2 * InitClocks) + k] = B!i2c_master_stop[k]
  <2>1. u \in Seq(BusOps) /\ B!i2c_master_stop \in Seq(BusOps) /\ Len(u) = (4 + 2 * InitClocks) /\ Len(B!i2c_master_stop) = 3
    BY <1>5, StopOps
  <2>2. Joins(v, 4 + 2 * InitClocks, u, 3, B!i2c_master_stop)
    BY <1>b, <1>7, <2>1, Joined, Zenon
  <2>3. QED
    BY <2>2, Zenon DEF Joins
<1>9. /\ v[1] = B!Set(1, 1) /\ v[2] = B!Set(1, 0) /\ v[3] = B!Set(0, 0) /\ v[4] = B!Set(1, 0)
      /\ \A c \in 0 .. InitClocks - 1 : v[2 * c + 5] = B!Set(1, 0) /\ v[2 * c + 6] = B!Set(1, 1)
      /\ v[5 + 2 * InitClocks] = B!Set(0, B!Kept) /\ v[6 + 2 * InitClocks] = B!Set(0, 1)
      /\ v[7 + 2 * InitClocks] = B!Set(1, 1) /\ Len(v) = 7 + 2 * InitClocks
  <2>1. /\ 1 \in 1 .. 4 + 2 * InitClocks /\ 2 \in 1 .. 4 + 2 * InitClocks
        /\ 3 \in 1 .. 4 + 2 * InitClocks /\ 4 \in 1 .. 4 + 2 * InitClocks
        /\ \A c \in 0 .. InitClocks - 1 :
              2 * c + 5 \in 1 .. 4 + 2 * InitClocks /\ 2 * c + 6 \in 1 .. 4 + 2 * InitClocks
    BY BusAssumption
  <2>2. /\ (4 + 2 * InitClocks) + 1 = 5 + 2 * InitClocks /\ (4 + 2 * InitClocks) + 2 = 6 + 2 * InitClocks
        /\ (4 + 2 * InitClocks) + 3 = 7 + 2 * InitClocks
    BY BusAssumption
  <2>3. 1 \in 1..3 /\ 2 \in 1..3 /\ 3 \in 1..3
    OBVIOUS
  <2>4. QED
    BY <1>6, <1>8, <2>1, <2>2, <2>3, StopOps, Zenon
<1>10. QED
  BY <1>3, <1>4, <1>7, <1>8, <1>9, Zenon

\* A byte with its acknowledgement, alone, after a start, and after a stop and a start.
WrittenAt(s, x, m) ==
    /\ \A c \in 0 .. ByteBits - 1 :
          /\ s[m + 3 * c + 1] = B!Set(B!Bit(x, c + 1), 0)
          /\ s[m + 3 * c + 2] = B!Set(B!Bit(x, c + 1), 1)
          /\ s[m + 3 * c + 3] = B!Set(B!Bit(x, c + 1), 0)
    /\ s[m + 3 * ByteBits + 1] = B!Set(B!Kept, 0) /\ s[m + 3 * ByteBits + 2] = B!Set(1, 0)
    /\ s[m + 3 * ByteBits + 3] = B!Set(1, 1) /\ s[m + 3 * ByteBits + 4] = B!Sample
    /\ s[m + 3 * ByteBits + 5] = B!Set(1, 0)

LEMMA CommandOps ==
    ASSUME NEW x \in Nat
    PROVE  LET s == B!i2c_master_writeByte(x) \o B!i2c_master_getAck IN
           s \in Seq(BusOps) /\ Len(s) = 3 * ByteBits + 5 /\ WrittenAt(s, x, 0)
<1>1. PICK w, g : w = B!i2c_master_writeByte(x) /\ g = B!i2c_master_getAck
  OBVIOUS
<1>2. /\ w \in Seq(BusOps) /\ Len(w) = 3 * ByteBits
      /\ \A c \in 0 .. ByteBits - 1 :
            /\ w[3 * c + 1] = B!Set(B!Bit(x, c + 1), 0)
            /\ w[3 * c + 2] = B!Set(B!Bit(x, c + 1), 1)
            /\ w[3 * c + 3] = B!Set(B!Bit(x, c + 1), 0)
  BY <1>1, WriteOps
<1>3. /\ g \in Seq(BusOps) /\ Len(g) = 5
      /\ g[1] = B!Set(B!Kept, 0) /\ g[2] = B!Set(1, 0) /\ g[3] = B!Set(1, 1) /\ g[4] = B!Sample /\ g[5] = B!Set(1, 0)
  BY <1>1, GetAckOps
<1>4. PICK s : s = w \o g
  OBVIOUS
<1>b. 3 * ByteBits \in Nat /\ 5 \in Nat
  BY BusAssumption
<1>5. /\ s \in Seq(BusOps) /\ Len(s) = 3 * ByteBits + 5
      /\ \A k \in 1 .. 3 * ByteBits : s[k] = w[k]
      /\ \A k \in 1 .. 5 : s[3 * ByteBits + k] = g[k]
  <2>1. w \in Seq(BusOps) /\ g \in Seq(BusOps) /\ Len(w) = (3 * ByteBits) /\ Len(g) = 5
    BY <1>2, <1>3
  <2>2. Joins(s, 3 * ByteBits, w, 5, g)
    BY <1>b, <1>4, <2>1, Joined, Zenon
  <2>3. QED
    BY <2>2, Zenon DEF Joins
<1>6. \A c \in 0 .. ByteBits - 1 :
            /\ s[0 + 3 * c + 1] = B!Set(B!Bit(x, c + 1), 0)
            /\ s[0 + 3 * c + 2] = B!Set(B!Bit(x, c + 1), 1)
            /\ s[0 + 3 * c + 3] = B!Set(B!Bit(x, c + 1), 0)
  <2>1. \A c \in 0 .. ByteBits - 1 :
            /\ 3 * c + 1 \in 1 .. 3 * ByteBits /\ 0 + 3 * c + 1 = 3 * c + 1
            /\ 3 * c + 2 \in 1 .. 3 * ByteBits /\ 0 + 3 * c + 2 = 3 * c + 2
            /\ 3 * c + 3 \in 1 .. 3 * ByteBits /\ 0 + 3 * c + 3 = 3 * c + 3
    BY BusAssumption
  <2>2. QED
    BY <1>2, <1>5, <2>1, Zenon
<1>7. /\ s[0 + 3 * ByteBits + 1] = B!Set(B!Kept, 0) /\ s[0 + 3 * ByteBits + 2] = B!Set(1, 0)
      /\ s[0 + 3 * ByteBits + 3] = B!Set(1, 1) /\ s[0 + 3 * ByteBits + 4] = B!Sample
      /\ s[0 + 3 * ByteBits + 5] = B!Set(1, 0)
  <2>1. 0 + 3 * ByteBits = 3 * ByteBits
    BY BusAssumption
  <2>2. 1 \in 1..5 /\ 2 \in 1..5 /\ 3 \in 1..5 /\ 4 \in 1..5 /\ 5 \in 1..5
    OBVIOUS
  <2>3. QED
    BY <1>3, <1>5, <2>1, <2>2, Zenon
<1>8. QED
  BY <1>1, <1>4, <1>5, <1>6, <1>7, Zenon DEF WrittenAt

LEMMA WrittenBehind ==
    ASSUME NEW h \in Seq(BusOps), NEW t \in Seq(BusOps), NEW x \in Nat, NEW m \in Nat,
           WrittenAt(t, x, m), Len(t) = m + 3 * ByteBits + 5
    PROVE  WrittenAt(h \o t, x, Len(h) + m)
<1>1. PICK s, l : s = h \o t /\ l = Len(h)
  OBVIOUS
<1>2. l \in Nat /\ \A k \in 1 .. m + 3 * ByteBits + 5 : s[l + k] = t[k]
  BY <1>1, ConcatProperties, LenProperties
<1>3. \A c \in 0 .. ByteBits - 1 :
            /\ s[(l + m) + 3 * c + 1] = B!Set(B!Bit(x, c + 1), 0)
            /\ s[(l + m) + 3 * c + 2] = B!Set(B!Bit(x, c + 1), 1)
            /\ s[(l + m) + 3 * c + 3] = B!Set(B!Bit(x, c + 1), 0)
  <2> TAKE c \in 0 .. ByteBits - 1
  <2>1. /\ (l + m) + 3 * c + 1 = l + (m + 3 * c + 1) /\ m + 3 * c + 1 \in 1 .. m + 3 * ByteBits + 5
        /\ (l + m) + 3 * c + 2 = l + (m + 3 * c + 2) /\ m + 3 * c + 2 \in 1 .. m + 3 * ByteBits + 5
        /\ (l + m) + 3 * c + 3 = l + (m + 3 * c + 3) /\ m + 3 * c + 3 \in 1 .. m + 3 * ByteBits + 5
    BY <1>2, BusAssumption
  <2>2. QED
    BY <1>2, <2>1, Zenon DEF WrittenAt
<1>4. /\ s[(l + m) + 3 * ByteBits + 1] = B!Set(B!Kept, 0) /\ s[(l + m) + 3 * ByteBits + 2] = B!Set(1, 0)
      /\ s[(l + m) + 3 * ByteBits + 3] = B!Set(1, 1) /\ s[(l + m) + 3 * ByteBits + 4] = B!Sample
      /\ s[(l + m) + 3 * ByteBits + 5] = B!Set(1, 0)
  <2>1. \A e \in 1..5 : /\ (l + m) + 3 * ByteBits + e = l + (m + 3 * ByteBits + e)
                        /\ m + 3 * ByteBits + e \in 1 .. m + 3 * ByteBits + 5
    BY <1>2, BusAssumption
  <2>2. \A e \in 1..5 : s[(l + m) + 3 * ByteBits + e] = t[m + 3 * ByteBits + e]
    BY <1>2, <2>1, Zenon
  <2>3. 1 \in 1..5 /\ 2 \in 1..5 /\ 3 \in 1..5 /\ 4 \in 1..5 /\ 5 \in 1..5
    OBVIOUS
  <2>4. QED
    BY <2>2, <2>3, Zenon DEF WrittenAt
<1>5. QED
  BY <1>1, <1>3, <1>4, Zenon DEF WrittenAt

LEMMA AddressedOps ==
    ASSUME NEW x \in Nat
    PROVE  LET s == B!Addressed(x) IN
           /\ s \in Seq(BusOps) /\ Len(s) = 3 * ByteBits + 8
           /\ s[1] = B!Set(1, B!Kept) /\ s[2] = B!Set(1, 1) /\ s[3] = B!Set(0, 1) /\ WrittenAt(s, x, 3)
<1>1. PICK a, w, g : a = B!i2c_master_start /\ w = B!i2c_master_writeByte(x) /\ g = B!i2c_master_getAck
  OBVIOUS
<1>2. PICK t : t = w \o g
  OBVIOUS
<1>3. t \in Seq(BusOps) /\ Len(t) = 3 * ByteBits + 5 /\ WrittenAt(t, x, 0)
  BY <1>1, <1>2, CommandOps
<1>4. B!Addressed(x) = a \o t
  <2>1. B!Addressed(x) = (a \o w) \o g
    BY <1>1 DEF B!Addressed
  <2>2. (a \o w) \o g = a \o (w \o g)
    <3>1. a \in Seq(BusOps) /\ w \in Seq(BusOps) /\ g \in Seq(BusOps)
      BY <1>1, StartOps, WriteOps, GetAckOps, Zenon
    <3>2. QED
      BY <3>1, ConcatAssociative
  <2>3. QED
    BY <1>2, <2>1, <2>2
<1>5. a \in Seq(BusOps) /\ Len(a) = 3 /\ a[1] = B!Set(1, B!Kept) /\ a[2] = B!Set(1, 1) /\ a[3] = B!Set(0, 1)
  BY <1>1, StartOps
<1>6. 3 * ByteBits + 5 = 0 + 3 * ByteBits + 5 /\ Len(a) + 0 = 3
  BY <1>5, BusAssumption
<1>7. WrittenAt(a \o t, x, 3)
  BY <1>3, <1>5, <1>6, WrittenBehind
<1>8. 3 \in Nat /\ 3 * ByteBits + 5 \in Nat /\ 3 + (3 * ByteBits + 5) = 3 * ByteBits + 8
  BY BusAssumption
<1>9. /\ a \o t \in Seq(BusOps) /\ Len(a \o t) = 3 + (3 * ByteBits + 5)
      /\ \A j \in 1..3 : (a \o t)[j] = a[j]
  <2>1. Joins(a \o t, 3, a, 3 * ByteBits + 5, t)
    BY <1>3, <1>5, <1>8, Joined, Zenon
  <2>2. QED
    BY <2>1, Zenon DEF Joins
<1>10. 1 \in 1..3 /\ 2 \in 1..3 /\ 3 \in 1..3
  OBVIOUS
<1>11. QED
  BY <1>4, <1>5, <1>7, <1>8, <1>9, <1>10, Zenon

LEMMA AgainOps ==
    ASSUME NEW x \in Nat
    PROVE  LET s == B!i2c_master_stop \o B!Addressed(x) IN
           /\ s \in Seq(BusOps) /\ Len(s) = 3 * ByteBits + 11
           /\ s[1] = B!Set(0, B!Kept) /\ s[2] = B!Set(0, 1) /\ s[3] = B!Set(1, 1)
           /\ s[4] = B!Set(1, B!Kept) /\ s[5] = B!Set(1, 1) /\ s[6] = B!Set(0, 1) /\ WrittenAt(s, x, 6)
<1>1. PICK a, t : a = B!i2c_master_stop /\ t = B!Addressed(x)
  OBVIOUS
<1>2. /\ t \in Seq(BusOps) /\ Len(t) = 3 * ByteBits + 8 /\ WrittenAt(t, x, 3)
      /\ t[1] = B!Set(1, B!Kept) /\ t[2] = B!Set(1, 1) /\ t[3] = B!Set(0, 1)
  BY <1>1, AddressedOps
<1>3. a \in Seq(BusOps) /\ Len(a) = 3 /\ a[1] = B!Set(0, B!Kept) /\ a[2] = B!Set(0, 1) /\ a[3] = B!Set(1, 1)
  BY <1>1, StopOps
<1>4. Len(t) = 3 + 3 * ByteBits + 5 /\ Len(a) + 3 = 6
  BY <1>2, <1>3, BusAssumption
<1>5. WrittenAt(a \o t, x, 6)
  BY <1>2, <1>3, <1>4, WrittenBehind
<1>6. PICK s : s = a \o t
  OBVIOUS
<1>b. 3 \in Nat /\ 3 * ByteBits + 8 \in Nat /\ 3 + (3 * ByteBits + 8) = 3 * ByteBits + 11
  BY BusAssumption
<1>7. /\ s \in Seq(BusOps) /\ Len(s) = 3 + (3 * ByteBits + 8)
      /\ \A k \in 1 .. 3 : s[k] = a[k]
      /\ \A k \in 1 .. 3 * ByteBits + 8 : s[3 + k] = t[k]
  <2>1. Joins(s, 3, a, 3 * ByteBits + 8, t)
    BY <1>b, <1>2, <1>3, <1>6, Joined, Zenon
  <2>2. QED
    BY <2>1, Zenon DEF Joins
<1>8. /\ s[1] = B!Set(0, B!Kept) /\ s[2] = B!Set(0, 1) /\ s[3] = B!Set(1, 1)
      /\ s[4] = B!Set(1, B!Kept) /\ s[5] = B!Set(1, 1) /\ s[6] = B!Set(0, 1)
  <2>1. /\ 1 \in 1..3 /\ 2 \in 1..3 /\ 3 \in 1..3
        /\ 1 \in 1 .. 3 * ByteBits + 8 /\ 2 \in 1 .. 3 * ByteBits + 8 /\ 3 \in 1 .. 3 * ByteBits + 8
        /\ 3 + 1 = 4 /\ 3 + 2 = 5 /\ 3 + 3 = 6
    BY BusAssumption
  <2>2. QED
    BY <1>2, <1>3, <1>7, <2>1, Zenon
<1>9. QED
  BY <1>b, <1>1, <1>5, <1>6, <1>7, <1>8, Zenon

\* A step along a sequence of operations.
LEMMA RestSteps ==
    ASSUME NEW s \in Seq(BusOps), NEW n \in 0 .. Len(s)
    PROVE  /\ Rest(s, n) \in Seq(BusOps)
           /\ Rest(s, n) = <<>> <=> n = Len(s)
           /\ n < Len(s) => Head(Rest(s, n)) = s[n + 1] /\ Tail(Rest(s, n)) = Rest(s, n + 1)
           /\ Rest(s, 0) = s
<1>1. Len(s) \in Nat
  BY LenProperties
<1>2. \A k \in n + 1 .. Len(s) : s[k] \in BusOps
  BY <1>1, ElementOfSeq
<1>3. /\ Rest(s, n) \in Seq(BusOps)
      /\ Len(Rest(s, n)) = IF n + 1 <= Len(s) THEN Len(s) - (n + 1) + 1 ELSE 0
  BY <1>1, <1>2, SubSeqProperties DEF Rest
<1>4. Rest(s, n) = <<>> <=> n = Len(s)
  BY <1>1, <1>3
<1>5. n < Len(s) => Head(Rest(s, n)) = s[n + 1] /\ Tail(Rest(s, n)) = Rest(s, n + 1)
  <2> SUFFICES ASSUME n < Len(s) PROVE Head(Rest(s, n)) = s[n + 1] /\ Tail(Rest(s, n)) = Rest(s, n + 1)
    OBVIOUS
  <2>1. n + 1 \in 1 .. Len(s) /\ Len(s) \in n + 1 .. Len(s)
    BY <1>1
  <2>2. QED
    BY <2>1, HeadTailOfSubSeq DEF Rest
<1>6. Rest(s, 0) = s
  BY SubSeqFull DEF Rest
<1>7. QED
  BY <1>3, <1>4, <1>5, <1>6

\* A number below a power of two, and one bit more.
LEMMA MoreBits ==
    ASSUME NEW n \in Nat, NEW x \in Nat, NEW d \in 0..1, x < 2 ^ n
    PROVE  2 * x + d < 2 ^ (n + 1) /\ 2 * x + d \in Nat
<1>1. PICK p \in Nat : p = 2 ^ n
  BY PowerFacts
<1>2. 2 ^ (n + 1) = 2 * p
  BY <1>1, PowerFacts
<1>3. QED
  BY <1>1, <1>2

LEMMA Weaker == \A s : SensingLow(s) => Sensing(s)
  BY DEF SensingLow

\* The sensor at rest, and after a start.
LEMMA IdleSenses ==
    ASSUME NEW s \in Sensors, s.scl = 1, s.work \in {"measures", "done"} => s.of \in Commands,
           s.work = "done" => s.reading \in Readings[s.of]
    PROVE  /\ SensingLow(B!Idle(s))
           /\ SensingLow([B!Idle(s) EXCEPT !.mode = "address"])
<1>1. PICK r : r = B!Idle(s)
  OBVIOUS
<1>2. /\ r \in Sensors /\ r.mode = "idle" /\ r.sda = 1 /\ r.clocks = 0 /\ r.bits = 0 /\ r.scl = 1
      /\ r.work = s.work /\ r.of = s.of /\ r.reading = s.reading
  <2>1. r = [s EXCEPT !.mode = "idle", !.sda = 1, !.clocks = 0, !.bits = 0, !.nack = 0, !.at = 1]
    BY <1>1 DEF B!Idle
  <2>2. 0 \in 0 .. ByteBits + 1 /\ 0 \in Nat /\ 1 \in Nat \ {0} /\ 0 \in 0..1 /\ 1 \in 0..1
    BY BusAssumption
  <2>3. QED
    BY <2>1, <2>2 DEF Sensors, Modes
<1>3. PICK a : a = [r EXCEPT !.mode = "address"]
  OBVIOUS
<1>4. /\ a \in Sensors /\ a.mode = "address" /\ a.sda = 1 /\ a.clocks = 0 /\ a.bits = 0 /\ a.scl = 1
      /\ a.work = s.work /\ a.of = s.of /\ a.reading = s.reading
  BY <1>2, <1>3 DEF Sensors, Modes
<1>5. 0 < 2 ^ 0 /\ 0 # ByteBits + 1 /\ 0 # ByteBits /\ 0 <= ByteBits
  BY PowerFacts, BusAssumption
<1>c. Counted(r) = 0 /\ Counted(a) = 0
  BY <1>2, <1>4, <1>5 DEF Counted
<1>6. SensingLow(r)
  BY <1>c, <1>2, <1>5 DEF Sensing, SensingLow
<1>7. SensingLow(a)
  BY <1>c, <1>4, <1>5 DEF Sensing, SensingLow
<1>8. QED
  BY <1>1, <1>3, <1>6, <1>7

LEMMA RiseSenses ==
    ASSUME NEW s, SensingLow(s), s.scl = 1, NEW d \in 0..1
    PROVE  Sensing(B!Rise(s, d)) /\ B!Rise(s, d).scl = 1
<1>1. PICK r : r = B!Rise(s, d)
  OBVIOUS
<1>0. /\ s \in Sensors /\ s.clocks \in 0 .. ByteBits /\ s.bits < 2 ^ s.clocks /\ ByteBits \in Nat \ {0}
      /\ s.bits \in Nat /\ s.mode \in Modes
  BY BusAssumption DEF Sensing, SensingLow, Sensors, Counted
<1>2. CASE s.mode = "idle"
  BY <1>1, <1>2, Weaker DEF B!Rise
<1>3. CASE s.mode # "idle"
  <2>1. /\ r = [s EXCEPT !.clocks = s.clocks + 1,
                         !.bits = IF s.mode # "read" /\ s.clocks < ByteBits THEN 2 * s.bits + d ELSE s.bits,
                         !.nack = d]
    BY <1>0, <1>1, <1>3 DEF B!Rise, Sensors
  <2>2. /\ r.mode = s.mode /\ r.clocks = s.clocks + 1 /\ r.sda = s.sda /\ r.scl = 1 /\ r.work = s.work
        /\ r.of = s.of /\ r.reading = s.reading
        /\ r.bits = IF s.mode # "read" /\ s.clocks < ByteBits THEN 2 * s.bits + d ELSE s.bits
    BY <1>0, <2>1 DEF Sensors
  <2>3. r.bits \in Nat /\ r.bits < 2 ^ Counted(r)
    <3>1. CASE s.clocks < ByteBits
      <4>1. Counted(r) = s.clocks + 1
        BY <1>0, <2>2, <3>1 DEF Counted
      <4>2. 2 * s.bits + d < 2 ^ (s.clocks + 1) /\ 2 * s.bits + d \in Nat
        BY <1>0, MoreBits
      <4>3. s.bits < 2 ^ (s.clocks + 1)
        BY <1>0, <4>2, PowerFacts
      <4>4. QED
        BY <1>0, <2>2, <4>1, <4>2, <4>3
    <3>2. CASE s.clocks = ByteBits
      BY <1>0, <2>2, <3>2 DEF Counted
    <3>3. QED
      BY <1>0, <3>1, <3>2
  <2>4. r \in Sensors
    <3>1. PICK c, b : /\ c = s.clocks + 1
                      /\ b = IF s.mode # "read" /\ s.clocks < ByteBits THEN 2 * s.bits + d ELSE s.bits
      OBVIOUS
    <3>2. r = [s EXCEPT !.clocks = c, !.bits = b, !.nack = d]
      BY <2>1, <3>1
    <3>3. c \in 0 .. ByteBits + 1 /\ b \in Nat
      BY <1>0, <2>2, <2>3, <3>1
    <3>4. QED
      BY <1>0, <3>2, <3>3 DEF Sensors
  <2>5. /\ r.mode \in {"address", "write"} /\ r.clocks < ByteBits => r.sda = 1
        /\ r.mode = "write" /\ r.clocks = ByteBits + 1 => r.bits \in Known
        /\ r.work \in {"measures", "done"} => r.of \in Commands
        /\ r.work = "done" => r.reading \in Readings[r.of]
    BY <1>0, <2>2 DEF Sensing, SensingLow
  <2>6. r.mode # "idle" /\ r.scl # 0 /\ r.scl = 1 /\ (r.mode = "read" => r.bits = 0)
    BY <1>3, <2>2 DEF Sensing, SensingLow
  <2>7. Sensing(r)
    BY <2>3, <2>4, <2>5, <2>6, Zenon DEF Sensing, SensingLow
  <2>8. QED
    BY <1>1, <2>6, <2>7
<1>4. QED
  BY <1>2, <1>3

\* The cases of an edge down.
LEMMA FallIs ==
    ASSUME NEW s, Sensing(s)
    PROVE  /\ s.mode = "idle" => B!Fall(s) = s
           /\ s.mode \in {"address", "write"} /\ s.clocks < ByteBits => B!Fall(s) = s
           /\ s.mode \in {"address", "write"} /\ s.clocks = ByteBits =>
                B!Fall(s) = IF B!Acknowledges(s) THEN [s EXCEPT !.sda = 0] ELSE B!Idle(s)
           /\ s.mode \in {"address", "write"} /\ s.clocks = ByteBits + 1 => B!Fall(s) = B!Acknowledged(s)
           /\ s.mode = "read" /\ s.clocks = 0 => B!Fall(s) = s
           /\ s.mode = "read" /\ s.clocks \in 1 .. ByteBits - 1 =>
                B!Fall(s) = [s EXCEPT !.sda = B!Bit(B!Byte(s), s.clocks + 1)]
           /\ s.mode = "read" /\ s.clocks = ByteBits => B!Fall(s) = [s EXCEPT !.sda = 1]
           /\ s.mode = "read" /\ s.clocks = ByteBits + 1 =>
                B!Fall(s) = IF s.nack = 1 THEN B!Idle(s) ELSE B!Offer([s EXCEPT !.clocks = 0, !.at = s.at + 1])
<1>1. PICK m, c : m = s.mode /\ c = s.clocks
  OBVIOUS
<1>2. /\ m \in {"idle", "address", "write", "read"} /\ c \in 0 .. ByteBits + 1 /\ ByteBits \in Nat \ {0}
      /\ m = "idle" => c = 0
  BY <1>1, BusAssumption DEF Sensing, SensingLow, Sensors, Modes
<1>3. /\ c = ByteBits => c # ByteBits + 1 /\ c # 0 /\ c \notin 1 .. ByteBits - 1
      /\ c = ByteBits + 1 => c # ByteBits /\ c # 0 /\ c \notin 1 .. ByteBits - 1
      /\ c = 0 => c # ByteBits /\ c # ByteBits + 1 /\ c \notin 1 .. ByteBits - 1
      /\ c \in 1 .. ByteBits - 1 => c # ByteBits /\ c # ByteBits + 1 /\ c # 0
      /\ c < ByteBits => c # ByteBits /\ c # ByteBits + 1
  BY <1>2
<1>4. CASE m = "idle"
  BY <1>1, <1>2, <1>3, <1>4 DEF B!Fall
<1>5. CASE m # "idle" /\ m # "read"
  <2>1. CASE c < ByteBits
    BY <1>1, <1>2, <1>3, <1>5, <2>1 DEF B!Fall
  <2>2. CASE c = ByteBits
    BY <1>1, <1>2, <1>3, <1>5, <2>2 DEF B!Fall
  <2>3. CASE c = ByteBits + 1
    BY <1>1, <1>2, <1>3, <1>5, <2>3 DEF B!Fall
  <2>4. QED
    BY <1>2, <2>1, <2>2, <2>3
<1>6. CASE m = "read"
  <2>1. CASE c = 0
    BY <1>1, <1>2, <1>3, <1>6, <2>1 DEF B!Fall
  <2>2. CASE c \in 1 .. ByteBits - 1
    BY <1>1, <1>2, <1>3, <1>6, <2>2 DEF B!Fall
  <2>3. CASE c = ByteBits
    BY <1>1, <1>2, <1>3, <1>6, <2>3 DEF B!Fall
  <2>4. CASE c = ByteBits + 1
    BY <1>1, <1>2, <1>3, <1>6, <2>4 DEF B!Fall
  <2>5. QED
    BY <1>2, <2>1, <2>2, <2>3, <2>4
<1>7. QED
  BY <1>2, <1>4, <1>5, <1>6

LEMMA ByteIsByte == \A s \in Sensors : B!Byte(s) \in Nat
<1> SUFFICES ASSUME NEW s \in Sensors PROVE B!Byte(s) \in Nat
  OBVIOUS
<1>1. PICK p \in Nat \ {0} : p = 2 ^ ByteBits
  BY PowerFacts, BusAssumption
<1>2. s.reading \in Seq(B!ByteValues) /\ s.at \in Nat \ {0}
  BY DEF Sensors
<1>3. \A b \in B!ByteValues : b \in Nat
  BY <1>1 DEF B!ByteValues
<1>4. CASE s.at <= Len(s.reading)
  <2>1. s.at \in 1 .. Len(s.reading)
    BY <1>2, <1>4, LenProperties
  <2>2. s.reading[s.at] \in B!ByteValues
    BY <1>2, <2>1, ElementOfSeq
  <2>3. QED
    BY <1>3, <1>4, <2>2 DEF B!Byte
<1>5. CASE ~(s.at <= Len(s.reading))
  BY <1>1, <1>5 DEF B!Byte
<1>6. QED
  BY <1>4, <1>5

\* What is known of a sensor at work or done.
Reported(s) ==
    /\ s.work \in {"measures", "done"} => s.of \in Commands
    /\ s.work = "done" => s.reading \in Readings[s.of]

\* What is asked of one whose clock begins, in any of its modes.
LEMMA BeginsSenses ==
    ASSUME NEW s \in Sensors, Reported(s), s.clocks = 0, s.bits = 0,
           s.mode # "read" => s.sda = 1, s.scl = 0 => s.mode = "read" /\ s.sda = 1 /\ s.work = "measures"
    PROVE  SensingLow(s)
<1>1. 0 < 2 ^ 0 /\ 0 # ByteBits + 1 /\ 0 # ByteBits /\ 0 <= ByteBits
  BY PowerFacts, BusAssumption
<1>2. Counted(s) = 0
  BY <1>1 DEF Counted
<1>3. s.clocks # ByteBits + 1 /\ s.clocks # ByteBits /\ s.clocks <= ByteBits
  BY <1>1
<1>4. s.bits < 2 ^ Counted(s)
  BY <1>1, <1>2
<1>5. s.mode = "idle" => s.mode # "read"
  OBVIOUS
<1>6. s.mode \in {"address", "write"} => s.mode # "read"
  OBVIOUS
<1>7. QED
  BY <1>3, <1>4, <1>5, <1>6, Zenon DEF Sensing, SensingLow, Reported

LEMMA OfferSenses ==
    ASSUME NEW s \in Sensors, Reported(s), s.mode = "read", s.clocks = 0, s.bits = 0, s.scl = 1
    PROVE  /\ SensingLow(B!Offer(s)) /\ B!Offer(s).mode = "read" /\ B!Offer(s).clocks = 0
           /\ B!Offer(s).at = s.at /\ B!Offer(s).work = s.work /\ B!Offer(s).of = s.of /\ B!Offer(s).reading = s.reading
           /\ IF s.work = "measures" THEN B!Offer(s).scl = 0
              ELSE B!Offer(s).scl = 1 /\ B!Offer(s).sda = B!Bit(B!Byte(s), 1)
<1>1. B!Bit(B!Byte(s), 1) \in 0..1
  BY ByteIsByte, BitIsBit, BusAssumption
<1>2. PICK b, r : b = B!Bit(B!Byte(s), 1) /\ r = B!Offer(s)
  OBVIOUS
<1>3. r = IF s.work = "measures" THEN [s EXCEPT !.scl = 0, !.sda = 1] ELSE [s EXCEPT !.sda = b]
  BY <1>2 DEF B!Offer
<1>4. /\ r \in Sensors /\ r.mode = "read" /\ r.clocks = 0 /\ r.bits = 0 /\ r.at = s.at
      /\ r.work = s.work /\ r.of = s.of /\ r.reading = s.reading
      /\ IF s.work = "measures" THEN r.scl = 0 /\ r.sda = 1 ELSE r.scl = 1 /\ r.sda = b
  <2>0. b \in 0..1 /\ 0 \in 0..1 /\ 1 \in 0..1
    BY <1>1, <1>2
  <2>1. CASE s.work = "measures"
    BY <1>3, <2>1, <2>0 DEF Sensors
  <2>2. CASE s.work # "measures"
    BY <1>3, <2>2, <2>0 DEF Sensors
  <2>3. QED
    BY <2>1, <2>2
<1>5. SensingLow(r)
  <2>1. Reported(r)
    BY <1>4 DEF Reported
  <2>2. (r.mode # "read" => r.sda = 1) /\ (r.scl = 0 => r.mode = "read" /\ r.sda = 1 /\ r.work = "measures")
    BY <1>4
  <2>3. QED
    BY <2>1, <2>2, <1>4, BeginsSenses, Zenon
<1>6. QED
  BY <1>2, <1>4, <1>5

\* After the clock of an acknowledgement.
LEMMA AcknowledgedSenses ==
    ASSUME NEW s, Sensing(s), s.mode \in {"address", "write"}, s.clocks = ByteBits + 1
    PROVE  LET r == B!Acknowledged(s) IN
           /\ SensingLow(r) /\ r.clocks = 0 /\ r.bits = 0 /\ r.reading = s.reading
           /\ s.mode = "write" =>
                /\ r.mode = "write" /\ r.of = s.bits /\ r.scl = 1 /\ r.sda = 1
                /\ r.work = IF s.bits = ResetCommand THEN "resets" ELSE "measures"
           /\ s.mode = "address" => r.of = s.of /\ r.work = s.work
           /\ s.mode = "address" /\ s.bits = Address => r.mode = "write" /\ r.scl = 1 /\ r.sda = 1
           /\ s.mode = "address" /\ s.bits # Address =>
                /\ r.mode = "read" /\ r.at = 1
                /\ IF s.work = "measures" THEN r.scl = 0 ELSE r.scl = 1 /\ r.sda = B!Bit(B!Byte(r), 1)
<1>0. /\ s \in Sensors /\ s.scl = 1 /\ Reported(s) /\ s.mode \in Modes
      /\ s.mode = "write" => s.bits \in Known
  <2>1. s \in Sensors /\ s.scl = 1 /\ Reported(s)
    BY DEF Sensing, SensingLow, Sensors, Reported
  <2>2. s.mode = "write" => s.bits \in Known
    BY DEF Sensing, SensingLow
  <2>3. QED
    BY <2>1, <2>2 DEF Modes
<1>1. PICK n : n = [s EXCEPT !.clocks = 0, !.bits = 0, !.sda = 1]
  OBVIOUS
<1>2. /\ n \in Sensors /\ n.mode = s.mode /\ n.clocks = 0 /\ n.bits = 0 /\ n.sda = 1 /\ n.scl = 1
      /\ n.work = s.work /\ n.of = s.of /\ n.reading = s.reading /\ n.at = s.at
  <2>1. 0 \in 0 .. ByteBits + 1 /\ 0 \in Nat /\ 1 \in 0..1
    BY BusAssumption
  <2>2. QED
    BY <1>0, <1>1, <2>1 DEF Sensors
<1>3. PICK r : r = B!Acknowledged(s)
  OBVIOUS
<1>4. CASE s.mode = "write"
  <2>1. r = [n EXCEPT !.of = s.bits, !.work = IF s.bits = ResetCommand THEN "resets" ELSE "measures"]
    BY <1>1, <1>3, <1>4 DEF B!Acknowledged
  <2>2. PICK w : w = IF s.bits = ResetCommand THEN "resets" ELSE "measures"
    OBVIOUS
  <2>3. w \in Works /\ w # "done" /\ (w = "measures" => s.bits \in Commands)
    BY <1>0, <1>4, <2>2 DEF Works, Known
  <2>4. r = [n EXCEPT !.of = s.bits, !.work = w] /\ s.bits \in Known
    BY <1>0, <1>4, <2>1, <2>2
  <2>5. /\ r \in Sensors /\ r.mode = "write" /\ r.clocks = 0 /\ r.bits = 0 /\ r.sda = 1 /\ r.scl = 1
        /\ r.work = w /\ r.of = s.bits /\ r.reading = s.reading
    BY <1>2, <1>4, <2>3, <2>4 DEF Sensors
  <2>6. SensingLow(r)
    <3>1. Reported(r)
      BY <2>3, <2>5 DEF Reported
    <3>2. (r.mode # "read" => r.sda = 1) /\ (r.scl = 0 => r.mode = "read" /\ r.sda = 1 /\ r.work = "measures")
      BY <2>5
    <3>3. QED
      BY <3>1, <3>2, <2>5, BeginsSenses, Zenon
  <2>7. QED
    BY <1>3, <1>4, <2>2, <2>5, <2>6
<1>5. CASE s.mode = "address" /\ s.bits = Address
  <2>1. r = [n EXCEPT !.mode = "write"]
    BY <1>1, <1>3, <1>5 DEF B!Acknowledged
  <2>2. /\ r \in Sensors /\ r.mode = "write" /\ r.clocks = 0 /\ r.bits = 0 /\ r.sda = 1 /\ r.scl = 1
        /\ r.work = s.work /\ r.of = s.of /\ r.reading = s.reading
    BY <1>2, <2>1 DEF Sensors, Modes
  <2>3. SensingLow(r)
    <3>1. Reported(r)
      BY <1>0, <2>2 DEF Reported
    <3>2. (r.mode # "read" => r.sda = 1) /\ (r.scl = 0 => r.mode = "read" /\ r.sda = 1 /\ r.work = "measures")
      BY <2>2
    <3>3. QED
      BY <3>1, <3>2, <2>2, BeginsSenses, Zenon
  <2>4. QED
    BY <1>3, <1>5, <2>2, <2>3
<1>6. CASE s.mode = "address" /\ s.bits # Address
  <2>1. PICK q : q = [n EXCEPT !.mode = "read", !.at = 1]
    OBVIOUS
  <2>2. r = B!Offer(q)
    BY <1>1, <1>3, <1>6, <2>1 DEF B!Acknowledged
  <2>3. /\ q \in Sensors /\ q.mode = "read" /\ q.clocks = 0 /\ q.bits = 0 /\ q.sda = 1 /\ q.scl = 1
        /\ q.work = s.work /\ q.of = s.of /\ q.reading = s.reading /\ q.at = 1
    <3>1. 1 \in Nat \ {0} /\ "read" \in Modes
      BY DEF Modes
    <3>2. QED
      BY <1>2, <2>1, <3>1 DEF Sensors
  <2>4. Reported(q)
    BY <1>0, <2>3 DEF Reported
  <2>5. /\ SensingLow(r) /\ r.mode = "read" /\ r.clocks = 0
        /\ r.at = 1 /\ r.work = s.work /\ r.of = s.of /\ r.reading = s.reading
        /\ IF s.work = "measures" THEN r.scl = 0 ELSE r.scl = 1 /\ r.sda = B!Bit(B!Byte(q), 1)
    BY <2>2, <2>3, <2>4, OfferSenses
  <2>6. B!Byte(r) = B!Byte(q) /\ r.bits = 0
    <3>1. B!Byte(r) = B!Byte(q)
      BY <2>3, <2>5, Zenon DEF B!Byte
    <3>2. r.bits = 0
      BY <2>5, Zenon DEF Sensing, SensingLow
    <3>3. QED
      BY <3>1, <3>2
  <2>7. QED
    BY <1>3, <1>6, <2>5, <2>6
<1>7. QED
  BY <1>4, <1>5, <1>6

\* The clocks of a byte: what the sensor drives changes when the clock is down.
LEMMA FallSenses ==
    ASSUME NEW s, Sensing(s), s.scl = 1
    PROVE  SensingLow(B!Fall(s))
<1>0. /\ s \in Sensors /\ Reported(s) /\ s.mode \in Modes /\ s.clocks \in 0 .. ByteBits + 1
      /\ ByteBits \in Nat \ {0}
  BY BusAssumption DEF Sensing, SensingLow, Sensors, Reported
<1>1. CASE s.mode = "idle"
  <2>1. s.clocks = 0 /\ s.bits = 0 /\ s.sda = 1
    BY <1>1, Zenon DEF Sensing, SensingLow
  <2>2. SensingLow(s)
    <3>1. s.mode # "read" => s.sda = 1
      BY <2>1
    <3>2. s.scl = 0 => s.mode = "read" /\ s.sda = 1 /\ s.work = "measures"
      OBVIOUS
    <3>3. QED
      BY <1>0, <2>1, <3>1, <3>2, BeginsSenses, Zenon
  <2>3. QED
    BY <1>1, <2>2, FallIs
<1>2. CASE s.mode \in {"address", "write"} /\ s.clocks < ByteBits
  <2>1. s.clocks <= ByteBits /\ s.clocks # ByteBits /\ s.clocks # ByteBits + 1 /\ s.mode # "read"
    BY <1>0, <1>2
  <2>2. SensingLow(s)
    BY <2>1, Zenon DEF Sensing, SensingLow
  <2>3. QED
    BY <1>2, <2>2, FallIs
<1>3. CASE s.mode \in {"address", "write"} /\ s.clocks = ByteBits
  <2>1. CASE ~B!Acknowledges(s)
    BY <1>0, IdleSenses, <1>3, <2>1, FallIs DEF Reported
  <2>2. CASE B!Acknowledges(s)
    <3>1. PICK r : r = [s EXCEPT !.sda = 0]
      OBVIOUS
    <3>2. /\ r \in Sensors /\ r.mode = s.mode /\ r.clocks = s.clocks /\ r.bits = s.bits /\ r.scl = 1
          /\ r.work = s.work /\ r.of = s.of /\ r.reading = s.reading
      BY <1>0, <3>1 DEF Sensors
    <3>3. s.mode = "write" => s.bits \in Known
      BY <1>3, <2>2 DEF B!Acknowledges, Known
    <3>4. Counted(r) = Counted(s) /\ s.bits < 2 ^ Counted(s)
      BY <3>2, Zenon DEF Counted, Sensing, SensingLow
    <3>5. r.clocks <= ByteBits /\ ~(r.clocks < ByteBits) /\ r.mode # "read" /\ r.mode # "idle" /\ r.scl # 0
      BY <1>0, <1>3, <3>2
    <3>6. r.bits < 2 ^ Counted(r)
      BY <3>2, <3>4
    <3>7. SensingLow(r)
      <4>1. r.mode = "write" => r.bits \in Known
        BY <3>2, <3>3
      <4>2. Reported(r)
        BY <1>0, <3>2 DEF Reported
      <4>3. QED
        BY <3>2, <3>5, <3>6, <4>1, <4>2, Zenon DEF Sensing, SensingLow, Reported
    <3>8. QED
      BY <1>3, <2>2, <3>1, <3>7, FallIs
  <2>3. QED
    BY <2>1, <2>2
<1>4. CASE s.mode \in {"address", "write"} /\ s.clocks = ByteBits + 1
  <2>1. B!Fall(s) = B!Acknowledged(s)
    BY <1>4, FallIs
  <2>2. SensingLow(B!Acknowledged(s))
    BY <1>4, AcknowledgedSenses, Zenon
  <2>3. QED
    BY <2>1, <2>2
<1>5. CASE s.mode = "read" /\ s.clocks = 0
  <2>1. s.bits = 0
    BY <1>5, Zenon DEF Sensing, SensingLow
  <2>2. SensingLow(s)
    <3>1. s.mode # "read" => s.sda = 1
      BY <1>5
    <3>2. s.scl = 0 => s.mode = "read" /\ s.sda = 1 /\ s.work = "measures"
      OBVIOUS
    <3>3. QED
      BY <1>0, <1>5, <2>1, <3>1, <3>2, BeginsSenses, Zenon
  <2>3. QED
    BY <1>5, <2>2, FallIs
<1>6. CASE s.mode = "read" /\ s.clocks \in 1 .. ByteBits
  <2>1. PICK b : b = IF s.clocks = ByteBits THEN 1 ELSE B!Bit(B!Byte(s), s.clocks + 1)
    OBVIOUS
  <2>2. b \in 0..1
    <3>1. CASE s.clocks = ByteBits
      BY <2>1, <3>1
    <3>2. CASE s.clocks # ByteBits
      BY <1>0, <1>6, <3>2, <2>1, ByteIsByte, BitIsBit
    <3>3. QED
      BY <3>1, <3>2
  <2>3. PICK r : r = [s EXCEPT !.sda = b]
    OBVIOUS
  <2>4. B!Fall(s) = r
    <3>1. CASE s.clocks = ByteBits
      BY <1>6, <2>1, <2>3, <3>1, FallIs
    <3>2. CASE s.clocks # ByteBits
      <4>1. s.clocks \in 1 .. ByteBits - 1
        BY <1>0, <1>6, <3>2
      <4>2. QED
        BY <1>6, <2>1, <2>3, <3>2, <4>1, FallIs
    <3>3. QED
      BY <3>1, <3>2
  <2>5. /\ r \in Sensors /\ r.mode = "read" /\ r.clocks = s.clocks /\ r.bits = s.bits /\ r.scl = 1 /\ r.sda = b
        /\ r.work = s.work /\ r.of = s.of /\ r.reading = s.reading
    BY <1>0, <1>6, <2>2, <2>3 DEF Sensors
  <2>6. Counted(r) = Counted(s) /\ s.bits < 2 ^ Counted(s) /\ s.bits = 0
    BY <1>6, <2>5, Zenon DEF Counted, Sensing, SensingLow
  <2>7. /\ r.clocks <= ByteBits /\ r.mode \notin {"address", "write"} /\ r.mode # "idle" /\ r.mode # "write"
        /\ r.scl # 0 /\ (r.clocks = ByteBits => r.sda = 1) /\ r.bits = 0
    BY <1>0, <1>6, <2>1, <2>5, <2>6
  <2>8. r.bits < 2 ^ Counted(r) /\ Reported(r)
    BY <1>0, <2>5, <2>6 DEF Reported
  <2>9. SensingLow(r)
    BY <2>5, <2>7, <2>8, Zenon DEF Sensing, SensingLow, Reported
  <2>10. QED
    BY <2>4, <2>9
<1>7. CASE s.mode = "read" /\ s.clocks = ByteBits + 1
  <2>1. SensingLow(B!Idle(s))
    BY <1>0, IdleSenses DEF Reported
  <2>2. PICK q : q = [s EXCEPT !.clocks = 0, !.at = s.at + 1]
    OBVIOUS
  <2>3. s.bits = 0
    BY <1>7, Zenon DEF Sensing, SensingLow
  <2>4. 0 \in 0 .. ByteBits + 1 /\ s.at + 1 \in Nat \ {0}
    BY <1>0 DEF Sensors
  <2>5. /\ q \in Sensors /\ q.mode = "read" /\ q.clocks = 0 /\ q.bits = 0 /\ q.scl = 1
        /\ q.work = s.work /\ q.of = s.of /\ q.reading = s.reading
    BY <1>0, <1>7, <2>2, <2>3, <2>4 DEF Sensors
  <2>6. Reported(q)
    BY <1>0, <2>5 DEF Reported
  <2>7. SensingLow(B!Offer(q))
    BY <2>5, <2>6, OfferSenses
  <2>8. QED
    BY <1>7, <2>1, <2>2, <2>7, FallIs
<1>8. QED
  <2>1. s.mode \in {"address", "write"} \/ s.mode = "idle" \/ s.mode = "read"
    BY <1>0 DEF Modes
  <2>2. /\ s.clocks < ByteBits \/ s.clocks = ByteBits \/ s.clocks = ByteBits + 1
        /\ s.clocks = 0 \/ s.clocks \in 1 .. ByteBits \/ s.clocks = ByteBits + 1
    BY <1>0
  <2>3. QED
    BY <1>1, <1>2, <1>3, <1>4, <1>5, <1>6, <1>7, <2>1, <2>2, Zenon

\* The levels of the two lines, as the master has them.
Levels == [sda : 0..1, scl : 0..1]

LEMMA LinesAre ==
    ASSUME NEW o \in Levels, NEW s, s.sda \in 0..1, s.scl \in 0..1
    PROVE  /\ s.scl = 0 => B!Lines(o, s).scl = 0
           /\ s.scl = 1 => B!Lines(o, s).scl = o.scl
           /\ s.sda = 0 => B!Lines(o, s).sda = 0
           /\ s.sda = 1 => B!Lines(o, s).sda = o.sda
           /\ B!Lines(o, s).sda \in 0..1 /\ B!Lines(o, s).scl \in 0..1
<1>1. PICK a, c, d, e : a = o.sda /\ c = o.scl /\ d = s.sda /\ e = s.scl
  OBVIOUS
<1>2. a \in 0..1 /\ c \in 0..1 /\ d \in 0..1 /\ e \in 0..1
  BY <1>1 DEF Levels
<1>3. B!Lines(o, s).sda = a * d /\ B!Lines(o, s).scl = c * e
  BY <1>1 DEF B!Lines
<1>4. /\ d = 0 => a * d = 0
      /\ d = 1 => a * d = a
      /\ e = 0 => c * e = 0
      /\ e = 1 => c * e = c
  BY <1>2
<1>5. a * d \in 0..1 /\ c * e \in 0..1
  BY <1>2, <1>4
<1>6. QED
  BY <1>1, <1>3, <1>4, <1>5

\* What the sensor makes of a step of the master.
Edge(s, o, p, r) ==
    /\ s.scl = 0 => r = s
    /\ s.scl = 1 /\ o.scl = 1 /\ p.scl = 0 => r = B!Fall(s) /\ Sensing(s)
    /\ s.scl = 1 /\ o.scl = 0 /\ p.scl = 1 => r = B!Rise(s, B!Lines(p, s).sda) /\ SensingLow(s)
    /\ s.scl = 1 /\ o.scl = 1 /\ p.scl = 1 /\ s.sda = 1 /\ o.sda = 1 /\ p.sda = 0 =>
         r = [B!Idle(s) EXCEPT !.mode = "address"]
    /\ s.scl = 1 /\ o.scl = 1 /\ p.scl = 1 /\ s.sda = 1 /\ o.sda = 0 /\ p.sda = 1 => r = B!Idle(s)
    /\ o.scl = 0 /\ p.scl = 0 => r = s
    /\ o.scl = 1 /\ p.scl = 1 /\ (s.sda = 0 \/ o.sda = p.sda) => r = s

LEMMA Edges ==
    ASSUME NEW o \in Levels, NEW p \in Levels, NEW s, NEW r,
           Sensing(s), B!Lines(o, s).scl = 0 => SensingLow(s), r = B!Follow(s, B!Lines(o, s), B!Lines(p, s))
    PROVE  Edge(s, o, p, r)
<1>1. PICK u, v : u = B!Lines(o, s) /\ v = B!Lines(p, s) /\ r = B!Follow(s, u, v)
  OBVIOUS
<1>2. s \in Sensors /\ s.sda \in 0..1 /\ s.scl \in 0..1
  BY DEF Sensing, SensingLow, Sensors
<1>3. /\ s.scl = 0 => u.scl = 0 /\ v.scl = 0
      /\ s.scl = 1 => u.scl = o.scl /\ v.scl = p.scl
      /\ s.sda = 0 => u.sda = 0 /\ v.sda = 0
      /\ s.sda = 1 => u.sda = o.sda /\ v.sda = p.sda
      /\ u.sda \in 0..1 /\ u.scl \in 0..1 /\ v.sda \in 0..1 /\ v.scl \in 0..1
  BY <1>1, <1>2, LinesAre
<1>4. o.sda \in 0..1 /\ o.scl \in 0..1 /\ p.sda \in 0..1 /\ p.scl \in 0..1
  BY DEF Levels
<1>5. u.scl = v.scl /\ (u.scl = 0 \/ u.sda = v.sda) => r = s
  <2> SUFFICES ASSUME u.scl = v.scl, u.scl = 0 \/ u.sda = v.sda PROVE r = s
    OBVIOUS
  <2>1. /\ ~(u.scl = 1 /\ v.scl = 1 /\ u.sda > v.sda) /\ ~(u.scl = 1 /\ v.scl = 1 /\ u.sda < v.sda)
        /\ ~(u.scl < v.scl) /\ ~(u.scl > v.scl)
    BY <1>3
  <2>2. QED
    BY <1>1, <2>1 DEF B!Follow
<1>6. u.scl = 1 /\ v.scl = 0 => r = B!Fall(s)
  BY <1>1, <1>3 DEF B!Follow
<1>7. u.scl = 0 /\ v.scl = 1 => r = B!Rise(s, v.sda)
  BY <1>1, <1>3 DEF B!Follow
<1>8. u.scl = 1 /\ v.scl = 1 /\ u.sda = 1 /\ v.sda = 0 => r = [B!Idle(s) EXCEPT !.mode = "address"]
  BY <1>1, <1>3 DEF B!Follow
<1>9. u.scl = 1 /\ v.scl = 1 /\ u.sda = 0 /\ v.sda = 1 => r = B!Idle(s)
  BY <1>1, <1>3 DEF B!Follow
<1>10. /\ u.scl = 0 => SensingLow(s)
       /\ u.scl # 0 => Sensing(s)
  BY <1>1
<1>11. QED
  <2>1. /\ s.scl = 0 => r = s
        /\ o.scl = 0 /\ p.scl = 0 => r = s
        /\ o.scl = 1 /\ p.scl = 1 /\ (s.sda = 0 \/ o.sda = p.sda) => r = s
    BY <1>2, <1>3, <1>4, <1>5
  <2>2. s.scl = 1 /\ o.scl = 1 /\ p.scl = 0 => r = B!Fall(s) /\ Sensing(s)
    BY <1>3, <1>6, <1>10
  <2>3. s.scl = 1 /\ o.scl = 0 /\ p.scl = 1 => r = B!Rise(s, B!Lines(p, s).sda) /\ SensingLow(s)
    BY <1>1, <1>3, <1>7, <1>10
  <2>4. s.scl = 1 /\ o.scl = 1 /\ p.scl = 1 /\ s.sda = 1 /\ o.sda = 1 /\ p.sda = 0 =>
          r = [B!Idle(s) EXCEPT !.mode = "address"]
    BY <1>3, <1>8
  <2>5. s.scl = 1 /\ o.scl = 1 /\ p.scl = 1 /\ s.sda = 1 /\ o.sda = 0 /\ p.sda = 1 => r = B!Idle(s)
    BY <1>3, <1>9
  <2>6. QED
    BY <2>1, <2>2, <2>3, <2>4, <2>5, Zenon DEF Edge

LEMMA FollowSenses ==
    ASSUME NEW o \in Levels, NEW p \in Levels, NEW s, NEW r,
           Sensing(s), B!Lines(o, s).scl = 0 => SensingLow(s), Edge(s, o, p, r)
    PROVE  Sensing(r) /\ (B!Lines(p, r).scl = 0 => SensingLow(r))
<1>2. /\ s \in Sensors /\ s.sda \in 0..1 /\ s.scl \in 0..1 /\ Reported(s)
      /\ o.sda \in 0..1 /\ o.scl \in 0..1 /\ p.sda \in 0..1 /\ p.scl \in 0..1
  BY DEF Sensing, Sensors, Reported, Levels
<1>e. /\ s.scl = 0 => r = s
      /\ s.scl = 1 /\ o.scl = 1 /\ p.scl = 0 => r = B!Fall(s)
      /\ s.scl = 1 /\ o.scl = 0 /\ p.scl = 1 => r = B!Rise(s, B!Lines(p, s).sda) /\ SensingLow(s)
      /\ s.scl = 1 /\ o.scl = 1 /\ p.scl = 1 /\ s.sda = 1 /\ o.sda = 1 /\ p.sda = 0 =>
             r = [B!Idle(s) EXCEPT !.mode = "address"]
      /\ s.scl = 1 /\ o.scl = 1 /\ p.scl = 1 /\ s.sda = 1 /\ o.sda = 0 /\ p.sda = 1 => r = B!Idle(s)
      /\ o.scl = 0 /\ p.scl = 0 => r = s
      /\ o.scl = 1 /\ p.scl = 1 /\ (s.sda = 0 \/ o.sda = p.sda) => r = s
  BY Zenon DEF Edge
<1>l. /\ s.scl = 0 => B!Lines(o, s).scl = 0
      /\ s.scl = 1 => B!Lines(o, s).scl = o.scl /\ B!Lines(p, s).scl = p.scl
      /\ B!Lines(p, s).sda \in 0..1
      /\ s.scl = 0 => B!Lines(p, s).scl = 0
  BY <1>2, LinesAre
<1>3. CASE s.scl = 0
  BY <1>3, <1>e, <1>l
<1>4. CASE s.scl = 1 /\ o.scl = 1 /\ p.scl = 0
  BY <1>4, <1>e, FallSenses, Weaker, Zenon
<1>5. CASE s.scl = 1 /\ o.scl = 0 /\ p.scl = 1
  <2>1. Sensing(r) /\ r.scl = 1
    <3>1. PICK d \in 0..1 : d = B!Lines(p, s).sda
      BY <1>l
    <3>2. SensingLow(s) /\ r = B!Rise(s, d) /\ s.scl = 1
      BY <1>5, <1>e, <3>1
    <3>3. QED
      BY <3>2, RiseSenses
  <2>2. r \in Sensors /\ r.sda \in 0..1 /\ r.scl \in 0..1
    BY <2>1 DEF Sensing, SensingLow, Sensors
  <2>3. B!Lines(p, r).scl = 1
    BY <1>5, <2>1, <2>2, LinesAre
  <2>4. QED
    BY <2>1, <2>3
<1>6. CASE s.scl = 1 /\ o.scl = 0 /\ p.scl = 0
  BY <1>6, <1>e, <1>l
<1>7. CASE s.scl = 1 /\ o.scl = 1 /\ p.scl = 1 /\ (s.sda = 0 \/ o.sda = p.sda)
  BY <1>7, <1>e, <1>l
<1>8. CASE s.scl = 1 /\ o.scl = 1 /\ p.scl = 1 /\ s.sda = 1 /\ o.sda # p.sda
  <2>1. SensingLow(B!Idle(s)) /\ SensingLow([B!Idle(s) EXCEPT !.mode = "address"])
    BY <1>2, <1>8, IdleSenses DEF Reported
  <2>2. r = B!Idle(s) \/ r = [B!Idle(s) EXCEPT !.mode = "address"]
    BY <1>2, <1>8, <1>e
  <2>3. QED
    BY <2>1, <2>2, Weaker
<1>9. QED
  BY <1>2, <1>3, <1>4, <1>5, <1>6, <1>7, <1>8

\* The sensor is done.
Finishes(s, r, o) ==
    IF s.scl = 1 THEN [s EXCEPT !.work = "done", !.reading = r]
    ELSE [s EXCEPT !.work = "done", !.reading = r, !.scl = 1, !.sda = B!Bit(r[1], 1), !.clocks = o.scl]

LEMMA ReadySenses ==
    ASSUME NEW o \in Levels, NEW s, NEW r, NEW t,
           Sensing(s), B!Lines(o, s).scl = 0 => SensingLow(s), s.work = "measures", r \in Readings[s.of],
           t = Finishes(s, r, o)
    PROVE  Sensing(t) /\ (B!Lines(o, t).scl = 0 => SensingLow(t))
<1>1. PICK b : b = B!Bit(r[1], 1)
  OBVIOUS
<1>2. t = IF s.scl = 1 THEN [s EXCEPT !.work = "done", !.reading = r]
          ELSE [s EXCEPT !.work = "done", !.reading = r, !.scl = 1, !.sda = b, !.clocks = o.scl]
  BY <1>1 DEF Finishes
<1>3. /\ s \in Sensors /\ s.sda \in 0..1 /\ s.scl \in 0..1 /\ s.of \in Commands
      /\ o.sda \in 0..1 /\ o.scl \in 0..1 /\ ByteBits \in Nat \ {0}
  BY BusAssumption DEF Sensing, SensingLow, Sensors, Levels
<1>4. r \in Seq(B!ByteValues) /\ Len(r) >= 2
  BY <1>3, BusAssumption DEF B!Length
<1>5. b \in 0..1
  <2>1. 1 \in 1 .. Len(r)
    BY <1>4, LenProperties
  <2>2. r[1] \in B!ByteValues
    BY <1>4, <2>1, ElementOfSeq
  <2>3. r[1] \in Nat
    BY <2>2 DEF B!ByteValues
  <2>4. 1 \in 1 .. ByteBits
    BY <1>3
  <2>5. QED
    BY <1>1, <2>3, <2>4, BitIsBit
<1>6. CASE s.scl = 1
  <2>1. t = [s EXCEPT !.work = "done", !.reading = r]
    BY <1>2, <1>6
  <2>2. /\ t \in Sensors /\ t.mode = s.mode /\ t.clocks = s.clocks /\ t.bits = s.bits /\ t.scl = 1 /\ t.sda = s.sda
        /\ t.work = "done" /\ t.of = s.of /\ t.reading = r
    BY <1>3, <1>4, <1>6, <2>1 DEF Sensors, Works
  <2>3. Counted(t) = Counted(s)
    BY <2>2 DEF Counted
  <2>4. B!Lines(o, t) = B!Lines(o, s)
    BY <1>6, <2>2 DEF B!Lines
  <2>5. t.scl # 0
    BY <2>2
  <2>6. Sensing(s) => Sensing(t)
    BY <1>3, <2>2, <2>3, <2>5 DEF Sensing, SensingLow
  <2>7. SensingLow(s) => SensingLow(t)
    BY <1>3, <2>2, <2>3, <2>5 DEF Sensing, SensingLow
  <2>8. QED
    BY <2>4, <2>6, <2>7
<1>7. CASE s.scl = 0
  <2>1. t = [s EXCEPT !.work = "done", !.reading = r, !.scl = 1, !.sda = b, !.clocks = o.scl]
    BY <1>2, <1>7
  <2>2. s.mode = "read" /\ s.bits = 0
    BY <1>7 DEF Sensing, SensingLow
  <2>3. o.scl \in 0 .. ByteBits + 1
    BY <1>3
  <2>4. /\ t \in Sensors /\ t.mode = "read" /\ t.clocks = o.scl /\ t.bits = 0 /\ t.scl = 1 /\ t.sda = b
        /\ t.work = "done" /\ t.of = s.of /\ t.reading = r
    <3>1. "done" \in Works /\ 1 \in 0..1
      BY DEF Works
    <3>2. QED
      BY <1>3, <1>4, <1>5, <2>1, <2>2, <2>3, <3>1 DEF Sensors
  <2>5. B!Lines(o, t).scl = o.scl
    BY <1>5, <2>4, LinesAre
  <2>6. Counted(t) \in Nat
    BY <1>3, <2>4 DEF Counted
  <2>7. t.bits < 2 ^ Counted(t)
    BY <2>4, <2>6, PowerFacts
  <2>8. /\ t.mode # "idle" /\ t.mode \notin {"address", "write"} /\ t.mode # "write" /\ t.scl # 0
        /\ t.clocks <= ByteBits /\ (o.scl = 0 => t.clocks # ByteBits)
    BY <1>3, <2>4
  <2>9. Reported(t)
    BY <1>3, <2>4 DEF Reported
  <2>10. Sensing(t)
    BY <2>4, <2>7, <2>8, <2>9, Zenon DEF Sensing, SensingLow, Reported
  <2>11. o.scl = 0 => SensingLow(t)
    BY <2>4, <2>7, <2>8, <2>9, Zenon DEF Sensing, SensingLow, Reported
  <2>12. QED
    BY <2>5, <2>10, <2>11
<1>8. QED
  BY <1>3, <1>6, <1>7

\* A sensor that has not been spoken to.
LEMMA NewSenses == SensingLow(B!NewSensor) /\ Sensing(B!NewSensor) /\ B!NewSensor.sda = 1 /\ B!NewSensor.scl = 1
<1>1. /\ 0 \in 0 .. ByteBits + 1 /\ 0 \in Nat /\ 0 \in 0..1 /\ 1 \in 0..1 /\ 1 \in Nat \ {0}
      /\ "idle" \in Modes /\ "none" \in Works /\ ResetCommand \in Known /\ <<>> \in Seq(B!ByteValues)
      /\ 0 <= ByteBits /\ 0 # ByteBits
  BY BusAssumption DEF Modes, Works, Known
<1>2. PICK s : s = B!NewSensor
  OBVIOUS
<1>3. /\ s \in Sensors /\ s.mode = "idle" /\ s.clocks = 0 /\ s.bits = 0 /\ s.sda = 1 /\ s.scl = 1 /\ s.work = "none"
  BY <1>1, <1>2 DEF B!NewSensor, Sensors
<1>4. (s.mode # "read" => s.sda = 1) /\ (s.scl = 0 => s.mode = "read" /\ s.sda = 1 /\ s.work = "measures")
  BY <1>3
<1>5. Reported(s)
  BY <1>3 DEF Reported
<1>6. SensingLow(s)
  BY <1>3, <1>4, <1>5, BeginsSenses, Zenon
<1>7. QED
  BY <1>2, <1>3, <1>6, Weaker

\* The jobs of a reading: the set-up comes first, and is not taken for a command.
LEMMA JobFacts ==
    /\ B!Setup \notin Commands /\ B!Discard \notin Commands /\ B!Setup # B!Discard
    /\ <<>> \in JobLists /\ <<B!Setup>> \in JobLists
    /\ \A c \in Commands : <<c>> \in JobLists /\ <<B!Setup, B!Discard, c>> \in JobLists
    /\ \A j \in JobLists :
          /\ j \in Seq(Commands \union {B!Setup, B!Discard})
          /\ j # <<>> =>
                /\ Tail(j) \in JobLists
                /\ Tail(j) # <<>> => Head(Tail(j)) # B!Setup
                /\ Head(j) = B!Discard => j[2] \in Commands /\ Tail(j) # <<>>
                /\ Head(j) \in Commands \union {B!Setup, B!Discard}
                /\ Head(j) \in Commands => Tail(j) = <<>>
<1>1. B!Setup = -1 /\ B!Discard = -2 /\ \A c \in Commands : c \in Nat
  <2>1. PICK p \in Nat \ {0} : p = 2 ^ ByteBits
    BY PowerFacts, BusAssumption
  <2>2. \A c \in B!ByteValues : c \in Nat
    BY <2>1 DEF B!ByteValues
  <2>3. QED
    BY <2>2, BusAssumption DEF B!Setup, B!Discard
<1>2. B!Setup \notin Commands /\ B!Discard \notin Commands /\ B!Setup # B!Discard
  BY <1>1
<1>3. /\ <<>> \in JobLists /\ <<B!Setup>> \in JobLists
      /\ \A c \in Commands : <<c>> \in JobLists /\ <<B!Discard, c>> \in JobLists /\ <<B!Setup, B!Discard, c>> \in JobLists
  BY DEF JobLists
<1>4. ASSUME NEW j \in JobLists
      PROVE  /\ j \in Seq(Commands \union {B!Setup, B!Discard})
             /\ j # <<>> =>
                  /\ Tail(j) \in JobLists
                  /\ Tail(j) # <<>> => Head(Tail(j)) # B!Setup
                  /\ Head(j) = B!Discard => j[2] \in Commands /\ Tail(j) # <<>>
                  /\ Head(j) \in Commands \union {B!Setup, B!Discard}
                  /\ Head(j) \in Commands => Tail(j) = <<>>
  <2>1. CASE j = <<>>
    BY <2>1
  <2>2. CASE j = <<B!Setup>>
    <3>1. Head(j) = B!Setup /\ Tail(j) = <<>>
      BY <2>2
    <3>2. j \in Seq(Commands \union {B!Setup, B!Discard})
      BY <2>2
    <3>3. QED
      BY <1>2, <1>3, <3>1, <3>2
  <2>3. CASE \E c \in Commands : j = <<c>>
    <3>1. PICK c \in Commands : j = <<c>>
      BY <2>3
    <3>2. Head(j) = c /\ Tail(j) = <<>>
      BY <3>1
    <3>3. j \in Seq(Commands \union {B!Setup, B!Discard})
      BY <3>1
    <3>4. QED
      BY <1>2, <1>3, <3>2, <3>3
  <2>4. CASE \E c \in Commands : j = <<B!Discard, c>>
    <3>1. PICK c \in Commands : j = <<B!Discard, c>>
      BY <2>4
    <3>2. Head(j) = B!Discard /\ Tail(j) = <<c>> /\ j[2] = c
      BY <3>1
    <3>3. j \in Seq(Commands \union {B!Setup, B!Discard})
      BY <3>1
    <3>4. Head(<<c>>) = c /\ Tail(j) # <<>>
      BY <3>2
    <3>5. Tail(j) \in JobLists
      BY <1>3, <3>2
    <3>6. Head(Tail(j)) # B!Setup /\ Head(j) \in Commands \union {B!Setup, B!Discard}
      BY <1>2, <3>2, <3>4
    <3>7. j[2] \in Commands /\ Head(j) \notin Commands
      BY <1>2, <3>2
    <3>8. QED
      BY <3>3, <3>4, <3>5, <3>6, <3>7
  <2>5. CASE \E c \in Commands : j = <<B!Setup, B!Discard, c>>
    <3>1. PICK c \in Commands : j = <<B!Setup, B!Discard, c>>
      BY <2>5
    <3>2. Head(j) = B!Setup /\ Tail(j) = <<B!Discard, c>>
      BY <3>1
    <3>3. j \in Seq(Commands \union {B!Setup, B!Discard})
      BY <3>1
    <3>4. Head(<<B!Discard, c>>) = B!Discard
      OBVIOUS
    <3>5. Tail(j) \in JobLists
      BY <1>3, <3>2
    <3>6. Head(Tail(j)) # B!Setup /\ Head(j) \in Commands \union {B!Setup, B!Discard}
      BY <1>2, <3>2, <3>4
    <3>7. Head(j) # B!Discard /\ Head(j) \notin Commands
      BY <1>2, <3>2
    <3>8. QED
      BY <3>3, <3>5, <3>6, <3>7
  <2>6. QED
    BY <2>1, <2>2, <2>3, <2>4, <2>5 DEF JobLists
<1>5. QED
  BY <1>2, <1>3, <1>4, Zenon

LEMMA CommandIsKnown ==
    ASSUME MasterTyped, jobs # <<>>
    PROVE  /\ B!Command \in Known /\ B!Command \in Nat
           /\ Head(jobs) = B!Setup => B!Command = ResetCommand
           /\ Head(jobs) # B!Setup => B!Command \in Commands /\ B!Command # ResetCommand
<1>1. PICK p \in Nat \ {0} : p = 2 ^ ByteBits
  BY PowerFacts, BusAssumption
<1>2. \A c \in Known : c \in Nat
  BY <1>1, BusAssumption DEF B!ByteValues, Known
<1>3. jobs \in JobLists
  BY DEF MasterTyped
<1>4. /\ Head(jobs) \in Commands \union {B!Setup, B!Discard} /\ (Head(jobs) = B!Discard => jobs[2] \in Commands)
      /\ B!Setup \notin Commands /\ B!Discard \notin Commands /\ B!Setup # B!Discard
  BY <1>3, JobFacts
<1>5. CASE Head(jobs) = B!Setup
  BY <1>4, <1>5, <1>2 DEF B!Command, Known
<1>6. CASE Head(jobs) = B!Discard
  BY <1>4, <1>6, <1>2, BusAssumption DEF B!Command, Known
<1>7. CASE Head(jobs) \in Commands
  BY <1>4, <1>7, <1>2, BusAssumption DEF B!Command, Known
<1>8. QED
  BY <1>4, <1>5, <1>6, <1>7

\* A step on the lines.
After(o, a, c) == [sda |-> IF a = 2 THEN o.sda ELSE a, scl |-> IF c = 2 THEN o.scl ELSE c]

\* What all of them have in common.
Stepped ==
    /\ todo \in Seq(BusOps) /\ todo # <<>> /\ Head(todo) \in BusOps
    /\ todo' = Tail(todo) /\ todo' \in Seq(BusOps)
    /\ UNCHANGED <<busPc, jobs, timeout, values, inited, answer, kind>>
    /\ spoilt' = (spoilt \/ (busPc = "setup" /\ sensor'.scl = 0))

SetStepped(a, c) ==
    /\ lines' = After(lines, a, c) /\ lines' \in Levels /\ heard' = heard
    /\ kind = "none" => sensor' = sensor
    /\ kind # "none" => Edge(sensor, lines, lines', sensor')

LEMMA DriveSteps ==
    ASSUME MasterTyped, SensorTyped, B!Drive
    PROVE  /\ Stepped
           /\ \A a, c \in 0..2 : Head(todo) = B!Set(a, c) => SetStepped(a, c)
           /\ Head(todo) = B!Sample =>
                lines' = lines /\ sensor' = sensor /\ heard' = (2 * heard + B!Lines(lines, sensor).sda) % 2 ^ ByteBits
           /\ Head(todo) = B!Stretch => lines' = lines /\ sensor' = sensor /\ heard' = heard /\ B!Lines(lines, sensor).scl = 1
<1>1. /\ todo \in Seq(BusOps) /\ todo # <<>> /\ todo' = Tail(todo)
      /\ UNCHANGED <<busPc, jobs, timeout, values, inited, answer, kind>>
      /\ spoilt' = (spoilt \/ (busPc = "setup" /\ sensor'.scl = 0))
  BY DEF B!Drive, MasterTyped
<1>2. Head(todo) \in BusOps /\ Tail(todo) \in Seq(BusOps)
  BY <1>1
<1>3. Stepped
  BY <1>1, <1>2, Zenon DEF Stepped
<1>4. ASSUME NEW a \in 0..2, NEW c \in 0..2, Head(todo) = B!Set(a, c) PROVE SetStepped(a, c)
  <2>1. Head(todo).op = "set" /\ Head(todo).sda = a /\ Head(todo).scl = c
    BY <1>4 DEF B!Set
  <2>2. /\ lines' = After(lines, a, c) /\ heard' = heard
        /\ sensor' = IF kind # "none" THEN B!Follow(sensor, B!Lines(lines, sensor), B!Lines(lines', sensor)) ELSE sensor
    BY <2>1 DEF B!Drive, After, B!Kept
  <2>3. lines \in Levels
    BY DEF MasterTyped, Levels
  <2>4. lines' \in Levels
    BY <2>2, <2>3 DEF After, Levels
  <2>5. kind # "none" => Edge(sensor, lines, lines', sensor')
    <3> SUFFICES ASSUME kind # "none" PROVE Edge(sensor, lines, lines', sensor')
      OBVIOUS
    <3>1. sensor' = B!Follow(sensor, B!Lines(lines, sensor), B!Lines(lines', sensor))
      BY <2>2
    <3>2. Sensing(sensor) /\ (B!Lines(lines, sensor).scl = 0 => SensingLow(sensor))
      BY DEF SensorTyped
    <3>3. QED
      BY <2>3, <2>4, <3>1, <3>2, Edges, Zenon
  <2>6. QED
    BY <2>2, <2>4, <2>5 DEF SetStepped
<1>5. Head(todo) = B!Sample =>
        lines' = lines /\ sensor' = sensor /\ heard' = (2 * heard + B!Lines(lines, sensor).sda) % 2 ^ ByteBits
  <2> SUFFICES ASSUME Head(todo) = B!Sample
               PROVE  lines' = lines /\ sensor' = sensor /\ heard' = (2 * heard + B!Lines(lines, sensor).sda) % 2 ^ ByteBits
    OBVIOUS
  <2>1. Head(todo).op = "sample"
    BY DEF B!Sample
  <2>2. QED
    BY <2>1 DEF B!Drive
<1>6. Head(todo) = B!Stretch => lines' = lines /\ sensor' = sensor /\ heard' = heard /\ B!Lines(lines, sensor).scl = 1
  <2> SUFFICES ASSUME Head(todo) = B!Stretch
               PROVE  lines' = lines /\ sensor' = sensor /\ heard' = heard /\ B!Lines(lines, sensor).scl = 1
    OBVIOUS
  <2>1. Head(todo).op = "stretch"
    BY DEF B!Stretch
  <2>2. QED
    BY <2>1 DEF B!Drive
<1>7. QED
  BY <1>3, <1>4, <1>5, <1>6, Zenon

\* The sequences of the master.
LEMMA OpsTyped ==
    /\ B!i2c_master_gpio_init \in Seq(BusOps) /\ B!i2c_master_stop \in Seq(BusOps)
    /\ B!i2c_master_readByte \in Seq(BusOps) /\ <<>> \in Seq(BusOps)
    /\ B!Addressed(Address) \in Seq(BusOps) /\ B!i2c_master_stop \o B!Addressed(Address + 1) \in Seq(BusOps)
    /\ \A x \in 0..1 : B!i2c_master_setAck(x) \o <<B!Set(1, 0)>> \in Seq(BusOps)
    /\ \A x \in Nat : B!i2c_master_writeByte(x) \o B!i2c_master_getAck \in Seq(BusOps)
    /\ Address \in Nat /\ Address + 1 \in Nat
<1>1. PICK p \in Nat \ {0} : p = 2 ^ ByteBits
  BY PowerFacts, BusAssumption
<1>2. Address \in Nat /\ Address + 1 \in Nat
  BY <1>1, BusAssumption DEF B!ByteValues
<1>3. B!Addressed(Address) \in Seq(BusOps) /\ B!i2c_master_stop \o B!Addressed(Address + 1) \in Seq(BusOps)
  BY <1>2, AddressedOps, AgainOps
<1>4. \A x \in 0..1 : B!i2c_master_setAck(x) \o <<B!Set(1, 0)>> \in Seq(BusOps)
  BY SetAckOps
<1>5. \A x \in Nat : B!i2c_master_writeByte(x) \o B!i2c_master_getAck \in Seq(BusOps)
  BY CommandOps
<1>6. <<>> \in Seq(BusOps)
  OBVIOUS
<1>7. QED
  BY <1>2, <1>3, <1>4, <1>5, <1>6, SetupOps, StopOps, ReadOps, Zenon

\* What is heard is a byte.
LEMMA HeardIsByte ==
    /\ 0 \in B!ByteValues
    /\ \A x \in Nat : x % 2 ^ ByteBits \in B!ByteValues
    /\ B!ByteValues \subseteq Nat
<1>1. PICK p \in Nat \ {0} : p = 2 ^ ByteBits
  BY PowerFacts, BusAssumption
<1>2. B!ByteValues = 0 .. p - 1
  BY <1>1 DEF B!ByteValues
<1>3. \A x \in Nat : x % p \in 0 .. p - 1
  BY SMTT(30)
<1>4. QED
  BY <1>1, <1>2, <1>3, SMTT(30)

LEMMA DriveTyped == ASSUME MasterTyped, SensorTyped, B!Drive PROVE MasterTyped' /\ SensorTyped'
<1>1. /\ Stepped
      /\ \A a, c \in 0..2 : Head(todo) = B!Set(a, c) => SetStepped(a, c)
      /\ Head(todo) = B!Sample =>
           lines' = lines /\ sensor' = sensor /\ heard' = (2 * heard + B!Lines(lines, sensor).sda) % 2 ^ ByteBits
      /\ Head(todo) = B!Stretch => lines' = lines /\ sensor' = sensor /\ heard' = heard
  BY DriveSteps, Zenon
<1>2. /\ todo # <<>> /\ Head(todo) \in BusOps /\ todo' \in Seq(BusOps)
      /\ UNCHANGED <<busPc, jobs, timeout, values, inited, answer, kind>>
      /\ spoilt' = (spoilt \/ (busPc = "setup" /\ sensor'.scl = 0))
  BY <1>1 DEF Stepped
<1>3. spoilt' \in BOOLEAN /\ busPc \notin {"boot", "idle"}
  BY <1>2 DEF MasterTyped
<1>4. ASSUME lines' \in Levels, heard' \in B!ByteValues PROVE MasterTyped'
  BY <1>4, <1>2, <1>3 DEF Levels, MasterTyped
<1>5. /\ lines \in Levels /\ heard \in B!ByteValues /\ Sensing(sensor)
      /\ B!Lines(lines, sensor).scl = 0 => SensingLow(sensor)
      /\ kind = "none" => sensor = B!NewSensor
  BY DEF MasterTyped, SensorTyped, Levels
<1>6. CASE \E a, c \in 0..2 : Head(todo) = B!Set(a, c)
  <2>1. PICK a \in 0..2, c \in 0..2 : SetStepped(a, c)
    BY <1>1, <1>6
  <2>2. /\ lines' \in Levels /\ heard' = heard /\ (kind = "none" => sensor' = sensor)
        /\ (kind # "none" => Edge(sensor, lines, lines', sensor'))
    BY <2>1 DEF SetStepped
  <2>3. MasterTyped'
    BY <1>4, <1>5, <2>2
  <2>4. CASE kind # "none"
    BY <1>5, <2>2, <2>4, FollowSenses, <1>2, <2>3, Zenon DEF SensorTyped
  <2>5. CASE kind = "none"
    <3>1. sensor' = B!NewSensor /\ sensor = B!NewSensor
      BY <1>5, <2>2, <2>5
    <3>2. SensingLow(B!NewSensor) /\ Sensing(B!NewSensor)
      BY NewSenses
    <3>3. QED
      BY <1>2, <2>3, <2>5, <3>1, <3>2 DEF SensorTyped
  <2>6. QED
    BY <2>4, <2>5
<1>7. CASE Head(todo) = B!Sample
  <2>1. B!Lines(lines, sensor).sda \in Nat /\ heard \in Nat
    <3>1. sensor.sda \in 0..1 /\ sensor.scl \in 0..1
      BY <1>5 DEF Sensing, Sensors
    <3>2. B!Lines(lines, sensor).sda \in 0..1
      BY <1>5, <3>1, LinesAre, Zenon
    <3>3. QED
      BY <1>5, <3>2, HeardIsByte
  <2>2. 2 * heard + B!Lines(lines, sensor).sda \in Nat
    BY <2>1
  <2>3. heard' \in B!ByteValues
    BY <1>1, <1>7, <2>2, HeardIsByte
  <2>4. lines' = lines /\ sensor' = sensor /\ kind' = kind
    BY <1>1, <1>2, <1>7
  <2>5. MasterTyped'
    BY <1>4, <1>5, <2>3, <2>4
  <2>6. QED
    BY <1>5, <2>4, <2>5 DEF SensorTyped
<1>8. CASE Head(todo) = B!Stretch
  <2>1. lines' = lines /\ sensor' = sensor /\ heard' = heard /\ kind' = kind
    BY <1>1, <1>2, <1>8
  <2>2. MasterTyped'
    BY <1>4, <1>5, <2>1
  <2>3. QED
    BY <1>5, <2>1, <2>2 DEF SensorTyped
<1>9. QED
  BY <1>2, <1>6, <1>7, <1>8 DEF BusOps, B!Set

\* A new sequence, and the end of a job.
LEMMA DoTyped ==
    ASSUME NEW label, NEW ops, B!Do(label, ops), ops \in Seq(BusOps)
    PROVE  busPc' = label /\ todo' \in Seq(BusOps) /\ todo' = ops /\ heard' = 0 /\ heard' \in B!ByteValues
  BY HeardIsByte DEF B!Do

LEMMA FinishedTyped ==
    ASSUME MasterTyped, jobs # <<>>, NEW ok \in BOOLEAN, B!Finished(ok), values' \in Seq(B!ByteValues)
    PROVE  /\ jobs' \in JobLists /\ inited' \in BOOLEAN
           /\ answer' \in [of : Known, ok : BOOLEAN, values : Seq(B!ByteValues)]
           /\ jobs' # <<>> => answer' = B!NoAnswer
           /\ jobs' = Tail(jobs)
<1>1. /\ jobs \in JobLists /\ inited \in BOOLEAN /\ answer = B!NoAnswer
      /\ answer \in [of : Known, ok : BOOLEAN, values : Seq(B!ByteValues)]
  BY DEF MasterTyped
<1>2. /\ jobs' = Tail(jobs) /\ Tail(jobs) \in JobLists
      /\ Head(jobs) \in Commands => Tail(jobs) = <<>>
  BY <1>1, JobFacts DEF B!Finished
<1>3. inited' \in BOOLEAN
  BY <1>1 DEF B!Finished
<1>4. CASE Head(jobs) \in Commands
  <2>1. answer' = [of |-> Head(jobs), ok |-> ok, values |-> values']
    BY <1>4 DEF B!Finished
  <2>2. Head(jobs) \in Known
    BY <1>4 DEF Known
  <2>3. QED
    BY <1>2, <1>3, <1>4, <2>1, <2>2
<1>5. CASE Head(jobs) \notin Commands
  BY <1>5, <1>1, <1>2, <1>3 DEF B!Finished
<1>6. QED
  BY <1>4, <1>5

LEMMA SensorStays ==
    ASSUME SensorTyped, UNCHANGED <<lines, sensor, kind>>
    PROVE  SensorTyped'
  BY DEF SensorTyped

LEMMA BootTyped == ASSUME MasterTyped, SensorTyped, B!Boot PROVE MasterTyped' /\ SensorTyped'
<1>1. /\ jobs' = <<B!Setup>> /\ busPc' = "next" /\ todo' = <<>> /\ todo' \in Seq(BusOps) /\ heard' \in B!ByteValues
      /\ UNCHANGED <<lines, timeout, values, inited, answer, sensor, kind, spoilt>>
  BY DoTyped, OpsTyped DEF B!Boot
<1>2. answer' = B!NoAnswer
  BY <1>1 DEF MasterTyped, B!Boot, B!At
<1>3. QED
  BY <1>1, <1>2, JobFacts, SensorStays DEF MasterTyped

LEMMA GetTyped ==
    ASSUME MasterTyped, SensorTyped, NEW command \in Commands, B!Get(command) PROVE MasterTyped' /\ SensorTyped'
<1>1. /\ busPc' = "next" /\ todo' \in Seq(BusOps) /\ heard' \in B!ByteValues
  BY DoTyped, OpsTyped DEF B!Get
<1>2. jobs' \in JobLists /\ answer' = B!NoAnswer
  BY JobFacts DEF B!Get
<1>3. spoilt' \in BOOLEAN
  BY DEF MasterTyped, B!Get
<1>4. UNCHANGED <<lines, timeout, values, inited, sensor, kind>>
  BY DEF B!Get
<1>5. B!NoAnswer \in [of : Known, ok : BOOLEAN, values : Seq(B!ByteValues)]
  BY DEF Known, B!NoAnswer
<1>6. QED
  BY <1>1, <1>2, <1>3, <1>4, <1>5, SensorStays DEF MasterTyped

LEMMA NextJobTyped == ASSUME MasterTyped, SensorTyped, B!NextJob PROVE MasterTyped' /\ SensorTyped'
<1>1. jobs # <<>> /\ UNCHANGED <<lines, jobs, timeout, inited, answer, sensor, kind, spoilt>> /\ values' = <<>>
  BY DEF B!NextJob
<1>2. /\ (Head(jobs) = B!Setup /\ busPc' = "setup") \/ busPc' = "write"
      /\ todo' \in Seq(BusOps) /\ heard' \in B!ByteValues
  <2>1. CASE Head(jobs) = B!Setup
    BY <2>1, DoTyped, OpsTyped DEF B!NextJob
  <2>2. CASE Head(jobs) # B!Setup
    BY <2>2, DoTyped, OpsTyped DEF B!NextJob
  <2>3. QED
    BY <2>1, <2>2
<1>3. values' \in Seq(B!ByteValues) /\ Len(values') <= B!Length
  BY <1>1 DEF B!Length
<1>4. QED
  BY <1>1, <1>2, <1>3, SensorStays DEF MasterTyped

LEMMA NoJobTyped == ASSUME MasterTyped, SensorTyped, B!NoJob PROVE MasterTyped' /\ SensorTyped'
<1>1. busPc' = "idle" /\ todo' = <<>> /\ todo' \in Seq(BusOps) /\ heard' \in B!ByteValues
  BY DoTyped, OpsTyped DEF B!NoJob
<1>2. jobs = <<>> /\ UNCHANGED <<lines, jobs, timeout, values, inited, answer, sensor, kind, spoilt>>
  BY DEF B!NoJob
<1>3. QED
  BY <1>1, <1>2, SensorStays DEF MasterTyped

LEMMA SendResetTyped == ASSUME MasterTyped, SensorTyped, B!SendReset PROVE MasterTyped' /\ SensorTyped'
<1>1. busPc = "setup" /\ busPc' = "write" /\ todo' \in Seq(BusOps) /\ heard' \in B!ByteValues
  BY DoTyped, OpsTyped DEF B!SendReset, B!At
<1>2. UNCHANGED <<lines, jobs, timeout, values, inited, answer, sensor, kind>>
  BY DEF B!SendReset
<1>3. spoilt' \in BOOLEAN
  BY DEF MasterTyped, B!SendReset
<1>4. jobs # <<>>
  BY <1>1 DEF MasterTyped
<1>5. QED
  BY <1>1, <1>2, <1>3, <1>4, SensorStays DEF MasterTyped

\* A job that ends leaves the bus to the next.
LEMMA EndTyped ==
    ASSUME MasterTyped, SensorTyped, NEW ok \in BOOLEAN, jobs # <<>>, B!Finished(ok), UNCHANGED <<lines, values, sensor, kind>>,
           busPc' = "next", todo' \in Seq(BusOps), heard' \in B!ByteValues, timeout' \in 0 .. Tries, spoilt' \in BOOLEAN
    PROVE  MasterTyped' /\ SensorTyped'
<1>1. values' \in Seq(B!ByteValues) /\ Len(values') <= B!Length
  BY DEF MasterTyped
<1>2. /\ jobs' \in JobLists /\ inited' \in BOOLEAN
      /\ answer' \in [of : Known, ok : BOOLEAN, values : Seq(B!ByteValues)]
      /\ jobs' # <<>> => answer' = B!NoAnswer
  BY <1>1, FinishedTyped, Zenon
<1>3. QED
  BY <1>1, <1>2, SensorStays DEF MasterTyped

LEMMA WriteAddressedTyped == ASSUME MasterTyped, SensorTyped, B!WriteAddressed PROVE MasterTyped' /\ SensorTyped'
<1>1. busPc = "write" /\ jobs # <<>> /\ UNCHANGED <<lines, timeout, sensor, kind, spoilt, values>>
  BY DEF B!WriteAddressed, B!At, MasterTyped
<1>2. CASE B!Acked
  <2>1. B!Command \in Nat
    BY <1>1, CommandIsKnown
  <2>2. busPc' = "command" /\ todo' \in Seq(BusOps) /\ heard' \in B!ByteValues /\ UNCHANGED <<jobs, inited, answer>>
    BY <1>2, <2>1, DoTyped, OpsTyped DEF B!WriteAddressed
  <2>3. QED
    BY <1>1, <2>2, SensorStays DEF MasterTyped
<1>3. CASE ~B!Acked
  <2>1. busPc' = "next" /\ todo' \in Seq(BusOps) /\ heard' \in B!ByteValues /\ B!Finished(FALSE)
    BY <1>3, DoTyped, OpsTyped DEF B!WriteAddressed
  <2>2. timeout' \in 0 .. Tries /\ spoilt' \in BOOLEAN
    BY <1>1 DEF MasterTyped
  <2>3. FALSE \in BOOLEAN
    OBVIOUS
  <2>4. QED
    BY <1>1, <2>1, <2>2, <2>3, EndTyped, Zenon
<1>4. QED
  BY <1>2, <1>3

LEMMA WrittenTyped == ASSUME MasterTyped, SensorTyped, B!Written PROVE MasterTyped' /\ SensorTyped'
<1>1. busPc = "command" /\ jobs # <<>> /\ UNCHANGED <<lines, sensor, kind, spoilt, values>>
  BY DEF B!Written, B!At, MasterTyped
<1>2. CASE ~B!Acked
  <2>1. busPc' = "next" /\ todo' \in Seq(BusOps) /\ heard' \in B!ByteValues /\ B!Finished(FALSE) /\ timeout' = timeout
    BY <1>2, DoTyped, OpsTyped DEF B!Written
  <2>2. timeout' \in 0 .. Tries /\ spoilt' \in BOOLEAN /\ FALSE \in BOOLEAN
    BY <1>1, <2>1 DEF MasterTyped
  <2>3. QED
    BY <1>1, <2>1, <2>2, EndTyped, Zenon
<1>3. CASE B!Acked /\ Head(jobs) = B!Setup
  <2>1. /\ busPc' = "settle" /\ todo' \in Seq(BusOps) /\ heard' \in B!ByteValues
        /\ UNCHANGED <<jobs, inited, answer, timeout>>
    BY <1>3, DoTyped, OpsTyped DEF B!Written
  <2>2. QED
    BY <1>1, <1>3, <2>1, SensorStays DEF MasterTyped
<1>4. CASE B!Acked /\ Head(jobs) # B!Setup
  <2>1. /\ busPc' = "address" /\ todo' \in Seq(BusOps) /\ heard' \in B!ByteValues
        /\ UNCHANGED <<jobs, inited, answer>> /\ timeout' = Tries
    BY <1>4, DoTyped, OpsTyped DEF B!Written
  <2>2. timeout' \in 0 .. Tries /\ timeout' >= 1
    BY <2>1, BusAssumption
  <2>3. QED
    BY <1>1, <1>4, <2>1, <2>2, SensorStays DEF MasterTyped
<1>5. QED
  BY <1>2, <1>3, <1>4

LEMMA SettleTyped == ASSUME MasterTyped, SensorTyped, B!Settle PROVE MasterTyped' /\ SensorTyped'
<1>1. busPc = "settle" /\ jobs # <<>> /\ UNCHANGED <<lines, timeout, sensor, kind, spoilt, values>>
  BY DEF B!Settle, B!At, MasterTyped
<1>2. busPc' = "next" /\ todo' \in Seq(BusOps) /\ heard' \in B!ByteValues /\ B!Finished(TRUE)
  BY DoTyped, OpsTyped DEF B!Settle
<1>3. timeout' \in 0 .. Tries /\ spoilt' \in BOOLEAN /\ TRUE \in BOOLEAN
  BY <1>1 DEF MasterTyped
<1>4. QED
  BY <1>1, <1>2, <1>3, EndTyped, Zenon

LEMMA ReadAddressedTyped == ASSUME MasterTyped, SensorTyped, B!ReadAddressed PROVE MasterTyped' /\ SensorTyped'
<1>1. /\ busPc = "address" /\ jobs # <<>> /\ Head(jobs) # B!Setup /\ timeout \in 1 .. Tries
      /\ UNCHANGED <<lines, sensor, kind, values>> /\ spoilt' \in BOOLEAN
      /\ timeout' = IF B!Acked THEN timeout ELSE timeout - 1
  BY BusAssumption DEF B!ReadAddressed, B!At, MasterTyped
<1>2. CASE B!Acked
  <2>1. /\ busPc' = "data" /\ todo' \in Seq(BusOps) /\ heard' \in B!ByteValues /\ UNCHANGED <<jobs, inited, answer>>
    BY <1>2, DoTyped, OpsTyped DEF B!ReadAddressed
  <2>2. timeout' \in 0 .. Tries /\ timeout' >= 1
    BY <1>1, <1>2, BusAssumption
  <2>3. QED
    BY <1>1, <2>1, <2>2, SensorStays DEF MasterTyped
<1>3. CASE ~B!Acked /\ timeout > 1
  <2>1. /\ busPc' = "address" /\ todo' \in Seq(BusOps) /\ heard' \in B!ByteValues /\ UNCHANGED <<jobs, inited, answer>>
    <3>1. ~B!Acked /\ timeout > 1 /\ timeout # 1
      BY <1>1, <1>3
    <3>2. B!Do("address", B!i2c_master_stop \o B!Addressed(Address + 1)) /\ UNCHANGED <<jobs, inited, answer>>
      BY <3>1 DEF B!ReadAddressed
    <3>3. QED
      BY <3>2, DoTyped, OpsTyped
  <2>2. timeout' \in 0 .. Tries /\ timeout' >= 1
    BY <1>1, <1>3, BusAssumption
  <2>3. QED
    BY <1>1, <2>1, <2>2, SensorStays DEF MasterTyped
<1>4. CASE ~B!Acked /\ timeout = 1
  <2>1. busPc' = "next" /\ todo' \in Seq(BusOps) /\ heard' \in B!ByteValues /\ B!Finished(FALSE)
    <3>1. ~B!Acked /\ ~(timeout > 1) /\ timeout = 1
      BY <1>4
    <3>2. B!Do("next", B!i2c_master_stop) /\ B!Finished(FALSE)
      BY <3>1 DEF B!ReadAddressed
    <3>3. QED
      BY <3>2, DoTyped, OpsTyped
  <2>2. timeout' \in 0 .. Tries /\ FALSE \in BOOLEAN
    BY <1>1, <1>4, BusAssumption
  <2>3. QED
    BY <1>1, <2>1, <2>2, EndTyped, Zenon
<1>5. QED
  BY <1>1, <1>2, <1>3, <1>4

LEMMA ReadNextTyped == ASSUME MasterTyped, SensorTyped, B!ReadNext PROVE MasterTyped' /\ SensorTyped'
<1>1. /\ busPc = "data" /\ jobs # <<>> /\ Head(jobs) # B!Setup /\ timeout \in 1 .. Tries /\ timeout' = timeout - 1
      /\ UNCHANGED <<lines, sensor, kind, values, spoilt>> /\ Len(values) < B!Length
  BY BusAssumption DEF B!ReadNext, B!At, MasterTyped
<1>2. CASE timeout > 1
  <2>1. /\ busPc' = "byte" /\ todo' \in Seq(BusOps) /\ heard' \in B!ByteValues /\ UNCHANGED <<jobs, inited, answer>>
    BY <1>2, DoTyped, OpsTyped DEF B!ReadNext
  <2>2. timeout' \in 0 .. Tries /\ timeout' >= 1
    BY <1>1, <1>2, BusAssumption
  <2>3. QED
    BY <1>1, <2>1, <2>2, SensorStays DEF MasterTyped
<1>3. CASE ~(timeout > 1)
  <2>1. busPc' = "next" /\ todo' \in Seq(BusOps) /\ heard' \in B!ByteValues /\ B!Finished(TRUE)
    BY <1>3, DoTyped, OpsTyped DEF B!ReadNext
  <2>2. timeout' \in 0 .. Tries /\ TRUE \in BOOLEAN
    BY <1>1, BusAssumption
  <2>3. spoilt' \in BOOLEAN
    BY <1>1 DEF MasterTyped
  <2>4. QED
    BY <1>1, <2>1, <2>2, <2>3, EndTyped, Zenon
<1>4. QED
  BY <1>2, <1>3

LEMMA ReadByteTyped == ASSUME MasterTyped, SensorTyped, B!ReadByte PROVE MasterTyped' /\ SensorTyped'
<1>1. /\ busPc = "byte" /\ jobs # <<>> /\ Head(jobs) # B!Setup /\ timeout \in 1 .. Tries
      /\ UNCHANGED <<lines, jobs, timeout, inited, answer, sensor, kind, spoilt>> /\ values' = Append(values, heard)
      /\ values \in Seq(B!ByteValues) /\ heard \in B!ByteValues /\ Len(values) < B!Length
  BY BusAssumption DEF B!ReadByte, B!At, MasterTyped
<1>2. busPc' = "data" /\ todo' \in Seq(BusOps) /\ heard' \in B!ByteValues
  <2>1. PICK x \in 0..1 : x = IF Len(values) + 1 = B!Length THEN B!LastLevel ELSE 0
    BY DEF B!LastLevel
  <2>2. B!i2c_master_setAck(x) \o <<B!Set(1, 0)>> \in Seq(BusOps)
    BY OpsTyped
  <2>3. B!Do("data", B!i2c_master_setAck(x) \o <<B!Set(1, 0)>>)
    BY <2>1 DEF B!ReadByte
  <2>4. QED
    BY <2>2, <2>3, DoTyped
<1>3. values' \in Seq(B!ByteValues) /\ Len(values') = Len(values) + 1 /\ Len(values) \in Nat
  BY <1>1, AppendProperties, LenProperties
<1>4. Len(values') <= B!Length
  BY <1>1, <1>3 DEF B!Length
<1>5. QED
  BY <1>1, <1>2, <1>3, <1>4, SensorStays DEF MasterTyped

LEMMA ReadEndsTyped == ASSUME MasterTyped, SensorTyped, B!ReadEnds PROVE MasterTyped' /\ SensorTyped'
<1>1. busPc = "data" /\ jobs # <<>> /\ UNCHANGED <<lines, timeout, sensor, kind, spoilt, values>>
  BY DEF B!ReadEnds, B!At, MasterTyped
<1>2. busPc' = "next" /\ todo' \in Seq(BusOps) /\ heard' \in B!ByteValues /\ B!Finished(TRUE)
  BY DoTyped, OpsTyped DEF B!ReadEnds
<1>3. timeout' \in 0 .. Tries /\ spoilt' \in BOOLEAN /\ TRUE \in BOOLEAN
  BY <1>1 DEF MasterTyped
<1>4. QED
  BY <1>1, <1>2, <1>3, EndTyped, Zenon

LEMMA ReadyTyped == ASSUME MasterTyped, SensorTyped, B!Ready PROVE MasterTyped' /\ SensorTyped'
<1>1. /\ UNCHANGED <<lines, todo, heard, busPc, jobs, timeout, values, inited, answer, kind, spoilt>>
      /\ lines \in Levels /\ sensor \in Sensors /\ sensor.work \in {"resets", "measures"}
      /\ Sensing(sensor) /\ (B!Lines(lines, sensor).scl = 0 => SensingLow(sensor))
      /\ kind = "none" => sensor.work = "none"
  <2>1. /\ UNCHANGED <<lines, todo, heard, busPc, jobs, timeout, values, inited, answer, kind, spoilt>>
        /\ sensor.work \in {"resets", "measures"}
    BY DEF B!Ready
  <2>2. lines \in Levels
    BY DEF MasterTyped, Levels
  <2>3. /\ Sensing(sensor) /\ (B!Lines(lines, sensor).scl = 0 => SensingLow(sensor))
        /\ kind = "none" => sensor = B!NewSensor
    BY DEF SensorTyped
  <2>4. sensor \in Sensors
    BY <2>3 DEF Sensing
  <2>5. B!NewSensor.work = "none"
    BY DEF B!NewSensor
  <2>6. QED
    BY <2>1, <2>2, <2>3, <2>4, <2>5, SMTT(30)
<1>2. MasterTyped'
  BY <1>1 DEF MasterTyped
<1>3. kind # "none"
  BY <1>1
<1>4. CASE sensor.work = "resets"
  <2>1. sensor' = [sensor EXCEPT !.work = "none"]
    BY <1>4 DEF B!Ready
  <2>2. PICK s, t : s = sensor /\ t = sensor'
    OBVIOUS
  <2>3. /\ t \in Sensors /\ t.mode = s.mode /\ t.clocks = s.clocks /\ t.bits = s.bits /\ t.scl = s.scl /\ t.sda = s.sda
        /\ t.work = "none"
    BY <1>1, <2>1, <2>2 DEF Works, Sensors
  <2>4. Counted(t) = Counted(s) /\ B!Lines(lines, t) = B!Lines(lines, s)
    BY <2>3, Zenon DEF Counted, B!Lines
  <2>5. s.scl # 0
    BY <1>1, <1>4, <2>2 DEF Sensing
  <2>6. Sensing(s) => Sensing(t)
    BY <2>3, <2>4, <2>5 DEF Sensing
  <2>7. SensingLow(s) => SensingLow(t)
    BY <2>3, <2>6 DEF SensingLow
  <2>8. QED
    BY <1>1, <1>2, <1>3, <2>2, <2>4, <2>6, <2>7 DEF SensorTyped
<1>5. CASE sensor.work = "measures"
  <2>1. PICK r \in Readings[sensor.of] :
          sensor' = Finishes(sensor, r, lines)
    BY <1>5 DEF B!Ready, Finishes
  <2>2. Sensing(sensor') /\ (B!Lines(lines, sensor').scl = 0 => SensingLow(sensor'))
    BY <1>1, <1>5, <2>1, ReadySenses, Zenon
  <2>3. QED
    BY <1>1, <1>2, <1>3, <2>2, SMTT(30) DEF SensorTyped
<1>6. QED
  BY <1>1, <1>4, <1>5

LEMMA RestartTyped == ASSUME MasterTyped, SensorTyped, B!Restart PROVE MasterTyped' /\ SensorTyped'
<1>1. /\ lines' = [sda |-> 1, scl |-> 1] /\ lines' \in Levels /\ lines \in Levels
      /\ todo' = <<>> /\ heard' = 0 /\ busPc' = "boot" /\ jobs' = <<>>
      /\ timeout' = 0 /\ values' = <<>> /\ inited' = FALSE /\ answer' = B!NoAnswer
      /\ UNCHANGED <<kind, spoilt>>
      /\ sensor' = IF kind # "none" THEN B!Follow(sensor, B!Lines(lines, sensor), B!Lines(lines', sensor)) ELSE sensor
  BY DEF B!Restart, MasterTyped, Levels
<1>2. /\ todo' \in Seq(BusOps) /\ heard' \in B!ByteValues /\ jobs' \in JobLists /\ timeout' \in 0 .. Tries
      /\ values' \in Seq(B!ByteValues) /\ Len(values') <= B!Length /\ inited' \in BOOLEAN
  <2>1. 0 \in 0 .. Tries /\ Len(<<>>) = 0 /\ 0 <= B!Length
    BY BusAssumption DEF B!Length
  <2>2. <<>> \in Seq(BusOps) /\ <<>> \in Seq(B!ByteValues) /\ FALSE \in BOOLEAN
    OBVIOUS
  <2>3. QED
    BY <1>1, <2>1, <2>2, HeardIsByte, JobFacts
<1>3. B!NoAnswer \in [of : Known, ok : BOOLEAN, values : Seq(B!ByteValues)]
  BY DEF Known, B!NoAnswer
<1>4. MasterTyped'
  BY <1>1, <1>2, <1>3 DEF MasterTyped
<1>5. /\ Sensing(sensor) /\ (B!Lines(lines, sensor).scl = 0 => SensingLow(sensor))
      /\ kind = "none" => sensor = B!NewSensor
  BY DEF SensorTyped
<1>6. CASE kind # "none"
  <2>1. sensor' = B!Follow(sensor, B!Lines(lines, sensor), B!Lines(lines', sensor))
    BY <1>1, <1>6
  <2>2. Edge(sensor, lines, lines', sensor')
    BY <1>1, <1>5, <2>1, Edges, Zenon
  <2>3. Sensing(sensor') /\ (B!Lines(lines', sensor').scl = 0 => SensingLow(sensor'))
    <3>1. /\ lines \in Levels /\ lines' \in Levels /\ Sensing(sensor)
          /\ (B!Lines(lines, sensor).scl = 0 => SensingLow(sensor))
      BY <1>1, <1>5
    <3>2. QED
      BY <2>2, <3>1, FollowSenses, Zenon
  <2>4. QED
    BY <1>1, <1>4, <1>6, <2>3 DEF SensorTyped
<1>7. CASE kind = "none"
  BY <1>1, <1>5, <1>7, <1>4, NewSenses DEF SensorTyped
<1>8. QED
  BY <1>6, <1>7

LEMMA BusInitTyped == ASSUME B!Init PROVE MasterTyped /\ SensorTyped
<1>1. /\ heard \in B!ByteValues /\ jobs \in JobLists /\ todo \in Seq(BusOps) /\ values \in Seq(B!ByteValues)
      /\ Len(values) <= B!Length /\ timeout \in 0 .. Tries
  BY BusAssumption, HeardIsByte, JobFacts DEF B!Init, B!Length
<1>2. B!NoAnswer \in [of : Known, ok : BOOLEAN, values : Seq(B!ByteValues)]
  BY DEF Known, B!NoAnswer
<1>3. MasterTyped
  <2>1. /\ lines \in [sda : 0..1, scl : 0..1] /\ busPc = "boot" /\ jobs = <<>> /\ todo = <<>> /\ answer = B!NoAnswer
        /\ inited = FALSE /\ kind \in {"holds", "refuses", "none"} /\ spoilt = FALSE
    BY DEF B!Init
  <2>2. QED
    BY <1>1, <1>2, <2>1 DEF MasterTyped
<1>4. sensor = B!NewSensor
  BY DEF B!Init
<1>5. QED
  BY <1>3, <1>4, NewSenses DEF SensorTyped

LEMMA BusTyped ==
    ASSUME MasterTyped, SensorTyped, [B!Next]_busVars
    PROVE  MasterTyped' /\ SensorTyped'
<1>1. CASE B!Next
  BY <1>1, DriveTyped, BootTyped, GetTyped, NextJobTyped, NoJobTyped, SendResetTyped, WriteAddressedTyped, WrittenTyped,
     SettleTyped, ReadAddressedTyped, ReadNextTyped, ReadByteTyped, ReadEndsTyped, ReadyTyped, RestartTyped, Zenon
     DEF B!Next, B!Master
<1>2. CASE UNCHANGED busVars
  <2>1. UNCHANGED <<lines, todo, heard, busPc, jobs, timeout, values, inited, answer, sensor, kind, spoilt>>
    BY <1>2 DEF busVars
  <2>2. MasterTyped'
    BY <2>1 DEF MasterTyped
  <2>3. QED
    BY <2>1, <2>2, SensorStays
<1>3. QED
  BY <1>1, <1>2

\* The bits of a byte, one after the other.
LEMMA FirstFacts ==
    ASSUME NEW x \in B!ByteValues
    PROVE  /\ First(x, 0) = 0 /\ First(x, ByteBits) = x /\ x \in Nat
           /\ \A c \in 0 .. ByteBits - 1 :
                 /\ First(x, c) \in Nat /\ B!Bit(x, c + 1) \in 0..1
                 /\ First(x, c + 1) = 2 * First(x, c) + B!Bit(x, c + 1)
           /\ \A c \in 0 .. ByteBits : First(x, c) \in B!ByteValues
<1>0. PICK b \in Nat \ {0} : b = 2 ^ ByteBits
  BY PowerFacts, BusAssumption
<1>x. x \in 0 .. b - 1 /\ x \in Nat /\ B!ByteValues = 0 .. b - 1
  BY <1>0 DEF B!ByteValues
<1>1. First(x, 0) = 0
  <2>1. ByteBits - 0 = ByteBits
    BY BusAssumption
  <2>2. x \div b = 0
    BY <1>x
  <2>3. QED
    BY <1>0, <2>1, <2>2, Zenon DEF First
<1>2. First(x, ByteBits) = x
  <2>1. ByteBits - ByteBits = 0 /\ 2 ^ 0 = 1
    BY BusAssumption, PowerFacts
  <2>2. x \div 1 = x
    BY <1>x
  <2>3. QED
    BY <2>1, <2>2, Zenon DEF First
<1>3. ASSUME NEW c \in 0 .. ByteBits - 1
      PROVE  /\ First(x, c) \in Nat /\ B!Bit(x, c + 1) \in 0..1
             /\ First(x, c + 1) = 2 * First(x, c) + B!Bit(x, c + 1)
  <2>1. ByteBits - (c + 1) \in Nat /\ ByteBits - c = (ByteBits - (c + 1)) + 1
    BY BusAssumption
  <2>2. PICK p \in Nat \ {0} : p = 2 ^ (ByteBits - (c + 1)) /\ 2 * p = 2 ^ (ByteBits - c)
    BY <2>1, PowerFacts, Zenon
  <2>3. PICK q \in Nat : q = x \div p /\ q * p <= x /\ x < q * p + p
    BY <1>x, SMTT(30)
  <2>4. PICK h \in Nat, r \in 0..1 : q = 2 * h + r
    <3>1. q = 2 * (q \div 2) + (q % 2) /\ q \div 2 \in Nat /\ q % 2 \in 0..1
      OBVIOUS
    <3>2. QED
      BY <3>1
  <2>5. h * (2 * p) <= x /\ x < h * (2 * p) + 2 * p
    <3>1. q * p = h * (2 * p) + r * p /\ r * p \in {0, p}
      BY <2>4
    <3>2. q * p \in Nat /\ h * (2 * p) \in Nat /\ r * p \in Nat
      BY <2>3
    <3>3. QED
      BY <2>3, <3>1, <3>2, <1>x
  <2>6. x \div (2 * p) = h
    BY <1>x, <2>5, SMTT(30)
  <2>7. q % 2 = r
    BY <2>4
  <2>8. First(x, c) = h
    BY <2>2, <2>6, Zenon DEF First
  <2>9. First(x, c + 1) = q
    BY <2>2, <2>3, Zenon DEF First
  <2>10. B!Bit(x, c + 1) = r
    BY <2>2, <2>3, <2>7, Zenon DEF B!Bit
  <2>11. QED
    BY <2>4, <2>8, <2>9, <2>10
<1>4. ASSUME NEW c \in 0 .. ByteBits PROVE First(x, c) \in B!ByteValues
  <2>1. PICK p \in Nat \ {0} : p = 2 ^ (ByteBits - c)
    BY BusAssumption, PowerFacts
  <2>2. x \div p \in 0 .. x
    BY <1>x, SMTT(30)
  <2>3. QED
    BY <1>x, <2>1, <2>2 DEF First
<1>5. QED
  BY <1>x, <1>1, <1>2, <1>3, <1>4

\* A state of the lines and of the sensor, and a step of the master on them.
Sound(o, s, k) ==
    /\ o \in Levels /\ Sensing(s) /\ (B!Lines(o, s).scl = 0 => SensingLow(s))
    /\ k = "none" => s = B!NewSensor
Sets(a, c, o, s, h, k, p, r, g) ==
    /\ p = After(o, a, c) /\ p \in Levels /\ g = h
    /\ k = "none" => r = s
    /\ k # "none" => Edge(s, o, p, r)

\* What a sensor was asked and has measured.
Same(s, r) == r.work = s.work /\ r.of = s.of /\ r.reading = s.reading

\* It counts a clock.
Risen(s, d, r) ==
    /\ r.mode = s.mode /\ r.sda = s.sda /\ r.scl = 1 /\ r.at = s.at /\ Same(s, r)
    /\ s.mode = "idle" => r = s
    /\ s.mode # "idle" => r.clocks = s.clocks + 1 /\ r.nack = d
    /\ s.mode \in {"address", "write"} /\ s.clocks < ByteBits => r.bits = 2 * s.bits + d
    /\ s.mode = "read" \/ ~(s.clocks < ByteBits) => r.bits = s.bits

LEMMA RiseIs ==
    ASSUME NEW s \in Sensors, s.scl = 1, NEW d \in 0..1, NEW r, r = B!Rise(s, d)
    PROVE  Risen(s, d, r)
<1>1. CASE s.mode = "idle"
  <2>1. r = s
    BY <1>1 DEF B!Rise
  <2>2. r.bits = s.bits
    BY <2>1
  <2>3. QED
    BY <1>1, <2>1, <2>2 DEF Risen, Same
<1>2. CASE s.mode # "idle"
  <2>1. PICK c, b : /\ c = s.clocks + 1
                    /\ b = IF s.mode # "read" /\ s.clocks < ByteBits THEN 2 * s.bits + d ELSE s.bits
    OBVIOUS
  <2>2. r = [s EXCEPT !.clocks = c, !.bits = b, !.nack = d]
    BY <1>2, <2>1 DEF B!Rise, Sensors
  <2>3. /\ r.mode = s.mode /\ r.sda = s.sda /\ r.scl = 1 /\ r.at = s.at /\ Same(s, r)
        /\ r.clocks = c /\ r.bits = b /\ r.nack = d
    BY <2>2 DEF Sensors, Same
  <2>4. s.mode \in {"address", "write"} => s.mode # "read"
    OBVIOUS
  <2>5. QED
    BY <1>2, <2>1, <2>3, <2>4 DEF Risen
<1>3. QED
  BY <1>1, <1>2

LEMMA SoundFacts ==
    ASSUME NEW o, NEW s, NEW k, Sound(o, s, k)
    PROVE  /\ o \in Levels /\ o.sda \in 0..1 /\ o.scl \in 0..1 /\ s \in Sensors /\ Sensing(s)
           /\ s.sda \in 0..1 /\ s.scl \in 0..1 /\ s.clocks \in 0 .. ByteBits + 1 /\ s.mode \in Modes
           /\ s.work \in Works /\ s.bits \in Nat /\ s.at \in Nat \ {0} /\ s.nack \in 0..1
           /\ o = [sda |-> o.sda, scl |-> o.scl]
           /\ k = "none" => s.mode = "idle" /\ s.sda = 1 /\ s.scl = 1 /\ s.work = "none"
           /\ s.scl = 0 => B!Lines(o, s).scl = 0
           /\ s.scl = 1 => B!Lines(o, s).scl = o.scl
           /\ s.sda = 0 => B!Lines(o, s).sda = 0
           /\ s.sda = 1 => B!Lines(o, s).sda = o.sda
           /\ s.scl = 1 /\ o.scl = 0 => SensingLow(s)
           /\ s.mode = "idle" => s.sda = 1
<1>1. o \in Levels /\ Sensing(s) /\ (B!Lines(o, s).scl = 0 => SensingLow(s)) /\ (k = "none" => s = B!NewSensor)
  BY DEF Sound
<1>2. /\ s \in Sensors /\ s.sda \in 0..1 /\ s.scl \in 0..1 /\ s.clocks \in 0 .. ByteBits + 1 /\ s.mode \in Modes
      /\ s.work \in Works /\ s.bits \in Nat /\ s.at \in Nat \ {0} /\ s.nack \in 0..1
      /\ s.mode = "idle" => s.sda = 1
  BY <1>1 DEF Sensing, Sensors
<1>3. o.sda \in 0..1 /\ o.scl \in 0..1 /\ o = [sda |-> o.sda, scl |-> o.scl]
  BY <1>1 DEF Levels
<1>4. k = "none" => s.mode = "idle" /\ s.sda = 1 /\ s.scl = 1 /\ s.work = "none"
  BY <1>1 DEF B!NewSensor
<1>5. /\ s.scl = 0 => B!Lines(o, s).scl = 0
      /\ s.scl = 1 => B!Lines(o, s).scl = o.scl
      /\ s.sda = 0 => B!Lines(o, s).sda = 0
      /\ s.sda = 1 => B!Lines(o, s).sda = o.sda
  BY <1>1, <1>2, LinesAre
<1>6. QED
  BY <1>1, <1>2, <1>3, <1>4, <1>5

\* A step on the two lines, and what the sensor makes of it.
LEMMA SetsFacts ==
    ASSUME NEW a \in 0..2, NEW c \in 0..2, NEW o, NEW s, NEW h, NEW k, NEW p, NEW r, NEW g,
           Sound(o, s, k), Sets(a, c, o, s, h, k, p, r, g)
    PROVE  /\ g = h /\ p \in Levels /\ p.sda \in 0..1 /\ p.scl \in 0..1
           /\ p.sda = (IF a = 2 THEN o.sda ELSE a) /\ p.scl = (IF c = 2 THEN o.scl ELSE c)
           /\ p = [sda |-> p.sda, scl |-> p.scl]
           /\ k = "none" => r = s
           /\ k # "none" => Edge(s, o, p, r)
<1>1. /\ p = After(o, a, c) /\ p \in Levels /\ g = h /\ (k = "none" => r = s)
      /\ k # "none" => Edge(s, o, p, r)
  BY DEF Sets
<1>2. p.sda = (IF a = 2 THEN o.sda ELSE a) /\ p.scl = (IF c = 2 THEN o.scl ELSE c)
  BY <1>1 DEF After
<1>3. p.sda \in 0..1 /\ p.scl \in 0..1 /\ p = [sda |-> p.sda, scl |-> p.scl]
  BY <1>1 DEF Levels
<1>4. QED
  BY <1>1, <1>2, <1>3

\* The edge that the step makes on the clock, or on the data while it is up.
Quiet(o, p) == (o.scl = 0 /\ p.scl = 0) \/ (o.scl = 1 /\ p.scl = 1 /\ o.sda = p.sda)
Begun(s, k, r) ==
    /\ r.scl = 1 /\ r.sda = 1 /\ Same(s, r)
    /\ k # "none" => r.mode = "address" /\ r.clocks = 0 /\ r.bits = 0
    /\ k = "none" => r = s
Halted(s, r) == r.mode = "idle" /\ r.sda = 1 /\ r.scl = 1 /\ Same(s, r)

LEMMA Stays ==
    ASSUME NEW o, NEW s, NEW k, NEW p, NEW r, Quiet(o, p),
           k = "none" => r = s, k # "none" => Edge(s, o, p, r)
    PROVE  r = s
  BY Zenon DEF Edge, Quiet

LEMMA Rises ==
    ASSUME NEW o, NEW s, NEW k, NEW p \in Levels, NEW r, Sound(o, s, k),
           k = "none" => r = s, k # "none" => Edge(s, o, p, r), o.scl = 0, p.scl = 1, s.scl = 1
    PROVE  Risen(s, IF s.sda = 1 THEN p.sda ELSE 0, r)
<1>1. /\ s \in Sensors /\ s.sda \in 0..1 /\ s.scl \in 0..1 /\ p.sda \in 0..1
      /\ k = "none" => s.mode = "idle"
  BY SoundFacts DEF Levels
<1>2. CASE k = "none"
  BY <1>1, <1>2 DEF Risen, Same
<1>3. CASE k # "none"
  <2>1. PICK d \in 0..1 : d = B!Lines(p, s).sda /\ d = IF s.sda = 1 THEN p.sda ELSE 0
    BY <1>1, LinesAre
  <2>2. r = B!Rise(s, d)
    BY <1>3, <2>1, Zenon DEF Edge
  <2>3. Risen(s, d, r)
    BY <1>1, <2>2, RiseIs, Zenon
  <2>4. QED
    BY <2>1, <2>3
<1>4. QED
  BY <1>2, <1>3

LEMMA Falls ==
    ASSUME NEW o, NEW s, NEW k, NEW p \in Levels, NEW r, Sound(o, s, k),
           k # "none" => Edge(s, o, p, r), o.scl = 1, p.scl = 0, s.scl = 1
    PROVE  k # "none" => r = B!Fall(s) /\ Sensing(s)
  BY Zenon DEF Edge

LEMMA Starts ==
    ASSUME NEW o, NEW s, NEW k, NEW p \in Levels, NEW r, Sound(o, s, k),
           k = "none" => r = s, k # "none" => Edge(s, o, p, r),
           o.scl = 1, p.scl = 1, o.sda = 1, p.sda = 0, s.scl = 1, s.sda = 1
    PROVE  Begun(s, k, r)
<1>1. CASE k = "none"
  BY <1>1 DEF Begun, Same
<1>2. CASE k # "none"
  <2>1. r = [B!Idle(s) EXCEPT !.mode = "address"]
    BY <1>2, Zenon DEF Edge
  <2>2. s \in Sensors
    BY SoundFacts
  <2>3. /\ r.mode = "address" /\ r.clocks = 0 /\ r.bits = 0 /\ r.sda = 1 /\ r.scl = 1
        /\ r.work = s.work /\ r.of = s.of /\ r.reading = s.reading
    BY <2>1, <2>2 DEF B!Idle, Sensors
  <2>4. QED
    BY <1>2, <2>3 DEF Begun, Same
<1>3. QED
  BY <1>1, <1>2

LEMMA IdleIs ==
    ASSUME NEW s \in Sensors, s.scl = 1
    PROVE  Halted(s, B!Idle(s))
<1>1. PICK r : r = B!Idle(s)
  OBVIOUS
<1>2. /\ r.mode = "idle" /\ r.sda = 1 /\ r.scl = 1
      /\ r.work = s.work /\ r.of = s.of /\ r.reading = s.reading
  BY <1>1 DEF B!Idle, Sensors
<1>3. QED
  BY <1>1, <1>2 DEF Halted, Same

LEMMA Stops ==
    ASSUME NEW o, NEW s, NEW k, NEW p \in Levels, NEW r, Sound(o, s, k),
           k = "none" => r = s, k # "none" => Edge(s, o, p, r),
           o.scl = 1, p.scl = 1, o.sda = 0, p.sda = 1, s.scl = 1, s.sda = 1
    PROVE  Halted(s, r)
<1>0. s \in Sensors /\ (k = "none" => s.mode = "idle")
  BY SoundFacts
<1>1. CASE k = "none"
  BY <1>0, <1>1 DEF Halted, Same
<1>2. CASE k # "none"
  BY <1>2, <1>0, IdleIs, Zenon DEF Edge
<1>3. QED
  BY <1>1, <1>2

\* An operation of the master.
Runs(op, o, s, h, k, p, r, g) ==
    /\ \A a, c \in 0..2 : op = B!Set(a, c) => Sets(a, c, o, s, h, k, p, r, g)
    /\ op = B!Sample => p = o /\ r = s /\ g = (2 * h + B!Lines(o, s).sda) % 2 ^ ByteBits
    /\ op = B!Stretch => p = o /\ r = s /\ g = h /\ B!Lines(o, s).scl = 1

\* The stop.
LEMMA StopStep ==
    ASSUME NEW n \in 0..2, NEW o, NEW s, NEW h, NEW k, NEW p, NEW r, NEW g,
           Sound(o, s, k), StopState(o, s, n), Runs(B!i2c_master_stop[n + 1], o, s, h, k, p, r, g)
    PROVE  StopState(p, r, n + 1) /\ Same(s, r) /\ g = h
<1>0. s.scl = 1 /\ s.sda = 1 /\ 0 \in 0..2 /\ 1 \in 0..2 /\ 2 \in 0..2
  BY DEF StopState
<1>s. /\ o \in Levels /\ o.sda \in 0..1 /\ o.scl \in 0..1 /\ s \in Sensors
      /\ k = "none" => s.mode = "idle"
  BY SoundFacts
<1>1. CASE n = 0
  <2>1. o.scl = 0
    BY <1>1 DEF StopState
  <2>2. Sets(0, 2, o, s, h, k, p, r, g)
    BY <1>0, <1>1, StopOps, SetIsOp DEF Runs
  <2>3. /\ g = h /\ p \in Levels /\ p.sda = 0 /\ p.scl = 0 /\ (k = "none" => r = s)
        /\ k # "none" => Edge(s, o, p, r)
    BY <1>0, <2>1, <2>2, SetsFacts
  <2>4. r = s
    BY <2>1, <2>3, Stays DEF Quiet
  <2>5. QED
    BY <1>0, <1>1, <2>3, <2>4 DEF StopState, Same
<1>2. CASE n = 1
  <2>1. o.scl = 0 /\ o.sda = 0
    BY <1>2 DEF StopState
  <2>2. Sets(0, 1, o, s, h, k, p, r, g)
    BY <1>0, <1>2, StopOps, SetIsOp DEF Runs
  <2>3. /\ g = h /\ p \in Levels /\ p.sda = 0 /\ p.scl = 1 /\ (k = "none" => r = s)
        /\ k # "none" => Edge(s, o, p, r)
    BY <1>0, <2>1, <2>2, SetsFacts
  <2>4. Risen(s, IF s.sda = 1 THEN p.sda ELSE 0, r)
    BY <1>0, <2>1, <2>3, Rises, Zenon
  <2>5. r.scl = 1 /\ r.sda = 1 /\ Same(s, r)
    BY <1>0, <2>4 DEF Risen
  <2>6. QED
    BY <1>0, <1>2, <2>3, <2>5 DEF StopState
<1>3. CASE n = 2
  <2>1. o.scl = 1 /\ o.sda = 0
    BY <1>3 DEF StopState
  <2>2. Sets(1, 1, o, s, h, k, p, r, g)
    BY <1>0, <1>3, StopOps, SetIsOp DEF Runs
  <2>3. /\ g = h /\ p \in Levels /\ p.sda = 1 /\ p.scl = 1 /\ (k = "none" => r = s)
        /\ k # "none" => Edge(s, o, p, r) /\ p = [sda |-> p.sda, scl |-> p.scl]
    BY <1>0, <2>1, <2>2, SetsFacts
  <2>4. Halted(s, r)
    BY <1>0, <2>1, <2>3, Stops, Zenon
  <2>5. p = High
    BY <2>3 DEF Levels, High
  <2>6. QED
    BY <1>3, <2>3, <2>4, <2>5 DEF StopState, Halted
<1>4. QED
  BY <1>1, <1>2, <1>3

\* The clocks of the set-up.
LEMMA NeedsFewer ==
    ASSUME NEW s, NEW r, NEW d, SensingLow(s), s.scl = 1, s.mode # "idle", Risen(s, d, r), d = s.sda
    PROVE  Needs(r) <= Needs(s) - 1 /\ Needs(s) \in Int /\ (r.mode = "read" /\ r.clocks = ByteBits + 1 => r.nack = 1)
<1>1. /\ s \in Sensors /\ s.clocks \in 0 .. ByteBits /\ ByteBits \in Nat \ {0} /\ s.bits \in Nat /\ s.mode \in Modes
      /\ s.mode \in {"address", "write"} /\ s.clocks < ByteBits => s.sda = 1
      /\ s.mode = "write" /\ s.clocks = ByteBits => s.bits \in Known
      /\ s.mode = "read" /\ s.clocks = ByteBits => s.sda = 1
  BY BusAssumption DEF Sensing, SensingLow, Sensors
<1>2. /\ r.mode = s.mode /\ r.clocks = s.clocks + 1 /\ r.nack = d
      /\ s.mode \in {"address", "write"} /\ s.clocks < ByteBits => r.bits = 2 * s.bits + d
      /\ ~(s.clocks < ByteBits) => r.bits = s.bits
  BY DEF Risen
<1>3. Ones(s) => Ones(r)
  <2> SUFFICES ASSUME Ones(s) PROVE Ones(r)
    OBVIOUS
  <2>1. s.mode = "write" /\ s.bits = 2 ^ s.clocks - 1
    BY DEF Ones
  <2>2. s.clocks # ByteBits
    BY BusAssumption, <1>1, <2>1 DEF Known
  <2>3. s.clocks < ByteBits /\ d = 1 /\ r.bits = 2 * s.bits + 1
    <3>1. s.clocks < ByteBits
      BY <1>1, <2>2
    <3>2. s.mode \in {"address", "write"}
      BY <2>1
    <3>3. s.sda = 1 /\ r.bits = 2 * s.bits + d
      BY <1>1, <1>2, <3>1, <3>2, Zenon
    <3>4. QED
      BY <3>1, <3>3
  <2>4. PICK q \in Nat : q = 2 ^ s.clocks /\ 2 ^ (s.clocks + 1) = 2 * q
    BY <1>1, PowerFacts
  <2>5. r.bits = 2 ^ (s.clocks + 1) - 1
    BY <2>1, <2>3, <2>4
  <2>6. r.clocks <= ByteBits
    BY <1>1, <1>2, <2>3
  <2>7. QED
    BY <1>2, <2>1, <2>5, <2>6 DEF Ones
<1>4. PICK u, v : /\ u = (IF s.mode = "read" \/ Ones(s) THEN ByteBits + 1 ELSE 2 * (ByteBits + 1))
                  /\ v = (IF r.mode = "read" \/ Ones(r) THEN ByteBits + 1 ELSE 2 * (ByteBits + 1))
  OBVIOUS
<1>5. v <= u /\ u \in Int /\ v \in Int
  <2>1. u \in {ByteBits + 1, 2 * (ByteBits + 1)} /\ v \in {ByteBits + 1, 2 * (ByteBits + 1)}
    BY <1>4
  <2>2. u = ByteBits + 1 => v = ByteBits + 1
    <3>1. CASE s.mode = "read" \/ Ones(s)
      BY <1>2, <1>3, <1>4, <3>1
    <3>2. CASE ~(s.mode = "read" \/ Ones(s))
      BY <1>1, <1>4, <3>2
    <3>3. QED
      BY <3>1, <3>2
  <2>3. QED
    BY <1>1, <2>1, <2>2
<1>6. Needs(s) = u - s.clocks /\ Needs(r) = v - r.clocks
  BY <1>4 DEF Needs
<1>7. QED
  BY <1>1, <1>2, <1>5, <1>6

LEMMA NeedsStay ==
    ASSUME NEW s, NEW r, r.mode = s.mode, r.clocks = s.clocks, r.bits = s.bits
    PROVE  Needs(r) = Needs(s)
  BY DEF Needs, Ones

LEMMA NeedsType ==
    ASSUME NEW s \in Sensors
    PROVE  Needs(s) \in Nat /\ Needs(s) <= 2 * (ByteBits + 1)
<1>1. s.clocks \in 0 .. ByteBits + 1 /\ ByteBits \in Nat
  BY BusAssumption DEF Sensors
<1>2. PICK u : u = (IF s.mode = "read" \/ Ones(s) THEN ByteBits + 1 ELSE 2 * (ByteBits + 1))
  OBVIOUS
<1>3. u \in {ByteBits + 1, 2 * (ByteBits + 1)} /\ Needs(s) = u - s.clocks
  BY <1>2 DEF Needs
<1>4. QED
  BY <1>1, <1>3

\* A clock that goes down does not put it off.
LEMMA NeedsNoMore ==
    ASSUME NEW s, NEW r, Sensing(s), s.scl = 1, r = B!Fall(s), r.scl = 1, r.mode # "idle",
           s.mode = "read" /\ s.clocks = ByteBits + 1 => s.nack = 1
    PROVE  Needs(r) <= Needs(s)
<1>1. /\ s \in Sensors /\ s.clocks \in 0 .. ByteBits + 1 /\ ByteBits \in Nat \ {0} /\ s.mode \in Modes
  BY BusAssumption DEF Sensing, Sensors
<1>2. Needs(s) \in Nat /\ Needs(s) <= 2 * (ByteBits + 1)
  BY <1>1, NeedsType
<1>3. /\ s.mode \notin {"address", "write"} => s.mode = "idle" \/ s.mode = "read"
      /\ s.mode # "read" => s.mode = "idle" \/ s.mode \in {"address", "write"}
  BY <1>1 DEF Modes
<1>4. CASE s.mode = "idle"
  BY <1>4, FallIs
<1>5. CASE s.mode \in {"address", "write"} /\ s.clocks < ByteBits
  <2>1. r = s
    BY <1>5, FallIs
  <2>2. QED
    BY <1>2, <2>1
<1>6. CASE s.mode \in {"address", "write"} /\ s.clocks = ByteBits
  <2>1. r = [s EXCEPT !.sda = 0] \/ r = B!Idle(s)
    BY <1>6, FallIs
  <2>2. r # B!Idle(s)
    BY <1>1, IdleIs DEF Halted
  <2>3. r.mode = s.mode /\ r.clocks = s.clocks /\ r.bits = s.bits
    BY <1>1, <2>1, <2>2 DEF Sensors
  <2>4. Needs(r) = Needs(s)
    BY <2>3, NeedsStay
  <2>5. QED
    BY <1>2, <2>4
<1>7. CASE s.mode \in {"address", "write"} /\ s.clocks = ByteBits + 1
  <2>1. r = B!Acknowledged(s)
    BY <1>7, FallIs
  <2>2. Needs(s) = ByteBits + 1
    BY <1>1, <1>7 DEF Ones, Needs
  <2>3. r.clocks = 0 /\ r.bits = 0 /\ (r.mode = "write" \/ r.mode = "read")
    BY <1>7, <2>1, AcknowledgedSenses
  <2>4. r.mode = "write" => Ones(r)
    BY <1>1, <2>3, PowerFacts DEF Ones
  <2>5. Needs(r) = ByteBits + 1
    BY <1>1, <2>3, <2>4 DEF Needs
  <2>6. QED
    BY <1>1, <2>2, <2>5
<1>8. CASE s.mode = "read" /\ s.clocks <= ByteBits
  <2>1. r.mode = s.mode /\ r.clocks = s.clocks /\ r.bits = s.bits
    <3>1. CASE s.clocks = 0
      BY <1>8, <3>1, FallIs
    <3>2. CASE s.clocks \in 1 .. ByteBits - 1
      BY <1>8, <3>2, FallIs, <1>1 DEF Sensors
    <3>3. CASE s.clocks = ByteBits
      BY <1>8, <3>3, FallIs, <1>1 DEF Sensors
    <3>4. QED
      BY <1>1, <1>8, <3>1, <3>2, <3>3
  <2>2. Needs(r) = Needs(s)
    BY <2>1, NeedsStay
  <2>3. QED
    BY <1>2, <2>2
<1>9. CASE s.mode = "read" /\ s.clocks = ByteBits + 1
  BY <1>9, FallIs, <1>1, IdleIs DEF Halted
<1>10. QED
  BY <1>1, <1>3, <1>4, <1>5, <1>6, <1>7, <1>8, <1>9

\* The lines and the sensor before and after each clock.
LEMMA ClockUp ==
    ASSUME NEW j \in 0 .. InitClocks, NEW o, NEW s, NEW k, s.scl = 1, Clocked(o, s, j),
           o = IF j = 0 THEN Low ELSE High
    PROVE  SetupState(o, s, k, 4 + 2 * j)
<1>1. InitClocks \in Nat
  BY BusAssumption
<1>2. 4 + 2 * j \notin 0..1 /\ (4 + 2 * j \in 2..4 => j = 0)
  BY <1>1
<1>3. \A t \in 0 .. InitClocks : (4 + 2 * j = 4 + 2 * t => t = j) /\ 4 + 2 * j # 5 + 2 * t
  BY <1>1
<1>4. 4 + 2 * j \notin 5 + 2 * InitClocks .. 6 + 2 * InitClocks /\ 4 + 2 * j # 7 + 2 * InitClocks
  BY <1>1
<1>5. j = 0 => o.scl = 0 /\ o = Low
  BY DEF Low
<1>6. QED
  BY <1>2, <1>3, <1>4, <1>5, Zenon DEF SetupState

LEMMA ClockDown ==
    ASSUME NEW j \in 0 .. InitClocks - 1, NEW s, NEW k, s.scl = 1, Clocked(Low, s, j)
    PROVE  SetupState(Low, s, k, 5 + 2 * j)
<1>1. InitClocks \in Nat
  BY BusAssumption
<1>2. 5 + 2 * j \notin 0..1 /\ 5 + 2 * j \notin 2..4
  BY <1>1
<1>3. \A t \in 0 .. InitClocks : (5 + 2 * j = 5 + 2 * t => t = j) /\ 5 + 2 * j # 4 + 2 * t
  BY <1>1
<1>4. 5 + 2 * j \notin 5 + 2 * InitClocks .. 6 + 2 * InitClocks /\ 5 + 2 * j # 7 + 2 * InitClocks
  BY <1>1
<1>5. QED
  BY <1>2, <1>3, <1>4, Zenon DEF SetupState

\* The ends of the set-up.
LEMMA SetupBegins ==
    ASSUME NEW n \in 0..3, NEW o, NEW s, NEW k, n > 0 => s.scl = 1, n \in 0..1 => o = High, n \in 2..3 => o.scl = 0
    PROVE  SetupState(o, s, k, n)
<1>1. InitClocks \in Nat
  BY BusAssumption
<1>2. n # 4 /\ (n \in 2..4 => n \in 2..3)
  OBVIOUS
<1>3. \A t \in 0 .. InitClocks : n # 4 + 2 * t /\ n # 5 + 2 * t
  BY <1>1
<1>4. n \notin 5 + 2 * InitClocks .. 6 + 2 * InitClocks /\ n # 7 + 2 * InitClocks
  BY <1>1
<1>5. QED
  BY <1>2, <1>3, <1>4, Zenon DEF SetupState

LEMMA SetupEnds ==
    ASSUME NEW n \in 5 + 2 * InitClocks .. 7 + 2 * InitClocks, NEW o, NEW s, NEW k, s.scl = 1,
           n < 7 + 2 * InitClocks => o = [sda |-> 0, scl |-> 1] /\ (k # "none" => s.mode = "address" /\ s.clocks = 0),
           n = 7 + 2 * InitClocks => o = High /\ s.mode = "idle"
    PROVE  SetupState(o, s, k, n)
<1>1. InitClocks \in Nat /\ InitClocks > 0 /\ n \in Nat
  BY BusAssumption
<1>2. n \notin 0..1 /\ n \notin 2..4
  BY <1>1
<1>4. \A t \in 0 .. InitClocks : n # 4 + 2 * t /\ ~(n = 5 + 2 * t /\ t < InitClocks)
  BY <1>1
<1>5. n \in 5 + 2 * InitClocks .. 6 + 2 * InitClocks => n < 7 + 2 * InitClocks
  BY <1>1
<1>6. QED
  BY <1>2, <1>4, <1>5, Zenon DEF SetupState

\* A sensor that does not hold the clock did not before the step.
LEMMA NotHeld ==
    ASSUME NEW o, NEW s, NEW k, NEW p, NEW r, Sound(o, s, k), r.scl = 1,
           k = "none" => r = s, k # "none" => Edge(s, o, p, r)
    PROVE  s.scl = 1
<1>1. s.scl \in 0..1
  BY SoundFacts
<1>2. CASE k = "none"
  BY <1>2
<1>3. CASE k # "none"
  <2>1. s.scl = 0 => r = s
    BY <1>3, Zenon DEF Edge
  <2>2. QED
    BY <1>1, <2>1
<1>4. QED
  BY <1>2, <1>3

LEMMA SetupStep ==
    ASSUME NEW n \in 0 .. 6 + 2 * InitClocks, NEW o, NEW s, NEW h, NEW k, NEW p, NEW r, NEW g,
           Sound(o, s, k), Sound(p, r, k), SetupState(o, s, k, n), r.scl = 1,
           Runs(B!i2c_master_gpio_init[n + 1], o, s, h, k, p, r, g)
    PROVE  SetupState(p, r, k, n + 1)
<1>0. /\ InitClocks \in Nat /\ InitClocks > 2 * (ByteBits + 1) /\ ByteBits \in Nat
      /\ 0 \in 0..2 /\ 1 \in 0..2 /\ 2 \in 0..2 /\ 0 # 2 /\ 1 # 2
  BY BusAssumption
<1>s. /\ o \in Levels /\ o.sda \in 0..1 /\ o.scl \in 0..1 /\ s \in Sensors /\ Sensing(s)
      /\ k = "none" => s.mode = "idle"
      /\ s.scl = 1 /\ o.scl = 0 => SensingLow(s)
  BY SoundFacts
<1>h. High.sda = 1 /\ High.scl = 1 /\ Low.sda = 1 /\ Low.scl = 0
  BY DEF High, Low
<1>m. ASSUME NEW a \in 0..1, NEW c \in 0..1, B!i2c_master_gpio_init[n + 1] = B!Set(a, c)
      PROVE  /\ p \in Levels /\ p.sda = a /\ p.scl = c /\ (k = "none" => r = s) /\ s.scl = 1
             /\ k # "none" => Edge(s, o, p, r)
             /\ a = 1 /\ c = 1 => p = High
             /\ a = 1 /\ c = 0 => p = Low
             /\ a = 0 /\ c = 1 => p = [sda |-> 0, scl |-> 1]
  <2>1. a \in 0..2 /\ c \in 0..2 /\ a # 2 /\ c # 2
    OBVIOUS
  <2>2. Sets(a, c, o, s, h, k, p, r, g)
    BY <1>m, <2>1 DEF Runs
  <2>3. /\ p \in Levels /\ p.sda = a /\ p.scl = c /\ (k = "none" => r = s)
        /\ k # "none" => Edge(s, o, p, r)
        /\ p = [sda |-> p.sda, scl |-> p.scl]
    BY <2>1, <2>2, SetsFacts
  <2>4. s.scl = 1
    BY <2>3, NotHeld, Zenon
  <2>5. QED
    BY <2>3, <2>4 DEF High, Low
<1>1. CASE n = 0
  <2>1. o = High /\ B!i2c_master_gpio_init[n + 1] = B!Set(1, 1)
    BY <1>1, SetupOps DEF SetupState
  <2>2. p = High /\ (k = "none" => r = s) /\ (k # "none" => Edge(s, o, p, r))
    BY <1>m, <2>1
  <2>3. SetupState(p, r, k, 1)
    BY <2>2, SetupBegins
  <2>4. QED
    BY <1>1, <2>3
<1>2. CASE n = 1
  <2>1. B!i2c_master_gpio_init[n + 1] = B!Set(1, 0)
    BY <1>2, SetupOps
  <2>2. p.scl = 0
    BY <1>m, <2>1
  <2>3. SetupState(p, r, k, 2)
    BY <2>2, SetupBegins
  <2>4. QED
    BY <1>2, <2>3
<1>3. CASE n = 2
  <2>1. B!i2c_master_gpio_init[n + 1] = B!Set(0, 0)
    BY <1>3, SetupOps
  <2>2. p.scl = 0
    BY <1>m, <2>1
  <2>3. SetupState(p, r, k, 3)
    BY <2>2, SetupBegins
  <2>4. QED
    BY <1>3, <2>3
<1>4. CASE n = 3
  <2>1. B!i2c_master_gpio_init[n + 1] = B!Set(1, 0) /\ o.scl = 0
    BY <1>4, SetupOps DEF SetupState
  <2>2. p = Low /\ p.scl = 0 /\ (k = "none" => r = s) /\ (k # "none" => Edge(s, o, p, r))
    BY <1>m, <2>1
  <2>3. r = s
    BY <2>1, <2>2, Stays DEF Quiet
  <2>4. Clocked(Low, r, 0)
    BY <1>0, <1>s, <1>h, <2>3, NeedsType DEF Clocked
  <2>5. 0 \in 0 .. InitClocks /\ 4 + 2 * 0 = 4
    BY <1>0
  <2>6. SetupState(p, r, k, 4 + 2 * 0)
    BY <2>2, <2>4, <2>5, ClockUp
  <2>7. QED
    BY <1>4, <2>6
<1>5. CASE \E j \in 0 .. InitClocks - 1 : n = 4 + 2 * j
  <2>1. PICK j \in 0 .. InitClocks - 1 : n = 4 + 2 * j
    BY <1>5
  <2>2. n + 1 = 2 * j + 5 /\ j \in 0 .. InitClocks /\ n + 1 = 5 + 2 * j
    BY <1>0, <2>1
  <2>3. B!i2c_master_gpio_init[n + 1] = B!Set(1, 0)
    BY <2>2, SetupOps
  <2>4. o = (IF j = 0 THEN Low ELSE High) /\ Clocked(o, s, j)
    BY <2>1, <2>2, Zenon DEF SetupState
  <2>5. /\ p = Low /\ p \in Levels /\ p.scl = 0 /\ (k = "none" => r = s) /\ s.scl = 1
        /\ (k # "none" => Edge(s, o, p, r))
    BY <1>m, <2>3
  <2>6. Clocked(Low, r, j)
    <3>1. CASE j = 0 \/ k = "none"
      <4>1. r = s
        <5>1. CASE j = 0
          BY <1>h, <2>4, <5>1, <2>5, Stays DEF Quiet
        <5>2. QED
          BY <2>5, <3>1, <5>1
      <4>2. QED
        BY <1>h, <2>4, <4>1 DEF Clocked
    <3>2. CASE j # 0 /\ k # "none"
      <4>1. o.scl = 1
        BY <1>h, <2>4, <3>2
      <4>2. r = B!Fall(s) /\ Sensing(s)
        BY <2>5, <3>2, <4>1, Falls, Zenon
      <4>3. s.mode = "read" /\ s.clocks = ByteBits + 1 => s.nack = 1
        BY <2>4, <4>1 DEF Clocked
      <4>4. r.mode # "idle" => Needs(r) <= Needs(s) /\ s.mode # "idle"
        <5> SUFFICES ASSUME r.mode # "idle" PROVE Needs(r) <= Needs(s) /\ s.mode # "idle"
          OBVIOUS
        <5>1. Needs(r) <= Needs(s)
          BY <2>5, <4>2, <4>3, NeedsNoMore
        <5>2. s.mode = "idle" => r = s
          BY <4>2, FallIs
        <5>3. QED
          BY <5>1, <5>2
      <4>5. Needs(s) \in Nat /\ (s.mode # "idle" => Needs(s) <= 2 * (ByteBits + 1) - j)
        BY <1>s, <2>4, NeedsType DEF Clocked
      <4>6. r.mode # "idle" => Needs(r) <= 2 * (ByteBits + 1) - j
        <5> SUFFICES ASSUME r.mode # "idle" PROVE Needs(r) <= 2 * (ByteBits + 1) - j
          OBVIOUS
        <5>1. SensingLow(r)
          BY <2>5, <4>2, FallSenses, Zenon
        <5>2. Needs(r) \in Nat
          BY <5>1, NeedsType DEF Sensing, SensingLow
        <5>3. QED
          BY <1>0, <4>4, <4>5, <5>2
      <4>7. QED
        BY <1>h, <4>6 DEF Clocked
    <3>3. QED
      BY <3>1, <3>2
  <2>7. SetupState(Low, r, k, 5 + 2 * j)
    BY <2>6, ClockDown
  <2>8. QED
    BY <2>2, <2>5, <2>7
<1>6. CASE \E j \in 0 .. InitClocks - 1 : n = 5 + 2 * j
  <2>1. PICK j \in 0 .. InitClocks - 1 : n = 5 + 2 * j
    BY <1>6
  <2>2. n + 1 = 2 * j + 6 /\ j \in 0 .. InitClocks /\ n + 1 = 4 + 2 * (j + 1) /\ j < InitClocks
        /\ j + 1 \in 0 .. InitClocks /\ j + 1 # 0
    BY <1>0, <2>1
  <2>3. B!i2c_master_gpio_init[n + 1] = B!Set(1, 1)
    BY <2>2, SetupOps
  <2>4. o = Low /\ Clocked(o, s, j) /\ o.scl = 0
    BY <1>h, <2>1, <2>2, Zenon DEF SetupState
  <2>5. /\ p = High /\ p \in Levels /\ p.sda = 1 /\ p.scl = 1 /\ (k = "none" => r = s) /\ s.scl = 1
        /\ (k # "none" => Edge(s, o, p, r))
    BY <1>m, <2>3
  <2>6. Risen(s, IF s.sda = 1 THEN p.sda ELSE 0, r) /\ SensingLow(s)
    BY <1>s, <2>4, <2>5, Rises, Zenon
  <2>7. PICK d : d = IF s.sda = 1 THEN p.sda ELSE 0
    OBVIOUS
  <2>8. d = s.sda /\ Risen(s, d, r) /\ r.mode = s.mode
    BY <1>s, <2>5, <2>6, <2>7 DEF Sensors, Risen
  <2>9. r.mode # "idle" => /\ Needs(r) <= 2 * (ByteBits + 1) - (j + 1)
                           /\ r.mode = "read" /\ r.clocks = ByteBits + 1 => r.nack = 1
    <3> SUFFICES ASSUME r.mode # "idle"
                 PROVE  /\ Needs(r) <= 2 * (ByteBits + 1) - (j + 1)
                        /\ r.mode = "read" /\ r.clocks = ByteBits + 1 => r.nack = 1
      OBVIOUS
    <3>1. /\ Needs(r) <= Needs(s) - 1
          /\ r.mode = "read" /\ r.clocks = ByteBits + 1 => r.nack = 1
      BY <2>5, <2>6, <2>8, NeedsFewer
    <3>2. Needs(s) \in Nat /\ Needs(s) <= 2 * (ByteBits + 1) - j
      BY <1>s, <2>4, <2>8, NeedsType DEF Clocked
    <3>3. Needs(r) \in Nat
      BY NeedsType, SoundFacts
    <3>4. QED
      BY <1>0, <3>1, <3>2, <3>3
  <2>10. Clocked(p, r, j + 1)
    BY <2>9 DEF Clocked
  <2>11. p = IF j + 1 = 0 THEN Low ELSE High
    BY <2>2, <2>5
  <2>12. SetupState(p, r, k, 4 + 2 * (j + 1))
    BY <2>2, <2>10, <2>11, ClockUp
  <2>13. QED
    BY <2>2, <2>12
<1>7. CASE n = 4 + 2 * InitClocks
  <2>1. n + 1 = 5 + 2 * InitClocks /\ InitClocks \in 0 .. InitClocks /\ InitClocks # 0
    BY <1>0, <1>7
  <2>2. B!i2c_master_gpio_init[n + 1] = B!Set(0, 2)
    BY <2>1, SetupOps, SetIsOp
  <2>3. o = High /\ Clocked(o, s, InitClocks)
    BY <1>7, <2>1, Zenon DEF SetupState
  <2>4. s.mode = "idle"
    <3>1. s.mode # "idle" => Needs(s) <= 2 * (ByteBits + 1) - InitClocks
      BY <2>3 DEF Clocked
    <3>2. Needs(s) \in Nat
      BY <1>s, NeedsType
    <3>3. QED
      BY <1>0, <3>1, <3>2
  <2>5. Sets(0, 2, o, s, h, k, p, r, g)
    BY <1>0, <2>2 DEF Runs
  <2>6. /\ p \in Levels /\ p.sda = 0 /\ p.scl = 1 /\ (k = "none" => r = s)
        /\ (k # "none" => Edge(s, o, p, r)) /\ p = [sda |-> p.sda, scl |-> p.scl]
    BY <1>0, <1>h, <2>3, <2>5, SetsFacts
  <2>7. s.scl = 1
    BY <2>6, NotHeld, Zenon
  <2>8. Begun(s, k, r)
    BY <1>h, <2>3, <2>4, <2>6, <2>7, SoundFacts, Starts
  <2>9. p = [sda |-> 0, scl |-> 1] /\ (k # "none" => r.mode = "address" /\ r.clocks = 0)
    BY <2>6, <2>8 DEF Begun
  <2>10. QED
    BY <1>0, <2>1, <2>9, SetupEnds
<1>8. CASE n = 5 + 2 * InitClocks
  <2>1. n + 1 = 6 + 2 * InitClocks
    BY <1>0, <1>8
  <2>2. B!i2c_master_gpio_init[n + 1] = B!Set(0, 1)
    BY <2>1, SetupOps
  <2>3. o = [sda |-> 0, scl |-> 1] /\ (k # "none" => s.mode = "address" /\ s.clocks = 0)
    <3>1. n \in 5 + 2 * InitClocks .. 6 + 2 * InitClocks
      BY <1>0, <1>8
    <3>2. QED
      BY <3>1, Zenon DEF SetupState
  <2>4. /\ p = [sda |-> 0, scl |-> 1] /\ (k = "none" => r = s) /\ (k # "none" => Edge(s, o, p, r))
    BY <1>m, <2>2
  <2>5. r = s
    <3>1. Quiet(o, p)
      BY <2>3, <2>4 DEF Quiet
    <3>2. QED
      BY <2>4, <3>1, Stays
  <2>6. QED
    BY <1>0, <2>1, <2>3, <2>4, <2>5, SetupEnds
<1>9. CASE n = 6 + 2 * InitClocks
  <2>1. n + 1 = 7 + 2 * InitClocks
    BY <1>0, <1>9
  <2>2. B!i2c_master_gpio_init[n + 1] = B!Set(1, 1)
    BY <2>1, SetupOps
  <2>3. o = [sda |-> 0, scl |-> 1] /\ (k # "none" => s.mode = "address" /\ s.clocks = 0)
    <3>1. n \in 5 + 2 * InitClocks .. 6 + 2 * InitClocks
      BY <1>0, <1>9
    <3>2. QED
      BY <3>1, Zenon DEF SetupState
  <2>4. /\ p = High /\ p \in Levels /\ (k = "none" => r = s) /\ (k # "none" => Edge(s, o, p, r)) /\ s.scl = 1
    BY <1>m, <2>2
  <2>5. s.sda = 1
    <3>1. k # "none" => s.clocks < ByteBits /\ s.mode \in {"address", "write"}
      BY <2>3, BusAssumption
    <3>2. k # "none" => s.sda = 1
      BY <1>s, <3>1, Zenon DEF Sensing
    <3>3. QED
      BY <1>s, <3>2, SoundFacts
  <2>6. Halted(s, r)
    BY <1>h, <2>3, <2>4, <2>5, Stops, Zenon
  <2>7. QED
    BY <1>0, <2>1, <2>4, <2>6, SetupEnds DEF Halted
<1>10. QED
  <2>1. \/ n \in 0..3 \/ n \in {4 + 2 * InitClocks, 5 + 2 * InitClocks, 6 + 2 * InitClocks}
        \/ \E j \in 0 .. InitClocks - 1 : n = 4 + 2 * j
        \/ \E j \in 0 .. InitClocks - 1 : n = 5 + 2 * j
    <3>1. n = 2 * (n \div 2) + (n % 2) /\ n \div 2 \in Nat /\ n % 2 \in 0..1
      OBVIOUS
    <3>2. PICK q \in Nat, e \in 0..1 : n = 2 * q + e
      BY <3>1
    <3>3. CASE q < 2
      BY <3>2, <3>3
    <3>4. CASE q >= 2 /\ q - 2 < InitClocks
      <4>1. q - 2 \in 0 .. InitClocks - 1 /\ (n = 4 + 2 * (q - 2) \/ n = 5 + 2 * (q - 2))
        BY <1>0, <3>2, <3>4
      <4>2. QED
        BY <4>1
    <3>5. CASE q >= 2 /\ q - 2 >= InitClocks
      BY <1>0, <3>2, <3>5
    <3>6. QED
      BY <1>0, <3>2, <3>3, <3>4, <3>5
  <2>2. QED
    BY <1>1, <1>2, <1>3, <1>4, <1>5, <1>6, <1>7, <1>8, <1>9, <2>1

\* A byte is written to a sensor that was asked for.
Wanted(s, k, mode, byte) ==
    /\ k \in {"holds", "refuses", "none"} /\ byte \in B!ByteValues
    /\ \/ mode = "write" /\ byte \in Known
       \/ mode = "address" /\ byte = Address /\ s.work \in {"none", "done"}
       \/ mode = "address" /\ byte = Address + 1 /\ (k # "none" => s.work \in {"measures", "done"})

LEMMA WantedFacts ==
    ASSUME NEW s, NEW k, NEW mode, NEW byte, Wanted(s, k, mode, byte)
    PROVE  /\ byte \in B!ByteValues /\ byte \in Nat /\ mode \in {"address", "write"} /\ mode # "idle" /\ mode # "read"
           /\ Address \in Nat /\ Address + 1 # Address
<1>1. Address \in Nat
  BY OpsTyped
<1>2. byte \in B!ByteValues /\ mode \in {"address", "write"}
  BY DEF Wanted
<1>3. QED
  BY <1>1, <1>2, HeardIsByte

\* A bit is put on the lines,
LEMMA BitPut ==
    ASSUME NEW o, NEW s, NEW h, NEW k, NEW p, NEW r, NEW g, NEW mode, NEW byte, NEW c \in 0 .. ByteBits - 1,
           Sound(o, s, k), Wanted(s, k, mode, byte), BitState(o, s, h, k, mode, byte, c, 0),
           Sets(B!Bit(byte, c + 1), 0, o, s, h, k, p, r, g)
    PROVE  BitState(p, r, g, k, mode, byte, c, 1) /\ r = s
<1>0. /\ ByteBits \in Nat /\ c < ByteBits /\ c + 1 \in 1 .. ByteBits /\ mode \in {"address", "write"} /\ byte \in Nat
      /\ 0 \in 0..2 /\ 0 # 2
  BY BusAssumption, WantedFacts
<1>1. PICK b \in 0..1 : b = B!Bit(byte, c + 1)
  BY <1>0, BitIsBit
<1>2. s.scl = 1 /\ h = 0 /\ Written1(s, k, mode, byte, c)
  BY DEF BitState
<1>3. b \in 0..2 /\ b # 2
  OBVIOUS
<1>4. Sets(b, 0, o, s, h, k, p, r, g)
  BY <1>1
<1>5. /\ g = h /\ p \in Levels /\ p.sda = b /\ p.scl = 0 /\ (k = "none" => r = s)
      /\ k # "none" => Edge(s, o, p, r)
      /\ p = [sda |-> p.sda, scl |-> p.scl]
  BY <1>0, <1>3, <1>4, SetsFacts
<1>6. r = s
  <2>1. CASE k = "none"
    BY <1>5, <2>1
  <2>2. CASE k # "none" /\ o.scl = 0
    BY <1>5, <2>2, Stays DEF Quiet
  <2>3. CASE k # "none" /\ o.scl = 1
    <3>1. r = B!Fall(s) /\ Sensing(s)
      BY <1>2, <1>5, <2>3, Falls, Zenon
    <3>2. s.mode \in {"address", "write"} /\ s.clocks < ByteBits
      BY <1>0, <1>2, <2>3 DEF Written1
    <3>3. QED
      BY <3>1, <3>2, FallIs
  <2>4. QED
    BY <2>1, <2>2, <2>3, SoundFacts
<1>7. p = [sda |-> B!Bit(byte, c + 1), scl |-> 0]
  BY <1>1, <1>5
<1>8. QED
  BY <1>2, <1>5, <1>6, <1>7 DEF BitState

\* the sensor sees it,
LEMMA BitSeen ==
    ASSUME NEW o, NEW s, NEW h, NEW k, NEW p, NEW r, NEW g, NEW mode, NEW byte, NEW c \in 0 .. ByteBits - 1,
           Sound(o, s, k), Wanted(s, k, mode, byte), BitState(o, s, h, k, mode, byte, c, 1),
           Sets(B!Bit(byte, c + 1), 1, o, s, h, k, p, r, g)
    PROVE  BitState(p, r, g, k, mode, byte, c, 2) /\ Same(s, r)
<1>0. /\ ByteBits \in Nat /\ c < ByteBits /\ c + 1 \in 1 .. ByteBits /\ mode \in {"address", "write"} /\ byte \in Nat
      /\ 1 \in 0..2 /\ 1 # 2 /\ byte \in B!ByteValues
  BY BusAssumption, WantedFacts
<1>1. PICK b \in 0..1 : b = B!Bit(byte, c + 1)
  BY <1>0, BitIsBit
<1>2. s.scl = 1 /\ h = 0 /\ Written1(s, k, mode, byte, c) /\ o.scl = 0
  BY DEF BitState
<1>3. b \in 0..2 /\ b # 2
  OBVIOUS
<1>4. Sets(b, 1, o, s, h, k, p, r, g)
  BY <1>1
<1>5. /\ g = h /\ p \in Levels /\ p.sda = b /\ p.scl = 1 /\ (k = "none" => r = s)
      /\ k # "none" => Edge(s, o, p, r)
      /\ p = [sda |-> p.sda, scl |-> p.scl]
  BY <1>0, <1>3, <1>4, SetsFacts
<1>6. Risen(s, IF s.sda = 1 THEN p.sda ELSE 0, r) /\ SensingLow(s)
  BY <1>2, SoundFacts, <1>5, Rises, Zenon
<1>7. k # "none" => s.mode = mode /\ s.clocks = c /\ s.bits = First(byte, c) /\ s.sda = 1
  <2> SUFFICES ASSUME k # "none" PROVE s.mode = mode /\ s.clocks = c /\ s.bits = First(byte, c) /\ s.sda = 1
    OBVIOUS
  <2>1. s.mode = mode /\ s.clocks = c /\ s.bits = First(byte, c)
    BY <1>2 DEF Written1
  <2>2. s.mode \in {"address", "write"} /\ s.clocks < ByteBits
    BY <1>0, <2>1
  <2>3. s.sda = 1
    BY <1>6, <2>2, Zenon DEF Sensing, SensingLow
  <2>4. QED
    BY <2>1, <2>3
<1>8. Written1(r, k, mode, byte, c + 1)
  <2> SUFFICES ASSUME k # "none" PROVE r.mode = mode /\ r.clocks = c + 1 /\ r.bits = First(byte, c + 1)
    BY DEF Written1
  <2>1. PICK d : d = IF s.sda = 1 THEN p.sda ELSE 0
    OBVIOUS
  <2>2. d = b /\ Risen(s, d, r)
    BY <1>5, <1>6, <1>7, <2>1
  <2>3. s.mode # "idle" /\ s.mode \in {"address", "write"} /\ s.clocks < ByteBits
    BY <1>0, <1>7
  <2>4. r.mode = s.mode /\ r.clocks = s.clocks + 1 /\ r.bits = 2 * s.bits + d
    BY <2>2, <2>3, Zenon DEF Risen
  <2>5. First(byte, c + 1) = 2 * First(byte, c) + B!Bit(byte, c + 1)
    BY <1>0, FirstFacts
  <2>6. QED
    BY <1>1, <1>7, <2>2, <2>4, <2>5
<1>9. r.scl = 1 /\ Same(s, r)
  BY <1>6 DEF Risen
<1>10. p = [sda |-> B!Bit(byte, c + 1), scl |-> 1]
  BY <1>1, <1>5
<1>11. QED
  BY <1>2, <1>5, <1>8, <1>9, <1>10 DEF BitState

\* and it is over, or the byte is.
LEMMA BitOver ==
    ASSUME NEW o, NEW s, NEW h, NEW k, NEW p, NEW r, NEW g, NEW mode, NEW byte, NEW c \in 0 .. ByteBits - 1,
           Sound(o, s, k), Wanted(s, k, mode, byte), BitState(o, s, h, k, mode, byte, c, 2), k = kind,
           Sets(B!Bit(byte, c + 1), 0, o, s, h, k, p, r, g)
    PROVE  /\ c + 1 < ByteBits => BitState(p, r, g, k, mode, byte, c + 1, 0)
           /\ c + 1 = ByteBits => AckedState(p, r, g, k, mode, byte, 0)
           /\ Same(s, r)
<1>0. /\ ByteBits \in Nat /\ c < ByteBits /\ c + 1 \in 1 .. ByteBits /\ mode \in {"address", "write"} /\ byte \in Nat
      /\ 0 \in 0..2 /\ 0 # 2 /\ byte \in B!ByteValues
  BY BusAssumption, WantedFacts
<1>1. PICK b \in 0..1 : b = B!Bit(byte, c + 1)
  BY <1>0, BitIsBit
<1>2. s.scl = 1 /\ h = 0 /\ Written1(s, k, mode, byte, c + 1) /\ o.scl = 1
  BY DEF BitState
<1>3. b \in 0..2 /\ b # 2
  OBVIOUS
<1>4. Sets(b, 0, o, s, h, k, p, r, g)
  BY <1>1
<1>5. /\ g = h /\ p \in Levels /\ p.sda = b /\ p.scl = 0 /\ (k = "none" => r = s)
      /\ k # "none" => Edge(s, o, p, r)
  BY <1>0, <1>3, <1>4, SetsFacts
<1>6. k # "none" => r = B!Fall(s) /\ Sensing(s) /\ s.mode = mode /\ s.clocks = c + 1 /\ s.bits = First(byte, c + 1)
  BY <1>2, <1>5, Falls, Zenon DEF Written1
<1>7. CASE k = "none"
  <2>1. r = s /\ s.mode = "idle"
    BY <1>5, <1>7, SoundFacts
  <2>2. Refusing(r, k, mode, byte)
    BY <1>7, <2>1 DEF Refusing
  <2>3. 0 \in 0..2 /\ 0 < 5 /\ 0 < 4 /\ 0 # 2 /\ 0 \notin 3..4 /\ 0 # 4 /\ 0 # 5
    OBVIOUS
  <2>4. AckedState(p, r, g, k, mode, byte, 0)
    BY <1>2, <1>5, <2>1, <2>2, <2>3, Zenon DEF AckedState
  <2>5. BitState(p, r, g, k, mode, byte, c + 1, 0)
    BY <1>2, <1>5, <1>7, <2>1 DEF BitState, Written1
  <2>6. QED
    BY <2>1, <2>4, <2>5 DEF Same
<1>8. CASE k # "none" /\ c + 1 < ByteBits
  <2>1. s.mode \in {"address", "write"} /\ s.clocks < ByteBits
    BY <1>0, <1>6, <1>8
  <2>2. r = s
    BY <1>6, <1>8, <2>1, FallIs
  <2>3. BitState(p, r, g, k, mode, byte, c + 1, 0)
    BY <1>2, <1>5, <2>2 DEF BitState
  <2>4. c + 1 # ByteBits
    BY <1>0, <1>8
  <2>5. QED
    BY <2>2, <2>3, <2>4 DEF Same
<1>9. CASE k # "none" /\ c + 1 = ByteBits
  <2>1. s.mode \in {"address", "write"} /\ s.clocks = ByteBits /\ s.bits = byte /\ s \in Sensors
    BY <1>0, FirstFacts, <1>6, <1>9 DEF Sensing
  <2>2. r = IF B!Acknowledges(s) THEN [s EXCEPT !.sda = 0] ELSE B!Idle(s)
    BY <1>6, <1>9, <2>1, FallIs
  <2>3. CASE B!Acknowledges(s)
    <3>1. r = [s EXCEPT !.sda = 0]
      BY <2>2, <2>3
    <3>2. r.mode = mode /\ r.clocks = ByteBits /\ r.bits = byte /\ r.sda = 0 /\ r.scl = 1 /\ Same(s, r) /\ r.work = s.work
      BY <1>2, <1>6, <1>9, <2>1, <3>1 DEF Sensors, Same
    <3>3. byte = Address + 1 /\ mode = "address" => r.work = "done" \/ k = "holds"
      <4> SUFFICES ASSUME byte = Address + 1, mode = "address" PROVE r.work = "done" \/ k = "holds"
        OBVIOUS
      <4>1. s.mode = "address" /\ s.bits = Address + 1 /\ s.bits # Address
        BY <1>6, <1>9, <2>1, WantedFacts
      <4>2. s.work = "done" \/ (s.work = "measures" /\ k = "holds")
        BY <2>3, <4>1 DEF B!Acknowledges
      <4>3. QED
        BY <3>2, <4>2
    <3>4. Acknowledging(r, k, mode, byte, ByteBits)
      BY <1>9, <3>2, <3>3, Zenon DEF Acknowledging
    <3>5. 0 \in 0..2 /\ 0 < 5 /\ 0 < 4 /\ 0 # 2 /\ 0 \notin 3..4 /\ 0 # 4 /\ 0 # 5 /\ ~(ByteBits < ByteBits)
      BY <1>0
    <3>6. AckedState(p, r, g, k, mode, byte, 0)
      BY <1>2, <1>5, <3>2, <3>4, <3>5, Zenon DEF AckedState
    <3>7. QED
      BY <1>9, <3>2, <3>5, <3>6
  <2>4. CASE ~B!Acknowledges(s)
    <3>1. Halted(s, r)
      BY <1>2, <2>1, <2>2, <2>4, IdleIs
    <3>2. k = "refuses" /\ mode = "address" /\ byte = Address + 1
      <4>1. s.mode = mode /\ s.bits = byte
        BY <1>6, <1>9, <2>1
      <4>2. ~(mode = "write" /\ byte \in Known)
        BY <2>4, <4>1 DEF B!Acknowledges, Known
      <4>3. ~(mode = "address" /\ byte = Address /\ s.work \in {"none", "done"})
        BY <2>4, <4>1 DEF B!Acknowledges
      <4>4. mode = "address" /\ byte = Address + 1 /\ s.work \in {"measures", "done"}
        BY <1>9, <4>2, <4>3 DEF Wanted
      <4>5. s.work # "done" /\ ~(s.work = "measures" /\ k = "holds")
        BY <2>4, <4>1, <4>4 DEF B!Acknowledges
      <4>6. k \in {"holds", "refuses", "none"}
        BY DEF Wanted
      <4>7. QED
        BY <1>9, <4>4, <4>5, <4>6
    <3>3. Refusing(r, k, mode, byte)
      BY <3>1, <3>2 DEF Refusing, Halted
    <3>4. 0 \in 0..2 /\ 0 < 5 /\ 0 < 4 /\ 0 # 2 /\ 0 \notin 3..4 /\ 0 # 4 /\ 0 # 5 /\ ~(ByteBits < ByteBits)
      BY <1>0
    <3>5. r.scl = 1 /\ Same(s, r)
      BY <3>1 DEF Halted
    <3>6. AckedState(p, r, g, k, mode, byte, 0)
      BY <1>2, <1>5, <3>3, <3>4, <3>5, Zenon DEF AckedState
    <3>7. QED
      BY <1>9, <3>4, <3>5, <3>6
  <2>5. QED
    BY <2>3, <2>4
<1>10. QED
  BY <1>0, <1>7, <1>8, <1>9

\* The sensor offers the first byte, if it has one.
LEMMA OfferedFirst ==
    ASSUME NEW s \in Sensors, NEW k, k # "none", s.mode = "read", s.at = 1, s.clocks = 0,
           s.work \in {"measures", "done"}, Reported(s),
           IF s.work = "measures" THEN s.scl = 0 ELSE s.scl = 1 /\ s.sda = B!Bit(B!Byte(s), 1)
    PROVE  Offered(s, k, 1)
<1>1. CASE s.work = "measures"
  BY <1>1 DEF Offered, ClockHeld
<1>2. CASE s.work = "done"
  <2>1. s.reading \in Readings[s.of] /\ s.of \in Commands
    BY <1>2 DEF Reported
  <2>2. Len(s.reading) >= 2
    BY <2>1, BusAssumption DEF B!Length
  <2>3. B!Byte(s) = s.reading[1]
    BY <2>2 DEF B!Byte
  <2>4. QED
    BY <1>2, <2>3 DEF Offered
<1>3. QED
  BY <1>1, <1>2

\* The steps of the acknowledgement.
LEMMA AckDown ==
    ASSUME NEW o, NEW s, NEW h, NEW k, NEW p, NEW r, NEW g, NEW mode, NEW byte, NEW e \in 0..1,
           Sound(o, s, k), Wanted(s, k, mode, byte), AckedState(o, s, h, k, mode, byte, e),
           Sets(IF e = 0 THEN 2 ELSE 1, 0, o, s, h, k, p, r, g)
    PROVE  AckedState(p, r, g, k, mode, byte, e + 1) /\ r = s
<1>1. /\ s.scl = 1 /\ o.scl = 0 /\ h = 0
      /\ Acknowledging(s, k, mode, byte, ByteBits) \/ Refusing(s, k, mode, byte)
  BY DEF AckedState
<1>2. PICK a \in 0..2 : a = IF e = 0 THEN 2 ELSE 1
  OBVIOUS
<1>3. Sets(a, 0, o, s, h, k, p, r, g) /\ 0 \in 0..2 /\ 0 # 2
  BY <1>2
<1>4. /\ g = h /\ p \in Levels /\ p.scl = 0 /\ (k = "none" => r = s) /\ (k # "none" => Edge(s, o, p, r))
      /\ p = [sda |-> p.sda, scl |-> p.scl] /\ p.sda = IF a = 2 THEN o.sda ELSE a
  BY <1>3, SetsFacts
<1>5. r = s
  BY <1>1, <1>4, Stays DEF Quiet
<1>6. e = 1 => p = Low
  BY <1>2, <1>4 DEF Low
<1>7. QED
  BY <1>1, <1>4, <1>5, <1>6 DEF AckedState

LEMMA AckUp ==
    ASSUME NEW o, NEW s, NEW h, NEW k, NEW p, NEW r, NEW g, NEW mode, NEW byte,
           Sound(o, s, k), Wanted(s, k, mode, byte), AckedState(o, s, h, k, mode, byte, 2),
           Sets(1, 1, o, s, h, k, p, r, g)
    PROVE  AckedState(p, r, g, k, mode, byte, 3) /\ Same(s, r)
<1>1. /\ s.scl = 1 /\ o.scl = 0 /\ h = 0
      /\ Acknowledging(s, k, mode, byte, ByteBits) \/ Refusing(s, k, mode, byte)
  BY DEF AckedState
<1>2. /\ g = h /\ p \in Levels /\ p.sda = 1 /\ p.scl = 1 /\ (k = "none" => r = s) /\ (k # "none" => Edge(s, o, p, r))
      /\ p = [sda |-> p.sda, scl |-> p.scl]
  BY SetsFacts
<1>3. p = High
  BY <1>2 DEF High
<1>4. Risen(s, IF s.sda = 1 THEN p.sda ELSE 0, r)
  BY <1>1, <1>2, Rises, Zenon
<1>5. /\ r.mode = s.mode /\ r.sda = s.sda /\ r.scl = 1 /\ Same(s, r)
      /\ s.mode = "idle" => r = s
      /\ s.mode # "idle" => r.clocks = s.clocks + 1
      /\ ~(s.clocks < ByteBits) => r.bits = s.bits
  BY <1>4 DEF Risen
<1>6. CASE Refusing(s, k, mode, byte)
  BY <1>5, <1>6, <1>1, <1>2, <1>3 DEF Refusing, AckedState
<1>7. CASE Acknowledging(s, k, mode, byte, ByteBits)
  <2>1. /\ k # "none" /\ s.mode = mode /\ s.clocks = ByteBits /\ s.bits = byte /\ s.sda = 0
        /\ byte = Address + 1 /\ mode = "address" => s.work = "done" \/ k = "holds"
    BY <1>7 DEF Acknowledging
  <2>2. mode # "idle" /\ ByteBits \in Nat
    BY WantedFacts, BusAssumption
  <2>3. /\ r.mode = mode /\ r.clocks = ByteBits + 1 /\ r.bits = byte /\ r.sda = 0 /\ r.work = s.work
    BY <1>5, <2>1, <2>2 DEF Same
  <2>4. Acknowledging(r, k, mode, byte, ByteBits + 1)
    BY <2>1, <2>3 DEF Acknowledging
  <2>5. QED
    BY <1>1, <1>2, <1>3, <1>5, <2>4 DEF AckedState
<1>8. QED
  BY <1>1, <1>6, <1>7

LEMMA AckHeard ==
    ASSUME NEW o, NEW s, NEW h, NEW k, NEW p, NEW r, NEW g, NEW mode, NEW byte,
           Sound(o, s, k), Wanted(s, k, mode, byte), AckedState(o, s, h, k, mode, byte, 3),
           p = o, r = s, g = (2 * h + B!Lines(o, s).sda) % 2 ^ ByteBits
    PROVE  AckedState(p, r, g, k, mode, byte, 4) /\ Same(s, r)
<1>1. /\ s.scl = 1 /\ o = High /\ h = 0
      /\ Acknowledging(s, k, mode, byte, ByteBits + 1) \/ Refusing(s, k, mode, byte)
  BY DEF AckedState
<1>2. PICK q \in Nat \ {0} : 2 ^ ByteBits = 2 * q
  <2>1. ByteBits - 1 \in Nat /\ ByteBits = (ByteBits - 1) + 1
    BY BusAssumption
  <2>2. QED
    BY <2>1, PowerFacts
<1>3. o.sda = 1 /\ mode # "idle"
  BY <1>1, WantedFacts DEF High
<1>4. CASE Refusing(s, k, mode, byte)
  <2>1. s.mode = "idle" /\ s.sda = 1
    BY <1>4, SoundFacts DEF Refusing
  <2>2. B!Lines(o, s).sda = 1
    BY <1>3, <2>1, SoundFacts
  <2>3. 1 % (2 * q) = 1
    BY <1>2
  <2>4. g = 1
    BY <1>1, <1>2, <2>2, <2>3
  <2>5. QED
    BY <1>1, <1>4, <2>4 DEF AckedState, Same
<1>5. CASE Acknowledging(s, k, mode, byte, ByteBits + 1)
  <2>1. s.mode = mode /\ s.sda = 0
    BY <1>5 DEF Acknowledging
  <2>2. B!Lines(o, s).sda = 0
    BY <2>1, SoundFacts
  <2>3. 0 % (2 * q) = 0
    BY <1>2
  <2>4. g = 0
    BY <1>1, <1>2, <2>2, <2>3
  <2>5. ~Refusing(s, k, mode, byte)
    BY <1>3, <2>1 DEF Refusing
  <2>6. Acknowledging(r, k, mode, byte, ByteBits + 1)
    BY <1>5
  <2>7. QED
    BY <1>1, <2>4, <2>5, <2>6 DEF AckedState, Same
<1>6. QED
  BY <1>1, <1>4, <1>5

LEMMA AckOver ==
    ASSUME NEW o, NEW s, NEW h, NEW k, NEW p, NEW r, NEW g, NEW mode, NEW byte,
           Sound(o, s, k), Sound(p, r, k), Wanted(s, k, mode, byte), AckedState(o, s, h, k, mode, byte, 4),
           Sets(1, 0, o, s, h, k, p, r, g)
    PROVE  /\ AckedState(p, r, g, k, mode, byte, 5)
           /\ mode = "address" => Same(s, r)
           /\ mode = "write" /\ k # "none" => r.work = (IF byte = ResetCommand THEN "resets" ELSE "measures")
<1>1. /\ s.scl = 1 /\ o = High /\ o.scl = 1
      /\ Acknowledging(s, k, mode, byte, ByteBits + 1) \/ Refusing(s, k, mode, byte)
      /\ h = 0 => ~Refusing(s, k, mode, byte)
      /\ h # 0 => Refusing(s, k, mode, byte)
  BY DEF AckedState, High
<1>2. /\ g = h /\ p \in Levels /\ p.sda = 1 /\ p.scl = 0 /\ (k = "none" => r = s) /\ (k # "none" => Edge(s, o, p, r))
      /\ p = [sda |-> p.sda, scl |-> p.scl]
  BY SetsFacts
<1>3. p = Low
  BY <1>2 DEF Low
<1>4. k # "none" => r = B!Fall(s) /\ Sensing(s)
  BY <1>1, <1>2, Falls, Zenon
<1>a. mode # "idle" /\ mode \in {"address", "write"} /\ Address + 1 # Address
  BY WantedFacts
<1>5. CASE h # 0
  <2>1. Refusing(s, k, mode, byte)
    BY <1>1, <1>5
  <2>2. s.mode = "idle" /\ (k = "none" \/ (k = "refuses" /\ mode = "address" /\ byte = Address + 1))
    BY <2>1 DEF Refusing
  <2>3. r = s
    <3>1. CASE k = "none"
      BY <1>2, <3>1
    <3>2. CASE k # "none"
      BY <1>4, <2>2, <3>2, FallIs
    <3>3. QED
      BY <3>1, <3>2
  <2>4. AckedState(p, r, g, k, mode, byte, 5)
    BY <1>2, <1>3, <1>5, <2>1, <2>3 DEF AckedState
  <2>5. QED
    BY <2>2, <2>3, <2>4 DEF Same
<1>6. CASE h = 0
  <2>1. /\ k # "none" /\ s.mode = mode /\ s.clocks = ByteBits + 1 /\ s.bits = byte
        /\ byte = Address + 1 /\ mode = "address" => s.work = "done" \/ k = "holds"
    BY <1>1, <1>6 DEF Acknowledging
  <2>2. r = B!Acknowledged(s) /\ Sensing(s) /\ s.mode \in {"address", "write"}
    BY <1>4, <1>a, <2>1, FallIs
  <2>3. /\ SensingLow(r) /\ r.clocks = 0 /\ r.reading = s.reading
        /\ s.mode = "write" =>
             /\ r.mode = "write" /\ r.of = s.bits /\ r.scl = 1
             /\ r.work = IF s.bits = ResetCommand THEN "resets" ELSE "measures"
        /\ s.mode = "address" => r.of = s.of /\ r.work = s.work
        /\ s.mode = "address" /\ s.bits = Address => r.mode = "write" /\ r.scl = 1
        /\ s.mode = "address" /\ s.bits # Address =>
             /\ r.mode = "read" /\ r.at = 1
             /\ IF s.work = "measures" THEN r.scl = 0 ELSE r.scl = 1 /\ r.sda = B!Bit(B!Byte(r), 1)
    BY <2>1, <2>2, AcknowledgedSenses
  <2>4. mode = "address" => Same(s, r)
    BY <2>1, <2>3 DEF Same
  <2>5. mode = "write" => r.work = (IF byte = ResetCommand THEN "resets" ELSE "measures")
    BY <2>1, <2>3
  <2>6. AfterAck(r, k, mode, byte)
    <3>1. CASE mode = "address" /\ byte = Address + 1
      <4>1. s.work \in {"measures", "done"}
        BY <1>a, <2>1, <3>1 DEF Wanted
      <4>2. r \in Sensors /\ Reported(r)
        BY <2>3 DEF Sensing, SensingLow, Reported
      <4>3. r.mode = "read" /\ r.at = 1 /\ r.work = s.work /\ r.clocks = 0
            /\ IF r.work = "measures" THEN r.scl = 0 ELSE r.scl = 1 /\ r.sda = B!Bit(B!Byte(r), 1)
        BY <1>a, <2>1, <2>3, <3>1
      <4>4. Offered(r, k, 1)
        BY <2>1, <4>1, <4>2, <4>3, OfferedFirst
      <4>5. QED
        BY <3>1, <4>4 DEF AfterAck
    <3>2. CASE ~(mode = "address" /\ byte = Address + 1)
      <4>1. k # "none" /\ r.scl = 1 /\ r.mode = "write" /\ r.clocks = 0
        BY <1>a, <2>1, <2>3, <3>2 DEF Wanted
      <4>2. mode = "write" => r.of = byte
        BY <2>1, <2>3
      <4>3. QED
        BY <3>2, <4>1, <4>2 DEF AfterAck
    <3>3. QED
      BY <3>1, <3>2
  <2>7. AckedState(p, r, g, k, mode, byte, 5)
    BY <1>2, <1>3, <1>6, <2>6 DEF AckedState
  <2>8. QED
    BY <2>4, <2>5, <2>7
<1>7. QED
  BY <1>5, <1>6

\* Where a byte stands, by its operations.
LEMMA AtBit ==
    ASSUME NEW o, NEW s, NEW h, NEW k, NEW mode, NEW byte, NEW c \in 0 .. ByteBits - 1, NEW place \in 0..2,
           BitState(o, s, h, k, mode, byte, c, place)
    PROVE  WriteState(o, s, h, k, mode, byte, 3 * c + place)
<1>1. ByteBits \in Nat
  BY BusAssumption
<1>2. \A d \in 0 .. ByteBits - 1, q \in 0..2 : 3 * c + place = 3 * d + q => d = c /\ q = place
  OBVIOUS
<1>3. \A e \in 0..5 : 3 * c + place # 3 * ByteBits + e
  BY <1>1
<1>4. QED
  BY <1>2, <1>3, Zenon DEF WriteState

LEMMA AtAck ==
    ASSUME NEW o, NEW s, NEW h, NEW k, NEW mode, NEW byte, NEW e \in 0..5, AckedState(o, s, h, k, mode, byte, e)
    PROVE  WriteState(o, s, h, k, mode, byte, 3 * ByteBits + e)
<1>1. ByteBits \in Nat
  BY BusAssumption
<1>2. \A d \in 0 .. ByteBits - 1, q \in 0..2 : 3 * ByteBits + e # 3 * d + q
  BY <1>1
<1>3. \A f \in 0..5 : 3 * ByteBits + e = 3 * ByteBits + f => f = e
  BY <1>1
<1>4. QED
  BY <1>2, <1>3, Zenon DEF WriteState

\* What a step of it leaves of the work of the sensor.
WriteDone(s, r, k, mode, byte, n) ==
    /\ n < 3 * ByteBits + 4 \/ mode = "address" => Same(s, r)
    /\ n = 3 * ByteBits + 4 /\ mode = "write" /\ k # "none" =>
         r.work = (IF byte = ResetCommand THEN "resets" ELSE "measures")

LEMMA BitStep ==
    ASSUME NEW c \in 0 .. ByteBits - 1, NEW place \in 0..2, NEW o, NEW s, NEW h, NEW k,
           NEW p, NEW r, NEW g, NEW mode, NEW byte, NEW S, NEW m \in Nat, WrittenAt(S, byte, m),
           Sound(o, s, k), Wanted(s, k, mode, byte), k = kind,
           WriteState(o, s, h, k, mode, byte, 3 * c + place), Runs(S[m + (3 * c + place) + 1], o, s, h, k, p, r, g)
    PROVE  WriteState(p, r, g, k, mode, byte, (3 * c + place) + 1) /\ Same(s, r)
<1>0. ByteBits \in Nat \ {0} /\ 0 \in 0..2 /\ 1 \in 0..2 /\ 2 \in 0..2 /\ byte \in Nat /\ c + 1 \in 1 .. ByteBits
  BY BusAssumption, WantedFacts
<1>1. BitState(o, s, h, k, mode, byte, c, place)
  BY Zenon DEF WriteState
<1>2. B!Bit(byte, c + 1) \in 0..2
  BY <1>0, BitIsBit
<1>3. /\ S[m + 3 * c + 1] = B!Set(B!Bit(byte, c + 1), 0)
      /\ S[m + 3 * c + 2] = B!Set(B!Bit(byte, c + 1), 1)
      /\ S[m + 3 * c + 3] = B!Set(B!Bit(byte, c + 1), 0)
  BY Zenon DEF WrittenAt
<1>4. CASE place = 0
  <2>1. m + (3 * c + place) + 1 = m + 3 * c + 1 /\ (3 * c + place) + 1 = 3 * c + 1
    BY <1>0, <1>4
  <2>2. Sets(B!Bit(byte, c + 1), 0, o, s, h, k, p, r, g)
    BY <1>0, <1>2, <1>3, <2>1, Zenon DEF Runs
  <2>3. BitState(p, r, g, k, mode, byte, c, 1) /\ r = s
    BY <1>1, <1>4, <2>2, BitPut, Zenon
  <2>4. WriteState(p, r, g, k, mode, byte, 3 * c + 1)
    BY <1>0, <2>3, AtBit, Zenon
  <2>5. QED
    BY <2>1, <2>3, <2>4 DEF Same
<1>5. CASE place = 1
  <2>1. m + (3 * c + place) + 1 = m + 3 * c + 2 /\ (3 * c + place) + 1 = 3 * c + 2
    BY <1>0, <1>5
  <2>2. Sets(B!Bit(byte, c + 1), 1, o, s, h, k, p, r, g)
    BY <1>0, <1>2, <1>3, <2>1, Zenon DEF Runs
  <2>3. BitState(p, r, g, k, mode, byte, c, 2) /\ Same(s, r)
    BY <1>1, <1>5, <2>2, BitSeen, Zenon
  <2>4. WriteState(p, r, g, k, mode, byte, 3 * c + 2)
    BY <1>0, <2>3, AtBit, Zenon
  <2>5. QED
    BY <2>1, <2>3, <2>4
<1>6. CASE place = 2
  <2>1. m + (3 * c + place) + 1 = m + 3 * c + 3 /\ (3 * c + place) + 1 = 3 * (c + 1) + 0
    BY <1>0, <1>6
  <2>2. Sets(B!Bit(byte, c + 1), 0, o, s, h, k, p, r, g)
    BY <1>0, <1>2, <1>3, <2>1, Zenon DEF Runs
  <2>3. /\ c + 1 < ByteBits => BitState(p, r, g, k, mode, byte, c + 1, 0)
        /\ c + 1 = ByteBits => AckedState(p, r, g, k, mode, byte, 0)
        /\ Same(s, r)
    BY <1>1, <1>6, <2>2, BitOver, Zenon
  <2>4. CASE c + 1 < ByteBits
    <3>1. c + 1 \in 0 .. ByteBits - 1
      BY <1>0, <2>4
    <3>2. WriteState(p, r, g, k, mode, byte, 3 * (c + 1) + 0)
      BY <1>0, <2>3, <2>4, <3>1, AtBit, Zenon
    <3>3. QED
      BY <2>1, <2>3, <3>2
  <2>5. CASE c + 1 = ByteBits
    <3>1. 0 \in 0..5
      OBVIOUS
    <3>2. WriteState(p, r, g, k, mode, byte, 3 * ByteBits + 0)
      BY <2>3, <2>5, <3>1, AtAck, Zenon
    <3>3. QED
      BY <2>1, <2>3, <2>5, <3>2
  <2>6. QED
    BY <1>0, <2>4, <2>5
<1>7. QED
  BY <1>4, <1>5, <1>6

LEMMA AckStep ==
    ASSUME NEW e \in 0..4, NEW n, n = 3 * ByteBits + e, NEW o, NEW s, NEW h, NEW k,
           NEW p, NEW r, NEW g, NEW mode, NEW byte, NEW S, NEW m \in Nat, WrittenAt(S, byte, m),
           Sound(o, s, k), Sound(p, r, k), Wanted(s, k, mode, byte),
           WriteState(o, s, h, k, mode, byte, n), Runs(S[m + n + 1], o, s, h, k, p, r, g)
    PROVE  WriteState(p, r, g, k, mode, byte, n + 1) /\ WriteDone(s, r, k, mode, byte, n)
<1>0. /\ ByteBits \in Nat \ {0} /\ 0 \in 0..2 /\ 1 \in 0..2 /\ 2 \in 0..2 /\ 0 \in 0..1 /\ 1 \in 0..1
      /\ \A f \in 1..5 : f \in 0..5
  BY BusAssumption
<1>1. AckedState(o, s, h, k, mode, byte, e)
  <2>1. e \in 0..5
    OBVIOUS
  <2>2. QED
    BY <2>1, Zenon DEF WriteState
<1>2. /\ S[m + 3 * ByteBits + 1] = B!Set(2, 0) /\ S[m + 3 * ByteBits + 2] = B!Set(1, 0)
      /\ S[m + 3 * ByteBits + 3] = B!Set(1, 1) /\ S[m + 3 * ByteBits + 4] = B!Sample
      /\ S[m + 3 * ByteBits + 5] = B!Set(1, 0)
  BY SetIsOp DEF WrittenAt
<1>3. m + n + 1 = m + 3 * ByteBits + (e + 1) /\ n + 1 = 3 * ByteBits + (e + 1) /\ e + 1 \in 1..5
  BY <1>0
<1>4. ASSUME AckedState(p, r, g, k, mode, byte, e + 1) PROVE WriteState(p, r, g, k, mode, byte, n + 1)
  BY <1>0, <1>3, <1>4, AtAck, Zenon
<1>5. e # 4 => n # 3 * ByteBits + 4
  BY <1>0
<1>6. CASE e = 0
  <2>1. e + 1 = 1 /\ e # 4
    BY <1>6
  <2>2. Sets(2, 0, o, s, h, k, p, r, g)
    BY <1>0, <1>2, <1>3, <2>1, Zenon DEF Runs
  <2>3. Sets(IF e = 0 THEN 2 ELSE 1, 0, o, s, h, k, p, r, g) /\ e \in 0..1
    BY <1>6, <2>2
  <2>4. AckedState(p, r, g, k, mode, byte, e + 1) /\ r = s
    BY <1>1, <2>3, AckDown, Zenon
  <2>5. QED
    BY <1>4, <1>5, <2>1, <2>4 DEF WriteDone, Same
<1>7. CASE e = 1
  <2>1. e + 1 = 2 /\ e # 4
    BY <1>7
  <2>2. Sets(1, 0, o, s, h, k, p, r, g)
    BY <1>0, <1>2, <1>3, <2>1, Zenon DEF Runs
  <2>3. Sets(IF e = 0 THEN 2 ELSE 1, 0, o, s, h, k, p, r, g) /\ e \in 0..1
    BY <1>7, <2>2
  <2>4. AckedState(p, r, g, k, mode, byte, e + 1) /\ r = s
    BY <1>1, <2>3, AckDown, Zenon
  <2>5. QED
    BY <1>4, <1>5, <2>1, <2>4 DEF WriteDone, Same
<1>8. CASE e = 2
  <2>1. e + 1 = 3 /\ e # 4
    BY <1>8
  <2>2. Sets(1, 1, o, s, h, k, p, r, g)
    BY <1>0, <1>2, <1>3, <2>1, Zenon DEF Runs
  <2>3. AckedState(p, r, g, k, mode, byte, 3) /\ Same(s, r)
    BY <1>1, <1>8, <2>2, AckUp, Zenon
  <2>4. QED
    BY <1>4, <1>5, <2>1, <2>3 DEF WriteDone
<1>9. CASE e = 3
  <2>1. e + 1 = 4 /\ e # 4
    BY <1>9
  <2>2. p = o /\ r = s /\ g = (2 * h + B!Lines(o, s).sda) % 2 ^ ByteBits
    BY <1>2, <1>3, <2>1, Zenon DEF Runs
  <2>3. AckedState(p, r, g, k, mode, byte, 4) /\ Same(s, r)
    BY <1>1, <1>9, <2>2, AckHeard, Zenon
  <2>4. QED
    BY <1>4, <1>5, <2>1, <2>3 DEF WriteDone
<1>10. CASE e = 4
  <2>1. e + 1 = 5
    BY <1>10
  <2>2. Sets(1, 0, o, s, h, k, p, r, g)
    BY <1>0, <1>2, <1>3, <2>1, Zenon DEF Runs
  <2>3. /\ AckedState(p, r, g, k, mode, byte, 5)
        /\ mode = "address" => Same(s, r)
        /\ mode = "write" /\ k # "none" => r.work = (IF byte = ResetCommand THEN "resets" ELSE "measures")
    BY <1>1, <1>10, <2>2, AckOver
  <2>4. ~(n < 3 * ByteBits + 4)
    BY <1>0, <1>10
  <2>5. QED
    BY <1>4, <2>1, <2>3, <2>4 DEF WriteDone
<1>11. QED
  BY <1>6, <1>7, <1>8, <1>9, <1>10

LEMMA WriteStep ==
    ASSUME NEW n \in 0 .. 3 * ByteBits + 4, NEW o, NEW s, NEW h, NEW k,
           NEW p, NEW r, NEW g, NEW mode, NEW byte, NEW S, NEW m \in Nat, WrittenAt(S, byte, m),
           Sound(o, s, k), Sound(p, r, k), Wanted(s, k, mode, byte), k = kind,
           WriteState(o, s, h, k, mode, byte, n), Runs(S[m + n + 1], o, s, h, k, p, r, g)
    PROVE  WriteState(p, r, g, k, mode, byte, n + 1) /\ WriteDone(s, r, k, mode, byte, n)
<1>0. ByteBits \in Nat \ {0}
  BY BusAssumption
<1>1. CASE n < 3 * ByteBits
  <2>1. n = 3 * (n \div 3) + (n % 3) /\ n \div 3 \in Nat /\ n % 3 \in 0..2
    OBVIOUS
  <2>2. PICK c \in Nat, place \in 0..2 : n = 3 * c + place
    BY <2>1
  <2>3. c \in 0 .. ByteBits - 1
    BY <1>0, <1>1, <2>2
  <2>4. WriteState(p, r, g, k, mode, byte, n + 1) /\ Same(s, r)
    <3>1. /\ Sound(o, s, k) /\ Wanted(s, k, mode, byte) /\ k = kind /\ WrittenAt(S, byte, m)
          /\ WriteState(o, s, h, k, mode, byte, 3 * c + place)
          /\ Runs(S[m + (3 * c + place) + 1], o, s, h, k, p, r, g)
      BY <2>2
    <3>2. WriteState(p, r, g, k, mode, byte, (3 * c + place) + 1) /\ Same(s, r)
      BY <2>3, <3>1, BitStep, Zenon
    <3>3. QED
      BY <2>2, <3>2
  <2>5. n # 3 * ByteBits + 4
    BY <1>0, <1>1
  <2>6. QED
    BY <2>4, <2>5, Zenon DEF WriteDone
<1>2. CASE ~(n < 3 * ByteBits)
  <2>1. n - 3 * ByteBits \in 0..4 /\ n = 3 * ByteBits + (n - 3 * ByteBits)
    BY <1>0, <1>2
  <2>2. QED
    BY <2>1, AckStep, Zenon
<1>3. QED
  BY <1>1, <1>2

\* The start and the address.
LEMMA NotHolding ==
    ASSUME NEW o, NEW s, NEW k, Sound(o, s, k), s.mode # "read"
    PROVE  s.scl = 1
<1>1. Sensing(s) /\ s.scl \in 0..1
  BY SoundFacts
<1>2. s.scl # 0
  BY <1>1, Zenon DEF Sensing
<1>3. QED
  BY <1>1, <1>2

LEMMA AddressedStep ==
    ASSUME NEW n \in 0 .. 3 * ByteBits + 7, NEW o, NEW s, NEW h, NEW k, NEW p, NEW r, NEW g, NEW byte,
           NEW S, NEW m \in Nat, S[m + 1] = B!Set(1, 2), S[m + 2] = B!Set(1, 1), S[m + 3] = B!Set(0, 1),
           WrittenAt(S, byte, m + 3),
           Sound(o, s, k), Sound(p, r, k), Wanted(s, k, "address", byte), k = kind,
           AddressedState(o, s, h, k, byte, n), Runs(S[m + n + 1], o, s, h, k, p, r, g)
    PROVE  AddressedState(p, r, g, k, byte, n + 1) /\ Same(s, r)
<1>0. ByteBits \in Nat \ {0} /\ 0 \in 0..2 /\ 1 \in 0..2 /\ 2 \in 0..2 /\ High.sda = 1 /\ High.scl = 1 /\ 1 # 2 /\ 0 # 2
  BY BusAssumption DEF High
<1>s. Sensing(s) /\ s \in Sensors /\ (s.mode = "idle" => s.sda = 1)
  BY SoundFacts
<1>1. CASE n \in 0..1
  <2>1. o = High /\ s.mode = "idle" /\ h = 0
    BY <1>1 DEF AddressedState
  <2>2. PICK c \in 0..2 : c = IF n = 0 THEN 2 ELSE 1
    OBVIOUS
  <2>3. Sets(1, c, o, s, h, k, p, r, g)
    <3>1. CASE n = 0
      BY <2>2, <3>1, <1>0 DEF Runs
    <3>2. CASE n = 1
      BY <2>2, <3>2, <1>0 DEF Runs
    <3>3. QED
      BY <1>1, <3>1, <3>2
  <2>4. /\ g = h /\ p.sda = 1 /\ p.scl = 1 /\ (k = "none" => r = s) /\ (k # "none" => Edge(s, o, p, r))
        /\ p = [sda |-> p.sda, scl |-> p.scl]
    <3>1. p.scl = IF c = 2 THEN o.scl ELSE c
      BY <1>0, <2>3, SetsFacts
    <3>2. c = 2 \/ c = 1
      BY <2>2
    <3>3. QED
      BY <1>0, <2>1, <2>3, <3>1, <3>2, SetsFacts
  <2>5. p = High
    BY <2>4 DEF High
  <2>6. r = s
    BY <1>0, <2>1, <2>5, <2>4, Stays DEF Quiet
  <2>7. ~(n + 1 >= 3)
    BY <1>1
  <2>8. QED
    BY <2>1, <2>4, <2>5, <2>6, <2>7 DEF AddressedState, Same
<1>2. CASE n = 2
  <2>1. o = High /\ s.mode = "idle" /\ h = 0
    BY <1>2 DEF AddressedState
  <2>2. m + n + 1 = m + 3
    BY <1>2
  <2>3. Sets(0, 1, o, s, h, k, p, r, g)
    BY <1>0, <2>2 DEF Runs
  <2>4. /\ g = h /\ p \in Levels /\ p.sda = 0 /\ p.scl = 1 /\ (k = "none" => r = s) /\ (k # "none" => Edge(s, o, p, r))
    BY <1>0, <2>3, SetsFacts
  <2>5. s.scl = 1
    BY <2>1, NotHolding, Zenon
  <2>6. Begun(s, k, r)
    BY <1>0, <1>s, <2>1, <2>4, <2>5, Starts, Zenon
  <2>7. r.scl = 1 /\ Same(s, r) /\ (k # "none" => r.mode = "address" /\ r.clocks = 0 /\ r.bits = 0)
    BY <2>6 DEF Begun
  <2>8. First(byte, 0) = 0
    BY WantedFacts, FirstFacts
  <2>9. BitState(p, r, g, k, "address", byte, 0, 0)
    <3>1. Written1(r, k, "address", byte, 0)
      BY <2>7, <2>8 DEF Written1
    <3>2. 0 # 1 /\ 0 # 2 /\ ~(0 > 0)
      OBVIOUS
    <3>3. QED
      BY <2>1, <2>4, <2>7, <3>1, <3>2 DEF BitState
  <2>10. 0 \in 0 .. ByteBits - 1 /\ 3 * 0 + 0 = 0
    BY <1>0
  <2>11. WriteState(p, r, g, k, "address", byte, 0)
    BY <1>0, <2>9, <2>10, AtBit, Zenon
  <2>12. ~(n + 1 < 3) /\ (n + 1) - 3 = 0
    BY <1>2
  <2>13. QED
    BY <2>7, <2>11, <2>12 DEF AddressedState
<1>3. CASE n >= 3
  <2>1. PICK w \in 0 .. 3 * ByteBits + 4 : w = n - 3
    BY <1>0, <1>3
  <2>2. WriteState(o, s, h, k, "address", byte, w)
    BY <1>3, <2>1 DEF AddressedState
  <2>3. m + n + 1 = (m + 3) + w + 1 /\ m + 3 \in Nat
    BY <2>1
  <2>4. Runs(S[(m + 3) + w + 1], o, s, h, k, p, r, g)
    BY <2>3
  <2>5. WriteState(p, r, g, k, "address", byte, w + 1) /\ WriteDone(s, r, k, "address", byte, w)
    BY <2>3, <2>2, <2>4, WriteStep, Zenon
  <2>6. (n + 1) - 3 = w + 1 /\ ~(n + 1 < 3)
    BY <1>3, <2>1
  <2>7. QED
    BY <2>5, <2>6 DEF AddressedState, WriteDone
<1>4. QED
  BY <1>1, <1>2, <1>3

\* What a sensor has measured.
LEMMA ReadingIs ==
    ASSUME NEW s, Sensing(s), s.work = "done", NEW v \in 1 .. B!Length
    PROVE  /\ s.reading[v] \in B!ByteValues /\ v <= Len(s.reading)
           /\ s.at = v => B!Byte(s) = s.reading[v]
<1>1. s.reading \in Readings[s.of] /\ s.of \in Commands
  BY DEF Sensing
<1>2. s.reading \in Seq(B!ByteValues) /\ Len(s.reading) >= B!Length
  BY <1>1, BusAssumption
<1>3. v \in 1 .. Len(s.reading)
  BY <1>2, LenProperties DEF B!Length
<1>4. s.reading[v] \in B!ByteValues
  BY <1>2, <1>3, ElementOfSeq
<1>5. QED
  BY <1>3, <1>4 DEF B!Byte

\* Where the reading of a byte stands, by its operations.
LEMMA AtPart ==
    ASSUME NEW o, NEW s, NEW h, NEW k, NEW v, NEW c \in 0 .. ByteBits - 1, NEW place \in 1..4,
           InState(o, s, h, k, v, c, place)
    PROVE  ReadState(o, s, h, k, v, 4 * c + place)
<1>1. ByteBits \in Nat /\ 4 * c + place # 0 /\ 4 * c + place # 4 * ByteBits + 1 /\ 4 * c + place # 4 * ByteBits + 2
  BY BusAssumption
<1>2. \A d \in 0 .. ByteBits - 1, q \in 1..4 : 4 * c + place = 4 * d + q => d = c /\ q = place
  OBVIOUS
<1>3. Reads(s, k, v)
  BY DEF InState
<1>4. QED
  BY <1>1, <1>2, <1>3, Zenon DEF ReadState

LEMMA AtReadEnd ==
    ASSUME NEW o, NEW s, NEW h, NEW k, NEW v, NEW e \in 1..2, Reads(s, k, v),
           Sends(s, h, v, ByteBits, ByteBits), o = IF e = 1 THEN High ELSE Low
    PROVE  ReadState(o, s, h, k, v, 4 * ByteBits + e)
<1>1. ByteBits \in Nat /\ 4 * ByteBits + e # 0
  BY BusAssumption
<1>2. \A d \in 0 .. ByteBits - 1, q \in 1..4 : 4 * ByteBits + e # 4 * d + q
  BY <1>1
<1>3. /\ 4 * ByteBits + e = 4 * ByteBits + 1 => o = High
      /\ 4 * ByteBits + e = 4 * ByteBits + 2 => o = Low
  BY <1>1
<1>4. QED
  BY <1>1, <1>2, <1>3, Zenon DEF ReadState

LEMMA ReadBegins ==
    ASSUME NEW o, NEW s, NEW h, NEW k, NEW p, NEW r, NEW g, NEW v \in 1 .. B!Length,
           Sound(o, s, k), ReadState(o, s, h, k, v, 0), Sets(1, 2, o, s, h, k, p, r, g)
    PROVE  ReadState(p, r, g, k, v, 1) /\ r = s
<1>1. o.scl = 0 /\ Offered(s, k, v) /\ h = 0 /\ Reads(s, k, v)
  BY DEF ReadState
<1>2. /\ g = h /\ p.sda = 1 /\ p.scl = 0 /\ (k = "none" => r = s) /\ (k # "none" => Edge(s, o, p, r))
      /\ p = [sda |-> p.sda, scl |-> p.scl]
  BY <1>1, SetsFacts
<1>3. r = s /\ p = Low
  BY <1>1, <1>2, Stays DEF Quiet, Low
<1>4. InState(p, r, g, k, v, 0, 1)
  BY <1>1, <1>2, <1>3 DEF InState
<1>5. 0 \in 0 .. ByteBits - 1 /\ 1 \in 1..4 /\ 4 * 0 + 1 = 1
  BY BusAssumption
<1>6. ReadState(p, r, g, k, v, 4 * 0 + 1)
  BY <1>4, <1>5, AtPart, Zenon
<1>7. QED
  BY <1>3, <1>5, <1>6

LEMMA PartDown ==
    ASSUME NEW o, NEW s, NEW h, NEW k, NEW p, NEW r, NEW g, NEW v \in 1 .. B!Length, NEW c \in 0 .. ByteBits - 1,
           Sound(o, s, k), InState(o, s, h, k, v, c, 1), Sets(1, 0, o, s, h, k, p, r, g)
    PROVE  InState(p, r, g, k, v, c, 2) /\ Same(s, r)
<1>0. ByteBits \in Nat /\ c < ByteBits /\ High.scl = 1 /\ Low.scl = 0
  BY BusAssumption DEF High, Low
<1>1. Reads(s, k, v) /\ k # "none" /\ s.mode = "read" /\ s.at = v
  BY DEF InState, Reads
<1>2. /\ g = h /\ p \in Levels /\ p.sda = 1 /\ p.scl = 0 /\ (k # "none" => Edge(s, o, p, r)) /\ (k = "none" => r = s)
      /\ p = [sda |-> p.sda, scl |-> p.scl]
  BY SetsFacts
<1>3. p = Low
  BY <1>2 DEF Low
<1>4. CASE c = 0
  <2>1. o = Low /\ Offered(s, k, v) /\ h = 0
    BY <1>4 DEF InState
  <2>2. r = s
    BY <1>0, <1>2, <2>1, Stays DEF Quiet
  <2>3. InState(p, r, g, k, v, c, 2)
    BY <1>1, <1>2, <1>3, <1>4, <2>1, <2>2 DEF InState
  <2>4. QED
    BY <2>2, <2>3 DEF Same
<1>5. CASE c # 0
  <2>1. o = High /\ s.scl = 1 /\ s.work = "done" /\ s.clocks = c /\ h = First(s.reading[v], c)
    BY <1>5 DEF InState, Sends
  <2>2. r = B!Fall(s) /\ Sensing(s)
    BY <1>0, <1>1, <1>2, <2>1, Falls
  <2>3. c \in 1 .. ByteBits - 1
    BY <1>5
  <2>4. r = [s EXCEPT !.sda = B!Bit(B!Byte(s), c + 1)]
    BY <1>1, <2>1, <2>2, <2>3, FallIs
  <2>5. B!Byte(s) = s.reading[v]
    BY <1>1, <2>1, <2>2, ReadingIs
  <2>6. /\ r.mode = "read" /\ r.at = v /\ r.scl = 1 /\ r.work = "done" /\ r.clocks = c
        /\ r.reading = s.reading /\ r.of = s.of /\ r.sda = B!Bit(s.reading[v], c + 1)
    BY SoundFacts, <1>1, <2>1, <2>4, <2>5 DEF Sensors
  <2>7. Sends(r, g, v, c, c) /\ Reads(r, k, v) /\ Same(s, r)
    BY <1>1, <1>2, <2>1, <2>6 DEF Sends, Reads, Same
  <2>8. r.sda = B!Bit(r.reading[v], c + 1)
    BY <2>6
  <2>9. 2 # 1 /\ 2 # 3 /\ 2 # 4
    OBVIOUS
  <2>10. InState(p, r, g, k, v, c, 2)
    BY <1>3, <1>5, <2>7, <2>8, <2>9 DEF InState
  <2>11. QED
    BY <2>7, <2>10
<1>6. QED
  BY <1>4, <1>5

LEMMA PartUp ==
    ASSUME NEW o, NEW s, NEW h, NEW k, NEW p, NEW r, NEW g, NEW v \in 1 .. B!Length, NEW c \in 0 .. ByteBits - 1,
           Sound(o, s, k), InState(o, s, h, k, v, c, 2), Sets(1, 1, o, s, h, k, p, r, g)
    PROVE  InState(p, r, g, k, v, c, 3) /\ Same(s, r)
<1>0. /\ ByteBits \in Nat /\ c \in Nat /\ c < ByteBits /\ High.scl = 1 /\ Low.scl = 0
      /\ 3 # 1 /\ 3 # 2 /\ 3 # 4
  BY BusAssumption DEF High, Low
<1>1. Reads(s, k, v) /\ k # "none" /\ s.mode = "read" /\ s.at = v /\ o = Low /\ o.scl = 0
  BY <1>0 DEF InState, Reads
<1>2. /\ g = h /\ p \in Levels /\ p.sda = 1 /\ p.scl = 1 /\ (k # "none" => Edge(s, o, p, r)) /\ (k = "none" => r = s)
      /\ p = [sda |-> p.sda, scl |-> p.scl]
  BY SetsFacts
<1>3. p = High
  BY <1>2 DEF High
<1>4. CASE c = 0 /\ ClockHeld(s)
  <2>1. Offered(s, k, v) /\ h = 0
    BY <1>4 DEF InState
  <2>2. s.scl = 0 /\ v = 1
    BY <1>4, <2>1 DEF Offered, ClockHeld
  <2>3. r = s
    BY <1>1, <1>2, <2>2, Zenon DEF Edge
  <2>4. InState(p, r, g, k, v, c, 3)
    BY <1>0, <1>1, <1>2, <1>3, <1>4, <2>1, <2>2, <2>3 DEF InState
  <2>5. QED
    BY <2>3, <2>4 DEF Same
<1>5. CASE ~(c = 0 /\ ClockHeld(s))
  <2>1. /\ s.scl = 1 /\ s.work = "done" /\ s.clocks = c /\ h = First(s.reading[v], c)
        /\ s.sda = B!Bit(s.reading[v], c + 1)
    <3>1. CASE c = 0
      <4>1. Offered(s, k, v) /\ h = 0
        BY <3>1 DEF InState
      <4>2. s.clocks = 0 /\ s.scl = 1 /\ s.work = "done" /\ s.sda = B!Bit(s.reading[v], 1)
        BY <1>5, <3>1, <4>1 DEF Offered
      <4>3. s.reading[v] \in B!ByteValues
        BY <4>2, ReadingIs, SoundFacts
      <4>4. First(s.reading[v], 0) = 0
        BY <4>3, FirstFacts
      <4>5. c + 1 = 1
        BY <3>1
      <4>6. QED
        BY <3>1, <4>1, <4>2, <4>4, <4>5
    <3>2. CASE c # 0
      BY <3>2 DEF InState, Sends
    <3>3. QED
      BY <3>1, <3>2
  <2>2. Risen(s, IF s.sda = 1 THEN p.sda ELSE 0, r)
    BY <1>1, <1>2, <2>1, Rises, Zenon
  <2>3. r.mode = "read" /\ r.sda = s.sda /\ r.scl = 1 /\ r.at = v /\ Same(s, r) /\ r.clocks = c + 1
    BY <1>1, <2>1, <2>2 DEF Risen
  <2>4. r.work = "done" /\ r.reading = s.reading
    BY <2>1, <2>3 DEF Same
  <2>5. Sends(r, g, v, c, c + 1) /\ Reads(r, k, v) /\ r.sda = B!Bit(r.reading[v], c + 1)
    BY <1>1, <1>2, <2>1, <2>3, <2>4 DEF Sends, Reads
  <2>6. InState(p, r, g, k, v, c, 3)
    BY <1>0, <1>3, <2>5 DEF InState
  <2>7. QED
    BY <2>3, <2>6
<1>6. QED
  BY <1>4, <1>5

LEMMA PartSeen ==
    ASSUME NEW o, NEW s, NEW h, NEW k, NEW p, NEW r, NEW g, NEW v \in 1 .. B!Length, NEW c \in 0 .. ByteBits - 1,
           Sound(o, s, k), InState(o, s, h, k, v, c, 3), p = o, r = s, g = h, B!Lines(o, s).scl = 1
    PROVE  InState(p, r, g, k, v, c, 4) /\ Same(s, r)
<1>1. ~ClockHeld(s)
  BY SoundFacts DEF ClockHeld
<1>2. QED
  BY <1>1 DEF InState, Same

LEMMA PartHeard ==
    ASSUME NEW o, NEW s, NEW h, NEW k, NEW p, NEW r, NEW g, NEW v \in 1 .. B!Length, NEW c \in 0 .. ByteBits - 1,
           Sound(o, s, k), InState(o, s, h, k, v, c, 4), p = o, r = s,
           g = (2 * h + B!Lines(o, s).sda) % 2 ^ ByteBits
    PROVE  ReadState(p, r, g, k, v, 4 * c + 5) /\ Same(s, r)
<1>0. ByteBits \in Nat /\ c \in Nat /\ c < ByteBits /\ High.sda = 1 /\ c + 1 \in 1 .. ByteBits /\ c + 1 # 0
      /\ c + 1 \in 0 .. ByteBits
  BY BusAssumption DEF High
<1>1. /\ Reads(s, k, v) /\ o = High /\ s.scl = 1 /\ s.work = "done" /\ s.clocks = c + 1
      /\ h = First(s.reading[v], c) /\ s.sda = B!Bit(s.reading[v], c + 1)
  BY DEF InState, Sends
<1>2. PICK x \in B!ByteValues : x = s.reading[v]
  BY <1>1, ReadingIs, SoundFacts
<1>3. /\ First(x, c + 1) = 2 * First(x, c) + B!Bit(x, c + 1) /\ B!Bit(x, c + 1) \in 0..1
      /\ First(x, c + 1) \in B!ByteValues
  BY <1>0, <1>2, FirstFacts
<1>4. B!Lines(o, s).sda = B!Bit(x, c + 1)
  BY SoundFacts, <1>0, <1>1, <1>2
<1>5. g = First(x, c + 1)
  <2>1. PICK b \in Nat \ {0} : b = 2 ^ ByteBits
    BY <1>0, PowerFacts
  <2>2. PICK y : y = First(x, c + 1)
    OBVIOUS
  <2>3. y \in 0 .. b - 1
    BY <1>3, <2>1, <2>2 DEF B!ByteValues
  <2>4. y % b = y
    BY <2>1, <2>3
  <2>5. 2 * h + B!Lines(o, s).sda = y
    BY <1>1, <1>2, <1>3, <1>4, <2>2
  <2>6. QED
    BY <2>1, <2>2, <2>4, <2>5
<1>6. Sends(r, g, v, c + 1, c + 1) /\ Reads(r, k, v)
  BY <1>1, <1>2, <1>5 DEF Sends
<1>7. CASE c + 1 < ByteBits
  <2>1. c + 1 \in 0 .. ByteBits - 1 /\ 1 \in 1..4 /\ 4 * (c + 1) + 1 = 4 * c + 5
    BY <1>0, <1>7
  <2>2. InState(p, r, g, k, v, c + 1, 1)
    BY <1>0, <1>1, <1>6 DEF InState
  <2>3. ReadState(p, r, g, k, v, 4 * (c + 1) + 1)
    BY <2>1, <2>2, AtPart, Zenon
  <2>4. QED
    BY <2>1, <2>3 DEF Same
<1>8. CASE c + 1 = ByteBits
  <2>1. 1 \in 1..2 /\ 4 * ByteBits + 1 = 4 * c + 5
    BY <1>8
  <2>2. Sends(r, g, v, ByteBits, ByteBits) /\ p = IF 1 = 1 THEN High ELSE Low
    BY <1>1, <1>6, <1>8
  <2>3. ReadState(p, r, g, k, v, 4 * ByteBits + 1)
    BY <1>6, <2>1, <2>2, AtReadEnd
  <2>4. QED
    BY <2>1, <2>3 DEF Same
<1>9. QED
  BY <1>0, <1>7, <1>8

LEMMA ReadOver ==
    ASSUME NEW o, NEW s, NEW h, NEW k, NEW p, NEW r, NEW g, NEW v \in 1 .. B!Length,
           Sound(o, s, k), ReadState(o, s, h, k, v, 4 * ByteBits + 1), Sets(2, 0, o, s, h, k, p, r, g)
    PROVE  ReadState(p, r, g, k, v, 4 * ByteBits + 2) /\ Same(s, r)
<1>0. ByteBits \in Nat \ {0} /\ High.sda = 1 /\ High.scl = 1 /\ 2 \in 1..2
  BY BusAssumption DEF High
<1>1. /\ Reads(s, k, v) /\ k # "none" /\ s.mode = "read" /\ s.at = v /\ o = High
      /\ s.scl = 1 /\ s.work = "done" /\ s.clocks = ByteBits /\ h = First(s.reading[v], ByteBits)
  BY DEF ReadState, Reads, Sends
<1>2. /\ g = h /\ p \in Levels /\ p.sda = 1 /\ p.scl = 0 /\ (k # "none" => Edge(s, o, p, r))
      /\ p = [sda |-> p.sda, scl |-> p.scl]
  BY <1>0, <1>1, SetsFacts
<1>3. r = B!Fall(s) /\ Sensing(s)
  BY <1>0, <1>1, <1>2, Falls, SMTT(30)
<1>4. r = [s EXCEPT !.sda = 1] /\ s \in Sensors
  BY <1>1, <1>3, FallIs DEF Sensing
<1>5. /\ r.mode = "read" /\ r.at = v /\ r.scl = 1 /\ r.work = "done" /\ r.clocks = ByteBits
      /\ r.reading = s.reading /\ r.of = s.of
  BY <1>1, <1>4 DEF Sensors
<1>6. Reads(r, k, v) /\ Sends(r, g, v, ByteBits, ByteBits) /\ Same(s, r)
  BY <1>1, <1>2, <1>5 DEF Reads, Sends, Same
<1>7. p = IF 2 = 1 THEN High ELSE Low
  BY <1>2 DEF Low
<1>8. QED
  BY <1>0, <1>6, <1>7, AtReadEnd

\* A step of the reading of a byte.
LEMMA PartStep ==
    ASSUME NEW c \in 0 .. ByteBits - 1, NEW place \in 1..4, NEW o, NEW s, NEW h, NEW k,
           NEW p, NEW r, NEW g, NEW v \in 1 .. B!Length, Sound(o, s, k),
           ReadState(o, s, h, k, v, 4 * c + place), Runs(B!i2c_master_readByte[(4 * c + place) + 1], o, s, h, k, p, r, g)
    PROVE  ReadState(p, r, g, k, v, (4 * c + place) + 1) /\ Same(s, r)
<1>0. /\ 0 \in 0..2 /\ 1 \in 0..2 /\ 1 \in 1..4 /\ 2 \in 1..4 /\ 3 \in 1..4 /\ 4 \in 1..4
  OBVIOUS
<1>1. InState(o, s, h, k, v, c, place)
  BY Zenon DEF ReadState
<1>2. /\ B!i2c_master_readByte[4 * c + 2] = B!Set(1, 0) /\ B!i2c_master_readByte[4 * c + 3] = B!Set(1, 1)
      /\ B!i2c_master_readByte[4 * c + 4] = B!Stretch /\ B!i2c_master_readByte[4 * c + 5] = B!Sample
  BY ReadOps, Zenon
<1>3. CASE place = 1
  <2>1. (4 * c + place) + 1 = 4 * c + 2
    BY <1>3
  <2>2. Sets(1, 0, o, s, h, k, p, r, g)
    BY <1>0, <1>2, <2>1, Zenon DEF Runs
  <2>3. InState(p, r, g, k, v, c, 2) /\ Same(s, r)
    BY <1>1, <1>3, <2>2, PartDown, Zenon
  <2>4. ReadState(p, r, g, k, v, 4 * c + 2)
    BY <1>0, <2>3, AtPart, Zenon
  <2>5. QED
    BY <2>1, <2>3, <2>4
<1>4. CASE place = 2
  <2>1. (4 * c + place) + 1 = 4 * c + 3
    BY <1>4
  <2>2. Sets(1, 1, o, s, h, k, p, r, g)
    BY <1>0, <1>2, <2>1, Zenon DEF Runs
  <2>3. InState(p, r, g, k, v, c, 3) /\ Same(s, r)
    BY <1>1, <1>4, <2>2, PartUp, Zenon
  <2>4. ReadState(p, r, g, k, v, 4 * c + 3)
    BY <1>0, <2>3, AtPart, Zenon
  <2>5. QED
    BY <2>1, <2>3, <2>4
<1>5. CASE place = 3
  <2>1. (4 * c + place) + 1 = 4 * c + 4
    BY <1>5
  <2>2. p = o /\ r = s /\ g = h /\ B!Lines(o, s).scl = 1
    BY <1>2, <2>1, Zenon DEF Runs
  <2>3. InState(p, r, g, k, v, c, 4) /\ Same(s, r)
    BY <1>1, <1>5, <2>2, PartSeen, Zenon
  <2>4. ReadState(p, r, g, k, v, 4 * c + 4)
    BY <1>0, <2>3, AtPart, Zenon
  <2>5. QED
    BY <2>1, <2>3, <2>4
<1>6. CASE place = 4
  <2>1. (4 * c + place) + 1 = 4 * c + 5
    BY <1>6
  <2>2. p = o /\ r = s /\ g = (2 * h + B!Lines(o, s).sda) % 2 ^ ByteBits
    BY <1>2, <2>1, Zenon DEF Runs
  <2>3. ReadState(p, r, g, k, v, 4 * c + 5) /\ Same(s, r)
    BY <1>1, <1>6, <2>2, PartHeard, Zenon
  <2>4. QED
    BY <2>1, <2>3
<1>7. QED
  BY <1>3, <1>4, <1>5, <1>6

LEMMA ReadStep ==
    ASSUME NEW n \in 0 .. 4 * ByteBits + 1, NEW o, NEW s, NEW h, NEW k,
           NEW p, NEW r, NEW g, NEW v \in 1 .. B!Length, Sound(o, s, k),
           ReadState(o, s, h, k, v, n), Runs(B!i2c_master_readByte[n + 1], o, s, h, k, p, r, g)
    PROVE  ReadState(p, r, g, k, v, n + 1) /\ Same(s, r)
<1>0. ByteBits \in Nat \ {0} /\ 0 \in 0..2 /\ 1 \in 0..2 /\ 2 \in 0..2
  BY BusAssumption
<1>1. CASE n = 0
  <2>1. n + 1 = 1
    BY <1>1
  <2>2. B!i2c_master_readByte[n + 1] = B!Set(1, 2)
    BY <2>1, ReadOps, SetIsOp
  <2>3. Sets(1, 2, o, s, h, k, p, r, g)
    BY <1>0, <2>2, Zenon DEF Runs
  <2>4. ReadState(p, r, g, k, v, 1) /\ r = s
    BY <1>1, <2>3, ReadBegins, Zenon
  <2>5. QED
    BY <2>1, <2>4 DEF Same
<1>2. CASE n \in 1 .. 4 * ByteBits
  <2>1. PICK c \in Nat, place \in 1..4 : n = 4 * c + place
    <3>1. n - 1 = 4 * ((n - 1) \div 4) + ((n - 1) % 4) /\ (n - 1) \div 4 \in Nat /\ (n - 1) % 4 \in 0..3
      BY <1>2
    <3>2. n = 4 * ((n - 1) \div 4) + (((n - 1) % 4) + 1) /\ ((n - 1) % 4) + 1 \in 1..4
      BY <3>1
    <3>3. QED
      BY <3>1, <3>2
  <2>2. c \in 0 .. ByteBits - 1
    BY <1>0, <1>2, <2>1
  <2>3. /\ ReadState(o, s, h, k, v, 4 * c + place)
        /\ Runs(B!i2c_master_readByte[(4 * c + place) + 1], o, s, h, k, p, r, g)
    BY <2>1
  <2>4. ReadState(p, r, g, k, v, (4 * c + place) + 1) /\ Same(s, r)
    BY <2>2, <2>3, PartStep, Zenon
  <2>5. QED
    BY <2>1, <2>4
<1>3. CASE n = 4 * ByteBits + 1
  <2>1. n + 1 = 4 * ByteBits + 2
    BY <1>0, <1>3
  <2>2. B!i2c_master_readByte[n + 1] = B!Set(2, 0)
    BY <2>1, ReadOps, SetIsOp
  <2>3. Sets(2, 0, o, s, h, k, p, r, g)
    BY <1>0, <2>2, Zenon DEF Runs
  <2>4. ReadState(p, r, g, k, v, 4 * ByteBits + 2) /\ Same(s, r)
    BY <1>3, <2>3, ReadOver, Zenon
  <2>5. QED
    BY <2>1, <2>4
<1>4. QED
  BY <1>0, <1>1, <1>2, <1>3

\* A step of its acknowledgement.
LEMMA NextOffered ==
    ASSUME NEW s, NEW k, k # "none", Sensing(s), s.scl = 1, s.work = "done", s.mode = "read", s.at = 1,
           s.clocks = ByteBits + 1, s.nack = 0
    PROVE  Offered(B!Fall(s), k, 2) /\ Same(s, B!Fall(s)) /\ B!Fall(s).scl = 1
<1>1. /\ s \in Sensors /\ Reported(s) /\ s.bits = 0
  BY DEF Sensing, Reported
<1>2. PICK q : q = [s EXCEPT !.clocks = 0, !.at = s.at + 1]
  OBVIOUS
<1>3. B!Fall(s) = B!Offer(q)
  <2>1. B!Fall(s) = IF s.nack = 1 THEN B!Idle(s) ELSE B!Offer([s EXCEPT !.clocks = 0, !.at = s.at + 1])
    BY FallIs, Zenon
  <2>2. s.nack # 1
    OBVIOUS
  <2>3. QED
    BY <1>2, <2>1, <2>2, Zenon
<1>4. /\ q \in Sensors /\ q.mode = "read" /\ q.clocks = 0 /\ q.bits = 0 /\ q.scl = 1 /\ q.at = 2
      /\ q.work = s.work /\ q.of = s.of /\ q.reading = s.reading
  <2>1. 0 \in 0 .. ByteBits + 1 /\ s.at + 1 = 2 /\ 2 \in Nat \ {0}
    BY BusAssumption
  <2>2. QED
    BY <1>1, <1>2, <2>1 DEF Sensors
<1>5. Reported(q)
  BY <1>1, <1>4 DEF Reported
<1>6. PICK r : r = B!Offer(q)
  OBVIOUS
<1>7. /\ r.mode = "read" /\ r.clocks = 0 /\ r.at = 2 /\ r.work = s.work /\ r.of = s.of /\ r.reading = s.reading
      /\ r.scl = 1 /\ r.sda = B!Bit(B!Byte(q), 1)
  BY <1>4, <1>5, <1>6, OfferSenses
<1>8. B!Byte(q) = s.reading[2]
  <2>1. 2 <= Len(s.reading)
    BY ReadingIs DEF B!Length
  <2>2. QED
    BY <1>4, <2>1 DEF B!Byte
<1>9. Offered(r, k, 2)
  BY <1>7, <1>8 DEF Offered
<1>10. QED
  BY <1>3, <1>6, <1>7, <1>9 DEF Same

LEMMA LevelIs ==
    /\ Level(1) = 0 /\ Level(2) = 1 /\ B!Length = 2
    /\ \A v \in 1 .. B!Length : Level(v) \in 0..1 /\ (v = 1 \/ v = 2)
  BY DEF Level, B!Length

LEMMA AckStepOf ==
    ASSUME NEW n \in 0..5, NEW o, NEW s, NEW h, NEW k, NEW p, NEW r, NEW g, NEW v \in 1 .. B!Length,
           Sound(o, s, k), AckState(o, s, k, v, n),
           Runs((B!i2c_master_setAck(Level(v)) \o <<B!Set(1, 0)>>)[n + 1], o, s, h, k, p, r, g)
    PROVE  AckState(p, r, k, v, n + 1) /\ Same(s, r)
<1>0. ByteBits \in Nat \ {0} /\ 0 \in 0..2 /\ 1 \in 0..2 /\ 2 \in 0..2
  BY BusAssumption
<1>1. PICK x \in 0..1 : x = Level(v)
  BY LevelIs
<1>2. PICK S : S = B!i2c_master_setAck(Level(v)) \o <<B!Set(1, 0)>>
  OBVIOUS
<1>3. /\ S[1] = B!Set(2, 0) /\ S[2] = B!Set(x, 0) /\ S[3] = B!Set(x, 1) /\ S[4] = B!Set(x, 0)
      /\ S[5] = B!Set(1, 0) /\ S[6] = B!Set(1, 0)
  BY <1>1, <1>2, SetAckOps, SetIsOp
<1>4. Runs(S[n + 1], o, s, h, k, p, r, g) /\ x \in 0..2 /\ x # 2 /\ (v = B!Length => x = 1) /\ (v # B!Length => x = 0)
  <2>1. Runs(S[n + 1], o, s, h, k, p, r, g)
    BY <1>2
  <2>2. (v = B!Length => x = 1) /\ (v # B!Length => x = 0)
    BY <1>1 DEF Level
  <2>3. QED
    BY <1>1, <2>1, <2>2
<1>5. k # "none" /\ s.scl = 1 /\ s.work = "done"
  BY DEF AckState
<1>m. ASSUME NEW a \in 0..2, NEW c \in 0..2, S[n + 1] = B!Set(a, c)
      PROVE  /\ p \in Levels /\ p = [sda |-> p.sda, scl |-> p.scl] /\ Edge(s, o, p, r)
             /\ p.sda = (IF a = 2 THEN o.sda ELSE a) /\ p.scl = (IF c = 2 THEN o.scl ELSE c)
  BY <1>4, <1>m, <1>5, SetsFacts DEF Runs
<1>6. CASE n \in {0, 1}
  <2>1. s.mode = "read" /\ s.at = v /\ o.scl = 0 /\ s.clocks = ByteBits /\ s.sda = 1
    BY <1>6 DEF AckState
  <2>2. PICK a \in 0..2 : a = IF n = 0 THEN 2 ELSE x
    BY <1>4
  <2>3. S[n + 1] = B!Set(a, 0)
    BY <1>3, <1>6, <2>2
  <2>4. p.scl = 0 /\ Edge(s, o, p, r) /\ (n = 1 => p.sda = x)
    BY <1>0, <1>4, <1>m, <2>2, <2>3
  <2>5. r = s
    <3>1. Quiet(o, p)
      BY <2>1, <2>4 DEF Quiet
    <3>2. QED
      BY <1>5, <2>4, <3>1, Stays
  <2>6. AckState(p, r, k, v, n + 1)
    BY <1>6, <1>1, <1>5, <2>1, <2>4, <2>5 DEF AckState
  <2>7. QED
    BY <2>5, <2>6 DEF Same
<1>7. CASE n = 2
  <2>1. s.mode = "read" /\ s.at = v /\ o.scl = 0 /\ s.clocks = ByteBits /\ s.sda = 1
    BY <1>7 DEF AckState
  <2>2. S[n + 1] = B!Set(x, 1)
    BY <1>3, <1>7
  <2>3. p \in Levels /\ p.sda = x /\ p.scl = 1 /\ Edge(s, o, p, r) /\ p = [sda |-> x, scl |-> 1]
    BY <1>0, <1>4, <1>m, <2>2
  <2>4. Risen(s, IF s.sda = 1 THEN p.sda ELSE 0, r)
    BY <1>5, <2>1, <2>3, Rises
  <2>5. r.mode = "read" /\ r.scl = 1 /\ r.at = v /\ Same(s, r) /\ r.clocks = ByteBits + 1 /\ r.nack = x
    BY <2>1, <2>3, <2>4 DEF Risen
  <2>6. r.work = "done"
    BY <1>5, <2>5 DEF Same
  <2>7. AckState(p, r, k, v, 3)
    BY <1>1, <1>5, <2>3, <2>5, <2>6 DEF AckState
  <2>8. QED
    BY <1>7, <2>5, <2>7
<1>8. CASE n = 3
  <2>1. /\ s.mode = "read" /\ s.at = v /\ o = [sda |-> x, scl |-> 1] /\ s.clocks = ByteBits + 1 /\ s.nack = x
        /\ o.scl = 1
    BY <1>1, <1>8 DEF AckState
  <2>2. S[n + 1] = B!Set(x, 0)
    BY <1>3, <1>8
  <2>3. p \in Levels /\ p.scl = 0 /\ Edge(s, o, p, r)
    BY <1>0, <1>4, <1>m, <2>2
  <2>4. r = B!Fall(s) /\ Sensing(s) /\ s \in Sensors
    BY <1>5, <2>1, <2>3, Falls, SoundFacts
  <2>5. CASE v = B!Length
    <3>1. r = B!Idle(s)
      BY <1>4, <2>1, <2>4, <2>5, FallIs
    <3>2. Halted(s, r)
      BY <1>5, <2>4, <3>1, IdleIs
    <3>3. r.mode = "idle" /\ r.scl = 1 /\ Same(s, r) /\ r.work = "done"
      BY <1>5, <3>2 DEF Halted, Same
    <3>4. AckState(p, r, k, v, 4)
      BY <1>5, <2>3, <2>5, <3>3 DEF AckState
    <3>5. QED
      BY <1>8, <3>3, <3>4
  <2>6. CASE v # B!Length
    <3>1. v = 1 /\ v + 1 = 2 /\ s.nack = 0
      BY <1>4, <2>1, <2>6, LevelIs
    <3>2. Offered(r, k, 2) /\ Same(s, r) /\ r.scl = 1
      BY <1>5, <2>1, <2>4, <3>1, NextOffered
    <3>3. r.work = "done"
      BY <1>5, <3>2 DEF Same
    <3>4. AckState(p, r, k, v, 4)
      BY <1>5, <2>3, <2>6, <3>1, <3>2, <3>3 DEF AckState
    <3>5. QED
      BY <1>8, <3>2, <3>4
  <2>7. QED
    BY <2>5, <2>6
<1>9. CASE n \in {4, 5}
  <2>1. o.scl = 0 /\ (IF v = B!Length THEN s.mode = "idle" ELSE Offered(s, k, v + 1))
    BY <1>9 DEF AckState
  <2>2. S[n + 1] = B!Set(1, 0)
    BY <1>3, <1>9
  <2>3. p.scl = 0 /\ Edge(s, o, p, r) /\ p = [sda |-> 1, scl |-> 0]
    BY <1>0, <1>m, <2>2
  <2>4. r = s
    BY <2>1, <2>3, <1>5, Stays DEF Quiet
  <2>5. n + 1 \notin 0..3 /\ n + 1 \notin 0..2 /\ n + 1 # 2 /\ n + 1 # 3
    BY <1>9
  <2>6. AckState(p, r, k, v, n + 1)
    BY <1>5, <2>1, <2>3, <2>4, <2>5 DEF AckState, Low
  <2>7. QED
    BY <2>4, <2>6 DEF Same
<1>10. QED
  BY <1>6, <1>7, <1>8, <1>9

\* A step along a sequence.
LEMMA Along ==
    ASSUME MasterTyped, SensorTyped, B!Drive, NEW S \in Seq(BusOps), NEW n \in 0 .. Len(S), todo = Rest(S, n)
    PROVE  /\ n < Len(S) /\ todo' = Rest(S, n + 1)
           /\ Runs(S[n + 1], lines, sensor, heard, kind, lines', sensor', heard')
<1>1. todo # <<>> /\ todo' = Tail(todo)
  BY DriveSteps DEF Stepped
<1>2. n < Len(S)
  BY <1>1, RestSteps
<1>3. Head(todo) = S[n + 1] /\ todo' = Rest(S, n + 1)
  BY <1>1, <1>2, RestSteps
<1>4. \A a, c \in 0..2 : S[n + 1] = B!Set(a, c) => Sets(a, c, lines, sensor, heard, kind, lines', sensor', heard')
  BY <1>3, DriveSteps, Zenon DEF SetStepped, Sets
<1>5. QED
  BY <1>2, <1>3, <1>4, DriveSteps, Zenon DEF Runs

LEMMA SoundNow == ASSUME MasterTyped, SensorTyped PROVE Sound(lines, sensor, kind)
<1>1. lines \in Levels
  BY DEF MasterTyped, Levels
<1>2. QED
  BY <1>1 DEF SensorTyped, Sound

LEMMA SoundNext == ASSUME MasterTyped, SensorTyped, B!Drive PROVE Sound(lines', sensor', kind') /\ kind' = kind
<1>1. MasterTyped' /\ SensorTyped'
  BY DriveTyped
<1>2. lines' \in Levels
  BY <1>1 DEF MasterTyped, Levels
<1>3. kind' = kind
  BY DriveSteps DEF Stepped
<1>4. QED
  BY <1>1, <1>2, <1>3 DEF SensorTyped, Sound

\* What a step on the lines leaves alone.
LEMMA KeptFacts ==
    ASSUME Same(sensor, sensor'), UNCHANGED <<jobs, values, inited, answer, kind>>
    PROVE  /\ Rested => Rested'
           /\ Told => Told'
           /\ Taken => Taken'
           /\ B!Command' = B!Command
<1>1. Rested => Rested'
  BY DEF Rested, Same
<1>2. Told => Told'
  BY DEF Told, Same
<1>3. Taken => Taken'
  BY DEF Taken, Same
<1>4. B!Command' = B!Command
  BY DEF B!Command
<1>5. QED
  BY <1>1, <1>2, <1>3, <1>4

LEMMA DriveNext == ASSUME MasterTyped, SensorTyped, B!Drive, InNext PROVE InNext'
<1>0. todo # <<>> /\ UNCHANGED <<busPc, jobs, timeout, values, inited, answer, kind>>
  BY DriveSteps DEF Stepped
<1>1. ~(jobs # <<>> /\ Head(jobs) = B!Setup)
  BY <1>0 DEF InNext
<1>2. PICK n \in 0..3 : todo = Rest(B!i2c_master_stop, n) /\ StopState(lines, sensor, n)
  BY <1>1 DEF InNext
<1>3. /\ n < 3 /\ todo' = Rest(B!i2c_master_stop, n + 1)
      /\ Runs(B!i2c_master_stop[n + 1], lines, sensor, heard, kind, lines', sensor', heard')
  BY <1>2, StopOps, Along
<1>4. n \in 0..2 /\ n + 1 \in 0..3
  BY <1>3
<1>5. StopState(lines', sensor', n + 1) /\ Same(sensor, sensor')
  BY <1>2, <1>3, <1>4, SoundNow, StopStep
<1>6. Rested /\ (jobs = <<>> => Told)
  BY <1>1 DEF InNext
<1>7. Rested' /\ (jobs' = <<>> => Told')
  BY <1>0, <1>5, <1>6, KeptFacts
<1>8. QED
  BY <1>0, <1>1, <1>3, <1>4, <1>5, <1>7 DEF InNext

LEMMA DriveSetup ==
    ASSUME MasterTyped, SensorTyped, B!Drive, InSetup, busPc = "setup", ~spoilt'
    PROVE  InSetup'
<1>1. InitClocks \in Nat
  BY BusAssumption
<1>2. PICK n \in 0 .. 7 + 2 * InitClocks : todo = Rest(B!i2c_master_gpio_init, n) /\ SetupState(lines, sensor, kind, n)
  BY DEF InSetup
<1>3. /\ n < 7 + 2 * InitClocks /\ todo' = Rest(B!i2c_master_gpio_init, n + 1)
      /\ Runs(B!i2c_master_gpio_init[n + 1], lines, sensor, heard, kind, lines', sensor', heard')
  BY <1>2, SetupOps, Along
<1>4. n \in 0 .. 6 + 2 * InitClocks /\ n + 1 \in 0 .. 7 + 2 * InitClocks
  BY <1>1, <1>3
<1>5. sensor'.scl = 1
  <2>1. sensor'.scl # 0
    BY DriveSteps DEF Stepped
  <2>2. Sound(lines', sensor', kind')
    BY SoundNext
  <2>3. sensor'.scl \in 0..1
    BY <2>2, SoundFacts, Zenon
  <2>4. QED
    BY <2>1, <2>3
<1>6. Sound(lines, sensor, kind) /\ Sound(lines', sensor', kind) /\ kind' = kind
  BY SoundNow, SoundNext
<1>7. SetupState(lines', sensor', kind', n + 1)
  BY <1>2, <1>3, <1>4, <1>5, <1>6, SetupStep
<1>8. QED
  BY <1>3, <1>4, <1>7 DEF InSetup

LEMMA DriveWrite == ASSUME MasterTyped, SensorTyped, B!Drive, InWrite PROVE InWrite'
<1>1. PICK S : S = B!Addressed(Address)
  OBVIOUS
<1>2. /\ S \in Seq(BusOps) /\ Len(S) = 3 * ByteBits + 8
      /\ S[0 + 1] = B!Set(1, 2) /\ S[0 + 2] = B!Set(1, 1) /\ S[0 + 3] = B!Set(0, 1) /\ WrittenAt(S, Address, 0 + 3)
  <2>1. Address \in Nat
    BY OpsTyped
  <2>2. /\ S \in Seq(BusOps) /\ Len(S) = 3 * ByteBits + 8
        /\ S[1] = B!Set(1, 2) /\ S[2] = B!Set(1, 1) /\ S[3] = B!Set(0, 1) /\ WrittenAt(S, Address, 3)
    BY <1>1, <2>1, AddressedOps, SetIsOp
  <2>3. 0 + 1 = 1 /\ 0 + 2 = 2 /\ 0 + 3 = 3
    OBVIOUS
  <2>4. QED
    BY <2>2, <2>3, Zenon
<1>3. PICK n \in 0 .. 3 * ByteBits + 8 :
        todo = Rest(S, n) /\ AddressedState(lines, sensor, heard, kind, Address, n)
  BY <1>1 DEF InWrite
<1>4. /\ n < 3 * ByteBits + 8 /\ todo' = Rest(S, n + 1)
      /\ Runs(S[n + 1], lines, sensor, heard, kind, lines', sensor', heard')
  BY <1>2, <1>3, Along
<1>5. n \in 0 .. 3 * ByteBits + 7 /\ n + 1 \in 0 .. 3 * ByteBits + 8 /\ 0 + n + 1 = n + 1
  BY <1>3, <1>4, BusAssumption
<1>6. Sound(lines, sensor, kind) /\ Sound(lines', sensor', kind) /\ kind' = kind
  BY SoundNow, SoundNext
<1>7. Wanted(sensor, kind, "address", Address)
  BY BusAssumption DEF InWrite, Rested, Wanted, MasterTyped
<1>8. Runs(S[0 + n + 1], lines, sensor, heard, kind, lines', sensor', heard')
  BY <1>4, <1>5
<1>9. AddressedState(lines', sensor', heard', kind, Address, n + 1) /\ Same(sensor, sensor')
  BY <1>2, <1>3, <1>5, <1>6, <1>7, <1>8, AddressedStep
<1>10. UNCHANGED <<busPc, jobs, timeout, values, inited, answer, kind>>
  BY DriveSteps DEF Stepped
<1>11. Rested'
  BY <1>9, <1>10, KeptFacts DEF InWrite
<1>12. QED
  BY <1>1, <1>4, <1>5, <1>6, <1>9, <1>11 DEF InWrite

LEMMA DriveCommand ==
    ASSUME MasterTyped, SensorTyped, B!Drive, InCommand, busPc = "command", kind # "none"
    PROVE  InCommand'
<1>0. jobs # <<>>
  BY DEF MasterTyped
<1>1. PICK b, S : b = B!Command /\ S = B!i2c_master_writeByte(b) \o B!i2c_master_getAck
  OBVIOUS
<1>2. b \in Known /\ b \in Nat
  BY <1>0, <1>1, CommandIsKnown
<1>3. S \in Seq(BusOps) /\ Len(S) = 3 * ByteBits + 5 /\ WrittenAt(S, b, 0)
  BY <1>1, <1>2, CommandOps
<1>4. PICK n \in 0 .. 3 * ByteBits + 5 :
        /\ todo = Rest(S, n) /\ WriteState(lines, sensor, heard, kind, "write", b, n)
        /\ n < 3 * ByteBits + 5 => Rested
  BY <1>1 DEF InCommand
<1>5. /\ n < 3 * ByteBits + 5 /\ todo' = Rest(S, n + 1)
      /\ Runs(S[n + 1], lines, sensor, heard, kind, lines', sensor', heard')
  BY <1>3, <1>4, Along
<1>6. n \in 0 .. 3 * ByteBits + 4 /\ n + 1 \in 0 .. 3 * ByteBits + 5 /\ 0 + n + 1 = n + 1
  BY <1>4, <1>5, BusAssumption
<1>7. Sound(lines, sensor, kind) /\ Sound(lines', sensor', kind) /\ kind' = kind
  BY SoundNow, SoundNext
<1>8. Wanted(sensor, kind, "write", b)
  BY <1>2, BusAssumption DEF Known, Wanted, MasterTyped
<1>9. Runs(S[0 + n + 1], lines, sensor, heard, kind, lines', sensor', heard')
  BY <1>5, <1>6
<1>10. WriteState(lines', sensor', heard', kind, "write", b, n + 1) /\ WriteDone(sensor, sensor', kind, "write", b, n)
  BY <1>3, <1>4, <1>6, <1>7, <1>8, <1>9, WriteStep
<1>11. UNCHANGED <<busPc, jobs, timeout, values, inited, answer, kind>>
  BY DriveSteps DEF Stepped
<1>12. B!Command' = b
  BY <1>1, <1>11 DEF B!Command
<1>13. CASE n + 1 < 3 * ByteBits + 5
  <2>1. Same(sensor, sensor')
    BY <1>6, <1>10, <1>13, BusAssumption DEF WriteDone
  <2>2. Rested'
    BY <1>4, <1>5, <1>11, <2>1, KeptFacts
  <2>3. QED
    BY <1>1, <1>5, <1>6, <1>7, <1>10, <1>12, <1>13, <2>2 DEF InCommand
<1>14. CASE ~(n + 1 < 3 * ByteBits + 5)
  <2>1. n = 3 * ByteBits + 4
    BY <1>6, <1>14, BusAssumption
  <2>2. sensor'.work = (IF b = ResetCommand THEN "resets" ELSE "measures")
    BY <1>10, <2>1 DEF WriteDone
  <2>3. sensor'.work \in (IF b = ResetCommand THEN {"resets", "none"} ELSE {"measures", "done"})
    BY <2>2
  <2>4. QED
    BY <1>1, <1>5, <1>6, <1>7, <1>10, <1>12, <1>14, <2>3 DEF InCommand
<1>15. QED
  BY <1>13, <1>14

LEMMA DriveSettle == ASSUME MasterTyped, SensorTyped, B!Drive, InSettle PROVE InSettle'
<1>2. PICK n \in 0..3 : todo = Rest(B!i2c_master_stop, n) /\ StopState(lines, sensor, n)
  BY DEF InSettle
<1>3. /\ n < 3 /\ todo' = Rest(B!i2c_master_stop, n + 1)
      /\ Runs(B!i2c_master_stop[n + 1], lines, sensor, heard, kind, lines', sensor', heard')
  BY <1>2, StopOps, Along
<1>4. n \in 0..2 /\ n + 1 \in 0..3
  BY <1>3
<1>5. StopState(lines', sensor', n + 1) /\ Same(sensor, sensor')
  BY <1>2, <1>3, <1>4, SoundNow, StopStep
<1>6. QED
  BY <1>3, <1>4, <1>5 DEF InSettle, Same

LEMMA DriveAddress ==
    ASSUME MasterTyped, SensorTyped, B!Drive, InAddress PROVE InAddress'
<1>1. PICK S : S = B!i2c_master_stop \o B!Addressed(Address + 1)
  OBVIOUS
<1>2. /\ S \in Seq(BusOps) /\ Len(S) = 3 * ByteBits + 11
      /\ S[1] = B!Set(0, 2) /\ S[2] = B!Set(0, 1) /\ S[3] = B!Set(1, 1)
      /\ S[3 + 1] = B!Set(1, 2) /\ S[3 + 2] = B!Set(1, 1) /\ S[3 + 3] = B!Set(0, 1) /\ WrittenAt(S, Address + 1, 3 + 3)
  <2>1. Address + 1 \in Nat
    BY OpsTyped
  <2>2. /\ S \in Seq(BusOps) /\ Len(S) = 3 * ByteBits + 11
        /\ S[1] = B!Set(0, 2) /\ S[2] = B!Set(0, 1) /\ S[3] = B!Set(1, 1)
        /\ S[4] = B!Set(1, 2) /\ S[5] = B!Set(1, 1) /\ S[6] = B!Set(0, 1) /\ WrittenAt(S, Address + 1, 6)
    BY <1>1, <2>1, AgainOps, SetIsOp
  <2>3. 3 + 1 = 4 /\ 3 + 2 = 5 /\ 3 + 3 = 6
    OBVIOUS
  <2>4. QED
    BY <2>2, <2>3, Zenon
<1>3. PICK n \in 0 .. 3 * ByteBits + 11 :
        /\ todo = Rest(S, n)
        /\ n < 3 => StopState(lines, sensor, n) /\ heard = 0
        /\ n >= 3 => AddressedState(lines, sensor, heard, kind, Address + 1, n - 3)
  BY <1>1 DEF InAddress
<1>4. /\ n < 3 * ByteBits + 11 /\ todo' = Rest(S, n + 1)
      /\ Runs(S[n + 1], lines, sensor, heard, kind, lines', sensor', heard')
  BY <1>2, <1>3, Along
<1>5. n + 1 \in 0 .. 3 * ByteBits + 11
  BY <1>3, <1>4, BusAssumption
<1>6. Sound(lines, sensor, kind) /\ Sound(lines', sensor', kind) /\ kind' = kind
  BY SoundNow, SoundNext
<1>7. /\ UNCHANGED <<busPc, jobs, timeout, values, inited, answer, kind>>
      /\ sensor.work \in {"measures", "done"} /\ sensor.of = B!Command /\ values = <<>>
  BY DriveSteps DEF Stepped, InAddress
<1>8. CASE n < 3
  <2>1. n \in 0..2 /\ StopState(lines, sensor, n) /\ heard = 0
    BY <1>3, <1>8
  <2>2. S[n + 1] = B!i2c_master_stop[n + 1]
    BY <2>1, <1>2, StopOps, SetIsOp
  <2>3. Runs(B!i2c_master_stop[n + 1], lines, sensor, heard, kind, lines', sensor', heard')
    BY <1>4, <2>2
  <2>4. StopState(lines', sensor', n + 1) /\ Same(sensor, sensor') /\ heard' = 0
    BY <1>6, <2>1, <2>3, StopStep
  <2>5. n + 1 >= 3 => AddressedState(lines', sensor', heard', kind', Address + 1, (n + 1) - 3)
    <3>1. n + 1 >= 3 => n + 1 = 3
      BY <2>1
    <3>2. StopState(lines', sensor', 3) => lines' = High /\ sensor'.mode = "idle"
      BY DEF StopState
    <3>3. StopState(lines', sensor', 3) => AddressedState(lines', sensor', heard', kind', Address + 1, 0)
      BY <2>4, <3>2 DEF AddressedState
    <3>4. QED
      BY <2>4, <3>1, <3>3
  <2>6. QED
    BY <1>1, <1>4, <1>5, <1>7, <2>4, <2>5, KeptFacts DEF InAddress, Same
<1>9. CASE n >= 3
  <2>1. /\ n - 3 \in 0 .. 3 * ByteBits + 7 /\ 3 + (n - 3) + 1 = n + 1 /\ (n + 1) - 3 = (n - 3) + 1
        /\ ~(n + 1 < 3)
    BY <1>3, <1>4, <1>9, BusAssumption, SMTT(30)
  <2>2. PICK m \in 0 .. 3 * ByteBits + 7 : m = n - 3
    BY <2>1
  <2>3. AddressedState(lines, sensor, heard, kind, Address + 1, m)
    BY <1>3, <1>9, <2>2
  <2>4. Wanted(sensor, kind, "address", Address + 1)
    BY <1>7, BusAssumption DEF Wanted, MasterTyped
  <2>5. Runs(S[3 + m + 1], lines, sensor, heard, kind, lines', sensor', heard')
    BY <1>4, <2>1, <2>2
  <2>6. AddressedState(lines', sensor', heard', kind, Address + 1, m + 1) /\ Same(sensor, sensor')
    <3>1. /\ 3 \in Nat /\ S[3 + 1] = B!Set(1, 2) /\ S[3 + 2] = B!Set(1, 1) /\ S[3 + 3] = B!Set(0, 1)
          /\ WrittenAt(S, Address + 1, 3 + 3)
      BY <1>2, Zenon
    <3>2. Sound(lines, sensor, kind) /\ Sound(lines', sensor', kind)
      BY <1>6
    <3>3. PICK d, x : d = 3 /\ x = Address + 1
      OBVIOUS
    <3>4. /\ d \in Nat /\ S[d + 1] = B!Set(1, 2) /\ S[d + 2] = B!Set(1, 1) /\ S[d + 3] = B!Set(0, 1)
          /\ WrittenAt(S, x, d + 3) /\ Wanted(sensor, kind, "address", x)
          /\ AddressedState(lines, sensor, heard, kind, x, m)
          /\ Runs(S[d + m + 1], lines, sensor, heard, kind, lines', sensor', heard')
      BY <2>3, <2>4, <2>5, <3>1, <3>3, Zenon
    <3>5. AddressedState(lines', sensor', heard', kind, x, m + 1) /\ Same(sensor, sensor')
      BY <3>2, <3>4, AddressedStep
    <3>6. QED
      BY <3>3, <3>5, Zenon
  <2>7. AddressedState(lines', sensor', heard', kind', Address + 1, (n + 1) - 3)
    BY <1>6, <2>1, <2>2, <2>6
  <2>8. QED
    BY <1>1, <1>4, <1>5, <1>7, <2>1, <2>6, <2>7, KeptFacts DEF InAddress, Same
<1>10. QED
  BY <1>3, <1>8, <1>9

LEMMA DriveData == ASSUME MasterTyped, SensorTyped, B!Drive, InData PROVE InData'
<1>0. /\ todo # <<>> /\ UNCHANGED <<busPc, jobs, timeout, values, inited, answer, kind>>
      /\ sensor.work \in {"measures", "done"} /\ sensor.of = B!Command
      /\ Taken /\ timeout > B!Length - Len(values)
  BY DriveSteps DEF Stepped, InData
<1>1. values # <<>>
  BY <1>0 DEF InData
<1>2. PICK v \in 1 .. B!Length : v = Len(values)
  BY <1>1 DEF MasterTyped
<1>3. PICK S : S = B!i2c_master_setAck(Level(v)) \o <<B!Set(1, 0)>>
  OBVIOUS
<1>4. S \in Seq(BusOps) /\ Len(S) = 6
  BY <1>3, LevelIs, SetAckOps
<1>5. PICK n \in 0..6 : todo = Rest(S, n) /\ AckState(lines, sensor, kind, v, n)
  BY <1>1, <1>2, <1>3 DEF InData
<1>6. /\ n < 6 /\ todo' = Rest(S, n + 1)
      /\ Runs(S[n + 1], lines, sensor, heard, kind, lines', sensor', heard')
  BY <1>4, <1>5, Along
<1>7. n \in 0..5 /\ n + 1 \in 0..6
  BY <1>5, <1>6
<1>8. Runs((B!i2c_master_setAck(Level(v)) \o <<B!Set(1, 0)>>)[n + 1], lines, sensor, heard, kind, lines', sensor', heard')
  BY <1>3, <1>6
<1>9. AckState(lines', sensor', kind, v, n + 1) /\ Same(sensor, sensor')
  BY <1>5, <1>7, <1>8, SoundNow, AckStepOf
<1>10. QED
  BY <1>0, <1>1, <1>2, <1>3, <1>6, <1>7, <1>9, KeptFacts DEF InData, Same

LEMMA DriveByte == ASSUME MasterTyped, SensorTyped, B!Drive, InByte, busPc = "byte" PROVE InByte'
<1>0. /\ UNCHANGED <<busPc, jobs, timeout, values, inited, answer, kind>>
      /\ sensor.work \in {"measures", "done"} /\ sensor.of = B!Command
      /\ Taken /\ timeout > B!Length - Len(values) - 1
  BY DriveSteps DEF Stepped, InByte
<1>1. PICK v \in 1 .. B!Length : v = Len(values) + 1
  BY DEF MasterTyped, B!Length
<1>2. PICK n \in 0 .. 4 * ByteBits + 2 :
        todo = Rest(B!i2c_master_readByte, n) /\ ReadState(lines, sensor, heard, kind, v, n)
  BY <1>1 DEF InByte
<1>3. /\ n < 4 * ByteBits + 2 /\ todo' = Rest(B!i2c_master_readByte, n + 1)
      /\ Runs(B!i2c_master_readByte[n + 1], lines, sensor, heard, kind, lines', sensor', heard')
  BY <1>2, ReadOps, Along
<1>4. n \in 0 .. 4 * ByteBits + 1 /\ n + 1 \in 0 .. 4 * ByteBits + 2
  BY <1>2, <1>3, BusAssumption
<1>5. ReadState(lines', sensor', heard', kind, v, n + 1) /\ Same(sensor, sensor')
  BY <1>2, <1>3, <1>4, SoundNow, ReadStep
<1>6. QED
  BY <1>0, <1>1, <1>3, <1>4, <1>5, KeptFacts DEF InByte, Same

LEMMA DriveCourse == ASSUME MasterTyped, SensorTyped, Course, B!Drive, ~spoilt' PROVE Course'
<1>1. /\ todo # <<>> /\ UNCHANGED <<busPc, jobs, timeout, values, inited, answer, kind>>
  BY DriveSteps DEF Stepped
<1>2. busPc # "boot" /\ busPc # "idle"
  BY <1>1 DEF MasterTyped
<1>3. busPc' = "next" => InNext'
  BY <1>1, DriveNext DEF Course
<1>4. busPc' = "setup" => InSetup'
  BY <1>1, DriveSetup DEF Course
<1>5. busPc' = "write" => InWrite'
  BY <1>1, DriveWrite DEF Course
<1>6. busPc' = "command" => InCommand'
  BY <1>1, DriveCommand DEF Course
<1>7. busPc' = "settle" => InSettle'
  BY <1>1, DriveSettle DEF Course
<1>8. busPc' = "address" => InAddress'
  BY <1>1, DriveAddress DEF Course
<1>9. busPc' = "data" => InData'
  BY <1>1, DriveData DEF Course
<1>10. busPc' = "byte" => InByte'
  BY <1>1, DriveByte DEF Course
<1>11. /\ busPc' \in {"command", "settle", "address", "data", "byte"} => kind' # "none"
       /\ busPc' \in {"setup", "write", "command"} => values' = <<>>
       /\ kind' # "none" /\ jobs' # <<>> /\ Head(jobs') # B!Setup => inited'
  BY <1>1 DEF Course
<1>12. QED
  BY <1>1, <1>2, <1>3, <1>4, <1>5, <1>6, <1>7, <1>8, <1>9, <1>10, <1>11, Zenon DEF Course

\* The sensor is done with what it does.
Ends(o, s, r) ==
    /\ r.mode = s.mode /\ r.at = s.at /\ r.of = s.of /\ r.bits = s.bits /\ r.nack = s.nack /\ r.scl = 1
    /\ s.work \in {"resets", "measures"} /\ r.work = (IF s.work = "resets" THEN "none" ELSE "done")
    /\ s.scl = 1 => r.sda = s.sda /\ r.clocks = s.clocks
    /\ s.scl # 1 => s.work = "measures" /\ s.mode = "read" /\ r.clocks = o.scl /\ r.sda = B!Bit(r.reading[1], 1)

LEMMA ReadyIs ==
    ASSUME MasterTyped, SensorTyped, B!Ready
    PROVE  Ends(lines, sensor, sensor') /\ Sensing(sensor') /\ kind # "none"
<1>1. PICK s, t : s = sensor /\ t = sensor'
  OBVIOUS
<1>2. s \in Sensors /\ Sensing(s) /\ s.work \in {"resets", "measures"} /\ Sensing(t)
  BY <1>1, ReadyTyped DEF SensorTyped, Sensing, B!Ready
<1>3. s.scl # 1 => s.scl = 0 /\ s.mode = "read" /\ s.work = "measures"
  BY <1>2 DEF Sensors, Sensing
<1>4. kind # "none"
  BY <1>1, <1>2 DEF SensorTyped, B!NewSensor
<1>5. CASE s.work = "resets"
  <2>1. t = [s EXCEPT !.work = "none"] /\ s.scl = 1
    BY <1>1, <1>3, <1>5 DEF B!Ready
  <2>2. Ends(lines, s, t)
    BY <1>2, <1>5, <2>1 DEF Ends, Sensors
  <2>3. QED
    BY <1>1, <1>2, <1>4, <2>2
<1>6. CASE s.work = "measures"
  <2>1. PICK x \in Readings[s.of] :
          t = IF s.scl = 1 THEN [s EXCEPT !.work = "done", !.reading = x]
              ELSE [s EXCEPT !.work = "done", !.reading = x, !.scl = 1, !.sda = B!Bit(x[1], 1), !.clocks = lines.scl]
    BY <1>1, <1>6 DEF B!Ready
  <2>2. CASE s.scl = 1
    <3>1. t = [s EXCEPT !.work = "done", !.reading = x]
      BY <2>1, <2>2
    <3>2. QED
      BY <1>1, <1>2, <1>4, <1>6, <2>2, <3>1 DEF Ends, Sensors
  <2>3. CASE s.scl # 1
    <3>1. PICK u, z : u = B!Bit(x[1], 1) /\ z = lines.scl
      OBVIOUS
    <3>2. t = [s EXCEPT !.work = "done", !.reading = x, !.scl = 1, !.sda = u, !.clocks = z]
      BY <2>1, <2>3, <3>1
    <3>3. /\ t.mode = s.mode /\ t.at = s.at /\ t.of = s.of /\ t.bits = s.bits /\ t.nack = s.nack /\ t.scl = 1
          /\ t.work = "done" /\ t.reading = x /\ t.sda = u /\ t.clocks = z
      BY <1>2, <3>2 DEF Sensors
    <3>4. Ends(lines, s, t)
      BY <1>2, <1>3, <1>6, <2>3, <3>1, <3>3 DEF Ends
    <3>5. QED
      BY <1>1, <1>2, <1>4, <3>4
  <2>4. QED
    BY <2>2, <2>3
<1>7. QED
  BY <1>2, <1>5, <1>6, SMTT(30)

\* A byte that was offered goes on when the sensor is done.
LEMMA OfferedEnds ==
    ASSUME NEW o, NEW s, NEW r, NEW k, NEW v, o.scl = 0, Ends(o, s, r), Offered(s, k, v)
    PROVE  Offered(r, k, v) /\ v = 1
<1>1. s.work # "done" /\ r.work = "done"
  BY DEF Ends, Offered, ClockHeld
<1>2. s.scl # 1 /\ v = 1
  BY <1>1 DEF Offered, ClockHeld
<1>3. QED
  BY <1>1, <1>2 DEF Ends, Offered

LEMMA WriteEnds ==
    ASSUME NEW o, NEW s, NEW r, NEW h, NEW k, NEW mode, NEW byte, NEW n, Ends(o, s, r),
           WriteState(o, s, h, k, mode, byte, n)
    PROVE  WriteState(o, r, h, k, mode, byte, n)
<1>1. ASSUME NEW c \in 0 .. ByteBits - 1, NEW place \in 0..2, n = 3 * c + place
      PROVE  BitState(o, r, h, k, mode, byte, c, place)
  BY <1>1 DEF WriteState, BitState, Written1, Ends
<1>2. ASSUME NEW e \in 0..5, n = 3 * ByteBits + e
      PROVE  AckedState(o, r, h, k, mode, byte, e)
  <2>1. AckedState(o, s, h, k, mode, byte, e)
    BY <1>2 DEF WriteState
  <2>2. \A clocks : s.scl = 1 /\ Acknowledging(s, k, mode, byte, clocks) => Acknowledging(r, k, mode, byte, clocks)
    BY DEF Acknowledging, Ends
  <2>3. Refusing(s, k, mode, byte) <=> Refusing(r, k, mode, byte)
    BY DEF Refusing, Ends
  <2>4. o.scl = 0 /\ AfterAck(s, k, mode, byte) => AfterAck(r, k, mode, byte)
    <3>1. CASE mode = "address" /\ byte = Address + 1
      BY <3>1, OfferedEnds DEF AfterAck
    <3>2. CASE ~(mode = "address" /\ byte = Address + 1)
      BY <3>2 DEF AfterAck, Ends
    <3>3. QED
      BY <3>1, <3>2
  <2>5. e < 5 => r.scl = 1 /\ s.scl = 1
    BY <2>1 DEF AckedState, Ends
  <2>6. CASE e = 5
    BY <2>1, <2>6, <2>3, <2>4 DEF AckedState, Low
  <2>7. CASE e < 5
    BY <2>5, <2>7, <2>1, <2>2, <2>3 DEF AckedState
  <2>8. QED
    BY <2>6, <2>7
<1>3. QED
  BY <1>1, <1>2, Zenon DEF WriteState

LEMMA ReadEndsToo ==
    ASSUME NEW o, NEW s, NEW r, NEW h, NEW k, NEW v, NEW n \in Nat, Ends(o, s, r), Sensing(r),
           ReadState(o, s, h, k, v, n)
    PROVE  ReadState(o, r, h, k, v, n) /\ (n \in 0 .. 4 * ByteBits + 2 => v = 1)
<1>1. s.work # "done" /\ Reads(r, k, v)
  BY DEF Ends, Reads, ReadState
<1>2. n = 0 => o.scl = 0 /\ Offered(r, k, v) /\ h = 0 /\ v = 1
  BY OfferedEnds DEF ReadState
<1>3. ASSUME NEW c \in 0 .. ByteBits - 1, NEW place \in 1..4, InState(o, s, h, k, v, c, place)
      PROVE  InState(o, r, h, k, v, c, place) /\ v = 1
  <2>1. ~Sends(s, h, v, c, c) /\ ~Sends(s, h, v, c, c + 1)
    BY <1>1 DEF Sends
  <2>2. place # 4
    BY <1>3, <2>1 DEF InState
  <2>3. CASE place = 1
    <3>1. c = 0 /\ o = Low /\ Offered(s, k, v) /\ h = 0 /\ o.scl = 0
      BY <1>3, <2>1, <2>3 DEF InState, Low
    <3>2. Offered(r, k, v) /\ v = 1
      BY <3>1, OfferedEnds
    <3>3. QED
      BY <1>1, <2>3, <3>1, <3>2 DEF InState
  <2>4. CASE place = 2
    <3>1. c = 0 /\ o = Low /\ Offered(s, k, v) /\ h = 0 /\ o.scl = 0
      BY <1>3, <2>1, <2>4 DEF InState, Low
    <3>2. Offered(r, k, v) /\ v = 1
      BY <3>1, OfferedEnds
    <3>3. QED
      BY <1>1, <2>4, <3>1, <3>2 DEF InState
  <2>5. CASE place = 3
    <3>1. c = 0 /\ o = High /\ ClockHeld(s) /\ v = 1 /\ h = 0 /\ o.scl = 1 /\ s.scl # 1
      BY <1>3, <2>1, <2>5 DEF InState, High, ClockHeld
    <3>2. r.scl = 1 /\ r.work = "done" /\ r.clocks = 1 /\ r.sda = B!Bit(r.reading[1], 1)
      BY <3>1 DEF Ends
    <3>3. First(r.reading[1], 0) = 0
      <4>1. 1 \in 1 .. B!Length
        BY DEF B!Length
      <4>2. r.reading[1] \in B!ByteValues
        BY <3>2, <4>1, ReadingIs
      <4>3. QED
        BY <4>2, FirstFacts
    <3>4. Sends(r, h, v, c, c + 1)
      <4>1. c + 1 = 1
        BY <3>1
      <4>2. QED
        BY <3>1, <3>2, <3>3, <4>1, Zenon DEF Sends
    <3>5. r.sda = B!Bit(r.reading[v], c + 1)
      <4>1. c + 1 = 1
        BY <3>1
      <4>2. QED
        BY <3>1, <3>2, <4>1, Zenon
    <3>6. QED
      BY <1>1, <2>5, <3>1, <3>4, <3>5 DEF InState
  <2>6. QED
    BY <2>2, <2>3, <2>4, <2>5
<1>4. n # 4 * ByteBits + 1 /\ n # 4 * ByteBits + 2
  BY <1>1 DEF ReadState, Sends
<1>5. ReadState(o, r, h, k, v, n)
  BY <1>1, <1>2, <1>3, <1>4, Zenon DEF ReadState
<1>6. ASSUME n \in 0 .. 4 * ByteBits + 2 PROVE v = 1
  <2>1. CASE n = 0
    BY <1>2, <2>1
  <2>2. CASE n # 0
    <3>1. n \in 1 .. 4 * ByteBits
      BY <1>4, <1>6, <2>2, BusAssumption
    <3>2. PICK c \in 0 .. ByteBits - 1, place \in 1..4 : n = 4 * c + place
      <4>1. n - 1 = 4 * ((n - 1) \div 4) + ((n - 1) % 4) /\ (n - 1) \div 4 \in Nat /\ (n - 1) % 4 \in 0..3
        BY <3>1
      <4>2. n = 4 * ((n - 1) \div 4) + (((n - 1) % 4) + 1) /\ ((n - 1) % 4) + 1 \in 1..4
        BY <4>1
      <4>3. (n - 1) \div 4 \in 0 .. ByteBits - 1
        BY <3>1, <4>1, BusAssumption
      <4>4. QED
        BY <4>2, <4>3
    <3>3. InState(o, s, h, k, v, c, place)
      BY <3>2, Zenon DEF ReadState
    <3>4. QED
      BY <1>3, <3>3
  <2>3. QED
    BY <2>1, <2>2
<1>7. QED
  BY <1>5, <1>6

LEMMA StopEnds ==
    ASSUME NEW o, NEW s, NEW r, NEW n, Ends(o, s, r), StopState(o, s, n)
    PROVE  StopState(o, r, n)
  BY DEF Ends, StopState

LEMMA SetupEndsToo ==
    ASSUME NEW o, NEW s, NEW r, NEW k, NEW n \in Nat, Ends(o, s, r), SetupState(o, s, k, n)
    PROVE  SetupState(o, r, k, n)
<1>1. CASE n > 0
  <2>1. s.scl = 1
    BY <1>1 DEF SetupState
  <2>2. r.scl = 1 /\ r.mode = s.mode /\ r.clocks = s.clocks /\ r.bits = s.bits /\ r.nack = s.nack
    BY <2>1 DEF Ends
  <2>3. Needs(r) = Needs(s)
    BY <2>2, NeedsStay
  <2>4. \A j : Clocked(o, s, j) => Clocked(o, r, j)
    BY <2>2, <2>3 DEF Clocked
  <2>5. QED
    BY <2>2, <2>4 DEF SetupState
<1>2. CASE n = 0
  BY <1>2, SetupBegins DEF SetupState
<1>3. QED
  BY <1>1, <1>2

LEMMA ReadyCourse == ASSUME MasterTyped, SensorTyped, Course, B!Ready PROVE Course'
<1>1. /\ Ends(lines, sensor, sensor') /\ Sensing(sensor') /\ kind # "none"
      /\ UNCHANGED <<lines, todo, heard, busPc, jobs, timeout, values, inited, answer, kind, spoilt>>
  BY ReadyIs DEF B!Ready
<1>2. ~Rested
  BY <1>1 DEF Rested, Ends
<1>3. busPc # "idle" /\ busPc # "write"
  BY <1>2 DEF Course, InWrite
<1>4. B!Command' = B!Command /\ sensor'.of = sensor.of
  BY <1>1 DEF B!Command, Ends
<1>5. busPc = "boot" => lines' = High
  BY <1>1 DEF Course
<1>6. busPc = "next" => InNext'
  BY <1>2, <1>1 DEF Course, InNext
<1>7. busPc = "setup" => InSetup'
  <2>1. SUFFICES ASSUME busPc = "setup" PROVE InSetup'
    OBVIOUS
  <2>2. PICK n \in 0 .. 7 + 2 * InitClocks : todo = Rest(B!i2c_master_gpio_init, n) /\ SetupState(lines, sensor, kind, n)
    BY <2>1 DEF Course, InSetup
  <2>3. SetupState(lines, sensor', kind, n)
    BY <1>1, <2>2, SetupEndsToo
  <2>4. QED
    BY <1>1, <2>2, <2>3 DEF InSetup
<1>8. busPc = "command" => InCommand'
  <2>1. SUFFICES ASSUME busPc = "command" PROVE InCommand'
    OBVIOUS
  <2>2. PICK n \in 0 .. 3 * ByteBits + 5 :
          /\ todo = Rest(B!i2c_master_writeByte(B!Command) \o B!i2c_master_getAck, n)
          /\ WriteState(lines, sensor, heard, kind, "write", B!Command, n)
          /\ IF n < 3 * ByteBits + 5 THEN Rested
             ELSE sensor.work \in (IF B!Command = ResetCommand THEN {"resets", "none"} ELSE {"measures", "done"})
    BY <2>1 DEF Course, InCommand
  <2>3. ~(n < 3 * ByteBits + 5)
    BY <1>2, <2>2
  <2>4. sensor'.work \in (IF B!Command = ResetCommand THEN {"resets", "none"} ELSE {"measures", "done"})
    BY <1>1, <2>2, <2>3 DEF Ends
  <2>5. WriteState(lines, sensor', heard, kind, "write", B!Command, n)
    BY <1>1, <2>2, WriteEnds
  <2>6. QED
    BY <1>1, <1>4, <2>2, <2>3, <2>4, <2>5 DEF InCommand
<1>9. busPc = "settle" => InSettle'
  <2>1. SUFFICES ASSUME busPc = "settle" PROVE InSettle'
    OBVIOUS
  <2>2. PICK n \in 0..3 : todo = Rest(B!i2c_master_stop, n) /\ StopState(lines, sensor, n)
    BY <2>1 DEF Course, InSettle
  <2>3. StopState(lines, sensor', n)
    BY <1>1, <2>2, StopEnds
  <2>4. sensor'.work \in {"resets", "none"}
    BY <1>1, <2>1 DEF Ends, Course, InSettle
  <2>5. QED
    BY <1>1, <2>2, <2>3, <2>4 DEF InSettle
<1>10. busPc = "address" => InAddress'
  <2>1. SUFFICES ASSUME busPc = "address" PROVE InAddress'
    OBVIOUS
  <2>2. PICK n \in 0 .. 3 * ByteBits + 11 :
          /\ todo = Rest(B!i2c_master_stop \o B!Addressed(Address + 1), n)
          /\ n < 3 => StopState(lines, sensor, n) /\ heard = 0
          /\ n >= 3 => AddressedState(lines, sensor, heard, kind, Address + 1, n - 3)
    BY <2>1 DEF Course, InAddress
  <2>3. n < 3 => StopState(lines, sensor', n) /\ heard = 0
    BY <1>1, <2>2, StopEnds
  <2>4. \A m : AddressedState(lines, sensor, heard, kind, Address + 1, m) =>
                 AddressedState(lines, sensor', heard, kind, Address + 1, m)
    BY <1>1, WriteEnds DEF Ends, AddressedState
  <2>5. sensor'.work \in {"measures", "done"} /\ sensor.of = B!Command /\ values = <<>>
    BY <1>1, <2>1 DEF Ends, Course, InAddress
  <2>6. QED
    BY <1>1, <1>4, <2>2, <2>3, <2>4, <2>5 DEF InAddress
<1>11. busPc = "data" => InData'
  <2>1. SUFFICES ASSUME busPc = "data" PROVE InData'
    OBVIOUS
  <2>2. sensor.work \in {"measures", "done"} /\ sensor.of = B!Command /\ timeout > B!Length - Len(values)
    BY <2>1 DEF Course, InData
  <2>3. sensor.work # "done"
    BY <1>1 DEF Ends
  <2>4. values = <<>>
    BY <2>1, <2>3 DEF Course, InData, AckState
  <2>5. todo = <<>> /\ lines = Low /\ Offered(sensor, kind, 1) /\ lines.scl = 0
    BY <2>1, <2>4 DEF Course, InData, Low
  <2>6. Offered(sensor', kind, 1)
    BY <1>1, <2>5, OfferedEnds
  <2>7. sensor'.work = "done"
    BY <1>1, <2>2 DEF Ends
  <2>8. Taken'
    BY <1>1, <2>4 DEF Taken
  <2>9. QED
    BY <1>1, <1>4, <2>2, <2>4, <2>5, <2>6, <2>7, <2>8 DEF InData
<1>12. busPc = "byte" => InByte'
  <2>1. SUFFICES ASSUME busPc = "byte" PROVE InByte'
    OBVIOUS
  <2>2. sensor.work \in {"measures", "done"} /\ sensor.of = B!Command /\ timeout > B!Length - Len(values) - 1
    BY <2>1 DEF Course, InByte
  <2>3. PICK n \in 0 .. 4 * ByteBits + 2 :
          todo = Rest(B!i2c_master_readByte, n) /\ ReadState(lines, sensor, heard, kind, Len(values) + 1, n)
    BY <2>1 DEF Course, InByte
  <2>4. ReadState(lines, sensor', heard, kind, Len(values) + 1, n) /\ Len(values) + 1 = 1
    BY <1>1, <2>3, ReadEndsToo
  <2>5. values = <<>>
    BY <2>4 DEF MasterTyped
  <2>6. sensor'.work = "done"
    BY <1>1, <2>2 DEF Ends
  <2>7. Taken'
    BY <1>1, <2>5 DEF Taken
  <2>8. QED
    BY <1>1, <1>4, <2>2, <2>3, <2>4, <2>6, <2>7 DEF InByte
<1>13. /\ busPc' \in {"command", "settle", "address", "data", "byte"} => kind' # "none"
       /\ busPc' \in {"setup", "write", "command"} => values' = <<>>
       /\ kind' # "none" /\ jobs' # <<>> /\ Head(jobs') # B!Setup => inited'
  BY <1>1 DEF Course
<1>14. busPc' = busPc
  BY <1>1
<1>15. QED
  BY <1>3, <1>5, <1>6, <1>7, <1>8, <1>9, <1>10, <1>11, <1>12, <1>13, <1>14, Zenon DEF Course

LEMMA RestartCourse == ASSUME B!Restart PROVE Course'
<1>1. lines' = High /\ busPc' = "boot" /\ jobs' = <<>>
  BY DEF B!Restart, High
<1>2. QED
  BY <1>1 DEF Course

LEMMA StutterCourse ==
    ASSUME Course, UNCHANGED <<lines, todo, heard, busPc, jobs, timeout, values, inited, answer, sensor, kind>>
    PROVE  Course'
<1>1. Rested' = Rested /\ Told' = Told /\ Taken' = Taken /\ B!Command' = B!Command
  BY DEF Rested, Told, Taken, B!Command
<1>2. InNext' = InNext /\ InSetup' = InSetup /\ InSettle' = InSettle
  BY <1>1 DEF InNext, InSetup, InSettle
<1>3. InWrite' = InWrite /\ InCommand' = InCommand
  BY <1>1 DEF InWrite, InCommand
<1>4. InAddress' = InAddress /\ InData' = InData /\ InByte' = InByte
  BY <1>1 DEF InAddress, InData, InByte
<1>5. QED
  BY <1>1, <1>2, <1>3, <1>4, Zenon DEF Course

\* How each function goes on.  A sequence that starts, and one that ended.
LEMMA Begins ==
    ASSUME NEW S \in Seq(BusOps)
    PROVE  S = Rest(S, 0)
<1>1. Len(S) \in Nat
  OBVIOUS
<1>2. 0 \in 0 .. Len(S)
  BY <1>1
<1>3. QED
  BY <1>2, RestSteps

LEMMA Over ==
    ASSUME NEW S \in Seq(BusOps), NEW n \in 0 .. Len(S), Rest(S, n) = <<>>
    PROVE  n = Len(S)
  BY RestSteps

LEMMA StopBegins ==
    ASSUME NEW o, NEW s, NEW k, Sound(o, s, k), o.scl = 0, s.scl = 1, s.sda = 1
    PROVE  B!i2c_master_stop = Rest(B!i2c_master_stop, 0) /\ StopState(o, s, 0)
  BY StopOps, Begins DEF StopState

LEMMA StopOver ==
    ASSUME NEW n \in 0..3, todo = Rest(B!i2c_master_stop, n), todo = <<>>
    PROVE  n = 3 /\ <<>> = Rest(B!i2c_master_stop, 3)
<1>1. n = 3
  BY StopOps, Over
<1>2. QED
  BY <1>1

LEMMA BootCourse == ASSUME MasterTyped, SensorTyped, Course, B!Boot PROVE Course'
<1>1. /\ busPc = "boot" /\ busPc' = "next" /\ jobs' = <<B!Setup>> /\ todo' = <<>> /\ lines' = lines
  BY DEF B!Boot, B!At, B!Do
<1>2. jobs' # <<>> /\ Head(jobs') = B!Setup /\ lines' = High
  BY <1>1 DEF Course
<1>3. InNext'
  BY <1>1, <1>2 DEF InNext
<1>4. QED
  BY <1>1, <1>2, <1>3 DEF Course

LEMMA GetCourse ==
    ASSUME MasterTyped, SensorTyped, ~spoilt => Course, NEW command \in Commands, B!Get(command), ~spoilt'
    PROVE  Course'
<1>1. /\ busPc = "idle" /\ busPc' = "next" /\ todo' = <<>> /\ todo = <<>>
      /\ UNCHANGED <<lines, sensor, kind, inited>>
      /\ jobs' = IF inited THEN <<command>> ELSE <<B!Setup, B!Discard, command>>
      /\ ~spoilt \/ B!AtRest
  BY DEF B!Get, B!At, B!Do
<1>2. StopState(lines, sensor, 3) /\ Rested
  <2>1. CASE ~spoilt
    BY <1>1, <2>1 DEF Course
  <2>2. CASE B!AtRest
    <3>1. /\ sensor.mode = "idle" /\ sensor.work \notin {"resets", "measures"}
          /\ B!Lines(lines, sensor) = [sda |-> 1, scl |-> 1]
      BY <2>2 DEF B!AtRest
    <3>2. Sound(lines, sensor, kind)
      BY SoundNow
    <3>3. /\ sensor.scl \in 0..1 /\ sensor.sda = 1 /\ sensor.work \in Works
          /\ lines = [sda |-> lines.sda, scl |-> lines.scl]
          /\ sensor.scl = 0 => B!Lines(lines, sensor).scl = 0
          /\ sensor.scl = 1 => B!Lines(lines, sensor).scl = lines.scl
          /\ sensor.sda = 1 => B!Lines(lines, sensor).sda = lines.sda
      BY <3>1, <3>2, SoundFacts
    <3>4. sensor.scl = 1 /\ lines.scl = 1 /\ lines.sda = 1
      BY <3>1, <3>3
    <3>5. lines = High
      BY <3>3, <3>4 DEF High
    <3>6. StopState(lines, sensor, 3)
      BY <3>1, <3>3, <3>4, <3>5 DEF StopState
    <3>7. Rested
      BY <3>1, <3>3 DEF Rested, Works
    <3>8. QED
      BY <3>6, <3>7
  <2>3. QED
    BY <1>1, <2>1, <2>2
<1>3. lines = High
  BY <1>2 DEF StopState
<1>4. CASE inited
  <2>1. jobs' # <<>> /\ Head(jobs') = command /\ command # B!Setup /\ inited'
    BY <1>1, <1>4, JobFacts
  <2>2. <<>> = Rest(B!i2c_master_stop, 3)
    <3>1. B!i2c_master_stop \in Seq(BusOps) /\ Len(B!i2c_master_stop) = 3 /\ 3 \in 0 .. 3
      BY StopOps
    <3>2. QED
      BY <3>1, RestSteps
  <2>3. StopState(lines', sensor', 3) /\ todo' = Rest(B!i2c_master_stop, 3) /\ 3 \in 0..3 /\ Rested'
    BY <1>1, <1>2, <2>2 DEF Rested
  <2>4. InNext'
    BY <2>1, <2>3 DEF InNext
  <2>5. QED
    BY <1>1, <2>1, <2>4 DEF Course
<1>5. CASE ~inited
  <2>1. jobs' # <<>> /\ Head(jobs') = B!Setup /\ lines' = High
    BY <1>1, <1>3, <1>5
  <2>2. InNext'
    BY <1>1, <2>1 DEF InNext
  <2>3. QED
    BY <1>1, <2>1, <2>2 DEF Course
<1>6. QED
  BY <1>4, <1>5

\* With no more to do, and no set-up to come, the stop is over.
LEMMA NextOver ==
    ASSUME Course, busPc = "next", todo = <<>>, ~(jobs # <<>> /\ Head(jobs) = B!Setup)
    PROVE  /\ StopState(lines, sensor, 3) /\ lines = High /\ sensor.mode = "idle" /\ Rested
           /\ jobs = <<>> => Told
<1>1. InNext
  BY DEF Course
<1>2. PICK n \in 0..3 : todo = Rest(B!i2c_master_stop, n) /\ StopState(lines, sensor, n)
  BY <1>1 DEF InNext
<1>3. n = 3
  BY <1>2, StopOver
<1>4. QED
  BY <1>1, <1>2, <1>3 DEF InNext, StopState

LEMMA AddressBegins ==
    ASSUME lines' = High, sensor'.mode = "idle", heard' = 0, todo' = B!Addressed(Address), Rested'
    PROVE  InWrite'
<1>1. todo' = Rest(B!Addressed(Address), 0)
  BY OpsTyped, Begins
<1>2. AddressedState(lines', sensor', heard', kind', Address, 0)
  BY DEF AddressedState
<1>3. 0 \in 0 .. 3 * ByteBits + 8
  BY BusAssumption
<1>4. QED
  BY <1>1, <1>2, <1>3 DEF InWrite

LEMMA NextJobCourse == ASSUME MasterTyped, SensorTyped, Course, B!NextJob PROVE Course'
<1>1. /\ busPc = "next" /\ todo = <<>> /\ jobs # <<>> /\ heard' = 0 /\ values' = <<>>
      /\ UNCHANGED <<lines, jobs, inited, answer, sensor, kind>>
      /\ IF Head(jobs) = B!Setup THEN busPc' = "setup" /\ todo' = B!i2c_master_gpio_init
         ELSE busPc' = "write" /\ todo' = B!Addressed(Address)
  BY DEF B!NextJob, B!At, B!Do
<1>2. kind' # "none" /\ jobs' # <<>> /\ Head(jobs') # B!Setup => inited'
  BY <1>1 DEF Course
<1>3. CASE Head(jobs) = B!Setup
  <2>1. lines = High
    BY <1>1, <1>3 DEF Course, InNext
  <2>2. SetupState(lines', sensor', kind', 0)
    BY <1>1, <2>1, SetupBegins
  <2>3. todo' = Rest(B!i2c_master_gpio_init, 0) /\ 0 \in 0 .. 7 + 2 * InitClocks
    BY <1>1, <1>3, OpsTyped, Begins, BusAssumption
  <2>4. InSetup'
    BY <2>2, <2>3 DEF InSetup
  <2>5. QED
    BY <1>1, <1>2, <1>3, <2>4 DEF Course
<1>4. CASE Head(jobs) # B!Setup
  <2>1. lines = High /\ sensor.mode = "idle" /\ Rested
    BY <1>1, <1>4, NextOver
  <2>2. InWrite'
    BY <1>1, <1>4, <2>1, AddressBegins DEF Rested
  <2>3. QED
    BY <1>1, <1>2, <1>4, <2>2 DEF Course
<1>5. QED
  BY <1>3, <1>4

LEMMA NoJobCourse == ASSUME MasterTyped, SensorTyped, Course, B!NoJob PROVE Course'
<1>1. /\ busPc = "next" /\ todo = <<>> /\ jobs = <<>> /\ busPc' = "idle"
      /\ UNCHANGED <<lines, jobs, inited, answer, sensor, kind>>
  BY DEF B!NoJob, B!At, B!Do
<1>2. StopState(lines, sensor, 3) /\ Rested /\ Told
  BY <1>1, NextOver
<1>3. StopState(lines', sensor', 3) /\ Rested' /\ Told'
  BY <1>1, <1>2 DEF Rested, Told
<1>4. QED
  BY <1>1, <1>3 DEF Course

LEMMA SendResetCourse == ASSUME MasterTyped, SensorTyped, Course, B!SendReset, ~spoilt' PROVE Course'
<1>1. /\ busPc = "setup" /\ todo = <<>> /\ busPc' = "write" /\ todo' = B!Addressed(Address) /\ heard' = 0
      /\ UNCHANGED <<lines, jobs, inited, values, answer, sensor, kind>>
      /\ sensor.work \notin {"resets", "measures"}
  BY DEF B!SendReset, B!At, B!Do
<1>2. PICK n \in 0 .. 7 + 2 * InitClocks : todo = Rest(B!i2c_master_gpio_init, n) /\ SetupState(lines, sensor, kind, n)
  BY <1>1 DEF Course, InSetup
<1>3. n = 7 + 2 * InitClocks
  BY <1>1, <1>2, SetupOps, Over
<1>4. lines = High /\ sensor.mode = "idle"
  BY <1>2, <1>3 DEF SetupState
<1>5. sensor.work \in Works
  BY SoundNow, SoundFacts
<1>6. Rested
  BY <1>1, <1>5 DEF Rested, Works
<1>7. InWrite'
  BY <1>1, <1>4, <1>6, AddressBegins DEF Rested
<1>8. QED
  BY <1>1, <1>7 DEF Course

\* The end of a job.
LEMMA JobEnds ==
    ASSUME MasterTyped, jobs # <<>>, NEW ok \in BOOLEAN, B!Finished(ok), UNCHANGED values
    PROVE  /\ jobs' = Tail(jobs) /\ (jobs' # <<>> => Head(jobs') # B!Setup)
           /\ inited' = (inited \/ (Head(jobs) = B!Setup /\ ok))
           /\ Head(jobs) \in Commands => answer' = [of |-> Head(jobs), ok |-> ok, values |-> values]
           /\ Head(jobs) \notin Commands => answer' = B!NoAnswer
           /\ Head(jobs) \in Commands => B!Command = Head(jobs)
           /\ Head(jobs) \in Commands \/ Head(jobs) = B!Setup \/ jobs' # <<>>
<1>1. /\ jobs' = Tail(jobs) /\ inited' = (inited \/ (Head(jobs) = B!Setup /\ ok))
      /\ answer' = IF Head(jobs) \in Commands THEN [of |-> Head(jobs), ok |-> ok, values |-> values'] ELSE answer
  BY DEF B!Finished
<1>2. answer = B!NoAnswer /\ jobs \in JobLists
  BY DEF MasterTyped
<1>3. /\ Tail(jobs) # <<>> => Head(Tail(jobs)) # B!Setup
      /\ Head(jobs) = B!Discard => Tail(jobs) # <<>>
      /\ Head(jobs) \in Commands \union {B!Setup, B!Discard}
      /\ B!Setup \notin Commands /\ B!Discard \notin Commands
  BY <1>2, JobFacts
<1>4. Head(jobs) \in Commands => B!Command = Head(jobs)
  BY <1>3 DEF B!Command
<1>5. QED
  BY <1>1, <1>2, <1>3, <1>4

LEMMA NextBegins ==
    ASSUME Sound(lines, sensor, kind), lines.scl = 0, sensor.scl = 1, sensor.sda = 1, Rested,
           UNCHANGED <<lines, sensor, kind>>, todo' = B!i2c_master_stop,
           jobs' # <<>> => Head(jobs') # B!Setup, jobs' = <<>> => Told'
    PROVE  InNext'
<1>1. todo' = Rest(B!i2c_master_stop, 0) /\ StopState(lines', sensor', 0) /\ 0 \in 0..3
  BY StopBegins
<1>2. Rested'
  BY DEF Rested
<1>3. ~(jobs' # <<>> /\ Head(jobs') = B!Setup)
  OBVIOUS
<1>4. QED
  BY <1>1, <1>2, <1>3 DEF InNext

\* A byte was written.
LEMMA WriteOver ==
    ASSUME NEW o, NEW s, NEW h, NEW k, NEW mode, NEW byte, Sound(o, s, k),
           WriteState(o, s, h, k, mode, byte, 3 * ByteBits + 5)
    PROVE  /\ o = Low /\ o.scl = 0
           /\ h = 0 => AfterAck(s, k, mode, byte)
           /\ h # 0 => Refusing(s, k, mode, byte) /\ s.scl = 1 /\ s.sda = 1
<1>1. AckedState(o, s, h, k, mode, byte, 5)
  <2>1. 5 \in 0..5 /\ 3 * ByteBits + 5 = 3 * ByteBits + 5
    OBVIOUS
  <2>2. QED
    BY <2>1, Zenon DEF WriteState
<1>2. o = Low /\ (h = 0 => AfterAck(s, k, mode, byte)) /\ (h # 0 => Refusing(s, k, mode, byte))
  BY <1>1 DEF AckedState
<1>3. Refusing(s, k, mode, byte) => s.scl = 1 /\ s.sda = 1
  <2>1. Refusing(s, k, mode, byte) => s.mode = "idle"
    BY DEF Refusing
  <2>2. s.mode = "idle" => s.sda = 1 /\ s.scl = 1
    BY SoundFacts, NotHolding
  <2>3. QED
    BY <2>1, <2>2
<1>4. QED
  BY <1>2, <1>3 DEF Low

LEMMA AddressOver ==
    ASSUME NEW o, NEW s, NEW h, NEW k, NEW byte, Sound(o, s, k),
           AddressedState(o, s, h, k, byte, 3 * ByteBits + 8)
    PROVE  /\ o = Low /\ o.scl = 0
           /\ h = 0 => AfterAck(s, k, "address", byte)
           /\ h # 0 => Refusing(s, k, "address", byte) /\ s.scl = 1 /\ s.sda = 1
<1>1. (3 * ByteBits + 8) - 3 = 3 * ByteBits + 5 /\ 3 * ByteBits + 8 >= 3
  BY BusAssumption
<1>2. WriteState(o, s, h, k, "address", byte, 3 * ByteBits + 5)
  BY <1>1 DEF AddressedState
<1>3. QED
  BY <1>2, WriteOver

\* A sensor that waits for a byte.
LEMMA WritingFacts ==
    ASSUME NEW o, NEW s, NEW k, Sound(o, s, k), o.scl = 0, s.scl = 1, s.mode = "write", s.clocks = 0
    PROVE  s.sda = 1 /\ s.bits = 0
<1>1. Sensing(s) /\ s.bits \in Nat
  BY SoundFacts
<1>2. Counted(s) = 0
  BY BusAssumption DEF Counted
<1>3. s.bits < 1
  BY <1>1, <1>2, PowerFacts DEF Sensing
<1>4. s.sda = 1
  BY <1>1, BusAssumption DEF Sensing
<1>5. QED
  BY <1>1, <1>3, <1>4

LEMMA WriteAddressedCourse == ASSUME MasterTyped, SensorTyped, Course, B!WriteAddressed PROVE Course'
<1>1. /\ busPc = "write" /\ todo = <<>> /\ UNCHANGED <<lines, sensor, kind, values>>
      /\ heard = 0 => /\ busPc' = "command" /\ todo' = B!i2c_master_writeByte(B!Command) \o B!i2c_master_getAck /\ heard' = 0
                      /\ UNCHANGED <<jobs, inited, answer>>
      /\ heard # 0 => busPc' = "next" /\ todo' = B!i2c_master_stop /\ B!Finished(FALSE)
  BY DEF B!WriteAddressed, B!At, B!Do, B!Acked
<1>2. jobs # <<>>
  BY <1>1 DEF MasterTyped
<1>3. PICK n \in 0 .. 3 * ByteBits + 8 :
        todo = Rest(B!Addressed(Address), n) /\ AddressedState(lines, sensor, heard, kind, Address, n)
  BY <1>1 DEF Course, InWrite
<1>4. n = 3 * ByteBits + 8
  BY <1>1, <1>3, OpsTyped, AddressedOps, Over
<1>5. Sound(lines, sensor, kind)
  BY SoundNow
<1>6. /\ lines = Low /\ lines.scl = 0
      /\ heard = 0 => AfterAck(sensor, kind, "address", Address)
      /\ heard # 0 => Refusing(sensor, kind, "address", Address) /\ sensor.scl = 1 /\ sensor.sda = 1
  BY <1>3, <1>4, <1>5, AddressOver
<1>7. Address # Address + 1 /\ values = <<>> /\ Rested
  BY <1>1, OpsTyped DEF Course, InWrite
<1>8. CASE heard = 0
  <2>1. kind # "none" /\ sensor.scl = 1 /\ sensor.mode = "write" /\ sensor.clocks = 0
    BY <1>6, <1>7, <1>8 DEF AfterAck
  <2>2. sensor.sda = 1 /\ sensor.bits = 0
    BY <1>5, <1>6, <2>1, WritingFacts
  <2>3. PICK b : b = B!Command
    OBVIOUS
  <2>4. b \in B!ByteValues /\ b \in Nat /\ B!Command' = b
    BY <1>1, <1>2, <1>8, <2>3, CommandIsKnown, BusAssumption DEF Known, B!Command
  <2>5. Written1(sensor, kind, "write", b, 0)
    BY <2>1, <2>2, <2>4, FirstFacts DEF Written1
  <2>6. BitState(lines, sensor, 0, kind, "write", b, 0, 0)
    BY <2>1, <2>5 DEF BitState
  <2>7. 0 \in 0 .. ByteBits - 1 /\ 0 \in 0..2 /\ 3 * 0 + 0 = 0 /\ 0 \in 0 .. 3 * ByteBits + 5 /\ 0 < 3 * ByteBits + 5
    BY BusAssumption
  <2>8. WriteState(lines, sensor, 0, kind, "write", b, 0)
    BY <2>6, <2>7, AtBit
  <2>9. todo' = Rest(B!i2c_master_writeByte(b) \o B!i2c_master_getAck, 0)
    BY <1>1, <1>8, <2>3, <2>4, OpsTyped, Begins
  <2>10. WriteState(lines', sensor', heard', kind', "write", b, 0) /\ Rested'
    BY <1>1, <1>7, <1>8, <2>8 DEF Rested
  <2>11. InCommand'
    BY <2>4, <2>7, <2>9, <2>10 DEF InCommand
  <2>12. QED
    BY <1>1, <1>7, <1>8, <2>1, <2>11 DEF Course
<1>9. CASE heard # 0
  <2>1. kind = "none" /\ busPc' = "next" /\ B!Finished(FALSE) /\ kind' = "none"
    BY <1>1, <1>6, <1>7, <1>9 DEF Refusing
  <2>2. /\ jobs' # <<>> => Head(jobs') # B!Setup
        /\ ~answer'.ok
    <3>1. ~B!NoAnswer.ok
      BY DEF B!NoAnswer
    <3>2. FALSE \in BOOLEAN /\ UNCHANGED values /\ B!Finished(FALSE)
      BY <1>1, <2>1
    <3>3. /\ jobs' # <<>> => Head(jobs') # B!Setup
          /\ Head(jobs) \in Commands => answer' = [of |-> Head(jobs), ok |-> FALSE, values |-> values]
          /\ Head(jobs) \notin Commands => answer' = B!NoAnswer
      BY <1>2, <3>2, JobEnds, Zenon
    <3>4. QED
      BY <3>1, <3>3
  <2>3. Told'
    BY <2>1, <2>2 DEF Told
  <2>4. InNext'
    BY <1>1, <1>5, <1>6, <1>7, <1>9, <2>2, <2>3, NextBegins
  <2>5. QED
    BY <2>1, <2>4 DEF Course
<1>10. QED
  BY <1>8, <1>9

LEMMA WrittenCourse == ASSUME MasterTyped, SensorTyped, Course, B!Written PROVE Course'
<1>1. /\ busPc = "command" /\ todo = <<>> /\ UNCHANGED <<lines, sensor, kind, values>>
      /\ heard = 0 /\ Head(jobs) = B!Setup =>
           busPc' = "settle" /\ todo' = B!i2c_master_stop /\ UNCHANGED <<jobs, inited, answer>>
      /\ heard = 0 /\ Head(jobs) # B!Setup =>
           busPc' = "address" /\ todo' = B!i2c_master_stop \o B!Addressed(Address + 1) /\ heard' = 0
             /\ UNCHANGED <<jobs, inited, answer>>
  BY DEF B!Written, B!At, B!Do, B!Acked
<1>2. jobs # <<>>
  BY <1>1 DEF MasterTyped
<1>3. PICK b : b = B!Command
  OBVIOUS
<1>4. /\ Head(jobs) = B!Setup => b = ResetCommand
      /\ Head(jobs) # B!Setup => b # ResetCommand
      /\ b \in Nat
  BY <1>2, <1>3, CommandIsKnown
<1>5. PICK n \in 0 .. 3 * ByteBits + 5 :
        /\ todo = Rest(B!i2c_master_writeByte(b) \o B!i2c_master_getAck, n)
        /\ WriteState(lines, sensor, heard, kind, "write", b, n)
        /\ ~(n < 3 * ByteBits + 5) =>
             sensor.work \in (IF b = ResetCommand THEN {"resets", "none"} ELSE {"measures", "done"})
  BY <1>1, <1>3 DEF Course, InCommand
<1>6. n = 3 * ByteBits + 5 /\ ~(n < 3 * ByteBits + 5)
  <2>1. n = 3 * ByteBits + 5
    BY <1>1, <1>4, <1>5, CommandOps, Over
  <2>2. QED
    BY <2>1, BusAssumption
<1>7. Sound(lines, sensor, kind) /\ kind # "none"
  BY <1>1, SoundNow DEF Course
<1>8. /\ lines = Low /\ lines.scl = 0
      /\ heard = 0 => AfterAck(sensor, kind, "write", b)
      /\ heard # 0 => Refusing(sensor, kind, "write", b)
  BY <1>5, <1>6, <1>7, WriteOver
<1>9. heard = 0
  BY <1>7, <1>8 DEF Refusing
<1>10. sensor.scl = 1 /\ sensor.mode = "write" /\ sensor.clocks = 0 /\ sensor.of = b
  BY <1>8, <1>9 DEF AfterAck
<1>11. sensor.sda = 1
  BY <1>7, <1>8, <1>10, WritingFacts
<1>12. StopState(lines', sensor', 0)
  BY <1>1, <1>8, <1>10, <1>11 DEF StopState
<1>13. kind' # "none" /\ (kind' # "none" /\ jobs' # <<>> /\ Head(jobs') # B!Setup => inited') /\ B!Command' = b
  BY <1>1, <1>3, <1>7, <1>9 DEF Course, B!Command
<1>14. CASE Head(jobs) = B!Setup
  <2>1. todo' = Rest(B!i2c_master_stop, 0) /\ 0 \in 0..3
    BY <1>1, <1>9, <1>14, StopOps, Begins
  <2>2. sensor'.work \in {"resets", "none"}
    BY <1>1, <1>4, <1>5, <1>6, <1>14
  <2>3. InSettle'
    BY <1>12, <2>1, <2>2 DEF InSettle
  <2>4. QED
    BY <1>1, <1>9, <1>13, <1>14, <2>3 DEF Course
<1>15. CASE Head(jobs) # B!Setup
  <2>1. todo' = Rest(B!i2c_master_stop \o B!Addressed(Address + 1), 0)
    BY <1>1, <1>9, <1>15, OpsTyped, Begins
  <2>2. sensor'.work \in {"measures", "done"} /\ sensor'.of = b /\ values' = <<>>
    BY <1>1, <1>4, <1>5, <1>6, <1>10, <1>15 DEF Course
  <2>3. 0 \in 0 .. 3 * ByteBits + 11 /\ ~(0 >= 3) /\ heard' = 0
    BY <1>1, <1>9, <1>15, BusAssumption
  <2>4. InAddress'
    BY <1>12, <1>13, <2>1, <2>2, <2>3 DEF InAddress
  <2>5. QED
    BY <1>1, <1>9, <1>13, <1>15, <2>4 DEF Course
<1>16. QED
  BY <1>14, <1>15

LEMMA SettleCourse == ASSUME MasterTyped, SensorTyped, Course, B!Settle PROVE Course'
<1>1. /\ busPc = "settle" /\ todo = <<>> /\ busPc' = "next" /\ todo' = <<>> /\ sensor.work # "resets"
      /\ UNCHANGED <<lines, sensor, kind, values>> /\ B!Finished(TRUE)
  BY DEF B!Settle, B!At, B!Do
<1>2. jobs # <<>> /\ Head(jobs) = B!Setup
  BY <1>1 DEF MasterTyped
<1>3. PICK n \in 0..3 : todo = Rest(B!i2c_master_stop, n) /\ StopState(lines, sensor, n)
  BY <1>1 DEF Course, InSettle
<1>4. n = 3 /\ <<>> = Rest(B!i2c_master_stop, 3)
  BY <1>1, <1>3, StopOver
<1>5. sensor.work = "none"
  BY <1>1 DEF Course, InSettle
<1>6. TRUE \in BOOLEAN /\ UNCHANGED values /\ B!Finished(TRUE)
  BY <1>1
<1>7. /\ jobs' # <<>> => Head(jobs') # B!Setup
      /\ inited' = (inited \/ (Head(jobs) = B!Setup /\ TRUE))
      /\ Head(jobs) \notin Commands => answer' = B!NoAnswer
  BY <1>2, <1>6, JobEnds, Zenon
<1>8. inited' /\ answer' = B!NoAnswer /\ ~B!NoAnswer.ok
  BY <1>2, <1>7, JobFacts DEF B!NoAnswer
<1>9. Rested' /\ Told'
  BY <1>1, <1>5, <1>8 DEF Rested, Told
<1>10. InNext'
  BY <1>1, <1>3, <1>4, <1>7, <1>9 DEF InNext
<1>11. QED
  BY <1>1, <1>8, <1>10 DEF Course

LEMMA ReadAddressedCourse == ASSUME MasterTyped, SensorTyped, Course, B!ReadAddressed, ~spoilt' PROVE Course'
<1>1. /\ busPc = "address" /\ todo = <<>> /\ UNCHANGED <<lines, sensor, kind, values>> /\ timeout > 2
      /\ heard = 0 => busPc' = "data" /\ todo' = <<>> /\ timeout' = timeout /\ UNCHANGED <<jobs, inited, answer>>
      /\ heard # 0 => /\ busPc' = "address" /\ todo' = B!i2c_master_stop \o B!Addressed(Address + 1) /\ heard' = 0
                      /\ UNCHANGED <<jobs, inited, answer>>
  <2>1. /\ busPc = "address" /\ todo = <<>> /\ UNCHANGED <<lines, sensor, kind, values>> /\ ~(timeout <= 2)
        /\ timeout' = IF B!Acked THEN timeout ELSE timeout - 1
        /\ CASE B!Acked -> B!Do("data", <<>>) /\ UNCHANGED <<jobs, inited, answer>>
             [] ~B!Acked /\ timeout > 1 ->
                  B!Do("address", B!i2c_master_stop \o B!Addressed(Address + 1)) /\ UNCHANGED <<jobs, inited, answer>>
             [] ~B!Acked /\ timeout = 1 -> B!Do("next", B!i2c_master_stop) /\ B!Finished(FALSE)
    BY DEF B!ReadAddressed, B!At, B!Length
  <2>2. timeout > 2 /\ timeout > 1 /\ timeout # 1
    BY <2>1 DEF MasterTyped
  <2>3. CASE B!Acked
    BY <2>1, <2>2, <2>3 DEF B!Acked, B!Do
  <2>4. CASE ~B!Acked
    BY <2>1, <2>2, <2>4 DEF B!Acked, B!Do
  <2>5. QED
    BY <2>3, <2>4
<1>2. /\ sensor.work \in {"measures", "done"} /\ sensor.of = B!Command /\ values = <<>> /\ kind # "none"
      /\ kind' # "none" /\ jobs' # <<>> /\ Head(jobs') # B!Setup => inited'
      /\ B!Command' = B!Command
  BY <1>1 DEF Course, InAddress, B!Command
<1>3. PICK n \in 0 .. 3 * ByteBits + 11 :
        /\ todo = Rest(B!i2c_master_stop \o B!Addressed(Address + 1), n)
        /\ n >= 3 => AddressedState(lines, sensor, heard, kind, Address + 1, n - 3)
  BY <1>1 DEF Course, InAddress
<1>4. n >= 3 /\ n - 3 = 3 * ByteBits + 8
  <2>1. n = 3 * ByteBits + 11
    BY <1>1, <1>3, OpsTyped, AgainOps, Over
  <2>2. QED
    BY <2>1, BusAssumption
<1>5. Sound(lines, sensor, kind)
  BY SoundNow
<1>6. /\ lines = Low /\ lines.scl = 0
      /\ heard = 0 => AfterAck(sensor, kind, "address", Address + 1)
      /\ heard # 0 => sensor.scl = 1 /\ sensor.sda = 1
  BY <1>3, <1>4, <1>5, AddressOver
<1>7. CASE heard = 0
  <2>1. Offered(sensor, kind, 1)
    BY <1>6, <1>7 DEF AfterAck
  <2>2. Offered(sensor', kind', 1) /\ lines' = Low /\ todo' = <<>> /\ values' = <<>> /\ Len(values') = 0
    BY <1>1, <1>2, <1>6, <1>7, <2>1
  <2>3. timeout' > B!Length - Len(values')
    BY <1>1, <1>7, <2>2 DEF B!Length, MasterTyped
  <2>4. Taken'
    BY <2>2 DEF Taken
  <2>5. InData'
    BY <1>1, <1>2, <2>2, <2>3, <2>4 DEF InData
  <2>6. QED
    BY <1>1, <1>2, <1>7, <2>5 DEF Course
<1>8. CASE heard # 0
  <2>1. todo' = Rest(B!i2c_master_stop \o B!Addressed(Address + 1), 0)
    BY <1>1, <1>8, OpsTyped, Begins
  <2>2. 0 \in 0 .. 3 * ByteBits + 11 /\ ~(0 >= 3) /\ heard' = 0
    BY <1>1, <1>8, BusAssumption
  <2>3. StopState(lines', sensor', 0)
    BY <1>1, <1>6, <1>8 DEF StopState
  <2>4. InAddress'
    BY <1>1, <1>2, <2>1, <2>2, <2>3 DEF InAddress
  <2>5. QED
    BY <1>1, <1>2, <1>8, <2>4 DEF Course
<1>9. QED
  BY <1>7, <1>8

\* An acknowledgement is over: what it left.
LEMMA AckEnds ==
    ASSUME MasterTyped, SensorTyped, Course, busPc = "data", todo = <<>>, values # <<>>
    PROVE  AckState(lines, sensor, kind, Len(values), 6) /\ Len(values) \in 1 .. B!Length
<1>1. PICK v \in 1 .. B!Length : v = Len(values)
  BY DEF MasterTyped
<1>2. PICK n \in 0..6 :
        todo = Rest(B!i2c_master_setAck(Level(v)) \o <<B!Set(1, 0)>>, n) /\ AckState(lines, sensor, kind, v, n)
  BY <1>1 DEF Course, InData
<1>3. PICK S : S = B!i2c_master_setAck(Level(v)) \o <<B!Set(1, 0)>>
  OBVIOUS
<1>4. S \in Seq(BusOps) /\ Len(S) = 6
  BY <1>3, LevelIs, SetAckOps
<1>5. n = 6
  BY <1>2, <1>3, <1>4, Over
<1>6. QED
  BY <1>1, <1>2, <1>5

LEMMA ReadNextCourse == ASSUME MasterTyped, SensorTyped, Course, B!ReadNext PROVE Course'
<1>1. /\ busPc = "data" /\ todo = <<>> /\ Len(values) < B!Length /\ timeout' = timeout - 1
      /\ UNCHANGED <<lines, sensor, kind, values>>
      /\ IF timeout > 1
         THEN B!Do("byte", B!i2c_master_readByte) /\ UNCHANGED <<jobs, inited, answer>>
         ELSE B!Do("next", B!i2c_master_stop) /\ B!Finished(TRUE)
  BY DEF B!ReadNext, B!At
<1>2. /\ sensor.work \in {"measures", "done"} /\ sensor.of = B!Command /\ Taken /\ timeout > B!Length - Len(values)
      /\ kind # "none" /\ (kind # "none" /\ jobs # <<>> /\ Head(jobs) # B!Setup => inited)
  BY <1>1 DEF Course, InData
<1>3. Len(values) \in Nat /\ timeout \in Nat /\ B!Length = 2
  BY BusAssumption DEF MasterTyped, B!Length
<1>4. timeout > 1
  BY <1>1, <1>2, <1>3
<1>5. busPc' = "byte" /\ todo' = B!i2c_master_readByte /\ heard' = 0 /\ UNCHANGED <<jobs, inited, answer>>
  BY <1>1, <1>4 DEF B!Do
<1>6. lines.scl = 0 /\ Offered(sensor, kind, Len(values) + 1)
  <2>1. CASE values = <<>>
    BY <1>1, <2>1 DEF Course, InData, Low
  <2>2. CASE values # <<>>
    BY <1>1, <1>3, <2>2, AckEnds DEF AckState
  <2>3. QED
    BY <2>1, <2>2
<1>7. ReadState(lines, sensor, 0, kind, Len(values) + 1, 0)
  <2>1. PICK v : v = Len(values) + 1
    OBVIOUS
  <2>2. Reads(sensor, kind, v)
    BY <1>6, <2>1 DEF Offered, Reads
  <2>3. 0 # 4 * ByteBits + 1 /\ 0 # 4 * ByteBits + 2
        /\ \A c \in 0 .. ByteBits - 1, place \in 1..4 : 0 # 4 * c + place
    BY BusAssumption
  <2>4. ReadState(lines, sensor, 0, kind, v, 0)
    BY <1>6, <2>1, <2>2, <2>3, Zenon DEF ReadState
  <2>5. QED
    BY <2>1, <2>4, Zenon
<1>8. todo' = Rest(B!i2c_master_readByte, 0) /\ 0 \in 0 .. 4 * ByteBits + 2
  <2>1. B!i2c_master_readByte = Rest(B!i2c_master_readByte, 0)
    BY OpsTyped, Begins
  <2>2. 0 \in 0 .. 4 * ByteBits + 2
    BY BusAssumption
  <2>3. QED
    BY <1>5, <2>1, <2>2
<1>9. Taken' /\ B!Command' = B!Command /\ timeout' > B!Length - Len(values') - 1
  BY <1>1, <1>2, <1>3, <1>5 DEF Taken, B!Command
<1>10. ReadState(lines', sensor', heard', kind', Len(values') + 1, 0)
  BY <1>1, <1>5, <1>7, Zenon
<1>11. InByte'
  BY <1>1, <1>2, <1>8, <1>9, <1>10 DEF InByte
<1>12. QED
  BY <1>1, <1>2, <1>5, <1>11 DEF Course

LEMMA ReadByteCourse == ASSUME MasterTyped, SensorTyped, Course, B!ReadByte PROVE Course'
<1>1. /\ busPc = "byte" /\ todo = <<>> /\ values' = Append(values, heard) /\ busPc' = "data"
      /\ todo' = B!i2c_master_setAck(IF Len(values) + 1 = B!Length THEN B!LastLevel ELSE 0) \o <<B!Set(1, 0)>>
      /\ UNCHANGED <<lines, jobs, timeout, inited, answer, sensor, kind>>
  BY DEF B!ReadByte, B!At, B!Do
<1>2. /\ sensor.work \in {"measures", "done"} /\ sensor.of = B!Command /\ Taken
      /\ timeout > B!Length - Len(values) - 1
      /\ kind # "none" /\ (kind # "none" /\ jobs # <<>> /\ Head(jobs) # B!Setup => inited)
  BY <1>1 DEF Course, InByte
<1>3. /\ values \in Seq(B!ByteValues) /\ heard \in B!ByteValues /\ Len(values) \in Nat /\ Len(values) < B!Length
      /\ timeout \in Nat /\ B!Length = 2
  BY <1>1, BusAssumption DEF MasterTyped, B!Length
<1>4. PICK v \in 1 .. B!Length : v = Len(values) + 1
  BY <1>3
<1>5. /\ values' # <<>> /\ Len(values') = v /\ values'[v] = heard
      /\ \A w \in 1 .. v - 1 : values'[w] = values[w]
  BY <1>1, <1>3, <1>4, SMTT(30)
<1>6. PICK n \in 0 .. 4 * ByteBits + 2 :
        todo = Rest(B!i2c_master_readByte, n) /\ ReadState(lines, sensor, heard, kind, v, n)
  BY <1>1, <1>4 DEF Course, InByte
<1>7. n = 4 * ByteBits + 2
  BY <1>1, <1>6, OpsTyped, ReadOps, Over
<1>8. /\ lines = Low /\ sensor.mode = "read" /\ sensor.at = v /\ kind # "none"
      /\ sensor.scl = 1 /\ sensor.work = "done" /\ sensor.clocks = ByteBits
      /\ heard = First(sensor.reading[v], ByteBits)
  BY <1>6, <1>7 DEF ReadState, Sends, Reads
<1>9. heard = sensor.reading[v]
  <2>1. Sensing(sensor)
    BY DEF SensorTyped
  <2>2. sensor.reading[v] \in B!ByteValues
    BY <1>8, <2>1, ReadingIs
  <2>3. QED
    BY <1>8, <2>2, FirstFacts
<1>10. sensor.sda = 1 /\ lines.scl = 0
  <2>1. lines.scl = 0 /\ Sound(lines, sensor, kind)
    BY <1>8, SoundNow DEF Low
  <2>2. SensingLow(sensor)
    BY <1>8, <2>1, SoundFacts
  <2>3. QED
    BY <1>8, <2>1, <2>2 DEF SensingLow
<1>11. AckState(lines', sensor', kind', v, 0)
  <2>1. 0 \in 0..3 /\ 0 \in 0..2 /\ 0 # 2 /\ 0 # 3 /\ 0 \notin 4..6
    OBVIOUS
  <2>2. AckState(lines, sensor, kind, v, 0)
    BY <1>8, <1>10, <2>1 DEF AckState
  <2>3. QED
    BY <1>1, <2>2
<1>12. todo' = Rest(B!i2c_master_setAck(Level(v)) \o <<B!Set(1, 0)>>, 0)
  <2>1. PICK x \in 0..1 : x = Level(v)
    BY LevelIs
  <2>2. todo' = B!i2c_master_setAck(x) \o <<B!Set(1, 0)>>
    BY <1>1, <1>4, <2>1 DEF Level, B!LastLevel
  <2>3. B!i2c_master_setAck(x) \o <<B!Set(1, 0)>> \in Seq(BusOps)
    BY OpsTyped
  <2>4. QED
    BY <2>1, <2>2, <2>3, Begins
<1>13. Taken'
  <2>1. \A w \in 1 .. v : values'[w] = sensor.reading[w]
    BY <1>2, <1>3, <1>4, <1>8, <1>5, <1>9 DEF Taken
  <2>2. QED
    BY <1>1, <1>5, <2>1 DEF Taken
<1>14. timeout' > B!Length - Len(values') /\ B!Command' = B!Command
  BY <1>1, <1>2, <1>3, <1>4, <1>5 DEF B!Command
<1>15. InData'
  <2>1. 0 \in 0..6 /\ Len(values') = v /\ values' # <<>>
    BY <1>5
  <2>2. \E m \in 0..6 :
          /\ todo' = Rest(B!i2c_master_setAck(Level(Len(values'))) \o <<B!Set(1, 0)>>, m)
          /\ AckState(lines', sensor', kind', Len(values'), m)
    BY <1>11, <1>12, <2>1, Zenon
  <2>3. QED
    BY <1>1, <1>2, <1>13, <1>14, <2>1, <2>2 DEF InData
<1>16. QED
  BY <1>1, <1>2, <1>15 DEF Course

LEMMA ReadEndsCourse == ASSUME MasterTyped, SensorTyped, Course, B!ReadEnds PROVE Course'
<1>1. /\ busPc = "data" /\ todo = <<>> /\ Len(values) = B!Length /\ busPc' = "next" /\ todo' = B!i2c_master_stop
      /\ UNCHANGED <<lines, sensor, kind, values>> /\ B!Finished(TRUE)
  BY DEF B!ReadEnds, B!At, B!Do
<1>2. /\ sensor.of = B!Command /\ Taken /\ kind # "none"
      /\ jobs # <<>> /\ Head(jobs) # B!Setup /\ inited
  BY <1>1 DEF Course, InData, MasterTyped
<1>3. values # <<>> /\ B!Length = 2
  BY <1>1 DEF B!Length
<1>4. AckState(lines, sensor, kind, B!Length, 6)
  BY <1>1, <1>3, AckEnds
<1>5. lines = Low /\ lines.scl = 0 /\ sensor.scl = 1 /\ sensor.work = "done" /\ sensor.mode = "idle"
  BY <1>4 DEF AckState, Low
<1>6. sensor.sda = 1 /\ Sound(lines, sensor, kind)
  BY <1>5, SoundNow, SoundFacts
<1>7. TRUE \in BOOLEAN /\ UNCHANGED values /\ B!Finished(TRUE)
  BY <1>1
<1>8. /\ jobs' # <<>> => Head(jobs') # B!Setup
      /\ inited' = (inited \/ (Head(jobs) = B!Setup /\ TRUE))
      /\ Head(jobs) \in Commands => answer' = [of |-> Head(jobs), ok |-> TRUE, values |-> values]
      /\ Head(jobs) \in Commands => B!Command = Head(jobs)
      /\ Head(jobs) \in Commands \/ Head(jobs) = B!Setup \/ jobs' # <<>>
  BY <1>2, <1>7, JobEnds, Zenon
<1>9. inited'
  BY <1>2, <1>8
<1>10. jobs' = <<>> => Told'
  <2>1. SUFFICES ASSUME jobs' = <<>> PROVE Told'
    OBVIOUS
  <2>2. answer' = [of |-> Head(jobs), ok |-> TRUE, values |-> values] /\ B!Command = Head(jobs)
    BY <1>2, <1>8, <2>1
  <2>3. answer'.ok /\ answer'.of = B!Command /\ answer'.values = values
    BY <2>2
  <2>4. \A v \in 1 .. B!Length : values[v] = sensor.reading[v]
    BY <1>1, <1>2, <1>5 DEF Taken
  <2>5. QED
    BY <1>1, <1>2, <1>5, <1>9, <2>3, <2>4 DEF Told
<1>11. Rested
  BY <1>5 DEF Rested
<1>12. InNext'
  BY <1>1, <1>5, <1>6, <1>8, <1>10, <1>11, NextBegins
<1>13. QED
  BY <1>1, <1>9, <1>12 DEF Course

\* Every step keeps the course, but where the history says that it was spoilt.
LEMMA BusStep == ASSUME BusInv, [B!Next]_busVars PROVE BusInv'
<1>1. MasterTyped /\ SensorTyped /\ (~spoilt => Course)
  BY DEF BusInv
<1>2. MasterTyped' /\ SensorTyped'
  BY <1>1, BusTyped
<1>3. spoilt' \/ Course'
  <2>1. ASSUME B!Drive PROVE spoilt' \/ Course'
    BY <1>1, <2>1, DriveSteps, DriveCourse DEF Stepped
  <2>2. ASSUME B!Boot \/ B!NextJob \/ B!NoJob PROVE spoilt' \/ Course'
    BY <2>2, <1>1, BootCourse, NextJobCourse, NoJobCourse DEF B!Boot, B!NextJob, B!NoJob
  <2>3. ASSUME B!WriteAddressed \/ B!Written \/ B!Settle PROVE spoilt' \/ Course'
    <3>1. spoilt' = spoilt
      BY <2>3 DEF B!WriteAddressed, B!Written, B!Settle
    <3>2. QED
      BY <1>1, <2>3, <3>1, WriteAddressedCourse, WrittenCourse, SettleCourse
  <2>4. ASSUME B!ReadNext \/ B!ReadByte \/ B!ReadEnds PROVE spoilt' \/ Course'
    BY <2>4, <1>1, ReadNextCourse, ReadByteCourse, ReadEndsCourse DEF B!ReadNext, B!ReadByte, B!ReadEnds
  <2>5. ASSUME B!SendReset \/ B!ReadAddressed PROVE spoilt' \/ Course'
    BY <2>5, <1>1, SendResetCourse, ReadAddressedCourse DEF B!SendReset, B!ReadAddressed
  <2>6. ASSUME B!Ready PROVE spoilt' \/ Course'
    BY <2>6, <1>1, ReadyCourse DEF B!Ready
  <2>7. ASSUME B!Restart PROVE spoilt' \/ Course'
    BY <2>7, RestartCourse
  <2>8. ASSUME NEW command \in Commands, B!Get(command) PROVE spoilt' \/ Course'
    BY <1>1, <2>8, GetCourse
  <2>9. ASSUME UNCHANGED busVars PROVE spoilt' \/ Course'
    BY <2>9, <1>1, StutterCourse DEF busVars
  <2>10. QED
    BY <2>1, <2>2, <2>3, <2>4, <2>5, <2>6, <2>7, <2>8, <2>9, Zenon DEF B!Next, B!Master
<1>4. QED
  BY <1>2, <1>3 DEF BusInv

LEMMA BusBegins == ASSUME B!Init PROVE BusInv
<1>1. busPc = "boot" /\ lines = High /\ jobs = <<>>
  BY DEF B!Init, High
<1>2. Course
  BY <1>1 DEF Course
<1>3. QED
  BY <1>2, BusInitTyped DEF BusInv

\* What is said of a reading.
LEMMA BusIsRight == ASSUME BusInv PROVE B!ReadsRight /\ B!BusFree /\ B!Found
<1>1. SUFFICES ASSUME busPc = "idle", ~spoilt PROVE B!ReadsRight /\ B!BusFree /\ B!Found
  BY DEF B!ReadsRight, B!BusFree, B!Found
<1>2. StopState(lines, sensor, 3) /\ Told /\ MasterTyped /\ SensorTyped
  BY <1>1 DEF BusInv, Course
<1>3. lines = High /\ sensor.mode = "idle" /\ sensor.scl = 1 /\ sensor.sda = 1
  BY <1>2 DEF StopState
<1>4. B!BusFree
  <2>1. lines.sda = 1 /\ lines.scl = 1
    BY <1>3 DEF High
  <2>2. B!Lines(lines, sensor) = [sda |-> 1, scl |-> 1]
    BY <1>3, <2>1 DEF B!Lines
  <2>3. QED
    BY <1>3, <2>2 DEF B!BusFree
<1>5. B!Found
  BY <1>2 DEF Told, B!Found
<1>6. ASSUME answer.ok
      PROVE  /\ sensor.of = answer.of /\ B!Length <= Len(sensor.reading)
             /\ answer.values = SubSeq(sensor.reading, 1, B!Length)
  <2>1. /\ sensor.work = "done" /\ sensor.of = answer.of /\ Len(answer.values) = B!Length
        /\ \A v \in 1 .. B!Length : answer.values[v] = sensor.reading[v]
    BY <1>2, <1>6 DEF Told
  <2>2. answer.values \in Seq(B!ByteValues) /\ sensor.reading \in Seq(B!ByteValues)
    BY <1>2 DEF MasterTyped, SensorTyped, Sensing, Sensors
  <2>3. Len(sensor.reading) >= B!Length /\ Len(sensor.reading) \in Nat /\ B!Length = 2
    <3>1. B!Length \in 1 .. B!Length /\ B!Length = 2
      BY DEF B!Length
    <3>2. Sensing(sensor)
      BY <1>2 DEF SensorTyped
    <3>3. B!Length <= Len(sensor.reading)
      BY <2>1, <3>1, <3>2, ReadingIs
    <3>4. Len(sensor.reading) \in Nat
      BY <2>2
    <3>5. QED
      BY <3>1, <3>3, <3>4
  <2>4. answer.values = SubSeq(sensor.reading, 1, B!Length)
    BY <2>1, <2>2, <2>3
  <2>5. QED
    BY <2>1, <2>3, <2>4
<1>7. QED
  BY <1>4, <1>5, <1>6 DEF B!ReadsRight

\* A step of all the devices, for one that has the I2C bus.
LEMMA BusAlways == MCSpec => [](part = "i2c" => BusInv)
<1> DEFINE Inv == part = "i2c" => BusInv
<1>1. MCInit => Inv
  BY BusBegins DEF MCInit
<1>2. Inv /\ [MCNext]_allVars => Inv'
  <2> SUFFICES ASSUME part = "i2c", BusInv, [MCNext]_allVars PROVE BusInv'
    BY DEF MCNext, Modulation, OneWire, Bus
  <2>1. [B!Next]_busVars
    BY DEF MCNext, Modulation, OneWire, Bus
  <2>2. QED
    BY <2>1, BusStep
<1>3. QED
  BY <1>1, <1>2, PTL DEF MCSpec

\* HumidityRight of MCDevices, for bytes of any width, any number of tries and any clocks
\* of the initialisation beyond those of two bytes (driver/dht22.c, driver/i2c_master.c and
\* driver/i2c_si7020.c): a reading that counts is what the sensor took for it, and between
\* readings the bus is free and a sensor that is there is found, wherever the board was
\* restarted, but for the readings that the history of the bus excludes.
THEOREM HumidityIsRight == MCSpec => []HumidityRight
<1>1. (part = "dht22" => H!ReadingRight /\ H!LockedMeansFailed) /\ (part = "i2c" => BusInv) => HumidityRight
  BY BusIsRight DEF HumidityRight
<1>2. QED
  BY <1>1, DhtIsRight, BusAlways, PTL

-----------------------------------------------------------------------------
\* The types of the parts

\* The settings of the string stay in their ranges, and every LED shows something.
LedRest ==
    /\ {armed, delayed, framed} \subseteq BOOLEAN
    /\ brightness \in 1..8 /\ sysCfg.brightness \in 1..8
    /\ DOMAIN leds = L!Leds

LEMMA LedRestNext == LedTyped /\ LedRest /\ [L!Next]_(L!vars) => LedRest'
<1> SUFFICES ASSUME LedTyped, LedRest, [L!Next]_(L!vars) PROVE LedRest'
  OBVIOUS
<1>0. \A x \in 0..1 : (x > 0) \in BOOLEAN
  OBVIOUS
<1>1. CASE UNCHANGED L!vars
  BY <1>1 DEF L!vars, LedRest
<1>2. CASE L!PatternTimerHandler
  BY <1>2 DEF L!PatternTimerHandler, LedRest
<1>3. CASE L!Settings
  <2>1. PICK len \in Lengths \union {stringlen}, delay \in {None, 0, 1}, level \in {None, 7},
             p \in {None} \union 1 .. L!NUM_PATTERNS :
           /\ ms_delay' = IF delay = None THEN ms_delay ELSE delay
           /\ brightness' = IF level = None THEN brightness ELSE level
           /\ armed' = IF delay = None /\ p = None THEN armed ELSE ms_delay' > 0
           /\ delayed' = (delayed \/ delay # None)
    BY <1>3 DEF L!Settings
  <2>2. sysCfg'.brightness = brightness' /\ framed' = FALSE /\ UNCHANGED leds
    BY <1>3 DEF L!Settings, L!Saved
  <2>3. brightness' \in 1..8
    BY <2>1 DEF LedRest
  <2>4. ms_delay' \in 0..1
    BY <2>1 DEF LedTyped
  <2>5. armed' \in BOOLEAN
    <3>1. CASE delay = None /\ p = None
      BY <2>1, <3>1, Zenon DEF LedRest
    <3>2. CASE ~(delay = None /\ p = None)
      BY <1>0, <2>1, <2>4, <3>2, Zenon
    <3>3. QED
      BY <3>1, <3>2
  <2>6. delayed' \in BOOLEAN
    BY <2>1, Zenon
  <2>7. QED
    BY <2>2, <2>3, <2>5, <2>6 DEF LedRest
<1>4. CASE L!Publish
  <2>1. DOMAIN leds' = L!Leds
    BY <1>4 DEF L!Publish
  <2>2. armed' \in BOOLEAN
    BY <1>4 DEF L!Publish, L!DelayOf
  <2>3. QED
    BY <1>4, <2>1, <2>2 DEF L!Publish, LedRest
<1>5. CASE L!Restart
  <2>1. PICK c : c = L!ws2812b_init(sysCfg)
    OBVIOUS
  <2>2. /\ ms_delay' = c.ms_delay /\ brightness' = c.brightness /\ armed' = (ms_delay' > 0)
        /\ delayed' = FALSE /\ framed' = FALSE /\ UNCHANGED <<sysCfg, leds>>
    BY <1>5, <2>1 DEF L!Restart
  <2>3. c.ms_delay \in 0..1 /\ c.brightness \in 1..8
    <3>1. CASE L!Restores(sysCfg)
      BY <2>1, <3>1 DEF L!ws2812b_init, LedTyped, Colours, LedRest
    <3>2. CASE ~L!Restores(sysCfg)
      BY <2>1, <3>2 DEF L!ws2812b_init
    <3>3. QED
      BY <3>1, <3>2
  <2>4. armed' \in BOOLEAN
    BY <1>0, <2>2, <2>3, Zenon
  <2>5. QED
    BY <2>2, <2>3, <2>4 DEF LedRest
<1>6. QED
  BY <1>1, <1>2, <1>3, <1>4, <1>5 DEF L!Next

LEMMA LedTypes == LedTyped /\ LedRest => L!TypeOK
<1> SUFFICES ASSUME LedTyped, LedRest PROVE L!TypeOK
  OBVIOUS
<1>1. cur \in (0 .. Len(patterns[pattern]) - 1) \union {1}
  BY DEF LedTyped, Elements
<1>2. QED
  BY <1>1 DEF L!TypeOK, LedTyped, LedRest

\* The entries of a table are in the range of its periods.
LEMMA PointsTyped ==
    ASSUME NEW d \in Duties
    PROVE  P!Range(P!Points(d)) \subseteq P!Entry
<1>1. DOMAIN P!Points(d) = 1 .. Count(d) /\ Count(d) \in Nat \ {0}
  BY PointsFacts, TimesFacts
<1>2. ASSUME NEW k \in 1 .. Count(d) PROVE P!Points(d)[k] \in P!Entry
  <2>1. PICK rise \in SUBSET Outputs, fall \in SUBSET Outputs :
           P!Points(d)[k] = [h |-> P!Delta(d, k), set |-> rise, clear |-> fall]
    <3>1. /\ P!LastClear(d) \in SUBSET Outputs /\ Falling(d, k) \in SUBSET Outputs
          /\ Rising(d, k) \in SUBSET Outputs /\ Rising(d, k) \ P!LastClear(d) \in SUBSET Outputs
      BY DEF P!LastClear, Falling, Rising
    <3>2. QED
      BY <3>1, PointsFacts, Zenon
  <2>2. P!Delta(d, k) \in Span
    BY DeltaType
  <2>3. QED
    BY <2>1, <2>2 DEF P!Entry, Span
<1>3. QED
  BY <1>1, <1>2, Zenon DEF P!Range

LEMMA PwmTypes == PwmInv => P!TypeOK
<1> SUFFICES ASSUME PwmInv PROVE P!TypeOK
  OBVIOUS
<1>1. PwmTyped /\ Resting /\ Running
  BY DEF PwmInv
<1>2. using \in 0..1 /\ \A t \in 0..1 : meant[t] \in Duties /\ table[t] = P!Points(meant[t])
  BY <1>1 DEF PwmTyped
<1>3. \A t \in 0..1 : P!Range(table[t]) \subseteq P!Entry
  BY <1>2, PointsTyped, Zenon
<1>4. ~hurried => pwm_current_channel + 1 \in DOMAIN table[using]
  <2>1. DOMAIN table[using] = 1 .. Count(meant[using]) /\ Count(meant[using]) \in Nat \ {0}
    BY <1>2, PointsFacts, TimesFacts, Zenon
  <2>2. ~hurried => pwm_current_channel \in 0 .. Count(meant[using]) - 1
    BY <1>1, <2>1 DEF Resting, Running
  <2>3. QED
    BY <2>1, <2>2
<1>5. duty \in [Outputs -> 0..PWM_DEPTH] /\ meant \in [0..1 -> [Outputs -> 0..PWM_DEPTH]]
  BY <1>1 DEF PwmTyped, Duties
<1>6. /\ pwm_toggle \in 0..1 /\ {pwm_timer_down, first, ended, hurried} \subseteq BOOLEAN
      /\ load \in 0 .. Modulus - 1 /\ out \subseteq Outputs /\ pwmPc \in {"idle", "filled", "checked"}
  BY <1>1 DEF PwmTyped, Span
<1>7. QED
  BY <1>2, <1>3, <1>4, <1>5, <1>6, Zenon DEF P!TypeOK

LEMMA WireTypes == WireTyped /\ PollInv => D!TypeOK
<1> SUFFICES ASSUME WireTyped, PollInv PROVE D!TypeOK
  OBVIOUS
<1>1. numds \in 0..8 /\ currds \in 0..9
  BY DEF WireTyped, PollInv
<1>2. /\ {shorted, LastDeviceFlag, removed} \subseteq BOOLEAN
      /\ {LastDiscrepancy, last_zero} \subseteq 0 .. D!Bits
  BY DEF WireTyped
<1>3. QED
  BY <1>1, <1>2 DEF D!TypeOK, WireTyped, Addresses

LEMMA DhtTypes == DhtTyped => H!TypeOK
<1> SUFFICES ASSUME DhtTyped PROVE H!TypeOK
  OBVIOUS
<1>1. inbyte \in 0 .. H!Byte - 1
  <2>1. PICK p \in 1 .. H!Byte - 1 : p = 2 ^ inbits
    BY PowersFit DEF DhtTyped
  <2>2. inbyte \in 0 .. p - 1 /\ H!Byte \in Nat
    BY <2>1, PowersFit DEF DhtTyped
  <2>3. QED
    BY <2>1, <2>2
<1>2. reading.success \in BOOLEAN
  BY DEF DhtTyped
<1>3. data \in Seq(0 .. H!Byte - 1) /\ Len(data) <= 5
  <2>1. data \in Seq(0 .. H!Byte - 1) /\ Len(data) \in 0..5
    BY Zenon DEF DhtTyped, DhtBytes
  <2>2. \A n \in 0..5 : n <= 5
    OBVIOUS
  <2>3. QED
    BY <2>1, <2>2, Zenon
<1>4. dhtPc \in {"idle", "start", "bits", "check"} /\ inbits \in 0 .. Width - 1
  BY DEF DhtTyped
<1>5. {locked, checked, reading.success} \subseteq BOOLEAN
  BY <1>2 DEF DhtTyped
<1>6. QED
  BY <1>1, <1>3, <1>4, <1>5, Zenon DEF H!TypeOK

LEMMA BusTypes == MasterTyped /\ SensorTyped => B!TypeOK
<1> SUFFICES ASSUME MasterTyped, SensorTyped PROVE B!TypeOK
  OBVIOUS
<1>1. sensor \in Sensors /\ sensor.bits < 2 ^ Counted(sensor)
  BY DEF SensorTyped, Sensing
<1>2. sensor.bits \in B!ByteValues
  <2>1. ByteBits \in Nat /\ Counted(sensor) \in 0..ByteBits
    BY <1>1, BusAssumption DEF Sensors, Counted
  <2>2. PICK b \in Nat : b = 2 ^ ByteBits
    BY <2>1, PowerFacts
  <2>3. 2 ^ Counted(sensor) \in 1..b
    BY <2>1, <2>2, PowersGrow, Zenon
  <2>4. sensor.bits \in Nat
    BY <1>1 DEF Sensors
  <2>5. sensor.bits \in 0 .. b - 1
    BY <1>1, <2>2, <2>3, <2>4
  <2>6. QED
    BY <2>2, <2>5 DEF B!ByteValues
<1>3. /\ sensor.mode \in Modes /\ sensor.sda \in 0..1 /\ sensor.scl \in 0..1
      /\ sensor.clocks \in 0 .. ByteBits + 1 /\ sensor.work \in Works
  BY <1>1 DEF Sensors
<1>4. 0..1 = {0, 1}
  OBVIOUS
<1>5. jobs \in Seq(Commands \union {B!Setup, B!Discard})
  BY JobFacts DEF MasterTyped
<1>6. answer.ok \in BOOLEAN
  BY DEF MasterTyped
<1>7. lines \in [sda : {0, 1}, scl : {0, 1}]
  BY <1>4 DEF MasterTyped
<1>8. QED
  BY <1>2, <1>3, <1>4, <1>5, <1>6, <1>7 DEF B!TypeOK, MasterTyped, Modes, Works

\* PartsTypeOK of MCDevices, for every value of the constants: beyond the types, a pattern
\* is never read past its longest, a table of the PWM not past its points (but for a
\* second request in one period), and what is counted of the sensors on the wire stays
\* small (driver/spi_ws2812b.c, user/pwm.c, user/ds18b20.c).
THEOREM DevicesTypeCorrect == MCSpec => []PartsTypeOK
<1> DEFINE Inv == /\ IInv
                  /\ part = "leds" => LedInv /\ LedRest
                  /\ part = "pwm" => PwmInv
                  /\ part = "wire" => WireInv
                  /\ part = "dht22" => DhtInv
<1>1. MCInit => Inv
  <2> SUFFICES ASSUME MCInit PROVE Inv
    OBVIOUS
  <2>1. IInv
    BY InitInv DEF MCInit
  <2>2. part = "leds" => LedInv /\ LedRest
    <3> SUFFICES ASSUME L!Init PROVE LedInv /\ LedRest
      BY DEF MCInit
    <3>1. LedInv
      BY LedInitInv
    <3>2. brightness = 8 /\ sysCfg.brightness = 8
      BY DEF L!Init, L!ws2812b_init, L!Restores
    <3>3. \A x \in 0..1 : (x > 0) \in BOOLEAN
      OBVIOUS
    <3>4. armed \in BOOLEAN /\ delayed \in BOOLEAN /\ framed \in BOOLEAN
      BY <3>1, <3>3, Zenon DEF L!Init, LedInv, LedTyped
    <3>5. DOMAIN leds = L!Leds
      BY DEF L!Init
    <3>6. brightness \in 1..8 /\ sysCfg.brightness \in 1..8
      BY <3>2
    <3>7. LedRest
      BY <3>4, <3>5, <3>6, Zenon DEF LedRest
    <3>8. QED
      BY <3>1, <3>7
  <2>3. part = "pwm" => PwmInv
    BY PwmInitInv DEF MCInit
  <2>4. part = "wire" => WireInv
    BY WireInitInv DEF MCInit
  <2>5. part = "dht22" => DhtInv
    BY DhtInit DEF MCInit
  <2>6. QED
    BY <2>1, <2>2, <2>3, <2>4, <2>5
<1>2. Inv /\ [MCNext]_allVars => Inv'
  <2> SUFFICES ASSUME Inv, [MCNext]_allVars PROVE Inv'
    OBVIOUS
  <2>1. part' = part
    BY DEF MCNext, Modulation, OneWire, Bus
  <2>2. IInv'
    BY NextInv DEF MCNext, Modulation, OneWire, Bus
  <2>3. ASSUME part = "leds" PROVE (LedInv /\ LedRest)'
    <3>1. [L!Next]_(L!vars)
      BY <2>3 DEF MCNext, Modulation, OneWire, Bus, ledVars, L!vars
    <3>2. QED
      BY <2>3, <3>1, LedNext, LedRestNext DEF LedInv
  <2>4. ASSUME part = "pwm" PROVE PwmInv'
    BY <2>4, PwmNext DEF MCNext, Modulation, OneWire, Bus, pwmVars, P!vars
  <2>5. ASSUME part = "wire" PROVE WireInv'
    <3>1. [D!Next]_(D!vars)
      BY <2>5 DEF MCNext, Modulation, OneWire, Bus, dsVars, D!vars
    <3>2. QED
      BY <2>5, <3>1, WireTypedNext, SearchNext, PollNext DEF WireInv
  <2>6. ASSUME part = "dht22" PROVE DhtInv'
    BY <2>6, DhtNext DEF MCNext, Modulation, OneWire, Bus, dhtVars, H!vars
  <2>7. QED
    BY <2>1, <2>2, <2>3, <2>4, <2>5, <2>6
<1>3. Inv /\ (part = "i2c" => BusInv) => PartsTypeOK
  <2> SUFFICES ASSUME Inv, part = "i2c" => BusInv PROVE PartsTypeOK
    OBVIOUS
  <2>1. TypeOK
    BY DEF IInv
  <2>2. part = "pwm" => P!TypeOK
    BY PwmTypes
  <2>3. part = "leds" => L!TypeOK
    BY LedTypes DEF LedInv
  <2>4. part = "wire" => D!TypeOK
    BY WireTypes DEF WireInv
  <2>5. part = "dht22" => H!TypeOK
    BY DhtTypes DEF DhtInv
  <2>6. part = "i2c" => B!TypeOK
    BY BusTypes DEF BusInv
  <2>7. QED
    BY <2>1, <2>2, <2>3, <2>4, <2>5, <2>6 DEF PartsTypeOK
<1>4. QED
  BY <1>1, <1>2, <1>3, BusAlways, PTL DEF MCSpec
=============================================================================
