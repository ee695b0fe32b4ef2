------------------------------ MODULE Ds18b20 -------------------------------
(***************************************************************************)
(* The one-wire temperature sensors (user/ds18b20.c).  ds_init finds the   *)
(* addresses of up to four devices that share the wire, by the search of   *)
(* ds_search, one bit per step; the timer then reads one after the other.  *)
(* All devices answer a bit at once, and the wire shows 0 if any of them   *)
(* sends 0.  A device may be taken off, and the wire may be shorted.       *)
(***************************************************************************)
EXTENDS Integers, Sequences, Functions, FiniteSetsExt

CONSTANTS Codes,            \* addresses of devices: sequences of bits
          FamilyBits,       \* how many of the bits give the family
          Families,         \* of a DS18S20, s, and of a DS18B20, b
          MaxDevices,
          Temperatures,
          None

VARIABLES present,          \* the devices on the wire
          shorted,          \* is the wire shorted?
          pc,               \* "search", "bits" or "poll"
          ROM_NO, LastDiscrepancy, LastDeviceFlag,
          bit,              \* id_bit_number
          last_zero,
          selected,         \* external: the devices that still take part
          i,                \* the number of the search, in ds_init
          addr,             \* addresses by position: 0..3, and what lies behind
          numds, currds,
          dsreading,        \* readings by position
          removed,          \* history: a device was taken off
          found             \* history: what the searches gave

vars == <<present, shorted, pc, ROM_NO, LastDiscrepancy, LastDeviceFlag, bit, last_zero, selected, i,
          addr, numds, currds, dsreading, removed, found>>

Bits == Len(CHOOSE c \in Codes : TRUE)
Zero == [k \in 1..Bits |-> 0]
Family(c) == SubSeq(c, 1, FamilyBits)
Slots == 0..3
NoReading == [temperature |-> 0, success |-> FALSE, of |-> None]

TypeOK ==
    /\ present \subseteq Codes
    /\ {shorted, LastDeviceFlag, removed} \subseteq BOOLEAN
    /\ ROM_NO \in [1..Bits -> 0..1]
    /\ bit \in 1 .. Bits + 1 /\ {LastDiscrepancy, last_zero} \subseteq 0..Bits
    /\ selected \subseteq Codes
    /\ \A s \in Slots : addr[s] \in [1..Bits -> 0..1]
    /\ numds \in 0..8 /\ currds \in 0..9

Init ==
    /\ present \in {d \in SUBSET Codes : Cardinality(d) <= MaxDevices}
    /\ shorted = FALSE
    /\ pc = "search"
    /\ ROM_NO = Zero /\ LastDiscrepancy = 0 /\ LastDeviceFlag = FALSE
    /\ bit = 1 /\ last_zero = 0 /\ selected = {} /\ i = 0
    /\ addr = [s \in Slots |-> Zero]
    /\ numds = 0 /\ currds = 0
    /\ dsreading = [s \in Slots |-> NoReading]
    /\ removed = FALSE /\ found = <<>>
-----------------------------------------------------------------------------
\* A device is taken off, once, or the wire is shorted.
Remove ==
    /\ ~removed
    /\ \E d \in present : present' = present \ {d}
    /\ removed' = TRUE
    /\ UNCHANGED <<shorted, pc, ROM_NO, LastDiscrepancy, LastDeviceFlag, bit, last_zero, selected, i,
                   addr, numds, currds, dsreading, found>>
Short ==
    /\ pc = "poll" /\ ~shorted
    /\ shorted' = TRUE
    /\ UNCHANGED <<present, pc, ROM_NO, LastDiscrepancy, LastDeviceFlag, bit, last_zero, selected, i,
                   addr, numds, currds, dsreading, removed, found>>

\* The start of ds_search.
SearchReset ==
    /\ pc = "search" /\ i < 4 /\ ~LastDeviceFlag /\ present # {}
    /\ bit' = 1 /\ last_zero' = 0
    /\ selected' = present
    /\ pc' = "bits"
    /\ UNCHANGED <<present, shorted, ROM_NO, LastDiscrepancy, LastDeviceFlag, i, addr, numds, currds,
                   dsreading, removed, found>>

\* The search is over, since no device answers, or the last was found: the
\* address of the last one is left behind the others.
SearchFails ==
    /\ pc = "search" /\ i < 4 /\ (LastDeviceFlag \/ present = {})
    /\ addr' = IF LastDeviceFlag THEN [addr EXCEPT ![i] = ROM_NO] ELSE addr
    /\ LastDiscrepancy' = 0 /\ LastDeviceFlag' = FALSE
    /\ i' = 4
    /\ UNCHANGED <<present, shorted, pc, ROM_NO, bit, last_zero, selected, numds, currds,
                   dsreading, removed, found>>

\* A faulty Branch, which takes 0 where the last search took 0.
Branch_Again == IF bit <= LastDiscrepancy THEN ROM_NO[bit] ELSE 0

\* The direction where the addresses differ: as in the last search before its
\* last branch, the other one at it, and 0 behind it.
Branch == IF bit < LastDiscrepancy THEN ROM_NO[bit] ELSE IF bit = LastDiscrepancy THEN 1 ELSE 0

\* One bit of the address.
SearchBit ==
    /\ pc = "bits" /\ bit <= Bits
    /\ LET answers == {c[bit] : c \in selected \intersect present}
           direction == IF answers = {0, 1} THEN Branch ELSE CHOOSE b \in answers : TRUE
       IN /\ answers # {}
          /\ ROM_NO' = [ROM_NO EXCEPT ![bit] = direction]
          /\ selected' = {c \in selected : c[bit] = direction}
          /\ last_zero' = IF answers = {0, 1} /\ direction = 0 THEN bit ELSE last_zero
    /\ bit' = bit + 1
    /\ UNCHANGED <<present, shorted, pc, LastDiscrepancy, LastDeviceFlag, i, addr, numds, currds,
                   dsreading, removed, found>>

\* The cases of the family: a DS18S20 counts twice, an unknown device not at
\* all; both have their place in addr.
Counted(c) == CASE Family(c) = Families.s -> 2 [] Family(c) = Families.b -> 1 [] OTHER -> 0

\* The end of ds_search, and of a round of ds_init.  Nobody answers a bit when
\* the device is gone; an address that begins with a zero byte is not accepted.
\* The check of crc8 always succeeds: an address comes as a device sent it.
SearchEnds ==
    /\ pc = "bits"
    /\ bit > Bits \/ selected \intersect present = {}
    /\ addr' = [addr EXCEPT ![i] = ROM_NO]
    /\ IF bit <= Bits \/ Family(ROM_NO) = SubSeq(Zero, 1, FamilyBits)
       THEN /\ LastDiscrepancy' = 0 /\ LastDeviceFlag' = FALSE
            /\ i' = 4
            /\ UNCHANGED <<numds, found>>
       ELSE /\ LastDiscrepancy' = last_zero /\ LastDeviceFlag' = (last_zero = 0)
            /\ i' = i + 1
            /\ numds' = numds + Counted(ROM_NO)
            /\ found' = Append(found, ROM_NO)
    /\ pc' = "search"
    /\ UNCHANGED <<present, shorted, ROM_NO, bit, last_zero, selected, currds, dsreading, removed>>

\* ds_init is over.
Ready ==
    /\ pc = "search" /\ i = 4
    /\ pc' = "poll"
    /\ UNCHANGED <<present, shorted, ROM_NO, LastDiscrepancy, LastDeviceFlag, bit, last_zero, selected,
                   i, addr, numds, currds, dsreading, removed, found>>
-----------------------------------------------------------------------------
\* A faulty Turn, which comes back one sensor later.
Turn_Late == IF currds > numds + 1 THEN 0 ELSE currds

\* The sensor whose turn it is.
Turn == IF currds > numds THEN 0 ELSE currds

\* A faulty Failed, which does not show the failure.
Failed_Kept(r) == r

\* What is kept of a sensor that could not be read: the old temperature.
Failed(r) == [r EXCEPT !.success = FALSE]

\* A faulty Selected, which is always the first sensor.
Selected_First(s) == addr[0]

\* The device that the poll of a place selects.
Selected(s) == addr[s]

\* readDS with what is stored of it: a device that is not there lets the wire
\* go high, which the checksum finds; a shorted wire reads as zero, and so
\* does its checksum.
Read(s) ==
    IF shorted THEN {[temperature |-> 0, success |-> TRUE, of |-> None]}
    ELSE IF Selected(s) \in present
         THEN {[temperature |-> t, success |-> TRUE, of |-> Selected(s)] : t \in Temperatures}
         ELSE {Failed(dsreading[s])}

\* pollDSCb: behind the last place there is no address, and no reading.
Poll ==
    /\ pc = "poll"
    /\ currds' = Turn + 1
    /\ IF Turn \in Slots
       THEN \E r \in Read(Turn) : dsreading' = [dsreading EXCEPT ![Turn] = r]
       ELSE UNCHANGED dsreading
    /\ UNCHANGED <<present, shorted, pc, ROM_NO, LastDiscrepancy, LastDeviceFlag, bit, last_zero,
                   selected, i, addr, numds, removed, found>>

Next ==
    \/ Remove \/ Short
    \/ SearchReset \/ SearchFails \/ SearchBit \/ SearchEnds \/ Ready
    \/ Poll

\* ds_init runs on, and the timer is periodic.
Fairness == WF_vars(SearchReset \/ SearchFails \/ SearchBit \/ SearchEnds \/ Ready) /\ WF_vars(Poll)

Spec == Init /\ [][Next]_vars /\ Fairness
-----------------------------------------------------------------------------
\* The devices that a search can find: in the order of their bits, up to the
\* first with a family of zero.
Before(c, d) == \E k \in 1..Bits : c[k] < d[k] /\ \A l \in 1 .. k - 1 : c[l] = d[l]
Findable == {c \in present : \A d \in present :
                Family(d) = SubSeq(Zero, 1, FamilyBits) => Before(c, d)}

\* If all devices stay, the searches find each of them once, in the order of
\* their bits, until four are found; a device of family zero, which comes
\* first, ends them.
SearchFindsAll ==
    pc # "poll" /\ ~removed =>
        /\ \A k, l \in DOMAIN found : k < l => Before(found[k], found[l])
        /\ Range(found) \subseteq Findable
        /\ i = 4 => Cardinality(Range(found)) = Min({4, Cardinality(Findable)})

\* A sensor's reading was sent by the device whose address it has in its
\* place, unless the wire was shorted, which reads as a good zero.
ReadingIsOwn ==
    \A s \in Slots : dsreading[s].success =>
        dsreading[s].of = addr[s] \/ (dsreading[s].of = None /\ shorted /\ dsreading[s].temperature = 0)

\* As long as three are counted at most, which up to three DS18B20 are, no
\* poll goes past the places there are, although one more is polled than
\* there are sensors.
PollsInside ==
    /\ (\A c \in Range(found) : Family(c) = Families.b) => numds = Len(found)
    /\ numds <= 3 => currds <= 4

\* A sensor that was found stays in turn: it is read again and again, so that
\* one that was taken off is seen to be gone.
SeenGone == \A s \in Slots :
    (pc = "poll" /\ s < numds /\ addr[s] \notin present /\ ~shorted)
        ~> (shorted \/ ~dsreading[s].success)
=============================================================================
