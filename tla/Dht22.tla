------------------------------- MODULE Dht22 --------------------------------
(***************************************************************************)
(* The humidity sensor (user/dht22.c).  pollDHTCb asks the sensor for five *)
(* bytes, of which the last is a checksum, and takes their bits from the   *)
(* length of the pulses, with the interrupts locked.  The sensor may be    *)
(* missing, may stop, and a bit may be misread.                            *)
(***************************************************************************)
EXTENDS Integers, Sequences

CONSTANTS Width,           \* 8: bits of a byte
          Measured         \* what the sensor may send: four bytes

VARIABLES pc,              \* "idle", "start", "bits" or "check"
          sent,            \* external: the bytes the sensor sends, with the checksum
          data,            \* the bytes that were read
          inbyte, inbits,  \* the byte that is being read, and how many bits it has
          reading,
          locked,          \* are the interrupts locked?
          misread,         \* history: how many bits were misread in this poll
          checked          \* history: the last poll came to the checksum

vars == <<pc, sent, data, inbyte, inbits, reading, locked, misread, checked>>

Byte == 2 ^ Width
Checksum(d) == (d[1] + d[2] + d[3] + d[4]) % Byte
WithSum(d) == Append(d, Checksum(d))

\* The i-th bit of a byte, from the highest.
Bit(byte, i) == (byte \div 2 ^ (Width - i)) % 2

\* scale_temperature and scale_humidity, in tenths.
scale_temperature(d) ==
    LET magnitude == (d[3] % (Byte \div 2)) * Byte + d[4]
    IN IF d[3] >= Byte \div 2 THEN -magnitude ELSE magnitude
scale_humidity(d) == d[1] * Byte + d[2]

TypeOK ==
    /\ pc \in {"idle", "start", "bits", "check"}
    /\ data \in Seq(0 .. Byte - 1) /\ Len(data) <= 5
    /\ inbyte \in 0 .. Byte - 1 /\ inbits \in 0 .. Width - 1
    /\ {locked, checked, reading.success} \subseteq BOOLEAN

Init ==
    /\ pc = "idle"
    /\ sent \in {WithSum(m) : m \in Measured}
    /\ data = <<>> /\ inbyte = 0 /\ inbits = 0
    /\ reading = [success |-> FALSE, temperature |-> 0, humidity |-> 0]
    /\ locked = FALSE /\ misread = 0 /\ checked = FALSE
-----------------------------------------------------------------------------
\* The timer: pollDHTCb wakes the sensor, which has measured anew.
Poll ==
    /\ pc = "idle"
    /\ sent' \in {WithSum(m) : m \in Measured}
    /\ data' = <<>> /\ inbyte' = 0 /\ inbits' = 0
    /\ misread' = 0 /\ checked' = FALSE
    /\ pc' = "start"
    /\ UNCHANGED <<reading, locked>>

Fail ==
    /\ reading' = [reading EXCEPT !.success = FALSE]
    /\ pc' = "idle"
    /\ UNCHANGED <<sent, data, inbyte, inbits, misread, checked>>

\* The line is low where the sensor should have let it go high.
BadSensor == pc = "start" /\ Fail /\ UNCHANGED locked

\* A line that stays high comes this far, too.
Lock ==
    /\ pc = "start"
    /\ locked' = TRUE
    /\ pc' = "bits"
    /\ UNCHANGED <<sent, data, inbyte, inbits, reading, misread, checked>>

\* A pulse is too long: the interrupts stay locked.
Timeout ==
    /\ pc = "bits" /\ Len(data) < 5
    /\ Fail
    /\ UNCHANGED locked

ReadBit ==
    /\ pc = "bits" /\ Len(data) < 5
    /\ \E wrong \in 0..1 :
          LET b == Bit(sent[Len(data) + 1], inbits + 1)
              value == 2 * inbyte + IF wrong = 1 THEN 1 - b ELSE b IN
          /\ wrong + misread <= 1
          /\ misread' = misread + wrong
          /\ IF inbits + 1 = Width
             THEN data' = Append(data, value) /\ inbyte' = 0 /\ inbits' = 0
             ELSE inbyte' = value /\ inbits' = inbits + 1 /\ UNCHANGED data
    /\ UNCHANGED <<pc, sent, reading, locked, checked>>

\* A faulty Unlocked, which forgets to unlock.
Unlocked_Not == locked

Unlocked == FALSE

AllBits ==
    /\ pc = "bits" /\ Len(data) = 5
    /\ locked' = Unlocked
    /\ pc' = "check"
    /\ UNCHANGED <<sent, data, inbyte, inbits, reading, misread, checked>>

\* A faulty Accepted, without the humidity in the sum.
Accepted_Half(d) == d[5] = (d[3] + d[4]) % Byte

Accepted(d) == d[5] = Checksum(d)

Check ==
    /\ pc = "check"
    /\ reading' = IF Accepted(data)
                  THEN [success |-> TRUE, temperature |-> scale_temperature(data),
                        humidity |-> scale_humidity(data)]
                  ELSE [reading EXCEPT !.success = FALSE]
    /\ pc' = "idle" /\ checked' = TRUE
    /\ UNCHANGED <<sent, data, inbyte, inbits, locked, misread>>

Next == Poll \/ BadSensor \/ Lock \/ Timeout \/ ReadBit \/ AllBits \/ Check

Spec == Init /\ [][Next]_vars
-----------------------------------------------------------------------------
\* A reading that counts is what the sensor measured for the last poll, even
\* when one bit was misread: then it does not count.
ReadingRight ==
    pc = "idle" /\ reading.success =>
        /\ misread = 0
        /\ reading.temperature = scale_temperature(sent) /\ reading.humidity = scale_humidity(sent)

\* The interrupts are locked after a poll only when a pulse was too long, which
\* the reading shows: they stay so until a poll reads all bits.
LockedMeansFailed ==
    pc = "idle" /\ locked => ~reading.success /\ ~checked
=============================================================================
