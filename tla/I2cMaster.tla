----------------------------- MODULE I2cMaster -----------------------------
(***************************************************************************)
(* The I2C bus in software (driver/i2c_master.c) and the sensor that is    *)
(* read over it, the Si7020 (driver/i2c_si7020.c).  Every call of          *)
(* i2c_master_setDC is a step, and the sensor follows the edges it sees on *)
(* the two lines; a line is low when either of the two pulls it.           *)
(*                                                                         *)
(* The board may restart at any time, and the sensor knows nothing of it:  *)
(* i2c_master_init clocks it out of whatever it was doing.  A step that    *)
(* changes both lines at once is an edge of the clock alone.               *)
(***************************************************************************)
EXTENDS Integers, Sequences, FiniteSets

CONSTANTS ByteBits,      \* 8
          Tries,         \* timeout of i2c_master_readBytes, 100
          InitClocks,    \* of i2c_master_init, 28
          Address,       \* SI7020_ADDRESS, even; the odd one reads
          ResetCommand,  \* SI7020_RESET
          Commands,      \* SI7020_TEMPERATURE and SI7020_HUMIDITY
          Readings       \* what the sensor may measure, by command: two bytes
                         \* and a checksum

VARIABLES out,           \* m_nLastSDA and m_nLastSCL
          todo,          \* what is left of the present sequence on the lines
          heard,         \* the bits that were read from SDA, as a number
          pc,            \* what goes on when todo is empty
          jobs,          \* what is left of SI7020_GetTemperature and the like
          timeout, values, \* of i2c_master_readBytes
          inited,        \* IS_ALREADY_INITED
          answer,        \* what the last one gave
          sensor,
          kind,          \* what a sensor does until it has a reading: it holds the
                         \* clock, or refuses its address; or there is none
          spoilt         \* history: a read that used up most tries, an
                         \* initialisation with the clock held or before a
                         \* sensor at work, and no call since that found it
                         \* at rest

vars == <<out, todo, heard, pc, jobs, timeout, values, inited, answer, sensor, kind, spoilt>>

ByteValues == 0..(2^ByteBits - 1)
Bit(byte, i) == (byte \div 2^(ByteBits - i)) % 2     \* the i-th, from the highest
Length == 2
Setup == -1
Discard == -2
NoAnswer == [of |-> ResetCommand, ok |-> FALSE, values |-> <<>>]

TypeOK ==
    /\ out \in [sda : {0, 1}, scl : {0, 1}]
    /\ heard \in ByteValues
    /\ pc \in {"boot", "idle", "next", "setup", "command", "settle", "write", "address", "data", "byte"}
    /\ jobs \in Seq(Commands \union {Setup, Discard})
    /\ timeout \in 0..Tries
    /\ values \in Seq(ByteValues) /\ Len(values) <= Length
    /\ inited \in BOOLEAN /\ answer.ok \in BOOLEAN
    /\ sensor.mode \in {"idle", "address", "write", "read"}
    /\ sensor.sda \in {0, 1} /\ sensor.scl \in {0, 1}
    /\ sensor.clocks \in 0..(ByteBits + 1) /\ sensor.bits \in ByteValues
    /\ sensor.work \in {"none", "resets", "measures", "done"}

NewSensor ==
    [mode |-> "idle", clocks |-> 0, bits |-> 0, nack |-> 0, sda |-> 1, scl |-> 1,
     at |-> 1, work |-> "none", of |-> ResetCommand, reading |-> <<>>]

Init ==
    /\ out = [sda |-> 1, scl |-> 1]
    /\ todo = <<>> /\ heard = 0
    /\ pc = "boot"
    /\ jobs = <<>>
    /\ timeout = 0 /\ values = <<>>
    /\ inited = FALSE
    /\ answer = NoAnswer
    /\ sensor = NewSensor
    /\ kind \in {"holds", "refuses", "none"}
    /\ spoilt = FALSE
-----------------------------------------------------------------------------
(* The sensor, as its data sheet and the I2C specification have it.        *)

Byte(s) == IF s.at <= Len(s.reading) THEN s.reading[s.at] ELSE 2^ByteBits - 1

\* It puts out the first bit of a byte, or holds the clock until it has one.
Offer(s) ==
    IF s.work = "measures" THEN [s EXCEPT !.scl = 0, !.sda = 1]
    ELSE [s EXCEPT !.sda = Bit(Byte(s), 1)]

Idle(s) == [s EXCEPT !.mode = "idle", !.sda = 1, !.clocks = 0, !.bits = 0, !.nack = 0, !.at = 1]

\* It answers to its address, to read when there is or will be a reading, and
\* to commands it knows, when it is not at work.
Acknowledges(s) ==
    IF s.mode = "address"
    THEN \/ s.bits = Address /\ s.work \notin {"resets", "measures"}
         \/ s.bits = Address + 1 /\ (s.work = "done" \/ (s.work = "measures" /\ kind = "holds"))
    ELSE s.bits \in Commands \union {ResetCommand}

\* After the clock of its acknowledgement.
Acknowledged(s) ==
    LET next == [s EXCEPT !.clocks = 0, !.bits = 0, !.sda = 1] IN
    CASE s.mode = "write" -> [next EXCEPT !.of = s.bits,
                                          !.work = IF s.bits = ResetCommand THEN "resets" ELSE "measures"]
      [] s.mode = "address" /\ s.bits = Address -> [next EXCEPT !.mode = "write"]
      [] OTHER -> Offer([next EXCEPT !.mode = "read", !.at = 1])

Fall(s) ==
    CASE s.mode = "idle" -> s
      [] s.mode # "read" /\ s.clocks = ByteBits ->
            IF Acknowledges(s) THEN [s EXCEPT !.sda = 0] ELSE Idle(s)
      [] s.mode # "read" /\ s.clocks = ByteBits + 1 -> Acknowledged(s)
      [] s.mode = "read" /\ s.clocks \in 1..(ByteBits - 1) ->
            [s EXCEPT !.sda = Bit(Byte(s), s.clocks + 1)]
      [] s.mode = "read" /\ s.clocks = ByteBits -> [s EXCEPT !.sda = 1]
      [] s.mode = "read" /\ s.clocks = ByteBits + 1 ->
            IF s.nack = 1 THEN Idle(s) ELSE Offer([s EXCEPT !.clocks = 0, !.at = @ + 1])
      [] OTHER -> s

Rise(s, sda) ==
    IF s.mode = "idle" THEN s
    ELSE [s EXCEPT !.clocks = @ + 1,
                   !.bits = IF s.mode # "read" /\ s.clocks < ByteBits THEN 2 * @ + sda ELSE @,
                   !.nack = sda]

\* The lines before and after a step.
Follow(s, before, after) ==
    CASE before.scl = 1 /\ after.scl = 1 /\ before.sda > after.sda ->
            [Idle(s) EXCEPT !.mode = "address"]
      [] before.scl = 1 /\ after.scl = 1 /\ before.sda < after.sda -> Idle(s)
      [] before.scl < after.scl -> Rise(s, after.sda)
      [] before.scl > after.scl -> Fall(s)
      [] OTHER -> s

Lines(o, s) == [sda |-> o.sda * s.sda, scl |-> o.scl * s.scl]

\* The sensor is done with what it does; a clock that it held comes up.
Ready ==
    /\ sensor.work \in {"resets", "measures"}
    /\ IF sensor.work = "resets" THEN sensor' = [sensor EXCEPT !.work = "none"]
       ELSE \E r \in Readings[sensor.of] :
              LET done == [sensor EXCEPT !.work = "done", !.reading = r] IN
              sensor' = IF sensor.scl = 1 THEN done
                        ELSE [done EXCEPT !.scl = 1, !.sda = Bit(r[1], 1), !.clocks = out.scl]
    /\ UNCHANGED <<out, todo, heard, pc, jobs, timeout, values, inited, answer, kind, spoilt>>
-----------------------------------------------------------------------------
(* Sequences on the lines: 2 leaves a line as it is.                       *)

Kept == 2
Set(sda, scl) == [op |-> "set", sda |-> sda, scl |-> scl]
Sample == [op |-> "sample", sda |-> Kept, scl |-> Kept]
Stretch == [op |-> "stretch", sda |-> Kept, scl |-> Kept]
Times(n, ops) == [k \in 1 .. n * Len(ops) |-> ops[((k - 1) % Len(ops)) + 1]]

i2c_master_start == <<Set(1, Kept), Set(1, 1), Set(0, 1)>>
i2c_master_stop == <<Set(0, Kept), Set(0, 1), Set(1, 1)>>
i2c_master_setAck(level) == <<Set(Kept, 0), Set(level, 0), Set(level, 1), Set(level, 0), Set(1, 0)>>
i2c_master_getAck == <<Set(Kept, 0), Set(1, 0), Set(1, 1), Sample, Set(1, 0)>>

\* A faulty loop that does not wait for a clock that is held.
i2c_master_readByte_Hasty ==
    <<Set(1, Kept)>> \o Times(ByteBits, <<Set(1, 0), Set(1, 1), Sample>>) \o <<Set(Kept, 0)>>

i2c_master_readByte ==
    <<Set(1, Kept)>> \o Times(ByteBits, <<Set(1, 0), Set(1, 1), Stretch, Sample>>) \o <<Set(Kept, 0)>>

i2c_master_writeByte(byte) ==
    [k \in 1 .. 3 * ByteBits |-> Set(Bit(byte, (k + 2) \div 3), IF k % 3 = 2 THEN 1 ELSE 0)]

\* A faulty initialisation that only sends a stop.
i2c_master_gpio_init_Stop == <<Set(1, 1)>> \o i2c_master_stop

\* With i2c_master_init.
i2c_master_gpio_init ==
    <<Set(1, 1), Set(1, 0), Set(0, 0), Set(1, 0)>>
      \o Times(InitClocks, <<Set(1, 0), Set(1, 1)>>) \o i2c_master_stop

\* A step of the present sequence.
Drive ==
    /\ todo # <<>>
    /\ LET op == Head(todo) IN
       CASE op.op = "set" ->
              /\ out' = [sda |-> IF op.sda = Kept THEN out.sda ELSE op.sda,
                         scl |-> IF op.scl = Kept THEN out.scl ELSE op.scl]
              /\ sensor' = IF kind # "none" THEN Follow(sensor, Lines(out, sensor), Lines(out', sensor))
                           ELSE sensor
              /\ UNCHANGED heard
         [] op.op = "sample" ->
              /\ heard' = (2 * heard + Lines(out, sensor).sda) % 2^ByteBits
              /\ UNCHANGED <<out, sensor>>
         [] op.op = "stretch" ->
              /\ Lines(out, sensor).scl = 1
              /\ UNCHANGED <<out, sensor, heard>>
    /\ todo' = Tail(todo)
    /\ spoilt' = (spoilt \/ (pc = "setup" /\ sensor'.scl = 0))
    /\ UNCHANGED <<pc, jobs, timeout, values, inited, answer, kind>>
-----------------------------------------------------------------------------
(* The functions, each from one sequence to the next.                      *)

At(label) == todo = <<>> /\ pc = label
Do(label, ops) == pc' = label /\ todo' = ops /\ heard' = 0
Acked == heard = 0
Addressed(address) == i2c_master_start \o i2c_master_writeByte(address) \o i2c_master_getAck

\* The sensor waits for a start, and the lines are free.
AtRest ==
    /\ sensor.mode = "idle" /\ sensor.work \notin {"resets", "measures"}
    /\ Lines(out, sensor) = [sda |-> 1, scl |-> 1]

\* ioInit on the board with this sensor: SI7020_Init.
Boot ==
    /\ At("boot")
    /\ jobs' = <<Setup>>
    /\ Do("next", <<>>)
    /\ UNCHANGED <<out, timeout, values, inited, answer, sensor, kind, spoilt>>

\* SI7020_GetTemperature and SI7020_GetHumidity: a first reading is thrown away.
Get(command) ==
    /\ At("idle")
    /\ jobs' = IF inited THEN <<command>> ELSE <<Setup, Discard, command>>
    /\ answer' = NoAnswer
    /\ Do("next", <<>>)
    /\ spoilt' = (spoilt /\ ~AtRest)
    /\ UNCHANGED <<out, timeout, values, inited, sensor, kind>>

\* What is written: the reading that is thrown away is of the same kind.
Command ==
    CASE Head(jobs) = Setup -> ResetCommand
      [] Head(jobs) = Discard -> jobs[2]
      [] OTHER -> Head(jobs)

\* SI7020_Init starts with the lines, a reading with i2c_master_writeBytes1;
\* the delays of the first reading are longer than the reset takes.
NextJob ==
    /\ At("next") /\ jobs # <<>>
    /\ IF Head(jobs) = Setup THEN Do("setup", i2c_master_gpio_init)
       ELSE Do("write", Addressed(Address))
    /\ values' = <<>>
    /\ UNCHANGED <<out, jobs, timeout, inited, answer, sensor, kind, spoilt>>

NoJob ==
    /\ At("next") /\ jobs = <<>>
    /\ Do("idle", <<>>)
    /\ UNCHANGED <<out, jobs, timeout, values, inited, answer, sensor, kind, spoilt>>

SendReset ==
    /\ At("setup")
    /\ Do("write", Addressed(Address))
    /\ spoilt' = (spoilt \/ sensor.work \in {"resets", "measures"})
    /\ UNCHANGED <<out, jobs, timeout, values, inited, answer, sensor, kind>>

\* The end of a job; SI7020_Init waits for the reset to be done.
Finished(ok) ==
    /\ jobs' = Tail(jobs)
    /\ inited' = (inited \/ (Head(jobs) = Setup /\ ok))
    /\ answer' = IF Head(jobs) \in Commands
                 THEN [of |-> Head(jobs), ok |-> ok, values |-> values'] ELSE answer

\* i2c_master_writeBytes after the address: the command, or a stop.
WriteAddressed ==
    /\ At("write")
    /\ IF Acked
       THEN /\ Do("command", i2c_master_writeByte(Command) \o i2c_master_getAck)
            /\ UNCHANGED <<jobs, inited, answer, values>>
       ELSE Do("next", i2c_master_stop) /\ UNCHANGED values /\ Finished(FALSE)
    /\ UNCHANGED <<out, timeout, sensor, kind, spoilt>>

\* i2c_master_writeBytes after the command.
Written ==
    /\ At("command")
    /\ UNCHANGED values
    /\ CASE ~Acked -> Do("next", i2c_master_stop) /\ Finished(FALSE) /\ UNCHANGED timeout
         [] Acked /\ Head(jobs) = Setup ->
              Do("settle", i2c_master_stop) /\ UNCHANGED <<jobs, inited, answer, timeout>>
         [] Acked /\ Head(jobs) # Setup ->
              /\ Do("address", i2c_master_stop \o Addressed(Address + 1))
              /\ timeout' = Tries
              /\ UNCHANGED <<jobs, inited, answer>>
    /\ UNCHANGED <<out, sensor, kind, spoilt>>

\* os_delay_us(15000)
Settle ==
    /\ At("settle") /\ sensor.work # "resets"
    /\ Do("next", <<>>) /\ UNCHANGED values /\ Finished(TRUE)
    /\ UNCHANGED <<out, timeout, sensor, kind, spoilt>>

\* i2c_master_readBytes after the address: again, until the tries are used up.
ReadAddressed ==
    /\ At("address")
    /\ UNCHANGED values
    /\ timeout' = IF Acked THEN timeout ELSE timeout - 1
    /\ CASE Acked -> Do("data", <<>>) /\ UNCHANGED <<jobs, inited, answer>>
         [] ~Acked /\ timeout > 1 ->
              /\ Do("address", i2c_master_stop \o Addressed(Address + 1))
              /\ UNCHANGED <<jobs, inited, answer>>
         [] ~Acked /\ timeout = 1 -> Do("next", i2c_master_stop) /\ Finished(FALSE)
    /\ spoilt' = (spoilt \/ timeout <= Length)
    /\ UNCHANGED <<out, sensor, kind>>

\* The loop over the bytes, which counts on with the same counter,
ReadNext ==
    /\ At("data") /\ Len(values) < Length
    /\ timeout' = timeout - 1
    /\ UNCHANGED values
    /\ IF timeout > 1
       THEN Do("byte", i2c_master_readByte) /\ UNCHANGED <<jobs, inited, answer>>
       ELSE Do("next", i2c_master_stop) /\ Finished(TRUE)
    /\ UNCHANGED <<out, sensor, kind, spoilt>>

\* A faulty acknowledgement of the last byte.
LastLevel_Acks == 0

\* The level after the last byte.
LastLevel == 1

ReadByte ==
    /\ At("byte")
    /\ values' = Append(values, heard)
    /\ Do("data", i2c_master_setAck(IF Len(values) + 1 = Length THEN LastLevel ELSE 0) \o <<Set(1, 0)>>)
    /\ UNCHANGED <<out, jobs, timeout, inited, answer, sensor, kind, spoilt>>

\* and its end.
ReadEnds ==
    /\ At("data") /\ Len(values) = Length
    /\ Do("next", i2c_master_stop) /\ UNCHANGED values /\ Finished(TRUE)
    /\ UNCHANGED <<out, timeout, sensor, kind, spoilt>>

Master ==
    \/ Drive \/ Boot \/ NextJob \/ NoJob \/ SendReset \/ WriteAddressed \/ Written \/ Settle
    \/ ReadAddressed \/ ReadNext \/ ReadByte \/ ReadEnds

\* The board restarts: its pins let go of the lines, in one step.
Restart ==
    /\ pc # "boot"
    /\ out' = [sda |-> 1, scl |-> 1]
    /\ sensor' = IF kind # "none" THEN Follow(sensor, Lines(out, sensor), Lines(out', sensor)) ELSE sensor
    /\ todo' = <<>> /\ heard' = 0 /\ pc' = "boot" /\ jobs' = <<>>
    /\ timeout' = 0 /\ values' = <<>> /\ inited' = FALSE /\ answer' = NoAnswer
    /\ UNCHANGED <<kind, spoilt>>

Next == Master \/ Ready \/ Restart \/ \E command \in Commands : Get(command)

Spec == Init /\ [][Next]_vars /\ WF_vars(Master) /\ WF_vars(Ready)
-----------------------------------------------------------------------------
\* A reading that is reported is the one the sensor took for it.
ReadsRight ==
    pc = "idle" /\ answer.ok /\ ~spoilt =>
        /\ sensor.of = answer.of
        /\ Length <= Len(sensor.reading)
        /\ answer.values = SubSeq(sensor.reading, 1, Length)

\* Between two readings the bus is free, and the sensor waits for a start.
BusFree ==
    pc = "idle" /\ ~spoilt => sensor.mode = "idle" /\ Lines(out, sensor) = [sda |-> 1, scl |-> 1]

\* A sensor that is there is found, and read.
Found == pc = "idle" /\ kind # "none" /\ ~spoilt => inited /\ (answer # NoAnswer => answer.ok)

\* Every reading comes to an end.
ReadingEnds == []<>(pc = "idle" \/ pc = "boot")
=============================================================================
