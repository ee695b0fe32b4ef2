----------------------------- MODULE MCDevices ------------------------------
(***************************************************************************)
(* The devices on small instances: the receive buffer of the serial line   *)
(* (SerialLine), the pulse-width modulation (Pwm), the LED string          *)
(* (LedString), the one-wire thermometers (Ds18b20), the DHT22 (Dht22) and *)
(* the I2C bus with its sensor (I2cMaster).  No two of them share state,   *)
(* so each moves on its own, and part says which.                          *)
(***************************************************************************)
EXTENDS SerialLine, FiniteSets

CONSTANTS None,
          Outputs, PWM_DEPTH, PwmPeriod, Modulus, Asked,              \* Pwm
          patterns, LedMax, Lengths, Shades, Published,               \* LedString
          Codes, FamilyBits, Families, MaxDevices, Temperatures,      \* Ds18b20
          Width, Measured,                                            \* Dht22
          ByteBits, Tries, InitClocks, Address, ResetCommand, Commands, \* I2cMaster
          Readings

VARIABLES part,
          duty, table, pwm_toggle, using, pwm_current_channel, pwm_timer_down, load, out,
          pwmPc, meant, high, ran, first, ended, hurried,
          pattern, cur, ms_delay, brightness, stringlen, armed, sysCfg, leds, published,
          delayed, framed,
          present, shorted, pc, ROM_NO, LastDiscrepancy, LastDeviceFlag, bit, last_zero,
          selected, i, addr, numds, currds, dsreading, removed, found,
          dhtPc, sent, data, inbyte, inbits, reading, locked, misread, checked,
          lines, todo, heard, busPc, jobs, timeout, values, inited, answer, sensor, kind, spoilt

P == INSTANCE Pwm WITH pc <- pwmPc, Channels <- Outputs, Period <- PwmPeriod

\* A period has at least a microsecond for each step of the duty.  No time but
\* the whole period has its ticks, and only none has none: 5 and 2^16 have no
\* common factor, and the period is less than 2^16 microseconds.
ASSUME PwmAssumption ==
    /\ PWM_DEPTH \in Nat \ {0} /\ PwmPeriod \in Nat /\ PWM_DEPTH <= PwmPeriod
    /\ Modulus \in Nat \ {0} /\ P!End # 0
    /\ \A us \in 1 .. PwmPeriod - 1 : P!Ticks(us) \notin {0, P!End}
    /\ Asked \subseteq Nat

MCPatterns == << <<"dark">>, <<"white">>, <<"a", "b", "c">> >>
L == INSTANCE LedString

\* No pattern is empty; a string is as long as there are LEDs at the most, and
\* the default length is no more.
ASSUME LedAssumption ==
    /\ patterns \in Seq(Seq(STRING)) /\ Len(patterns) > 1
    /\ \A p \in 1 .. Len(patterns) : Len(patterns[p]) > 0
    /\ LedMax \in Nat /\ L!Default <= LedMax /\ Lengths \subseteq 0..LedMax
    /\ Shades \in Nat

\* Four codes of a family, one of each other that is looked for, and one that
\* ends a search.
MCCodes == {<<0, 1>> \o c : c \in {<<0, 0>>, <<0, 1>>, <<1, 0>>, <<1, 1>>}}
               \union {<<1, 0, 0, 1>>, <<0, 0, 0, 1>>, <<1, 1, 0, 0>>}
MCFamilies == [s |-> <<1, 0>>, b |-> <<0, 1>>]
D == INSTANCE Ds18b20

\* Addresses are as long as each other (64 bits); the family comes first (8).
ASSUME WireAssumption ==
    /\ Codes # {} /\ IsFiniteSet(Codes)
    /\ D!Bits \in Nat /\ Codes \subseteq [1 .. D!Bits -> 0..1]
    /\ FamilyBits \in 1 .. D!Bits
    /\ Families.s # Families.b

MCMeasured == {<<0, 0, 0, 0>>, <<1, 2, 3, 0>>, <<2, 1, 0, 3>>}
H == INSTANCE Dht22 WITH pc <- dhtPc

\* The sensor measures four bytes.
ASSUME DhtAssumption ==
    /\ Width \in Nat \ {0}
    /\ \A m \in Measured : m \in Seq(0 .. 2 ^ Width - 1) /\ Len(m) = 4

\* 5 reads from address 4, and one command gives one of two readings.
MCReadings == [command \in Commands |-> IF command = 3 THEN {<<5, 2, 1>>, <<7, 0, 6>>} ELSE {<<1, 6, 3>>}]
B == INSTANCE I2cMaster WITH out <- lines, pc <- busPc

\* A byte of ones is no command, and the initialisation has more clocks than two bytes
\* with their acknowledgements: 28, for bytes of eight bits.
ASSUME BusAssumption ==
    /\ ByteBits \in Nat \ {0} /\ Tries \in Nat \ {0}
    /\ InitClocks \in Nat /\ InitClocks > 2 * (ByteBits + 1)
    /\ {Address, Address + 1, ResetCommand} \union Commands \subseteq B!ByteValues
    /\ ResetCommand \notin Commands
    /\ 2 ^ ByteBits - 1 \notin Commands \union {ResetCommand}
    /\ \A command \in Commands : \A r \in Readings[command] :
          r \in Seq(B!ByteValues) /\ Len(r) >= B!Length

pwmVars == <<duty, table, pwm_toggle, using, pwm_current_channel, pwm_timer_down, load, out,
             pwmPc, meant, high, ran, first, ended, hurried>>
ledVars == <<pattern, cur, ms_delay, brightness, stringlen, armed, sysCfg, leds, published,
             delayed, framed>>
dsVars == <<present, shorted, pc, ROM_NO, LastDiscrepancy, LastDeviceFlag, bit, last_zero,
            selected, i, addr, numds, currds, dsreading, removed, found>>
dhtVars == <<dhtPc, sent, data, inbyte, inbits, reading, locked, misread, checked>>
busVars == <<lines, todo, heard, busPc, jobs, timeout, values, inited, answer, sensor, kind, spoilt>>

\* A part that does not move.
NoPwm ==
    /\ duty = None /\ table = None /\ pwm_toggle = None /\ using = None
    /\ pwm_current_channel = None /\ pwm_timer_down = None /\ load = None /\ out = None
    /\ pwmPc = None /\ meant = None /\ high = None /\ ran = None /\ first = None
    /\ ended = None /\ hurried = None
NoLeds ==
    /\ pattern = None /\ cur = None /\ ms_delay = None /\ brightness = None
    /\ stringlen = None /\ armed = None /\ sysCfg = None /\ leds = None /\ published = None
    /\ delayed = None /\ framed = None
NoWire ==
    /\ present = None /\ shorted = None /\ pc = None /\ ROM_NO = None
    /\ LastDiscrepancy = None /\ LastDeviceFlag = None /\ bit = None /\ last_zero = None
    /\ selected = None /\ i = None /\ addr = None /\ numds = None /\ currds = None
    /\ dsreading = None /\ removed = None /\ found = None
NoDht ==
    /\ dhtPc = None /\ sent = None /\ data = None /\ inbyte = None /\ inbits = None /\ reading = None
    /\ locked = None /\ misread = None /\ checked = None

NoBus ==
    /\ lines = None /\ todo = None /\ heard = None /\ busPc = None /\ jobs = None
    /\ timeout = None /\ values = None /\ inited = None /\ answer = None
    /\ sensor = None /\ kind = None /\ spoilt = None

MCInit ==
    /\ Init
    /\ \/ part = "serial" /\ NoPwm /\ NoLeds /\ NoWire /\ NoDht /\ NoBus
       \/ part = "pwm" /\ P!Init /\ NoLeds /\ NoWire /\ NoDht /\ NoBus
       \/ part = "leds" /\ NoPwm /\ L!Init /\ NoWire /\ NoDht /\ NoBus
       \/ part = "wire" /\ NoPwm /\ NoLeds /\ D!Init /\ NoDht /\ NoBus
       \/ part = "dht22" /\ NoPwm /\ NoLeds /\ NoWire /\ H!Init /\ NoBus
       \/ part = "i2c" /\ NoPwm /\ NoLeds /\ NoWire /\ NoDht /\ B!Init

Modulation(A) == part = "pwm" /\ A /\ UNCHANGED <<part, vars, ledVars, dsVars, dhtVars, busVars>>
OneWire(A) == part = "wire" /\ A /\ UNCHANGED <<part, vars, pwmVars, ledVars, dhtVars, busVars>>
Bus(A) == part = "i2c" /\ A /\ UNCHANGED <<part, vars, pwmVars, ledVars, dsVars, dhtVars>>

MCNext ==
    \/ part = "serial" /\ Next /\ UNCHANGED <<part, pwmVars, ledVars, dsVars, dhtVars, busVars>>
    \/ Modulation(P!Next)
    \/ part = "leds" /\ L!Next /\ UNCHANGED <<part, vars, pwmVars, dsVars, dhtVars, busVars>>
    \/ OneWire(D!Next)
    \/ part = "dht22" /\ H!Next /\ UNCHANGED <<part, vars, pwmVars, ledVars, dsVars, busVars>>
    \/ Bus(B!Next)

\* The fairness of Pwm, of Ds18b20 and of I2cMaster.
MCSpec ==
    /\ MCInit /\ [][MCNext]_<<part, vars, pwmVars, ledVars, dsVars, dhtVars, busVars>>
    /\ WF_pwmVars(Modulation(P!Start)) /\ WF_pwmVars(Modulation(P!Check))
    /\ WF_pwmVars(Modulation(P!Toggle)) /\ WF_pwmVars(Modulation(P!Switch \/ P!EndOfPeriod))
    /\ WF_dsVars(OneWire(D!SearchReset \/ D!SearchFails \/ D!SearchBit \/ D!SearchEnds \/ D!Ready))
    /\ WF_dsVars(OneWire(D!Poll))
    /\ WF_busVars(Bus(B!Master)) /\ WF_busVars(Bus(B!Ready))
-----------------------------------------------------------------------------
\* The variables of every part have their types.
PartsTypeOK ==
    /\ TypeOK
    /\ part = "pwm" => P!TypeOK
    /\ part = "leds" => L!TypeOK
    /\ part = "wire" => D!TypeOK
    /\ part = "dht22" => H!TypeOK
    /\ part = "i2c" => B!TypeOK

\* Pwm: each output is high for its share of the times that the table holds,
\* whatever is asked meanwhile, also when the period does not fit them; and with
\* the timer down the outputs are what was asked.
PulsesRight ==
    /\ [][part = "pwm" => P!PeriodEndsRight]_pwmVars
    /\ [](part = "pwm" => P!RestIsSteady)

\* Pwm: what was asked is driven, after at most one more period; the table in
\* use is written only by a request after another one in the same period.
PulsesReached ==
    /\ part = "pwm" /\ pwmPc = "filled" ~> part = "pwm" /\ (hurried \/ meant[using] = duty)
    /\ [][part = "pwm" /\ ~hurried /\ hurried' => ended]_pwmVars

\* LedString: from frame to frame the pattern moves by one LED; what was
\* published stays until a delay is set; and the pattern is the saved one, but
\* for the last of the page.
LedsRight ==
    [][ part = "leds" =>
          /\ framed /\ framed' => \A j \in 1 .. stringlen - 1 : leds'[j] = leds[j + 1]
          /\ L!PublishedStays'
          /\ pattern' # pattern => pattern' = sysCfg'.pattern \/ pattern = L!NUM_PATTERNS ]_ledVars

\* Ds18b20: the searches find each device once, a reading was sent by the
\* device at its place, and with up to three sensors no poll goes past the
\* places there are.
ThermometersRight == part = "wire" => D!SearchFindsAll /\ D!ReadingIsOwn /\ D!PollsInside

\* Ds18b20: a sensor that was taken off is seen to be gone.  I2cMaster: a
\* reading comes to an end, whether the sensor is there or not.
SensorsAnswer ==
    /\ \A s \in 0..3 :
          (part = "wire" /\ pc = "poll" /\ s < numds /\ addr[s] \notin present /\ ~shorted)
              ~> (part = "wire" /\ (shorted \/ ~dsreading[s].success))
    /\ part = "i2c" ~> part = "i2c" /\ busPc \in {"idle", "boot"}

\* Dht22: a reading that counts is what was measured, and interrupts stay
\* locked only after a pulse that was too long.  I2cMaster: a reading is the
\* one that the sensor took for it, the bus is free after it, and a sensor
\* that is there is found, also after a restart in the middle of a reading,
\* but for those in which most tries were used up or the clock was held.
HumidityRight ==
    /\ part = "dht22" => H!ReadingRight /\ H!LockedMeansFailed
    /\ part = "i2c" => B!ReadsRight /\ B!BusFree /\ B!Found
=============================================================================
