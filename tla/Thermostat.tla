----------------------------- MODULE Thermostat -----------------------------
(***************************************************************************)
(* The thermostat of relay 1 (user/thermostat.c): every poll of its timer  *)
(* compares a reading with the setpoint, the manual one or that of the     *)
(* weekly schedule, and switches the relay.  Temperatures are hundredths   *)
(* of a degree, as in the code.  The clock (user/sntp.c) and the room are  *)
(* the environment.                                                        *)
(***************************************************************************)
EXTENDS WallClock, SequencesExt

CONSTANTS Modulus,    \* 2^32 in the code
          Readings,   \* what the sensors may deliver
          Times,      \* UTC times an answer of the time server may bring
          Timezones,  \* values of sntp_tz, hours
          Configs,    \* settings of the thermostat
          Step        \* how far the room's temperature moves in a period

Failed == -9999

ASSUME ThermostatAssumption ==
    /\ Modulus \in Nat /\ Modulus > 2 * (65535 + 12000)
    /\ Step \in Nat \ {0}
    /\ Readings \subseteq Int

\* The fields are unsigned (config.h).
ASSUME SettingsAssumption ==
    \A c \in Configs : {c.hysteresislow, c.hysteresishigh, c.manualsetpoint} \subseteq Nat

VARIABLES reading,          \* Treading, or Failed
          currGPIO12State,  \* relay 1
          sysCfg,           \* the thermostat1... fields
          sntp_time, sntp_tz,
          polled            \* has the timer fired since the reading changed?

settings == <<sysCfg, sntp_tz>>
vars == <<reading, currGPIO12State, settings, sntp_time, polled>>

\* thermostat1opmode
HEATING == 0
COOLING == 1

TypeOK ==
    /\ reading \in Int
    /\ currGPIO12State \in {0, 1}
    /\ sysCfg \in Configs
    /\ sntp_time \in Times \union {<<0, 0>>}
    /\ sntp_tz \in Timezones
    /\ polled \in BOOLEAN

Init ==
    /\ reading \in Readings
    /\ currGPIO12State \in {0, 1}
    /\ sysCfg \in Configs
    /\ sntp_time = <<0, 0>>
    /\ sntp_tz \in Timezones
    /\ polled = FALSE
-----------------------------------------------------------------------------
\* The hysteresis is a uint32_t, so both sides are compared as unsigned.
Unsigned(n) == n % Modulus
IsLess(t, setpoint) == Unsigned(t) < Unsigned(setpoint - sysCfg.hysteresislow)
IsMore(t, setpoint) ==
    ~IsLess(t, setpoint) /\ Unsigned(t) > Unsigned(setpoint + sysCfg.hysteresishigh)

\* A faulty thermostat, which only knows a heater.
thermostat_Heats(level, t, setpoint) ==
    CASE IsLess(t, setpoint) -> 1
      [] IsMore(t, setpoint) -> 0
      [] OTHER -> level

\* The level of the relay after a call of thermostat.
thermostat(level, t, setpoint) ==
    CASE IsLess(t, setpoint) -> IF sysCfg.opmode = HEATING THEN 1 ELSE 0
      [] IsMore(t, setpoint) -> IF sysCfg.opmode = HEATING THEN 0 ELSE 1
      [] OTHER -> level

Local == LocalTime(sntp_time, sntp_tz)

\* A faulty loop, which skips what is not active and goes on.
Visited_On(slots) == SelectSeq(slots, LAMBDA slot : slot.active = 1)

\* The slots the loop visits: those before the first one that is not active.
Visited(slots) ==
    SubSeq(slots, 1, Min({i \in DOMAIN slots : slots[i].active # 1}
                             \union {Len(slots) + 1}) - 1)
Today == sysCfg.schedule[Weekday(Local)]
Applies(slot) == CurrTime(Local) >= slot.start /\ CurrTime(Local) < slot.end
AfterSlot(level, slot) ==
    IF Applies(slot) THEN thermostat(level, reading, slot.setpoint) ELSE level

\* pollThermostatCb.
Poll ==
    /\ polled' = TRUE
    /\ \/ /\ \/ sysCfg.state = 0
             \/ reading = Failed \/ reading > 12000 \/ reading < -3000
             \/ sysCfg.mode # "manual" /\ get_year(Local) < 2015
          /\ UNCHANGED currGPIO12State
       \/ /\ sysCfg.state # 0
          /\ reading # Failed /\ reading <= 12000 /\ reading >= -3000
          /\ \/ /\ sysCfg.mode = "manual"
                /\ currGPIO12State' =
                       thermostat(currGPIO12State, reading, sysCfg.manualsetpoint)
             \/ /\ sysCfg.mode # "manual"
                /\ get_year(Local) >= 2015
                /\ currGPIO12State' =
                       FoldLeft(AfterSlot, currGPIO12State, Visited(Today))
    /\ UNCHANGED <<reading, settings, sntp_time>>

\* A faulty clock, which keeps local time.
SetClock_Local ==
    /\ sntp_time' \in {LocalTime(t, sntp_tz) : t \in Times}
    /\ UNCHANGED <<reading, currGPIO12State, settings, polled>>

\* sntp_process and ntp_time_update: from the first answer of the server on
\* the clock shows UTC.  Without one it stays at zero.
SetClock ==
    /\ sntp_time' \in Times
    /\ UNCHANGED <<reading, currGPIO12State, settings, polled>>

\* A sensor delivers another value, or fails.
Sense ==
    /\ reading' \in Readings \union {Failed}
    /\ polled' = FALSE
    /\ UNCHANGED <<currGPIO12State, settings, sntp_time>>

Next == Poll \/ SetClock \/ Sense

Spec == Init /\ [][Next]_vars
-----------------------------------------------------------------------------
\* The room as the relay's load moves it, one Step in a period of the timer.
Room ==
    /\ polled
    /\ polled' = FALSE
    /\ reading' = IF (currGPIO12State = 1) = (sysCfg.opmode = HEATING)
                  THEN reading + Step ELSE reading - Step
    /\ UNCHANGED <<currGPIO12State, settings, sntp_time>>

\* The timer is periodic and the room does not stand still.
ClosedLoop ==
    /\ Init
    /\ [][Poll \/ Room]_vars
    /\ WF_vars(Poll)
    /\ WF_vars(Room)
-----------------------------------------------------------------------------
\* What the code does not test and takes for granted: setpoints from which the
\* hysteresis can be taken without a wrap; slots that end on whole minutes, of
\* which three are five hundredths of an hour; a clock between the first two
\* days of 1970 and the first day that the code takes for a leap day and is
\* none; and a time zone of less than a day.
ThresholdsFit(setpoint, c) ==
    setpoint \in Nat /\ setpoint >= c.hysteresislow /\ setpoint + c.hysteresishigh < Modulus
Slots(c) == {slot \in [start : Nat, end : Nat, setpoint : Nat, active : {0, 1}] :
                slot.active = 1 => ThresholdsFit(slot.setpoint, c) /\ slot.end % 5 = 0}
Foreseen ==
    /\ \A c \in Configs :
          /\ ThresholdsFit(c.manualsetpoint, c)
          /\ \A dow \in 0..6 : c.schedule[dow] \in Seq(Slots(c))
    /\ Times \subseteq Nat \X Nat
    /\ \A t \in Times : t[1] >= 1 /\ t[1] <= 47540 /\ t[2] < SecondsPerDay
    /\ \A tz \in Timezones : tz \in Int /\ tz >= -23 /\ tz <= 23
-----------------------------------------------------------------------------
\* The setpoints in force: weekday 0 is Monday and day 0, 1 January 1970, was
\* a Thursday; a slot that is not active ends the schedule of its day.
SetpointsNow ==
    IF sysCfg.mode = "manual" THEN {sysCfg.manualsetpoint}
    ELSE LET slots == sysCfg.schedule[(Local[1] + 3) % 7]
             InForce(i) == /\ \A j \in 1..i : slots[j].active = 1
                           /\ Local[2] >= slots[i].start * 36
                           /\ Local[2] < slots[i].end * 36
         IN {slots[i].setpoint : i \in {j \in DOMAIN slots : InForce(j)}}

\* The relay is switched for a reason: the reading is beyond a setpoint that
\* is in force on this day at this time, and on the side where the relay has
\* to be switched this way (in the schedule's mode, once the clock is set).
SwitchedForReason ==
    [][/\ currGPIO12State' # currGPIO12State
       /\ sysCfg.mode = "manual" \/ sntp_time # <<0, 0>>
       => /\ sysCfg.state # 0
          /\ \E setpoint \in SetpointsNow :
                 IF (currGPIO12State' = 1) = (sysCfg.opmode = HEATING)
                 THEN reading < setpoint - sysCfg.hysteresislow
                 ELSE reading > setpoint + sysCfg.hysteresishigh]_vars

\* "Something is wrong with the NTP time, maybe not enabled?": while the
\* clock was never set the schedule does not switch the relay.
ScheduleNeedsClock ==
    [][sysCfg.mode # "manual" /\ sntp_time = <<0, 0>> => UNCHANGED currGPIO12State]_vars

\* With a load that heats or cools, the temperature comes into the band of
\* the hysteresis, up to one Step, and never leaves it.
InBand ==
    /\ reading >= sysCfg.manualsetpoint - sysCfg.hysteresislow - Step
    /\ reading <= sysCfg.manualsetpoint + sysCfg.hysteresishigh + Step
Regulates == <>[]InBand
StaysInBand == [][InBand => InBand']_vars
=============================================================================
