----------------------------- MODULE MCHeating ------------------------------
(***************************************************************************)
(* The parts of the thermostat on small instances: its switching           *)
(* (Thermostat), alone and with a room; its calendar (WallClock); its page *)
(* (SchedulePage), and the tokenizer the page reads a schedule with        *)
(* (Jsmn).  part says which of them moves: they share nothing that the     *)
(* others could see move but the schedule, which is a constant for the     *)
(* first.                                                                  *)
(***************************************************************************)
EXTENDS Thermostat

CONSTANT None

VARIABLES part,
          now,   \* local time
          date,  \* the calendar: year, month, day, and weekday, 0 for Monday
          js, pos, tokens, toksuper, count, result,
          weekSched, answering, posted, before
-----------------------------------------------------------------------------
\* The hysteresis of CFG_Load, and a schedule that differs on every day of the
\* week and has an active slot behind the one that ends it.
Slot(start, end, setpoint, active) ==
    [start |-> start, end |-> end, setpoint |-> setpoint, active |-> active]
Schedule == [dow \in 0..6 |->
    << Slot(0, 600, 1000 + 100 * dow, 1),
       Slot(600, 2200, 2000 + 100 * dow, 1),
       Slot(0, 0, 0, 0),
       Slot(0, 2400, 2700, 1) >>]

Manual(opmode) ==
    [state |-> 1, mode |-> "manual", opmode |-> opmode, manualsetpoint |-> 2100,
     hysteresishigh |-> 50, hysteresislow |-> 50, schedule |-> Schedule]
\* A step from the manual setpoint's band leaves it what the thermostat takes
\* for valid.
ASSUME RoomAssumption == Step <= 2050

Scheduled(opmode) == [Manual(opmode) EXCEPT !.mode = "schedule"]

MCManual == {Manual(HEATING), Manual(COOLING)}
MCScheduled == {Scheduled(HEATING), Scheduled(COOLING)}
MCConfigs == MCManual \union MCScheduled
                 \union {[Scheduled(HEATING) EXCEPT !.state = 0]}

\* 2015-12-31 and 2016-01-01, 2016-02-28 and 29, 2037-12-31
MCTimes == {16800, 16801, 16859, 16860, 24836} \X {0, 1, 21599, 21600, 79199, 79200, 86399}
MCTimezones == {-5, 0, 10}

\* Around the setpoints and at the ends of what counts as valid; MCCold adds
\* what is below zero.
MCReadings == {0, 1049, 1051, 1500, 2040, 2100, 2300, 2751, 12000, 12001}
MCCold == MCReadings \union {-100, -3000, -3001}
MCRoom == {0, 1500, 1861, 2100, 2700, 12000}
-----------------------------------------------------------------------------
\* WallClock against the Gregorian calendar: a clock that runs from 2015, the
\* first year pollThermostatCb accepts, to the end of LastYear, and is looked
\* at in a few seconds of every day, among them the first and the last, beside a
\* calendar that is advanced from day to day.
LastYear == 2037
Samples == <<0, 1, 43200, 86399>>

\* 1 January 2015 was a Thursday.
CalendarInit ==
    /\ now = <<16436, 0>>
    /\ date = [year |-> 2015, month |-> 1, day |-> 1, weekday |-> 3]

Leap(year) == year % 4 = 0 /\ (year % 100 # 0 \/ year % 400 = 0)
LastDay(year, month) ==
    CASE month = 2 -> IF Leap(year) THEN 29 ELSE 28
      [] month \in {4, 6, 9, 11} -> 30
      [] OTHER -> 31

LaterToday ==
    /\ date.year <= LastYear
    /\ \E i \in 1..3 : now[2] = Samples[i] /\ now' = <<now[1], Samples[i + 1]>>
    /\ UNCHANGED date

Midnight ==
    /\ now[2] = 86399
    /\ date.year <= LastYear
    /\ now' = <<now[1] + 1, 0>>
    /\ date' =
           LET next == [date EXCEPT !.weekday = (@ + 1) % 7]
           IN IF date.day < LastDay(date.year, date.month) THEN [next EXCEPT !.day = @ + 1]
              ELSE IF date.month = 12 THEN [next EXCEPT !.day = 1, !.month = 1, !.year = @ + 1]
              ELSE [next EXCEPT !.day = 1, !.month = @ + 1]

\* The walk starts again.
Again ==
    /\ date.year > LastYear
    /\ now' = <<16436, 0>>
    /\ date' = [year |-> 2015, month |-> 1, day |-> 1, weekday |-> 3]

CalendarNext == LaterToday \/ Midnight \/ Again
-----------------------------------------------------------------------------
J == INSTANCE Jsmn WITH NumTokens <- 4,
    Texts <- BoundedSeq({"{", "}", "[", "]", "q", ":", ",", "b", "1", "bad"}, 5)

E1 == [s |-> "1", e |-> "2", sp |-> "3"]
E2 == [s |-> "3", e |-> "2", sp |-> "1"]
P == INSTANCE SchedulePage WITH
    NumTokens <- 17, Texts <- {}, days <- <<"m", "t">>, Places <- 2,
    Posted <- {<<>>, <<E2>>, <<E2, E1>>, <<E1, E1, E1>>}

calendarVars == <<now, date>>
pageVars == <<js, pos, tokens, toksuper, count, result, weekSched, answering, posted, before>>

NoThermostat ==
    /\ reading = 0 /\ currGPIO12State = 0 /\ sysCfg = Manual(HEATING)
    /\ sntp_time = <<0, 0>> /\ sntp_tz = 0 /\ polled = FALSE
NoCalendar == now = None /\ date = None
NoPage == weekSched = None /\ answering = None /\ posted = None /\ before = None
NoText == js = None /\ pos = None /\ tokens = None /\ toksuper = None /\ count = None /\ result = None

MCInit ==
    \/ part = "switching" /\ Init /\ NoCalendar /\ NoText /\ NoPage
    \/ part = "loop" /\ Init /\ reading \in MCRoom /\ sysCfg \in MCManual /\ NoCalendar /\ NoText /\ NoPage
    \/ part = "calendar" /\ NoThermostat /\ CalendarInit /\ NoText /\ NoPage
    \/ part = "text" /\ NoThermostat /\ NoCalendar /\ J!JsmnInit /\ NoPage
    \/ part = "page" /\ NoThermostat /\ NoCalendar /\ P!Init

Loop(A) == part = "loop" /\ A /\ UNCHANGED <<part, calendarVars, pageVars>>

MCNext ==
    \/ part = "switching" /\ Next /\ UNCHANGED <<part, calendarVars, pageVars>>
    \/ Loop(Poll \/ Room)
    \/ part = "calendar" /\ CalendarNext /\ UNCHANGED <<part, vars, pageVars>>
    \/ part = "text" /\ J!JsmnNext /\ UNCHANGED <<part, vars, calendarVars, weekSched, answering, posted, before>>
    \/ part = "page" /\ P!Next /\ UNCHANGED <<part, vars, calendarVars>>

\* The switching alone, with the readings of a cold room.
ColdInit == part = "switching" /\ Init /\ NoCalendar /\ NoText /\ NoPage
ColdSpec == ColdInit /\ [][MCNext]_<<part, vars, calendarVars, pageVars>>

\* The timer is periodic and the room does not stand still.
MCSpec ==
    /\ MCInit /\ [][MCNext]_<<part, vars, calendarVars, pageVars>>
    /\ WF_vars(Loop(Poll)) /\ WF_vars(Loop(Room))
-----------------------------------------------------------------------------
\* Variables of the part that moves have their types.
PartsTypeOK ==
    /\ TypeOK
    /\ part = "text" => J!JsmnTypeOK
    /\ part = "page" => P!TypeOK

\* Thermostat: with a load that heats or cools the temperature comes into the
\* band of the hysteresis, and stays there.
LoopRegulates == <>[](part = "loop" => InBand)

\* Thermostat: the relay is switched for a reason, and so that the temperature
\* never leaves the band of the hysteresis.
SwitchingRight ==
    /\ SwitchedForReason
    /\ [][part = "loop" /\ InBand => InBand']_vars

\* pollThermostatCb looks up the schedule of the right day of the week, in
\* the first second of a day as well, where the loops of get_year and
\* get_month end one month too early and make it the 32nd of a month.
WeekdayRight == date.year <= LastYear => Weekday(now) = date.weekday

\* Except in that second the date is right.
DateRight ==
    date.year <= LastYear /\ now[2] > 0 =>
        /\ get_year(now) = date.year
        /\ get_month(now) = date.month
        /\ DayOfMonth(now) = date.day

\* WallClock: the schedule of the right day of the week is looked up, always,
\* and the date is right, but for the first second of a day.
CalendarRight == part = "calendar" => WeekdayRight /\ DateRight

\* Jsmn and SchedulePage: tokens nest as the brackets of the text do and have
\* their sizes, so that the page reads back what it posted, only that changes,
\* and what fits into a day is not refused.
ScheduleRight ==
    /\ part = "text" => J!NestingRight /\ J!SizesRight
    /\ part = "page" => P!ReadsBackPosted /\ P!FullDayFits
=============================================================================
