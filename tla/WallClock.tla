----------------------------- MODULE WallClock ------------------------------
(***************************************************************************)
(* Local time as the thermostat computes it: user/time_utils.c and wd in   *)
(* user/thermostat.c.  A number of seconds is kept as <<days, seconds of   *)
(* the day>>, so that the 32 bits of the code's unsigned long fit.         *)
(***************************************************************************)
EXTENDS FiniteSets, Integers

SecondsPerDay == 86400

\* 2^32 seconds, where an unsigned long wraps around.
WrapDays == 49710
WrapSeconds == 23296

\* sntp_time + (sntp_tz*3600), converted to unsigned long.
LocalTime(time, tz) ==
    LET s == time[2] + tz * 3600
        d == time[1] + s \div SecondsPerDay
        rest == s % SecondsPerDay
        wrapped == rest + WrapSeconds
    IN IF d >= 0 THEN <<d, rest>>
       ELSE <<d + WrapDays + wrapped \div SecondsPerDay, wrapped % SecondsPerDay>>

\* A faulty rule, which forgets that 2000 was a leap year.
IS_LEAP_Century(year) == year % 4 = 0 /\ year % 100 # 0

IS_LEAP(year) == year % 4 = 0

\* Days before a year and, in a leap year or another, before a month.
Years == 1970..2106
LeapYears(y) == {z \in 1970 .. y - 1 : IS_LEAP(z)}
YearStart == [y \in 1970..2107 |-> 365 * (y - 1970) + Cardinality(LeapYears(y))]
calendar == <<31, 28, 31, 30, 31, 30, 31, 31, 30, 31, 30, 31>>
calendar_leap == [calendar EXCEPT ![2] = 29]
MonthStart == [leap \in BOOLEAN |->
    LET get_calendar == IF leap THEN calendar_leap ELSE calendar
        start[m \in 1..13] == IF m = 1 THEN 0 ELSE start[m - 1] + get_calendar[m - 1]
    IN start]

\* *t > days * 86400: the loops stop when the rest equals a whole year or
\* month, so that midnight still belongs to the day before.
Exceeds(t, days) == t[1] > days \/ (t[1] = days /\ t[2] > 0)

get_year(t) ==
    CHOOSE y \in Years : /\ ~Exceeds(t, YearStart[y + 1])
                         /\ y > 1970 => Exceeds(t, YearStart[y])
OfYear(t) == <<t[1] - YearStart[get_year(t)], t[2]>>
get_month(t) ==
    LET start == MonthStart[IS_LEAP(get_year(t))]
    IN CHOOSE m \in 1..12 : /\ ~Exceeds(OfYear(t), start[m + 1])
                            /\ m > 1 => Exceeds(OfYear(t), start[m])
DayOfMonth(t) == 1 + OfYear(t)[1] - MonthStart[IS_LEAP(get_year(t))][get_month(t)]

\* A faulty weekday, where January and February belong to their own year.
wd_NoShift(year, month, day) ==
    LET y == year + 4800
    IN (day + (153 * (month - 3) + 2) \div 5 + 365 * y
            + y \div 4 - y \div 100 + y \div 400 - 32045) % 7

\* The weekday of a Julian day number, 0 for Monday.
wd(year, month, day) ==
    LET a == (14 - month) \div 12
        y == year + 4800 - a
    IN (day + (153 * (month + 12 * a - 3) + 2) \div 5 + 365 * y
            + y \div 4 - y \div 100 + y \div 400 - 32045) % 7
Weekday(t) == wd(get_year(t), get_month(t), DayOfMonth(t))

\* Hours * 100 and hundredths of an hour.
CurrTime(t) ==
    LET hour == t[2] \div 3600
        min == (t[2] % 3600) \div 60
    IN hour * 100 + (min * 100) \div 60
=============================================================================
