--------------------------- MODULE Heating_proofs ---------------------------
(***************************************************************************)
(* Proofs about the thermostat: its calendar (WallClock), for every second *)
(* up to the day that the code takes for a leap day and is none, and its   *)
(* switching (Thermostat), for any settings, schedules and readings that   *)
(* the code foresees (Foreseen).                                           *)
(***************************************************************************)
EXTENDS MCHeating, WellFoundedInduction, FiniteSetTheorems, SequenceTheorems, TLAPS
-----------------------------------------------------------------------------
\* Counting up from zero reaches every number.
LEMMA Counting ==
    ASSUME NEW G \in SUBSET Nat, 0 \in G, \A n \in G : n + 1 \in G
    PROVE  \A n \in Nat : n \in G
<1> SUFFICES ASSUME Nat \ G # {} PROVE FALSE
  OBVIOUS
<1> DEFINE R == OpToRel(<, Nat)
<1>1. IsWellFoundedOn(R, Nat)
  BY NatLessThanWellFounded
<1>2. \A k \in Nat, l \in Nat : <<k, l>> \in R <=> k < l
  BY DEF OpToRel
<1> HIDE DEF R
<1>3. Nat \ G \subseteq Nat
  OBVIOUS
<1>4. PICK x \in Nat \ G : \A y \in Nat \ G : ~(<<y, x>> \in R)
  BY <1>1, <1>3, WFMin, Zenon
<1>5. x \in Nat /\ x # 0 /\ x - 1 \in Nat /\ x - 1 < x
  OBVIOUS
<1>6. <<x - 1, x>> \in R
  BY <1>2, <1>5
<1>7. x - 1 \in G
  BY <1>4, <1>5, <1>6
<1>8. QED
  BY <1>5, <1>7
-----------------------------------------------------------------------------
\* The tables that the loops of get_year and get_month run through.

\* The years of the table.
Starts == 1970..2107

\* How many leap years there are among the first n.
LEMMA LeapsCounted ==
    \A n \in Nat : IsFiniteSet(LeapYears(1970 + n)) /\ Cardinality(LeapYears(1970 + n)) = (n + 1) \div 4
<1> DEFINE G == {n \in Nat : IsFiniteSet(LeapYears(1970 + n)) /\ Cardinality(LeapYears(1970 + n)) = (n + 1) \div 4}
<1>1. 0 \in G
  <2>1. LeapYears(1970 + 0) = {}
    BY DEF LeapYears
  <2>2. QED
    BY <2>1, FS_EmptySet
<1>2. ASSUME NEW n \in G PROVE n + 1 \in G
  <2>0. n \in Nat /\ IsFiniteSet(LeapYears(1970 + n)) /\ Cardinality(LeapYears(1970 + n)) = (n + 1) \div 4
    OBVIOUS
  <2>1. CASE IS_LEAP(1970 + n)
    <3>1. PICK z : z = 1970 + n
      OBVIOUS
    <3>2. LeapYears(1970 + n + 1) = LeapYears(1970 + n) \union {z} /\ z \notin LeapYears(1970 + n)
      BY <2>0, <2>1, <3>1 DEF LeapYears
    <3>3. IsFiniteSet(LeapYears(1970 + n + 1)) /\ Cardinality(LeapYears(1970 + n + 1)) = Cardinality(LeapYears(1970 + n)) + 1
      BY <2>0, <3>2, FS_AddElement
    <3>4. (n + 2) \div 4 = (n + 1) \div 4 + 1
      BY <2>0, <2>1 DEF IS_LEAP
    <3>5. QED
      BY <2>0, <3>3, <3>4
  <2>2. CASE ~IS_LEAP(1970 + n)
    <3>1. LeapYears(1970 + n + 1) = LeapYears(1970 + n)
      BY <2>0, <2>2 DEF LeapYears
    <3>2. (n + 2) \div 4 = (n + 1) \div 4
      BY <2>0, <2>2 DEF IS_LEAP
    <3>3. QED
      BY <2>0, <3>1, <3>2
  <2>3. QED
    BY <2>1, <2>2
<1>3. \A n \in Nat : n \in G
  <2>1. G \in SUBSET Nat
    OBVIOUS
  <2> HIDE DEF G
  <2>2. QED
    BY <1>1, <1>2, <2>1, Counting, Zenon
<1>4. QED
  BY <1>3

\* The days before a year.
LEMMA YearStartIs ==
    ASSUME NEW y \in Starts
    PROVE  YearStart[y] = 365 * (y - 1970) + (y - 1969) \div 4
<1>1. y - 1970 \in Nat /\ (y - 1970) + 1 = y - 1969 /\ 1970 + (y - 1970) = y
  BY DEF Starts
<1>2. Cardinality(LeapYears(y)) = (y - 1969) \div 4
  BY <1>1, LeapsCounted
<1>3. QED
  BY <1>2 DEF YearStart, Starts

\* The days before a month: the sums of the months before it.
Sums == <<0, 31, 59, 90, 120, 151, 181, 212, 243, 273, 304, 334, 365>>
SumsOf(leap) == [m \in 1..13 |-> Sums[m] + IF leap /\ m > 2 THEN 1 ELSE 0]

LEMMA MonthStartIs ==
    ASSUME NEW leap \in BOOLEAN
    PROVE  \A m \in 1..13 : MonthStart[leap][m] = SumsOf(leap)[m]
<1> DEFINE cal == IF leap THEN calendar_leap ELSE calendar
           From(g) == [m \in 1..13 |-> IF m = 1 THEN 0 ELSE g[m - 1] + cal[m - 1]]
           h == CHOOSE g : g = From(g)
<1>1. MonthStart[leap] = h
  BY DEF MonthStart
<1>2. SumsOf(leap) = From(SumsOf(leap))
  <2> SUFFICES ASSUME NEW m \in 1..13 PROVE SumsOf(leap)[m] = From(SumsOf(leap))[m]
    BY DEF SumsOf
  <2>1. m \in {1, 2, 3, 4, 5, 6, 7, 8, 9, 10, 11, 12, 13}
    OBVIOUS
  <2>2. QED
    BY <2>1 DEF SumsOf, Sums, calendar, calendar_leap
<1>3. h = From(h)
  BY <1>2
<1> HIDE DEF h
<1>4. \A m \in 1..13 : h[m] = IF m = 1 THEN 0 ELSE h[m - 1] + cal[m - 1]
  BY <1>3
<1>5. /\ h[1] = 0 /\ h[2] = h[1] + cal[1] /\ h[3] = h[2] + cal[2] /\ h[4] = h[3] + cal[3]
      /\ h[5] = h[4] + cal[4] /\ h[6] = h[5] + cal[5] /\ h[7] = h[6] + cal[6]
      /\ h[8] = h[7] + cal[7] /\ h[9] = h[8] + cal[8] /\ h[10] = h[9] + cal[9]
      /\ h[11] = h[10] + cal[10] /\ h[12] = h[11] + cal[11] /\ h[13] = h[12] + cal[12]
  BY <1>4
<1>6. /\ cal[1] = 31 /\ cal[2] = (IF leap THEN 29 ELSE 28) /\ cal[3] = 31 /\ cal[4] = 30
      /\ cal[5] = 31 /\ cal[6] = 30 /\ cal[7] = 31 /\ cal[8] = 31 /\ cal[9] = 30
      /\ cal[10] = 31 /\ cal[11] = 30 /\ cal[12] = 31
  BY DEF calendar, calendar_leap
<1> HIDE DEF cal
<1>7. \A m \in 1..13 : h[m] = SumsOf(leap)[m]
  BY <1>5, <1>6 DEF SumsOf, Sums
<1>8. QED
  BY <1>1, <1>7
-----------------------------------------------------------------------------
\* The moments whose year is in the table.
Moments == {d \in Nat : d <= 50038} \X {s \in Nat : s < SecondsPerDay}

\* A moment does not exceed a later day, and exceeds each before one it exceeds.
LEMMA YearChosen ==
    ASSUME NEW t \in Moments
    PROVE  /\ get_year(t) \in Years
           /\ ~Exceeds(t, YearStart[get_year(t) + 1])
           /\ get_year(t) > 1970 => Exceeds(t, YearStart[get_year(t)])
<1> DEFINE Fits(y) == ~Exceeds(t, YearStart[y + 1]) /\ (y > 1970 => Exceeds(t, YearStart[y]))
<1>1. ASSUME \A y \in Years : ~Fits(y) PROVE FALSE
  <2> DEFINE G == {n \in Nat : n <= 136 => Exceeds(t, YearStart[1970 + n + 1])}
  <2>1. 0 \in G
    <3>1. 1970 \in Years /\ 1970 + 0 + 1 = 1970 + 1 /\ ~(1970 > 1970)
      BY DEF Years
    <3>2. ~Fits(1970)
      BY <1>1, <3>1
    <3>3. QED
      BY <3>1, <3>2
  <2>2. ASSUME NEW n \in G PROVE n + 1 \in G
    <3> SUFFICES ASSUME n + 1 <= 136 PROVE Exceeds(t, YearStart[1970 + (n + 1) + 1])
      OBVIOUS
    <3>1. PICK y : y = 1970 + n + 1
      OBVIOUS
    <3>2. y \in Years /\ y > 1970 /\ y + 1 = 1970 + (n + 1) + 1 /\ Exceeds(t, YearStart[y])
      BY <3>1 DEF Years
    <3>3. ~Fits(y)
      BY <1>1, <3>2
    <3>4. QED
      BY <3>2, <3>3
  <2>3. \A n \in Nat : n \in G
    <3>1. G \in SUBSET Nat
      OBVIOUS
    <3>2. \A n \in G : n + 1 \in G
      BY <2>2
    <3> HIDE DEF G
    <3>3. QED
      BY <2>1, <3>1, <3>2, Counting, Zenon
  <2>4. Exceeds(t, YearStart[2107])
    <3>1. 136 \in G
      BY <2>3
    <3>2. QED
      BY <3>1
  <2>5. YearStart[2107] = 50039
    <3>1. 2107 \in Starts
      BY DEF Starts
    <3>2. QED
      BY <3>1, YearStartIs
  <2>6. t[1] \in Nat /\ t[1] <= 50038
    BY DEF Moments
  <2>7. QED
    BY <2>4, <2>5, <2>6 DEF Exceeds
<1>2. PICK y \in Years : Fits(y)
  BY <1>1
<1>3. get_year(t) = CHOOSE z \in Years : Fits(z)
  BY DEF get_year
<1> HIDE DEF Fits
<1>4. get_year(t) \in Years /\ Fits(get_year(t))
  BY <1>2, <1>3
<1>5. QED
  BY <1>4 DEF Fits

\* What is left of the year: not more than a year has, nor nothing, but on the
\* first day of all.
LEMMA RestOfYear ==
    ASSUME NEW t \in Moments
    PROVE  LET y == get_year(t) r == OfYear(t) IN
           /\ y \in Years /\ y \in Starts /\ y + 1 \in Starts
           /\ t[1] = 365 * (y - 1970) + (y - 1969) \div 4 + r[1]
           /\ r[2] = t[2] /\ r[1] \in Nat
           /\ ~Exceeds(r, IF IS_LEAP(y) THEN 366 ELSE 365)
           /\ y > 1970 => Exceeds(r, 0)
<1> DEFINE y == get_year(t)
<1>1. y \in Years /\ ~Exceeds(t, YearStart[y + 1]) /\ (y > 1970 => Exceeds(t, YearStart[y]))
  BY YearChosen
<1> HIDE DEF y
<1>2. y \in Starts /\ y + 1 \in Starts
  BY <1>1 DEF Years, Starts
<1>3. YearStart[y] = 365 * (y - 1970) + (y - 1969) \div 4
  BY <1>2, YearStartIs
<1>4. YearStart[y + 1] = 365 * (y - 1969) + (y - 1968) \div 4
  BY <1>2, YearStartIs DEF Starts
<1>5. t[1] \in Nat /\ t[2] \in Nat
  BY DEF Moments
<1>6. OfYear(t) = <<t[1] - YearStart[y], t[2]>>
  BY DEF OfYear, y
<1>7. (y - 1968) \div 4 = (y - 1969) \div 4 + IF IS_LEAP(y) THEN 1 ELSE 0
  BY <1>2 DEF Starts, IS_LEAP
<1>8. y = 1970 => YearStart[y] = 0
  BY <1>3
<1>9. y \in Nat /\ y >= 1970
  BY <1>2 DEF Starts
<1>10. PICK a \in Nat : a = YearStart[y]
  BY <1>3, <1>9
<1>11. PICK b \in Nat : b = YearStart[y + 1]
  BY <1>4, <1>9
<1>12. b = a + IF IS_LEAP(y) THEN 366 ELSE 365
  BY <1>3, <1>4, <1>7, <1>9, <1>10, <1>11
<1>13. OfYear(t)[1] = t[1] - a /\ OfYear(t)[2] = t[2]
  BY <1>6, <1>10
<1>14. /\ OfYear(t)[1] \in Nat
       /\ ~Exceeds(OfYear(t), IF IS_LEAP(y) THEN 366 ELSE 365)
       /\ y > 1970 => Exceeds(OfYear(t), 0)
  BY <1>1, <1>5, <1>8, <1>9, <1>10, <1>11, <1>12, <1>13 DEF Exceeds
<1>15. t[1] = 365 * (y - 1970) + (y - 1969) \div 4 + OfYear(t)[1]
  BY <1>3, <1>5, <1>9, <1>10, <1>13
<1>16. QED
  BY <1>1, <1>2, <1>13, <1>14, <1>15 DEF y

LEMMA MonthChosen ==
    ASSUME NEW t \in Moments
    PROVE  LET m == get_month(t) leap == IS_LEAP(get_year(t)) r == OfYear(t) IN
           /\ m \in 1..12
           /\ ~Exceeds(r, SumsOf(leap)[m + 1])
           /\ m > 1 => Exceeds(r, SumsOf(leap)[m])
<1> DEFINE leap == IS_LEAP(get_year(t))
           r == OfYear(t)
           start == MonthStart[leap]
           Fits(m) == ~Exceeds(r, start[m + 1]) /\ (m > 1 => Exceeds(r, start[m]))
<1>1. leap \in BOOLEAN
  BY DEF IS_LEAP
<1>2. \A m \in 1..13 : start[m] = SumsOf(leap)[m]
  BY <1>1, MonthStartIs
<1>3. get_month(t) = CHOOSE m \in 1..12 : Fits(m)
  BY DEF get_month
<1>4. r[1] \in Nat /\ ~Exceeds(r, IF leap THEN 366 ELSE 365)
  BY RestOfYear
<1> HIDE DEF leap, r, start
<1>5. start[13] = IF leap THEN 366 ELSE 365
  BY <1>2 DEF SumsOf, Sums
<1>6. \E m \in 1..12 : Fits(m)
  <2>1. ~Exceeds(r, start[13])
    BY <1>4, <1>5
  <2>2. SUFFICES ASSUME \A m \in 1..12 : ~Fits(m) PROVE Exceeds(r, start[13])
    BY <2>1
  <2>3. Exceeds(r, start[2])
    BY <2>2
  <2>4. \A m \in 2..12 : Exceeds(r, start[m]) => Exceeds(r, start[m + 1])
    BY <2>2
  <2>5. /\ Exceeds(r, start[3]) /\ Exceeds(r, start[4]) /\ Exceeds(r, start[5])
        /\ Exceeds(r, start[6]) /\ Exceeds(r, start[7]) /\ Exceeds(r, start[8])
        /\ Exceeds(r, start[9]) /\ Exceeds(r, start[10]) /\ Exceeds(r, start[11])
        /\ Exceeds(r, start[12]) /\ Exceeds(r, start[13])
    BY <2>3, <2>4
  <2>6. QED
    BY <2>5
<1> HIDE DEF Fits
<1>7. get_month(t) \in 1..12 /\ Fits(get_month(t))
  BY <1>3, <1>6
<1>8. QED
  BY <1>2, <1>7 DEF Fits, leap, r

\* The days before a date.
DaysBefore(y, m, day) ==
    365 * (y - 1970) + (y - 1969) \div 4 + SumsOf(IS_LEAP(y))[m] + day - 1

LEMMA MomentIs ==
    ASSUME NEW t \in Moments
    PROVE  t[1] = DaysBefore(get_year(t), get_month(t), DayOfMonth(t))
<1>1. PICK y : y = get_year(t)
  OBVIOUS
<1>2. PICK m : m = get_month(t)
  OBVIOUS
<1>3. PICK r : r = OfYear(t)[1]
  OBVIOUS
<1>4. /\ y \in Starts /\ r \in Nat
      /\ t[1] = 365 * (y - 1970) + (y - 1969) \div 4 + r
  BY <1>1, <1>3, RestOfYear
<1>5. m \in 1..12
  BY <1>2, MonthChosen
<1>6. IS_LEAP(y) \in BOOLEAN
  BY DEF IS_LEAP
<1>7. DayOfMonth(t) = 1 + r - MonthStart[IS_LEAP(y)][m]
  BY <1>1, <1>2, <1>3 DEF DayOfMonth
<1>8. MonthStart[IS_LEAP(y)][m] = SumsOf(IS_LEAP(y))[m]
  BY <1>5, <1>6, MonthStartIs
<1>9. SumsOf(IS_LEAP(y))[m] \in Nat
  BY <1>5 DEF SumsOf, Sums
<1>10. PICK k \in Nat : k = SumsOf(IS_LEAP(y))[m]
  BY <1>9
<1>11. DayOfMonth(t) = 1 + r - k
  BY <1>7, <1>8, <1>10
<1>12. y \in Nat
  BY <1>4 DEF Starts
<1>13. DaysBefore(y, m, DayOfMonth(t)) = 365 * (y - 1970) + (y - 1969) \div 4 + k + DayOfMonth(t) - 1
  BY <1>10 DEF DaysBefore
<1>14. QED
  BY <1>1, <1>2, <1>4, <1>11, <1>12, <1>13

\* wd is the weekday of every date up to February 2100, also of the 32nd of a
\* month: its months have the days of the calendar.
LEMMA WdRight ==
    ASSUME NEW y \in Starts, y <= 2100, NEW m \in 1..12, y = 2100 => m <= 2, NEW day \in Int
    PROVE  wd(y, m, day) = (DaysBefore(y, m, day) + 3) % 7
<1>1. PICK leap \in {0, 1} : leap = IF IS_LEAP(y) THEN 1 ELSE 0
  OBVIOUS
<1>2. PICK a : a = (14 - m) \div 12
  OBVIOUS
<1>3. a = IF m <= 2 THEN 1 ELSE 0
  BY <1>2
<1>4. PICK z : z = y + 4800 - a
  OBVIOUS
<1>5. y \in Nat /\ y >= 1970 /\ z \in Nat /\ z >= 6769 /\ z <= 6899
  BY <1>3, <1>4 DEF Starts
<1>6. z \div 100 - z \div 400 = 51
  BY <1>5
<1>7. z \div 4 = (y - 1969) \div 4 + 1692 + IF m <= 2 THEN 0 ELSE leap
  BY <1>1, <1>3, <1>4, <1>5 DEF IS_LEAP
<1>8. PICK mp : mp = (153 * (m + 12 * a - 3) + 2) \div 5
  OBVIOUS
<1>9. wd(y, m, day) = (day + mp + 365 * z + z \div 4 - z \div 100 + z \div 400 - 32045) % 7
  BY <1>2, <1>4, <1>8 DEF wd
<1>10. PICK k \in Nat : k = SumsOf(IS_LEAP(y))[m]
  BY DEF SumsOf, Sums
<1>11. mp = IF m <= 2 THEN k + 306 ELSE k - leap - 59
  BY <1>1, <1>3, <1>8, <1>10 DEF SumsOf, Sums
<1>12. PICK q \in Int : q = (y - 1969) \div 4
  BY <1>5
<1>13. DaysBefore(y, m, day) = 365 * (y - 1970) + q + k + day - 1
  BY <1>10, <1>12 DEF DaysBefore
<1>14. PICK n \in Int : n = DaysBefore(y, m, day) + 3
  BY <1>5, <1>13
<1>15. day + mp + 365 * z + z \div 4 - z \div 100 + z \div 400 - 32045 = n + 7 * 348655
  BY <1>1, <1>3, <1>4, <1>5, <1>6, <1>7, <1>11, <1>12, <1>13, <1>14
<1>16. (n + 7 * 348655) % 7 = n % 7
  BY <1>14
<1>17. QED
  BY <1>9, <1>14, <1>15, <1>16

LEMMA DayTyped ==
    ASSUME NEW t \in Moments
    PROVE  DayOfMonth(t) \in Int
<1>1. PICK leap : leap = IS_LEAP(get_year(t))
  OBVIOUS
<1>2. PICK m \in 1..12 : m = get_month(t)
  BY MonthChosen
<1>3. leap \in BOOLEAN
  BY <1>1 DEF IS_LEAP
<1>4. MonthStart[leap][m] \in Nat
  <2>1. MonthStart[leap][m] = SumsOf(leap)[m]
    BY <1>3, MonthStartIs
  <2>2. SumsOf(leap)[m] \in Nat
    BY DEF SumsOf, Sums
  <2>3. QED
    BY <2>1, <2>2
<1>5. OfYear(t)[1] \in Nat
  BY RestOfYear
<1>6. QED
  BY <1>1, <1>2, <1>4, <1>5 DEF DayOfMonth

\* The weekday of every moment up to the day that is no leap day.
LEMMA WeekdayIsRight ==
    ASSUME NEW t \in Moments, t[1] <= 47541
    PROVE  Weekday(t) = (t[1] + 3) % 7
<1>1. PICK y : y = get_year(t)
  OBVIOUS
<1>2. PICK m : m = get_month(t)
  OBVIOUS
<1>3. /\ y \in Starts /\ OfYear(t)[1] \in Nat
      /\ t[1] = 365 * (y - 1970) + (y - 1969) \div 4 + OfYear(t)[1]
      /\ y > 1970 => Exceeds(OfYear(t), 0)
  BY <1>1, RestOfYear
<1>4. m \in 1..12 /\ (m > 1 => Exceeds(OfYear(t), SumsOf(IS_LEAP(y))[m]))
  BY <1>1, <1>2, MonthChosen
<1>5. y \in Nat /\ y <= 2100
  BY <1>3 DEF Starts
<1>6. ASSUME y = 2100, m > 2 PROVE FALSE
  <2>1. IS_LEAP(y) /\ SumsOf(IS_LEAP(y))[m] >= 60
    BY <1>4, <1>6 DEF IS_LEAP, SumsOf, Sums
  <2>2. OfYear(t)[1] <= 59
    BY <1>3, <1>6
  <2>3. SumsOf(IS_LEAP(y))[m] \in Nat
    BY <1>4 DEF SumsOf, Sums
  <2>4. QED
    BY <1>3, <1>4, <1>6, <2>1, <2>2, <2>3 DEF Exceeds
<1>7. t[1] = DaysBefore(y, m, DayOfMonth(t))
  BY <1>1, <1>2, MomentIs
<1>8. DayOfMonth(t) \in Int
  BY DayTyped
<1>9. wd(y, m, DayOfMonth(t)) = (DaysBefore(y, m, DayOfMonth(t)) + 3) % 7
  BY <1>3, <1>4, <1>5, <1>6, <1>8, WdRight
<1>10. QED
  BY <1>1, <1>2, <1>7, <1>9 DEF Weekday
-----------------------------------------------------------------------------
\* After the first second of a day the loops find the year and the month of a
\* date, and its day.
LEMMA MonthLengths ==
    ASSUME NEW leap \in BOOLEAN, NEW m \in 1..12
    PROVE  /\ SumsOf(leap)[m] \in Nat /\ SumsOf(leap)[m + 1] \in Nat
           /\ SumsOf(leap)[m] < SumsOf(leap)[m + 1]
           /\ SumsOf(leap)[m + 1] <= IF leap THEN 366 ELSE 365
           /\ m = 1 => SumsOf(leap)[m] = 0
           /\ \A k \in 1..12 : k < m => SumsOf(leap)[k + 1] <= SumsOf(leap)[m]
  BY DEF SumsOf, Sums

LEMMA DateFound ==
    ASSUME NEW y \in Years, NEW m \in 1..12, NEW day \in Nat, day >= 1,
           day <= SumsOf(IS_LEAP(y))[m + 1] - SumsOf(IS_LEAP(y))[m],
           NEW t \in Moments, t[1] = DaysBefore(y, m, day), t[2] > 0
    PROVE  get_year(t) = y /\ get_month(t) = m /\ DayOfMonth(t) = day
<1>1. PICK g : g = get_year(t)
  OBVIOUS
<1>2. PICK n : n = get_month(t)
  OBVIOUS
<1>3. IS_LEAP(y) \in BOOLEAN /\ IS_LEAP(g) \in BOOLEAN
  BY DEF IS_LEAP
<1>4. y \in Nat /\ y >= 1970 /\ y <= 2106
  BY DEF Years
<1>5. PICK k \in Nat : k = SumsOf(IS_LEAP(y))[m]
  BY <1>3, MonthLengths
<1>6. PICK l \in Nat : l = SumsOf(IS_LEAP(y))[m + 1]
  BY <1>3, MonthLengths
<1>7. k < l /\ l <= (IF IS_LEAP(y) THEN 366 ELSE 365) /\ day <= l - k
  BY <1>3, <1>5, <1>6, MonthLengths
<1>8. t[1] = 365 * (y - 1970) + (y - 1969) \div 4 + k + day - 1
  BY <1>5 DEF DaysBefore
<1>9. /\ g \in Starts /\ OfYear(t)[1] \in Nat /\ OfYear(t)[2] = t[2]
      /\ t[1] = 365 * (g - 1970) + (g - 1969) \div 4 + OfYear(t)[1]
      /\ ~Exceeds(OfYear(t), IF IS_LEAP(g) THEN 366 ELSE 365)
  BY <1>1, RestOfYear
<1>10. g \in Nat /\ g >= 1970 /\ t[2] \in Nat /\ t[1] \in Nat
  BY <1>9 DEF Starts, Moments
<1>11. PICK r \in Nat : r = OfYear(t)[1]
  BY <1>9
<1>12. r < IF IS_LEAP(g) THEN 366 ELSE 365
  BY <1>9, <1>10, <1>11 DEF Exceeds
<1>13. (g - 1968) \div 4 = (g - 1969) \div 4 + IF IS_LEAP(g) THEN 1 ELSE 0
  BY <1>10 DEF IS_LEAP
<1>14. (y - 1968) \div 4 = (y - 1969) \div 4 + IF IS_LEAP(y) THEN 1 ELSE 0
  BY <1>4 DEF IS_LEAP
<1>15. t[1] < 365 * (g - 1969) + (g - 1968) \div 4
  BY <1>9, <1>10, <1>11, <1>12, <1>13
<1>16. t[1] < 365 * (y - 1969) + (y - 1968) \div 4
  BY <1>4, <1>7, <1>8, <1>14
<1>17. ~(g < y)
  BY <1>4, <1>8, <1>10, <1>15
<1>18. ~(y < g)
  BY <1>4, <1>9, <1>10, <1>16
<1>19. g = y
  BY <1>4, <1>10, <1>17, <1>18
<1>20. r = k + day - 1
  BY <1>4, <1>8, <1>9, <1>11, <1>19
<1>21. /\ n \in 1..12
       /\ ~Exceeds(OfYear(t), SumsOf(IS_LEAP(y))[n + 1])
       /\ n > 1 => Exceeds(OfYear(t), SumsOf(IS_LEAP(y))[n])
  BY <1>1, <1>2, <1>19, MonthChosen
<1>22. PICK e \in Nat : e = SumsOf(IS_LEAP(y))[n]
  BY <1>3, <1>21, MonthLengths
<1>23. PICK f \in Nat : f = SumsOf(IS_LEAP(y))[n + 1]
  BY <1>3, <1>21, MonthLengths
<1>24. r < f /\ e <= r
  <2>1. r < f
    BY <1>9, <1>10, <1>11, <1>21, <1>23 DEF Exceeds
  <2>2. n > 1 => e <= r
    BY <1>9, <1>10, <1>11, <1>21, <1>22 DEF Exceeds
  <2>3. n = 1 => e = 0
    BY <1>3, <1>21, <1>22, MonthLengths
  <2>4. QED
    BY <1>21, <2>1, <2>2, <2>3
<1>25. ~(n < m)
  <2>1. n < m => f <= k
    BY <1>3, <1>5, <1>21, <1>23, MonthLengths
  <2>2. QED
    BY <1>20, <1>24, <2>1
<1>26. ~(m < n)
  <2>1. m < n => l <= e
    BY <1>3, <1>6, <1>21, <1>22, MonthLengths
  <2>2. QED
    BY <1>7, <1>20, <1>24, <2>1
<1>27. n = m
  BY <1>21, <1>25, <1>26
<1>28. MonthStart[IS_LEAP(y)][m] = k
  BY <1>3, <1>5, MonthStartIs
<1>29. DayOfMonth(t) = day
  BY <1>1, <1>2, <1>11, <1>19, <1>20, <1>27, <1>28 DEF DayOfMonth
<1>30. QED
  BY <1>1, <1>2, <1>19, <1>27, <1>29

\* The calendar beside the clock: the clock shows its date.
CalendarInv ==
    part = "calendar" =>
        /\ date \in [year : Nat, month : 1..12, day : Nat, weekday : Int]
        /\ date.year >= 2015 /\ date.year <= LastYear + 1
        /\ date.day >= 1 /\ date.day <= LastDay(date.year, date.month)
        /\ now \in Nat \X {s \in Nat : s < SecondsPerDay}
        /\ now[1] = DaysBefore(date.year, date.month, date.day)
        /\ date.weekday = (now[1] + 3) % 7

LEMMA LastDays ==
    ASSUME NEW y \in Nat, y >= 2015, y <= LastYear + 1, NEW m \in 1..12
    PROVE  /\ LastDay(y, m) = SumsOf(IS_LEAP(y))[m + 1] - SumsOf(IS_LEAP(y))[m]
           /\ LastDay(y, m) \in 28..31
<1>1. Leap(y) <=> IS_LEAP(y)
  BY DEF Leap, IS_LEAP, LastYear
<1>2. m \in {1, 2, 3, 4, 5, 6, 7, 8, 9, 10, 11, 12}
  OBVIOUS
<1>3. QED
  BY <1>1, <1>2 DEF LastDay, SumsOf, Sums

LEMMA CalendarStep == CalendarInv /\ part = "calendar" /\ CalendarNext /\ part' = part => CalendarInv'
<1> SUFFICES ASSUME CalendarInv, part = "calendar", CalendarNext, part' = part PROVE CalendarInv'
  OBVIOUS
<1>1. PICK y \in Nat : y = date.year
  BY DEF CalendarInv
<1>2. PICK m \in 1..12 : m = date.month
  BY DEF CalendarInv
<1>3. PICK day \in Nat : day = date.day
  BY DEF CalendarInv
<1>4. PICK w : w = date.weekday
  OBVIOUS
<1>5. date = [year |-> y, month |-> m, day |-> day, weekday |-> w]
  BY <1>1, <1>2, <1>3, <1>4 DEF CalendarInv
<1>6. /\ y >= 2015 /\ y <= LastYear + 1 /\ day >= 1 /\ day <= LastDay(y, m)
      /\ now \in Nat \X {s \in Nat : s < SecondsPerDay}
      /\ now[1] = DaysBefore(y, m, day) /\ w = (now[1] + 3) % 7
  BY <1>1, <1>2, <1>3, <1>4 DEF CalendarInv
<1>7. CASE LaterToday
  <2>1. now' \in Nat \X {s \in Nat : s < SecondsPerDay} /\ now'[1] = now[1]
    BY <1>6, <1>7 DEF LaterToday, Samples, SecondsPerDay
  <2>2. date' = date
    BY <1>7 DEF LaterToday
  <2>3. QED
    BY <2>1, <2>2 DEF CalendarInv
<1>8. CASE Midnight
  <2>1. now' = <<now[1] + 1, 0>> /\ now[1] \in Nat /\ y <= LastYear
    BY <1>1, <1>6, <1>8 DEF Midnight
  <2>2. now' \in Nat \X {s \in Nat : s < SecondsPerDay} /\ now'[1] = now[1] + 1
    BY <2>1 DEF SecondsPerDay
  <2>3. PICK v : v = (w + 1) % 7
    OBVIOUS
  <2> DEFINE next == [date EXCEPT !.weekday = (@ + 1) % 7]
  <2>31. next = [year |-> y, month |-> m, day |-> day, weekday |-> v]
    BY <1>5, <2>3
  <2>32. date' = IF date.day < LastDay(date.year, date.month) THEN [next EXCEPT !.day = @ + 1]
                 ELSE IF date.month = 12 THEN [next EXCEPT !.day = 1, !.month = 1, !.year = @ + 1]
                 ELSE [next EXCEPT !.day = 1, !.month = @ + 1]
    BY <1>8 DEF Midnight
  <2> HIDE DEF next
  <2>4. v \in Int /\ v = (now'[1] + 3) % 7
    BY <1>6, <2>1, <2>2, <2>3
  <2>5. PICK k \in Nat : k = SumsOf(IS_LEAP(y))[m]
    BY MonthLengths DEF IS_LEAP
  <2>6. now[1] = 365 * (y - 1970) + (y - 1969) \div 4 + k + day - 1
    BY <1>6, <2>5 DEF DaysBefore
  <2>7. CASE day < LastDay(y, m)
    <3>1. date' = [year |-> y, month |-> m, day |-> day + 1, weekday |-> v]
      <4>1. date.day < LastDay(date.year, date.month)
        BY <1>1, <1>2, <1>3, <2>7, Zenon
      <4>2. date' = [next EXCEPT !.day = @ + 1]
        BY <2>32, <4>1
      <4>3. QED
        BY <2>31, <4>2
    <3>2. DaysBefore(y, m, day + 1) = now[1] + 1
      BY <1>6, <2>5, <2>6 DEF DaysBefore
    <3>3. day + 1 <= LastDay(y, m)
      BY <1>6, <2>7, LastDays
    <3>4. QED
      BY <1>6, <2>2, <2>4, <3>1, <3>2, <3>3 DEF CalendarInv
  <2>8. CASE day >= LastDay(y, m) /\ m = 12
    <3>1. date' = [year |-> y + 1, month |-> 1, day |-> 1, weekday |-> v]
      <4>1. ~(date.day < LastDay(date.year, date.month)) /\ date.month = 12
        BY <1>1, <1>2, <1>3, <1>6, <2>8, LastDays
      <4>2. date' = [next EXCEPT !.day = 1, !.month = 1, !.year = @ + 1]
        BY <2>32, <4>1
      <4>3. QED
        BY <2>31, <4>2
    <3>2. day = 31 /\ k = 334 + IF IS_LEAP(y) THEN 1 ELSE 0
      BY <1>6, <2>5, <2>8, LastDays DEF LastDay, SumsOf, Sums
    <3>3. (y - 1968) \div 4 = (y - 1969) \div 4 + IF IS_LEAP(y) THEN 1 ELSE 0
      BY <1>6 DEF IS_LEAP
    <3>4. DaysBefore(y + 1, 1, 1) = 365 * (y - 1969) + (y - 1968) \div 4
      BY DEF DaysBefore, SumsOf, Sums
    <3>5. DaysBefore(y + 1, 1, 1) = now[1] + 1
      BY <1>6, <2>6, <3>2, <3>3, <3>4
    <3>6. LastDay(y + 1, 1) >= 1
      BY DEF LastDay
    <3>7. QED
      BY <1>6, <2>1, <2>2, <2>4, <3>1, <3>5, <3>6 DEF CalendarInv, LastYear
  <2>9. CASE day >= LastDay(y, m) /\ m # 12
    <3>1. date' = [year |-> y, month |-> m + 1, day |-> 1, weekday |-> v]
      <4>1. ~(date.day < LastDay(date.year, date.month)) /\ date.month # 12
        BY <1>1, <1>2, <1>3, <1>6, <2>9, LastDays
      <4>2. date' = [next EXCEPT !.day = 1, !.month = @ + 1]
        BY <2>32, <4>1
      <4>3. QED
        BY <2>31, <4>2
    <3>2. day = LastDay(y, m) /\ m + 1 \in 1..12
      BY <1>6, <2>9, LastDays
    <3>3. DaysBefore(y, m + 1, 1) = now[1] + 1
      <4>1. LastDay(y, m) = SumsOf(IS_LEAP(y))[m + 1] - k
        BY <1>6, <2>5, LastDays
      <4>2. SumsOf(IS_LEAP(y))[m + 1] \in Nat
        BY MonthLengths DEF IS_LEAP
      <4>3. PICK l \in Nat : l = SumsOf(IS_LEAP(y))[m + 1]
        BY <4>2
      <4>4. DaysBefore(y, m + 1, 1) = 365 * (y - 1970) + (y - 1969) \div 4 + l + 1 - 1
        BY <4>3 DEF DaysBefore
      <4>5. QED
        BY <1>6, <2>6, <3>2, <4>1, <4>3, <4>4
    <3>4. LastDay(y, m + 1) >= 1
      BY <1>6, <3>2, LastDays
    <3>5. QED
      BY <1>6, <2>1, <2>2, <2>4, <3>1, <3>2, <3>3, <3>4 DEF CalendarInv
  <2>10. QED
    BY <1>6, <2>7, <2>8, <2>9, LastDays
<1>9. CASE Again
  <2>1. DaysBefore(2015, 1, 1) = 16436
    BY DEF DaysBefore, SumsOf, Sums
  <2>2. QED
    BY <1>9, <2>1 DEF Again, CalendarInv, LastYear, LastDay, SecondsPerDay
<1>10. QED
  BY <1>7, <1>8, <1>9 DEF CalendarNext

LEMMA CalendarFirst == CalendarInit => CalendarInv
<1>1. DaysBefore(2015, 1, 1) = 16436
  BY DEF DaysBefore, SumsOf, Sums
<1>2. QED
  BY <1>1 DEF CalendarInit, CalendarInv, LastYear, LastDay, SecondsPerDay

LEMMA CalendarShown == CalendarInv => CalendarRight
<1> SUFFICES ASSUME CalendarInv, part = "calendar", date.year <= LastYear
             PROVE  Weekday(now) = date.weekday /\ DateRight
  BY DEF CalendarRight, WeekdayRight, DateRight
<1>1. PICK y \in Nat : y = date.year
  BY DEF CalendarInv
<1>2. PICK m \in 1..12 : m = date.month
  BY DEF CalendarInv
<1>3. PICK day \in Nat : day = date.day
  BY DEF CalendarInv
<1>4. /\ y >= 2015 /\ y <= LastYear /\ day >= 1 /\ day <= LastDay(y, m)
      /\ now \in Nat \X {s \in Nat : s < SecondsPerDay}
      /\ now[1] = DaysBefore(y, m, day) /\ date.weekday = (now[1] + 3) % 7
  BY <1>1, <1>2, <1>3 DEF CalendarInv
<1>5. PICK k \in Nat : k = SumsOf(IS_LEAP(y))[m] /\ k <= 366
  <2>0. IS_LEAP(y) \in BOOLEAN
    BY DEF IS_LEAP
  <2>1. SumsOf(IS_LEAP(y))[m] \in Nat /\ SumsOf(IS_LEAP(y))[m] <= 366
    BY <2>0, MonthLengths
  <2>2. QED
    BY <2>1
<1>6. now[1] \in Nat /\ now[1] <= 40000
  <2>1. now[1] = 365 * (y - 1970) + (y - 1969) \div 4 + k + day - 1
    BY <1>4, <1>5 DEF DaysBefore
  <2>2. day <= 31
    BY <1>4, LastDays DEF LastYear
  <2>3. QED
    BY <1>4, <2>1, <1>5, <2>2 DEF LastYear
<1>7. now \in Moments
  BY <1>4, <1>6 DEF Moments
<1>8. Weekday(now) = (now[1] + 3) % 7
  BY <1>6, <1>7, WeekdayIsRight
<1>9. ASSUME now[2] > 0 PROVE get_year(now) = y /\ get_month(now) = m /\ DayOfMonth(now) = day
  <2>1. y \in Years
    BY <1>4 DEF Years, LastYear
  <2>2. day <= SumsOf(IS_LEAP(y))[m + 1] - SumsOf(IS_LEAP(y))[m]
    BY <1>4, LastDays DEF LastYear
  <2>3. QED
    BY <1>4, <1>7, <1>9, <2>1, <2>2, DateFound
<1>10. QED
  BY <1>1, <1>2, <1>3, <1>4, <1>8, <1>9 DEF DateRight

\* get_year, get_month and wd agree with the Gregorian calendar, day by day:
\* the schedule of the right day is looked up at any second of it.
THEOREM CalendarIsRight == MCSpec => []CalendarRight
<1>1. MCInit => CalendarInv
  BY CalendarFirst DEF MCInit, CalendarInv
<1>2. ASSUME CalendarInv, [MCNext]_<<part, vars, calendarVars, pageVars>> PROVE CalendarInv'
  <2>1. CASE part = "calendar" /\ CalendarNext /\ part' = part
    BY <1>2, <2>1, CalendarStep
  <2>2. CASE UNCHANGED <<part, calendarVars>>
    BY <1>2, <2>2 DEF CalendarInv, calendarVars
  <2>3. QED
    BY <1>2, <2>1, <2>2 DEF MCNext, Loop, calendarVars
<1>3. QED
  BY <1>1, <1>2, CalendarShown, PTL DEF MCSpec
-----------------------------------------------------------------------------
\* A set of numbers that is not empty has a least one, and a finite one a
\* greatest.
LEMMA Least ==
    ASSUME NEW S \in SUBSET Nat, S # {}
    PROVE  Min(S) \in S /\ \A y \in S : Min(S) <= y
<1>1. ASSUME \A x \in S : \E y \in S : y < x PROVE FALSE
  <2> DEFINE G == {n \in Nat : \A x \in S : n <= x}
  <2>1. 0 \in G
    OBVIOUS
  <2>2. ASSUME NEW n \in G PROVE n + 1 \in G
    BY <1>1
  <2> HIDE DEF G
  <2>3. \A n \in Nat : n \in G
    <3>1. G \in SUBSET Nat
      BY DEF G
    <3>2. QED
      BY <2>1, <2>2, <3>1, Counting, Zenon
  <2>4. PICK x \in S : TRUE
    OBVIOUS
  <2>5. x + 1 <= x
    BY <2>3 DEF G
  <2>6. QED
    BY <2>5
<1>2. PICK x \in S : \A y \in S : x <= y
  BY <1>1
<1>3. QED
  BY <1>2 DEF Min

LEMMA Greatest ==
    ASSUME NEW k \in Nat, NEW S \in SUBSET (1..(k + 1)), S # {}
    PROVE  /\ Max(S) \in S /\ \A y \in S : y <= Max(S)
           /\ S \ {Max(S)} \in SUBSET (1..k)
<1> DEFINE n == k + 1
           Rests == {n - x : x \in S}
<1>1. Rests \in SUBSET Nat /\ Rests # {}
  <2>1. \A x \in S : n - x \in Nat
    OBVIOUS
  <2> HIDE DEF n
  <2>2. QED
    BY <2>1
<1>2. PICK j \in Rests : \A l \in Rests : j <= l
  BY <1>1, Least
<1>3. PICK x \in S : j = n - x
  OBVIOUS
<1>4. \A y \in S : y <= x
  <2> TAKE y \in S
  <2>1. n - y \in Rests
    OBVIOUS
  <2>2. j <= n - y
    BY <1>2, <2>1
  <2>3. QED
    BY <1>3, <2>2
<1>5. \E z \in S : \A y \in S : z >= y
  BY <1>4
<1>6. Max(S) \in S /\ \A y \in S : Max(S) >= y
  BY <1>5 DEF Max
<1>7. PICK z : z = Max(S)
  OBVIOUS
<1>8. z \in S /\ \A y \in S : y <= z
  BY <1>6, <1>7
<1>9. S \ {z} \in SUBSET (1..k)
  BY <1>8
<1>10. QED
  BY <1>7, <1>8, <1>9

\* The level of a relay.
Levels == {0, 1}

LEMMA ThermostatLevel ==
    ASSUME NEW level \in Levels, NEW setpoint
    PROVE  thermostat(level, reading, setpoint) \in Levels
<1>1. CASE IsLess(reading, setpoint)
  <2>1. ~IsMore(reading, setpoint)
    BY <1>1 DEF IsMore
  <2>2. QED
    BY <1>1, <2>1 DEF thermostat, Levels
<1>2. CASE ~IsLess(reading, setpoint) /\ IsMore(reading, setpoint)
  BY <1>2 DEF thermostat, Levels
<1>3. CASE ~IsLess(reading, setpoint) /\ ~IsMore(reading, setpoint)
  BY <1>3 DEF thermostat
<1>4. QED
  BY <1>1, <1>2, <1>3

LEMMA LevelsStay == \A level \in Levels : \A slot : AfterSlot(level, slot) \in Levels
  BY ThermostatLevel DEF AfterSlot

\* The loop over the slots takes them first to last.
LEMMA SlotsFolded ==
    ASSUME NEW base \in Levels, NEW T, NEW q \in Seq(T)
    PROVE  \E p \in [0..Len(q) -> Levels] :
               /\ p[0] = base
               /\ \A k \in 1..Len(q) : p[k] = AfterSlot(p[k - 1], q[k])
               /\ FoldLeft(AfterSlot, base, q) = p[Len(q)]
<1> DEFINE n == Len(q)
           F(g, s) == IF s = {} THEN base
                      ELSE AfterSlot(g[s \ {Max(s)}], q[Max(s)])
           Upto(k, g) == /\ g \in [SUBSET (1..k) -> Levels]
                         /\ \A s \in SUBSET (1..k) : g[s] = F(g, s)
           G == {k \in Nat : k <= n => \E g : Upto(k, g)}
<1>0. n \in Nat /\ DOMAIN q = 1..n /\ \A i \in 1..n : q[i] \in T
  BY LenProperties, ElementOfSeq
<1>1. 0 \in G
  <2>1. Upto(0, [s \in SUBSET (1..0) |-> base])
    OBVIOUS
  <2>2. QED
    BY <2>1
<1>2. ASSUME NEW k \in G PROVE k + 1 \in G
  <2> HIDE DEF Upto
  <2> SUFFICES ASSUME k + 1 <= n PROVE \E g : Upto(k + 1, g)
    OBVIOUS
  <2>0. k \in Nat /\ k + 1 <= n
    OBVIOUS
  <2>1. k \in Nat /\ \E g : Upto(k, g)
    BY <1>0
  <2> HIDE DEF G
  <2> USE DEF Upto
  <2>2. PICK g : Upto(k, g)
    BY <2>1
  <2>3. PICK w : w = [s \in SUBSET (1..(k + 1)) |-> F(g, s)]
    OBVIOUS
  <2>4. ASSUME NEW s \in SUBSET (1..(k + 1)) PROVE F(g, s) \in Levels
    <3>1. CASE s = {}
      BY <3>1
    <3>2. CASE s # {}
      <4>1. Max(s) \in s /\ s \ {Max(s)} \in SUBSET (1..k)
        BY <2>1, <3>2, Greatest
      <4>2. q[Max(s)] \in T
        <5>1. \A i \in 1..(k + 1) : i \in 1..n
          BY <1>0, <2>0
        <5>2. QED
          BY <1>0, <4>1, <5>1, Zenon
      <4>3. g[s \ {Max(s)}] \in Levels
        BY <2>2, <4>1
      <4>4. F(g, s) = AfterSlot(g[s \ {Max(s)}], q[Max(s)])
        BY <3>2
      <4>5. QED
        BY <4>2, <4>3, <4>4, LevelsStay, Zenon
    <3>3. QED
      BY <3>1, <3>2
  <2>5. w \in [SUBSET (1..(k + 1)) -> Levels]
    BY <2>3, <2>4, Zenon
  <2>6. ASSUME NEW s \in SUBSET (1..k) PROVE w[s] = g[s]
    <3>1. s \in SUBSET (1..(k + 1))
      BY <2>1
    <3>2. w[s] = F(g, s)
      BY <2>3, <3>1, Zenon
    <3>3. QED
      BY <2>2, <3>2, Zenon
  <2>7. ASSUME NEW s \in SUBSET (1..(k + 1)) PROVE w[s] = F(w, s)
    <3>1. w[s] = F(g, s)
      BY <2>3, Zenon
    <3>2. CASE s = {}
      BY <3>1, <3>2, Zenon
    <3>3. CASE s # {}
      <4>1. s \ {Max(s)} \in SUBSET (1..k)
        BY <2>1, <3>3, Greatest
      <4>2. w[s \ {Max(s)}] = g[s \ {Max(s)}]
        BY <2>6, <4>1, Zenon
      <4>3. QED
        BY <3>1, <4>2, Zenon
    <3>4. QED
      BY <3>2, <3>3
  <2>8. QED
    BY <2>5, <2>7, Zenon
<1>3. \E g : Upto(n, g)
  <2>1. G \in SUBSET Nat
    OBVIOUS
  <2> HIDE DEF G
  <2>2. n \in G
    BY <1>0, <1>1, <1>2, <2>1, Counting, Zenon
  <2>3. n <= n
    BY <1>0
  <2> HIDE DEF Upto, n
  <2>4. QED
    BY <2>2, <2>3, Zenon DEF G
<1>4. \E g : g = [s \in SUBSET (1..n) |-> F(g, s)]
  <2>1. PICK g : Upto(n, g)
    BY <1>3
  <2>2. g = [s \in SUBSET (1..n) |-> F(g, s)]
    BY <2>1, Zenon
  <2>3. QED
    BY <2>2
<1>5. PICK h : h = CHOOSE g : g = [s \in SUBSET (1..n) |-> F(g, s)]
  OBVIOUS
<1>6. h = [s \in SUBSET (1..n) |-> F(h, s)]
  BY <1>4, <1>5, Zenon
<1>7. FoldLeft(AfterSlot, base, q) = h[1..n]
  BY <1>0, <1>5, Zenon DEF FoldLeft, MapThenFoldSet
<1> DEFINE Typed(k) == \A s \in SUBSET (1..k) : h[s] \in Levels
           H == {k \in Nat : k <= n => Typed(k)}
<1>8. 0 \in H
  <2>1. \A s \in SUBSET (1..0) : s = {} /\ s \in SUBSET (1..n)
    OBVIOUS
  <2>2. h[{}] = base
    BY <1>6, Zenon
  <2>3. QED
    BY <2>1, <2>2
<1>9. ASSUME NEW k \in H PROVE k + 1 \in H
  <2> HIDE DEF Typed
  <2>0. k \in Nat /\ (k <= n => Typed(k))
    OBVIOUS
  <2> SUFFICES ASSUME k + 1 <= n PROVE Typed(k + 1)
    OBVIOUS
  <2> HIDE DEF H
  <2> USE DEF Typed
  <2> SUFFICES ASSUME NEW s \in SUBSET (1..(k + 1)) PROVE h[s] \in Levels
    OBVIOUS
  <2>1. k \in Nat /\ s \in SUBSET (1..n) /\ Typed(k)
    BY <1>0, <2>0
  <2>2. h[s] = F(h, s)
    BY <1>6, <2>1, Zenon
  <2>3. CASE s = {}
    BY <2>2, <2>3
  <2>4. CASE s # {}
    <3>1. Max(s) \in s /\ s \ {Max(s)} \in SUBSET (1..k)
      BY <2>1, <2>4, Greatest
    <3>2. q[Max(s)] \in T
      <4>1. Max(s) \in 1..n
        BY <1>0, <2>1, <3>1
      <4>2. QED
        BY <1>0, <4>1, Zenon
    <3>3. h[s \ {Max(s)}] \in Levels
      BY <1>0, <2>1, <3>1
    <3>4. h[s] = AfterSlot(h[s \ {Max(s)}], q[Max(s)])
      BY <2>2, <2>4, Zenon
    <3>5. QED
      BY <3>2, <3>3, <3>4, LevelsStay, Zenon
  <2>5. QED
    BY <2>3, <2>4
<1>10. \A s \in SUBSET (1..n) : h[s] \in Levels
  <2>1. H \in SUBSET Nat
    OBVIOUS
  <2> HIDE DEF H
  <2>2. n \in H
    BY <1>0, <1>8, <1>9, <2>1, Counting, Zenon
  <2>3. QED
    BY <1>0, <2>2 DEF H
<1> HIDE DEF n
<1>11. PICK p : p = [k \in 0..n |-> h[1..k]]
  OBVIOUS
<1>12. \A k \in 0..n : 1..k \in SUBSET (1..n) /\ p[k] = h[1..k]
  BY <1>0, <1>11
<1>13. p \in [0..n -> Levels]
  <2>1. \A k \in 0..n : h[1..k] \in Levels
    BY <1>10, <1>12
  <2>2. QED
    BY <1>11, <2>1, Zenon
<1>14. p[0] = base
  <2>1. 1..0 = {} /\ 0 \in 0..n
    BY <1>0
  <2>2. h[{}] = F(h, {})
    BY <1>6, <1>12, <2>1, Zenon
  <2>3. QED
    BY <1>12, <2>1, <2>2
<1>15. ASSUME NEW k \in 1..n PROVE p[k] = AfterSlot(p[k - 1], q[k])
  <2>1. k \in 0..n /\ k - 1 \in 0..n /\ 1..k # {} /\ k - 1 \in Nat
    <3>1. k \in 1..k
      <4>1. k \in Int /\ 1 <= k
        BY <1>0
      <4>2. QED
        BY <4>1
    <3>2. k \in 0..n /\ k - 1 \in 0..n /\ k - 1 \in Nat
      BY <1>0
    <3>3. QED
      BY <3>1, <3>2, Zenon
  <2>2. PICK z : z = Max(1..k)
    OBVIOUS
  <2>3. z = k
    <3>1. (k - 1) + 1 = k /\ 1..k \in SUBSET (1..k)
      BY <1>0
    <3>2. z \in 1..k /\ \A y \in 1..k : y <= z
      BY <2>1, <2>2, <3>1, Greatest
    <3>3. QED
      BY <3>2
  <2>4. (1..k) \ {k} = 1..(k - 1)
    BY <1>0
  <2>5. h[1..k] = F(h, 1..k)
    BY <1>6, <1>12, <2>1, Zenon
  <2>6. F(h, 1..k) = AfterSlot(h[(1..k) \ {k}], q[k])
    BY <2>1, <2>2, <2>3, Zenon
  <2>7. QED
    BY <1>12, <2>1, <2>4, <2>5, <2>6, Zenon
<1>16. p[n] = h[1..n]
  BY <1>0, <1>12
<1>17. QED
  BY <1>7, <1>13, <1>14, <1>15, <1>16, Zenon DEF n

\* A reading that is compared, and not below zero.
Measured == reading \in Nat /\ reading <= 12000

\* A comparison is one of temperatures, if nothing wraps.
LEMMA Compared ==
    ASSUME sysCfg \in Configs, NEW setpoint, ThresholdsFit(setpoint, sysCfg),
           Measured
    PROVE  /\ IsLess(reading, setpoint) <=> reading < setpoint - sysCfg.hysteresislow
           /\ IsMore(reading, setpoint) => reading > setpoint + sysCfg.hysteresishigh
           /\ reading > setpoint + sysCfg.hysteresishigh =>
                 IsMore(reading, setpoint)
<1>1. Modulus \in Nat /\ Modulus > 12000 /\ reading \in Nat /\ reading <= 12000
  BY ThermostatAssumption DEF Measured
<1>2. PICK low \in Nat : low = sysCfg.hysteresislow
  BY SettingsAssumption
<1>3. PICK high \in Nat : high = sysCfg.hysteresishigh
  BY SettingsAssumption
<1>4. setpoint \in Nat /\ setpoint >= low /\ setpoint + high < Modulus
  BY <1>2, <1>3 DEF ThresholdsFit
<1>5. \A n \in Nat : n < Modulus => n % Modulus = n
  BY <1>1
<1>6. Unsigned(reading) = reading
  BY <1>1, <1>5 DEF Unsigned
<1>7. Unsigned(setpoint - low) = setpoint - low
  BY <1>1, <1>2, <1>3, <1>4, <1>5 DEF Unsigned
<1>8. Unsigned(setpoint + high) = setpoint + high
  BY <1>3, <1>4, <1>5 DEF Unsigned
<1>9. IsLess(reading, setpoint) <=> reading < setpoint - low
  BY <1>2, <1>6, <1>7 DEF IsLess
<1>10. IsMore(reading, setpoint) <=>
          ~IsLess(reading, setpoint) /\ reading > setpoint + high
  BY <1>3, <1>6, <1>8 DEF IsMore
<1>11. QED
  BY <1>1, <1>2, <1>3, <1>4, <1>9, <1>10

\* The reason to switch to a level.
Reason(level, setpoint) ==
    IF (level = 1) = (sysCfg.opmode = HEATING)
    THEN reading < setpoint - sysCfg.hysteresislow
    ELSE reading > setpoint + sysCfg.hysteresishigh

LEMMA ThermostatReason ==
    ASSUME sysCfg \in Configs, NEW setpoint, ThresholdsFit(setpoint, sysCfg),
           Measured, NEW level,
           thermostat(level, reading, setpoint) # level
    PROVE  Reason(thermostat(level, reading, setpoint), setpoint)
<1>1. CASE IsLess(reading, setpoint)
  <2>1. ~IsMore(reading, setpoint)
    BY <1>1 DEF IsMore
  <2>2. thermostat(level, reading, setpoint) = IF sysCfg.opmode = HEATING THEN 1 ELSE 0
    BY <1>1, <2>1 DEF thermostat
  <2>3. reading < setpoint - sysCfg.hysteresislow
    BY <1>1, Compared
  <2>4. QED
    BY <2>2, <2>3 DEF Reason
<1>2. CASE ~IsLess(reading, setpoint) /\ IsMore(reading, setpoint)
  <2>1. thermostat(level, reading, setpoint) = IF sysCfg.opmode = HEATING THEN 0 ELSE 1
    BY <1>2 DEF thermostat
  <2>2. reading > setpoint + sysCfg.hysteresishigh
    BY <1>2, Compared
  <2>3. QED
    BY <2>1, <2>2 DEF Reason
<1>3. CASE ~IsLess(reading, setpoint) /\ ~IsMore(reading, setpoint)
  BY <1>3 DEF thermostat
<1>4. QED
  BY <1>1, <1>2, <1>3

\* Local time, once the clock is set.
LEMMA LocalDay ==
    ASSUME Foreseen, NEW t \in Times, NEW tz \in Timezones
    PROVE  LocalTime(t, tz) \in Moments /\ LocalTime(t, tz)[1] <= 47541
<1>1. t[1] \in Nat /\ t[1] >= 1 /\ t[1] <= 47540
  BY DEF Foreseen
<1>2. t[2] \in Nat /\ t[2] < 86400
  BY DEF Foreseen, SecondsPerDay
<1>3. tz \in Int /\ tz >= -23 /\ tz <= 23
  BY DEF Foreseen
<1>4. PICK s \in Int : s = t[2] + tz * 3600
  BY <1>2, <1>3
<1>5. s >= -82800 /\ s < 169200
  BY <1>2, <1>3, <1>4
<1>6. s \div 86400 \in {-1, 0, 1} /\ s % 86400 \in Nat /\ s % 86400 < 86400
  BY <1>5
<1>7. t[1] + s \div 86400 \in Nat /\ t[1] + s \div 86400 <= 47541
  BY <1>1, <1>6
<1>8. LocalTime(t, tz) = <<t[1] + s \div 86400, s % 86400>>
  BY <1>4, <1>7 DEF LocalTime, SecondsPerDay
<1>9. QED
  BY <1>6, <1>7, <1>8 DEF Moments, SecondsPerDay

\* Local time before that: before 1970 the number of seconds wraps.
LEMMA LocalUnset ==
    ASSUME Foreseen, NEW tz \in Timezones
    PROVE  LocalTime(<<0, 0>>, tz) \in Moments
<1>1. tz \in Int /\ tz >= -23 /\ tz <= 23
  BY DEF Foreseen
<1>2. PICK s \in Int : s = tz * 3600
  BY <1>1
<1>3. s >= -82800 /\ s <= 82800
  BY <1>1, <1>2
<1>4. PICK rest \in Nat : rest = s % 86400 /\ rest < 86400
  <2>1. s % 86400 \in Nat /\ s % 86400 < 86400
    OBVIOUS
  <2>2. QED
    BY <2>1
<1>5. PICK d : d = s \div 86400
  OBVIOUS
<1>6. d = 0 \/ d = -1
  BY <1>3, <1>5
<1>7. LocalTime(<<0, 0>>, tz) =
        IF d >= 0 THEN <<d, rest>>
        ELSE <<d + 49710 + (rest + 23296) \div 86400, (rest + 23296) % 86400>>
  BY <1>2, <1>4, <1>5, <1>6 DEF LocalTime, SecondsPerDay, WrapDays, WrapSeconds
<1>8. /\ (rest + 23296) \div 86400 \in {0, 1}
      /\ (rest + 23296) % 86400 \in Nat /\ (rest + 23296) % 86400 < 86400
  BY <1>4
<1>9. CASE d = 0
  <2>1. LocalTime(<<0, 0>>, tz) = <<0, rest>>
    BY <1>7, <1>9
  <2>2. QED
    BY <1>4, <2>1 DEF Moments, SecondsPerDay
<1>10. CASE d = -1
  <2>1. d + 49710 + (rest + 23296) \div 86400 \in Nat /\ d + 49710 + (rest + 23296) \div 86400 <= 50038
    BY <1>8, <1>10
  <2>2. LocalTime(<<0, 0>>, tz) = <<d + 49710 + (rest + 23296) \div 86400, (rest + 23296) % 86400>>
    BY <1>7, <1>10
  <2>3. QED
    BY <1>8, <2>1, <2>2 DEF Moments, SecondsPerDay
<1>11. QED
  BY <1>6, <1>9, <1>10

LEMMA WeekdayTyped ==
    ASSUME NEW t \in Moments
    PROVE  Weekday(t) \in 0..6
<1>1. get_year(t) \in Nat /\ get_month(t) \in 1..12
  BY RestOfYear, MonthChosen DEF Years
<1>2. DayOfMonth(t) \in Int
  BY DayTyped
<1>3. QED
  BY <1>1, <1>2 DEF Weekday, wd

\* A slot that applies is in force: hundredths of an hour are 36 seconds.
LEMMA InForce ==
    ASSUME NEW start \in Nat, NEW end \in Nat, end % 5 = 0, NEW s \in Nat, NEW d,
           CurrTime(<<d, s>>) >= start, CurrTime(<<d, s>>) < end
    PROVE  s >= start * 36 /\ s < end * 36
<1>1. PICK hour \in Nat : hour = s \div 3600
  OBVIOUS
<1>2. PICK min \in Nat : min = (s % 3600) \div 60
  OBVIOUS
<1>3. PICK part60 \in Nat : part60 = s - 3600 * hour - 60 * min
  BY <1>1, <1>2
<1>4. part60 < 60 /\ s = 3600 * hour + 60 * min + part60
  BY <1>1, <1>2, <1>3
<1>5. PICK c \in Nat : c = (min * 100) \div 60
  BY <1>2
<1>6. CurrTime(<<d, s>>) = hour * 100 + c
  BY <1>1, <1>2, <1>5 DEF CurrTime
<1>7. PICK third \in Nat : third = min \div 3
  BY <1>2
<1>8. 60 * c <= 100 * min /\ 5 * third <= c /\ min < 3 * third + 3
  BY <1>2, <1>5, <1>7
<1>9. hour * 100 + c >= start /\ hour * 100 + c < end
  BY <1>6
<1>10. PICK e \in Nat : end = 5 * e
  <2>1. PICK e : e = end \div 5
    OBVIOUS
  <2>2. e \in Nat /\ end = 5 * e
    BY <2>1
  <2>3. QED
    BY <2>2
<1>11. 20 * hour + third < e
  BY <1>8, <1>9, <1>10
<1>12. s >= start * 36
  BY <1>4, <1>8, <1>9
<1>13. s < end * 36
  BY <1>4, <1>8, <1>10, <1>11
<1>14. QED
  BY <1>12, <1>13

\* The slots that the loop visits are active.
LEMMA VisitedFacts ==
    ASSUME NEW T, NEW slots \in Seq(T)
    PROVE  /\ Visited(slots) \in Seq(T)
           /\ Len(Visited(slots)) <= Len(slots)
           /\ \A i \in 1..Len(Visited(slots)) :
                 Visited(slots)[i] = slots[i] /\ slots[i] \in T /\ slots[i].active = 1
<1> DEFINE S == {i \in DOMAIN slots : slots[i].active # 1} \union {Len(slots) + 1}
<1>0. Len(slots) \in Nat /\ DOMAIN slots = 1..Len(slots) /\ \A i \in 1..Len(slots) : slots[i] \in T
  BY LenProperties, ElementOfSeq
<1>1. S \in SUBSET Nat /\ S # {} /\ Len(slots) + 1 \in S
  BY <1>0
<1>2. PICK z : z = Min(S)
  OBVIOUS
<1>3. z \in S /\ \A j \in S : z <= j
  <2> HIDE DEF S
  <2>1. QED
    BY <1>1, <1>2, Least
<1>4. z \in Nat /\ z >= 1 /\ z <= Len(slots) + 1
  BY <1>0, <1>3
<1>5. \A i \in 1 .. z - 1 : i \in 1..Len(slots) /\ slots[i].active = 1
  BY <1>0, <1>3, <1>4
<1> HIDE DEF S
<1>6. PICK n \in Nat : n = z - 1 /\ n <= Len(slots)
  BY <1>4
<1>7. \A i \in 1..n : i \in 1..Len(slots) /\ slots[i] \in T /\ slots[i].active = 1
  BY <1>0, <1>5, <1>6
<1>8. Visited(slots) = SubSeq(slots, 1, n)
  BY <1>2, <1>6 DEF Visited, S
<1>9. /\ SubSeq(slots, 1, n) \in Seq(T)
      /\ Len(SubSeq(slots, 1, n)) = n
      /\ \A i \in 1..n : SubSeq(slots, 1, n)[i] = slots[i]
  <2>1. \A i \in 1..n : slots[i] \in T
    BY <1>7
  <2>2. /\ SubSeq(slots, 1, n) \in Seq(T)
        /\ Len(SubSeq(slots, 1, n)) = IF 1 <= n THEN n - 1 + 1 ELSE 0
        /\ \A i \in 1..n - 1 + 1 : SubSeq(slots, 1, n)[i] = slots[1 + i - 1]
    BY <2>1, <1>6, SubSeqProperties
  <2>3. (IF 1 <= n THEN n - 1 + 1 ELSE 0) = n /\ n - 1 + 1 = n /\ \A i \in 1..n : 1 + i - 1 = i
    BY <1>6
  <2>4. QED
    BY <2>2, <2>3
<1>10. QED
  BY <1>6, <1>7, <1>8, <1>9

\* If the loop changes the level, one of the slots that apply is the reason.
LEMMA LoopReason ==
    ASSUME sysCfg \in Configs, Measured,
           currGPIO12State \in Levels, NEW q \in Seq(Slots(sysCfg)),
           \A i \in 1..Len(q) : q[i].active = 1,
           FoldLeft(AfterSlot, currGPIO12State, q) # currGPIO12State
    PROVE  \E i \in 1..Len(q) :
              /\ Applies(q[i])
              /\ Reason(FoldLeft(AfterSlot, currGPIO12State, q), q[i].setpoint)
<1>0. Len(q) \in Nat /\ \A i \in 1..Len(q) : q[i] \in Slots(sysCfg)
  BY LenProperties, ElementOfSeq
<1>1. PICK p \in [0..Len(q) -> Levels] :
        /\ p[0] = currGPIO12State
        /\ \A k \in 1..Len(q) : p[k] = AfterSlot(p[k - 1], q[k])
        /\ FoldLeft(AfterSlot, currGPIO12State, q) = p[Len(q)]
  BY SlotsFolded, Zenon
<1> DEFINE Found(k) == \E i \in 1..k : Applies(q[i]) /\ Reason(p[k], q[i].setpoint)
           G == {k \in Nat : k <= Len(q) => p[k] = currGPIO12State \/ Found(k)}
<1>2. 0 \in G
  BY <1>1
<1>3. ASSUME NEW k \in G PROVE k + 1 \in G
  <2>1. k \in Nat /\ (k <= Len(q) => p[k] = currGPIO12State \/ Found(k))
    OBVIOUS
  <2> HIDE DEF Found
  <2> SUFFICES ASSUME k + 1 <= Len(q) PROVE p[k + 1] = currGPIO12State \/ Found(k + 1)
    BY <2>1
  <2> HIDE DEF G
  <2>2. PICK n : n = k + 1
    OBVIOUS
  <2>3. n \in 1..Len(q) /\ n - 1 = k /\ k <= Len(q) /\ n \in 1..n
    BY <1>0, <2>1, <2>2
  <2>4. p[n] = AfterSlot(p[k], q[n])
    BY <1>1, <2>3
  <2>5. CASE p[n] = p[k]
    <3>1. ASSUME Found(k) PROVE Found(n)
      <4>1. PICK i \in 1..k : Applies(q[i]) /\ Reason(p[k], q[i].setpoint)
        BY <3>1 DEF Found
      <4>2. i \in 1..n
        BY <2>1, <2>2
      <4>3. QED
        BY <2>5, <4>1, <4>2, Zenon DEF Found
    <3>2. QED
      BY <2>1, <2>2, <2>3, <2>5, <3>1
  <2>6. CASE p[n] # p[k]
    <3>1. Applies(q[n]) /\ p[n] = thermostat(p[k], reading, q[n].setpoint)
      BY <2>4, <2>6 DEF AfterSlot
    <3>2. ThresholdsFit(q[n].setpoint, sysCfg)
      BY <1>0, <2>3 DEF Slots
    <3>3. Reason(p[n], q[n].setpoint)
      <4>1. thermostat(p[k], reading, q[n].setpoint) # p[k]
        BY <2>6, <3>1
      <4>2. QED
        BY <3>1, <3>2, <4>1, ThermostatReason
    <3>4. Found(n)
      BY <2>3, <3>1, <3>3, Zenon DEF Found
    <3>5. QED
      BY <2>2, <3>4
  <2>7. QED
    BY <2>5, <2>6
<1>4. Len(q) \in G
  <2>1. G \in SUBSET Nat
    OBVIOUS
  <2>2. \A k \in G : k + 1 \in G
    BY <1>3
  <2> HIDE DEF G
  <2>3. QED
    BY <1>0, <1>2, <2>1, <2>2, Counting, Zenon
<1>5. Found(Len(q))
  BY <1>0, <1>1, <1>4
<1>6. QED
  BY <1>1, <1>5, Zenon

\* The reading is none of those below zero that are compared as unsigned.
NotCold == reading >= 0 \/ reading < -3000

\* What a poll has to justify.
Justified ==
    /\ currGPIO12State' # currGPIO12State
    /\ sysCfg.mode = "manual" \/ sntp_time # <<0, 0>>
    => /\ sysCfg.state # 0
       /\ \E setpoint \in SetpointsNow : Reason(currGPIO12State', setpoint)

LEMMA PollJustified ==
    ASSUME Foreseen, TypeOK, NotCold, Poll
    PROVE  Justified
<1> SUFFICES ASSUME currGPIO12State' # currGPIO12State,
                    sysCfg.mode = "manual" \/ sntp_time # <<0, 0>>
             PROVE  /\ sysCfg.state # 0
                    /\ \E setpoint \in SetpointsNow : Reason(currGPIO12State', setpoint)
  BY DEF Justified
<1>1. /\ sysCfg.state # 0 /\ reading <= 12000 /\ reading >= -3000
      /\ \/ /\ sysCfg.mode = "manual"
            /\ currGPIO12State' = thermostat(currGPIO12State, reading, sysCfg.manualsetpoint)
         \/ /\ sysCfg.mode # "manual"
            /\ currGPIO12State' = FoldLeft(AfterSlot, currGPIO12State, Visited(Today))
  BY DEF Poll
<1>2. reading \in Int /\ currGPIO12State \in Levels /\ sysCfg \in Configs
      /\ sntp_time \in Times \union {<<0, 0>>} /\ sntp_tz \in Timezones
  BY DEF TypeOK, Levels
<1>3. Measured
  BY <1>1, <1>2 DEF Measured, NotCold
<1>4. CASE sysCfg.mode = "manual"
  <2>1. ThresholdsFit(sysCfg.manualsetpoint, sysCfg)
    BY <1>2 DEF Foreseen
  <2>2. currGPIO12State' = thermostat(currGPIO12State, reading, sysCfg.manualsetpoint)
    BY <1>1, <1>4
  <2>3. Reason(currGPIO12State', sysCfg.manualsetpoint)
    BY <1>2, <1>3, <2>1, <2>2, ThermostatReason
  <2>4. SetpointsNow = {sysCfg.manualsetpoint}
    BY <1>4 DEF SetpointsNow
  <2>5. QED
    BY <1>1, <2>3, <2>4
<1>5. CASE sysCfg.mode # "manual"
  <2>1. sntp_time \in Times
    BY <1>2, <1>5
  <2>2. Local \in Moments /\ Local[1] <= 47541
    BY <1>2, <2>1, LocalDay DEF Local
  <2>3. PICK d : d = Local[1]
    OBVIOUS
  <2>4. PICK s : s = Local[2]
    OBVIOUS
  <2>5. Local = <<d, s>> /\ d \in Nat /\ s \in Nat
    BY <2>2, <2>3, <2>4 DEF Moments
  <2>6. PICK w : w = (d + 3) % 7
    OBVIOUS
  <2>7. Weekday(Local) = w /\ w \in 0..6
    BY <2>2, <2>3, <2>5, <2>6, WeekdayIsRight
  <2>8. PICK slots : slots = sysCfg.schedule[w]
    OBVIOUS
  <2>9. Today = slots /\ slots \in Seq(Slots(sysCfg))
    <3>1. Today = slots
      BY <2>7, <2>8 DEF Today
    <3>2. slots \in Seq(Slots(sysCfg))
      BY <1>2, <2>7, <2>8 DEF Foreseen
    <3>3. QED
      BY <3>1, <3>2
  <2>10. PICK q : q = Visited(slots)
    OBVIOUS
  <2>11. /\ q \in Seq(Slots(sysCfg)) /\ Len(q) <= Len(slots)
         /\ \A i \in 1..Len(q) : q[i] = slots[i] /\ slots[i] \in Slots(sysCfg) /\ slots[i].active = 1
    BY <2>9, <2>10, VisitedFacts
  <2>12. currGPIO12State' = FoldLeft(AfterSlot, currGPIO12State, q)
    BY <1>1, <1>5, <2>9, <2>10
  <2>13. PICK i \in 1..Len(q) : Applies(q[i]) /\ Reason(currGPIO12State', q[i].setpoint)
    <3>1. \A j \in 1..Len(q) : q[j].active = 1
      BY <2>11
    <3>2. FoldLeft(AfterSlot, currGPIO12State, q) # currGPIO12State
      BY <2>12
    <3>3. QED
      BY <1>2, <1>3, <2>11, <2>12, <3>1, <3>2, LoopReason
  <2>14. Len(q) \in Nat /\ Len(slots) \in Nat /\ DOMAIN slots = 1..Len(slots)
    BY <2>9, <2>11, LenProperties
  <2>15. i \in DOMAIN slots /\ \A j \in 1..i : slots[j].active = 1
    BY <2>11, <2>14
  <2>16. /\ slots[i].start \in Nat /\ slots[i].end \in Nat /\ slots[i].end % 5 = 0
         /\ CurrTime(<<d, s>>) >= slots[i].start /\ CurrTime(<<d, s>>) < slots[i].end
    <3>1. slots[i] \in Slots(sysCfg) /\ slots[i].active = 1 /\ Applies(slots[i])
      BY <2>11, <2>13
    <3>2. QED
      BY <2>5, <3>1 DEF Slots, Applies
  <2>17. s >= slots[i].start * 36 /\ s < slots[i].end * 36
    BY <2>5, <2>16, InForce
  <2>18. slots[i].setpoint \in SetpointsNow
    BY <1>5, <2>3, <2>4, <2>6, <2>8, <2>15, <2>17 DEF SetpointsNow
  <2>19. q[i].setpoint = slots[i].setpoint
    BY <2>11
  <2>20. QED
    BY <1>1, <2>13, <2>18, <2>19
<1>6. QED
  BY <1>4, <1>5

LEMMA RoomTyped == TypeOK /\ Room => TypeOK'
<1> SUFFICES ASSUME TypeOK, Room PROVE TypeOK'
  OBVIOUS
<1>1. reading \in Int /\ Step \in Int
  BY ThermostatAssumption DEF TypeOK
<1>2. reading' \in Int
  BY <1>1 DEF Room
<1>3. QED
  BY <1>2, Zenon DEF Room, TypeOK, settings

LEMMA FailedTyped == Failed \in Int
BY DEF Failed

\* What a poll leaves.
LEMMA PollOutcome ==
    ASSUME Poll
    PROVE  /\ \/ currGPIO12State' = currGPIO12State
              \/ currGPIO12State' = thermostat(currGPIO12State, reading, sysCfg.manualsetpoint)
              \/ currGPIO12State' = FoldLeft(AfterSlot, currGPIO12State, Visited(Today))
           /\ polled' = TRUE
           /\ UNCHANGED <<reading, sysCfg, sntp_tz, sntp_time>>
<1>1. polled' = TRUE /\ reading' = reading /\ settings' = settings /\ sntp_time' = sntp_time
  BY SMT DEF Poll
<1>2. \/ currGPIO12State' = currGPIO12State
      \/ currGPIO12State' = thermostat(currGPIO12State, reading, sysCfg.manualsetpoint)
      \/ currGPIO12State' = FoldLeft(AfterSlot, currGPIO12State, Visited(Today))
  BY SMT DEF Poll
<1>3. QED
  BY <1>1, <1>2, Zenon DEF settings

LEMMA PollTyped == ASSUME Foreseen PROVE TypeOK /\ Poll => TypeOK'
<1> SUFFICES ASSUME TypeOK, Poll PROVE TypeOK'
  OBVIOUS
<1>1. /\ currGPIO12State \in Levels /\ sysCfg \in Configs
      /\ sntp_time \in Times \union {<<0, 0>>} /\ sntp_tz \in Timezones
  BY DEF TypeOK, Levels
<1>2. Today \in Seq(Slots(sysCfg))
  <2>1. Local \in Moments
    BY <1>1, LocalDay, LocalUnset DEF Local
  <2>2. Weekday(Local) \in 0..6
    BY <2>1, WeekdayTyped
  <2>3. QED
    BY <1>1, <2>2 DEF Foreseen, Today
<1>3. FoldLeft(AfterSlot, currGPIO12State, Visited(Today)) \in Levels
  <2>1. PICK q : q = Visited(Today)
    OBVIOUS
  <2>2. q \in Seq(Slots(sysCfg)) /\ Len(q) \in Nat
    BY <1>2, <2>1, VisitedFacts, LenProperties
  <2>3. PICK p \in [0..Len(q) -> Levels] : FoldLeft(AfterSlot, currGPIO12State, q) = p[Len(q)]
    BY <1>1, <2>2, SlotsFolded
  <2>4. QED
    BY <2>1, <2>2, <2>3
<1>4. thermostat(currGPIO12State, reading, sysCfg.manualsetpoint) \in Levels
  BY <1>1, ThermostatLevel
<1>5. currGPIO12State' \in Levels
  BY <1>1, <1>3, <1>4, PollOutcome, Zenon
<1>6. polled' \in BOOLEAN
  BY PollOutcome, Zenon
<1>7. QED
  BY <1>5, <1>6, PollOutcome, Zenon DEF TypeOK, Levels

LEMMA NextTyped == ASSUME Foreseen PROVE TypeOK /\ [Next]_vars => TypeOK'
<1> SUFFICES ASSUME TypeOK, [Next]_vars PROVE TypeOK'
  OBVIOUS
<1>1. CASE Poll
  BY <1>1, PollTyped
<1>2. CASE SetClock
  BY <1>2, Zenon DEF SetClock, TypeOK, settings
<1>3. CASE Sense
  <2>1. Readings \subseteq Int
    BY ThermostatAssumption
  <2>2. reading' \in Int
    BY <1>3, <2>1, FailedTyped, Zenon DEF Sense
  <2>3. QED
    BY <1>3, <2>2, Zenon DEF Sense, TypeOK, settings
<1>4. CASE UNCHANGED vars
  BY <1>4, Zenon DEF vars, TypeOK, settings
<1>5. QED
  BY <1>1, <1>2, <1>3, <1>4, Zenon DEF Next

LEMMA NextJustified ==
    ASSUME Foreseen PROVE TypeOK /\ NotCold /\ [Next]_vars => [Justified]_vars
<1> SUFFICES ASSUME TypeOK, NotCold, [Next]_vars PROVE Justified
  OBVIOUS
<1>1. CASE Poll
  BY <1>1, PollJustified, Zenon
<1>2. CASE UNCHANGED currGPIO12State
  BY <1>2, Zenon DEF Justified
<1>3. QED
  BY <1>1, <1>2, Zenon DEF Next, SetClock, Sense, vars

\* The thermostat alone (Thermostat): a relay is switched for a reason, with
\* settings and times that the code foresees and as long as the reading is not
\* one below zero that is compared.
THEOREM SwitchedForReasonHolds ==
    ASSUME Foreseen PROVE Spec /\ []NotCold => SwitchedForReason
<1>1. Init => TypeOK
  <2>1. Readings \subseteq Int
    BY ThermostatAssumption
  <2>2. QED
    BY <2>1, Zenon DEF Init, TypeOK
<1>2. [Justified]_vars <=> [/\ currGPIO12State' # currGPIO12State
                            /\ sysCfg.mode = "manual" \/ sntp_time # <<0, 0>>
                            => /\ sysCfg.state # 0
                               /\ \E setpoint \in SetpointsNow :
                                     IF (currGPIO12State' = 1) = (sysCfg.opmode = HEATING)
                                     THEN reading < setpoint - sysCfg.hysteresislow
                                     ELSE reading > setpoint + sysCfg.hysteresishigh]_vars
  BY Zenon DEF Justified, Reason
<1>3. TypeOK /\ [Next]_vars => TypeOK'
  BY NextTyped
<1>4. TypeOK /\ NotCold /\ [Next]_vars => [Justified]_vars
  BY NextJustified
<1>5. QED
  BY <1>1, <1>2, <1>3, <1>4, PTL DEF Spec, SwitchedForReason
-----------------------------------------------------------------------------
\* The thermostat and its room: once it was polled, the relay heats below the
\* band of the hysteresis and cools above it.
Warming == (currGPIO12State = 1) = (sysCfg.opmode = HEATING)
Below == reading < 2050
Above == reading > 2150
LoopRight ==
    /\ sysCfg \in MCManual
    /\ Measured
    /\ polled => (Below => Warming) /\ (Above => ~Warming)
HeatingInv ==
    /\ NotCold
    /\ part \in {"switching", "loop"} => TypeOK
    /\ part = "loop" => LoopRight

\* InBand, with the setpoint and the hysteresis of the loop.
AroundSetpoint == reading >= 2050 - Step /\ reading <= 2150 + Step

LEMMA ManualFields ==
    ASSUME sysCfg \in MCManual
    PROVE  /\ sysCfg.mode = "manual" /\ sysCfg.state = 1 /\ sysCfg.manualsetpoint = 2100
           /\ sysCfg.hysteresislow = 50 /\ sysCfg.hysteresishigh = 50
BY DEF MCManual, Manual

LEMMA BandIs ==
    ASSUME sysCfg \in MCManual, reading \in Int
    PROVE  InBand <=> AroundSetpoint
<1>1. Step \in Int
  BY ThermostatAssumption
<1>2. sysCfg.manualsetpoint = 2100 /\ sysCfg.hysteresislow = 50 /\ sysCfg.hysteresishigh = 50
  BY ManualFields
<1>3. QED
  BY <1>1, <1>2 DEF InBand, AroundSetpoint

\* A poll of the loop.
LEMMA LoopPolled ==
    ASSUME Foreseen, TypeOK, LoopRight, Poll
    PROVE  LoopRight' /\ reading' = reading /\ sysCfg' = sysCfg
<1>1. /\ sysCfg \in MCManual /\ sysCfg \in Configs /\ Measured
      /\ reading' = reading /\ sysCfg' = sysCfg
  BY PollOutcome, Zenon DEF LoopRight, TypeOK
<1>2. currGPIO12State' = thermostat(currGPIO12State, reading, 2100)
  <2>1. sysCfg.mode = "manual" /\ sysCfg.state = 1 /\ sysCfg.manualsetpoint = 2100
    BY <1>1, ManualFields
  <2>2. ~(reading = Failed \/ reading > 12000 \/ reading < -3000)
    BY <1>1 DEF Measured, Failed
  <2>3. QED
    BY <2>1, <2>2 DEF Poll
<1>3. ThresholdsFit(2100, sysCfg)
  <2>1. ThresholdsFit(sysCfg.manualsetpoint, sysCfg)
    BY <1>1 DEF Foreseen
  <2>2. QED
    BY <1>1, <2>1, ManualFields
<1>4. /\ IsLess(reading, 2100) <=> reading < 2050
      /\ IsMore(reading, 2100) <=> reading > 2150
  <2>1. 2100 - sysCfg.hysteresislow = 2050 /\ 2100 + sysCfg.hysteresishigh = 2150
    BY <1>1, ManualFields
  <2>2. QED
    BY <1>1, <1>3, <2>1, Compared
<1>5. reading \in Int
  BY <1>1 DEF Measured
<1>6. Below' => Warming'
  BY <1>1, <1>2, <1>4, <1>5 DEF Below, Warming, thermostat, IsMore, HEATING
<1>7. Above' => ~Warming'
  <2>1. ASSUME reading > 2150 PROVE ~IsLess(reading, 2100) /\ IsMore(reading, 2100)
    BY <1>4, <1>5, <2>1
  <2>2. QED
    BY <1>1, <1>2, <2>1 DEF Above, Warming, thermostat, HEATING
<1>8. Measured'
  BY <1>1 DEF Measured
<1>9. QED
  BY <1>1, <1>6, <1>7, <1>8, Zenon DEF LoopRight

\* A period of the room.
LEMMA LoopMoved ==
    ASSUME TypeOK, LoopRight, Room
    PROVE  /\ LoopRight'
           /\ AroundSetpoint => AroundSetpoint'
<1>1. /\ polled /\ polled' = FALSE /\ sysCfg' = sysCfg
      /\ reading' = IF Warming THEN reading + Step ELSE reading - Step
  BY Zenon DEF Room, settings, Warming
<1>2. /\ reading \in Nat /\ reading <= 12000
      /\ reading < 2050 => Warming
      /\ reading > 2150 => ~Warming
  BY <1>1 DEF LoopRight, Measured, Below, Above
<1>3. Step \in Nat /\ Step <= 2050 /\ Step > 0
  BY ThermostatAssumption, RoomAssumption
<1>4. reading' \in Nat /\ reading' <= 12000
  <2>1. CASE Warming
    BY <1>1, <1>2, <1>3, <2>1
  <2>2. CASE ~Warming
    BY <1>1, <1>2, <1>3, <2>2
  <2>3. QED
    BY <2>1, <2>2
<1>5. AroundSetpoint => AroundSetpoint'
  <2>1. CASE Warming
    BY <1>1, <1>2, <1>3, <2>1 DEF AroundSetpoint
  <2>2. CASE ~Warming
    BY <1>1, <1>2, <1>3, <2>2 DEF AroundSetpoint
  <2>3. QED
    BY <2>1, <2>2
<1>6. Measured'
  BY <1>4 DEF Measured
<1>7. QED
  BY <1>1, <1>5, <1>6, Zenon DEF LoopRight

\* Which steps the two parts make.
LEMMA PartsMove ==
    ASSUME [MCNext]_<<part, vars, calendarVars, pageVars>>
    PROVE  /\ part' = part
           /\ \/ part = "switching" /\ Next
              \/ part = "loop" /\ (Poll \/ Room)
              \/ UNCHANGED vars
BY Zenon DEF MCNext, Loop

LEMMA HeatingKept ==
    ASSUME HeatingInv, [MCNext]_<<part, vars, calendarVars, pageVars>>,
           Readings \subseteq Nat, Foreseen
    PROVE  HeatingInv'
<1>1. part' = part /\ NotCold
  BY PartsMove, Zenon DEF HeatingInv
<1>2. CASE part = "switching" /\ Next
  <2>1. TypeOK /\ TypeOK'
    BY <1>2, NextTyped, Zenon DEF HeatingInv
  <2>2. NotCold'
    <3>1. CASE reading' = reading
      BY <1>1, <3>1 DEF NotCold
    <3>2. CASE reading' \in Readings
      BY <3>2 DEF NotCold
    <3>3. CASE reading' = Failed
      BY <3>3 DEF NotCold, Failed
    <3>4. Sense => reading' \in Readings \/ reading' = Failed
      BY Zenon DEF Sense
    <3>5. QED
      BY <1>2, <3>1, <3>2, <3>3, <3>4, PollOutcome, Zenon DEF Next, SetClock
  <2>3. QED
    BY <1>1, <1>2, <2>1, <2>2 DEF HeatingInv
<1>3. CASE part = "loop" /\ (Poll \/ Room)
  <2>1. TypeOK /\ LoopRight
    BY <1>3, Zenon DEF HeatingInv
  <2>2. TypeOK' /\ LoopRight'
    BY <1>3, <2>1, PollTyped, RoomTyped, LoopPolled, LoopMoved, Zenon
  <2>3. NotCold'
    BY <2>2 DEF LoopRight, Measured, NotCold
  <2>4. QED
    BY <2>2, <2>3, Zenon DEF HeatingInv
<1>4. CASE UNCHANGED vars
  <2>1. /\ reading' = reading /\ sysCfg' = sysCfg /\ polled' = polled
        /\ currGPIO12State' = currGPIO12State
    BY <1>4, Zenon DEF vars, settings
  <2>2. NotCold'
    BY <1>1, <2>1 DEF NotCold
  <2>3. TypeOK => TypeOK'
    BY <1>4, NextTyped
  <2>4. LoopRight => LoopRight'
    BY <2>1, SMT DEF LoopRight, Measured, Below, Above, Warming
  <2>5. QED
    BY <1>1, <2>2, <2>3, <2>4, Zenon DEF HeatingInv
<1>5. QED
  BY <1>2, <1>3, <1>4, PartsMove, Zenon

LEMMA HeatingStarts ==
    ASSUME MCInit, Readings \subseteq Nat
    PROVE  HeatingInv
<1>1. Init => TypeOK /\ reading \in Nat /\ polled = FALSE
  <2>1. \A n \in Readings : n \in Nat /\ n \in Int
    OBVIOUS
  <2>2. QED
    BY <2>1, Zenon DEF Init, TypeOK
<1>2. reading \in Nat => NotCold
  BY DEF NotCold
<1>3. CASE part = "switching" /\ Init
  BY <1>1, <1>2, <1>3 DEF HeatingInv
<1>4. CASE part = "loop" /\ Init /\ reading \in MCRoom /\ sysCfg \in MCManual
  <2>1. Measured
    BY <1>4 DEF MCRoom, Measured
  <2>2. QED
    BY <1>1, <1>2, <1>4, <2>1 DEF HeatingInv, LoopRight
<1>5. CASE part \notin {"switching", "loop"} /\ NoThermostat
  BY <1>2, <1>5 DEF HeatingInv, NoThermostat
<1>6. \/ part = "switching" /\ Init
      \/ part = "loop" /\ Init /\ reading \in MCRoom /\ sysCfg \in MCManual
      \/ part \in {"calendar", "text", "page"} /\ NoThermostat
  BY Zenon DEF MCInit
<1>7. QED
  BY <1>3, <1>4, <1>5, <1>6

\* What a step of the loop may not do.
InBandStays == part = "loop" /\ InBand => InBand'

LEMMA StepsRight ==
    ASSUME Foreseen, HeatingInv, [MCNext]_<<part, vars, calendarVars, pageVars>>
    PROVE  [Justified]_vars /\ [InBandStays]_vars
<1>1. CASE part = "switching" /\ Next
  BY <1>1, NextJustified, Zenon DEF HeatingInv, InBandStays
<1>2. CASE part = "loop" /\ Poll
  <2>1. TypeOK /\ NotCold /\ LoopRight
    BY <1>2, Zenon DEF HeatingInv
  <2>2. Justified
    BY <1>2, <2>1, PollJustified
  <2>3. InBand => InBand'
    BY <1>2, <2>1, LoopPolled, Zenon DEF InBand
  <2>4. QED
    BY <2>2, <2>3, Zenon DEF InBandStays
<1>3. CASE part = "loop" /\ Room
  <2>1. TypeOK /\ LoopRight /\ reading \in Int /\ sysCfg \in MCManual
    BY <1>3, Zenon DEF HeatingInv, LoopRight, TypeOK
  <2>2. LoopRight' /\ (AroundSetpoint => AroundSetpoint')
    BY <1>3, <2>1, LoopMoved
  <2>3. reading' \in Int /\ sysCfg' \in MCManual
    BY <2>2 DEF LoopRight, Measured
  <2>4. InBand <=> AroundSetpoint
    BY <2>1, BandIs
  <2>5. InBand' <=> AroundSetpoint'
    <3>1. Step \in Int
      BY ThermostatAssumption
    <3>2. /\ sysCfg'.manualsetpoint = 2100
          /\ sysCfg'.hysteresislow = 50 /\ sysCfg'.hysteresishigh = 50
      BY <2>3 DEF MCManual, Manual
    <3>3. QED
      BY <2>3, <3>1, <3>2 DEF InBand, AroundSetpoint
  <2>6. UNCHANGED currGPIO12State
    BY <1>3, Zenon DEF Room
  <2>7. QED
    BY <2>2, <2>4, <2>5, <2>6, Zenon DEF InBandStays, Justified
<1>4. CASE UNCHANGED vars
  BY <1>4
<1>5. QED
  BY <1>1, <1>2, <1>3, <1>4, PartsMove, Zenon

\* A relay is switched for a reason, and the temperature never leaves the
\* band of the hysteresis, with settings and times that the code foresees and
\* for any readings that are not negative.
THEOREM SwitchingIsRight ==
    ASSUME Foreseen, Readings \subseteq Nat PROVE MCSpec => SwitchingRight
<1>1. MCInit => HeatingInv
  BY HeatingStarts
<1>2. HeatingInv /\ [MCNext]_<<part, vars, calendarVars, pageVars>> => HeatingInv'
  BY HeatingKept
<1>3. HeatingInv /\ [MCNext]_<<part, vars, calendarVars, pageVars>>
      => [Justified]_vars /\ [InBandStays]_vars
  BY StepsRight
<1>4. [Justified]_vars <=> [/\ currGPIO12State' # currGPIO12State
                            /\ sysCfg.mode = "manual" \/ sntp_time # <<0, 0>>
                            => /\ sysCfg.state # 0
                               /\ \E setpoint \in SetpointsNow :
                                     IF (currGPIO12State' = 1) = (sysCfg.opmode = HEATING)
                                     THEN reading < setpoint - sysCfg.hysteresislow
                                     ELSE reading > setpoint + sysCfg.hysteresishigh]_vars
  BY Zenon DEF Justified, Reason
<1>5. [InBandStays]_vars <=> [part = "loop" /\ InBand => InBand']_vars
  BY Zenon DEF InBandStays
<1>6. QED
  BY <1>1, <1>2, <1>3, <1>4, <1>5, PTL DEF MCSpec, SwitchingRight, SwitchedForReason
=============================================================================
