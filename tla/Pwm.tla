-------------------------------- MODULE Pwm ---------------------------------
(***************************************************************************)
(* Pulse-width modulation (user/pwm.c) and the page that sets it           *)
(* (user/cgipwm.c).  pwm_start makes a table of switching points, one of   *)
(* two, while the timer interrupt works through the other; the interrupt   *)
(* changes to the new table at the end of a period.  The interrupt comes   *)
(* at any point of pwm_start.                                              *)
(***************************************************************************)
EXTENDS Integers, Sequences, FiniteSetsExt, Functions

CONSTANTS Channels,      \* the outputs: one on this board
          PWM_DEPTH,     \* the highest duty; one less than a power of two
          Period,        \* microseconds; pwm_init(50, ..) makes it 20000
          Modulus,       \* h_time is kept modulo this, 2^16
          Asked          \* numbers given to the page

VARIABLES duty,          \* pwm.duty
          table,         \* pwm_single_toggle, with its length pwm_channel_toggle
          pwm_toggle,
          using,         \* which table pwm_single and pwm_channel point to
          pwm_current_channel,
          pwm_timer_down,
          load,          \* ticks that the timer was set to
          out,           \* the outputs that are high
          pc,            \* how far pwm_start is
          meant,         \* history: the duties a table was made from
          high, ran,     \* history: ticks of this period each output was high, and all
          first,         \* history: the timer has been started in this period
          ended,         \* history: a pwm_start has ended in this period
          hurried        \* history: the table in use was written

vars == <<duty, table, pwm_toggle, using, pwm_current_channel, pwm_timer_down, load, out, pc,
          meant, high, ran, first, ended, hurried>>

\* US_TO_RTC_TIMER_TICKS, as h_time keeps it: of the 100000 ticks of a period at
\* 50 Hz, 34464.
Ticks(us) == (5 * us) % Modulus
HighTime(d) == Ticks((Period * d) \div PWM_DEPTH)

\* The time at which the table has all outputs set high.
End == Ticks(Period)
Other(t) == 1 - t
Off == [c \in Channels |-> 0]
Entry == [h : 0 .. Modulus - 1, set : SUBSET Channels, clear : SUBSET Channels]

TypeOK ==
    /\ duty \in [Channels -> 0..PWM_DEPTH] /\ meant \in [0..1 -> [Channels -> 0..PWM_DEPTH]]
    /\ pwm_toggle \in 0..1 /\ using \in 0..1
    /\ \A t \in 0..1 : Range(table[t]) \subseteq Entry
    /\ ~hurried => pwm_current_channel + 1 \in DOMAIN table[using]
    /\ {pwm_timer_down, first, ended, hurried} \subseteq BOOLEAN
    /\ load \in 0 .. Modulus - 1 /\ out \subseteq Channels
    /\ pc \in {"idle", "filled", "checked"}
-----------------------------------------------------------------------------
\* A faulty LastClear, without step 6.
LastClear_None(d) == {}

\* What the end of a period sets low: step 6 moves it there.
LastClear(d) == {c \in Channels : HighTime(d[c]) = 0}

\* Step 1: when outputs fall, and when they all rise.  Outputs with a duty of
\* zero have no time of their own.
Times(d) == ({HighTime(d[c]) : c \in Channels} \ {0}) \union {End}

\* The time at which the table ends: that of End, unless an output falls later,
\* as it may if End has lost its high bits.
Longest(d) == Max(Times(d))

\* Steps 2 and 3: the times in their order, each of them once.
Time(d, k) ==
    IF k = 0 THEN 0 ELSE CHOOSE x \in Times(d) : Cardinality({y \in Times(d) : y <= x}) = k

\* A faulty Delta, without step 4.
Delta_Not(d, k) == Time(d, k)

\* Step 4
Delta(d, k) == Time(d, k) - Time(d, k - 1)

\* pwm_start, steps 1 to 6: the switching points in their order, with the time
\* to each from the one before it.  Outputs with the same time have one point.
\* All outputs rise at End; the last point clears none but those without a duty.
Points(d) ==
    LET n == Cardinality(Times(d))
        Rising(k) == IF Time(d, k) = End THEN Channels ELSE {}
    IN [k \in 1..n |->
          [h |-> Delta(d, k),
           set |-> IF k < n THEN Rising(k) ELSE Rising(k) \ LastClear(d),
           clear |-> IF k < n THEN {c \in Channels : HighTime(d[c]) = Time(d, k)}
                              ELSE LastClear(d)]]

\* gpio_output_set, which clears after it has set.
Driven(entry) == (out \union entry.set) \ entry.clear

\* After pwm_init and the pwm_start of user_init, with no duty yet.
Init ==
    /\ duty = Off
    /\ table = [t \in 0..1 |-> Points(Off)]
    /\ pwm_toggle = 1 /\ using = 1 /\ pwm_current_channel = 0 /\ pwm_timer_down = TRUE
    /\ load = 0 /\ out = {} /\ pc = "idle"
    /\ meant = [t \in 0..1 |-> Off]
    /\ high = Off /\ ran = 0 /\ first = FALSE /\ ended = FALSE /\ hurried = FALSE

\* A faulty Local, which is what the interrupt takes next.
Local_Next == pwm_toggle

\* The table that pwm_start writes.
Local == Other(pwm_toggle)

\* cgiPWM: pwm_set_duty takes a byte; pwm_start begins with the table that the
\* interrupt is not to take next.  Nothing is claimed once the table in use has
\* been written.
Fill ==
    /\ pc = "idle" /\ ~hurried
    /\ \E c \in Channels, n \in Asked :
          LET d == [duty EXCEPT ![c] = n % (PWM_DEPTH + 1)]
              t == Local
          IN /\ duty' = d
             /\ table' = [table EXCEPT ![t] = Points(d)]
             /\ meant' = [meant EXCEPT ![t] = d]
             /\ hurried' = (hurried \/ (t = using /\ ~pwm_timer_down))
    /\ pc' = "filled"
    /\ UNCHANGED <<pwm_toggle, using, pwm_current_channel, pwm_timer_down, load, out, high, ran, first,
                   ended>>

\* A faulty Toggled, for a table that is never changed to.
Toggled_Not == pwm_toggle

Toggled == Other(pwm_toggle)

\* The end of pwm_start with the timer down: the new table is used at once.
\* The interrupt is at least a period away.
Start ==
    /\ pc = "filled" /\ pwm_timer_down
    /\ LET t == Local IN
       /\ using' = t
       /\ out' = Driven(table[t][1])
       /\ IF Len(table[t]) # 1
          THEN pwm_timer_down' = FALSE /\ load' = table[t][1].h /\ first' = TRUE
          ELSE UNCHANGED <<pwm_timer_down, load, first>>
    /\ pwm_toggle' = Toggled
    /\ pc' = "idle"
    /\ ended' = FALSE
    /\ UNCHANGED <<duty, table, pwm_current_channel, meant, high, ran, hurried>>

\* With the timer running, the interrupt may still come before the change.
Check ==
    /\ pc = "filled" /\ ~pwm_timer_down
    /\ pc' = "checked"
    /\ UNCHANGED <<duty, table, pwm_toggle, using, pwm_current_channel, pwm_timer_down, load, out,
                   meant, high, ran, first, ended, hurried>>

Toggle ==
    /\ pc = "checked"
    /\ pwm_toggle' = Toggled
    /\ pc' = "idle"
    /\ ended' = TRUE
    /\ UNCHANGED <<duty, table, using, pwm_current_channel, pwm_timer_down, load, out, meant, high,
                   ran, first, hurried>>
-----------------------------------------------------------------------------
\* pwm_tim1_intr_handler, which comes when the ticks are over.
Elapsed == [c \in Channels |-> high[c] + (IF c \in out THEN load ELSE 0)]

Interrupt == ~pwm_timer_down /\ ~hurried

\* A switching point within the period.
Switch ==
    /\ Interrupt
    /\ pwm_current_channel # Len(table[using]) - 1
    /\ out' = Driven(table[using][pwm_current_channel + 1])
    /\ pwm_current_channel' = pwm_current_channel + 1
    /\ load' = table[using][pwm_current_channel + 2].h
    /\ high' = Elapsed /\ ran' = ran + load
    /\ UNCHANGED <<duty, table, pwm_toggle, using, pwm_timer_down, pc, meant, first, ended,
                   hurried>>

\* A faulty Taken, which is the old one.
Taken_Old == using

\* The table that the next period takes.
Taken == pwm_toggle

\* The end of the period.
EndOfPeriod ==
    /\ Interrupt
    /\ pwm_current_channel = Len(table[using]) - 1
    /\ using' = Taken
    /\ out' = Driven(table[using'][Len(table[using'])])
    /\ pwm_current_channel' = 0
    /\ IF Len(table[using']) # 1
       THEN load' = table[using'][1].h /\ UNCHANGED pwm_timer_down
       ELSE pwm_timer_down' = TRUE /\ UNCHANGED load
    /\ high' = Off /\ ran' = 0 /\ first' = FALSE /\ ended' = FALSE
    /\ UNCHANGED <<duty, table, pwm_toggle, pc, meant, hurried>>

Next == Fill \/ Start \/ Check \/ Toggle \/ Switch \/ EndOfPeriod

\* The interrupt comes when its time is over, and pwm_start runs to its end.
Fairness == WF_vars(Start) /\ WF_vars(Check) /\ WF_vars(Toggle) /\ WF_vars(Switch \/ EndOfPeriod)

Spec == Init /\ [][Next]_vars /\ Fairness
-----------------------------------------------------------------------------
\* Whatever requests come during a period, it lasts to the longest time of its
\* table.  If that is End, each output is high for its own time, but for the
\* period in which the timer is started.  If it is not, which takes a period
\* whose ticks do not fit h_time, an output that is to fall last does not fall:
\* it is high from End on.
PeriodEndsRight ==
    LET d == meant[using] IN
    ran' < ran =>
        /\ ran + load = Longest(d)
        /\ ~first /\ End = Longest(d) => \A c \in Channels : Elapsed[c] = HighTime(d[c])
        /\ \A c \in Channels : HighTime(d[c]) = Longest(d) => Elapsed[c] >= Longest(d) - End

PeriodRight == [][PeriodEndsRight]_vars

\* With the timer down, every output is high or low for good, as it was asked.
RestIsSteady ==
    pwm_timer_down /\ pc = "idle" =>
        \A c \in Channels : duty[c] = IF c \in out THEN PWM_DEPTH ELSE 0

\* The table in use is written only by a request that comes when another one
\* has ended in the same period: the first of a period never does harm, however
\* long it takes and whenever it comes.
OneAPeriod ==
    [][~hurried /\ hurried' => ended]_vars

\* What was asked for is driven, at the latest in the period after this one.
Reached == pc = "filled" ~> (hurried \/ meant[using] = duty)
=============================================================================
