---------------------------- MODULE SchedulePage ----------------------------
(***************************************************************************)
(* The schedule of the thermostat as its page sees it (cgiThermostat with  *)
(* thermostat_schedule, user/cgithermostat.c): a day is posted as JSON and *)
(* put into the configuration through the tokens of jsmn; the page reads   *)
(* the week back as JSON.  A day has a number of places, of which those up *)
(* to the first inactive one count.  The names of days have one character, *)
(* and so have numbers.                                                    *)
(***************************************************************************)
EXTENDS Jsmn, SequencesExt

CONSTANTS days,              \* the names, in the order of the week
          Places,            \* 8: places of a day
          Posted             \* lists of entries the page may post

VARIABLES weekSched,         \* by day and place: start, end, setpoint, active
          answering,         \* is a post being handled?
          posted,            \* history: the day and the entries of the last post, and whether all arrived
          before             \* history: what the page would have read before it

vars == <<jsmnVars, weekSched, answering, posted, before>>

Entry(s, e, sp) == [s |-> s, e |-> e, sp |-> sp]
Key(k) == <<"q">> \o k \o <<"q", ":">>
Joined(list) == FlattenSeq([k \in DOMAIN list |-> (IF k = 1 THEN <<>> ELSE <<",">>) \o list[k]])

\* The text of a day, as the page posts it and as it is sent to it.
EntryText(e) == <<"{">> \o Key(<<"s">>) \o <<e.s, ",">> \o Key(<<"e">>) \o <<e.e, ",">>
                        \o Key(<<"s", "p">>) \o <<e.sp, "}">>
DayText(day, list) == Key(<<day>>) \o <<"[">> \o Joined([k \in DOMAIN list |-> EntryText(list[k])]) \o <<"]">>
PostText(day, list) == <<"{">> \o DayText(day, list) \o <<"}">>

\* The entries of a day that count: up to the first that is not active.
Active(d) ==
    LET n == Max({k \in 0..Places : \A j \in 1..k : weekSched[d][j].active})
    IN [k \in 1..n |-> [s |-> weekSched[d][k].s, e |-> weekSched[d][k].e, sp |-> weekSched[d][k].sp]]
Week == [d \in DOMAIN days |-> Active(d)]

TypeOK ==
    /\ JsmnTypeOK
    /\ answering \in BOOLEAN
    /\ \A d \in DOMAIN days : DOMAIN weekSched[d] = 1..Places

Init ==
    /\ js = <<>> /\ pos = 0 /\ tokens = <<>> /\ toksuper = 0 /\ count = 0 /\ result = Parsed
    /\ weekSched = [d \in DOMAIN days |-> [k \in 1..Places |-> Entry("1", "2", "3") @@ [active |-> k = 1]]]
    /\ answering = FALSE
    /\ posted = [day |-> 1, list |-> <<Entry("1", "2", "3")>>, whole |-> TRUE]
    /\ before = Week
-----------------------------------------------------------------------------
\* A post, of which the handler may have only the beginning: three cuts stand
\* for all of them.
Post ==
    /\ ~answering
    /\ \E d \in DOMAIN days, list \in Posted, whole \in BOOLEAN :
          LET text == PostText(days[d], list) IN
          \E n \in (IF whole THEN {Len(text)} ELSE {1, Len(text) \div 2, Len(text) - 1}) :
             /\ Begin(SubSeq(text, 1, n))
             /\ posted' = [day |-> d, list |-> list, whole |-> whole]
    /\ before' = Week
    /\ answering' = TRUE
    /\ UNCHANGED weekSched

Parse == answering /\ result = Running /\ JsmnNext /\ UNCHANGED <<weekSched, answering, posted, before>>

\* What is not taken leaves the schedule as it is; so do errors of the parser.
Refused ==
    /\ answering /\ result # Running
    /\ result < 0 \/ count < 1 \/ tokens[1].type # "{"
    /\ answering' = FALSE
    /\ UNCHANGED <<jsmnVars, weekSched, posted, before>>

\* The tokens of an entry: its object, and three names with their numbers.
PerEntry == 7

\* A faulty Marked, which leaves the place behind the last as it is.
Marked_Not(sched, n) == sched

\* The place behind the last entry is marked as inactive.
Marked(sched, n) == IF n < Places THEN [sched EXCEPT ![n + 1].active = FALSE] ELSE sched

\* Token k of C, which counts from 0, as one character.
Text(k) == js[tokens[k + 1].start + 1]

Save ==
    /\ answering /\ result = Parsed /\ count >= 1 /\ tokens[1].type = "{"
    /\ \E d \in DOMAIN days :
          /\ Text(1) = days[d]
          /\ LET firsts == {i \in 3 .. count - 1 : (i - 3) % PerEntry = 0 /\ (i - 3) \div PerEntry < Places}
                 n == Cardinality(firsts)
                 First(k) == 3 + PerEntry * (k - 1)
             IN weekSched' = [weekSched EXCEPT ![d] = Marked(
                   [k \in 1..Places |->
                      IF k <= n
                      THEN [s |-> Text(First(k) + 2), e |-> Text(First(k) + 4), sp |-> Text(First(k) + 6), active |-> TRUE]
                      ELSE weekSched[d][k]], n)]
    /\ answering' = FALSE
    /\ UNCHANGED <<jsmnVars, posted, before>>

Next == Post \/ Parse \/ Refused \/ Save

Spec == Init /\ [][Next]_vars
-----------------------------------------------------------------------------
\* What the page reads back is what it posted last, for that day, and what it
\* was before, for all others; a post of which not all arrived in one piece,
\* or that has more entries than there are tokens for, changes nothing.
ReadsBackPosted ==
    ~answering =>
        Week = IF posted.whole /\ result = Parsed THEN [before EXCEPT ![posted.day] = posted.list]
               ELSE before

\* Nothing is refused that fits into a day.
FullDayFits ==
    ~answering /\ posted.whole /\ Len(posted.list) <= Places => result = Parsed
=============================================================================
