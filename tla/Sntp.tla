-------------------------------- MODULE Sntp --------------------------------
(***************************************************************************)
(* The time client (user/sntp.c) as it is built: one server given by name, *)
(* answers not checked against requests, so that sntp_try_next_server is   *)
(* sntp_retry.  What it does next is kept in timeouts of lwIP: a chain of  *)
(* them goes from a request to its repetition, or to the next hour.        *)
(***************************************************************************)
EXTENDS Naturals

CONSTANTS MaxDoublings,  \* how often SNTP_RETRY_TIMEOUT fits its maximum, doubled
          MaxLate        \* bound on answers that come during a lookup

ASSUME SntpAssumption == MaxDoublings \in Nat /\ MaxLate \in Nat

VARIABLES timeouts,      \* the timeouts armed for each function
          lookups,       \* lookups that sntp_dns_found is still to be called for
          doublings,     \* of sntp_retry_timeout
          synced,        \* sntp_time was set, and ntp_timer counts it
          late,          \* history: the answers that came during a lookup
          turn           \* history: flips with every attempt to send a request

vars == <<timeouts, lookups, doublings, synced, late, turn>>

TypeOK ==
    /\ timeouts \in [{"request", "retry"} -> 0..(1 + MaxLate)]
    /\ lookups \in 0..(1 + MaxLate)
    /\ doublings \in 0..MaxDoublings
    /\ synced \in BOOLEAN
    /\ late \in 0..MaxLate
    /\ turn \in {0, 1}

\* sntp_init
Init ==
    /\ timeouts = [request |-> 1, retry |-> 0]
    /\ lookups = 0
    /\ doublings = 0
    /\ synced = FALSE
    /\ late = 0
    /\ turn = 0
-----------------------------------------------------------------------------
\* sys_timeout and sys_untimeout, which takes one timeout away at most.
Arm(t, f) == [t EXCEPT ![f] = @ + 1]
Disarm(t, f) == [t EXCEPT ![f] = IF @ > 0 THEN @ - 1 ELSE 0]

\* A faulty doubling without its limit.
Doubled_Always(n) == n + 1

Doubled(n) == IF n < MaxDoublings THEN n + 1 ELSE n

\* sntp_retry, with the timeouts that are left before it.
Retry(t) ==
    /\ timeouts' = Arm(t, "request")
    /\ doublings' = Doubled(doublings)

\* A faulty sending that waits for the answer only.
SendRequest_Waits(t) == timeouts' = t

\* sntp_send_request; without memory for the packet it tries again later.
SendRequest(t) ==
    \/ timeouts' = Arm(t, "retry")
    \/ timeouts' = Arm(t, "request")

\* The timeout of sntp_request: the resolver knows the name, has to ask, or
\* fails at once.
Request ==
    /\ timeouts["request"] > 0
    /\ LET t == Disarm(timeouts, "request") IN
       \/ SendRequest(t) /\ UNCHANGED lookups
       \/ timeouts' = t /\ lookups' = lookups + 1
       \/ timeouts' = Arm(t, "retry") /\ UNCHANGED lookups
    /\ turn' = 1 - turn
    /\ UNCHANGED <<doublings, synced, late>>

\* The timeout of sntp_retry: no answer came.
RetryTimeout ==
    /\ timeouts["retry"] > 0
    /\ Retry(Disarm(timeouts, "retry"))
    /\ UNCHANGED <<lookups, synced, late, turn>>

\* sntp_dns_found
DnsFound ==
    /\ lookups > 0
    /\ lookups' = lookups - 1
    /\ \/ SendRequest(timeouts) /\ UNCHANGED doublings
       \/ Retry(timeouts)
    /\ UNCHANGED <<synced, late, turn>>

\* A faulty receiver that leaves the next request armed.
Stopped_Half(t) == Disarm(t, "retry")

\* What sntp_recv stops before it looks at the packet.
Stopped(t) == Disarm(Disarm(t, "retry"), "request")

\* sntp_recv, with a packet that need not answer anything: a time, or a
\* kiss of death or anything else.
Recv ==
    /\ late < MaxLate \/ lookups = 0
    /\ late' = IF lookups > 0 THEN late + 1 ELSE late
    /\ LET t == Stopped(timeouts) IN
       \/ /\ timeouts' = Arm(t, "request")
          /\ doublings' = 0
          /\ synced' = TRUE
       \/ /\ Retry(t)
          /\ UNCHANGED synced
    /\ UNCHANGED <<lookups, turn>>

Next == Request \/ RetryTimeout \/ DnsFound \/ Recv

\* Timeouts run out and the resolver calls back.  An answer arms its timeout
\* again from the start; that it does so for ever, each time before the timeout
\* runs out, is ruled out since answers follow requests.
Fairness == WF_vars(Request) /\ WF_vars(RetryTimeout) /\ WF_vars(DnsFound)

Spec == Init /\ [][Next]_vars /\ Fairness
-----------------------------------------------------------------------------
Chains == timeouts["request"] + timeouts["retry"] + lookups

\* The client never stops asking: whatever arrives, and whenever, a timeout or
\* a lookup is left that leads to the next request.  It asks one question at a
\* time; an answer that comes during a lookup, and only that, starts a second
\* chain of requests beside the first, since nothing can stop the lookup.
OneChain == Chains > 0 /\ Chains <= 1 + late

\* Sooner or later the client tries again, answered or not.
AsksAgain == \A t \in {0, 1} : turn = t ~> turn # t
=============================================================================
