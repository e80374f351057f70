-------------------------- MODULE CircuitBreaker --------------------------
(***************************************************************************)
(* A circuit breaker (internal/runtime/execution/circuitbreaker).  Callers *)
(* ask it before a call and report the call's result to it, each under its *)
(* lock; between the two the call runs, while other callers open, half-    *)
(* open and close the breaker.  A half-open period is numbered, so that a  *)
(* call admitted as a probe of one can be told from a late one of another. *)
(***************************************************************************)
EXTENDS Integers, FiniteSets

CONSTANTS
  Callers,
  MaxFailures, MaxHalfOpenRequests, SuccessThreshold, \* Config, as given
  AutoReset,   \* ResetTimeout > 0
  MaxPeriods   \* bound: half-open periods

ASSUME BreakerAssumption ==
  /\ IsFiniteSet(Callers)
  /\ MaxFailures \in Int /\ MaxHalfOpenRequests \in Int /\ SuccessThreshold \in Int
  /\ AutoReset \in BOOLEAN /\ MaxPeriods \in Nat

VARIABLES
  state,     \* closed, open or half-open
  fails,     \* consecutiveFails
  successes, \* in this half-open period
  allowed,   \* halfOpenAllowed
  elapsed,   \* ResetTimeout has passed since the breaker opened
  period,    \* half-open periods so far (history)
  lost,      \* a probe of this period ended without a report (history)
  calls      \* calls[c]: the period c's call runs as a probe of, 0: admitted while closed, or none

breakerVars == <<state, fails, successes, allowed, elapsed, period, lost, calls>>
-----------------------------------------------------------------------------
\* normalizeConfig
Given(raw, default) == IF raw <= 0 THEN default ELSE raw
Failures == Given(MaxFailures, 5)
Threshold == Given(SuccessThreshold, 2)
\* Slip: the slots are not raised to the successes asked for.
RequestsAsGiven == Given(MaxHalfOpenRequests, 3)

Requests == IF Given(MaxHalfOpenRequests, 3) < Threshold THEN Threshold
            ELSE Given(MaxHalfOpenRequests, 3)

None == -1
Probes == {c \in Callers : calls[c] = period /\ period > 0}

BreakerInit ==
  /\ state = "closed" /\ fails = 0 /\ successes = 0 /\ allowed = 0
  /\ elapsed = FALSE /\ period = 0 /\ lost = FALSE
  /\ calls = [c \in Callers |-> None]

Admit(c, as) == calls[c] = None /\ calls' = [calls EXCEPT ![c] = as]
Return(c) == calls[c] # None /\ calls' = [calls EXCEPT ![c] = None]

Elapse ==
  /\ state = "open" /\ ~elapsed /\ elapsed' = TRUE
  /\ UNCHANGED <<state, fails, successes, allowed, period, lost, calls>>

AllowClosed(c) ==
  /\ state = "closed" /\ Admit(c, 0)
  /\ UNCHANGED <<state, fails, successes, allowed, elapsed, period, lost>>

\* toHalfOpen, and its first slot.
AllowOpen(c) ==
  /\ state = "open" /\ AutoReset /\ elapsed /\ period < MaxPeriods
  /\ state' = "half-open" /\ successes' = 0 /\ allowed' = 1
  /\ elapsed' = FALSE /\ period' = period + 1 /\ lost' = FALSE
  /\ Admit(c, period + 1)
  /\ UNCHANGED fails

AllowHalfOpen(c) ==
  /\ state = "half-open" /\ allowed < Requests
  /\ allowed' = allowed + 1
  /\ Admit(c, period)
  /\ UNCHANGED <<state, fails, successes, elapsed, period, lost>>

ToClosed ==
  /\ state' = "closed" /\ fails' = 0 /\ successes' = 0 /\ allowed' = 0 /\ elapsed' = FALSE
  /\ UNCHANGED <<period, lost>>

ToOpen ==
  /\ state' = "open" /\ successes' = 0 /\ allowed' = 0 /\ elapsed' = FALSE
  /\ UNCHANGED <<period, lost>>

RecordSuccess(c) ==
  /\ Return(c)
  /\ \/ /\ state = "half-open" /\ successes + 1 >= Threshold
        /\ ToClosed
     \/ /\ state = "half-open" => successes + 1 < Threshold
        /\ fails' = 0
        /\ successes' = IF state = "half-open" THEN successes + 1 ELSE successes
        /\ UNCHANGED <<state, allowed, elapsed, period, lost>>

RecordFailure(c) ==
  /\ Return(c)
  /\ fails' = fails + 1
  /\ \/ /\ state = "half-open" \/ (state = "closed" /\ fails + 1 >= Failures)
        /\ ToOpen
     \/ /\ state = "open" \/ (state = "closed" /\ fails + 1 < Failures)
        /\ UNCHANGED <<state, successes, allowed, elapsed, period, lost>>

\* The called function panics, or its goroutine exits: Execute records nothing.
Lose(c) ==
  /\ Return(c)
  /\ lost' = (lost \/ c \in Probes)
  /\ UNCHANGED <<state, fails, successes, allowed, elapsed, period>>

Reset == ToClosed /\ UNCHANGED calls

BreakerNext ==
  \/ \E c \in Callers : AllowClosed(c) \/ AllowOpen(c) \/ AllowHalfOpen(c)
                        \/ RecordSuccess(c) \/ RecordFailure(c) \/ Lose(c)
  \/ Elapse \/ Reset

BreakerSpec == BreakerInit /\ [][BreakerNext]_breakerVars
-----------------------------------------------------------------------------
BreakerTypeOK ==
  /\ state \in {"closed", "open", "half-open"}
  /\ fails \in Nat /\ successes \in Nat /\ allowed \in 0..Requests
  /\ elapsed \in BOOLEAN /\ period \in 0..MaxPeriods /\ lost \in BOOLEAN
  /\ calls \in [Callers -> {None} \cup 0..period]

\* A closed breaker has seen fewer consecutive failures than it takes to open
\* it, whatever late results were counted while it was open or half-open: the
\* next failure after a recovery does not open it at once (RecordFailure).
ClosedIsHealthy == state = "closed" => fails < Failures

\* No more probes of a half-open period run than it has slots, and the calls
\* of earlier periods, whose results count in it too, take none (Allow).
SlotsBounded ==
  state = "half-open" => Cardinality(Probes) <= allowed /\ allowed <= Requests

\* A half-open breaker is never left without a way out: a probe whose result
\* will open or help to close it is running, or there is a slot for another
\* one, unless a probe of this period ended without a report (Execute has no
\* recover, so a panic keeps its slot).
NotWedged ==
  state = "half-open" => lost \/ Probes # {} \/ allowed < Requests

\* The breaker at any time: its counters in their bounds, a closed one healthy,
\* its probes within their slots, and a way out of half-open.
BreakerSafe == BreakerTypeOK /\ ClosedIsHealthy /\ SlotsBounded /\ NotWedged
=============================================================================
