---------------------------- MODULE DaemonLeader ----------------------------
(***************************************************************************)
(* Daemons on several machines share a row that says who leads and until   *)
(* when; only the leader is to run the workers that change shared state.   *)
(* Each daemon asks for the row again every interval, comparing what it    *)
(* says with the clock of its own machine, and starts or stops its workers *)
(* as the answer changes.                                                  *)
(*                                                                         *)
(* Time is counted in ticks.  What the row and the daemons hold is kept as *)
(* the distance to the present, so a tick changes all of it.  Every step a *)
(* daemon has under way ends within a bound; the bounds are assumptions,   *)
(* for the code sets no limit to how long the store or a worker may take.  *)
(***************************************************************************)
EXTENDS Integers

CONSTANTS
  Daemons,
  Nobody,        \* owner of a row that no running service will renew
  TTL,           \* what a renewal adds to the clock
  Interval,      \* from the end of one round to the next
  Lag,           \* assumed: longest that a statement, its answer, or starting or stopping the workers takes
  Skew,          \* assumed: most that a machine's clock is off
  MayShutDown,   \* whether services are shut down, and not only killed
  MaxFaults      \* bound: crashes, shutdowns, failing statements and failing starts of workers

ASSUME DaemonLeaderAssumption ==
  /\ Nobody \notin Daemons
  /\ TTL \in Nat \ {0} /\ Interval \in Nat \ {0} /\ Lag \in Nat \ {0} /\ Skew \in Nat
  /\ MayShutDown \in BOOLEAN
  /\ MaxFaults \in Nat

VARIABLES
  lease,    \* the row: its owner, and how long it is still valid; past Lapsed that is all the same
  step,     \* step[d]: where the service of d is
  wait,     \* wait[d]: within what time that ends
  reading,  \* reading[d]: the clock d read for the statement under way, less the present
  leader,   \* leader[d]: isLeader
  working,  \* working[d]: some worker of d may run
  lacking,  \* lacking[d]: some worker of d could not be started since d leads
  closing,  \* closing[d]: shutdownCh is closed
  faults    \* what MaxFaults bounds

local == <<reading, leader, working, lacking, closing>>
vars == <<lease, step, wait, local, faults>>

Lapsed == -(Lag + Skew)
Up == {"waiting", "asking", "granted", "refused", "rising", "falling"}
Leaving == {"ended", "released"}

Init ==
  /\ lease = [owner |-> Nobody, left |-> Lapsed]
  /\ step = [d \in Daemons |-> "off"]
  /\ wait = [d \in Daemons |-> 0]
  /\ reading = [d \in Daemons |-> 0]
  /\ leader = [d \in Daemons |-> FALSE]
  /\ working = [d \in Daemons |-> FALSE]
  /\ lacking = [d \in Daemons |-> FALSE]
  /\ closing = [d \in Daemons |-> FALSE]
  /\ faults = 0

\* d goes on to s, which ends within t.
Go(d, s, t) ==
  /\ step' = [step EXCEPT ![d] = s]
  /\ wait' = [wait EXCEPT ![d] = t]

Fault == faults < MaxFaults /\ faults' = faults + 1

-----------------------------------------------------------------------------
(* The lease loop. *)

\* The loop asks as soon as it starts.
Start(d) ==
  /\ step[d] = "off"
  /\ Go(d, "waiting", Lag)
  /\ UNCHANGED <<lease, local, faults>>

\* A tick of the ticker, kept for the loop if it was busy.
Ask(d) ==
  /\ step[d] = "waiting"
  /\ \E s \in (-Skew)..Skew : reading' = [reading EXCEPT ![d] = s]
  /\ Go(d, "asking", Lag)
  /\ UNCHANGED <<lease, leader, working, lacking, closing, faults>>

Renewed(d) == [owner |-> d, left |-> reading[d] + TTL]
MayTake(d) == lease.owner = d \/ lease.left <= reading[d]

Acquire(d) ==
  /\ step[d] = "asking"
  /\ \/ MayTake(d) /\ lease' = Renewed(d) /\ Go(d, "granted", Lag)
     \/ ~MayTake(d) /\ UNCHANGED lease /\ Go(d, "refused", Lag)
  /\ UNCHANGED <<local, faults>>

\* The statement, or only its answer, is lost; a cancelled one may be as well.
AcquireFails(d) ==
  /\ step[d] = "asking"
  /\ Fault \/ (closing[d] /\ UNCHANGED faults)
  /\ UNCHANGED lease \/ (MayTake(d) /\ lease' = Renewed(d))
  /\ Go(d, "refused", Lag)
  /\ UNCHANGED local

\* transitionLeader, where the answer changes nothing.
Same(d) ==
  /\ (step[d] = "granted" /\ leader[d]) \/ (step[d] = "refused" /\ ~leader[d])
  /\ Go(d, "waiting", Interval)
  /\ UNCHANGED <<lease, local, faults>>

\* A service that is shutting down starts no workers.
Rise(d) ==
  /\ step[d] = "granted" /\ ~leader[d]
  /\ leader' = [leader EXCEPT ![d] = TRUE]
  /\ \/ ~closing[d] /\ working' = [working EXCEPT ![d] = TRUE] /\ Go(d, "rising", Lag)
     \/ closing[d] /\ UNCHANGED working /\ Go(d, "waiting", Interval)
  /\ UNCHANGED <<lease, reading, lacking, closing, faults>>

\* Slip: the workers are stopped and the flag stays.
FallUnnoticed(d) ==
  /\ step[d] = "refused" /\ leader[d]
  /\ Go(d, "falling", Lag)
  /\ UNCHANGED <<lease, local, faults>>

Fall(d) ==
  /\ step[d] = "refused" /\ leader[d]
  /\ leader' = [leader EXCEPT ![d] = FALSE]
  /\ lacking' = [lacking EXCEPT ![d] = FALSE]
  /\ Go(d, "falling", Lag)
  /\ UNCHANGED <<lease, reading, working, closing, faults>>

\* Starting or stopping the workers is done.
Turned(d) ==
  /\ step[d] \in {"rising", "falling"}
  /\ working' = [working EXCEPT ![d] = (step[d] = "rising")]
  /\ Go(d, "waiting", Interval)
  /\ UNCHANGED <<lease, reading, leader, lacking, closing, faults>>

\* Some worker does not start: whatever the others do, d leads, and the rounds
\* that follow find nothing changed and do not try again.
StartFails(d) ==
  /\ step[d] = "rising" /\ Fault
  /\ lacking' = [lacking EXCEPT ![d] = TRUE]
  /\ \E some \in BOOLEAN : working' = [working EXCEPT ![d] = some]
  /\ Go(d, "waiting", Interval)
  /\ UNCHANGED <<lease, reading, leader, closing>>

-----------------------------------------------------------------------------
(* The end of a service: shut down, or killed. *)

\* The owner id is of no use to the next service on the machine.
Disown(d) == lease' = IF lease.owner = d THEN [lease EXCEPT !.owner = Nobody] ELSE lease

Shutdown(d) ==
  /\ MayShutDown /\ Fault
  /\ step[d] \in Up /\ ~closing[d]
  /\ closing' = [closing EXCEPT ![d] = TRUE]
  /\ UNCHANGED <<lease, step, wait, reading, leader, working, lacking>>

LoopEnds(d) ==
  /\ step[d] = "waiting" /\ closing[d]
  /\ Go(d, "ended", Lag)
  /\ UNCHANGED <<lease, local, faults>>

\* Slip: the row is deleted whoever owns it.
ReleaseAnyones(d) ==
  /\ step[d] = "ended"
  /\ lease' = [owner |-> Nobody, left |-> Lapsed]
  /\ leader' = [leader EXCEPT ![d] = FALSE]
  /\ Go(d, "released", Lag)
  /\ UNCHANGED <<reading, working, lacking, closing, faults>>

\* stopLeaderLease: the row goes, unless the store fails.
Release(d) ==
  /\ step[d] = "ended"
  /\ \/ Disown(d) /\ Fault
     \/ /\ lease' = IF lease.owner = d THEN [owner |-> Nobody, left |-> Lapsed] ELSE lease
        /\ UNCHANGED faults
  /\ leader' = [leader EXCEPT ![d] = FALSE]
  /\ Go(d, "released", Lag)
  /\ UNCHANGED <<reading, working, lacking, closing>>

Gone(d) ==
  /\ Go(d, "off", 0)
  /\ leader' = [leader EXCEPT ![d] = FALSE]
  /\ working' = [working EXCEPT ![d] = FALSE]
  /\ lacking' = [lacking EXCEPT ![d] = FALSE]
  /\ closing' = [closing EXCEPT ![d] = FALSE]
  /\ UNCHANGED reading

StopWorkers(d) ==
  /\ step[d] = "released"
  /\ Gone(d)
  /\ UNCHANGED <<lease, faults>>

Crash(d) ==
  /\ step[d] # "off" /\ Fault
  /\ Gone(d)
  /\ Disown(d)

-----------------------------------------------------------------------------
Tick ==
  /\ \A d \in Daemons : step[d] = "off" \/ wait[d] > 0
  /\ wait' = [d \in Daemons |-> IF step[d] = "off" THEN 0 ELSE wait[d] - 1]
  /\ reading' = [d \in Daemons |-> IF step[d] = "asking" THEN reading[d] - 1 ELSE 0]
  /\ lease' = [lease EXCEPT !.left = IF @ > Lapsed THEN @ - 1 ELSE @]
  /\ UNCHANGED <<step, leader, working, lacking, closing, faults>>

LoopStep(d) ==
  \/ Ask(d) \/ Acquire(d) \/ Same(d) \/ Rise(d) \/ Fall(d) \/ Turned(d)
  \/ LoopEnds(d) \/ Release(d) \/ StopWorkers(d)

FaultStep(d) == AcquireFails(d) \/ StartFails(d) \/ Shutdown(d) \/ Crash(d)

Next == Tick \/ \E d \in Daemons : Start(d) \/ LoopStep(d) \/ FaultStep(d)

Spec == Init /\ [][Next]_vars

\* Time goes on, daemons are started again, and what they do ends.  A loop
\* whose context is cancelled finds it so at every round, and ends at one.
Fairness ==
  /\ WF_vars(Tick)
  /\ \A d \in Daemons : WF_vars(Start(d)) /\ WF_vars(LoopStep(d)) /\ SF_vars(LoopEnds(d))

FairSpec == Spec /\ Fairness

-----------------------------------------------------------------------------
(* Properties. *)

\* Type invariant of the row, the clocks and the services.
TypeOK ==
  /\ lease \in [owner: Daemons \cup {Nobody}, left: Lapsed..(Skew + TTL)]
  /\ step \in [Daemons -> {"off"} \cup Up \cup Leaving]
  /\ wait \in [Daemons -> Int]
  /\ \A d \in Daemons : wait[d] >= 0 /\ (wait[d] <= Interval \/ wait[d] <= Lag)
  /\ reading \in [Daemons -> Lapsed..Skew]
  /\ leader \in [Daemons -> BOOLEAN]
  /\ working \in [Daemons -> BOOLEAN]
  /\ lacking \in [Daemons -> BOOLEAN]
  /\ closing \in [Daemons -> BOOLEAN]
  /\ faults \in 0..MaxFaults

\* The workers that change shared state run on one machine at a time.
SingleLeader == \A d, e \in Daemons : working[d] /\ working[e] => d = e

\* Two machines run workers at once only while one of them shuts down.
OverlapOnlyAtShutdown ==
  \A d, e \in Daemons : working[d] /\ working[e] => d = e \/ closing[d] \/ closing[e]

\* Once faults end, some daemon leads for good, and its workers run; but a
\* worker that did not start when it rose is missing for as long as it leads.
EventuallyLed == <>[](\E d \in Daemons : leader[d] /\ (working[d] \/ lacking[d]))

=============================================================================
