--------------------------- MODULE MachinesProofs ---------------------------
(***************************************************************************)
(* Proofs about the components MCMachines runs side by side, each for any  *)
(* values of its constants: CircuitBreaker, FairScheduler, JobStore,       *)
(* RefreshQueue and OutputLog, in that order.  They share nothing but this *)
(* module: every section has an inductive invariant of its own.            *)
(***************************************************************************)
EXTENDS CircuitBreaker, FairScheduler, JobStore, RefreshQueue, OutputLog,
        FiniteSetTheorems, SequenceTheorems, TLAPS
-----------------------------------------------------------------------------
(***************************************************************************)
(* CircuitBreaker.  What keeps a half-open breaker from being stuck is     *)
(* arithmetic: as long as every probe reports, the slots taken are covered *)
(* by the successes counted and the probes still running, successes stay   *)
(* below the threshold, and there are at least as many slots as that.      *)
(***************************************************************************)
\* While half-open: the probes running fit in the slots taken, and the slots
\* taken in the successes counted and the probes running, while none is lost.
Counted ==
  state = "half-open" =>
    /\ period > 0 /\ successes < Threshold
    /\ Cardinality(Probes) <= allowed
    /\ ~lost => allowed <= successes + Cardinality(Probes)

\* The inductive invariant of the breaker.
BreakerIInv == BreakerTypeOK /\ ClosedIsHealthy /\ Counted

\* The normalised configuration (normalizeConfig): a threshold of at least
\* one, and at least as many half-open slots.
LEMMA NormalConfig ==
  /\ Failures \in Nat \ {0} /\ Threshold \in Nat \ {0}
  /\ Requests \in Nat /\ Requests >= Threshold
BY BreakerAssumption DEF Failures, Threshold, Requests, Given

\* The probes are finitely many.
LEMMA ProbesFinite == IsFiniteSet(Probes) /\ Cardinality(Probes) \in Nat
BY BreakerAssumption, FS_Subset, FS_CardinalityType DEF Probes

\* The probes after a call returns: one fewer if it was one of them.
LEMMA ProbesReturn ==
  ASSUME NEW c \in Callers, BreakerTypeOK, Return(c), period' = period
  PROVE  /\ Cardinality(Probes') \in Nat
         /\ Cardinality(Probes') <= Cardinality(Probes)
         /\ Cardinality(Probes) <= Cardinality(Probes') + 1
         /\ c \notin Probes => Probes' = Probes
<1>1. Probes' = Probes \ {c}
  BY DEF Probes, Return, BreakerTypeOK, None
<1>2. CASE c \in Probes
  <2>1. Cardinality(Probes') = Cardinality(Probes) - 1
    BY <1>1, <1>2, ProbesFinite, FS_RemoveElement
  <2>2. Cardinality(Probes) \in Nat /\ Cardinality(Probes) # 0
    BY <1>2, ProbesFinite, FS_EmptySet
  <2> QED BY <2>1, <2>2, <1>2
<1>3. CASE c \notin Probes
  <2>1. Probes' = Probes
    BY <1>1, <1>3
  <2> QED BY <2>1, ProbesFinite
<1> QED BY <1>2, <1>3

\* A probe admitted is one more.
LEMMA ProbesAdmit ==
  ASSUME NEW c \in Callers, BreakerTypeOK, Admit(c, period), period' = period, period > 0
  PROVE  Cardinality(Probes') = Cardinality(Probes) + 1
<1>1. Probes' = Probes \cup {c} /\ c \notin Probes
  BY DEF Probes, Admit, BreakerTypeOK, None
<1> QED BY <1>1, ProbesFinite, FS_AddElement

\* The call that half-opens the breaker is its only probe.
LEMMA ProbesFirst ==
  ASSUME NEW c \in Callers, BreakerTypeOK, Admit(c, period + 1), period' = period + 1
  PROVE  Cardinality(Probes') = 1
<1>1. Probes' = {c}
  BY DEF Probes, Admit, BreakerTypeOK, None
<1> QED BY <1>1, FS_Singleton

\* The range of calls, apart from the arithmetic of the other variables.
LEMMA CallsAdmit ==
  ASSUME NEW c \in Callers, BreakerTypeOK, NEW p \in Nat, Admit(c, p), p <= period', period <= period',
         period' \in Nat
  PROVE  calls' \in [Callers -> {None} \cup 0..period']
<1>1. 0..period \subseteq 0..period' /\ p \in 0..period'
  BY DEF BreakerTypeOK
<1> QED BY <1>1 DEF BreakerTypeOK, Admit

\* The calls have their types after one returns.
LEMMA CallsReturn ==
  ASSUME NEW c \in Callers, BreakerTypeOK, Return(c), period' = period
  PROVE  calls' \in [Callers -> {None} \cup 0..period']
BY DEF BreakerTypeOK, Return

\* BreakerIInv holds at first.
LEMMA BreakerInitIInv == BreakerInit => BreakerIInv
<1> SUFFICES ASSUME BreakerInit PROVE BreakerIInv
  OBVIOUS
<1>1. calls \in [Callers -> {None} \cup 0..period]
  BY DEF BreakerInit
<1>f. elapsed \in BOOLEAN /\ lost \in BOOLEAN
  BY Zenon DEF BreakerInit
<1>2. BreakerTypeOK
  BY <1>1, <1>f, NormalConfig, BreakerAssumption DEF BreakerInit, BreakerTypeOK
<1> QED BY <1>2, NormalConfig DEF BreakerInit, BreakerIInv, ClosedIsHealthy, Counted

\* Every step keeps it.
LEMMA BreakerNextIInv == BreakerIInv /\ [BreakerNext]_breakerVars => BreakerIInv'
<1> SUFFICES ASSUME BreakerIInv, [BreakerNext]_breakerVars PROVE BreakerIInv'
  OBVIOUS
<1> USE NormalConfig DEF BreakerIInv
<1>1. ASSUME NEW c \in Callers, AllowClosed(c) PROVE BreakerIInv'
  BY <1>1 DEF AllowClosed, Admit, BreakerTypeOK, ClosedIsHealthy, Counted, None
<1>2. ASSUME NEW c \in Callers, AllowOpen(c) PROVE BreakerIInv'
  <2>1. Cardinality(Probes') = 1
    BY <1>2, ProbesFirst DEF AllowOpen
  <2>2. BreakerTypeOK'
    <3>1. calls' \in [Callers -> {None} \cup 0..period']
      BY <1>2, CallsAdmit DEF AllowOpen, BreakerTypeOK
    <3>2. elapsed' \in BOOLEAN /\ lost' \in BOOLEAN
      BY <1>2, Zenon DEF AllowOpen, BreakerTypeOK
    <3> QED BY <3>1, <3>2, <1>2, BreakerAssumption DEF AllowOpen, BreakerTypeOK
  <2>3. ClosedIsHealthy'
    BY <1>2 DEF AllowOpen, ClosedIsHealthy
  <2>4. Counted'
    BY <1>2, <2>1 DEF AllowOpen, BreakerTypeOK, Counted
  <2> QED BY <2>2, <2>3, <2>4
<1>3. ASSUME NEW c \in Callers, AllowHalfOpen(c) PROVE BreakerIInv'
  <2>1. period > 0 /\ period' = period /\ Admit(c, period)
    BY <1>3 DEF AllowHalfOpen, Counted
  <2>2. Cardinality(Probes') = Cardinality(Probes) + 1 /\ Cardinality(Probes) \in Nat
    BY <2>1, ProbesAdmit, ProbesFinite
  <2>3. BreakerTypeOK'
    BY <1>3 DEF AllowHalfOpen, Admit, BreakerTypeOK, None
  <2>4. ClosedIsHealthy'
    BY <1>3 DEF AllowHalfOpen, ClosedIsHealthy
  <2>5. Counted'
    BY <1>3, <2>2 DEF AllowHalfOpen, BreakerTypeOK, Counted
  <2> QED BY <2>3, <2>4, <2>5
<1>4. ASSUME NEW c \in Callers, RecordSuccess(c) PROVE BreakerIInv'
  <2>1. Return(c) /\ period' = period
    BY <1>4 DEF RecordSuccess, ToClosed
  <2>2. /\ Cardinality(Probes') \in Nat /\ Cardinality(Probes) \in Nat
        /\ Cardinality(Probes') <= Cardinality(Probes)
        /\ Cardinality(Probes) <= Cardinality(Probes') + 1
    BY <2>1, ProbesReturn, ProbesFinite
  <2>3. BreakerTypeOK'
    <3>1. calls' \in [Callers -> {None} \cup 0..period']
      BY <1>4, CallsReturn DEF RecordSuccess, ToClosed
    <3>2. elapsed' \in BOOLEAN /\ lost' \in BOOLEAN
      BY <1>4, Zenon DEF RecordSuccess, ToClosed, BreakerTypeOK
    <3> QED BY <3>1, <3>2, <1>4 DEF RecordSuccess, ToClosed, BreakerTypeOK
  <2>4. ClosedIsHealthy'
    BY <1>4 DEF RecordSuccess, ToClosed, ClosedIsHealthy
  <2>5. Counted'
    BY <1>4, <2>2 DEF RecordSuccess, ToClosed, BreakerTypeOK, Counted
  <2> QED BY <2>3, <2>4, <2>5
<1>5. ASSUME NEW c \in Callers, RecordFailure(c) PROVE BreakerIInv'
  <2>1. BreakerTypeOK'
    <3>1. calls' \in [Callers -> {None} \cup 0..period']
      BY <1>5, CallsReturn DEF RecordFailure, ToOpen
    <3>2. elapsed' \in BOOLEAN /\ lost' \in BOOLEAN
      BY <1>5, Zenon DEF RecordFailure, ToOpen, BreakerTypeOK
    <3> QED BY <3>1, <3>2, <1>5 DEF RecordFailure, ToOpen, BreakerTypeOK
  <2>2. ClosedIsHealthy'
    BY <1>5 DEF RecordFailure, ToOpen, BreakerTypeOK, ClosedIsHealthy
  <2>3. Counted'
    BY <1>5 DEF RecordFailure, ToOpen, BreakerTypeOK, Counted
  <2> QED BY <2>1, <2>2, <2>3
<1>6. ASSUME NEW c \in Callers, Lose(c) PROVE BreakerIInv'
  <2>1. Return(c) /\ period' = period
    BY <1>6 DEF Lose
  <2>2. /\ Cardinality(Probes') \in Nat /\ Cardinality(Probes) \in Nat
        /\ Cardinality(Probes') <= Cardinality(Probes)
        /\ c \notin Probes => Probes' = Probes
    BY <2>1, ProbesReturn, ProbesFinite
  <2>3. BreakerTypeOK'
    BY <1>6 DEF Lose, Return, BreakerTypeOK, None
  <2>4. ClosedIsHealthy'
    BY <1>6 DEF Lose, ClosedIsHealthy
  <2>5. Counted'
    <3>1. CASE c \in Probes
      <4>1. lost'
        BY <3>1, <1>6, Zenon DEF Lose
      <4> QED BY <4>1, <1>6, <2>2, allowed \in Nat DEF Lose, Counted, BreakerTypeOK
    <3>2. CASE c \notin Probes
      <4>1. Probes' = Probes /\ lost' = lost
        BY <3>2, <2>2, <1>6 DEF Lose, BreakerTypeOK
      <4>2. Cardinality(Probes)' = Cardinality(Probes)
        BY <4>1
      <4> QED BY <4>1, <4>2, <1>6 DEF Lose, Counted
    <3> QED BY <3>1, <3>2
  <2> QED BY <2>3, <2>4, <2>5
<1>7. ASSUME Elapse PROVE BreakerIInv'
  BY <1>7 DEF Elapse, BreakerTypeOK, ClosedIsHealthy, Counted
<1>8. ASSUME Reset PROVE BreakerIInv'
  <2>f. elapsed' \in BOOLEAN /\ lost' \in BOOLEAN
    BY <1>8, Zenon DEF Reset, ToClosed, BreakerTypeOK
  <2>1. BreakerTypeOK'
    BY <2>f, <1>8 DEF Reset, ToClosed, BreakerTypeOK
  <2> QED BY <2>1, <1>8 DEF Reset, ToClosed, ClosedIsHealthy, Counted
<1>9. ASSUME UNCHANGED breakerVars PROVE BreakerIInv'
  BY <1>9 DEF breakerVars, BreakerTypeOK, ClosedIsHealthy, Counted, Probes
<1> QED
  BY <1>1, <1>2, <1>3, <1>4, <1>5, <1>6, <1>7, <1>8, <1>9 DEF BreakerNext

\* BreakerIInv is invariant.
THEOREM BreakerInductive == BreakerSpec => []BreakerIInv
BY BreakerInitIInv, BreakerNextIInv, PTL DEF BreakerSpec

\* A breaker that closed again has forgotten its failures, and its variables
\* keep their types: never more slots taken than the configuration has.
THEOREM BreakerHeals == BreakerSpec => [](BreakerTypeOK /\ ClosedIsHealthy)
BY BreakerInductive, PTL DEF BreakerIInv

\* The probes running never outnumber the slots of the half-open period.
THEOREM ProbesAreBounded == BreakerSpec => []SlotsBounded
<1>1. BreakerIInv => SlotsBounded
  BY DEF BreakerIInv, Counted, BreakerTypeOK, SlotsBounded
<1> QED BY <1>1, BreakerInductive, PTL

\* A half-open breaker whose probes all report has one running or a slot for
\* another: for every normalised configuration, it is never stuck half-open.
THEOREM HalfOpenHasAWayOut == BreakerSpec => []NotWedged
<1>1. BreakerIInv => NotWedged
  <2> SUFFICES ASSUME BreakerIInv, state = "half-open", ~lost, Probes = {} PROVE allowed < Requests
    BY DEF NotWedged
  <2>1. Cardinality(Probes) = 0
    BY FS_EmptySet
  <2> QED BY <2>1, NormalConfig DEF BreakerIInv, Counted, BreakerTypeOK
<1> QED BY <1>1, BreakerInductive, PTL

\* The breaker of any normalised configuration, with any number of callers:
\* healthy when closed, its probes within its slots, never stuck half-open.
THEOREM BreakerIsSafe == BreakerSpec => []BreakerSafe
BY BreakerHeals, ProbesAreBounded, HalfOpenHasAWayOut, PTL DEF BreakerSafe
-----------------------------------------------------------------------------
(***************************************************************************)
(* FairScheduler.  A job takes, in virtual time, the interval of its cost  *)
(* that ends at its stamp.  The queued jobs of a namespace lie in a row    *)
(* without a gap, the first begins no later than the clock and less than   *)
(* Unit before it, and to hand out that job moves the beginning of the row *)
(* by what the namespace was given.                                        *)
(***************************************************************************)
\* When a job begins in virtual time, and the first jobs of a namespace.
Begins(j) == j.finish - j.cost
Front(f) == {j \in queue : j.ns = f /\ \A k \in queue : k.ns = f => j.finish <= k.finish}

\* The jobs of a namespace that has some follow one another in virtual time
\* without a gap or an overlap, from no later than the clock up to its tag.
JobsInLine ==
  /\ \A j \in queue : virtual <= j.finish /\ j.finish <= tags[j.ns]
  /\ \A j, k \in queue : j.ns = k.ns /\ j # k => k.finish <= Begins(j) \/ j.finish <= Begins(k)
  /\ \A j \in queue : Begins(j) <= virtual \/ \E k \in queue : k.ns = j.ns /\ k.finish = Begins(j)
  /\ \A j \in queue : tags[j.ns] = j.finish \/ \E k \in queue : k.ns = j.ns /\ Begins(k) = j.finish
  /\ \A f \in Namespaces : tags[f] <= virtual \/ \E k \in queue : k.ns = f /\ k.finish = tags[f]
  /\ \A j \in queue : Front(j.ns) # {}

\* While two namespaces have jobs, the lead of the one over the other is how
\* much later its first job begins, up to what that was when both came to have jobs.
LeadsInLine ==
  /\ \A f, g \in Namespaces : ~({f, g} \subseteq Backlogged(queue)) => share[f][g] = 0
  /\ \A f, g \in Namespaces : \A j \in Front(f), k \in Front(g) :
       (Begins(j) - Begins(k)) - (share[f][g] - share[g][f]) \in (-Unit)..Unit

\* No job is in two places.
OnePlace ==
  /\ IsFiniteSet(queue)
  /\ \A j, k \in queue : j.id = k.id => j = k
  /\ Queued \cap Handed = {} /\ Queued \cap done = {} /\ Handed \cap done = {}
  /\ \A i, k \in 1..Len(workCh) : workCh[i] = workCh[k] => i = k

\* The inductive invariant of the scheduler.
SchedulerIInv == SchedulerTypeOK /\ JobsInLine /\ LeadsInLine /\ OnePlace /\ EachJobOnce

\* The cost of a job at the weight its namespace has.
LEMMA CostType ==
  ASSUME SchedulerTypeOK, NEW ns \in Namespaces
  PROVE  Cost[weights[ns]] \in 1..Unit
BY SchedulerAssumption DEF SchedulerTypeOK

\* A new scheduler has no jobs at all.
LEMMA SchedulerInitIInv == SchedulerInit => SchedulerIInv
<1> SUFFICES ASSUME SchedulerInit PROVE SchedulerIInv
  OBVIOUS
<1> USE SchedulerAssumption DEF SchedulerInit
<1>1. workCh = <<>> /\ Len(workCh) = 0 /\ workCh \in Seq(1..count)
  BY EmptySeq
<1>2. SchedulerTypeOK
  <2>1. weights \in [Namespaces -> DOMAIN Cost] /\ tags \in [Namespaces -> Nat]
    OBVIOUS
  <2>2. share \in [Namespaces -> [Namespaces -> Nat]]
    OBVIOUS
  <2>3. started \in BOOLEAN /\ pool \in {"off", "on", "ending"}
    OBVIOUS
  <2>4. queue = {} /\ count = 0 /\ virtual = 0 /\ done = {}
    OBVIOUS
  <2> HIDE DEF SchedulerInit
  <2> QED BY <1>1, <2>1, <2>2, <2>3, <2>4 DEF SchedulerTypeOK
<1>3. Queued = {} /\ Handed = {}
  BY <1>1 DEF Queued, Handed
<1>4. OnePlace
  BY <1>1, <1>3, FS_EmptySet DEF OnePlace
<1>5. EachJobOnce
  BY <1>1, <1>3, FS_EmptySet DEF EachJobOnce
<1>6. JobsInLine
  BY DEF JobsInLine
<1>7. LeadsInLine
  BY DEF LeadsInLine, Front, Backlogged
<1> QED BY <1>2, <1>4, <1>5, <1>6, <1>7 DEF SchedulerIInv

\* The first jobs of a namespace begin about when the clock shows.
LEMMA FrontsAreNear ==
  ASSUME SchedulerTypeOK, JobsInLine, NEW f \in Namespaces, NEW j \in Front(f)
  PROVE  Begins(j) \in (virtual - Unit)..virtual
<1>1. /\ j \in queue /\ j.ns = f /\ j.finish \in Nat /\ j.cost \in 1..Unit /\ virtual \in Nat /\ Unit \in Nat
      /\ \A k \in queue : k.ns = f => j.finish <= k.finish
  BY SchedulerAssumption DEF SchedulerTypeOK, Front
<1>2. virtual <= j.finish
  BY <1>1 DEF JobsInLine
<1>3. ~\E k \in queue : k.ns = j.ns /\ k.finish = Begins(j)
  BY <1>1 DEF Begins
<1>4. Begins(j) <= virtual
  BY <1>1, <1>3 DEF JobsInLine
<1> QED BY <1>1, <1>2, <1>4 DEF Begins

\* What is fair about it.
LEMMA LeadsAreBounded ==
  ASSUME SchedulerIInv
  PROVE  FairShare
<1> SUFFICES ASSUME NEW f \in Namespaces, NEW g \in Namespaces
             PROVE  share[f][g] - share[g][f] <= 2 * Unit
  BY DEF FairShare
<1> USE DEF SchedulerIInv
<1>1. share[f][g] \in Nat /\ share[g][f] \in Nat /\ Unit \in Nat /\ virtual \in Nat
  BY SchedulerAssumption DEF SchedulerTypeOK
<1>2. CASE {f, g} \subseteq Backlogged(queue)
  <2>1. PICK j \in Front(f), k \in Front(g) : TRUE
    BY <1>2 DEF JobsInLine, Backlogged
  <2>2. Begins(j) \in (virtual - Unit)..virtual /\ Begins(k) \in (virtual - Unit)..virtual
    BY <2>1, FrontsAreNear
  <2>3. (Begins(j) - Begins(k)) - (share[f][g] - share[g][f]) \in (-Unit)..Unit
    BY <2>1 DEF LeadsInLine
  <2> QED BY <1>1, <2>2, <2>3
<1>3. CASE ~({f, g} \subseteq Backlogged(queue))
  BY <1>1, <1>3 DEF LeadsInLine
<1> QED BY <1>2, <1>3

\* What a job of the queue is.
LEMMA JobRow ==
  ASSUME SchedulerTypeOK, NEW j \in queue
  PROVE  /\ j.id \in 1..count /\ j.ns \in Namespaces /\ j.finish \in Nat /\ j.cost \in 1..Unit
         /\ Unit \in Nat /\ count \in Nat /\ virtual \in Nat /\ tags[j.ns] \in Nat
         /\ Begins(j) \in Int /\ Begins(j) < j.finish /\ j.finish - Begins(j) = j.cost
BY SchedulerAssumption DEF SchedulerTypeOK, Begins

\* A new job begins at its namespace's stamp, after all its jobs.
LEMMA EnqueueInLine ==
  ASSUME SchedulerIInv, NEW ns \in Namespaces, Enqueue(ns)
  PROVE  SchedulerTypeOK' /\ JobsInLine' /\ LeadsInLine'
<1> DEFINE c == Cost[weights[ns]]
           S == Stamp(ns)
           x == [id |-> count + 1, ns |-> ns, finish |-> S + c, cost |-> c]
<1> USE DEF SchedulerIInv
<1>1. /\ c \in 1..Unit /\ Unit \in Nat /\ count \in Nat /\ virtual \in Nat
      /\ tags \in [Namespaces -> Nat] /\ count + 1 \in 1..(count + 1) /\ MaxJobs \in Nat
  BY CostType, SchedulerAssumption DEF SchedulerTypeOK
<1>2. S \in Nat /\ virtual <= S /\ tags[ns] <= S /\ (S = virtual \/ S = tags[ns])
      /\ (S # tags[ns] => tags[ns] <= virtual)
  BY <1>1 DEF Stamp, Later
<1>3. /\ count < MaxJobs /\ count' = count + 1
      /\ tags' = [tags EXCEPT ![ns] = S + c] /\ queue' = queue \cup {x}
      /\ UNCHANGED <<virtual, weights, share, started, pool, workCh, done>>
  BY DEF Enqueue, poolVars, workVars
<1>4. /\ x.id = count + 1 /\ x.ns = ns /\ x.finish = S + c /\ x.cost = c /\ Begins(x) = S
      /\ x \in [id: 1..(count + 1), ns: Namespaces, finish: Nat, cost: 1..Unit]
  BY <1>1, <1>2 DEF Begins
<1>5. tags' \in [Namespaces -> Nat] /\ tags'[ns] = S + c /\ \A f \in Namespaces : f # ns => tags'[f] = tags[f]
  BY <1>1, <1>2, <1>3
<1> HIDE DEF c, S, x
<1>6. SchedulerTypeOK'
  <2>1. queue' \subseteq [id: 1..count', ns: Namespaces, finish: Nat, cost: 1..Unit]
    BY <1>1, <1>3, <1>4 DEF SchedulerTypeOK
  <2>2. workCh' \in Seq(1..count') /\ Len(workCh') <= WorkRoom /\ done' \subseteq 1..count'
    <3>1. 1..count \subseteq 1..count'
      BY <1>1, <1>3
    <3>2. workCh \in Seq(1..count) /\ Len(workCh) <= WorkRoom /\ done \subseteq 1..count
      BY DEF SchedulerTypeOK
    <3>3. workCh \in Seq(1..count')
      BY <3>1, <3>2, SeqMonotonic
    <3> QED BY <1>3, <3>1, <3>2, <3>3
  <2>3. count' \in 0..MaxJobs /\ virtual' \in Nat
    BY <1>1, <1>3
  <2>4. weights' \in [Namespaces -> DOMAIN Cost] /\ started' \in BOOLEAN
        /\ pool' \in {"off", "on", "ending"} /\ share' \in [Namespaces -> [Namespaces -> Nat]]
    BY <1>3 DEF SchedulerTypeOK
  <2> QED BY <1>5, <2>1, <2>2, <2>3, <2>4 DEF SchedulerTypeOK
<1>7. ASSUME NEW j \in queue, j.ns = ns
      PROVE  j.finish <= tags[ns] /\ j.finish <= S /\ j.finish < x.finish
  BY <1>1, <1>2, <1>4, <1>7, JobRow DEF JobsInLine
<1>8. ASSUME NEW j \in queue
      PROVE  j.finish <= tags[j.ns] /\ virtual <= j.finish /\ j.finish <= tags'[j.ns]
  <2>1. j.finish <= tags[j.ns] /\ virtual <= j.finish
    BY DEF JobsInLine
  <2>2. CASE j.ns = ns
    BY <1>1, <1>2, <1>5, <1>7, <2>1, <2>2, JobRow
  <2>3. CASE j.ns # ns
    BY <1>5, <2>1, <2>3, JobRow
  <2> QED BY <2>1, <2>2, <2>3
<1>9. \A f \in Namespaces : \A j \in queue : j.ns = f => \E k \in Front(f) : k \in queue /\ k.ns = f
  BY DEF JobsInLine, Front
<1>10. \A f \in Namespaces : f \in Backlogged(queue) => Front(f)' = Front(f)
  <2> SUFFICES ASSUME NEW f \in Namespaces, f \in Backlogged(queue)
               PROVE  Front(f)' = Front(f)
    OBVIOUS
  <2>1. PICK i \in Front(f) : i \in queue /\ i.ns = f
    BY <1>9 DEF Backlogged
  <2>2. CASE f # ns
    BY <1>3, <1>4, <2>2 DEF Front
  <2>3. CASE f = ns
    <3>1. x \notin Front(f)'
      BY <1>1, <1>2, <1>3, <1>4, <1>7, <2>1, <2>3, JobRow DEF Front
    <3>2. \A j \in queue : j.ns = f => j.finish <= x.finish
      BY <1>1, <1>2, <1>4, <1>7, <2>3, JobRow
    <3> QED BY <1>3, <3>1, <3>2 DEF Front
  <2> QED BY <2>2, <2>3
<1>11. ns \notin Backlogged(queue) => Front(ns)' = {x}
  BY <1>1, <1>2, <1>3, <1>4 DEF Front, Backlogged
<1>12. JobsInLine'
  <2>1. \A j \in queue' : virtual' <= j.finish /\ j.finish <= tags'[j.ns]
    BY <1>1, <1>2, <1>3, <1>4, <1>5, <1>8
  <2>2. \A j, k \in queue' : j.ns = k.ns /\ j # k => k.finish <= Begins(j) \/ j.finish <= Begins(k)
    BY <1>3, <1>4, <1>7 DEF JobsInLine
  <2>3. \A j \in queue' : Begins(j) <= virtual' \/ \E k \in queue' : k.ns = j.ns /\ k.finish = Begins(j)
    <3> SUFFICES ASSUME NEW j \in queue'
                 PROVE  Begins(j) <= virtual \/ \E k \in queue' : k.ns = j.ns /\ k.finish = Begins(j)
      BY <1>3
    <3>1. CASE j \in queue
      BY <1>3, <3>1 DEF JobsInLine
    <3>2. CASE j = x /\ S = virtual
      BY <1>1, <1>4, <3>2
    <3>3. CASE j = x /\ S = tags[ns]
      BY <1>1, <1>3, <1>4, <3>3 DEF JobsInLine
    <3> QED BY <1>2, <1>3, <3>1, <3>2, <3>3
  <2>4. \A j \in queue' : tags'[j.ns] = j.finish \/ \E k \in queue' : k.ns = j.ns /\ Begins(k) = j.finish
    <3> SUFFICES ASSUME NEW j \in queue'
                 PROVE  tags'[j.ns] = j.finish \/ \E k \in queue' : k.ns = j.ns /\ Begins(k) = j.finish
      OBVIOUS
    <3>1. CASE j = x
      BY <1>4, <1>5, <3>1
    <3>2. CASE j \in queue /\ tags[j.ns] # j.finish
      BY <1>3, <3>2 DEF JobsInLine
    <3>3. CASE j \in queue /\ tags[j.ns] = j.finish /\ j.ns # ns
      BY <1>5, <3>3, JobRow
    <3>4. CASE j \in queue /\ tags[j.ns] = j.finish /\ j.ns = ns
      <4>1. virtual <= tags[ns]
        BY <1>8, <3>4
      <4>2. S = tags[ns]
        BY <1>1, <1>2, <4>1
      <4> QED BY <1>3, <1>4, <3>4, <4>2
    <3> QED BY <1>3, <3>1, <3>2, <3>3, <3>4
  <2>5. \A f \in Namespaces : tags'[f] <= virtual' \/ \E k \in queue' : k.ns = f /\ k.finish = tags'[f]
    BY <1>3, <1>4, <1>5 DEF JobsInLine
  <2>6. \A j \in queue' : Front(j.ns)' # {}
    <3> SUFFICES ASSUME NEW j \in queue' PROVE Front(j.ns)' # {}
      OBVIOUS
    <3>1. CASE j \in queue
      <4>1. j.ns \in Backlogged(queue) /\ j.ns \in Namespaces
        BY <3>1, JobRow DEF Backlogged
      <4> QED BY <1>10, <3>1, <4>1 DEF JobsInLine
    <3>2. CASE j = x
      <4>1. CASE ns \in Backlogged(queue)
        <5>1. Front(ns) # {}
          BY <4>1 DEF JobsInLine, Backlogged
        <5> QED BY <1>4, <1>10, <3>2, <4>1, <5>1
      <4>2. CASE ns \notin Backlogged(queue)
        BY <1>4, <1>11, <3>2, <4>2
      <4> QED BY <4>1, <4>2
    <3> QED BY <1>3, <3>1, <3>2
  <2> QED BY <2>1, <2>2, <2>3, <2>4, <2>5, <2>6 DEF JobsInLine, Begins
<1>13. LeadsInLine'
  <2>1. Backlogged(queue) \subseteq Backlogged(queue')
    BY <1>3 DEF Backlogged
  <2>2. \A f, g \in Namespaces : ~({f, g} \subseteq Backlogged(queue')) => share'[f][g] = 0
    BY <1>3, <2>1 DEF LeadsInLine
  <2>3. ASSUME NEW f \in Namespaces, NEW j \in Front(f)'
        PROVE  Begins(j) \in (virtual - Unit)..virtual
    <3>1. CASE f \in Backlogged(queue)
      BY <1>10, <2>3, <3>1, FrontsAreNear
    <3>2. CASE f \notin Backlogged(queue)
      <4>1. f = ns
        BY <1>3, <1>4, <2>3, <3>2 DEF Front, Backlogged
      <4>2. j = x
        BY <1>11, <2>3, <3>2, <4>1
      <4>3. ~\E k \in queue : k.ns = ns
        BY <3>2, <4>1 DEF Backlogged
      <4>4. tags[ns] <= virtual
        BY <4>3 DEF JobsInLine
      <4>5. S = virtual
        BY <1>1, <1>2, <4>4
      <4> QED BY <1>1, <1>4, <4>2, <4>5
    <3> QED BY <3>1, <3>2
  <2>4. ASSUME NEW f \in Namespaces, NEW g \in Namespaces, NEW j \in Front(f)', NEW k \in Front(g)'
        PROVE  (Begins(j) - Begins(k)) - (share[f][g] - share[g][f]) \in (-Unit)..Unit
    <3>1. CASE {f, g} \subseteq Backlogged(queue)
      BY <1>10, <2>4, <3>1 DEF LeadsInLine
    <3>2. CASE ~({f, g} \subseteq Backlogged(queue))
      <4>1. share[f][g] = 0 /\ share[g][f] = 0
        BY <3>2 DEF LeadsInLine
      <4>2. Begins(j) \in (virtual - Unit)..virtual /\ Begins(k) \in (virtual - Unit)..virtual
        BY <2>3, <2>4
      <4> QED BY <1>1, <4>1, <4>2
    <3> QED BY <3>1, <3>2
  <2> QED BY <1>3, <2>2, <2>4 DEF LeadsInLine, Begins
<1> QED BY <1>6, <1>12, <1>13

\* After the earliest job its namespace goes on with the job that begins where it ends.
LEMMA Successor ==
  ASSUME SchedulerIInv, NEW j \in Earliest, NEW i \in queue, i.ns = j.ns, i # j
  PROVE  \E k \in queue : /\ k # j /\ k.ns = j.ns /\ Begins(k) = j.finish
                          /\ \A m \in queue \ {j} :
                               m.ns = j.ns => k.finish <= m.finish /\ (m # k => k.finish < m.finish)
<1> USE DEF SchedulerIInv
<1>1. j \in queue /\ \A k \in queue : j.finish <= k.finish
  BY DEF Earliest
<1>2. \A k \in queue : k.ns = j.ns /\ k # j => j.finish <= Begins(k)
  <2> SUFFICES ASSUME NEW k \in queue, k.ns = j.ns, k # j PROVE j.finish <= Begins(k)
    OBVIOUS
  <2>1. j.finish <= k.finish /\ (k.finish <= Begins(j) \/ j.finish <= Begins(k))
    BY <1>1 DEF JobsInLine
  <2> QED BY <1>1, <2>1, JobRow
<1>3. tags[j.ns] # j.finish
  <2>1. i.finish <= tags[j.ns] /\ j.finish <= Begins(i)
    BY <1>2 DEF JobsInLine
  <2> QED BY <1>1, <2>1, JobRow
<1>4. PICK k \in queue : k.ns = j.ns /\ Begins(k) = j.finish
  BY <1>1, <1>3 DEF JobsInLine
<1>5. k # j
  BY <1>1, <1>4, JobRow
<1>6. ASSUME NEW m \in queue \ {j}, m.ns = j.ns, m # k
      PROVE  k.finish < m.finish
  <2>1. k.finish <= Begins(m) \/ m.finish <= Begins(k)
    BY <1>4, <1>6 DEF JobsInLine
  <2>2. j.finish <= Begins(m)
    BY <1>2, <1>6
  <2> QED BY <1>4, <1>6, <2>1, <2>2, JobRow
<1>7. \A m \in queue \ {j} : m.ns = j.ns => k.finish <= m.finish /\ (m # k => k.finish < m.finish)
  BY <1>4, <1>6, JobRow
<1> QED BY <1>4, <1>5, <1>7

\* The clock moves to the finish of the job that is dispatched, the earliest: one
\* that is put back leaves the line as it was.
LEMMA PutBackInLine ==
  ASSUME SchedulerIInv, NEW j \in Earliest, virtual' = j.finish,
         UNCHANGED <<queue, share, count, tags, weights, done, started, pool, workCh>>
  PROVE  SchedulerTypeOK' /\ JobsInLine' /\ LeadsInLine'
<1> USE DEF SchedulerIInv
<1>1. j \in queue /\ (\A k \in queue : j.finish <= k.finish) /\ j.finish \in Nat /\ virtual \in Nat
      /\ virtual <= j.finish
  BY JobRow DEF Earliest, JobsInLine
<1>2. SchedulerTypeOK'
  BY <1>1 DEF SchedulerTypeOK
<1>3. \A f : Front(f)' = Front(f)
  BY DEF Front
<1>4. LeadsInLine'
  BY <1>3 DEF LeadsInLine, Backlogged, Begins
<1>5. JobsInLine'
  <2>1. \A i \in queue : j.finish <= i.finish /\ i.finish <= tags[i.ns]
    BY <1>1 DEF JobsInLine
  <2>2. \A i \in queue : Begins(i) <= j.finish \/ \E k \in queue : k.ns = i.ns /\ k.finish = Begins(i)
    BY <1>1, JobRow DEF JobsInLine
  <2>3. \A f \in Namespaces : tags[f] <= j.finish \/ \E k \in queue : k.ns = f /\ k.finish = tags[f]
    <3>1. \A f \in Namespaces : tags[f] \in Nat
      BY DEF SchedulerTypeOK
    <3> QED BY <1>1, <3>1 DEF JobsInLine
  <2> QED BY <1>1, <1>3, <2>1, <2>2, <2>3 DEF JobsInLine, Begins
<1> QED BY <1>2, <1>4, <1>5

\* One that is handed over leaves its namespace, if it has more jobs, with a first
\* job that begins as much later as the namespace was given.
LEMMA HandOverInLine ==
  ASSUME SchedulerIInv, NEW j \in Earliest, virtual' = j.finish,
         queue' = queue \ {j}, share' = Shares(j),
         Len(workCh) < WorkRoom, workCh' = Append(workCh, j.id),
         UNCHANGED <<count, tags, weights, done, started, pool>>
  PROVE  SchedulerTypeOK' /\ JobsInLine' /\ LeadsInLine'
<1> USE DEF SchedulerIInv
<1>1. j \in queue /\ (\A k \in queue : j.finish <= k.finish) /\ virtual <= j.finish
  BY DEF Earliest, JobsInLine
<1>2. /\ j.id \in 1..count /\ j.ns \in Namespaces /\ j.finish \in Nat /\ j.cost \in 1..Unit
      /\ Unit \in Nat /\ virtual \in Nat /\ count \in Nat /\ WorkRoom \in Nat
      /\ Begins(j) \in Int /\ Begins(j) + j.cost = j.finish
  <2>1. WorkRoom \in Nat
    BY SchedulerAssumption
  <2>2. j.finish - Begins(j) = j.cost
    BY <1>1, JobRow
  <2> QED BY <1>1, <2>1, <2>2, JobRow
<1>3. \A f, g \in Namespaces :
        /\ share'[f][g] = IF {f, g} \subseteq Backlogged(queue')
                          THEN share[f][g] + (IF f = j.ns THEN j.cost ELSE 0) ELSE 0
        /\ share[f][g] \in Nat
  BY DEF Shares, SchedulerTypeOK
<1>4. SchedulerTypeOK'
  <2>1. share' \in [Namespaces -> [Namespaces -> Nat]]
    <3>1. \A f, g \in Namespaces : share[f][g] + (IF f = j.ns THEN j.cost ELSE 0) \in Nat
      BY <1>2, <1>3
    <3> QED BY <3>1 DEF Shares
  <2>2. workCh' \in Seq(1..count) /\ Len(workCh') <= WorkRoom
    BY <1>2, AppendProperties DEF SchedulerTypeOK
  <2> QED BY <1>2, <2>1, <2>2 DEF SchedulerTypeOK
<1>5. \A f \in Namespaces : f # j.ns => Front(f)' = Front(f)
  BY DEF Front
<1>6. ASSUME NEW i \in queue', i.ns = j.ns
      PROVE  Front(j.ns)' # {} /\ \A k \in Front(j.ns)' : Begins(k) = j.finish
  <2>1. PICK k \in queue : /\ k # j /\ k.ns = j.ns /\ Begins(k) = j.finish
                           /\ \A m \in queue \ {j} :
                                m.ns = j.ns => k.finish <= m.finish /\ (m # k => k.finish < m.finish)
    BY <1>6, Successor
  <2>2. k \in Front(j.ns)'
    BY <2>1 DEF Front
  <2>3. ASSUME NEW m \in Front(j.ns)' PROVE m = k
    <3>1. m \in queue \ {j} /\ m.ns = j.ns /\ m.finish <= k.finish
      BY <2>1, <2>3 DEF Front
    <3> QED BY <2>1, <3>1, JobRow
  <2> QED BY <2>1, <2>2, <2>3
<1>7. JobsInLine'
  <2>1. \A i \in queue' : j.finish <= i.finish /\ i.finish <= tags[i.ns]
    BY <1>1 DEF JobsInLine
  <2>2. \A i \in queue' : Begins(i) <= j.finish \/ \E k \in queue' : k.ns = i.ns /\ k.finish = Begins(i)
    BY <1>1, <1>2, JobRow DEF JobsInLine
  <2>3. \A f \in Namespaces : tags[f] <= j.finish \/ \E k \in queue' : k.ns = f /\ k.finish = tags[f]
    <3>1. \A f \in Namespaces : tags[f] \in Nat
      BY DEF SchedulerTypeOK
    <3> QED BY <1>1, <1>2, <3>1 DEF JobsInLine
  <2>4. \A i \in queue' : tags[i.ns] = i.finish \/ \E k \in queue' : k.ns = i.ns /\ Begins(k) = i.finish
    <3> SUFFICES ASSUME NEW i \in queue', tags[i.ns] # i.finish
                 PROVE  \E k \in queue' : k.ns = i.ns /\ Begins(k) = i.finish
      OBVIOUS
    <3>1. PICK k \in queue : k.ns = i.ns /\ Begins(k) = i.finish
      BY DEF JobsInLine
    <3>2. k # j
      BY <1>1, <1>2, <3>1, JobRow
    <3> QED BY <3>1, <3>2
  <2>5. \A i \in queue' : Front(i.ns)' # {}
    <3>1. \A i \in queue' : i.ns \in Namespaces /\ Front(i.ns) # {}
      BY JobRow DEF JobsInLine
    <3> QED BY <1>5, <1>6, <3>1
  <2>6. \A i, k \in queue' : i.ns = k.ns /\ i # k => k.finish <= Begins(i) \/ i.finish <= Begins(k)
    BY DEF JobsInLine
  <2> QED BY <2>1, <2>2, <2>3, <2>4, <2>5, <2>6 DEF JobsInLine, Begins
<1>8. LeadsInLine'
  <2>1. \A f, g \in Namespaces : ~({f, g} \subseteq Backlogged(queue')) => share'[f][g] = 0
    BY <1>3
  <2>2. \A f \in Namespaces : f \in Backlogged(queue') => f \in Backlogged(queue)
    BY DEF Backlogged
  <2>3. j \in Front(j.ns)
    BY <1>1 DEF Front
  <2>4. ASSUME NEW f \in Namespaces, NEW a \in Front(f)'
        PROVE  /\ f \in Backlogged(queue') /\ Begins(a) \in Int
               /\ \E b \in Front(f) : Begins(b) \in Int
                    /\ Begins(a) = Begins(b) + (IF f = j.ns THEN j.cost ELSE 0)
    <3>1. a \in queue' /\ a.ns = f /\ Begins(a) \in Int
      BY <2>4, JobRow DEF Front
    <3>2. CASE f = j.ns
      BY <1>2, <1>6, <2>3, <2>4, <3>1, <3>2 DEF Backlogged
    <3>3. CASE f # j.ns
      BY <1>2, <1>5, <2>4, <3>1, <3>3 DEF Backlogged
    <3> QED BY <3>2, <3>3
  <2>5. ASSUME NEW f \in Namespaces, NEW g \in Namespaces, NEW a \in Front(f)', NEW b \in Front(g)'
        PROVE  (Begins(a) - Begins(b)) - (share'[f][g] - share'[g][f]) \in (-Unit)..Unit
    <3>1. PICK d \in Front(f) : Begins(d) \in Int
            /\ Begins(a) = Begins(d) + (IF f = j.ns THEN j.cost ELSE 0)
      BY <2>4, <2>5
    <3>2. PICK e \in Front(g) : Begins(e) \in Int
            /\ Begins(b) = Begins(e) + (IF g = j.ns THEN j.cost ELSE 0)
      BY <2>4, <2>5
    <3>3. (Begins(d) - Begins(e)) - (share[f][g] - share[g][f]) \in (-Unit)..Unit
      BY DEF LeadsInLine
    <3>4. /\ share'[f][g] = share[f][g] + (IF f = j.ns THEN j.cost ELSE 0)
          /\ share'[g][f] = share[g][f] + (IF g = j.ns THEN j.cost ELSE 0)
          /\ share[f][g] \in Nat /\ share[g][f] \in Nat
      <4>1. f \in Backlogged(queue') /\ g \in Backlogged(queue')
        BY <2>4, <2>5
      <4>2. {f, g} \subseteq Backlogged(queue') /\ {g, f} \subseteq Backlogged(queue')
        BY <4>1
      <4> QED BY <1>3, <4>2
    <3> DEFINE u == IF f = j.ns THEN j.cost ELSE 0
               v == IF g = j.ns THEN j.cost ELSE 0
    <3>5. u \in Nat /\ v \in Nat
      BY <1>2
    <3>6. /\ Begins(a) = Begins(d) + u /\ Begins(b) = Begins(e) + v
          /\ share'[f][g] = share[f][g] + u /\ share'[g][f] = share[g][f] + v
      BY <3>1, <3>2, <3>4
    <3> HIDE DEF u, v
    <3>7. (Begins(a) - Begins(b)) - (share'[f][g] - share'[g][f])
            = (Begins(d) - Begins(e)) - (share[f][g] - share[g][f])
      <4>1. Begins(d) \in Int /\ Begins(e) \in Int /\ share[f][g] \in Nat /\ share[g][f] \in Nat
        BY <3>1, <3>2, <3>4
      <4> DEFINE p == Begins(d)
                 q == Begins(e)
                 s == share[f][g]
                 t == share[g][f]
      <4>2. p \in Int /\ q \in Int /\ s \in Int /\ t \in Int
        BY <4>1
      <4> HIDE DEF p, q, s, t
      <4>3. ((p + u) - (q + v)) - ((s + u) - (t + v)) = (p - q) - (s - t)
        BY <3>5, <4>2
      <4> QED BY <3>6, <4>3 DEF p, q, s, t
    <3> QED BY <3>3, <3>7
  <2> QED BY <2>1, <2>5 DEF LeadsInLine, Begins
<1> QED BY <1>4, <1>7, <1>8

\* The places of the jobs are finite sets, of ids up to the count.
LEMMA PlacesType ==
  ASSUME SchedulerIInv
  PROVE  /\ IsFiniteSet(queue) /\ IsFiniteSet(done)
         /\ Cardinality(queue) \in Nat /\ Cardinality(done) \in Nat
         /\ workCh \in Seq(1..count) /\ Len(workCh) \in Nat /\ count \in Nat
         /\ Queued \subseteq 1..count /\ Handed \subseteq 1..count /\ done \subseteq 1..count
         /\ \A i \in 1..Len(workCh) : workCh[i] \in 1..count
<1> USE DEF SchedulerIInv
<1>1. workCh \in Seq(1..count) /\ Len(workCh) \in Nat /\ count \in Nat /\ done \subseteq 1..count
  BY DEF SchedulerTypeOK
<1>2. IsFiniteSet(queue) /\ Cardinality(queue) \in Nat
  BY FS_CardinalityType DEF OnePlace
<1>3. IsFiniteSet(done) /\ Cardinality(done) \in Nat
  <2>1. IsFiniteSet(1..count)
    BY <1>1, FS_Interval
  <2>2. IsFiniteSet(done)
    BY <1>1, <2>1, FS_Subset
  <2> QED BY <2>2, FS_CardinalityType
<1>4. Queued \subseteq 1..count
  BY JobRow DEF Queued
<1>5. \A i \in 1..Len(workCh) : workCh[i] \in 1..count
  BY <1>1, ElementOfSeq
<1> QED BY <1>1, <1>2, <1>3, <1>4, <1>5 DEF Handed

\* A new job comes under an id no job has.
LEMMA EnqueueMoves ==
  ASSUME SchedulerIInv, NEW ns \in Namespaces, Enqueue(ns)
  PROVE  OnePlace' /\ EachJobOnce'
<1> DEFINE x == [id |-> count + 1, ns |-> ns, finish |-> Stamp(ns) + Cost[weights[ns]],
                 cost |-> Cost[weights[ns]]]
<1> USE DEF SchedulerIInv
<1>1. count' = count + 1 /\ queue' = queue \cup {x} /\ workCh' = workCh /\ done' = done /\ x.id = count + 1
  BY DEF Enqueue, poolVars, workVars
<1> HIDE DEF x
<1>2. \A j \in queue : j.id # x.id
  <2>1. \A j \in queue : j.id \in 1..count
    BY JobRow
  <2>2. count + 1 \notin 1..count
    BY PlacesType
  <2> QED BY <1>1, <2>1, <2>2
<1>3. IsFiniteSet(queue') /\ Cardinality(queue') = Cardinality(queue) + 1
  BY <1>1, <1>2, PlacesType, FS_AddElement
<1>4. Queued' = Queued \cup {count + 1} /\ Handed' = Handed
  BY <1>1 DEF Queued, Handed
<1>5. count + 1 \notin 1..count /\ 1..(count + 1) = (1..count) \cup {count + 1}
  BY PlacesType
<1>6. OnePlace'
  <2>1. \A j, k \in queue' : j.id = k.id => j = k
    BY <1>1, <1>2 DEF OnePlace
  <2>2. Queued' \cap Handed' = {} /\ Queued' \cap done' = {} /\ Handed' \cap done' = {}
    BY <1>1, <1>4, <1>5, PlacesType DEF OnePlace
  <2> QED BY <1>1, <1>3, <2>1, <2>2 DEF OnePlace
<1>7. EachJobOnce'
  <2>1. 1..count' = Queued' \cup Handed' \cup done'
    BY <1>1, <1>4, <1>5 DEF EachJobOnce
  <2>2. count' = Cardinality(queue') + Len(workCh') + Cardinality(done')
    BY <1>1, <1>3, PlacesType DEF EachJobOnce
  <2> QED BY <2>1, <2>2 DEF EachJobOnce
<1> QED BY <1>6, <1>7

\* A job that is handed over goes from the queue to the end of the channel.
LEMMA HandOverMoves ==
  ASSUME SchedulerIInv, NEW j \in queue, queue' = queue \ {j}, workCh' = Append(workCh, j.id),
         count' = count, done' = done
  PROVE  OnePlace' /\ EachJobOnce'
<1> USE DEF SchedulerIInv
<1> DEFINE n == Len(workCh)
<1>1. /\ j.id \in Queued /\ j.id \in 1..count /\ j.id \notin Handed /\ j.id \notin done /\ n \in Nat
      /\ Len(workCh') = n + 1 /\ workCh'[n + 1] = j.id
      /\ \A i \in 1..n : workCh'[i] = workCh[i] /\ workCh[i] \in Handed
  <2>1. j.id \in Queued /\ j.id \in 1..count
    BY JobRow DEF Queued
  <2> QED BY <2>1, PlacesType, AppendProperties DEF OnePlace, Handed
<1> HIDE DEF n
<1>2. Cardinality(queue') = Cardinality(queue) - 1 /\ IsFiniteSet(queue')
  BY PlacesType, FS_RemoveElement
<1>3. Queued' = Queued \ {j.id}
  BY DEF Queued, OnePlace
<1>4. 1..(n + 1) = (1..n) \cup {n + 1} /\ n = Len(workCh)
  BY <1>1 DEF n
<1>5. Handed' = Handed \cup {j.id}
  BY <1>1, <1>4 DEF Handed
<1>6. OnePlace'
  <2>1. \A i, k \in 1..(n + 1) : workCh'[i] = workCh'[k] => i = k
    BY <1>1, <1>4 DEF OnePlace
  <2>2. Queued' \cap Handed' = {} /\ Queued' \cap done' = {} /\ Handed' \cap done' = {}
    BY <1>1, <1>3, <1>5 DEF OnePlace
  <2> QED BY <1>1, <1>2, <2>1, <2>2 DEF OnePlace
<1>7. EachJobOnce'
  <2>1. 1..count' = Queued' \cup Handed' \cup done'
    BY <1>1, <1>3, <1>5 DEF EachJobOnce
  <2>2. count' = Cardinality(queue') + Len(workCh') + Cardinality(done')
    BY <1>1, <1>2, <1>4, PlacesType DEF EachJobOnce
  <2> QED BY <2>1, <2>2 DEF EachJobOnce
<1> QED BY <1>6, <1>7

\* A job that is executed goes from the front of the channel to those done.
LEMMA WorkMoves ==
  ASSUME SchedulerIInv, Work
  PROVE  SchedulerTypeOK' /\ OnePlace' /\ EachJobOnce'
<1> USE DEF SchedulerIInv
<1> DEFINE n == Len(workCh)
           h == Head(workCh)
<1>1. /\ workCh # <<>> /\ workCh' = Tail(workCh) /\ done' = done \cup {h}
      /\ UNCHANGED <<queue, count, virtual, tags, weights, share, started, pool>>
  BY DEF Work, queueVars, poolVars
<1>2. /\ h = workCh[1] /\ n \in Nat \ {0} /\ workCh' \in Seq(1..count) /\ Len(workCh') = n - 1
      /\ \A i \in 1..(n - 1) : workCh'[i] = workCh[i + 1]
  BY <1>1, PlacesType, HeadTailProperties, EmptySeq
<1>3. h \in Handed /\ h \in 1..count /\ h \notin Queued /\ h \notin done
  <2>1. h \in Handed
    BY <1>2 DEF Handed
  <2> QED BY <2>1, PlacesType DEF OnePlace
<1> HIDE DEF h
<1>4. IsFiniteSet(done') /\ Cardinality(done') = Cardinality(done) + 1
  BY <1>1, <1>3, PlacesType, FS_AddElement
<1>5. Queued' = Queued
  BY <1>1 DEF Queued
<1>6. Handed' = Handed \ {h}
  <2>1. Handed' \subseteq Handed \ {h}
    <3> SUFFICES ASSUME NEW i \in 1..(n - 1)
                 PROVE  workCh[i + 1] \in Handed /\ workCh[i + 1] # h
      BY <1>2 DEF Handed
    <3>1. i + 1 \in 1..n /\ 1 \in 1..n /\ i + 1 # 1
      BY <1>2
    <3> QED BY <1>2, <3>1 DEF Handed, OnePlace
  <2>2. Handed \ {h} \subseteq Handed'
    <3> SUFFICES ASSUME NEW i \in 1..n, workCh[i] # h PROVE workCh[i] \in Handed'
      BY DEF Handed
    <3>1. i - 1 \in 1..(n - 1) /\ (i - 1) + 1 = i
      BY <1>2
    <3> QED BY <1>2, <3>1 DEF Handed
  <2> QED BY <2>1, <2>2
<1>7. SchedulerTypeOK'
  <2>1. workCh' \in Seq(1..count') /\ Len(workCh') <= WorkRoom /\ done' \subseteq 1..count'
    <3>1. Len(workCh) <= WorkRoom /\ WorkRoom \in Nat /\ done \subseteq 1..count
      BY SchedulerAssumption DEF SchedulerTypeOK
    <3>2. n = Len(workCh)
      OBVIOUS
    <3>3. workCh' \in Seq(1..count') /\ done' \subseteq 1..count'
      BY <1>1, <1>2, <1>3, <3>1
    <3>4. Len(workCh') <= WorkRoom
      BY <1>2, <3>1, <3>2
    <3> QED BY <3>3, <3>4
  <2>2. /\ queue' \subseteq [id: 1..count', ns: Namespaces, finish: Nat, cost: 1..Unit]
        /\ count' \in 0..MaxJobs /\ virtual' \in Nat
        /\ tags' \in [Namespaces -> Nat] /\ weights' \in [Namespaces -> DOMAIN Cost]
        /\ started' \in BOOLEAN /\ pool' \in {"off", "on", "ending"}
        /\ share' \in [Namespaces -> [Namespaces -> Nat]]
    BY <1>1 DEF SchedulerTypeOK
  <2> QED BY <2>1, <2>2 DEF SchedulerTypeOK
<1>8. OnePlace'
  <2>1. \A i, k \in 1..(n - 1) : workCh'[i] = workCh'[k] => i = k
    <3> SUFFICES ASSUME NEW i \in 1..(n - 1), NEW k \in 1..(n - 1), workCh[i + 1] = workCh[k + 1]
                 PROVE  i = k
      BY <1>2
    <3>1. i + 1 \in 1..n /\ k + 1 \in 1..n
      BY <1>2
    <3>2. i + 1 = k + 1
      BY <3>1 DEF OnePlace
    <3> QED BY <1>2, <3>2
  <2>2. Queued' \cap Handed' = {} /\ Queued' \cap done' = {} /\ Handed' \cap done' = {}
    BY <1>1, <1>3, <1>5, <1>6 DEF OnePlace
  <2> QED BY <1>1, <1>2, <2>1, <2>2 DEF OnePlace
<1>9. EachJobOnce'
  <2>1. 1..count' = Queued' \cup Handed' \cup done'
    BY <1>1, <1>3, <1>5, <1>6 DEF EachJobOnce
  <2>2. count' = Cardinality(queue') + Len(workCh') + Cardinality(done')
    BY <1>1, <1>2, <1>4, PlacesType DEF EachJobOnce
  <2> QED BY <2>1, <2>2 DEF EachJobOnce
<1> QED BY <1>7, <1>8, <1>9

\* Every action keeps the lines of the namespaces, their leads and the jobs' places.
LEMMA SchedulerNextIInv ==
  ASSUME SchedulerIInv, [SchedulerNext]_schedulerVars
  PROVE  SchedulerIInv'
<1> USE DEF SchedulerIInv
<1>1. ASSUME UNCHANGED <<queue, count, virtual, tags, share, workCh, done>>, SchedulerTypeOK'
      PROVE  SchedulerIInv'
  <2>1. JobsInLine'
    BY <1>1 DEF JobsInLine, Front, Begins
  <2>2. LeadsInLine'
    BY <1>1 DEF LeadsInLine, Front, Begins, Backlogged
  <2>3. Queued' = Queued /\ Handed' = Handed
    BY <1>1 DEF Queued, Handed
  <2>4. OnePlace' /\ EachJobOnce'
    BY <1>1, <2>3 DEF OnePlace, EachJobOnce
  <2> QED BY <1>1, <2>1, <2>2, <2>4
<1>2. CASE UNCHANGED schedulerVars
  BY <1>1, <1>2 DEF schedulerVars, queueVars, poolVars, workVars, SchedulerTypeOK
<1>3. CASE \E ns \in Namespaces : Enqueue(ns)
  BY <1>3, EnqueueInLine, EnqueueMoves
<1>4. ASSUME NEW ns \in Namespaces, NEW w \in Weights[ns], SetWeight(ns, w)
      PROVE  SchedulerIInv'
  <2>1. weights' \in [Namespaces -> DOMAIN Cost]
    BY <1>4, SchedulerAssumption DEF SetWeight, SchedulerTypeOK
  <2>2. UNCHANGED <<queue, count, virtual, tags, share, workCh, done, started, pool>>
    BY <1>4 DEF SetWeight, poolVars, workVars
  <2> QED BY <1>1, <2>1, <2>2 DEF SchedulerTypeOK
<1>5. CASE DispatchNext
  <2>1. PICK j \in Earliest : Dispatch(j)
    BY <1>5 DEF DispatchNext
  <2>2. j \in queue /\ virtual' = j.finish /\ UNCHANGED <<count, tags, weights, done, started, pool>>
    BY <1>5, <2>1 DEF DispatchNext, Dispatch, Earliest, poolVars
  <2>3. CASE UNCHANGED <<queue, share, workCh>>
    <3>1. OnePlace' /\ EachJobOnce'
      <4>1. Queued' = Queued /\ Handed' = Handed
        BY <2>3 DEF Queued, Handed
      <4> QED BY <2>2, <2>3, <4>1 DEF OnePlace, EachJobOnce
    <3> QED BY <2>1, <2>2, <2>3, <3>1, PutBackInLine
  <2>4. CASE /\ Len(workCh) < WorkRoom
             /\ queue' = queue \ {j} /\ share' = Shares(j)
             /\ workCh' = Append(workCh, j.id)
    BY <2>1, <2>2, <2>4, HandOverInLine, HandOverMoves
  <2> QED BY <2>1, <2>3, <2>4 DEF Dispatch
<1>6. CASE Work
  <2>1. UNCHANGED <<queue, count, virtual, tags, share>>
    BY <1>6 DEF Work, queueVars
  <2>2. JobsInLine' /\ LeadsInLine'
    BY <2>1 DEF JobsInLine, LeadsInLine, Front, Begins, Backlogged
  <2> QED BY <1>6, <2>2, WorkMoves
<1>7. CASE StartScheduler
  BY <1>1, <1>7 DEF StartScheduler, queueVars, workVars, SchedulerTypeOK
<1>8. CASE StopScheduler
  BY <1>1, <1>8 DEF StopScheduler, queueVars, workVars, SchedulerTypeOK
<1>9. CASE ContextEnds
  BY <1>1, <1>9 DEF ContextEnds, queueVars, workVars, SchedulerTypeOK
<1>10. CASE PoolEnds
  BY <1>1, <1>10 DEF PoolEnds, queueVars, workVars, SchedulerTypeOK
<1> QED BY <1>2, <1>3, <1>4, <1>5, <1>6, <1>7, <1>8, <1>9, <1>10 DEF SchedulerNext

\* No job is lost or executed twice, and while two namespaces both have jobs neither
\* is given more than two of the largest jobs more than the other, for its weight.
THEOREM SchedulerIsSafe == SchedulerSpec => []SchedulerSafe
<1>1. SchedulerInit => SchedulerIInv
  BY SchedulerInitIInv
<1>2. SchedulerIInv /\ [SchedulerNext]_schedulerVars => SchedulerIInv'
  BY SchedulerNextIInv
<1>3. SchedulerIInv => SchedulerSafe
  BY LeadsAreBounded DEF SchedulerIInv, SchedulerSafe
<1> QED BY <1>1, <1>2, <1>3, PTL DEF SchedulerSpec
-----------------------------------------------------------------------------
(***************************************************************************)
(* JobStore.  A command writes to the row of its own job only, until it    *)
(* waits for another's, and to that one never: so a row is ended by its    *)
(* own command or from outside, once.                                      *)
(***************************************************************************)
\* A command's job is its own until it waits for another's; a job that was not
\* inserted yet is blank.
OwnJobs ==
  \A c \in Commands :
    /\ commands[c].at \in {"away", "inserted", "prepared", "executing", "succeeded"} =>
         commands[c].job = c
    /\ commands[c].at = "away" => jobs[c].state = "none"
    /\ jobs[c].state = "none" => ~jobs[c].result

\* At most one command that deduplicates has a row stored.
OneDeduper == \A c, d \in Stored \cap Dedupers : c = d

\* The inductive invariant of the job store.
JobIInv == JobTypeOK /\ OwnJobs /\ SuccessIsRecorded /\ OneDeduper /\ YoungRunsAreSpared

\* The rows of the store.
JobRows == [state: Ended \cup {"none", "queued", "running", "deleted"}, result: BOOLEAN, aged: BOOLEAN]

\* What UpdateState makes of a row.
LEMMA Updated ==
  ASSUME NEW j \in Commands, NEW target \in Ended \cup {"running"},
         jobs \in [Commands -> JobRows], UpdateState(j, target)
  PROVE  /\ jobs' \in [Commands -> JobRows]
         /\ \A k \in Commands \ {j} : jobs'[k] = jobs[k]
         /\ jobs'[j].state = target /\ jobs'[j].aged = jobs[j].aged
         /\ jobs'[j].result <=> (jobs[j].result \/ target = "ok")
<1>1. jobs[j] \in JobRows /\ jobs[j].result \in BOOLEAN
  BY DEF JobRows
<1>2. PICK told \in BOOLEAN : told <=> (jobs[j].result \/ target = "ok")
  BY Zenon
<1>3. jobs' = [jobs EXCEPT ![j] = [jobs[j] EXCEPT !.state = target, !.result = told]]
  <2>1. told = (jobs[j].result \/ target = "ok")
    BY <1>1, <1>2
  <2> QED BY <2>1, Zenon DEF UpdateState
<1>4. [jobs[j] EXCEPT !.state = target, !.result = told] \in JobRows
  BY <1>1 DEF JobRows
<1> QED BY <1>1, <1>2, <1>3, <1>4 DEF JobRows

\* An empty store, its commands away.
LEMMA JobInitIInv == JobInit => JobIInv
BY JobAssumption DEF JobInit, JobIInv, JobTypeOK, OwnJobs, SuccessIsRecorded, OneDeduper,
   YoungRunsAreSpared,
      Commands, Stored, Ended

\* A step of one job and at most one command keeps the invariant, if it does so
\* for these.
LEMMA UpdatedKeeps ==
  ASSUME JobIInv, NEW j \in Commands, NEW target \in Ended \cup {"running"},
         May(j, target), UpdateState(j, target), faults' \in 0..MaxFaults,
         commands' \in [Commands ->
           [at: {"away", "inserted", "prepared", "executing", "waiting", "served", "succeeded", "failed"},
            job: Commands]],
         \A c \in Commands \ {j} : commands'[c] = commands[c],
         commands'[j] # commands[j] =>
           commands'[j].job = j /\ commands'[j].at \in {"executing", "succeeded", "failed"},
         commands'[j].at = "executing" => target \in {"running", "canceled"},
         commands'[j].at = "succeeded" /\ commands[j].at # "succeeded" => target = "ok"
  PROVE  JobIInv'
<1> USE DEF JobIInv
<1>1. /\ jobs \in [Commands -> JobRows]
      /\ jobs' \in [Commands -> JobRows]
      /\ \A k \in Commands \ {j} : jobs'[k] = jobs[k]
      /\ jobs'[j].state = target /\ jobs'[j].aged = jobs[j].aged
      /\ jobs'[j].result <=> (jobs[j].result \/ target = "ok")
  BY Updated DEF JobTypeOK, JobRows
<1>2. JobTypeOK'
  BY <1>1 DEF JobTypeOK, JobRows
<1>3. jobs[j].state \in {"queued", "running"} /\ ~jobs[j].result /\ j \in Stored
  BY DEF May, Sources, SuccessIsRecorded, Stored
<1>4. OwnJobs'
  BY <1>1, <1>3 DEF OwnJobs, Ended
<1>5. Stored' = Stored
  BY <1>1, <1>3 DEF Stored, Ended
<1>6. OneDeduper'
  BY <1>5 DEF OneDeduper
<1>7. SuccessIsRecorded'
  <2>1. \A k \in Stored' : jobs'[k].result <=> jobs'[k].state = "ok"
    BY <1>1, <1>3, <1>5 DEF SuccessIsRecorded, Stored
  <2>2. ASSUME NEW c \in Commands, commands'[c].at \in {"served", "succeeded"}
        PROVE  jobs'[commands'[c].job].result
    <3>1. CASE commands'[c] = commands[c]
      BY <3>1, <2>2, <1>1 DEF SuccessIsRecorded, JobTypeOK
    <3>2. CASE commands'[c] # commands[c]
      <4>1. c = j /\ commands'[j].at = "succeeded" /\ commands'[j].job = j
        BY <3>2, <2>2
      <4>2. commands[j].at # "succeeded"
        BY <1>3 DEF SuccessIsRecorded, OwnJobs
      <4> QED BY <4>1, <4>2, <1>1
    <3> QED BY <3>1, <3>2
  <2> QED BY <2>1, <2>2 DEF SuccessIsRecorded
<1>8. YoungRunsAreSpared'
  BY <1>1 DEF YoungRunsAreSpared
<1> QED BY <1>2, <1>4, <1>6, <1>7, <1>8

\* Every step of a command, the sweeper or an operator keeps the invariant.
LEMMA JobNextIInv == JobIInv /\ [JobNext]_jobVars => JobIInv'
<1> SUFFICES ASSUME JobIInv, [JobNext]_jobVars PROVE JobIInv'
  OBVIOUS
<1> USE JobAssumption DEF JobIInv
<1>1. ASSUME NEW c \in Commands, Insert(c) PROVE JobIInv'
  BY <1>1 DEF Insert, JobTypeOK, OwnJobs, SuccessIsRecorded, OneDeduper, YoungRunsAreSpared,
     Stored, Ended, GoesTo, NoFault
<1>2. ASSUME NEW c \in Commands, FindDuplicate(c) PROVE JobIInv'
  BY <1>2 DEF FindDuplicate, JobTypeOK, OwnJobs, SuccessIsRecorded, OneDeduper,
     YoungRunsAreSpared, Stored, Ended, GoesTo, NoFault
<1>3. ASSUME NEW c \in Commands, MakeJobDirFails(c) PROVE JobIInv'
  <2>1. /\ \/ jobs' = jobs
           \/ jobs' = [jobs EXCEPT ![c].state = "deleted"]
        /\ commands[c].at = "inserted"
        /\ commands' = [commands EXCEPT ![c].at = "failed"]
        /\ faults < MaxFaults /\ faults' = faults + 1
    BY <1>3 DEF MakeJobDirFails, GoesTo, Fault
  <2>2. CASE jobs' = jobs
    BY <2>1, <2>2 DEF JobTypeOK, OwnJobs, SuccessIsRecorded, OneDeduper, YoungRunsAreSpared,
       Stored
  <2>3. CASE jobs' = [jobs EXCEPT ![c].state = "deleted"]
    BY <2>1, <2>3 DEF JobTypeOK, OwnJobs, SuccessIsRecorded, OneDeduper, YoungRunsAreSpared,
       Stored
  <2> QED BY <2>1, <2>2, <2>3
<1>4. ASSUME NEW c \in Commands, MakeJobDir(c) PROVE JobIInv'
  BY <1>4 DEF MakeJobDir, JobTypeOK, OwnJobs, SuccessIsRecorded, OneDeduper,
     YoungRunsAreSpared, Stored, GoesTo, NoFault
<1>5. ASSUME NEW c \in Commands, StartExecution(c) PROVE JobIInv'
  <2>1. CASE May(c, "running") /\ UpdateState(c, "running") /\ GoesTo(c, "executing") /\ NoFault
    BY <2>1, <1>5, UpdatedKeeps DEF StartExecution, GoesTo, NoFault, JobTypeOK, OwnJobs
  <2>2. CASE GoesTo(c, "failed") /\ UNCHANGED jobs
    BY <2>2, <1>5 DEF StartExecution, JobTypeOK, OwnJobs, SuccessIsRecorded, OneDeduper,
       YoungRunsAreSpared, Stored, GoesTo, NoFault, Fault
  <2> QED BY <2>1, <2>2, <1>5 DEF StartExecution
<1>6. ASSUME NEW c \in Commands, HandleSuccess(c) PROVE JobIInv'
  <2>1. CASE May(c, "ok") /\ UpdateState(c, "ok") /\ GoesTo(c, "succeeded") /\ NoFault
    BY <2>1, <1>6, UpdatedKeeps DEF HandleSuccess, GoesTo, NoFault, JobTypeOK, OwnJobs, Ended
  <2>2. CASE GoesTo(c, "failed") /\ UNCHANGED jobs
    BY <2>2, <1>6 DEF HandleSuccess, JobTypeOK, OwnJobs, SuccessIsRecorded, OneDeduper,
       YoungRunsAreSpared, Stored, GoesTo, NoFault, Fault
  <2> QED BY <2>1, <2>2, <1>6 DEF HandleSuccess
<1>7. ASSUME NEW c \in Commands, HandleFailure(c) PROVE JobIInv'
  <2>1. CASE May(c, "error") /\ UpdateState(c, "error") /\ GoesTo(c, "failed") /\ NoFault
    BY <2>1, <1>7, UpdatedKeeps DEF HandleFailure, GoesTo, NoFault, JobTypeOK, OwnJobs, Ended
  <2>2. CASE GoesTo(c, "failed") /\ UNCHANGED jobs
    BY <2>2, <1>7 DEF HandleFailure, JobTypeOK, OwnJobs, SuccessIsRecorded, OneDeduper,
       YoungRunsAreSpared, Stored, GoesTo, NoFault, Fault
  <2> QED BY <2>1, <2>2, <1>7 DEF HandleFailure
<1>8. ASSUME NEW c \in Commands, WaitForCompletion(c) PROVE JobIInv'
  BY <1>8 DEF WaitForCompletion, JobTypeOK, OwnJobs, SuccessIsRecorded, OneDeduper,
     YoungRunsAreSpared, Stored, Ended, GoesTo, NoFault
<1>9. ASSUME NEW c \in Commands, Dies(c) PROVE JobIInv'
  BY <1>9 DEF Dies, JobTypeOK, OwnJobs, SuccessIsRecorded, OneDeduper, YoungRunsAreSpared,
     Stored, GoesTo, Fault
<1>10. ASSUME NEW c \in Commands, Cancel(c) PROVE JobIInv'
  BY <1>10, UpdatedKeeps DEF Cancel, NoFault, JobTypeOK, Ended
<1>11. ASSUME NEW c \in Commands, RemoveJob(c) PROVE JobIInv'
  BY <1>11 DEF RemoveJob, JobTypeOK, OwnJobs, SuccessIsRecorded, OneDeduper,
     YoungRunsAreSpared, Stored, Ended, NoFault
<1>12. ASSUME NEW c \in Commands, AnHourPasses(c) PROVE JobIInv'
  <2>1. /\ jobs' \in [Commands -> JobRows]
        /\ \A k \in Commands : jobs'[k].state = jobs[k].state /\ jobs'[k].result = jobs[k].result
        /\ \A k \in Commands : jobs[k].aged => jobs'[k].aged
    <3>1. jobs' = [jobs EXCEPT ![c].aged = TRUE] /\ jobs \in [Commands -> JobRows]
      BY <1>12 DEF AnHourPasses, JobTypeOK, JobRows
    <3>2. jobs' \in [Commands -> JobRows]
      BY <3>1 DEF JobRows
    <3> QED BY <3>1, <3>2 DEF JobRows
  <2>2. JobTypeOK' /\ commands' = commands
    BY <2>1, <1>12 DEF AnHourPasses, JobTypeOK, JobRows, NoFault
  <2>3. Stored' = Stored
    BY <2>1 DEF Stored
  <2> QED BY <2>1, <2>2, <2>3 DEF JobTypeOK, OwnJobs, SuccessIsRecorded, OneDeduper,
     YoungRunsAreSpared, Stored
<1>13. ASSUME RecoverStaleJobs PROVE JobIInv'
  BY <1>13 DEF RecoverStaleJobs, Stale, JobTypeOK, OwnJobs, SuccessIsRecorded, OneDeduper,
     YoungRunsAreSpared, Stored, Ended, NoFault
<1>14. ASSUME UNCHANGED jobVars PROVE JobIInv'
  BY <1>14 DEF jobVars, JobTypeOK, OwnJobs, SuccessIsRecorded, OneDeduper, YoungRunsAreSpared,
     Stored
<1> QED
  BY <1>1, <1>2, <1>3, <1>4, <1>5, <1>6, <1>7, <1>8, <1>9, <1>10, <1>11, <1>12, <1>13, <1>14
  DEF JobNext, Continues

\* The invariant holds of the executor and its store at any time.
THEOREM JobInductive == JobSpec => []JobIInv
BY JobInitIInv, JobNextIInv, PTL DEF JobSpec

\* A success that was reported is stored, concurrent requests for one job share it,
\* and a run is not recorded as failed while it is younger than an hour.
THEOREM JobsAreSafe == JobSpec => []JobsSafe
<1>1. JobIInv => JobsSafe
  <2> SUFFICES ASSUME JobIInv PROVE DedupersShareAJob
    BY DEF JobIInv, JobsSafe
  <2>1. \A c, d \in Stored \cap Dedupers : c = d
    BY DEF JobIInv, OneDeduper
  <2>2. CASE Stored \cap Dedupers = {}
    BY <2>2, FS_EmptySet DEF DedupersShareAJob
  <2>3. ASSUME NEW c \in Stored \cap Dedupers PROVE DedupersShareAJob
    <3>1. Stored \cap Dedupers = {c}
      BY <2>1
    <3>2. Cardinality({c}) = 1
      BY FS_Singleton
    <3> QED BY <3>1, <3>2 DEF DedupersShareAJob
  <2> QED BY <2>2, <2>3
<1> QED BY <1>1, JobInductive, PTL

\* What a step does to the rows of ended jobs.
LEMMA EndedJobs ==
  ASSUME JobIInv, [JobNext]_jobVars, NEW j \in Commands, jobs[j].state \in Ended
  PROVE  \/ jobs'[j].state = "deleted"
         \/ jobs'[j].state = jobs[j].state /\ jobs'[j].result = jobs[j].result
<1> USE DEF JobIInv
<1>1. jobs \in [Commands -> JobRows] /\ (\A c \in Commands : commands[c].at = "away" => jobs[c].state = "none")
  BY DEF JobTypeOK, JobRows, OwnJobs
<1>2. ASSUME NEW c \in Commands, NEW target \in Ended \cup {"running"},
             May(c, target), UpdateState(c, target)
      PROVE  jobs'[j] = jobs[j]
  BY <1>1, <1>2, Updated DEF May, Sources, Ended
<1>3. CASE UNCHANGED jobs
  BY <1>3
<1>4. ASSUME NEW c \in Commands, Insert(c) \/ MakeJobDirFails(c) \/ RemoveJob(c) \/ AnHourPasses(c)
      PROVE  \/ jobs'[j].state = "deleted"
             \/ jobs'[j].state = jobs[j].state /\ jobs'[j].result = jobs[j].result
  BY <1>1, <1>4 DEF Insert, MakeJobDirFails, RemoveJob, AnHourPasses, Ended, JobRows
<1>5. CASE RecoverStaleJobs
  BY <1>1, <1>5 DEF RecoverStaleJobs, Stale, Ended
<1>6. ASSUME NEW c \in Commands, StartExecution(c) \/ HandleSuccess(c) \/ HandleFailure(c) \/ Cancel(c)
      PROVE  UNCHANGED jobs \/ jobs'[j] = jobs[j]
  BY <1>2, <1>6 DEF StartExecution, HandleSuccess, HandleFailure, Cancel, Ended
<1>7. ASSUME NEW c \in Commands, FindDuplicate(c) \/ MakeJobDir(c) \/ WaitForCompletion(c) \/ Dies(c)
      PROVE  UNCHANGED jobs
  BY <1>7 DEF FindDuplicate, MakeJobDir, WaitForCompletion, Dies
<1> QED BY <1>3, <1>4, <1>5, <1>6, <1>7 DEF JobNext, Continues, jobVars

\* What a job came to stays what it came to, for as long as its row is kept.
THEOREM JobEndsStand == JobSpec => EndsStand
<1>1. JobIInv /\ [JobNext]_jobVars =>
       [\A j \in Commands : jobs[j].state \in Ended =>
         \/ jobs'[j].state = "deleted"
         \/ jobs'[j].state = jobs[j].state /\ jobs'[j].result = jobs[j].result]_jobVars
  BY EndedJobs
<1> QED BY <1>1, JobInductive, PTL DEF JobSpec, EndsStand
-----------------------------------------------------------------------------
(***************************************************************************)
(* RefreshQueue.  Runs and the windows they are kept for follow each other *)
(* in one order, and a call compares itself with that order only.          *)
(***************************************************************************)
\* A run that has an answer to give.
Answerable(r) == r \in Runs /\ outcome[r] \in {"ok", "error"}

\* Windows pass in the order of the runs, of runs that have ended; the run in
\* flight has not, and what is kept has; and a call reads the clock before.
RefreshInOrder ==
  /\ \A r \in 1..lapsed : Answerable(r)
  /\ inflight # 0 => outcome[inflight] \in {"running", "panicked"}
  /\ kept # 0 => Answerable(kept)
  /\ \A c \in Clients : requests[c].at \in {"come", "joined", "leading", "answered"} =>
       requests[c].since <= lapsed
  /\ \A c \in Clients : requests[c].at = "joined" =>
       requests[c].run \in Runs /\ requests[c].run > requests[c].since
  /\ \A c \in Clients : requests[c].at = "leading" =>
       inflight # 0 /\ requests[c].run = inflight

\* The inductive invariant of the refresh queue.
RefreshIInv == RefreshSafe /\ RefreshInOrder

\* A new queue has no run and no call.
LEMMA RefreshInitIInv == RefreshInit => RefreshIInv
BY RefreshAssumption DEF RefreshInit, RefreshIInv, RefreshSafe, RefreshTypeOK, OneRefresh,
   AnswersAreFresh, RefreshInOrder, Runs, Away, Answerable

\* The window of the run in flight has not passed.
LEMMA Overdue == ASSUME RefreshIInv, inflight # 0 PROVE inflight > lapsed
BY RefreshAssumption DEF RefreshIInv, RefreshSafe, RefreshTypeOK, RefreshInOrder, Runs,
   Answerable

\* Every step of a call, a run or the clock keeps the invariant.
LEMMA RefreshNextIInv == RefreshIInv /\ [RefreshNext]_refreshVars => RefreshIInv'
<1> SUFFICES ASSUME RefreshIInv, [RefreshNext]_refreshVars PROVE RefreshIInv'
  OBVIOUS
<1> USE RefreshAssumption DEF RefreshIInv, RefreshSafe, RefreshTypeOK, OneRefresh,
          AnswersAreFresh, RefreshInOrder, Runs, Away, Answerable, Go, Call
<1>1. ASSUME NEW c \in Clients, ReadClock(c) PROVE RefreshIInv'
  BY <1>1 DEF ReadClock
<1>2. ASSUME NEW c \in Clients, Join(c) PROVE RefreshIInv'
  BY <1>2, Overdue DEF Join, Pruned, Fresh
<1>3. ASSUME NEW c \in Clients, Reuse(c) PROVE RefreshIInv'
  BY <1>3 DEF Reuse, Pruned, Fresh
<1>4. ASSUME NEW c \in Clients, Lead(c) PROVE RefreshIInv'
  BY <1>4 DEF Lead
<1>5. ASSUME NEW c \in Clients, CallbackReturns(c) PROVE RefreshIInv'
  BY <1>5, Overdue DEF CallbackReturns
<1>6. ASSUME NEW c \in Clients, Panic(c) PROVE RefreshIInv'
  BY <1>6 DEF Panic
<1>7. ASSUME NEW c \in Clients, Told(c) PROVE RefreshIInv'
  BY <1>7 DEF Told
<1>8. ASSUME NEW c \in Clients, GiveUp(c) PROVE RefreshIInv'
  BY <1>8 DEF GiveUp
<1>11. ASSUME NEW c \in Clients, Depart(c) PROVE RefreshIInv'
  BY <1>11 DEF Depart
<1>9. ASSUME Lapse PROVE RefreshIInv'
  BY <1>9 DEF Lapse
<1>10. ASSUME UNCHANGED refreshVars PROVE RefreshIInv'
  BY <1>10 DEF refreshVars
<1> QED
  BY <1>1, <1>2, <1>3, <1>4, <1>5, <1>6, <1>7, <1>8, <1>9, <1>10, <1>11 DEF RefreshNext

\* There is one refresh at a time, and no call is answered with the outcome of a
\* refresh whose window had passed when the call read the clock.
THEOREM RefreshIsSafe == RefreshSpec => []RefreshSafe
<1>1. RefreshIInv => RefreshSafe
  BY DEF RefreshIInv
<1> QED BY <1>1, RefreshInitIInv, RefreshNextIInv, PTL DEF RefreshSpec
-----------------------------------------------------------------------------
(***************************************************************************)
(* OutputLog.  While it is registered a subscriber was shown every chunk   *)
(* from its start to the last one, each received, queued or dropped; so    *)
(* counting them says which chunk it is due next.                          *)
(***************************************************************************)
\* The rows of the subscribers.
ViewerRows ==
  [at: {"off", "live", "unregistered", "closed"}, start: 0..(MaxSeq + 1),
   seen: SUBSET (1..MaxSeq), channel: Seq(1..MaxSeq), dropped: 0..MaxSeq]

\* The chunks a subscriber was given or refused.
Shown(w) == Cardinality(w.seen) + Len(w.channel) + w.dropped

\* The first chunk v has not been shown, when all of those before were for it.
Due(v) == IF v \in sending THEN nextSeq - 1 ELSE nextSeq

\* A subscriber that was shown what came before chunk due: in order and once,
\* and, as long as it is registered, all of it.
Follows(w, due) ==
  /\ \A s \in w.seen : s < due
  /\ \A i \in 1..Len(w.channel) :
       /\ w.channel[i] < due
       /\ \A s \in w.seen : s < w.channel[i]
       /\ \A j \in 1..(i - 1) : w.channel[j] < w.channel[i]
  /\ Shown(w) <= due - w.start
  /\ w.at = "live" => Shown(w) = due - w.start
  /\ w.at = "off" => w = Unsubscribed
  /\ w.at # "off" => w.start >= 1

\* The inductive invariant of the log.
LogIInv ==
  /\ LogTypeOK
  /\ sending # {} => nextSeq > 1
  /\ \A v \in sending : viewers[v].at # "off"
  /\ \A v \in Viewers : Follows(viewers[v], Due(v))

\* What a subscriber was shown can be counted.
LEMMA SeenFinite ==
  ASSUME NEW w \in ViewerRows
  PROVE  IsFiniteSet(w.seen) /\ Cardinality(w.seen) \in Nat /\ Len(w.channel) \in Nat /\ Shown(w) \in Nat
<1>1. IsFiniteSet(1..MaxSeq)
  BY LogAssumption, FS_Interval
<1>2. IsFiniteSet(w.seen)
  BY <1>1, FS_Subset DEF ViewerRows
<1> QED BY <1>2, FS_CardinalityType, LenProperties DEF ViewerRows, Shown

\* A chunk that is queued for a subscriber that was due it.
LEMMA Push ==
  ASSUME NEW w \in ViewerRows, NEW due \in 1..MaxSeq, Follows(w, due), w.at # "off"
  PROVE  LET x == [w EXCEPT !.channel = Append(@, due)] IN
         x \in ViewerRows /\ Follows(x, due + 1) /\ Len(x.channel) = Len(w.channel) + 1
<1> DEFINE x == [w EXCEPT !.channel = Append(w.channel, due)]
<1>1. /\ Append(w.channel, due) \in Seq(1..MaxSeq)
      /\ Len(Append(w.channel, due)) = Len(w.channel) + 1
      /\ \A i \in 1..Len(w.channel) : Append(w.channel, due)[i] = w.channel[i]
      /\ Append(w.channel, due)[Len(w.channel) + 1] = due
      /\ w.channel \in Seq(1..MaxSeq) /\ Len(w.channel) \in Nat
  BY AppendProperties, LenProperties DEF ViewerRows
<1>2. /\ x \in ViewerRows
      /\ x.channel = Append(w.channel, due) /\ x.seen = w.seen /\ x.at = w.at
      /\ x.start = w.start /\ x.dropped = w.dropped
  BY <1>1 DEF ViewerRows
<1> HIDE DEF x
<1>a. Len(x.channel) = Len(w.channel) + 1
  BY <1>1, <1>2
<1>b. x.seen = w.seen /\ x.at = w.at /\ x.start = w.start /\ x.dropped = w.dropped
  BY <1>2
<1>3. Shown(x) = Shown(w) + 1 /\ Shown(w) \in Nat
  BY <1>1, <1>a, <1>b, SeenFinite DEF Shown, ViewerRows
<1>4. ASSUME NEW i \in 1..Len(x.channel)
      PROVE  /\ x.channel[i] < due + 1
             /\ \A s \in x.seen : s < x.channel[i]
             /\ \A j \in 1..(i - 1) : x.channel[j] < x.channel[i]
  <2>1. CASE i = Len(w.channel) + 1
    BY <2>1, <1>1, <1>2 DEF Follows, ViewerRows
  <2>2. CASE i \in 1..Len(w.channel)
    <3>1. w.channel[i] \in 1..MaxSeq
      BY <2>2, <1>1, ElementOfSeq
    <3> QED BY <3>1, <2>2, <1>1, <1>2 DEF Follows, ViewerRows
  <2> QED BY <2>1, <2>2, <1>1, <1>2
<1>5. \A s \in x.seen : s < due + 1
  BY <1>2 DEF Follows, ViewerRows
<1>6. Shown(x) <= (due + 1) - x.start /\ (x.at = "live" => Shown(x) = (due + 1) - x.start)
  BY <1>2, <1>3 DEF Follows, ViewerRows
<1>7. Follows(x, due + 1)
  <2>1. x.at # "off" /\ x.start >= 1
    BY <1>b DEF Follows
  <2> QED BY <2>1, <1>4, <1>5, <1>6 DEF Follows
<1> QED BY <1>1, <1>2, <1>7 DEF x

\* A chunk that is dropped for a subscriber that was due it.
LEMMA Refuse ==
  ASSUME NEW w \in ViewerRows, NEW due \in 1..MaxSeq, Follows(w, due), w.at # "off"
  PROVE  LET x == [w EXCEPT !.dropped = @ + 1] IN
         x \in ViewerRows /\ Follows(x, due + 1) /\ x.channel = w.channel
<1> DEFINE x == [w EXCEPT !.dropped = w.dropped + 1]
<1>1. /\ Shown(w) \in Nat /\ Cardinality(w.seen) \in Nat /\ Len(w.channel) \in Nat
  BY SeenFinite
<1>2. w.dropped + 1 \in 0..MaxSeq
  <2>1. w.dropped <= due - w.start /\ w.start >= 1
    BY <1>1 DEF Follows, Shown, ViewerRows
  <2> QED BY <2>1, LogAssumption DEF ViewerRows
<1>3. /\ x \in ViewerRows
      /\ x.channel = w.channel /\ x.seen = w.seen /\ x.at = w.at
      /\ x.start = w.start /\ x.dropped = w.dropped + 1
  BY <1>2 DEF ViewerRows
<1>4. Shown(x) = Shown(w) + 1
  BY <1>1, <1>3 DEF Shown, ViewerRows
<1>5. \A i \in 1..Len(w.channel) : w.channel[i] \in 1..MaxSeq
  BY ElementOfSeq DEF ViewerRows
<1> HIDE DEF x
<1>6. Follows(x, due + 1)
  BY <1>1, <1>3, <1>4, <1>5 DEF Follows, ViewerRows
<1> QED BY <1>3, <1>6 DEF x

\* A chunk that is received from the channel.
LEMMA Read ==
  ASSUME NEW w \in ViewerRows, NEW due \in Nat, Follows(w, due), w.channel # <<>>
  PROVE  LET x == [w EXCEPT !.seen = @ \cup {Head(w.channel)}, !.channel = Tail(@)] IN
         x \in ViewerRows /\ Follows(x, due) /\ Len(x.channel) <= Len(w.channel) /\ x.at = w.at
<1> DEFINE x == [w EXCEPT !.seen = w.seen \cup {Head(w.channel)}, !.channel = Tail(w.channel)]
<1>1. /\ w.channel \in Seq(1..MaxSeq) /\ Len(w.channel) \in Nat
      /\ \A i \in 1..Len(w.channel) : w.channel[i] \in 1..MaxSeq
  BY ElementOfSeq, LenProperties DEF ViewerRows
<1>2. /\ Head(w.channel) \in 1..MaxSeq /\ Head(w.channel) = w.channel[1]
      /\ Tail(w.channel) \in Seq(1..MaxSeq) /\ Len(Tail(w.channel)) = Len(w.channel) - 1
      /\ \A i \in 1..Len(Tail(w.channel)) : Tail(w.channel)[i] = w.channel[i + 1]
      /\ Len(w.channel) >= 1
  <2>1. /\ Head(w.channel) \in 1..MaxSeq /\ Tail(w.channel) \in Seq(1..MaxSeq)
        /\ Len(Tail(w.channel)) = Len(w.channel) - 1
        /\ \A i \in 1..Len(Tail(w.channel)) : Tail(w.channel)[i] = w.channel[i + 1]
    BY <1>1, HeadTailProperties
  <2>2. Head(w.channel) = w.channel[1] /\ Len(w.channel) >= 1
    BY <1>1, EmptySeq
  <2> QED BY <2>1, <2>2
<1>3. /\ x \in ViewerRows
      /\ x.channel = Tail(w.channel) /\ x.seen = w.seen \cup {w.channel[1]} /\ x.at = w.at
      /\ x.start = w.start /\ x.dropped = w.dropped
  BY <1>2 DEF ViewerRows
<1>4. Cardinality(x.seen) = Cardinality(w.seen) + 1
  <2>1. w.channel[1] \notin w.seen
    BY <1>1, <1>2 DEF Follows
  <2> QED BY <2>1, <1>3, SeenFinite, FS_AddElement
<1>5. Shown(x) = Shown(w) 
  BY <1>1, <1>2, <1>3, <1>4, SeenFinite DEF Shown, ViewerRows
<1>6. ASSUME NEW i \in 1..Len(x.channel)
      PROVE  /\ x.channel[i] < due
             /\ \A s \in x.seen : s < x.channel[i]
             /\ \A j \in 1..(i - 1) : x.channel[j] < x.channel[i]
  <2>1. i + 1 \in 1..Len(w.channel) /\ x.channel[i] = w.channel[i + 1] /\ 1 \in 1..((i + 1) - 1)
    BY <1>1, <1>2, <1>3
  <2>2. ASSUME NEW j \in 1..(i - 1) PROVE x.channel[j] = w.channel[j + 1] /\ j + 1 \in 1..((i + 1) - 1)
    BY <1>1, <1>2, <1>3
  <2> QED BY <2>1, <2>2, <1>3 DEF Follows
<1>7. \A s \in x.seen : s < due
  BY <1>1, <1>2, <1>3 DEF Follows
<1> HIDE DEF x
<1>8. Follows(x, due)
  <2>1. x.at # "off"
    BY <1>3 DEF Follows, Unsubscribed, Viewer
  <2> QED BY <2>1, <1>3, <1>5, <1>6, <1>7 DEF Follows
<1> QED BY <1>1, <1>2, <1>3, <1>8 DEF x

\* Chunks that are appended or refused to one who is not registered do not matter.
LEMMA Outlive ==
  ASSUME NEW w \in ViewerRows, NEW due \in Nat, Follows(w, due), w.at # "live"
  PROVE  Follows(w, due + 1)
<1>1. \A i \in 1..Len(w.channel) : w.channel[i] \in 1..MaxSeq
  BY ElementOfSeq DEF ViewerRows
<1> QED BY <1>1, SeenFinite DEF Follows, ViewerRows

\* The steps of a subscriber that only change what it is to the log.
LEMMA Leave ==
  ASSUME NEW w \in ViewerRows, NEW due \in Nat, Follows(w, due), w.at # "off",
         NEW at \in {"unregistered", "closed"}
  PROVE  LET x == [w EXCEPT !.at = at] IN
         x \in ViewerRows /\ Follows(x, due) /\ x.channel = w.channel
<1> DEFINE x == [w EXCEPT !.at = at]
<1>1. /\ x \in ViewerRows
      /\ x.channel = w.channel /\ x.seen = w.seen /\ x.at = at
      /\ x.start = w.start /\ x.dropped = w.dropped
  BY DEF ViewerRows
<1>2. Shown(x) = Shown(w)
  BY <1>1 DEF Shown
<1> HIDE DEF x
<1>3. Follows(x, due)
  BY <1>1, <1>2 DEF Follows
<1> QED BY <1>1, <1>3 DEF x

\* A replay is all that follows its start.
LEMMA Replayed ==
  ASSUME LogTypeOK, NEW from \in 0..MaxSeq, NEW start, start = Start(from)
  PROVE  /\ start \in 1..(MaxSeq + 1) /\ start <= nextSeq
         /\ Retained(from) \subseteq 1..MaxSeq /\ \A s \in Retained(from) : s < nextSeq
         /\ Cardinality(Retained(from)) = nextSeq - start
<1> USE LogAssumption DEF LogTypeOK, Start
<1>1. CASE Retained(from) = {}
  BY <1>1, FS_EmptySet
<1>2. CASE Retained(from) # {}
  <2>1. Retained(from) = start..(nextSeq - 1) /\ start \in Int /\ start >= 1 /\ nextSeq \in Int
    BY <1>2 DEF Retained
  <2>2. start <= nextSeq - 1
    <3>1. PICK s \in start..(nextSeq - 1) : TRUE
      BY <1>2, <2>1
    <3> QED BY <3>1, <2>1
  <2>3. Cardinality(Retained(from)) = ((nextSeq - 1) - start) + 1
    <3> HIDE DEF Start, LogTypeOK
    <3>1. PICK last : last \in Int /\ last = nextSeq - 1
      BY <2>1
    <3>2. Cardinality(start..last) = (last - start) + 1
      <4>1. ~(start > last)
        BY <2>1, <2>2, <3>1
      <4>2. Cardinality(start..last) = IF start > last THEN 0 ELSE last - start + 1
        BY <2>1, <3>1, FS_Interval
      <4> QED BY <4>1, <4>2, <2>1, <3>1
    <3> QED BY <3>1, <3>2, <2>1
  <2>4. Cardinality(Retained(from)) = nextSeq - start
    BY <2>1, <2>3, ((nextSeq - 1) - start) + 1 = nextSeq - start
  <2>5. Retained(from) \subseteq 1..MaxSeq /\ \A s \in Retained(from) : s < nextSeq
    BY DEF Retained
  <2>6. start \in 1..(MaxSeq + 1) /\ start <= nextSeq
    BY <2>1, <2>2
  <2> QED BY <2>4, <2>5, <2>6
<1> QED BY <1>1, <1>2

\* A subscriber that comes with the replay of what the log retains.
LEMMA Joined ==
  ASSUME LogTypeOK, NEW seen \in SUBSET (1..MaxSeq), NEW start \in 1..(MaxSeq + 1),
         start <= nextSeq, \A s \in seen : s < nextSeq, Cardinality(seen) = nextSeq - start,
         NEW at \in {"live", "closed"}
  PROVE  /\ Viewer(at, start, seen) \in ViewerRows
         /\ Follows(Viewer(at, start, seen), nextSeq)
         /\ Len(Viewer(at, start, seen).channel) <= Room
         /\ Viewer(at, start, seen).at # "off"
<1> DEFINE x == Viewer(at, start, seen)
<1>1. /\ x.channel = <<>> /\ x.seen = seen /\ x.at = at
      /\ x.start = start /\ x.dropped = 0
  BY DEF Viewer
<1>2. x \in ViewerRows
  <2>1. <<>> \in Seq(1..MaxSeq) /\ 0 \in 0..MaxSeq /\ start \in 0..(MaxSeq + 1)
    BY EmptySeq, LogAssumption
  <2> QED BY <2>1 DEF ViewerRows, Viewer
<1> HIDE DEF x
<1>3. Shown(x) = nextSeq - start /\ Len(x.channel) = 0 /\ x.at # "off"
  <2>1. Len(x.channel) = 0
    BY <1>1, EmptySeq
  <2>2. Cardinality(x.seen) = nextSeq - start /\ nextSeq - start \in Int
    BY <1>1 DEF LogTypeOK
  <2> QED BY <2>1, <2>2, <1>1 DEF Shown
<1>4. Follows(x, nextSeq)
  <2>1. \A i \in 1..Len(x.channel) : FALSE
    BY <1>3
  <2>2. x.at # "off" /\ \A s \in x.seen : s < nextSeq
    BY <1>1, <1>3
  <2>4. x.start >= 1
    BY <1>1
  <2>3. Shown(x) <= nextSeq - x.start /\ Shown(x) = nextSeq - x.start
    BY <1>1, <1>3 DEF LogTypeOK
  <2> QED BY <2>1, <2>2, <2>3, <2>4 DEF Follows
<1>5. Len(x.channel) <= Room
  BY <1>3, LogAssumption
<1> QED BY <1>2, <1>3, <1>4, <1>5 DEF x

\* A new log has no chunks and no subscribers.
LEMMA LogInitIInv == LogInit => LogIInv
<1> SUFFICES ASSUME LogInit PROVE LogIInv
  OBVIOUS
<1> USE LogAssumption DEF LogInit
<1>1. /\ Unsubscribed \in ViewerRows /\ Len(Unsubscribed.channel) = 0 /\ Unsubscribed.seen = {}
      /\ Unsubscribed.start = 0 /\ Unsubscribed.dropped = 0 /\ Unsubscribed.at = "off"
  BY EmptySeq DEF Unsubscribed, Viewer, ViewerRows
<1>2. Shown(Unsubscribed) = 0
  BY <1>1, FS_EmptySet DEF Shown
<1>3. Follows(Unsubscribed, 1)
  BY <1>1, <1>2 DEF Follows
<1>4. LogTypeOK
  <2>1. viewers \in [Viewers -> ViewerRows] /\ \A v \in Viewers : Len(viewers[v].channel) <= Room
    BY <1>1
  <2>2. nextSeq \in 1..(MaxSeq + 1) /\ first \in 1..nextSeq /\ nextSeq - first <= MaxChunks
    OBVIOUS
  <2>3. closed \in BOOLEAN /\ sending \subseteq Viewers
    OBVIOUS
  <2> HIDE DEF LogInit
  <2> QED BY <2>1, <2>2, <2>3 DEF LogTypeOK, ViewerRows
<1> QED BY <1>3, <1>4 DEF LogIInv, Due

\* A step about one subscriber.
LEMMA OneViewer ==
  ASSUME LogIInv, NEW v \in Viewers, NEW row \in ViewerRows, viewers' = [viewers EXCEPT ![v] = row],
         Len(row.channel) <= Room, UNCHANGED <<nextSeq, first, closed>>,
         sending' \subseteq sending, sending \ {v} \subseteq sending',
         v \in sending' => row.at # "off",
         Follows(row, Due(v)')
  PROVE  LogIInv'
<1> USE DEF LogIInv
<1>1. LogTypeOK'
  BY DEF LogTypeOK, ViewerRows
<1>2. \A u \in Viewers \ {v} : viewers'[u] = viewers[u] /\ Due(u)' = Due(u)
  BY DEF LogTypeOK, Due
<1>3. viewers'[v] = row
  BY DEF LogTypeOK
<1> QED BY <1>1, <1>2, <1>3

\* Every step of the log and its subscribers keeps the invariant.
LEMMA LogNextIInv == LogIInv /\ [LogNext]_logVars => LogIInv'
<1> SUFFICES ASSUME LogIInv, [LogNext]_logVars PROVE LogIInv'
  OBVIOUS
<1> USE LogAssumption 
<1>0. /\ LogTypeOK
      /\ \A v \in Viewers : /\ viewers[v] \in ViewerRows /\ Len(viewers[v].channel) <= Room
                            /\ Follows(viewers[v], Due(v)) /\ Due(v) \in Nat
                            /\ v \in sending => viewers[v].at # "off"
      /\ nextSeq \in 1..(MaxSeq + 1)
      /\ sending \subseteq Viewers /\ (sending # {} => nextSeq > 1)
  BY DEF LogIInv, LogTypeOK, ViewerRows, Due
<1>1. CASE AppendChunk
  <2>1. \A v \in Viewers : Due(v) = nextSeq
    BY <1>1 DEF AppendChunk, Due
  <2>2. ASSUME NEW v \in Viewers PROVE Follows(viewers'[v], Due(v)')
    <3>1. CASE viewers[v].at = "live"
      BY <3>1, <2>1, <1>1, <1>0 DEF AppendChunk, Due, Registered
    <3>2. CASE viewers[v].at # "live"
      <4>1. Due(v)' = nextSeq + 1 /\ viewers' = viewers
        BY <3>2, <1>1 DEF AppendChunk, Due, Registered
      <4>2. Follows(viewers[v], nextSeq + 1)
        BY <3>2, <2>1, <1>0, Outlive
      <4> QED BY <4>1, <4>2
    <3> QED BY <3>1, <3>2
  <2>3. LogTypeOK'
    <3>1. nextSeq' \in 1..(MaxSeq + 1) /\ first' \in 1..nextSeq' /\ nextSeq' - first' <= MaxChunks
      <4>1. nextSeq' = nextSeq + 1 /\ nextSeq <= MaxSeq /\ first' \in first..(nextSeq + 1)
        BY <1>1 DEF AppendChunk
      <4>2. nextSeq + 1 - first' <= MaxChunks
        BY <1>1 DEF AppendChunk
      <4>3. nextSeq \in 1..(MaxSeq + 1) /\ first \in 1..nextSeq
        BY <1>0 DEF LogTypeOK
      <4>4. nextSeq' \in 1..(MaxSeq + 1) /\ nextSeq \in Int
        BY <4>1, <4>3
      <4>5. first' \in 1..nextSeq'
        BY <4>1, <4>3
      <4>6. nextSeq' - first' <= MaxChunks
        <5>1. MaxChunks \in Int /\ first' \in Int
          BY <4>5
        <5>2. nextSeq + 1 - first' = nextSeq' - first'
          BY <4>1, <4>4, <5>1
        <5> QED BY <4>2, <5>2
      <4> QED BY <4>4, <4>5, <4>6
    <3>2. viewers' = viewers /\ closed' = closed /\ sending' \subseteq Viewers
      BY <1>1 DEF AppendChunk, Registered
    <3> QED BY <3>1, <3>2, <1>0 DEF LogTypeOK
  <2>4. nextSeq' > 1 /\ \A v \in sending' : viewers'[v].at # "off"
    BY <1>0, <1>1 DEF AppendChunk, Registered
  <2> QED BY <2>2, <2>3, <2>4 DEF LogIInv
<1>2. ASSUME NEW v \in Viewers, Notify(v) PROVE LogIInv'
  <2> DEFINE w == viewers[v]
  <2>1. /\ v \in sending /\ sending' = sending \ {v} /\ UNCHANGED <<nextSeq, first, closed>>
        /\ Due(v) = nextSeq - 1 /\ Due(v)' = nextSeq /\ nextSeq - 1 \in 1..MaxSeq /\ (nextSeq - 1) + 1 = nextSeq
        /\ w \in ViewerRows /\ w.at # "off" /\ Follows(w, nextSeq - 1) /\ Len(w.channel) <= Room
    BY <1>0, <1>2 DEF Notify, Due
  <2>2. CASE w.at = "closed"
    <3>1. viewers' = [viewers EXCEPT ![v] = w]
      BY <2>2, <1>2, <1>0 DEF Notify, LogTypeOK
    <3>2. Follows(w, nextSeq)
      BY <2>1, <2>2, Outlive
    <3> QED BY <2>1, <3>1, <3>2, OneViewer
  <2>3. CASE w.at # "closed" /\ Len(w.channel) < Room
    <3>1. PICK x : x = [w EXCEPT !.channel = Append(@, nextSeq - 1)]
      OBVIOUS
    <3>2. viewers' = [viewers EXCEPT ![v] = x]
      BY <2>3, <3>1, <1>2 DEF Notify
    <3>3. x \in ViewerRows /\ Follows(x, nextSeq) /\ Len(x.channel) = Len(w.channel) + 1
      BY <2>1, <3>1, Push
    <3>4. Len(x.channel) <= Room
      BY <2>3, <3>3, <2>1, SeenFinite
    <3> QED BY <2>1, <3>2, <3>3, <3>4, OneViewer
  <2>4. CASE w.at # "closed" /\ ~(Len(w.channel) < Room)
    <3>1. PICK x : x = [w EXCEPT !.dropped = @ + 1]
      OBVIOUS
    <3>2. viewers' = [viewers EXCEPT ![v] = x]
      BY <2>4, <3>1, <1>2 DEF Notify
    <3>3. x \in ViewerRows /\ Follows(x, nextSeq) /\ x.channel = w.channel
      BY <2>1, <3>1, Refuse
    <3> QED BY <2>1, <3>2, <3>3, OneViewer
  <2> QED BY <2>2, <2>3, <2>4
<1>3. ASSUME NEW v \in Viewers, SubscribeToClosed(v) PROVE LogIInv'
  <2> DEFINE x == Viewer("closed", nextSeq, {})
  <2>1. viewers[v] = Unsubscribed
    BY <1>3 DEF SubscribeToClosed
  <2>2. viewers' = [viewers EXCEPT ![v] = x]
    BY <1>3 DEF SubscribeToClosed
  <2>3. UNCHANGED <<nextSeq, first, closed, sending>>
    BY <1>3 DEF SubscribeToClosed
  <2>4. v \notin sending
    BY <1>0, <2>1 DEF Unsubscribed, Viewer
  <2>5. Due(v)' = nextSeq
    BY <2>3, <2>4 DEF Due
  <2>6. x \in ViewerRows /\ Follows(x, nextSeq) /\ Len(x.channel) <= Room /\ x.at # "off"
    <3>1. Cardinality({}) = nextSeq - nextSeq /\ nextSeq <= nextSeq
      BY <1>0, FS_EmptySet
    <3> QED BY <3>1, <1>0, Joined
  <2> HIDE DEF x
  <2> QED BY <2>2, <2>3, <2>4, <2>5, <2>6, OneViewer
<1>4. ASSUME NEW v \in Viewers, NEW from \in 0..MaxSeq, SubscribeFrom(v, from) PROVE LogIInv'
  <2> DEFINE start == Start(from)
             x == Viewer("live", start, Retained(from))
  <2>1. viewers[v] = Unsubscribed
    BY <1>4 DEF SubscribeFrom
  <2>2. viewers' = [viewers EXCEPT ![v] = x]
    BY <1>4 DEF SubscribeFrom
  <2>3. UNCHANGED <<nextSeq, first, closed, sending>>
    BY <1>4 DEF SubscribeFrom
  <2>4. v \notin sending
    BY <1>0, <2>1 DEF Unsubscribed, Viewer
  <2>5. Due(v)' = nextSeq
    BY <2>3, <2>4 DEF Due
  <2>6. x \in ViewerRows /\ Follows(x, nextSeq) /\ Len(x.channel) <= Room /\ x.at # "off"
    <3>1. /\ start \in 1..(MaxSeq + 1) /\ start <= nextSeq
          /\ Retained(from) \subseteq 1..MaxSeq /\ \A s \in Retained(from) : s < nextSeq
          /\ Cardinality(Retained(from)) = nextSeq - start
      BY <1>0, Replayed
    <3> HIDE DEF start
    <3> QED BY <3>1, <1>0, Joined
  <2> HIDE DEF x
  <2> QED BY <2>2, <2>3, <2>4, <2>5, <2>6, OneViewer
<1>5. ASSUME NEW v \in Viewers, Receive(v) PROVE LogIInv'
  <2> DEFINE w == viewers[v]
  <2>1. PICK x : x = [w EXCEPT !.seen = @ \cup {Head(w.channel)}, !.channel = Tail(@)]
    OBVIOUS
  <2>2. viewers' = [viewers EXCEPT ![v] = x] /\ w.channel # <<>>
    BY <2>1, <1>5 DEF Receive
  <2>3. /\ UNCHANGED <<nextSeq, first, closed, sending>>
        /\ Due(v)' = Due(v) /\ w \in ViewerRows /\ Follows(w, Due(v)) /\ Due(v) \in Nat
        /\ Len(w.channel) <= Room /\ (v \in sending => w.at # "off")
    BY <1>0, <1>5 DEF Receive, Due
  <2>4. x \in ViewerRows /\ Follows(x, Due(v)) /\ Len(x.channel) <= Len(w.channel) /\ x.at = w.at
    BY <2>1, <2>2, <2>3, Read
  <2>5. Len(x.channel) <= Room
    BY <2>3, <2>4, SeenFinite
  <2> QED BY <2>2, <2>3, <2>4, <2>5, OneViewer
<1>6. ASSUME NEW v \in Viewers, NEW at \in {"unregistered", "closed"}, viewers[v].at # "off",
             viewers' = [viewers EXCEPT ![v].at = at], UNCHANGED <<nextSeq, first, closed, sending>>
      PROVE LogIInv'
  <2> DEFINE w == viewers[v]
  <2>1. PICK x : x = [w EXCEPT !.at = at]
    OBVIOUS
  <2>2. viewers' = [viewers EXCEPT ![v] = x]
    BY <2>1, <1>6
  <2>3. /\ Due(v)' = Due(v) /\ w \in ViewerRows /\ Follows(w, Due(v)) /\ Due(v) \in Nat
        /\ Len(w.channel) <= Room
    BY <1>0, <1>6 DEF Due
  <2>4. x \in ViewerRows /\ Follows(x, Due(v)) /\ x.channel = w.channel
    BY <2>1, <2>3, <1>6, Leave
  <2>5. x.at # "off"
    BY <2>1, <2>3 DEF ViewerRows
  <2> QED BY <1>6, <2>2, <2>3, <2>4, <2>5, OneViewer
<1>7. ASSUME NEW v \in Viewers, Unregister(v) \/ CloseViewer(v) PROVE LogIInv'
  BY <1>6, <1>7 DEF Unregister, CloseViewer
<1>8. CASE CloseLog
  <2>1. ASSUME NEW v \in Viewers
        PROVE  /\ viewers'[v] \in ViewerRows /\ Follows(viewers'[v], Due(v))
               /\ viewers'[v].channel = viewers[v].channel
               /\ viewers[v].at # "off" => viewers'[v].at # "off"
    <3>1. CASE viewers[v].at = "live"
      <4>1. viewers'[v] = [viewers[v] EXCEPT !.at = "unregistered"]
        BY <3>1, <1>8 DEF CloseLog
      <4>2. viewers'[v].at # "off"
        BY <4>1, <1>0 DEF ViewerRows
      <4> QED BY <3>1, <4>1, <4>2, <1>0, Leave
    <3>2. CASE viewers[v].at # "live"
      BY <3>2, <1>8, <1>0 DEF CloseLog
    <3> QED BY <3>1, <3>2
  <2>2. viewers' \in [Viewers -> ViewerRows]
    <3>1. viewers' = [v \in Viewers |-> viewers'[v]]
      BY <1>8 DEF CloseLog
    <3> QED BY <2>1, <3>1
  <2>3. LogTypeOK' /\ \A v \in Viewers : Due(v)' = Due(v)
    BY <2>1, <2>2, <1>0, <1>8 DEF CloseLog, LogTypeOK, ViewerRows, Due
  <2> QED BY <2>1, <2>3, <1>0, <1>8 DEF CloseLog, LogIInv
<1>9. CASE UNCHANGED logVars
  BY <1>9, <1>0 DEF logVars, LogIInv, LogTypeOK, Due
<1> QED BY <1>1, <1>2, <1>3, <1>4, <1>5, <1>7, <1>8, <1>9 DEF LogNext

\* No subscriber is given a chunk twice or out of order, and what a registered one
\* was given and what it was refused add up to all that was appended since it came.
THEOREM LogIsSafe == LogSpec => []LogSafe
<1>1. LogIInv => LogSafe
  BY DEF LogIInv, LogSafe, InOrderOnce, GapsAreCounted, Follows, Shown, Registered, Due
<1> QED BY <1>1, LogInitIInv, LogNextIInv, PTL DEF LogSpec
=============================================================================
