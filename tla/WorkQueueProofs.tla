-------------------------- MODULE WorkQueueProofs --------------------------
(***************************************************************************)
(* Proofs about WorkQueue for any keys, workers, limits and bounds.        *)
(***************************************************************************)
EXTENDS WorkQueue, TLAPS

(* What the shape of a worker's record says about what it is doing. *)
LEMMA WorkerShape ==
  ASSUME TypeOK, NEW w \in Workers
  PROVE  /\ workers[w].at \in {"idle", "busy", "failing"}
         /\ workers[w].at = "idle" => workers[w] = Idle
         /\ workers[w].at = "busy" => workers[w] \in Busy
         /\ workers[w].at = "failing" => workers[w] \in Failing
         /\ Holding(w) => /\ workers[w].key \in Keys
                          /\ workers[w].id \in 1..MaxBatches
                          /\ workers[w].attempt \in 1..MaxClaims
BY DEF TypeOK, Idle, Busy, Failing, Holding

LEMMA RowShape ==
  ASSUME TypeOK, NEW k \in Keys, Exists(k)
  PROVE  jobs[k] \in Job
BY DEF TypeOK, Exists

LEMMA Bounds ==
  MaxClaims \in Nat /\ MaxBatches \in Nat /\ MaxCrashes \in Nat /\ Limits \subseteq Nat
BY WorkQueueAssumption

LEMMA AgeCapIsNat == AgeCap \in Nat /\ AgeCap > StaleAfter /\ AgeCap > 0
BY WorkQueueAssumption DEF AgeCap

LEMMA JobUpdate ==
  ASSUME NEW job \in Job, NEW state \in JobStates, NEW n \in 0..MaxClaims,
         NEW age \in 0..AgeCap, NEW wait \in Nat
  PROVE  [job EXCEPT !.state = state, !.attempts = n, !.age = age, !.wait = wait] \in Job
BY DEF Job

LEMMA InitType == Init => TypeOK
BY WorkQueueAssumption DEF Init, TypeOK

LEMMA ReportType ==
  ASSUME TypeOK, NEW w \in Workers, Holding(w),
         NEW state \in JobStates, NEW wait \in Nat, Report(w, state, wait)
  PROVE  TypeOK'
<1> DEFINE k == workers[w].key
<1>1. k \in Keys
  BY WorkerShape
<1>2. workers' \in [Workers -> {Idle} \cup Busy \cup Failing]
  BY DEF Report, TypeOK
<1>3. jobs' \in [Keys -> Job \cup {NoJob}]
  <2>1. CASE HasRow(w) /\ jobs[k].state = "running"
    <3>1. jobs[k] \in Job
      BY <2>1, <1>1, RowShape DEF HasRow
    <3>2. 0 \in 0..AgeCap
      BY AgeCapIsNat
    <3>3. [jobs[k] EXCEPT !.state = state, !.age = 0, !.wait = wait] \in Job
      BY <3>1, <3>2 DEF Job
    <3>4. jobs' = [jobs EXCEPT ![k] = [jobs[k] EXCEPT !.state = state, !.age = 0, !.wait = wait]]
      BY <2>1, <1>1 DEF Report, TypeOK
    <3> QED BY <3>3, <3>4, <1>1 DEF TypeOK
  <2>2. CASE ~(HasRow(w) /\ jobs[k].state = "running")
    BY <2>2 DEF Report, TypeOK
  <2> QED BY <2>1, <2>2
<1> QED BY <1>2, <1>3 DEF Report, TypeOK

LEMMA EnqueueType ==
  ASSUME TypeOK, NEW requests \in SUBSET Keys, EnqueueBatch(requests)
  PROVE  TypeOK'
<1>1. PICK created \in {stamp, stamp + 1},
           priority \in [requests -> Priorities], limit \in [requests -> Limits] :
        /\ stamp' = created
        /\ jobs' = [k \in Keys |->
             IF k \in requests /\ ~Exists(k)
             THEN NewJob(priority[k], limit[k], created) ELSE jobs[k]]
  BY DEF EnqueueBatch
<1>2. /\ batch < MaxBatches /\ batch \in 0..MaxBatches /\ MaxBatches \in Nat
      /\ stamp \in 0..batch /\ batch' = batch + 1
  BY WorkQueueAssumption DEF EnqueueBatch, TypeOK
<1>3. created \in 0..MaxBatches /\ stamp' \in 0..batch'
  BY <1>1, <1>2
<1>4. ASSUME NEW k \in requests
      PROVE  NewJob(priority[k], limit[k], created) \in Job
  <2>1. priority[k] \in Priorities /\ limit[k] \in Limits
    OBVIOUS
  <2>2. 0 \in 0..AgeCap /\ 0 \in 0..MaxClaims /\ batch + 1 \in 1..MaxBatches
    BY <1>2, AgeCapIsNat, WorkQueueAssumption
  <2> QED BY <1>3, <2>1, <2>2 DEF NewJob, Job, JobStates, Waiting
<1>5. jobs' \in [Keys -> Job \cup {NoJob}]
  BY <1>1, <1>4 DEF TypeOK
<1> QED BY <1>2, <1>3, <1>5 DEF EnqueueBatch, TypeOK

LEMMA ClaimType ==
  ASSUME TypeOK, NEW w \in Workers, NEW scope \in Scopes, ClaimNext(w, scope)
  PROVE  TypeOK'
<1>1. PICK k \in scope :
        /\ Claimable(k)
        /\ jobs[k].attempts < MaxClaims
        /\ jobs' = [jobs EXCEPT ![k] =
             [jobs[k] EXCEPT !.state = "running", !.age = 0, !.attempts = jobs[k].attempts + 1]]
        /\ workers' = [workers EXCEPT ![w] =
             [at |-> "busy", key |-> k, id |-> jobs[k].id,
              attempt |-> jobs[k].attempts + 1]]
  BY DEF ClaimNext
<1>2. k \in Keys /\ jobs[k] \in Job
  BY <1>1, WorkQueueAssumption, RowShape DEF Claimable
<1>3. jobs[k].attempts + 1 \in 1..MaxClaims /\ jobs[k].attempts + 1 \in 0..MaxClaims
      /\ 0 \in 0..AgeCap
  <2>1. jobs[k].attempts \in 0..MaxClaims
    BY <1>2 DEF Job
  <2> QED BY <2>1, <1>1, AgeCapIsNat, WorkQueueAssumption
<1>4. [jobs[k] EXCEPT !.state = "running", !.age = 0, !.attempts = jobs[k].attempts + 1] \in Job
  BY <1>2, <1>3 DEF Job, JobStates
<1>5. [at |-> "busy", key |-> k, id |-> jobs[k].id, attempt |-> jobs[k].attempts + 1] \in Busy
  BY <1>2, <1>3 DEF Busy, Job
<1> QED BY <1>1, <1>2, <1>4, <1>5 DEF ClaimNext, TypeOK

LEMMA FailReadType ==
  ASSUME TypeOK, NEW w \in Workers, FailRead(w), 
         \A k \in Keys : Exists(k) /\ jobs[k].state = "running" => jobs[k].attempts >= 1
  PROVE  TypeOK'
<1> DEFINE k == workers[w].key
<1>1. workers[w] \in Busy /\ k \in Keys
  BY WorkerShape DEF FailRead, Holding
<1>2. CASE HasRow(w) /\ jobs[k].state = "running"
  <2> DEFINE failing == [at |-> "failing", key |-> k, id |-> workers[w].id,
                         attempt |-> workers[w].attempt,
                         seen |-> jobs[k].attempts, limit |-> jobs[k].limit]
  <2>1. jobs[k] \in Job /\ jobs[k].attempts \in 1..MaxClaims /\ jobs[k].limit \in Limits
    BY <1>1, <1>2, RowShape, WorkQueueAssumption DEF HasRow, Job
  <2>2. failing \in Failing
    BY <1>1, <2>1 DEF Failing, Busy
  <2>3. workers' = [workers EXCEPT ![w] = failing]
    BY <1>2 DEF FailRead
  <2> QED BY <2>2, <2>3 DEF FailRead, TypeOK
<1>3. CASE ~(HasRow(w) /\ jobs[k].state = "running")
  BY <1>3 DEF FailRead, TypeOK
<1> QED BY <1>2, <1>3

LEMMA RequeueType ==
  ASSUME TypeOK, NEW scope \in Scopes, RequeueStaleRunning(scope)
  PROVE  TypeOK'
<1>1. ASSUME NEW k \in Keys, Stale(k)
      PROVE  [jobs[k] EXCEPT !.state = "retry", !.age = 0, !.wait = 0] \in Job
  <2>1. jobs[k] \in Job /\ 0 \in 0..AgeCap
    BY <1>1, RowShape, AgeCapIsNat DEF Stale
  <2> QED BY <2>1 DEF Job, JobStates, Waiting
<1> QED BY <1>1 DEF RequeueStaleRunning, TypeOK

LEMMA TickType ==
  ASSUME TypeOK, Tick
  PROVE  TypeOK'
<1>1. ASSUME NEW job \in Job
      PROVE  Elapse(job) \in Job
  <2>1. job.age \in 0..AgeCap /\ job.wait \in Nat
    BY DEF Job
  <2>2. (IF job.age < AgeCap THEN job.age + 1 ELSE job.age) \in 0..AgeCap
    BY <2>1, AgeCapIsNat
  <2>3. (IF job.wait > 0 THEN job.wait - 1 ELSE 0) \in Nat
    BY <2>1
  <2> QED BY <2>2, <2>3 DEF Elapse, Job
<1>2. ASSUME NEW k \in Keys
      PROVE  (IF Exists(k) THEN Elapse(jobs[k]) ELSE NoJob) \in Job \cup {NoJob}
  BY <1>1, RowShape
<1> QED BY <1>2 DEF Tick, TypeOK

-----------------------------------------------------------------------------
(* The inductive invariant.  Ids grow, so an id a worker remembers never   *)
(* names a row inserted later; what Fail read of a row is never ahead of   *)
(* the row.                                                                *)
RowsKnown ==
  \A k \in Keys : Exists(k) =>
    /\ jobs[k].id <= batch
    /\ jobs[k].state # "queued" => jobs[k].attempts >= 1

HoldersKnown == \A w \in Workers : Holding(w) => workers[w].id <= batch

SeenIsPast ==
  \A w \in Workers : workers[w].at = "failing" /\ HasRow(w) =>
    /\ workers[w].attempt <= workers[w].seen
    /\ workers[w].seen <= jobs[workers[w].key].attempts
    /\ workers[w].limit = jobs[workers[w].key].limit

Known == TypeOK /\ RowsKnown /\ HoldersKnown

Safe == Known /\ SeenIsPast /\ AttemptIdentifiesClaim /\ ErrorOnlyWhenExhausted

(* A step that inserts no row and counts no attempt. *)
QuietRow(k) ==
  Exists(k)' => /\ Exists(k)
                /\ jobs'[k].id = jobs[k].id
                /\ jobs'[k].limit = jobs[k].limit
                /\ jobs'[k].attempts = jobs[k].attempts
                /\ jobs'[k].state = "queued" => jobs[k].state = "queued"
                /\ jobs[k].state = "queued" => jobs'[k].state = "queued"

(* A worker that goes idle, or keeps the claim it has. *)
QuietWorker(w) ==
  Holding(w)' => /\ Holding(w)
                 /\ workers'[w].key = workers[w].key
                 /\ workers'[w].id = workers[w].id
                 /\ workers'[w].attempt = workers[w].attempt

LEMMA QuietStep ==
  ASSUME Known, AttemptIdentifiesClaim, batch' = batch,
         \A k \in Keys : QuietRow(k),
         \A w \in Workers : QuietWorker(w)
  PROVE  /\ RowsKnown' /\ HoldersKnown' /\ AttemptIdentifiesClaim'
         /\ \A w \in Workers : HasRow(w)' => HasRow(w)
<1>1. RowsKnown'
  BY DEF QuietRow, Known, RowsKnown
<1>2. HoldersKnown'
  BY DEF QuietWorker, Known, HoldersKnown
<1>3. ASSUME NEW w \in Workers, HasRow(w)'
      PROVE  /\ HasRow(w)
             /\ workers'[w].key = workers[w].key /\ workers[w].key \in Keys
             /\ workers'[w].attempt = workers[w].attempt
             /\ jobs'[workers[w].key].attempts = jobs[workers[w].key].attempts
  BY <1>3, WorkerShape DEF HasRow, Holding, QuietRow, QuietWorker, Known, Exists
<1>4. AttemptIdentifiesClaim'
  BY <1>3 DEF AttemptIdentifiesClaim, Holds
<1> QED BY <1>1, <1>2, <1>3, <1>4

LEMMA InitSafe == Init => Safe
BY InitType DEF Init, Safe, Known, RowsKnown, HoldersKnown, SeenIsPast,
   AttemptIdentifiesClaim, ErrorOnlyWhenExhausted, Exists, Holding, HasRow, Idle

(* Report: an ended job is exhausted if it was a final error. *)
LEMMA ReportSafe ==
  ASSUME Safe, NEW w \in Workers, Holding(w),
         NEW state \in JobStates \ {"queued"}, NEW wait \in Nat, Report(w, state, wait),
         state = "error" /\ HasRow(w)
           => jobs[workers[w].key].attempts >= jobs[workers[w].key].limit
  PROVE  Safe'
<1> DEFINE k == workers[w].key
<1>1. TypeOK'
  BY ReportType DEF Safe, Known
<1>2. k \in Keys
  BY WorkerShape DEF Safe, Known
<1>3. ASSUME NEW l \in Keys
      PROVE  \/ jobs'[l] = jobs[l]
             \/ /\ l = k /\ HasRow(w) /\ jobs[l].state = "running"
                /\ jobs'[l] = [jobs[l] EXCEPT !.state = state, !.age = 0, !.wait = wait]
  BY <1>2 DEF Report, Safe, Known, TypeOK
<1>4. ASSUME NEW l \in Keys
      PROVE  QuietRow(l)
  <2>1. CASE jobs'[l] = jobs[l]
    BY <2>1 DEF QuietRow, Exists
  <2>2. CASE jobs'[l] # jobs[l]
    <3>1. /\ l = k /\ HasRow(w) /\ jobs[l].state = "running"
          /\ jobs'[l] = [jobs[l] EXCEPT !.state = state, !.age = 0, !.wait = wait]
      BY <1>3, <2>2
    <3>2. jobs[l] \in Job
      BY <3>1, RowShape DEF HasRow, Safe, Known
    <3> QED BY <3>1, <3>2 DEF QuietRow, HasRow, Job
  <2> QED BY <2>1, <2>2
<1>5. ASSUME NEW v \in Workers
      PROVE  QuietWorker(v) /\ (v # w => workers'[v] = workers[v]) /\ ~Holding(w)'
  BY DEF Report, Safe, Known, TypeOK, QuietWorker, Holding, Idle
<1>6. RowsKnown' /\ HoldersKnown' /\ AttemptIdentifiesClaim'
      /\ \A v \in Workers : HasRow(v)' => HasRow(v)
  BY <1>4, <1>5, QuietStep DEF Safe, Report
<1>7. SeenIsPast'
  <2> SUFFICES ASSUME NEW v \in Workers, workers'[v].at = "failing", HasRow(v)'
               PROVE  /\ workers'[v].attempt <= workers'[v].seen
                      /\ workers'[v].seen <= jobs'[workers'[v].key].attempts
                      /\ workers'[v].limit = jobs'[workers'[v].key].limit
    BY DEF SeenIsPast
  <2>1. v # w /\ workers'[v] = workers[v] /\ HasRow(v) /\ workers[v].key \in Keys
    BY <1>5, <1>6, WorkerShape DEF HasRow, Safe, Known
  <2> QED BY <2>1, <1>4 DEF QuietRow, SeenIsPast, Safe, HasRow
<1>8. ErrorOnlyWhenExhausted'
  <2> SUFFICES ASSUME NEW l \in Keys, Exists(l)', jobs'[l].state = "error"
               PROVE  jobs'[l].attempts >= jobs'[l].limit
    BY DEF ErrorOnlyWhenExhausted
  <2>1. CASE jobs'[l] = jobs[l]
    BY <2>1 DEF ErrorOnlyWhenExhausted, Safe, Exists
  <2>2. CASE jobs'[l] # jobs[l]
    <3>1. /\ l = k /\ HasRow(w) /\ jobs[l].state = "running"
          /\ jobs'[l] = [jobs[l] EXCEPT !.state = state, !.age = 0, !.wait = wait]
      BY <1>3, <2>2
    <3>2. jobs[l] \in Job
      BY <3>1, RowShape DEF HasRow, Safe, Known
    <3>3. state = "error"
      BY <3>1, <3>2 DEF Job
    <3> QED BY <3>1, <3>2, <3>3 DEF Job
  <2> QED BY <2>1, <2>2
<1> QED BY <1>1, <1>6, <1>7, <1>8 DEF Safe, Known

LEMMA CompleteSafe ==
  ASSUME Safe, NEW w \in Workers, Complete(w)
  PROVE  Safe'
<1>1. Holding(w) /\ "ok" \in JobStates \ {"queued"} /\ Report(w, "ok", 0)
  BY DEF Complete, Holding, JobStates, Terminal
<1> QED BY <1>1, ReportSafe

LEMMA FailWriteSafe ==
  ASSUME Safe, NEW w \in Workers, FailWrite(w)
  PROVE  Safe'
<1>1. Holding(w) /\ workers[w] \in Failing
  BY WorkerShape DEF FailWrite, Holding, Safe, Known
<1>2. {"retry", "error"} \subseteq JobStates \ {"queued"}
  BY DEF JobStates, Terminal, Waiting
<1>3. CASE workers[w].seen < workers[w].limit
  <2>1. Backoff[workers[w].seen] \in Nat
    BY <1>1, WorkQueueAssumption DEF Failing
  <2>2. Report(w, "retry", Backoff[workers[w].seen])
    BY <1>3 DEF FailWrite
  <2> QED BY <1>1, <1>2, <2>1, <2>2, ReportSafe
<1>4. CASE ~(workers[w].seen < workers[w].limit)
  <2>1. Report(w, "error", 0)
    BY <1>4 DEF FailWrite
  <2>2. ASSUME HasRow(w)
        PROVE  jobs[workers[w].key].attempts >= jobs[workers[w].key].limit
    <3>1. /\ workers[w].seen <= jobs[workers[w].key].attempts
          /\ workers[w].limit = jobs[workers[w].key].limit
      BY <2>2 DEF FailWrite, SeenIsPast, Safe
    <3>2. workers[w].seen \in Nat /\ workers[w].limit \in Nat
      <4>1. workers[w].seen \in 1..MaxClaims /\ workers[w].limit \in Limits
        BY <1>1 DEF Failing
      <4>2. 1..MaxClaims \subseteq Nat /\ Limits \subseteq Nat
        BY Bounds
      <4> QED BY <4>1, <4>2
    <3>3. jobs[workers[w].key] \in Job
      BY <2>2, WorkerShape, RowShape DEF HasRow, Safe, Known
    <3> QED BY <1>4, <3>1, <3>2, <3>3 DEF Job
  <2> QED BY <1>1, <1>2, <2>1, <2>2, ReportSafe
<1> QED BY <1>3, <1>4

LEMMA FailReadSafe ==
  ASSUME Safe, NEW w \in Workers, FailRead(w)
  PROVE  Safe'
<1> DEFINE k == workers[w].key
<1>1. TypeOK'
  BY FailReadType DEF Safe, Known, RowsKnown
<1>2. /\ workers[w] \in Busy /\ Holding(w) /\ k \in Keys
      /\ jobs' = jobs /\ batch' = batch
      /\ \A v \in Workers : v # w => workers'[v] = workers[v]
  BY WorkerShape DEF FailRead, Holding, Safe, Known, TypeOK
<1>3. \/ workers'[w] = Idle
      \/ /\ HasRow(w) /\ jobs[k].state = "running"
         /\ workers'[w] = [at |-> "failing", key |-> k, id |-> workers[w].id,
                           attempt |-> workers[w].attempt,
                           seen |-> jobs[k].attempts, limit |-> jobs[k].limit]
  BY DEF FailRead, Safe, Known, TypeOK
<1>4. \A l \in Keys : QuietRow(l)
  BY <1>2 DEF QuietRow, Exists
<1>5. \A v \in Workers : QuietWorker(v)
  BY <1>2, <1>3 DEF QuietWorker, Holding, Idle
<1>6. RowsKnown' /\ HoldersKnown' /\ AttemptIdentifiesClaim'
      /\ \A v \in Workers : HasRow(v)' => HasRow(v)
  BY <1>2, <1>4, <1>5, QuietStep DEF Safe
<1>7. SeenIsPast'
  <2> SUFFICES ASSUME NEW v \in Workers, workers'[v].at = "failing", HasRow(v)'
               PROVE  /\ workers'[v].attempt <= workers'[v].seen
                      /\ workers'[v].seen <= jobs'[workers'[v].key].attempts
                      /\ workers'[v].limit = jobs'[workers'[v].key].limit
    BY DEF SeenIsPast
  <2>1. CASE v # w
    BY <2>1, <1>2, <1>6 DEF SeenIsPast, Safe
  <2>2. CASE v = w
    <3>1. /\ HasRow(w)
          /\ workers'[w] = [at |-> "failing", key |-> k, id |-> workers[w].id,
                            attempt |-> workers[w].attempt,
                            seen |-> jobs[k].attempts, limit |-> jobs[k].limit]
      BY <2>2, <1>3 DEF Idle
    <3>2. workers[w].attempt <= jobs[k].attempts
      BY <3>1 DEF AttemptIdentifiesClaim, Safe
    <3>3. jobs[k].attempts \in 0..MaxClaims
      BY <3>1, <1>2, RowShape DEF HasRow, Safe, Known, Job
    <3> QED BY <2>2, <3>1, <3>2, <3>3, <1>2, WorkQueueAssumption
  <2> QED BY <2>1, <2>2
<1>8. ErrorOnlyWhenExhausted'
  BY <1>2 DEF ErrorOnlyWhenExhausted, Exists, Safe
<1> QED BY <1>1, <1>6, <1>7, <1>8 DEF Safe, Known

(* The steps that change rows without counting attempts and that leave     *)
(* every worker alone, or send it idle: they keep Safe if they keep types  *)
(* and end no job.                                                         *)
LEMMA QuietSafe ==
  ASSUME Safe, TypeOK', batch' = batch,
         \A k \in Keys : QuietRow(k),
         \A k \in Keys : Exists(k)' /\ jobs'[k].state = "error" => jobs[k].state = "error",
         \A w \in Workers : workers'[w] = workers[w] \/ workers'[w] = Idle
  PROVE  Safe'
<1>1. \A w \in Workers : QuietWorker(w)
  BY DEF QuietWorker, Holding, Idle
<1>2. RowsKnown' /\ HoldersKnown' /\ AttemptIdentifiesClaim'
      /\ \A w \in Workers : HasRow(w)' => HasRow(w)
  BY <1>1, QuietStep DEF Safe
<1>3. SeenIsPast'
  <2> SUFFICES ASSUME NEW w \in Workers, workers'[w].at = "failing", HasRow(w)'
               PROVE  /\ workers'[w].attempt <= workers'[w].seen
                      /\ workers'[w].seen <= jobs'[workers'[w].key].attempts
                      /\ workers'[w].limit = jobs'[workers'[w].key].limit
    BY DEF SeenIsPast
  <2>1. workers'[w] = workers[w] /\ HasRow(w) /\ workers[w].key \in Keys
    BY <1>2, WorkerShape DEF Idle, HasRow, Safe, Known
  <2> QED BY <2>1 DEF QuietRow, SeenIsPast, Safe, HasRow
<1>4. ErrorOnlyWhenExhausted'
  BY DEF ErrorOnlyWhenExhausted, QuietRow, Safe
<1> QED BY <1>2, <1>3, <1>4 DEF Safe, Known

LEMMA CrashSafe ==
  ASSUME Safe, NEW w \in Workers, Crash(w)
  PROVE  Safe'
<1>1. TypeOK'
  BY WorkQueueAssumption DEF Crash, Safe, Known, TypeOK
<1>2. \A k \in Keys : QuietRow(k)
  BY DEF Crash, QuietRow, Exists
<1>3. \A v \in Workers : workers'[v] = workers[v] \/ workers'[v] = Idle
  BY DEF Crash, Safe, Known, TypeOK
<1> QED BY <1>1, <1>2, <1>3, QuietSafe DEF Crash

LEMMA RequeueSafe ==
  ASSUME Safe, NEW scope \in Scopes, RequeueStaleRunning(scope)
  PROVE  Safe'
<1>1. TypeOK'
  BY RequeueType DEF Safe, Known
<1>2. ASSUME NEW k \in Keys
      PROVE  \/ jobs'[k] = jobs[k]
             \/ /\ Stale(k)
                /\ jobs'[k] = [jobs[k] EXCEPT !.state = "retry", !.age = 0, !.wait = 0]
  BY DEF RequeueStaleRunning
<1>3. ASSUME NEW k \in Keys
      PROVE  QuietRow(k) /\ (Exists(k)' /\ jobs'[k].state = "error" => jobs[k].state = "error")
  <2>1. CASE jobs'[k] = jobs[k]
    BY <2>1 DEF QuietRow, Exists
  <2>2. CASE jobs'[k] # jobs[k]
    <3>1. jobs[k] \in Job /\ Stale(k)
      BY <2>2, <1>2, RowShape DEF Stale, Safe, Known
    <3> QED BY <3>1, <2>2, <1>2 DEF QuietRow, Stale, Job
  <2> QED BY <2>1, <2>2
<1> QED BY <1>1, <1>3, QuietSafe DEF RequeueStaleRunning

LEMMA DeleteSafe ==
  ASSUME Safe, NEW rows \in SUBSET Keys, Delete(rows)
  PROVE  Safe'
<1>1. TypeOK'
  BY DEF Delete, Safe, Known, TypeOK
<1>2. ASSUME NEW k \in Keys
      PROVE  QuietRow(k) /\ (Exists(k)' /\ jobs'[k].state = "error" => jobs[k].state = "error")
  BY DEF Delete, QuietRow, Exists
<1> QED BY <1>1, <1>2, QuietSafe DEF Delete

LEMMA TickSafe ==
  ASSUME Safe, Tick
  PROVE  Safe'
<1>1. TypeOK'
  BY TickType DEF Safe, Known
<1>2. ASSUME NEW k \in Keys
      PROVE  QuietRow(k) /\ (Exists(k)' /\ jobs'[k].state = "error" => jobs[k].state = "error")
  <2>1. jobs'[k] = IF Exists(k) THEN Elapse(jobs[k]) ELSE NoJob
    BY DEF Tick
  <2>2. CASE Exists(k)
    <3>1. jobs[k] \in Job
      BY <2>2, RowShape DEF Safe, Known
    <3> QED BY <3>1, <2>1, <2>2 DEF Elapse, Job, QuietRow
  <2>3. CASE ~Exists(k)
    BY <2>1, <2>3 DEF QuietRow, Exists
  <2> QED BY <2>2, <2>3
<1> QED BY <1>1, <1>2, QuietSafe DEF Tick

\* A new row has an id no worker remembers.
LEMMA EnqueueKeepsHolders ==
  ASSUME Safe, NEW requests \in SUBSET Keys, EnqueueBatch(requests),
         NEW w \in Workers, HasRow(w)'
  PROVE  HasRow(w) /\ workers[w].key \in Keys
         /\ jobs'[workers[w].key] = jobs[workers[w].key]
<1>1. batch \in Nat /\ workers' = workers
  BY Bounds DEF EnqueueBatch, Safe, Known, TypeOK
<1>2. workers[w].key \in Keys /\ workers[w].id \in 1..MaxBatches /\ workers[w].id <= batch
  BY <1>1, WorkerShape DEF HasRow, Holding, HoldersKnown, Safe, Known
<1>3. jobs'[workers[w].key].id = workers[w].id
  BY <1>1 DEF HasRow
<1>4. jobs'[workers[w].key] = jobs[workers[w].key]
  BY <1>1, <1>2, <1>3 DEF EnqueueBatch, NewJob
<1> QED BY <1>1, <1>2, <1>4 DEF HasRow, Exists, Holding

LEMMA EnqueueSafe ==
  ASSUME Safe, NEW requests \in SUBSET Keys, EnqueueBatch(requests)
  PROVE  Safe'
<1>1. TypeOK'
  BY EnqueueType DEF Safe, Known
<1>2. batch \in Nat /\ batch' = batch + 1 /\ workers' = workers
  BY Bounds DEF EnqueueBatch, Safe, Known, TypeOK
<1>3. ASSUME NEW k \in Keys
      PROVE  \/ jobs'[k] = jobs[k]
             \/ /\ ~Exists(k)
                /\ jobs'[k].id = batch + 1 /\ jobs'[k].state = "queued"
  BY DEF EnqueueBatch, NewJob
<1>4. RowsKnown'
  <2> SUFFICES ASSUME NEW k \in Keys, Exists(k)'
               PROVE  /\ jobs'[k].id <= batch'
                      /\ jobs'[k].state # "queued" => jobs'[k].attempts >= 1
    BY DEF RowsKnown
  <2>1. CASE jobs'[k] = jobs[k]
    <3>1. jobs[k] \in Job /\ jobs[k].id <= batch
      BY <2>1, RowShape DEF Exists, RowsKnown, Safe, Known
    <3> QED BY <2>1, <3>1, <1>2 DEF Exists, RowsKnown, Safe, Known, Job
  <2>2. CASE jobs'[k] # jobs[k]
    BY <2>2, <1>2, <1>3
  <2> QED BY <2>1, <2>2
<1>5. HoldersKnown'
  BY <1>2, WorkerShape DEF HoldersKnown, Holding, Safe, Known
<1>6. ASSUME NEW w \in Workers, HasRow(w)'
      PROVE  HasRow(w) /\ workers[w].key \in Keys
             /\ jobs'[workers[w].key] = jobs[workers[w].key]
  BY <1>6, EnqueueKeepsHolders
<1>7. AttemptIdentifiesClaim'
  BY <1>2, <1>6 DEF AttemptIdentifiesClaim, Holds, Safe
<1>8. SeenIsPast'
  BY <1>2, <1>6 DEF SeenIsPast, Safe
<1>9. ErrorOnlyWhenExhausted'
  BY <1>3 DEF ErrorOnlyWhenExhausted, Exists, Safe
<1> QED BY <1>1, <1>4, <1>5, <1>7, <1>8, <1>9 DEF Safe, Known

LEMMA ClaimSafe ==
  ASSUME Safe, NEW w \in Workers, NEW scope \in Scopes, ClaimNext(w, scope)
  PROVE  Safe'
<1>1. TypeOK'
  BY ClaimType DEF Safe, Known
<1>2. PICK k \in Keys :
        /\ Exists(k) /\ jobs[k].state \in Waiting /\ jobs[k].attempts < MaxClaims
        /\ jobs' = [jobs EXCEPT ![k] =
             [jobs[k] EXCEPT !.state = "running", !.age = 0, !.attempts = jobs[k].attempts + 1]]
        /\ workers' = [workers EXCEPT ![w] =
             [at |-> "busy", key |-> k, id |-> jobs[k].id,
              attempt |-> jobs[k].attempts + 1]]
  BY WorkQueueAssumption DEF ClaimNext, Claimable
<1>3. jobs[k] \in Job /\ jobs[k].attempts \in Nat /\ jobs[k].limit \in Nat
      /\ jobs[k].id <= batch
  BY <1>2, RowShape, Bounds DEF Job, Safe, Known, RowsKnown
<1>4. /\ jobs'[k].id = jobs[k].id /\ jobs'[k].limit = jobs[k].limit
      /\ jobs'[k].attempts = jobs[k].attempts + 1 /\ jobs'[k].state = "running"
      /\ \A l \in Keys : l # k => jobs'[l] = jobs[l]
      /\ jobs'[k] \in Job /\ Exists(k)'
  <2>1. jobs'[k] = [jobs[k] EXCEPT !.state = "running", !.age = 0,
                                  !.attempts = jobs[k].attempts + 1]
        /\ \A l \in Keys : l # k => jobs'[l] = jobs[l]
    BY <1>2 DEF Safe, Known, TypeOK
  <2>2. /\ jobs'[k].id = jobs[k].id /\ jobs'[k].limit = jobs[k].limit
        /\ jobs'[k].attempts = jobs[k].attempts + 1 /\ jobs'[k].state = "running"
    BY <2>1, <1>3 DEF Job
  <2>3. jobs'[k] \in Job
    <3>1. jobs'[k].attempts \in 0..MaxClaims
      BY <1>2, <1>3, <2>2, Bounds DEF Job
    <3>2. 0 \in 0..AgeCap
      BY AgeCapIsNat
    <3> QED BY <2>1, <2>2, <3>1, <3>2, <1>3 DEF Job, JobStates
  <2> QED BY <2>1, <2>2, <2>3, NoJobAssumption DEF Exists
<1>5. /\ workers'[w].at = "busy" /\ workers'[w].key = k /\ workers'[w].id = jobs[k].id
      /\ workers'[w].attempt = jobs[k].attempts + 1
      /\ \A v \in Workers : v # w => workers'[v] = workers[v]
      /\ batch' = batch
  BY <1>2 DEF ClaimNext, Safe, Known, TypeOK
<1>6. RowsKnown'
  BY <1>3, <1>4, <1>5 DEF RowsKnown, Exists, Safe, Known
<1>7. HoldersKnown'
  BY <1>3, <1>5 DEF HoldersKnown, Holding, Safe, Known
<1>8. ASSUME NEW v \in Workers, v # w, HasRow(v)'
      PROVE  HasRow(v) /\ workers'[v] = workers[v] /\ workers[v].key \in Keys
             /\ workers[v].attempt \in Nat
             /\ workers[v].attempt <= jobs[workers[v].key].attempts
  <2>0. workers'[v] = workers[v] /\ Holding(v) /\ workers[v].key \in Keys
    BY <1>8, <1>5, WorkerShape DEF HasRow, Holding, Safe, Known
  <2>1. HasRow(v) /\ workers'[v] = workers[v]
    BY <2>0, <1>8, <1>2, <1>4 DEF HasRow, Exists
  <2>2. workers[v].key \in Keys /\ workers[v].attempt \in 1..MaxClaims
    BY <2>1, WorkerShape DEF HasRow, Safe, Known
  <2> QED BY <2>1, <2>2, Bounds DEF AttemptIdentifiesClaim, Safe
<1>9. AttemptIdentifiesClaim'
  <2> SUFFICES ASSUME NEW v \in Workers, HasRow(v)'
               PROVE  /\ workers'[v].attempt <= jobs'[workers'[v].key].attempts
                      /\ \A u \in Workers \ {v} : HasRow(u)' /\ workers'[u].key = workers'[v].key
                           => workers'[u].attempt # workers'[v].attempt
    BY DEF AttemptIdentifiesClaim, Holds
  <2>1. workers'[v].attempt <= jobs'[workers'[v].key].attempts
    <3>1. CASE v = w
      BY <3>1, <1>3, <1>4, <1>5
    <3>2. CASE v # w
      <4>1. CASE workers[v].key = k
        BY <3>2, <4>1, <1>3, <1>4, <1>8
      <4>2. CASE workers[v].key # k
        BY <3>2, <4>2, <1>4, <1>8
      <4> QED BY <4>1, <4>2
    <3> QED BY <3>1, <3>2
  <2>2. ASSUME NEW u \in Workers \ {v}, HasRow(u)', workers'[u].key = workers'[v].key
        PROVE  workers'[u].attempt # workers'[v].attempt
    <3>1. CASE v = w
      BY <2>2, <3>1, <1>3, <1>5, <1>8
    <3>2. CASE u = w
      BY <2>2, <3>2, <1>3, <1>5, <1>8
    <3>3. CASE v # w /\ u # w
      BY <2>2, <3>3, <1>8 DEF AttemptIdentifiesClaim, Holds, Safe
    <3> QED BY <3>1, <3>2, <3>3
  <2> QED BY <2>1, <2>2
<1>10. SeenIsPast'
  <2> SUFFICES ASSUME NEW v \in Workers, workers'[v].at = "failing", HasRow(v)'
               PROVE  /\ workers'[v].attempt <= workers'[v].seen
                      /\ workers'[v].seen <= jobs'[workers'[v].key].attempts
                      /\ workers'[v].limit = jobs'[workers'[v].key].limit
    BY DEF SeenIsPast
  <2>1. v # w /\ workers'[v] = workers[v] /\ HasRow(v)
    BY <1>5, <1>8
  <2>2. workers[v].seen \in 1..MaxClaims
    BY <2>1, WorkerShape DEF Safe, Known, Failing
  <2>3. /\ workers[v].attempt <= workers[v].seen
        /\ workers[v].seen <= jobs[workers[v].key].attempts
        /\ workers[v].limit = jobs[workers[v].key].limit
    BY <2>1 DEF SeenIsPast, Safe
  <2>4. CASE workers[v].key = k
    BY <2>1, <2>2, <2>3, <2>4, <1>3, <1>4, Bounds
  <2>5. CASE workers[v].key # k
    BY <2>1, <2>3, <2>5, <1>4, <1>8
  <2> QED BY <2>4, <2>5
<1>11. ErrorOnlyWhenExhausted'
  BY <1>4 DEF ErrorOnlyWhenExhausted, Exists, Safe
<1> QED BY <1>1, <1>6, <1>7, <1>9, <1>10, <1>11 DEF Safe, Known

LEMMA NextSafe == Safe /\ [Next]_vars => Safe'
<1> SUFFICES ASSUME Safe, [Next]_vars
             PROVE  Safe'
  OBVIOUS
<1>1. ASSUME NEW requests \in SUBSET Keys \ {{}}, EnqueueBatch(requests)
      PROVE  Safe'
  BY <1>1, EnqueueSafe
<1>2. ASSUME NEW w \in Workers, WorkerStep(w)
      PROVE  Safe'
  BY <1>2, ClaimSafe, CompleteSafe, FailReadSafe, FailWriteSafe, CrashSafe DEF WorkerStep
<1>3. ASSUME NEW scope \in Scopes, Cleanup(scope) \/ Purge(scope)
      PROVE  Safe'
  <2>1. PICK rows \in SUBSET Keys : Delete(rows)
    BY <1>3, WorkQueueAssumption DEF Cleanup, Purge
  <2> QED BY <2>1, DeleteSafe
<1>4. CASE UNCHANGED vars
  BY <1>4 DEF vars, Safe, Known, TypeOK, RowsKnown, HoldersKnown, SeenIsPast,
     AttemptIdentifiesClaim, ErrorOnlyWhenExhausted, Exists, Holding, HasRow, Holds
<1> QED BY <1>1, <1>2, <1>3, <1>4, RequeueSafe, TickSafe DEF Next

(* Everything the safety proofs rest on. *)
THEOREM Safety == Spec => []Safe
<1> QED BY InitSafe, NextSafe, PTL DEF Spec

-----------------------------------------------------------------------------
(* The type of the queue table and of what the workers remember. *)
THEOREM TypeCorrect == Spec => []TypeOK
BY Safety, PTL DEF Safe, Known

(* Two claims of a row, one of them lost, are told apart by their attempt. *)
THEOREM Fencing == Spec => []AttemptIdentifiesClaim
BY Safety, PTL DEF Safe

(* Fail gives up only jobs that used up their attempts, whatever happened  *)
(* between its two statements.                                             *)
THEOREM GivenUpWhenExhausted == Spec => []ErrorOnlyWhenExhausted
BY Safety, PTL DEF Safe

(* How a row can change in one step, for the step properties below. *)
RowStep(k) ==
  \/ jobs'[k] = jobs[k] \/ ~Exists(k) \/ ~Exists(k)'
  \/ jobs[k].state \notin Terminal
  \/ jobs'[k] = Elapse(jobs[k])

LEMMA NextRowStep ==
  ASSUME Safe, Next, NEW k \in Keys
  PROVE  RowStep(k)
<1>1. ASSUME NEW requests \in SUBSET Keys \ {{}}, EnqueueBatch(requests)
      PROVE  RowStep(k)
  BY <1>1 DEF EnqueueBatch, RowStep
<1>2. ASSUME NEW w \in Workers, NEW scope \in Scopes, ClaimNext(w, scope)
      PROVE  RowStep(k)
  <2>1. PICK l \in Keys : /\ jobs[l].state \in Waiting
                          /\ \A m \in Keys : m # l => jobs'[m] = jobs[m]
    BY <1>2, WorkQueueAssumption DEF ClaimNext, Claimable, Safe, Known, TypeOK
  <2> QED BY <2>1 DEF RowStep, Waiting, Terminal
<1>3. ASSUME NEW w \in Workers, NEW state, NEW wait, Report(w, state, wait)
      PROVE  RowStep(k)
  <2>1. jobs'[k] = jobs[k] \/ jobs[k].state = "running"
    BY <1>3 DEF Report, Safe, Known, TypeOK
  <2> QED BY <2>1 DEF RowStep, Terminal
<1>4. ASSUME NEW w \in Workers, FailRead(w) \/ Crash(w)
      PROVE  RowStep(k)
  BY <1>4 DEF FailRead, Crash, RowStep
<1>5. ASSUME NEW scope \in Scopes, RequeueStaleRunning(scope)
      PROVE  RowStep(k)
  BY <1>5 DEF RequeueStaleRunning, Stale, RowStep, Terminal
<1>6. ASSUME NEW rows, Delete(rows)
      PROVE  RowStep(k)
  BY <1>6 DEF Delete, RowStep, Exists
<1>7. CASE Tick
  BY <1>7 DEF Tick, RowStep
<1> QED BY <1>1, <1>2, <1>3, <1>4, <1>5, <1>6, <1>7
        DEF Next, WorkerStep, Complete, FailWrite, Cleanup, Purge

(* An ended job is never reopened, by whatever worker reports late.        *)
THEOREM EndedStaysEnded == Spec => TerminalIsFinal
<1>1. ASSUME Safe, [Next]_vars
      PROVE  [TerminalStep]_vars
  <2> SUFFICES ASSUME Next
               PROVE  TerminalStep
    BY <1>1
  <2> SUFFICES ASSUME NEW k \in Keys, Exists(k), jobs[k].state \in Terminal, Exists(k)'
               PROVE  /\ jobs'[k].id = jobs[k].id
                      /\ jobs'[k].state = jobs[k].state
                      /\ jobs'[k].attempts = jobs[k].attempts
    BY DEF TerminalStep
  <2>1. jobs'[k] = jobs[k] \/ jobs'[k] = Elapse(jobs[k])
    BY <1>1, NextRowStep DEF RowStep
  <2>2. jobs[k] \in Job
    BY <1>1, RowShape DEF Safe, Known
  <2> QED BY <2>1, <2>2 DEF Elapse, Job
<1> QED BY <1>1, Safety, PTL DEF Spec, TerminalIsFinal

-----------------------------------------------------------------------------
(* The queue implements JobLifecycle. *)

Card(k) == [phase |-> Phase(jobs[k].state), tries |-> jobs[k].attempts,
            limit |-> jobs[k].limit]

LEMMA PhaseValues ==
  /\ \A state \in Waiting : Phase(state) = "waiting"
  /\ Phase("running") = "running" /\ Phase("ok") = "done" /\ Phase("error") = "dead"
BY DEF Phase, Waiting

LEMMA BoardShape ==
  ASSUME TypeOK, NEW k \in Keys
  PROVE  /\ Exists(k) => /\ Board[k] = Card(k) /\ Board[k] # NoJob
                         /\ jobs[k].attempts \in Nat /\ jobs[k].limit \in Nat
         /\ ~Exists(k) => Board[k] = NoJob
<1>1. Board[k] = IF Exists(k) THEN Card(k) ELSE NoJob
  BY DEF Board, Card
<1>2. ASSUME Exists(k)
      PROVE  /\ jobs[k].attempts \in Nat /\ jobs[k].limit \in Nat
             /\ Phase(jobs[k].state) \in {"waiting", "running", "done", "dead"}
  <2>1. /\ jobs[k].attempts \in 0..MaxClaims /\ jobs[k].limit \in Limits
        /\ jobs[k].state \in JobStates
    BY <1>2, RowShape DEF Job
  <2>2. 0..MaxClaims \subseteq Nat /\ Limits \subseteq Nat
    BY Bounds
  <2>3. Phase(jobs[k].state) \in {"waiting", "running", "done", "dead"}
    BY <2>1, PhaseValues DEF JobStates, Terminal
  <2> QED BY <2>1, <2>2, <2>3
<1>3. ASSUME Exists(k)
      PROVE  Card(k) # NoJob
  BY <1>2, <1>3, NoJobAssumption DEF Card
<1> QED BY <1>1, <1>2, <1>3

\* A row whose state, attempts and limit stay has the same card.
LEMMA SameCard ==
  ASSUME NEW k \in Keys, Exists(k) <=> Exists(k)',
         Exists(k) => /\ jobs'[k].state = jobs[k].state
                      /\ jobs'[k].attempts = jobs[k].attempts
                      /\ jobs'[k].limit = jobs[k].limit
  PROVE  Board'[k] = Board[k]
BY DEF Board, Exists

LEMMA SameBoard ==
  ASSUME \A k \in Keys : Board'[k] = Board[k]
  PROVE  UNCHANGED Board
BY DEF Board

LEMMA InitBoard == Init => Lifecycle!Init
BY DEF Init, Lifecycle!Init, Board, Exists

LEMMA EnqueueSubmits ==
  ASSUME Safe, Safe', NEW requests \in SUBSET Keys, EnqueueBatch(requests)
  PROVE  Lifecycle!Next
<1>1. PICK created \in {stamp, stamp + 1},
           priority \in [requests -> Priorities], limit \in [requests -> Limits] :
        jobs' = [k \in Keys |->
             IF k \in requests /\ ~Exists(k)
             THEN NewJob(priority[k], limit[k], created) ELSE jobs[k]]
  BY DEF EnqueueBatch
<1> DEFINE new == [k \in Keys |->
             IF k \in requests /\ Board[k] = NoJob
             THEN Lifecycle!Fresh(limit[k]) ELSE Board[k]]
<1>2. ASSUME NEW k \in Keys
      PROVE  Board'[k] = new[k]
  <2>1. CASE k \in requests /\ ~Exists(k)
    <3>1. jobs'[k] = NewJob(priority[k], limit[k], created)
      BY <1>1, <2>1
    <3>2. Exists(k)'
      <4>1. NewJob(priority[k], limit[k], created) \in Job \cup {NoJob}
        BY <3>1 DEF Safe, Known, TypeOK
      <4>2. NewJob(priority[k], limit[k], created) # NoJob
        <5>1. priority[k] \in Priorities /\ limit[k] \in Limits
          BY <2>1
        <5>2. batch + 1 \in 1..MaxBatches /\ created \in 0..MaxBatches
              /\ 0 \in 0..AgeCap /\ 0 \in 0..MaxClaims
          BY <1>1, AgeCapIsNat, WorkQueueAssumption, Bounds DEF EnqueueBatch, Safe, Known, TypeOK
        <5>3. NewJob(priority[k], limit[k], created) \in Job
          BY <5>1, <5>2 DEF NewJob, Job, JobStates, Waiting
        <5> QED BY <5>3, NoJobAssumption
      <4> QED BY <3>1, <4>2 DEF Exists
    <3>3. Board[k] = NoJob
      BY <2>1, BoardShape DEF Safe, Known
    <3>4. /\ jobs'[k].state = "queued" /\ jobs'[k].attempts = 0 /\ jobs'[k].limit = limit[k]
      BY <3>1 DEF NewJob
    <3>5. Board'[k] = [phase |-> "waiting", tries |-> 0, limit |-> limit[k]]
      BY <3>2, <3>4, PhaseValues DEF Board, Waiting
    <3> QED BY <2>1, <3>3, <3>5 DEF Lifecycle!Fresh
  <2>2. CASE ~(k \in requests /\ ~Exists(k))
    <3>1. jobs'[k] = jobs[k]
      BY <1>1, <2>2
    <3>2. ~(k \in requests /\ Board[k] = NoJob)
      BY <2>2, BoardShape DEF Safe, Known
    <3>3. Board'[k] = Board[k]
      BY <3>1, SameCard DEF Exists
    <3> QED BY <3>2, <3>3
  <2> QED BY <2>1, <2>2
<1>3. Board' = new
  BY <1>2 DEF Board
<1>4. Lifecycle!Submit(requests)
  BY <1>3 DEF Lifecycle!Submit
<1> QED BY <1>4 DEF Lifecycle!Next

LEMMA ClaimStarts ==
  ASSUME Safe, Safe', NEW w \in Workers, NEW scope \in Scopes, ClaimNext(w, scope)
  PROVE  Lifecycle!Next
<1>1. PICK k \in Keys :
        /\ Exists(k) /\ jobs[k].state \in Waiting
        /\ jobs' = [jobs EXCEPT ![k] =
             [jobs[k] EXCEPT !.state = "running", !.age = 0, !.attempts = jobs[k].attempts + 1]]
        /\ workers'[w] = [at |-> "busy", key |-> k, id |-> jobs[k].id,
                          attempt |-> jobs[k].attempts + 1]
  BY WorkQueueAssumption DEF ClaimNext, Claimable, Safe, Known, TypeOK
<1>2. jobs[k] \in Job
  BY <1>1, RowShape DEF Safe, Known
<1>3. /\ jobs'[k] = [jobs[k] EXCEPT !.state = "running", !.age = 0,
                                    !.attempts = jobs[k].attempts + 1]
      /\ \A l \in Keys : l # k => jobs'[l] = jobs[l]
  BY <1>1 DEF Safe, Known, TypeOK
<1>4. /\ jobs'[k].limit = jobs[k].limit /\ jobs'[k].attempts = jobs[k].attempts + 1
      /\ jobs'[k].state = "running"
  BY <1>2, <1>3 DEF Job
\* A value that has the fields of a row is not NoJob: the step keeps TypeOK.
<1>5. Exists(k)'
  <2>1. jobs'[k] \in Job
    <3>1. workers'[w].attempt \in 1..MaxClaims
      BY <1>1, WorkerShape DEF Safe, Known, TypeOK, Busy, Failing, Idle
    <3>2. jobs[k].attempts + 1 \in 0..MaxClaims /\ 0 \in 0..AgeCap
      BY <1>1, <3>1, AgeCapIsNat, Bounds
    <3> QED BY <1>2, <1>3, <3>2 DEF Job, JobStates
  <2> QED BY <2>1, NoJobAssumption DEF Exists
<1>6. Board[k] = Card(k) /\ Board[k] # NoJob
  BY <1>1, BoardShape DEF Safe, Known
<1>7. Board'[k] = [phase |-> "running", tries |-> Board[k].tries + 1, limit |-> Board[k].limit]
  BY <1>4, <1>5, <1>6, PhaseValues DEF Board, Card
<1>8. \A l \in Keys : l # k => Board'[l] = Board[l]
  BY <1>3, SameCard DEF Exists
<1>9. Board' = [Board EXCEPT ![k] =
        [phase |-> "running", tries |-> Board[k].tries + 1, limit |-> Board[k].limit]]
  BY <1>7, <1>8 DEF Board
<1>10. Lifecycle!Start(k)
  BY <1>1, <1>6, <1>9, PhaseValues DEF Lifecycle!Start, Lifecycle!InPhase, Card
<1> QED BY <1>10 DEF Lifecycle!Next

\* Rows that run and get another state, all else the same.
LEMMA Leaves ==
  ASSUME Safe, Safe', NEW rows \in SUBSET Keys, NEW state \in JobStates \ {"running", "queued"},
         \A k \in Keys \ rows : Board'[k] = Board[k],
         \A k \in rows : /\ Exists(k) /\ jobs[k].state = "running"
                          /\ Exists(k)' /\ jobs'[k].state = state
                          /\ jobs'[k].attempts = jobs[k].attempts
                          /\ jobs'[k].limit = jobs[k].limit,
         state # "retry" => \E k \in Keys : rows = {k},
         state = "error" => \A k \in rows : jobs[k].attempts >= jobs[k].limit
  PROVE  Lifecycle!Next
<1>1. ASSUME NEW k \in rows
      PROVE  /\ Board[k] = Card(k) /\ Board[k] # NoJob /\ Board[k].phase = "running"
             /\ Board'[k] = [Board[k] EXCEPT !.phase = Phase(state)]
  <2>1. Board[k] = Card(k) /\ Board[k] # NoJob /\ Board[k].phase = "running"
    BY BoardShape, PhaseValues DEF Card, Safe, Known
  <2>2. Board'[k] = [phase |-> Phase(state), tries |-> jobs[k].attempts,
                     limit |-> jobs[k].limit]
    BY DEF Board
  <2> QED BY <2>1, <2>2 DEF Card
<1>2. CASE state = "retry"
  <2>1. Board' = [k \in Keys |->
          IF k \in rows THEN [Board[k] EXCEPT !.phase = "waiting"] ELSE Board[k]]
    BY <1>1, <1>2, PhaseValues DEF Board, Waiting
  <2>2. Lifecycle!PutBack(rows)
    BY <1>1, <2>1 DEF Lifecycle!PutBack, Lifecycle!InPhase
  <2> QED BY <2>2 DEF Lifecycle!Next
<1>3. CASE state # "retry"
  <2>1. PICK k \in Keys : rows = {k}
    BY <1>3
  <2>2. Board' = [Board EXCEPT ![k] = [Board[k] EXCEPT !.phase = Phase(state)]]
    <3>1. Board'[k] = [Board[k] EXCEPT !.phase = Phase(state)]
      BY <1>1, <2>1
    <3>2. \A l \in Keys : l # k => Board'[l] = Board[l]
      BY <2>1
    <3>3. /\ Board = [l \in Keys |-> Board[l]]
          /\ Board' = [l \in Keys |-> Board'[l]]
      BY DEF Board
    <3> QED BY <3>1, <3>2, <3>3
  <2>3. CASE state = "ok"
    <3>1. Lifecycle!Finish(k)
      BY <1>1, <2>1, <2>2, <2>3, PhaseValues DEF Lifecycle!Finish, Lifecycle!InPhase
    <3> QED BY <3>1 DEF Lifecycle!Next
  <2>4. CASE state = "error"
    <3>1. /\ Board[k] = Card(k) /\ Board[k] # NoJob /\ Board[k].phase = "running"
          /\ jobs[k].attempts >= jobs[k].limit
      BY <1>1, <2>1, <2>4
    <3>2. Board[k].tries >= Board[k].limit
      BY <3>1 DEF Card
    <3>3. Lifecycle!GiveUp(k)
      BY <3>1, <3>2, <2>2, <2>4, PhaseValues DEF Lifecycle!GiveUp, Lifecycle!InPhase
    <3> QED BY <3>3 DEF Lifecycle!Next
  <2> QED BY <1>3, <2>3, <2>4 DEF JobStates, Waiting, Terminal
<1> QED BY <1>2, <1>3

LEMMA ReportEnds ==
  ASSUME Safe, Safe', NEW w \in Workers, Holding(w),
         NEW state \in {"ok", "retry", "error"}, NEW wait \in Nat, Report(w, state, wait),
         state = "error" /\ HasRow(w)
           => jobs[workers[w].key].attempts >= jobs[workers[w].key].limit
  PROVE  Lifecycle!Next \/ UNCHANGED Board
<1>1. PICK k \in Keys : k = workers[w].key
  BY WorkerShape DEF Safe, Known
<1>2. CASE HasRow(w) /\ jobs[k].state = "running"
  <2>1. Exists(k) /\ jobs[k] \in Job
    BY <1>1, <1>2, RowShape DEF HasRow, Safe, Known
  <2>2. /\ jobs'[k] = [jobs[k] EXCEPT !.state = state, !.age = 0, !.wait = wait]
        /\ \A l \in Keys : l # k => jobs'[l] = jobs[l]
    BY <1>1, <1>2 DEF Report, Safe, Known, TypeOK
  <2>3. state \in JobStates \ {"running", "queued"} /\ 0 \in 0..AgeCap
    BY AgeCapIsNat DEF JobStates, Waiting, Terminal
  <2>4. /\ jobs'[k].attempts = jobs[k].attempts /\ jobs'[k].limit = jobs[k].limit
        /\ jobs'[k].state = state /\ jobs'[k] \in Job
    BY <2>1, <2>2, <2>3 DEF Job
  <2>5. Exists(k)'
    BY <2>4, NoJobAssumption DEF Exists
  <2>6. \A l \in Keys \ {k} : Board'[l] = Board[l]
    BY <2>2, SameCard DEF Exists
  <2> DEFINE rows == {k}
  <2>7. /\ rows \in SUBSET Keys /\ \E l \in Keys : rows = {l}
        /\ \A l \in Keys \ rows : Board'[l] = Board[l]
    BY <2>6
  <2>8. \A l \in rows : /\ Exists(l) /\ jobs[l].state = "running"
                         /\ Exists(l)' /\ jobs'[l].state = state
                         /\ jobs'[l].attempts = jobs[l].attempts
                         /\ jobs'[l].limit = jobs[l].limit
    BY <1>2, <1>1, <2>1, <2>4, <2>5
  <2>9. state = "error" => \A l \in rows : jobs[l].attempts >= jobs[l].limit
    BY <1>1, <1>2
  <2> HIDE DEF rows
  <2> QED BY <2>3, <2>7, <2>8, <2>9, Leaves
<1>3. CASE ~(HasRow(w) /\ jobs[k].state = "running")
  <2>1. jobs' = jobs
    BY <1>1, <1>3 DEF Report
  <2> QED BY <2>1 DEF Board, Exists
<1> QED BY <1>2, <1>3

LEMMA FailWriteEnds ==
  ASSUME Safe, Safe', NEW w \in Workers, FailWrite(w)
  PROVE  Lifecycle!Next \/ UNCHANGED Board
<1>1. Holding(w) /\ workers[w].seen \in 1..MaxClaims /\ workers[w].limit \in Limits
  BY WorkerShape DEF FailWrite, Holding, Safe, Known, Failing
<1>2. CASE workers[w].seen < workers[w].limit
  <2>1. Report(w, "retry", Backoff[workers[w].seen])
    BY <1>2 DEF FailWrite
  <2>2. Backoff[workers[w].seen] \in Nat
    BY <1>1, WorkQueueAssumption
  <2> QED BY <1>1, <2>1, <2>2, ReportEnds
<1>3. CASE ~(workers[w].seen < workers[w].limit)
  <2>1. Report(w, "error", 0)
    BY <1>3 DEF FailWrite
  <2>2. ASSUME HasRow(w)
        PROVE  jobs[workers[w].key].attempts >= jobs[workers[w].key].limit
    <3>1. /\ workers[w].seen <= jobs[workers[w].key].attempts
          /\ workers[w].limit = jobs[workers[w].key].limit
      BY <2>2 DEF FailWrite, SeenIsPast, Safe
    <3>2. 1..MaxClaims \subseteq Nat /\ Limits \subseteq Nat
      BY Bounds
    <3>3. workers[w].key \in Keys /\ Exists(workers[w].key)
      BY <2>2, WorkerShape DEF HasRow, Safe, Known
    <3>4. jobs[workers[w].key].attempts \in Nat
      BY <3>3, BoardShape DEF Safe, Known
    <3>5. workers[w].seen \in Nat /\ workers[w].limit \in Nat
      BY <1>1, <3>2
    <3> QED BY <1>3, <3>1, <3>4, <3>5
  <2> QED BY <1>1, <2>1, <2>2, ReportEnds
<1> QED BY <1>2, <1>3

LEMMA RequeuePutsBack ==
  ASSUME Safe, Safe', NEW scope \in Scopes, RequeueStaleRunning(scope)
  PROVE  Lifecycle!Next
<1> DEFINE rows == {k \in scope : Stale(k)}
<1>1. rows \in SUBSET Keys /\ "retry" \in JobStates \ {"running", "queued"}
  BY WorkQueueAssumption DEF JobStates, Waiting
<1>2. ASSUME NEW k \in rows
      PROVE  /\ Exists(k) /\ jobs[k].state = "running"
             /\ Exists(k)' /\ jobs'[k].state = "retry"
             /\ jobs'[k].attempts = jobs[k].attempts
             /\ jobs'[k].limit = jobs[k].limit
  <2>1. Exists(k) /\ jobs[k].state = "running" /\ jobs[k] \in Job /\ k \in Keys
    BY <1>1, RowShape DEF Stale, Safe, Known
  <2>2. jobs'[k] = [jobs[k] EXCEPT !.state = "retry", !.age = 0, !.wait = 0]
    BY <2>1 DEF RequeueStaleRunning
  <2>3. /\ jobs'[k].state = "retry" /\ jobs'[k].attempts = jobs[k].attempts
        /\ jobs'[k].limit = jobs[k].limit /\ jobs'[k] \in Job
    <3>1. 0 \in 0..AgeCap /\ "retry" \in JobStates
      BY <1>1, AgeCapIsNat
    <3>2. [jobs[k] EXCEPT !.state = "retry", !.age = 0, !.wait = 0] \in Job
      BY <2>1, <3>1 DEF Job, JobStates, Waiting
    <3>3. jobs'[k] \in Job
      BY <2>2, <3>2
    <3> QED BY <2>1, <2>2, <3>3 DEF Job
  <2> QED BY <2>1, <2>3, NoJobAssumption DEF Exists
<1>3. \A k \in Keys \ rows : Board'[k] = Board[k]
  BY SameCard DEF RequeueStaleRunning, Exists
<1> QED BY <1>1, <1>2, <1>3, Leaves

LEMMA DeleteForgets ==
  ASSUME NEW rows \in SUBSET Keys, Delete(rows)
  PROVE  Lifecycle!Next
<1>1. Board' = [k \in Keys |-> IF k \in rows THEN NoJob ELSE Board[k]]
  BY DEF Delete, Board, Exists
<1> QED BY <1>1 DEF Lifecycle!Forget, Lifecycle!Next

LEMMA TickKeepsBoard ==
  ASSUME Safe, Tick
  PROVE  UNCHANGED Board
<1>1. ASSUME NEW k \in Keys
      PROVE  Board'[k] = Board[k]
  <2>1. CASE Exists(k)
    <3>1. jobs[k] \in Job /\ jobs'[k] = Elapse(jobs[k])
      BY <2>1, RowShape DEF Tick, Safe, Known
    <3>2. /\ jobs'[k].state = jobs[k].state /\ jobs'[k].attempts = jobs[k].attempts
          /\ jobs'[k].limit = jobs[k].limit /\ jobs'[k] \in Job
      <4>1. jobs[k].age \in 0..AgeCap /\ jobs[k].wait \in Nat
        BY <3>1 DEF Job
      <4>2. (IF jobs[k].age < AgeCap THEN jobs[k].age + 1 ELSE jobs[k].age) \in 0..AgeCap
            /\ (IF jobs[k].wait > 0 THEN jobs[k].wait - 1 ELSE 0) \in Nat
        BY <4>1, AgeCapIsNat
      <4> QED BY <3>1, <4>2 DEF Elapse, Job
    <3>3. Exists(k)'
      BY <3>2, NoJobAssumption DEF Exists
    <3> QED BY <2>1, <3>2, <3>3, SameCard
  <2>2. CASE ~Exists(k)
    BY <2>2, SameCard DEF Tick, Exists
  <2> QED BY <2>1, <2>2
<1> QED BY <1>1, SameBoard

LEMMA NextLifecycle ==
  ASSUME Safe, Safe', [Next]_vars
  PROVE  Lifecycle!Next \/ UNCHANGED Board
<1>1. ASSUME NEW requests \in SUBSET Keys \ {{}}, EnqueueBatch(requests)
      PROVE  Lifecycle!Next
  BY <1>1, EnqueueSubmits
<1>2. ASSUME NEW w \in Workers, WorkerStep(w)
      PROVE  Lifecycle!Next \/ UNCHANGED Board
  <2>1. ASSUME Complete(w)
        PROVE  Lifecycle!Next \/ UNCHANGED Board
    BY <2>1, ReportEnds DEF Complete, Holding
  <2>2. ASSUME FailRead(w) \/ Crash(w)
        PROVE  UNCHANGED Board
    BY <2>2 DEF FailRead, Crash, Board, Exists
  <2> QED BY <1>2, <2>1, <2>2, ClaimStarts, FailWriteEnds DEF WorkerStep
<1>3. ASSUME NEW scope \in Scopes, Cleanup(scope) \/ Purge(scope)
      PROVE  Lifecycle!Next
  <2>1. PICK rows \in SUBSET Keys : Delete(rows)
    BY <1>3, WorkQueueAssumption DEF Cleanup, Purge
  <2> QED BY <2>1, DeleteForgets
<1>4. CASE UNCHANGED vars
  BY <1>4 DEF vars, Board, Exists
<1> QED BY <1>1, <1>2, <1>3, <1>4, RequeuePutsBack, TickKeepsBoard DEF Next

(* The queue is an implementation of JobLifecycle: one job per key, given  *)
(* up only when exhausted, never reopened, whatever the workers do.        *)
THEOREM Refinement == Spec => ImplementsLifecycle
<1>1. Safe /\ Safe' /\ [Next]_vars => [Lifecycle!Next]_Board
  BY NextLifecycle
<1> QED BY InitBoard, <1>1, Safety, PTL DEF Spec, ImplementsLifecycle, Lifecycle!Spec

-----------------------------------------------------------------------------
(* Under Punctual, a live worker keeps its job.  A row no live worker      *)
(* holds was waiting, or lost its worker to a crash, which pays for one    *)
(* attempt beyond the limit.                                               *)
Held(k) == \E w \in Workers : Holds(w, k)

KeepsJob(w) ==
  HasRow(w) => /\ jobs[workers[w].key].state = "running"
               /\ jobs[workers[w].key].attempts = workers[w].attempt
               /\ jobs[workers[w].key].age <= StaleAfter

Paid(k) ==
  Exists(k) => /\ jobs[k].attempts <= jobs[k].limit + crashes
               /\ jobs[k].state \in Waiting => jobs[k].attempts < jobs[k].limit + crashes
               /\ jobs[k].state = "running" /\ ~Held(k)
                    => jobs[k].attempts < jobs[k].limit + crashes

Prompt == (\A w \in Workers : KeepsJob(w)) /\ (\A k \in Keys : Paid(k))

\* Arithmetic on the fields of a row.
LEMMA RowNumbers ==
  ASSUME TypeOK, NEW k \in Keys, Exists(k)
  PROVE  /\ jobs[k] \in Job
         /\ jobs[k].attempts \in Nat /\ jobs[k].limit \in Nat /\ jobs[k].limit > 0
         /\ jobs[k].age \in Nat /\ crashes \in Nat
<1>1. jobs[k] \in Job
  BY RowShape
<1>2. /\ jobs[k].attempts \in 0..MaxClaims /\ jobs[k].limit \in Limits
      /\ jobs[k].age \in 0..AgeCap
  BY <1>1 DEF Job
<1>3. /\ 0..MaxClaims \subseteq Nat /\ \A l \in Limits : l \in Nat /\ l > 0
      /\ 0..AgeCap \subseteq Nat /\ 0..MaxCrashes \subseteq Nat
  BY WorkQueueAssumption, AgeCapIsNat
<1>4. crashes \in 0..MaxCrashes
  BY DEF TypeOK
<1> QED BY <1>1, <1>2, <1>3, <1>4

LEMMA SoleHolder ==
  ASSUME Safe, Prompt, NEW w \in Workers, NEW v \in Workers, HasRow(w), Holds(v, workers[w].key)
  PROVE  v = w
BY DEF Prompt, KeepsJob, Holds, Safe, AttemptIdentifiesClaim

\* A step that leaves a row, its holders and the crashes alone.
LEMMA PaidSame ==
  ASSUME NEW k \in Keys, Paid(k), jobs'[k] = jobs[k], crashes' = crashes,
         Held(k) => Held(k)'
  PROVE  Paid(k)'
BY DEF Paid, Exists

LEMMA HeldIf ==
  ASSUME NEW k \in Keys, NEW v \in Workers, Holds(v, k), jobs' = jobs,
         workers'[v].at # "idle", workers'[v].key = workers[v].key, workers'[v].id = workers[v].id
  PROVE  Held(k)'
BY DEF Holds, HasRow, Holding, Exists, Held

LEMMA InitPrompt == Init => Prompt
BY DEF Init, Prompt, KeepsJob, Paid, HasRow, Holding, Idle, Exists

LEMMA EnqueuePrompt ==
  ASSUME Safe, Safe', Prompt, NEW requests \in SUBSET Keys, EnqueueBatch(requests)
  PROVE  Prompt'
<1>1. workers' = workers /\ crashes' = crashes
  BY DEF EnqueueBatch
<1>2. ASSUME NEW w \in Workers
      PROVE  KeepsJob(w)'
  BY <1>1, EnqueueKeepsHolders DEF KeepsJob, Prompt
<1>3. ASSUME NEW k \in Keys
      PROVE  Paid(k)'
  <2>1. CASE jobs'[k] = jobs[k]
    <3>1. Held(k) => Held(k)'
      BY <1>1, <2>1 DEF Held, Holds, HasRow, Holding, Exists
    <3> QED BY <1>1, <2>1, <3>1, PaidSame DEF Prompt
  <2>2. CASE jobs'[k] # jobs[k]
    <3>1. jobs'[k].state = "queued" /\ jobs'[k].attempts = 0
      BY <2>2 DEF EnqueueBatch, NewJob
    <3>2. Exists(k)' => jobs'[k].limit \in Nat /\ jobs'[k].limit > 0 /\ crashes' \in Nat
      <4>1. Exists(k)' => jobs'[k] \in Job
        BY DEF Safe, Known, TypeOK, Exists
      <4>2. Exists(k)' => jobs'[k].limit \in Limits
        BY <4>1 DEF Job
      <4>3. crashes' \in 0..MaxCrashes
        BY DEF Safe, Known, TypeOK
      <4>4. 0..MaxCrashes \subseteq Nat /\ \A l \in Limits : l \in Nat /\ l > 0
        BY WorkQueueAssumption
      <4> QED BY <4>2, <4>3, <4>4
    <3> QED BY <3>1, <3>2 DEF Paid
  <2> QED BY <2>1, <2>2
<1> QED BY <1>2, <1>3 DEF Prompt

LEMMA ClaimPrompt ==
  ASSUME Safe, Safe', Prompt, NEW w \in Workers, NEW scope \in Scopes, ClaimNext(w, scope)
  PROVE  Prompt'
<1>1. PICK k \in Keys :
        /\ Exists(k) /\ jobs[k].state \in Waiting
        /\ jobs' = [jobs EXCEPT ![k] =
             [jobs[k] EXCEPT !.state = "running", !.age = 0, !.attempts = jobs[k].attempts + 1]]
        /\ workers' = [workers EXCEPT ![w] =
             [at |-> "busy", key |-> k, id |-> jobs[k].id,
              attempt |-> jobs[k].attempts + 1]]
  BY WorkQueueAssumption DEF ClaimNext, Claimable
<1>2. /\ jobs[k] \in Job /\ jobs[k].attempts \in Nat /\ jobs[k].limit \in Nat
      /\ crashes \in Nat /\ crashes' = crashes
  BY <1>1, RowNumbers DEF ClaimNext, Safe, Known
<1>3. /\ jobs'[k] = [jobs[k] EXCEPT !.state = "running", !.age = 0,
                                    !.attempts = jobs[k].attempts + 1]
      /\ \A l \in Keys : l # k => jobs'[l] = jobs[l]
      /\ \A v \in Workers : v # w => workers'[v] = workers[v]
      /\ workers'[w] = [at |-> "busy", key |-> k, id |-> jobs[k].id,
                        attempt |-> jobs[k].attempts + 1]
      /\ ~Holding(w)
  BY <1>1 DEF ClaimNext, Safe, Known, TypeOK
<1>4. /\ jobs'[k].id = jobs[k].id /\ jobs'[k].limit = jobs[k].limit
      /\ jobs'[k].attempts = jobs[k].attempts + 1 /\ jobs'[k].state = "running"
      /\ jobs'[k].age = 0
  BY <1>2, <1>3 DEF Job
\* Waiting rows have no holder: a holder's row is running.
<1>5. ASSUME NEW v \in Workers, v # w, HasRow(v)'
      PROVE  HasRow(v) /\ workers'[v] = workers[v] /\ workers[v].key \in Keys
             /\ workers[v].key # k
  <2>1. workers'[v] = workers[v] /\ Holding(v) /\ workers[v].key \in Keys
    BY <1>3, <1>5, WorkerShape DEF HasRow, Holding, Safe, Known
  <2>2. HasRow(v)
    BY <2>1, <1>1, <1>3, <1>4, <1>5 DEF HasRow, Exists
  <2>3. workers[v].key # k
    BY <2>2, <1>1 DEF Prompt, KeepsJob, Waiting
  <2> QED BY <2>1, <2>2, <2>3
<1>6. ASSUME NEW v \in Workers
      PROVE  KeepsJob(v)'
  <2>1. CASE v = w
    <3>1. workers'[v].key = k /\ workers'[v].attempt = jobs[k].attempts + 1
      BY <2>1, <1>3
    <3>2. 0 <= StaleAfter
      BY WorkQueueAssumption
    <3> QED BY <3>1, <3>2, <1>4 DEF KeepsJob
  <2>2. CASE v # w
    BY <2>2, <1>3, <1>5 DEF KeepsJob, Prompt
  <2> QED BY <2>1, <2>2
<1>7. ASSUME NEW l \in Keys
      PROVE  Paid(l)'
  <2>1. CASE l = k
    <3>1. ASSUME Exists(k)'
          PROVE  Held(k)'
      <4>1. workers'[w].at # "idle" /\ workers'[w].key = k /\ workers'[w].id = jobs'[k].id
        BY <1>3, <1>4
      <4> QED BY <3>1, <4>1 DEF Held, Holds, HasRow, Holding
    <3>2. jobs[k].attempts < jobs[k].limit + crashes
      BY <1>1 DEF Prompt, Paid
    <3> QED BY <2>1, <1>2, <1>4, <3>1, <3>2 DEF Paid, Waiting
  <2>2. CASE l # k
    <3>1. Held(l) => Held(l)'
      <4> SUFFICES ASSUME NEW v \in Workers, Holds(v, l)
                   PROVE  Holds(v, l)'
        BY DEF Held
      <4>1. v # w
        BY <1>3 DEF Holds, HasRow
      <4> QED BY <4>1, <2>2, <1>3 DEF Holds, HasRow, Holding, Exists
    <3> QED BY <2>2, <3>1, <1>2, <1>3, PaidSame DEF Prompt
  <2> QED BY <2>1, <2>2
<1> QED BY <1>6, <1>7 DEF Prompt

(* Every other step: no row is inserted and no attempt counted.  A holder  *)
(* that goes away leaves its row in a terminal state, has attempts left,   *)
(* or crashed.                                                             *)
Settles(k) ==
  Exists(k)' =>
    /\ jobs'[k].state \in Waiting =>
         \/ jobs[k].state \in Waiting
         \/ jobs[k].state = "running" /\ (~Held(k) \/ jobs[k].attempts < jobs[k].limit)
    /\ jobs'[k].state = "running" =>
         /\ jobs[k].state = "running"
         /\ Held(k) /\ ~Held(k)' => crashes' > crashes

LEMMA SettlePrompt ==
  ASSUME Safe, Safe', Prompt, crashes' >= crashes,
         \A k \in Keys : QuietRow(k) /\ Settles(k),
         \A w \in Workers : QuietWorker(w),
         \A w \in Workers : HasRow(w)' =>
           /\ jobs'[workers[w].key].state = "running"
           /\ jobs'[workers[w].key].age <= StaleAfter
  PROVE  Prompt'
<1>1. ASSUME NEW w \in Workers
      PROVE  KeepsJob(w)'
  <2> SUFFICES ASSUME HasRow(w)'
               PROVE  KeepsJob(w)'
    BY DEF KeepsJob
  <2>1. /\ HasRow(w) /\ workers'[w].key = workers[w].key /\ workers[w].key \in Keys
        /\ workers'[w].attempt = workers[w].attempt
        /\ jobs'[workers[w].key].attempts = jobs[workers[w].key].attempts
    BY WorkerShape DEF HasRow, Holding, QuietRow, QuietWorker, Safe, Known, Exists
  <2> QED BY <2>1 DEF KeepsJob, Prompt
<1>2. ASSUME NEW k \in Keys
      PROVE  Paid(k)'
  <2> SUFFICES ASSUME Exists(k)'
               PROVE  Paid(k)'
    BY DEF Paid
  <2>1. /\ Exists(k) /\ jobs'[k].attempts = jobs[k].attempts
        /\ jobs'[k].limit = jobs[k].limit
    BY DEF QuietRow
  <2>2. /\ jobs[k].attempts \in Nat /\ jobs[k].limit \in Nat /\ crashes \in Nat
    BY <2>1, RowNumbers DEF Safe, Known
  <2>3. crashes' \in Nat
    <3>1. 0..MaxCrashes \subseteq Nat
      BY WorkQueueAssumption
    <3> QED BY <3>1 DEF Safe, Known, TypeOK
  <2>4. Paid(k) /\ Settles(k)
    BY DEF Prompt
  <2>5. jobs'[k].attempts <= jobs'[k].limit + crashes'
    BY <2>1, <2>2, <2>3, <2>4 DEF Paid
  <2>6. ASSUME jobs'[k].state \in Waiting
        PROVE  jobs'[k].attempts < jobs'[k].limit + crashes'
    BY <2>1, <2>2, <2>3, <2>4, <2>6 DEF Paid, Settles
  <2>7. ASSUME jobs'[k].state = "running", ~Held(k)'
        PROVE  jobs'[k].attempts < jobs'[k].limit + crashes'
    BY <2>1, <2>2, <2>3, <2>4, <2>7 DEF Paid, Settles
  <2> QED BY <2>5, <2>6, <2>7 DEF Paid
<1> QED BY <1>1, <1>2 DEF Prompt

\* Workers that keep their claim keep a row held, if its id does not change.
LEMMA StaysHeld ==
  ASSUME NEW k \in Keys, NEW v \in Workers, Holds(v, k), QuietRow(k), Exists(k)',
         workers'[v] = workers[v]
  PROVE  Held(k)'
BY DEF Held, Holds, HasRow, Holding, QuietRow

LEMMA ReportPrompt ==
  ASSUME Safe, Safe', Prompt, NEW w \in Workers, Holding(w),
         NEW state \in {"ok", "error", "retry"}, NEW wait \in Nat, Report(w, state, wait),
         state = "retry" /\ HasRow(w) => jobs[workers[w].key].attempts < jobs[workers[w].key].limit
  PROVE  Prompt'
<1>1. PICK k \in Keys : k = workers[w].key
  BY WorkerShape DEF Safe, Known
<1>2. /\ workers'[w] = Idle /\ \A v \in Workers : v # w => workers'[v] = workers[v]
      /\ crashes' = crashes
  BY DEF Report, Safe, Known, TypeOK
<1>3. \A v \in Workers : QuietWorker(v)
  BY <1>2 DEF QuietWorker, Idle, Holding
<1>4. CASE HasRow(w)
  <2>1. jobs[k] \in Job /\ jobs[k].state = "running"
    BY <1>1, <1>4, RowShape DEF HasRow, Safe, Known, Prompt, KeepsJob
  <2>2. jobs' = [jobs EXCEPT ![k] = [jobs[k] EXCEPT !.state = state, !.age = 0, !.wait = wait]]
    BY <1>1, <1>4, <2>1 DEF Report, Safe, Known, TypeOK
  <2>3. /\ jobs'[k] = [jobs[k] EXCEPT !.state = state, !.age = 0, !.wait = wait]
        /\ \A l \in Keys : l # k => jobs'[l] = jobs[l]
    BY <2>2 DEF Safe, Known, TypeOK
  <2>4. /\ jobs'[k].state = state /\ jobs'[k].id = jobs[k].id
        /\ jobs'[k].limit = jobs[k].limit /\ jobs'[k].attempts = jobs[k].attempts
    BY <2>1, <2>3 DEF Job
  <2>5. ASSUME NEW l \in Keys
        PROVE  QuietRow(l) /\ Settles(l)
    <3>1. CASE l = k
      <4>1. QuietRow(k)
        BY <2>1, <2>4, <1>4, <1>1 DEF QuietRow, HasRow
      <4>2. Settles(k)
        BY <1>1, <1>4, <2>1, <2>4 DEF Settles, Waiting
      <4> QED BY <3>1, <4>1, <4>2
    <3>2. CASE l # k
      <4>1. jobs'[l] = jobs[l]
        BY <2>3, <3>2
      <4>2. QuietRow(l)
        BY <4>1 DEF QuietRow, Exists
      <4>3. ASSUME Exists(l)', Held(l)
            PROVE  Held(l)'
        <5>1. PICK v \in Workers : Holds(v, l)
          BY <4>3 DEF Held
        <5>2. v # w
          BY <5>1, <3>2, <1>1 DEF Holds
        <5> QED BY <5>1, <5>2, <1>2, <4>2, <4>3, StaysHeld
      <4>4. Settles(l)
        BY <4>1, <4>3 DEF Settles
      <4> QED BY <4>2, <4>4
    <3> QED BY <3>1, <3>2
  <2>6. ASSUME NEW v \in Workers, HasRow(v)'
        PROVE  /\ jobs'[workers[v].key].state = "running"
               /\ jobs'[workers[v].key].age <= StaleAfter
    <3>1. v # w /\ workers'[v] = workers[v]
      BY <1>2, <2>6 DEF HasRow, Holding, Idle
    <3>2. HasRow(v) /\ workers[v].key \in Keys
      BY <2>5, <2>6, <3>1, WorkerShape DEF HasRow, Holding, QuietRow, Safe, Known
    <3>3. workers[v].key # k
      BY <3>1, <3>2, <1>1, <1>4, SoleHolder DEF Holds
    <3> QED BY <3>2, <3>3, <2>3 DEF Prompt, KeepsJob
  <2>7. crashes' >= crashes
    BY <1>2, <2>1, RowNumbers, <1>1, <1>4 DEF HasRow, Safe, Known
  <2> QED BY <1>3, <2>5, <2>6, <2>7, SettlePrompt
<1>5. CASE ~HasRow(w)
  <2>1. jobs' = jobs
    BY <1>5 DEF Report
  <2>2. ASSUME NEW l \in Keys
        PROVE  Paid(l)'
    <3>1. ASSUME Held(l)
          PROVE  Held(l)'
      <4>1. PICK v \in Workers : Holds(v, l)
        BY <3>1 DEF Held
      <4>2. v # w
        BY <4>1, <1>5 DEF Holds
      <4> QED BY <4>1, <4>2, <1>2, <2>1 DEF Held, Holds, HasRow, Holding, Exists
    <3> QED BY <3>1, <2>1, <1>2, PaidSame DEF Prompt
  <2>3. ASSUME NEW v \in Workers
        PROVE  KeepsJob(v)'
    <3>1. CASE v = w
      BY <1>2, <3>1 DEF KeepsJob, HasRow, Holding, Idle
    <3>2. CASE v # w
      BY <1>2, <2>1, <3>2 DEF KeepsJob, HasRow, Holding, Exists, Prompt
    <3> QED BY <3>1, <3>2
  <2> QED BY <2>2, <2>3 DEF Prompt
<1> QED BY <1>4, <1>5

LEMMA CompletePrompt ==
  ASSUME Safe, Safe', Prompt, NEW w \in Workers, Complete(w)
  PROVE  Prompt'
<1>1. Holding(w) /\ Report(w, "ok", 0)
  BY DEF Complete, Holding
<1> QED BY <1>1, ReportPrompt

LEMMA FailWritePrompt ==
  ASSUME Safe, Safe', Prompt, NEW w \in Workers, FailWrite(w)
  PROVE  Prompt'
<1>1. Holding(w) /\ workers[w] \in Failing
  BY WorkerShape DEF FailWrite, Holding, Safe, Known
<1>2. CASE workers[w].seen < workers[w].limit
  <2>1. Backoff[workers[w].seen] \in Nat
    BY <1>1, WorkQueueAssumption DEF Failing
  <2>2. Report(w, "retry", Backoff[workers[w].seen])
    BY <1>2 DEF FailWrite
  \* The row is on the attempt the worker claimed, so what Fail read is current.
  <2>3. ASSUME HasRow(w)
        PROVE  jobs[workers[w].key].attempts < jobs[workers[w].key].limit
    <3>1. /\ workers[w].attempt <= workers[w].seen
          /\ workers[w].seen <= jobs[workers[w].key].attempts
          /\ workers[w].limit = jobs[workers[w].key].limit
      BY <2>3 DEF FailWrite, SeenIsPast, Safe
    <3>2. jobs[workers[w].key].attempts = workers[w].attempt
      BY <2>3 DEF Prompt, KeepsJob
    <3>3. workers[w].seen \in Nat /\ workers[w].attempt \in Nat
      <4>1. workers[w].seen \in 1..MaxClaims /\ workers[w].attempt \in 1..MaxClaims
        BY <1>1 DEF Failing
      <4>2. 1..MaxClaims \subseteq Nat
        BY Bounds
      <4> QED BY <4>1, <4>2
    <3>4. workers[w].seen = jobs[workers[w].key].attempts
      BY <3>1, <3>2, <3>3
    <3> QED BY <3>1, <3>4, <1>2
  <2> QED BY <1>1, <2>1, <2>2, <2>3, ReportPrompt
<1>3. CASE ~(workers[w].seen < workers[w].limit)
  <2>1. Report(w, "error", 0)
    BY <1>3 DEF FailWrite
  <2> QED BY <1>1, <2>1, ReportPrompt
<1> QED BY <1>2, <1>3

\* Steps that leave the table alone, and every claim on a row in it.
LEMMA SameTablePrompt ==
  ASSUME Safe, Safe', Prompt, jobs' = jobs, crashes' >= crashes,
         \A v \in Workers : QuietWorker(v),
         \A v \in Workers : HasRow(v) => HasRow(v)' \/ crashes' > crashes
  PROVE  Prompt'
<1>1. ASSUME NEW k \in Keys
      PROVE  QuietRow(k)
  BY DEF QuietRow, Exists
<1>2. ASSUME NEW v \in Workers, HasRow(v)'
      PROVE  HasRow(v) /\ workers'[v].key = workers[v].key
  BY <1>2 DEF HasRow, Holding, QuietWorker, Exists
<1>3. ASSUME NEW v \in Workers, HasRow(v)'
      PROVE  /\ jobs'[workers[v].key].state = "running"
             /\ jobs'[workers[v].key].age <= StaleAfter
  BY <1>2, <1>3 DEF Prompt, KeepsJob
<1>4. ASSUME NEW k \in Keys
      PROVE  Settles(k)
  <2>1. ASSUME Held(k), ~Held(k)'
        PROVE  crashes' > crashes
    <3>1. PICK v \in Workers : Holds(v, k)
      BY <2>1 DEF Held
    <3>2. HasRow(v)' => Holds(v, k)'
      BY <3>1, <1>2 DEF Holds
    <3> QED BY <2>1, <3>1, <3>2 DEF Held, Holds
  <2> QED BY <2>1 DEF Settles
<1> QED BY <1>1, <1>3, <1>4, SettlePrompt

LEMMA FailReadPrompt ==
  ASSUME Safe, Safe', Prompt, NEW w \in Workers, FailRead(w)
  PROVE  Prompt'
<1>1. /\ jobs' = jobs /\ crashes' = crashes /\ Holding(w)
      /\ \A v \in Workers : v # w => workers'[v] = workers[v]
  BY DEF FailRead, Safe, Known, TypeOK, Holding
<1>2. /\ HasRow(w) => /\ workers'[w].at = "failing"
                      /\ workers'[w].key = workers[w].key /\ workers'[w].id = workers[w].id
                      /\ workers'[w].attempt = workers[w].attempt
      /\ ~HasRow(w) => workers'[w] = Idle
  BY DEF FailRead, Safe, Known, TypeOK, Prompt, KeepsJob
<1>3. \A v \in Workers : QuietWorker(v)
  BY <1>1, <1>2 DEF QuietWorker, Idle, Holding
<1>4. \A v \in Workers : HasRow(v) => HasRow(v)'
  BY <1>1, <1>2 DEF HasRow, Holding, Exists
<1>5. crashes' >= crashes
  <2>1. crashes \in 0..MaxCrashes /\ MaxCrashes \in Nat
    BY Bounds DEF Safe, Known, TypeOK
  <2> QED BY <1>1, <2>1
<1> QED BY <1>1, <1>3, <1>4, <1>5, SameTablePrompt

LEMMA CrashPrompt ==
  ASSUME Safe, Safe', Prompt, NEW w \in Workers, Crash(w)
  PROVE  Prompt'
<1>1. /\ jobs' = jobs
      /\ \A v \in Workers : workers'[v] = workers[v] \/ workers'[v] = Idle
  BY DEF Crash, Safe, Known, TypeOK
<1>2. crashes' > crashes /\ crashes' >= crashes
  <2>1. crashes \in 0..MaxCrashes /\ MaxCrashes \in Nat
    BY Bounds DEF Safe, Known, TypeOK
  <2> QED BY <2>1 DEF Crash
<1>3. \A v \in Workers : QuietWorker(v)
  BY <1>1 DEF QuietWorker, Idle, Holding
<1> QED BY <1>1, <1>2, <1>3, SameTablePrompt

\* RequeueStaleRunning takes only rows no live worker holds.
LEMMA RequeuePrompt ==
  ASSUME Safe, Safe', Prompt, NEW scope \in Scopes, RequeueStaleRunning(scope)
  PROVE  Prompt'
<1>1. workers' = workers /\ crashes' = crashes
  BY DEF RequeueStaleRunning
<1>2. ASSUME NEW k \in Keys
      PROVE  \/ jobs'[k] = jobs[k]
             \/ /\ Stale(k)
                /\ jobs'[k] = [jobs[k] EXCEPT !.state = "retry", !.age = 0, !.wait = 0]
  BY DEF RequeueStaleRunning
<1>3. ASSUME NEW k \in Keys, Stale(k)
      PROVE  ~Held(k) /\ jobs[k].state = "running" /\ jobs[k] \in Job
  <2>1. jobs[k] \in Job /\ jobs[k].age \in Nat /\ jobs[k].age > StaleAfter /\ StaleAfter \in Nat
    BY <1>3, RowNumbers, WorkQueueAssumption DEF Stale, Safe, Known
  <2> QED BY <1>3, <2>1 DEF Held, Holds, Prompt, KeepsJob, Stale
<1>4. ASSUME NEW k \in Keys
      PROVE  QuietRow(k) /\ Settles(k)
  <2>1. CASE jobs'[k] = jobs[k]
    <3>1. Held(k) => Held(k)'
      BY <1>1, <2>1 DEF Held, Holds, HasRow, Holding, Exists
    <3> QED BY <2>1, <3>1 DEF QuietRow, Settles, Exists
  <2>2. CASE jobs'[k] # jobs[k]
    <3>1. /\ ~Held(k) /\ jobs[k].state = "running" /\ jobs[k] \in Job /\ Exists(k)
          /\ jobs'[k] = [jobs[k] EXCEPT !.state = "retry", !.age = 0, !.wait = 0]
      BY <2>2, <1>2, <1>3 DEF Stale
    <3>2. /\ jobs'[k].state = "retry" /\ jobs'[k].id = jobs[k].id
          /\ jobs'[k].limit = jobs[k].limit /\ jobs'[k].attempts = jobs[k].attempts
      BY <3>1 DEF Job
    <3> QED BY <3>1, <3>2 DEF QuietRow, Settles
  <2> QED BY <2>1, <2>2
<1>5. ASSUME NEW v \in Workers, HasRow(v)'
      PROVE  /\ jobs'[workers[v].key].state = "running"
             /\ jobs'[workers[v].key].age <= StaleAfter
  <2>1. HasRow(v) /\ workers[v].key \in Keys
    BY <1>1, <1>4, <1>5, WorkerShape DEF HasRow, Holding, QuietRow, Safe, Known
  <2>2. ~Stale(workers[v].key)
    BY <2>1, <1>3 DEF Held, Holds
  <2> QED BY <2>1, <2>2, <1>2 DEF Prompt, KeepsJob
<1>6. \A v \in Workers : QuietWorker(v)
  BY <1>1 DEF QuietWorker, Holding
<1>7. crashes' >= crashes
  <2>1. crashes \in 0..MaxCrashes /\ MaxCrashes \in Nat
    BY Bounds DEF Safe, Known, TypeOK
  <2> QED BY <1>1, <2>1
<1> QED BY <1>4, <1>5, <1>6, <1>7, SettlePrompt

LEMMA DeletePrompt ==
  ASSUME Safe, Safe', Prompt, NEW rows \in SUBSET Keys, Delete(rows)
  PROVE  Prompt'
<1>1. /\ workers' = workers /\ crashes' = crashes
      /\ \A k \in Keys : Exists(k)' => jobs'[k] = jobs[k]
  BY DEF Delete, Exists
<1>2. ASSUME NEW v \in Workers
      PROVE  KeepsJob(v)'
  <2> SUFFICES ASSUME HasRow(v)'
               PROVE  KeepsJob(v)'
    BY DEF KeepsJob
  <2>1. workers[v].key \in Keys
    BY <1>1, WorkerShape DEF HasRow, Holding, Safe, Known
  <2> QED BY <1>1, <2>1 DEF HasRow, Holding, Exists, KeepsJob, Prompt
<1>3. ASSUME NEW k \in Keys
      PROVE  Paid(k)'
  <2>1. CASE Exists(k)'
    <3>1. jobs'[k] = jobs[k]
      BY <2>1, <1>1
    <3>2. Held(k) => Held(k)'
      BY <1>1, <3>1 DEF Held, Holds, HasRow, Holding, Exists
    <3> QED BY <3>1, <3>2, <1>1, PaidSame DEF Prompt
  <2>2. CASE ~Exists(k)'
    BY <2>2 DEF Paid
  <2> QED BY <2>1, <2>2
<1> QED BY <1>2, <1>3 DEF Prompt

\* The clock waits for a live worker whose job is about to become stale.
LEMMA TickPrompt ==
  ASSUME Safe, Safe', Prompt, Punctual, Tick
  PROVE  Prompt'
<1>1. /\ workers' = workers /\ crashes' = crashes
      /\ \A k \in Keys : jobs'[k] = IF Exists(k) THEN Elapse(jobs[k]) ELSE NoJob
  BY DEF Tick
<1>2. ASSUME NEW k \in Keys, Exists(k)
      PROVE  /\ jobs'[k].id = jobs[k].id /\ jobs'[k].state = jobs[k].state
             /\ jobs'[k].limit = jobs[k].limit /\ jobs'[k].attempts = jobs[k].attempts
             /\ jobs'[k].age <= jobs[k].age + 1
  <2>1. jobs[k] \in Job /\ jobs[k].age \in Nat
    BY <1>2, RowNumbers DEF Safe, Known
  <2>2. jobs'[k] = Elapse(jobs[k])
    BY <1>1, <1>2
  <2>3. /\ jobs'[k].id = jobs[k].id /\ jobs'[k].state = jobs[k].state
        /\ jobs'[k].limit = jobs[k].limit /\ jobs'[k].attempts = jobs[k].attempts
        /\ jobs'[k].age = IF jobs[k].age < AgeCap THEN jobs[k].age + 1 ELSE jobs[k].age
    BY <2>1, <2>2 DEF Elapse, Job
  <2> QED BY <2>1, <2>3, AgeCapIsNat
<1>3. ASSUME NEW k \in Keys
      PROVE  QuietRow(k) /\ Settles(k)
  <2>1. Exists(k)' => Exists(k)
    BY <1>1 DEF Exists
  <2>2. QuietRow(k)
    BY <2>1, <1>2 DEF QuietRow
  <2>3. ASSUME Exists(k)', Held(k)
        PROVE  Held(k)'
    BY <2>2, <2>3, <1>1, StaysHeld DEF Held
  <2> QED BY <2>1, <2>2, <2>3, <1>2 DEF Settles
<1>4. ASSUME NEW v \in Workers, HasRow(v)'
      PROVE  /\ jobs'[workers[v].key].state = "running"
             /\ jobs'[workers[v].key].age <= StaleAfter
  <2>1. PICK k \in Keys : k = workers[v].key
    BY <1>1, <1>4, WorkerShape DEF HasRow, Holding, Safe, Known
  <2>2. HasRow(v) /\ Exists(k) /\ jobs[k].state = "running"
    BY <2>1, <1>1, <1>3, <1>4 DEF HasRow, Holding, QuietRow, Prompt, KeepsJob
  <2>3. ~(jobs[k].age >= StaleAfter)
    BY <2>1, <2>2 DEF Tick, Urgent
  <2>4. jobs[k].age \in Nat /\ StaleAfter \in Nat /\ jobs'[k].age \in Nat
    <3>1. Exists(k)'
      BY <1>4, <1>1, <2>1 DEF HasRow
    <3>2. jobs'[k] \in Job /\ 0..AgeCap \subseteq Nat
      BY <3>1, AgeCapIsNat DEF Safe, Known, TypeOK, Exists
    <3>3. jobs'[k].age \in 0..AgeCap
      BY <3>2 DEF Job
    <3> QED BY <3>2, <3>3, <2>2, RowNumbers, WorkQueueAssumption DEF Safe, Known
  <2>5. jobs'[k].age <= StaleAfter
    BY <2>2, <2>3, <2>4, <1>2
  <2> QED BY <2>1, <2>2, <2>5, <1>2
<1>5. \A v \in Workers : QuietWorker(v)
  BY <1>1 DEF QuietWorker, Holding
<1>6. crashes' >= crashes
  <2>1. crashes \in 0..MaxCrashes /\ MaxCrashes \in Nat
    BY Bounds DEF Safe, Known, TypeOK
  <2> QED BY <1>1, <2>1
<1> QED BY <1>3, <1>4, <1>5, <1>6, SettlePrompt

LEMMA NextPrompt == Punctual /\ Safe /\ Safe' /\ Prompt /\ [Next]_vars => Prompt'
<1> SUFFICES ASSUME Punctual, Safe, Safe', Prompt, [Next]_vars
             PROVE  Prompt'
  OBVIOUS
<1>1. ASSUME NEW requests \in SUBSET Keys \ {{}}, EnqueueBatch(requests)
      PROVE  Prompt'
  BY <1>1, EnqueuePrompt
<1>2. ASSUME NEW w \in Workers, WorkerStep(w)
      PROVE  Prompt'
  BY <1>2, ClaimPrompt, CompletePrompt, FailReadPrompt, FailWritePrompt, CrashPrompt
     DEF WorkerStep
<1>3. ASSUME NEW scope \in Scopes, Cleanup(scope) \/ Purge(scope)
      PROVE  Prompt'
  <2>1. PICK rows \in SUBSET Keys : Delete(rows)
    BY <1>3, WorkQueueAssumption DEF Cleanup, Purge
  <2> QED BY <2>1, DeletePrompt
<1>4. CASE UNCHANGED vars
  BY <1>4 DEF vars, Prompt, KeepsJob, Paid, Held, Holds, HasRow, Holding, Exists
<1> QED BY <1>1, <1>2, <1>3, <1>4, RequeuePrompt, TickPrompt DEF Next

LEMMA Promptness == Spec => [](Punctual => Prompt)
<1>1. Init => (Punctual => Prompt)
  BY InitPrompt
<1>2. Safe /\ Safe' /\ (Punctual => Prompt) /\ [Next]_vars => (Punctual => Prompt)'
  BY NextPrompt
<1> QED BY <1>1, <1>2, Safety, PTL DEF Spec

(* If no job outlives olderThan, RequeueStaleRunning never takes a job from *)
(* a live worker.                                                           *)
THEOREM NotStolen == Spec => []LiveJobNotStolen
<1>1. (Punctual => Prompt) => LiveJobNotStolen
  BY DEF Prompt, KeepsJob, LiveJobNotStolen
<1> QED BY <1>1, Promptness, PTL

(* ... and max_attempts is exceeded by no more than the number of crashes. *)
THEOREM CrashesPay == Spec => []ExtraAttemptsAreCrashes
<1>1. (Punctual => Prompt) => ExtraAttemptsAreCrashes
  BY DEF Prompt, Paid, ExtraAttemptsAreCrashes
<1> QED BY <1>1, Promptness, PTL
=============================================================================
