----------------------------- MODULE WorkQueue -----------------------------
(***************************************************************************)
(* The durable job queue of internal/storage/queue: one SQL table shared   *)
(* by worker processes that claim a job, work on it, and report success or *)
(* failure.  Every SQL statement is one atomic step; a handler that issues *)
(* two statements (Fail reads the row, then writes it) is two steps.       *)
(*                                                                         *)
(* Time is discrete.  A row keeps how long ago it was last updated (age)   *)
(* and how long it still has to wait for its scheduled_at (wait), so the   *)
(* state space is finite although the clock runs for ever.                 *)
(***************************************************************************)
EXTENDS Integers

CONSTANTS
  Keys,        \* (group_id, dedupe_key) pairs
  Workers,     \* worker processes, each working on one job at a time
  Scopes,      \* the sets of keys a group and/or payload-kind filter can select
  Priorities,  \* priorities after PriorityUnset became PriorityNormal
  Limits,      \* max_attempts after a value <= 0 became DefaultMaxAttempts
  Backoff,     \* Backoff[a]: ticks a job waits after its a-th attempt failed
  StaleAfter,  \* olderThan of RequeueStaleRunning
  KeepFor,     \* olderThan of Cleanup
  Punctual,    \* TRUE: no live worker holds a job for longer than StaleAfter
  NoJob,       \* no row for this key; not a record
  MaxBatches,  \* bound: EnqueueBatch transactions
  MaxClaims,   \* bound: claims of one row
  MaxCrashes   \* bound: worker crashes

ASSUME WorkQueueAssumption ==
  /\ Scopes \subseteq SUBSET Keys
  /\ Priorities \subseteq Nat \ {0}
  /\ Limits \subseteq Nat \ {0}
  /\ MaxClaims \in Nat \ {0} /\ MaxBatches \in Nat /\ MaxCrashes \in Nat
  /\ Backoff \in [1..MaxClaims -> Nat]
  /\ Backoff[1] = 1
  /\ \A a \in 1..(MaxClaims - 1) : Backoff[a + 1] = 2 * Backoff[a]
  /\ StaleAfter \in Nat \ {0} /\ KeepFor \in Nat
  /\ Punctual \in BOOLEAN

VARIABLES
  jobs,     \* jobs[k]: the row of key k, or NoJob
  workers,  \* workers[w]: what worker w is doing
  batch,    \* EnqueueBatch transactions so far; names the rows it inserted
  stamp,    \* the latest created_at
  crashes   \* worker crashes so far

vars == <<jobs, workers, batch, stamp, crashes>>
-----------------------------------------------------------------------------
Terminal == {"ok", "error"}
Waiting  == {"queued", "retry"}
JobStates == Waiting \cup Terminal \cup {"running"}

\* An age stops growing once every comparison with it has come out true.
AgeCap == IF StaleAfter < KeepFor THEN KeepFor + 1 ELSE StaleAfter + 1

Job == [id: 1..MaxBatches, state: JobStates, priority: Priorities,
        limit: Limits, attempts: 0..MaxClaims, created: 0..MaxBatches,
        age: 0..AgeCap, wait: Nat]

\* The value that stands for "no row" is neither a row nor a job of JobLifecycle.
ASSUME NoJobAssumption ==
  /\ NoJob \notin Job
  /\ NoJob \notin [phase: {"waiting", "running", "done", "dead"}, tries: Nat, limit: Nat]

(* A worker that holds a job remembers the key and id of the row and the   *)
(* attempts count ClaimNext returned; "failing" is between the two         *)
(* statements of Fail, with the attempts count the first of them read.     *)
Idle == [at |-> "idle"]
Busy == [at: {"busy"}, key: Keys, id: 1..MaxBatches, attempt: 1..MaxClaims]
Failing == [at: {"failing"}, key: Keys, id: 1..MaxBatches,
            attempt: 1..MaxClaims, seen: 1..MaxClaims, limit: Limits]

Exists(k) == jobs[k] # NoJob
Holding(w) == workers[w].at # "idle"

\* The row worker w claimed is still in the table (ids are never reused).
HasRow(w) == /\ Holding(w)
             /\ Exists(workers[w].key)
             /\ jobs[workers[w].key].id = workers[w].id

Holds(w, k) == HasRow(w) /\ workers[w].key = k
-----------------------------------------------------------------------------
Init ==
  /\ jobs = [k \in Keys |-> NoJob]
  /\ workers = [w \in Workers |-> Idle]
  /\ batch = 0
  /\ stamp = 0
  /\ crashes = 0

NewJob(priority, limit, created) ==
  [id |-> batch + 1, state |-> "queued", priority |-> priority,
   limit |-> limit, attempts |-> 0, created |-> created, age |-> 0, wait |-> 0]

\* Slip: INSERT OR REPLACE.
EnqueueReplaces(requests) ==
  /\ batch < MaxBatches
  /\ stamp' = stamp + 1
  /\ jobs' = [k \in Keys |->
       IF k \in requests
       THEN NewJob(CHOOSE p \in Priorities : TRUE, CHOOSE l \in Limits : TRUE, stamp + 1)
       ELSE jobs[k]]
  /\ batch' = batch + 1
  /\ UNCHANGED <<workers, crashes>>

(* One transaction, ON CONFLICT(group_id, dedupe_key) DO NOTHING: a key    *)
(* that has a row, whatever its state, is skipped.  The rows of a batch    *)
(* share created_at.  Two batches stamped in the same second may sort      *)
(* either way, because created_at is compared as RFC3339Nano text, which   *)
(* drops trailing zeros: the new batch takes a later stamp or the same.    *)
EnqueueBatch(requests) ==
  /\ batch < MaxBatches
  /\ \E created \in {stamp, stamp + 1} :
       /\ stamp' = created
       /\ \E priority \in [requests -> Priorities], limit \in [requests -> Limits] :
            jobs' = [k \in Keys |->
                       IF k \in requests /\ ~Exists(k)
                       THEN NewJob(priority[k], limit[k], created)
                       ELSE jobs[k]]
  /\ batch' = batch + 1
  /\ UNCHANGED <<workers, crashes>>

\* Slip: only queued rows are looked at.
ClaimableFresh(k) == Exists(k) /\ jobs[k].state = "queued"

Claimable(k) == Exists(k) /\ jobs[k].state \in Waiting /\ jobs[k].wait = 0

\* ORDER BY priority DESC, created_at ASC
Precedes(k, l) ==
  \/ jobs[k].priority > jobs[l].priority
  \/ jobs[k].priority = jobs[l].priority /\ jobs[k].created < jobs[l].created

(* ClaimNext: one UPDATE whose sub-select picks the row.  The guard on     *)
(* MaxClaims is the bound of the model; the code compares nothing here.    *)
ClaimNext(w, scope) ==
  /\ ~Holding(w)
  /\ \E k \in scope :
       /\ Claimable(k)
       /\ \A l \in scope : Claimable(l) => ~Precedes(l, k)
       /\ jobs[k].attempts < MaxClaims
       /\ jobs' = [jobs EXCEPT ![k] = [@ EXCEPT
            !.state = "running", !.age = 0, !.attempts = jobs[k].attempts + 1]]
       /\ workers' = [workers EXCEPT ![w] =
            [at |-> "busy", key |-> k, id |-> jobs[k].id,
             attempt |-> jobs[k].attempts + 1]]
  /\ UNCHANGED <<batch, stamp, crashes>>

(* The write shared by Complete and Fail: UPDATE ... WHERE id = ? AND      *)
(* state = 'running'.  When no row matches the handler returns ErrNotFound *)
(* or ErrInvalidState and the table is unchanged.                          *)
Report(w, state, wait) ==
  LET k == workers[w].key IN
  /\ jobs' = IF HasRow(w) /\ jobs[k].state = "running"
             THEN [jobs EXCEPT ![k] = [@ EXCEPT !.state = state, !.age = 0, !.wait = wait]]
             ELSE jobs
  /\ workers' = [workers EXCEPT ![w] = Idle]
  /\ UNCHANGED <<batch, stamp, crashes>>

\* Complete leaves scheduled_at alone; it was in the past when the job ran.
Complete(w) == workers[w].at = "busy" /\ Report(w, "ok", 0)

(* The first statement of Fail.  A row that is gone or no longer running   *)
(* ends the call with an error; otherwise the worker goes on with the      *)
(* attempts and max_attempts it read.                                      *)
FailRead(w) ==
  LET k == workers[w].key IN
  /\ workers[w].at = "busy"
  /\ workers' = [workers EXCEPT ![w] =
       IF HasRow(w) /\ jobs[k].state = "running"
       THEN [at |-> "failing", key |-> k, id |-> workers[w].id,
             attempt |-> workers[w].attempt,
             seen |-> jobs[k].attempts, limit |-> jobs[k].limit]
       ELSE Idle]
  /\ UNCHANGED <<jobs, batch, stamp, crashes>>

\* Slip: attempts <= max_attempts.
FailWriteLate(w) ==
  /\ workers[w].at = "failing"
  /\ IF workers[w].seen <= workers[w].limit
     THEN Report(w, "retry", Backoff[workers[w].seen])
     ELSE Report(w, "error", 0)

\* The second statement of Fail, decided on what the first one read.
FailWrite(w) ==
  /\ workers[w].at = "failing"
  /\ IF workers[w].seen < workers[w].limit
     THEN Report(w, "retry", Backoff[workers[w].seen])
     ELSE Report(w, "error", 0)

\* A worker is killed, or its deadline passes before it could report.
Crash(w) ==
  /\ Holding(w)
  /\ crashes < MaxCrashes
  /\ crashes' = crashes + 1
  /\ workers' = [workers EXCEPT ![w] = Idle]
  /\ UNCHANGED <<jobs, batch, stamp>>

\* Slip: updated_at <= cutoff.
StaleEarly(k) == Exists(k) /\ jobs[k].state = "running" /\ jobs[k].age >= StaleAfter

Stale(k) == Exists(k) /\ jobs[k].state = "running" /\ jobs[k].age > StaleAfter

\* Slip: a recovered job starts over.
RequeueAfresh(scope) ==
  /\ \E k \in scope : Stale(k)
  /\ jobs' = [k \in Keys |->
       IF k \in scope /\ Stale(k)
       THEN [jobs[k] EXCEPT !.state = "retry", !.age = 0, !.wait = 0, !.attempts = 0]
       ELSE jobs[k]]
  /\ UNCHANGED <<workers, batch, stamp, crashes>>

\* Slip: the row is touched and stays running.
RequeueTouching(scope) ==
  /\ \E k \in scope : Stale(k)
  /\ jobs' = [k \in Keys |->
       IF k \in scope /\ Stale(k) THEN [jobs[k] EXCEPT !.age = 0] ELSE jobs[k]]
  /\ UNCHANGED <<workers, batch, stamp, crashes>>

RequeueStaleRunning(scope) ==
  /\ \E k \in scope : Stale(k)
  /\ jobs' = [k \in Keys |->
       IF k \in scope /\ Stale(k)
       THEN [jobs[k] EXCEPT !.state = "retry", !.age = 0, !.wait = 0]
       ELSE jobs[k]]
  /\ UNCHANGED <<workers, batch, stamp, crashes>>

Delete(rows) ==
  /\ rows # {}
  /\ jobs' = [k \in Keys |-> IF k \in rows THEN NoJob ELSE jobs[k]]
  /\ UNCHANGED <<workers, batch, stamp, crashes>>

\* completed_at and updated_at of a terminal row are set together.
Cleanup(scope) ==
  Delete({k \in scope : Exists(k) /\ jobs[k].state \in Terminal /\ jobs[k].age > KeepFor})

\* Purge deletes every row of the scope, running ones included.
Purge(scope) == Delete({k \in scope : Exists(k)})

\* A live worker whose job is about to become stale: it reports first.
Urgent(w) == /\ HasRow(w)
             /\ jobs[workers[w].key].state = "running"
             /\ jobs[workers[w].key].age >= StaleAfter

Elapse(job) ==
  [job EXCEPT !.age = IF job.age < AgeCap THEN job.age + 1 ELSE job.age,
              !.wait = IF job.wait > 0 THEN job.wait - 1 ELSE 0]

Tick ==
  /\ Punctual => \A w \in Workers : ~Urgent(w)
  /\ jobs' = [k \in Keys |-> IF Exists(k) THEN Elapse(jobs[k]) ELSE NoJob]
  /\ UNCHANGED <<workers, batch, stamp, crashes>>

WorkerStep(w) ==
  \/ \E scope \in Scopes : ClaimNext(w, scope)
  \/ Complete(w)
  \/ FailRead(w)
  \/ FailWrite(w)
  \/ Crash(w)

Next ==
  \/ \E requests \in SUBSET Keys \ {{}} : EnqueueBatch(requests)
  \/ \E w \in Workers : WorkerStep(w)
  \/ \E scope \in Scopes : RequeueStaleRunning(scope) \/ Cleanup(scope) \/ Purge(scope)
  \/ Tick

Spec == Init /\ [][Next]_vars

(* The worker skills are run again and again over the whole queue, and a   *)
(* worker that holds a job goes on until it has reported.  Recovery is     *)
(* opt-in: nobody need ever call RequeueStaleRunning.                      *)
Fairness ==
  /\ WF_vars(Tick)
  /\ \A w \in Workers :
       /\ SF_vars(ClaimNext(w, Keys))
       /\ WF_vars(Complete(w) \/ FailRead(w))
       /\ WF_vars(FailWrite(w))

FairSpec == Spec /\ Fairness
-----------------------------------------------------------------------------
TypeOK ==
  /\ jobs \in [Keys -> Job \cup {NoJob}]
  /\ workers \in [Workers -> {Idle} \cup Busy \cup Failing]
  /\ batch \in 0..MaxBatches
  /\ stamp \in 0..batch
  /\ crashes \in 0..MaxCrashes
-----------------------------------------------------------------------------
(* The attempts count is a fencing token: a worker never remembers a count *)
(* the row has not reached, and two workers that claimed the same row (the *)
(* second after RequeueStaleRunning took it from the first) remember       *)
(* different counts.  ClaimNext hands the count out, the later writes do   *)
(* not check it.                                                           *)
AttemptIdentifiesClaim ==
  \A w \in Workers : HasRow(w) =>
    /\ workers[w].attempt <= jobs[workers[w].key].attempts
    /\ \A v \in Workers \ {w} :
         Holds(v, workers[w].key) => workers[v].attempt # workers[w].attempt

(* A job is given up only when its attempts are used up, although Fail     *)
(* decides on a count that another claim may have raised since.            *)
ErrorOnlyWhenExhausted ==
  \A k \in Keys : Exists(k) /\ jobs[k].state = "error" => jobs[k].attempts >= jobs[k].limit

(* Once ok or error, a row never changes again until it is deleted: late   *)
(* reports of workers that lost the job, and requeues, leave it alone.     *)
TerminalStep ==
  \A k \in Keys : (Exists(k) /\ jobs[k].state \in Terminal /\ Exists(k)')
    => /\ jobs'[k].id = jobs[k].id
       /\ jobs'[k].state = jobs[k].state
       /\ jobs'[k].attempts = jobs[k].attempts

TerminalIsFinal == [][TerminalStep]_vars

(* What a deployment may rely on whose olderThan exceeds the longest job   *)
(* (Punctual): a live worker's job is never taken from it, so its row is   *)
(* running and on the attempt the worker claimed.                          *)
LiveJobNotStolen ==
  Punctual => \A w \in Workers : HasRow(w) =>
    /\ jobs[workers[w].key].state = "running"
    /\ jobs[workers[w].key].attempts = workers[w].attempt

(* Punctual: every attempt beyond max_attempts is paid for by a crash that *)
(* left the row running.                                                   *)
ExtraAttemptsAreCrashes ==
  Punctual => \A k \in Keys : Exists(k) => jobs[k].attempts <= jobs[k].limit + crashes

Over(k) == ~Exists(k) \/ jobs[k].state \in Terminal
Stranded(k) == jobs[k].state = "running" /\ \A w \in Workers : ~Holds(w, k)

(* Every job that was enqueued ends as ok or error, is purged, or is left  *)
(* running by a worker that crashed: failures, backoff and other workers   *)
(* only delay it, and a crash is the only thing that strands it.           *)
EveryJobFinishes ==
  \A k \in Keys : Exists(k) ~> (Over(k) \/ Stranded(k))

(* Where stale rows do not stay so, that is, where somebody keeps calling  *)
(* RequeueStaleRunning, crashes too only delay a job.                      *)
RecoveredJobsFinish ==
  (\A k \in Keys : Stale(k) ~> ~Stale(k)) => \A k \in Keys : Exists(k) ~> Over(k)
-----------------------------------------------------------------------------
(* The queue implements JobLifecycle: queued and retry are one phase, and  *)
(* workers, clock, priorities and created_at are not part of the promise.  *)
Phase(state) ==
  CASE state \in Waiting -> "waiting"
    [] state = "running" -> "running"
    [] state = "ok" -> "done"
    [] state = "error" -> "dead"

Board == [k \in Keys |->
  IF Exists(k)
  THEN [phase |-> Phase(jobs[k].state), tries |-> jobs[k].attempts, limit |-> jobs[k].limit]
  ELSE NoJob]

Lifecycle == INSTANCE JobLifecycle WITH board <- Board, Absent <- NoJob

(* Whatever workers, crashes and recoveries do, a job goes through the     *)
(* phases of JobLifecycle.                                                 *)
ImplementsLifecycle == Lifecycle!Spec
=============================================================================
