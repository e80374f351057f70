--------------------------- MODULE FairScheduler ---------------------------
(***************************************************************************)
(* The weighted fair queueing scheduler (runtime/execution/scheduler).  An *)
(* enqueued job is stamped with a virtual finish time, one cost after its  *)
(* namespace's last one or after the scheduler's clock; a ticker hands the *)
(* job with the earliest stamp to the workers, or puts it back when their  *)
(* channel is full, and moves the clock to its stamp either way.           *)
(*                                                                         *)
(* A job's id is its place in the order of the enqueues.  Virtual time is  *)
(* counted in units of 1/Unit, Unit being a multiple of every weight, so   *)
(* that it is a natural number.  A worker executes a job in one step:      *)
(* nothing here depends on how long it takes but the room in its channel.  *)
(***************************************************************************)
EXTENDS Integers, Sequences, FiniteSets

CONSTANTS
  Namespaces,
  Weights,  \* Weights[ns]: weights ns may be given; 1 by default
  Unit,     \* the cost of a job of weight 1
  Cost,     \* Cost[w] = Unit \div w
  WorkRoom, \* capacity of workCh
  MaxJobs   \* bound: jobs

ASSUME SchedulerAssumption ==
  /\ Unit \in Nat /\ WorkRoom \in Nat /\ MaxJobs \in Nat
  /\ \A ns \in Namespaces : Weights[ns] \subseteq DOMAIN Cost
  /\ 1 \in DOMAIN Cost /\ \A w \in DOMAIN Cost : Cost[w] \in 1..Unit

VARIABLES
  queue,     \* globalQueue: id, namespace, virtualFinishTime and cost of each job
  count,     \* jobs enqueued so far
  virtual,   \* virtualTime of the scheduler
  tags,      \* virtualTime of each namespace's queue; 0 before it is created
  weights,
  workCh,    \* jobs handed to the workers
  done,      \* jobs executed (history)
  started,   \* the scheduler takes itself for running
  pool,      \* its loop and workers: off, on, or told to end
  share      \* share[f][g]: cost of the jobs of f handed out since f and g both have jobs (history)

queueVars == <<queue, count, virtual, tags, weights, share>>
poolVars == <<started, pool>>
workVars == <<workCh, done>>
schedulerVars == <<queueVars, poolVars, workVars>>
-----------------------------------------------------------------------------
Backlogged(q) == {j.ns : j \in q}
Later(a, b) == IF a > b THEN a ELSE b

SchedulerInit ==
  /\ queue = {} /\ count = 0 /\ virtual = 0
  /\ tags = [ns \in Namespaces |-> 0] /\ weights = [ns \in Namespaces |-> 1]
  /\ workCh = <<>> /\ done = {}
  /\ started = FALSE /\ pool = "off"
  /\ share = [f \in Namespaces |-> [g \in Namespaces |-> 0]]

SetWeight(ns, w) ==
  /\ weights' = [weights EXCEPT ![ns] = w]
  /\ UNCHANGED <<queue, count, virtual, tags, share, poolVars, workVars>>

\* Slip: a job starts at the clock, whatever its namespace has queued.
StampAtClock(ns) == virtual

Stamp(ns) == Later(virtual, tags[ns])

Enqueue(ns) ==
  /\ count < MaxJobs /\ count' = count + 1
  /\ LET cost == Cost[weights[ns]] IN
       /\ tags' = [tags EXCEPT ![ns] = Stamp(ns) + cost]
       /\ queue' = queue \cup
            {[id |-> count + 1, ns |-> ns, finish |-> Stamp(ns) + cost, cost |-> cost]}
  /\ UNCHANGED <<virtual, weights, share, poolVars, workVars>>

\* What the namespaces that stay backlogged together have been given.
Shares(j) ==
  [f \in Namespaces |-> [g \in Namespaces |->
     IF {f, g} \subseteq Backlogged(queue \ {j})
     THEN share[f][g] + (IF f = j.ns THEN j.cost ELSE 0) ELSE 0]]

\* Slip: a job that is put back is dropped.
DispatchDropping(j) ==
  /\ virtual' = j.finish
  /\ queue' = queue \ {j} /\ share' = Shares(j)
  /\ workCh' = IF Len(workCh) < WorkRoom THEN Append(workCh, j.id) ELSE workCh

Dispatch(j) ==
  /\ virtual' = j.finish
  /\ \/ /\ Len(workCh) < WorkRoom
        /\ queue' = queue \ {j} /\ share' = Shares(j)
        /\ workCh' = Append(workCh, j.id)
     \/ Len(workCh) >= WorkRoom /\ UNCHANGED <<queue, share, workCh>>

Earliest == {j \in queue : \A k \in queue : j.finish <= k.finish}

DispatchNext ==
  /\ pool # "off"
  /\ \E j \in Earliest : Dispatch(j)
  /\ UNCHANGED <<count, tags, weights, done, poolVars>>

\* worker
Work ==
  /\ pool # "off" /\ workCh # <<>>
  /\ workCh' = Tail(workCh) /\ done' = done \cup {Head(workCh)}
  /\ UNCHANGED <<queueVars, poolVars>>

StartScheduler ==
  /\ ~started /\ started' = TRUE /\ pool' = "on"
  /\ UNCHANGED <<queueVars, workVars>>

StopScheduler ==
  /\ started /\ started' = FALSE
  /\ pool' = IF pool = "on" THEN "ending" ELSE pool
  /\ UNCHANGED <<queueVars, workVars>>

\* The context given to Start ends: the scheduler still takes itself for running.
ContextEnds ==
  /\ pool = "on" /\ pool' = "ending"
  /\ UNCHANGED <<started, queueVars, workVars>>

\* Each of them picks among what is ready, a tick or a job, and its end.
PoolEnds ==
  /\ pool = "ending" /\ pool' = "off"
  /\ UNCHANGED <<started, queueVars, workVars>>

SchedulerNext ==
  \/ \E ns \in Namespaces : Enqueue(ns) \/ \E w \in Weights[ns] : SetWeight(ns, w)
  \/ DispatchNext \/ Work
  \/ StartScheduler \/ StopScheduler \/ ContextEnds \/ PoolEnds

\* The ticker ticks, and workers take and end what there is.
SchedulerFairness ==
  WF_schedulerVars(DispatchNext) /\ WF_schedulerVars(Work)

SchedulerSpec == SchedulerInit /\ [][SchedulerNext]_schedulerVars
SchedulerFairSpec == SchedulerSpec /\ SchedulerFairness
-----------------------------------------------------------------------------
Handed == {workCh[i] : i \in 1..Len(workCh)}
Queued == {j.id : j \in queue}

SchedulerTypeOK ==
  /\ queue \subseteq [id: 1..count, ns: Namespaces, finish: Nat, cost: 1..Unit]
  /\ count \in 0..MaxJobs /\ virtual \in Nat
  /\ tags \in [Namespaces -> Nat] /\ weights \in [Namespaces -> DOMAIN Cost]
  /\ workCh \in Seq(1..count) /\ Len(workCh) <= WorkRoom /\ done \subseteq 1..count
  /\ started \in BOOLEAN /\ pool \in {"off", "on", "ending"}
  /\ share \in [Namespaces -> [Namespaces -> Nat]]

\* Through dispatches, put-back jobs, stops and restarts every job is in one
\* place only, and none is lost: it is executed at most once.
EachJobOnce ==
  /\ 1..count = Queued \cup Handed \cup done
  /\ count = Cardinality(queue) + Len(workCh) + Cardinality(done)

\* "Higher weight means more capacity share": as long as two namespaces both
\* have jobs, what the one was given, in the units its weight gives its jobs,
\* is no more than two units ahead of what the other was given, whatever they
\* had before, in whatever order they came and however weights change.
FairShare ==
  \A f, g \in Namespaces : share[f][g] - share[g][f] <= 2 * Unit

\* What is enqueued is executed, if no more comes, unless the scheduler is stopped
\* or the context it was started with ends: a full channel only holds it up.
QueueDrains == done # 1..count ~> (done = 1..count \/ pool # "on")

\* The scheduler at any time: no job lost or doubled, and fair shares.
SchedulerSafe == SchedulerTypeOK /\ EachJobOnce /\ FairShare
=============================================================================
