----------------------------- MODULE MCMachines -----------------------------
(***************************************************************************)
(* Five machines that have nothing to do with one another, in one run: a   *)
(* behaviour is a behaviour of one of them, chosen at the start, while the *)
(* others stay as they begin.  Nothing the fairness of one asks for can    *)
(* happen in the initial state of another.                                 *)
(***************************************************************************)
EXTENDS CircuitBreaker, FairScheduler, JobStore, RefreshQueue, OutputLog

CONSTANTS n1, n2

VARIABLE machine  \* the one that moves

notBreaker == <<machine, schedulerVars, jobVars, refreshVars, logVars>>
notScheduler == <<machine, breakerVars, jobVars, refreshVars, logVars>>
notJobs == <<machine, breakerVars, schedulerVars, refreshVars, logVars>>
notRefresh == <<machine, breakerVars, schedulerVars, jobVars, logVars>>
notLog == <<machine, breakerVars, schedulerVars, jobVars, refreshVars>>

MachinesInit ==
  /\ machine \in {"breaker", "scheduler", "jobs", "refresh", "log"}
  /\ BreakerInit /\ SchedulerInit /\ JobInit /\ RefreshInit /\ LogInit

MachinesNext ==
  \/ machine = "breaker" /\ BreakerNext /\ UNCHANGED notBreaker
  \/ machine = "scheduler" /\ SchedulerNext /\ UNCHANGED notScheduler
  \/ machine = "jobs" /\ JobNext /\ UNCHANGED notJobs
  \/ machine = "refresh" /\ RefreshNext /\ UNCHANGED notRefresh
  \/ machine = "log" /\ LogNext /\ UNCHANGED notLog

MachinesSpec ==
  /\ MachinesInit
  /\ [][MachinesNext]_<<breakerVars, notBreaker>>
  /\ SchedulerFairness /\ JobFairness /\ RefreshFairness

MCCost == [w \in {1, 2} |-> Unit \div w]
MCWeights == [ns \in Namespaces |-> IF ns = n1 THEN {2} ELSE {}]
=============================================================================
