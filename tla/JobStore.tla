----------------------------- MODULE JobStore -----------------------------
(***************************************************************************)
(* The job store behind `foxctl run' (storage/jobs, runtime/jobs/executor, *)
(* runtime/runservice).  A command prepares a job for its skill and input, *)
(* or, with --dedupe, finds the job of an equal one and waits for it; it   *)
(* then executes its job and records the end.  Other processes cancel and  *)
(* remove jobs, and every process that opens the store marks as failed     *)
(* what still runs an hour after it was created.                           *)
(*                                                                         *)
(* All commands here have the same skill and input, hence the same         *)
(* args_hash; those with other ones share nothing with them.  A command is *)
(* its place in the order of created_at, the time it read before its       *)
(* insert, and its job has its name.  A command that is run asynchronously *)
(* stands for itself and its worker.                                       *)
(***************************************************************************)
EXTENDS Integers, FiniteSets

CONSTANTS
  NumCommands, \* commands
  Dedupers,    \* those with --dedupe
  MaxFaults    \* bound: crashes and failed calls of the store

ASSUME JobAssumption ==
  NumCommands \in Nat /\ Dedupers \subseteq 1..NumCommands /\ MaxFaults \in Nat

VARIABLES
  jobs,     \* jobs[j]: state, or none before and deleted after; result_path set; older than an hour
  commands, \* commands[c]: where c is, and the job it waits for
  faults    \* crashes and failed calls so far

jobVars == <<jobs, commands, faults>>
-----------------------------------------------------------------------------
Commands == 1..NumCommands
Ended == {"ok", "error", "canceled"}

JobInit ==
  /\ jobs = [j \in Commands |-> [state |-> "none", result |-> FALSE, aged |-> FALSE]]
  /\ commands = [c \in Commands |-> [at |-> "away", job |-> c]]
  /\ faults = 0

Stored == {j \in Commands : jobs[j].state \notin {"none", "deleted"}}
GoesTo(c, step) == commands' = [commands EXCEPT ![c].at = step]
NoFault == UNCHANGED faults
Fault == faults < MaxFaults /\ faults' = faults + 1

\* Slip: a job that runs or has ended may be given any state.
SourcesUnchecked(target) == {"queued", "running", "canceled", "error"}

\* validSourceStates
Sources(target) == IF target = "ok" THEN {"running"} ELSE {"queued", "running"}

May(j, target) == jobs[j].state \in Sources(target)
UpdateState(j, target) ==
  jobs' = [jobs EXCEPT ![j] =
    [@ EXCEPT !.state = target, !.result = jobs[j].result \/ target = "ok"]]
-----------------------------------------------------------------------------
(* A command prepares its job, or finds another one.                       *)

Insert(c) ==
  /\ commands[c].at = "away" /\ (c \in Dedupers => Stored = {})
  /\ jobs' = [jobs EXCEPT ![c].state = "queued"]
  /\ GoesTo(c, "inserted") /\ NoFault

\* The newest is taken, ended or not; one with a result is not waited for.
FindDuplicate(c) ==
  /\ commands[c].at = "away" /\ c \in Dedupers
  /\ \E j \in Stored :
       /\ \A k \in Stored : k <= j
       /\ commands' = [commands EXCEPT ![c] =
            [at |-> IF jobs[j].result THEN "served" ELSE "waiting", job |-> j]]
  /\ UNCHANGED jobs /\ NoFault

MakeJobDir(c) ==
  /\ commands[c].at = "inserted"
  /\ GoesTo(c, "prepared")
  /\ UNCHANGED jobs /\ NoFault

\* The directory or the input cannot be written; the error of Delete is ignored.
MakeJobDirFails(c) ==
  /\ commands[c].at = "inserted" /\ Fault
  /\ GoesTo(c, "failed")
  /\ jobs' \in {jobs, [jobs EXCEPT ![c].state = "deleted"]}
-----------------------------------------------------------------------------
(* It executes it.                                                         *)
StartExecution(c) ==
  /\ commands[c].at = "prepared"
  /\ \/ /\ May(c, "running")
        /\ UpdateState(c, "running") /\ GoesTo(c, "executing") /\ NoFault
     \/ /\ GoesTo(c, "failed") /\ UNCHANGED jobs
        /\ IF May(c, "running") THEN Fault ELSE NoFault

\* Slip: the error of UpdateState is ignored.
HandleSuccessUnchecked(c) ==
  /\ commands[c].at = "executing"
  /\ GoesTo(c, "succeeded") /\ NoFault
  /\ (May(c, "ok") /\ UpdateState(c, "ok")) \/ UNCHANGED jobs

HandleSuccess(c) ==
  /\ commands[c].at = "executing"
  /\ \/ /\ May(c, "ok")
        /\ UpdateState(c, "ok") /\ GoesTo(c, "succeeded") /\ NoFault
     \/ /\ GoesTo(c, "failed") /\ UNCHANGED jobs
        /\ IF May(c, "ok") THEN Fault ELSE NoFault

\* The skill fails, its envelope is not valid, or its result cannot be written.
HandleFailure(c) ==
  /\ commands[c].at = "executing"
  /\ GoesTo(c, "failed")
  /\ \/ May(c, "error") /\ UpdateState(c, "error") /\ NoFault
     \/ /\ UNCHANGED jobs
        /\ IF May(c, "error") THEN Fault ELSE NoFault

\* Slip: a canceled job is waited for.
WaitForResult(c) ==
  /\ commands[c].at = "waiting"
  /\ jobs[commands[c].job].state \in {"ok", "error", "deleted"}
  /\ GoesTo(c, IF jobs[commands[c].job].result THEN "served" ELSE "failed")
  /\ UNCHANGED jobs /\ NoFault

\* A job that is gone is not found; one that failed or was canceled has no result.
WaitForCompletion(c) ==
  /\ commands[c].at = "waiting"
  /\ jobs[commands[c].job].state \in Ended \cup {"deleted"}
  /\ GoesTo(c, IF jobs[commands[c].job].state = "ok" THEN "served" ELSE "failed")
  /\ UNCHANGED jobs /\ NoFault

Dies(c) ==
  /\ commands[c].at \in {"inserted", "prepared", "executing", "waiting"}
  /\ Fault
  /\ GoesTo(c, "failed")
  /\ UNCHANGED jobs
-----------------------------------------------------------------------------
(* Other processes.                                                        *)
Cancel(j) ==
  /\ May(j, "canceled")
  /\ UpdateState(j, "canceled")
  /\ UNCHANGED commands /\ NoFault

RemoveJob(j) ==
  /\ j \in Stored
  /\ jobs' = [jobs EXCEPT ![j].state = "deleted"]
  /\ UNCHANGED commands /\ NoFault

AnHourPasses(j) ==
  /\ j \in Stored /\ ~jobs[j].aged
  /\ jobs' = [jobs EXCEPT ![j].aged = TRUE]
  /\ UNCHANGED commands /\ NoFault

Stale == {j \in Commands : jobs[j].state = "running" /\ jobs[j].aged}

\* RecoverOrphanedJobsBefore, whenever a process opens the store.
RecoverStaleJobs ==
  /\ Stale # {}
  /\ jobs' = [j \in Commands |-> IF j \in Stale THEN [jobs[j] EXCEPT !.state = "error"] ELSE jobs[j]]
  /\ UNCHANGED commands /\ NoFault

Continues(c) ==
  \/ MakeJobDir(c) \/ StartExecution(c) \/ HandleSuccess(c) \/ HandleFailure(c)
  \/ WaitForCompletion(c)

JobNext ==
  \/ \E c \in Commands : \/ Insert(c) \/ FindDuplicate(c) \/ MakeJobDirFails(c) \/ Continues(c)
                         \/ Dies(c) \/ Cancel(c) \/ RemoveJob(c) \/ AnHourPasses(c)
  \/ RecoverStaleJobs

\* A command goes on unless it dies, a waiting one looks again and again, time
\* passes, and foxctl is used: somebody opens the store now and then.
JobFairness ==
  /\ \A c \in Commands : WF_jobVars(Continues(c)) /\ WF_jobVars(AnHourPasses(c))
  /\ WF_jobVars(RecoverStaleJobs)

JobSpec == JobInit /\ [][JobNext]_jobVars
JobFairSpec == JobSpec /\ JobFairness
-----------------------------------------------------------------------------
JobTypeOK ==
  /\ jobs \in [Commands -> [state: Ended \cup {"none", "queued", "running", "deleted"},
                            result: BOOLEAN, aged: BOOLEAN]]
  /\ commands \in [Commands ->
       [at: {"away", "inserted", "prepared", "executing", "waiting", "served", "succeeded", "failed"},
        job: Commands]]
  /\ faults \in 0..MaxFaults

\* What a job has come to stands, whatever cancellations, recoveries and late
\* results come after it: an ended job changes no more, except that it ages and
\* is removed (validSourceStates).
EndsStand ==
  [][\A j \in Commands : jobs[j].state \in Ended =>
       \/ jobs'[j].state = "deleted"
       \/ jobs'[j].state = jobs[j].state /\ jobs'[j].result = jobs[j].result]_jobVars

\* Nobody is told of a success the store does not have: who executed a job to a
\* success, or was served its result, finds it recorded as ok, and no job that
\* was canceled or given up meanwhile has a result.  (A removed job is remembered here with what it was.)
SuccessIsRecorded ==
  /\ \A j \in Stored : jobs[j].result <=> jobs[j].state = "ok"
  /\ \A c \in Commands : commands[c].at \in {"served", "succeeded"} => jobs[commands[c].job].result

\* "args-hash-uniqueness-dedupes-identical-jobs": the commands that ask for it
\* have one job between them at any time.
DedupersShareAJob == Cardinality(Stored \cap Dedupers) <= 1

\* Recovery "avoids erroring active jobs", as far as they are active for less
\* than an hour: a job that is executed is not recorded as failed before.
YoungRunsAreSpared ==
  \A c \in Commands : commands[c].at = "executing" /\ ~jobs[c].aged =>
    jobs[c].state \in {"running", "canceled", "deleted"}

\* Whoever waits for a duplicate comes back, also when the command that ran it is
\* gone, unless its job was left behind in the queue by a command that went away
\* before it had started it: nothing recovers queued jobs.
WaitersComeBack ==
  \A c \in Dedupers : commands[c].at = "waiting" ~>
    \/ commands[c].at # "waiting"
    \/ LET j == commands[c].job IN jobs[j].state = "queued" /\ commands[j].at = "failed"

\* The store and its commands at any time.
JobsSafe == JobTypeOK /\ SuccessIsRecorded /\ DedupersShareAJob /\ YoungRunsAreSpared
=============================================================================
