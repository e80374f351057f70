--------------------------- MODULE RuntimeWorkers ---------------------------
(***************************************************************************)
(* The subprocess runtime host: spawn calls start child processes and      *)
(* publish what they see of them into a bounded queue; one goroutine, the  *)
(* state component, applies the events and writes each worker's record to  *)
(* the registry.  A host that starts again reattaches to the workers the   *)
(* registry shows as active.                                               *)
(*                                                                         *)
(* A publisher that finds the queue full waits 25 ms for room: a step that *)
(* publishes happens when there is room, or is refused while there is none.*)
(* What a record says besides status and pid is left out.                  *)
(***************************************************************************)
EXTENDS Naturals, Sequences

CONSTANTS
  Dispatches,   \* calls of Spawn, each with the one process it may start
  Named,        \* those whose request names an agent, each another
  Generated,    \* the agent id the others get
  NoProcess,    \* no pid, no entry
  Capacity,     \* buffer of the event queue
  StoreMayFail, \* whether a write to the registry may fail
  MaxTalk,      \* bound: log chunks and heartbeats
  MaxSignals,   \* bound: calls of SignalWorker
  MaxRestarts   \* bound: ends of the host

ASSUME RuntimeWorkersAssumption ==
  /\ Named \subseteq Dispatches
  /\ Generated \notin Dispatches /\ NoProcess \notin Dispatches
  /\ Capacity \in Nat \ {0}
  /\ StoreMayFail \in BOOLEAN
  /\ MaxTalk \in Nat /\ MaxSignals \in Nat /\ MaxRestarts \in Nat

\* Each call of Spawn makes a service whose id generator starts over.
WorkerOf(d) == IF d \in Named THEN d ELSE Generated
Workers == {WorkerOf(d) : d \in Dispatches}

Active == {"starting", "running", "stopping"}
Terminal == {"completed", "failed", "cancelled"}
Statuses == {"pending"} \cup Active \cup Terminal
Pids == Dispatches \cup {NoProcess}

Row == [status: Statuses \cup {"none"}, pid: Pids]
Event == [worker: Workers, status: Statuses, pid: Pids]
NoRow == [status |-> "none", pid |-> NoProcess]

VARIABLES
  mode,    \* of the host: "down", "reattaching", "running", "closed", or why it stopped consuming: "stalled", "failed"
  queue,   \* events published and not yet applied
  mem,     \* mem[w]: the state component's record of w
  store,   \* store[w]: the registry's row of w
  todo,    \* todo[w]: the row of an active worker the host has still to reattach
  midway,  \* workers whose row reattaching has published, and whose process it has still to look for
  call,    \* call[d]: where d's spawn, and then its waiter, got
  proc,    \* proc[d]: "none", "alive", "ok", "error"
  beating, \* beating[d]: a heartbeat that passed its check is still to be published
  entry,   \* entry[w]: the process registered under w
  cancel,  \* cancel[d]: d's entry has cancelRequested set
  signal,  \* signal[d]: where a SignalWorker call about d's process got
  talk, signals, restarts  \* counters of what the bounds limit

hostVars == <<mode, mem, store, todo, midway>>
spawnVars == <<call, proc, beating>>
signalVars == <<cancel, signal, signals>>
vars == <<queue, hostVars, spawnVars, entry, signalVars, talk, restarts>>

Exited == {"ok", "error"}

Init ==
  /\ mode = "down"
  /\ queue = <<>>
  /\ mem = [w \in Workers |-> NoRow]
  /\ store = [w \in Workers |-> NoRow]
  /\ todo = [w \in Workers |-> NoRow]
  /\ midway = {}
  /\ call = [d \in Dispatches |-> "idle"]
  /\ proc = [d \in Dispatches |-> "none"]
  /\ beating = [d \in Dispatches |-> FALSE]
  /\ entry = [w \in Workers |-> NoProcess]
  /\ cancel = [d \in Dispatches |-> FALSE]
  /\ signal = [d \in Dispatches |-> "none"]
  /\ talk = 0 /\ signals = 0 /\ restarts = 0

-----------------------------------------------------------------------------
(* Publishing, and the goroutine that applies what is published. *)

Observation(w, s, p) == [worker |-> w, status |-> s, pid |-> p]

Publish(e) ==
  /\ mode # "closed" /\ Len(queue) < Capacity
  /\ queue' = Append(queue, e)

Refused ==
  /\ mode = "closed" \/ Len(queue) >= Capacity
  /\ UNCHANGED queue

\* The callers that ignore the error.
Offer(e) == Publish(e) \/ Refused

\* Slip: the latest event decides.
StatusAfterLatest(row, e) == e.status

\* A worker that ended stays so, unless the event ends it too.
StatusAfter(row, e) ==
  IF row.status \in Terminal /\ e.status \notin Terminal THEN row.status ELSE e.status

Merge(row, e) ==
  [status |-> StatusAfter(row, e), pid |-> IF e.pid # NoProcess THEN e.pid ELSE row.pid]

Apply ==
  /\ mode = "running" /\ queue # <<>>
  /\ queue' = Tail(queue)
  /\ LET e == Head(queue)
         row == Merge(mem[e.worker], e)
     IN /\ mem' = [mem EXCEPT ![e.worker] = row]
        /\ store' = [store EXCEPT ![e.worker] = row]
  /\ UNCHANGED <<mode, todo, midway, spawnVars, entry, signalVars, talk, restarts>>

\* Run returns the error; nothing consumes the queue from then on.
UpsertFails ==
  /\ StoreMayFail
  /\ mode = "running" /\ queue # <<>>
  /\ mode' = "failed"
  /\ queue' = Tail(queue)
  /\ UNCHANGED <<mem, store, todo, midway, spawnVars, entry, signalVars, talk, restarts>>

-----------------------------------------------------------------------------
(* SpawnChild, and the goroutines it leaves behind. *)

Hosted == mode # "down"

SetCall(d, c) == call' = [call EXCEPT ![d] = c]

Request(d) ==
  /\ Hosted /\ call[d] = "idle"
  /\ \/ Publish(Observation(WorkerOf(d), "pending", NoProcess)) /\ SetCall(d, "requested")
     \/ Refused /\ SetCall(d, "refused")
  /\ UNCHANGED <<hostVars, proc, beating, entry, signalVars, talk, restarts>>

StartFails(d) ==
  /\ call[d] = "requested"
  /\ Offer(Observation(WorkerOf(d), "failed", NoProcess))
  /\ SetCall(d, "refused")
  /\ UNCHANGED <<hostVars, proc, beating, entry, signalVars, talk, restarts>>

Start(d) ==
  /\ call[d] = "requested"
  /\ proc' = [proc EXCEPT ![d] = "alive"]
  /\ entry' = [entry EXCEPT ![WorkerOf(d)] = d]
  /\ SetCall(d, "started")
  /\ UNCHANGED <<queue, hostVars, beating, signalVars, talk, restarts>>

\* A refused publication ends the call with an error, and leaves a process nobody waits for.
Announce(d, from, status, to) ==
  /\ call[d] = from
  /\ \/ Publish(Observation(WorkerOf(d), status, d)) /\ SetCall(d, to)
     \/ Refused /\ SetCall(d, "abandoned")
  /\ UNCHANGED <<hostVars, proc, beating, entry, signalVars, talk, restarts>>

Spawned(d) == Announce(d, "started", "starting", "spawned")
Started(d) == Announce(d, "spawned", "running", "waited")

Exit(d) ==
  /\ proc[d] = "alive"
  /\ \E how \in Exited : proc' = [proc EXCEPT ![d] = how]
  /\ UNCHANGED <<queue, hostVars, call, beating, entry, signalVars, talk, restarts>>

\* The log streams are open from the start, before the worker is announced.
LogChunk(d) ==
  /\ call[d] \in {"started", "spawned", "waited", "abandoned"}
  /\ talk < MaxTalk /\ talk' = talk + 1
  /\ Offer(Observation(WorkerOf(d), "running", NoProcess))
  /\ UNCHANGED <<hostVars, spawnVars, entry, signalVars, restarts>>

HeartbeatDue(d) ==
  /\ call[d] \in {"waited", "reported"} /\ ~beating[d]
  /\ talk < MaxTalk /\ talk' = talk + 1
  /\ beating' = [beating EXCEPT ![d] = TRUE]
  /\ UNCHANGED <<queue, hostVars, call, proc, entry, signalVars, restarts>>

Heartbeat(d) ==
  /\ beating[d]
  /\ beating' = [beating EXCEPT ![d] = FALSE]
  /\ Offer(Observation(WorkerOf(d), "running", d))
  /\ UNCHANGED <<hostVars, call, proc, entry, signalVars, talk, restarts>>

Outcome(d) ==
  IF cancel[d] THEN "cancelled" ELSE IF proc[d] = "ok" THEN "completed" ELSE "failed"

\* The waiter, once the process has ended and its streams are read.
Report(d) ==
  /\ call[d] = "waited" /\ proc[d] \in Exited
  /\ Offer(Observation(WorkerOf(d), Outcome(d), d))
  /\ SetCall(d, "reported")
  /\ UNCHANGED <<hostVars, proc, beating, entry, signalVars, talk, restarts>>

\* Unregistering takes out whatever entry the worker has by then.
Unregister(d) ==
  /\ call[d] = "reported"
  /\ entry' = [entry EXCEPT ![WorkerOf(d)] = NoProcess]
  /\ SetCall(d, "ended")
  /\ UNCHANGED <<queue, hostVars, proc, beating, signalVars, talk, restarts>>

-----------------------------------------------------------------------------
(* SignalWorker, which looks the process up once and then works on its entry. *)

SetSignal(d, s) == signal' = [signal EXCEPT ![d] = s]

Mark(w) ==
  /\ Hosted /\ signals < MaxSignals
  /\ LET d == entry[w]
     IN /\ d # NoProcess /\ signal[d] = "none"
        /\ cancel' = [cancel EXCEPT ![d] = TRUE]
        /\ SetSignal(d, "marked")
  /\ signals' = signals + 1
  /\ UNCHANGED <<queue, hostVars, spawnVars, entry, talk, restarts>>

\* CancelRequested, then SignalSent; a refusal ends the call before the signal.
AnnounceStop(d, from, to) ==
  /\ signal[d] = from
  /\ \/ Publish(Observation(WorkerOf(d), "stopping", d)) /\ SetSignal(d, to)
     \/ Refused /\ SetSignal(d, "none")
  /\ UNCHANGED <<hostVars, spawnVars, entry, cancel, signals, talk, restarts>>

CancelRequested(d) == AnnounceStop(d, "marked", "announced")
SignalSent(d) == AnnounceStop(d, "announced", "sending")

\* The signal may end the process, or be handled, or find no process.
Send(d) ==
  /\ signal[d] = "sending"
  /\ SetSignal(d, "none")
  /\ \/ proc[d] = "alive" /\ proc' = [proc EXCEPT ![d] = "error"]
     \/ UNCHANGED proc
  /\ UNCHANGED <<queue, hostVars, call, beating, entry, cancel, signals, talk, restarts>>

-----------------------------------------------------------------------------
(* The host: start, reattaching, shutdown and end. *)

Startup ==
  /\ mode = "down"
  /\ mode' = "reattaching"
  /\ todo' = [w \in Workers |-> IF store[w].status \in Active THEN store[w] ELSE NoRow]
  /\ UNCHANGED <<queue, mem, store, midway, spawnVars, entry, signalVars, talk, restarts>>

\* Nobody consumes yet, so a full queue ends the host's Run for good.
Reattach(w) ==
  /\ mode = "reattaching" /\ midway = {} /\ todo[w] # NoRow
  /\ \/ /\ Publish(Observation(w, todo[w].status, todo[w].pid))
        /\ midway' = {w}
        /\ UNCHANGED mode
     \/ Refused /\ mode' = "stalled" /\ UNCHANGED midway
  /\ UNCHANGED <<mem, store, todo, spawnVars, entry, signalVars, talk, restarts>>

Lives(p) == p # NoProcess /\ proc[p] = "alive"

FoundDead(w) ==
  /\ ~Lives(todo[w].pid)
  /\ Publish(Observation(w, "failed", todo[w].pid))
  /\ UNCHANGED entry

FoundAlive(w) ==
  /\ Lives(todo[w].pid)
  /\ Publish(Observation(w, todo[w].status, todo[w].pid))
  /\ entry' = [entry EXCEPT ![w] = todo[w].pid]

Resolve(w) ==
  /\ mode = "reattaching" /\ w \in midway
  /\ \/ /\ FoundDead(w) \/ FoundAlive(w)
        /\ todo' = [todo EXCEPT ![w] = NoRow]
        /\ midway' = {}
        /\ UNCHANGED mode
     \/ /\ Refused
        /\ mode' = "stalled"
        /\ entry' = IF Lives(todo[w].pid) THEN [entry EXCEPT ![w] = todo[w].pid] ELSE entry
        /\ UNCHANGED <<todo, midway>>
  /\ UNCHANGED <<mem, store, spawnVars, signalVars, talk, restarts>>

Ready ==
  /\ mode = "reattaching"
  /\ \A w \in Workers : todo[w] = NoRow
  /\ mode' = "running"
  /\ UNCHANGED <<queue, mem, store, todo, midway, spawnVars, entry, signalVars, talk, restarts>>

\* The context of Run ends first; what the queue holds is never applied.
Close ==
  /\ mode = "running" /\ restarts < MaxRestarts
  /\ mode' = "closed"
  /\ UNCHANGED <<queue, mem, store, todo, midway, spawnVars, entry, signalVars, talk, restarts>>

Forgotten == {"requested", "started", "spawned", "waited", "reported", "abandoned"}

\* The host's process ends, with a shutdown or without; its children go on.
Down ==
  /\ Hosted /\ restarts < MaxRestarts
  /\ mode' = "down"
  /\ queue' = <<>>
  /\ mem' = [w \in Workers |-> NoRow]
  /\ todo' = [w \in Workers |-> NoRow]
  /\ midway' = {}
  /\ call' = [d \in Dispatches |-> IF call[d] \in Forgotten THEN "lost" ELSE call[d]]
  /\ beating' = [d \in Dispatches |-> FALSE]
  /\ entry' = [w \in Workers |-> NoProcess]
  /\ cancel' = [d \in Dispatches |-> FALSE]
  /\ signal' = [d \in Dispatches |-> "none"]
  /\ restarts' = restarts + 1
  /\ UNCHANGED <<store, proc, signals, talk>>

-----------------------------------------------------------------------------
SpawnStep(d) == Request(d) \/ StartFails(d) \/ Start(d) \/ Spawned(d) \/ Started(d)
WaiterStep(d) == Report(d) \/ Unregister(d)
TalkStep(d) == LogChunk(d) \/ HeartbeatDue(d) \/ Heartbeat(d)
SignalStep(d) == CancelRequested(d) \/ SignalSent(d) \/ Send(d)

Next ==
  \/ Apply \/ UpsertFails
  \/ Startup \/ Ready \/ Close \/ Down
  \/ \E d \in Dispatches : SpawnStep(d) \/ WaiterStep(d) \/ TalkStep(d) \/ SignalStep(d) \/ Exit(d)
  \/ \E w \in Workers : Mark(w) \/ Reattach(w) \/ Resolve(w)

Spec == Init /\ [][Next]_vars

\* The goroutines run.  Spawn calls, exits and signals come or do not.
Fairness ==
  /\ WF_vars(Apply) /\ WF_vars(Startup) /\ WF_vars(Ready)
  /\ \A d \in Dispatches : WF_vars(Spawned(d)) /\ WF_vars(Started(d)) /\ WF_vars(Report(d))

FairSpec == Spec /\ Fairness

-----------------------------------------------------------------------------
(* Properties. *)

\* Type invariant of the host, its queue, its workers and their processes.
TypeOK ==
  /\ mode \in {"down", "reattaching", "running", "closed", "stalled", "failed"}
  /\ queue \in Seq(Event) /\ Len(queue) <= Capacity
  /\ mem \in [Workers -> Row] /\ store \in [Workers -> Row] /\ todo \in [Workers -> Row]
  /\ midway \subseteq Workers
  /\ call \in [Dispatches -> {"idle", "refused", "ended", "lost"} \cup Forgotten]
  /\ proc \in [Dispatches -> {"none", "alive"} \cup Exited]
  /\ beating \in [Dispatches -> BOOLEAN]
  /\ entry \in [Workers -> Pids]
  /\ cancel \in [Dispatches -> BOOLEAN]
  /\ signal \in [Dispatches -> {"none", "marked", "announced", "sending"}]
  /\ talk \in 0..MaxTalk /\ signals \in 0..MaxSignals /\ restarts \in 0..MaxRestarts

\* When the host has nothing left to do about a process that ended, the
\* registry says so: every way SpawnChild, its waiter and the host may go.
Settled(d) ==
  /\ mode = "running" /\ queue = <<>>
  /\ call[d] \in {"ended", "abandoned", "lost"} /\ proc[d] \in Exited

EndRecorded ==
  \A d \in Dispatches : Settled(d) => store[WorkerOf(d)].status \in Terminal

\* The end of every process is recorded in the end.
EndsAreRecorded ==
  \A d \in Dispatches :
    proc[d] \in Exited ~> store[WorkerOf(d)].status \in Terminal

\* Per worker: the record closes once, for good, and says how its process ended.
Records == INSTANCE WorkerRecords WITH
  record <- [w \in Workers |-> store[w].status],
  process <- proc,
  asked <- cancel

ImplementsWorkerRecords == Records!Spec
=============================================================================
