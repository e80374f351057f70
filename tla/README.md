# foxctl in TLA+

Specifications of the parts of foxctl that several processes, callbacks or
machines share, model-checked with TLC and proved with TLAPS. `PROJECT.json`
lists the runs, what each definition translates and what is proved.

## 1. The system

foxctl is a command line tool and a daemon that run agents and skills, keep
their queues, sessions, memories and rooms in SQL stores (SQLite, Turso or
Postgres), and reach terminals through a broker of its own, foxprox. What it
keeps, who changes it, and what is hard about it:

| Component | State | Operations | What is hard | What makes it correct |
|---|---|---|---|---|
| **Durable job queue** `internal/storage/queue` | one row per key: state, attempts, times | EnqueueBatch, ClaimNext, Complete, Fail, RequeueStaleRunning, Cleanup, Purge | workers in other processes crash, are slow, report late; recovery and Fail take several statements | ended jobs stay ended; every job ends; a job is given up only when its attempts are used up |
| **foxprox input leases** `foxprox/broker/lease` | lease by id, lease by terminal, a timer each | Acquire, Release, timer, Stop, finalize | timers, preemption and Stop race for one lease; finalizing happens after the lock | one holder per terminal; a lease ends once, and ends |
| **foxprox intents and router** `foxprox/broker` | the text on each prompt, the calls under way | Submit, Paste, Send with four policies | a lease is checked once and used later; waiting outlasts it | what is submitted is what one producer wrote; Send returns |
| **foxprox rooms** `foxprox/broker/room`, `storage` | members in memory, index by session, rows | JoinRoom, LeaveRoom, detach by watcher and by DeleteSession, reaper, restart | memory changes under a lock, the row is written after it, or not | memory and index agree; a row differs, and a member outlives its session, only for a cause |
| **foxprox output log** `foxprox/broker/session` | chunks, subscribers | Append, SubscribeFrom, cancel, Close | notified after the lock; full subscribers drop | each chunk once, in order; no gap goes uncounted |
| **Runtime workers** `internal/v2/adapters/goruntime`, `internal/v2/runtime/workers` | event queue, record per worker, process registry | Spawn, waiter, log and heartbeat publishers, SignalWorker, state component, restart | a bounded queue that refuses, late events, processes that outlive the host | a record closes once, for good, and says what happened |
| **Daemon leader lease** `internal/runtime/daemon`, `internal/storage/coordination` | one row: owner and expiry; flag and workers per daemon | lease loop, transitionLeader, Shutdown, crash | clocks of several machines, lost answers, steps that take time | workers run on one machine at a time, and on one eventually |
| **Mailbox** `internal/storage/mailbox` | message with visibility time and attempt | Send, Poll, Ack, Nack | leases without a token: Ack and Nack name only the message | a message is removed only when it has been worked on |
| **Actor system** `internal/runtime/actor` | notification rows, wake-up channel, actors, goroutines | insert trigger, watcher, HandleWakeUp, directives, restart, Register, Stop | wake-ups are lost and repeated; every way out must free the actor | one handler per mailbox; no actor is wedged; at-least-once |
| **Agent daemon** `internal/agent/daemon` | batch in hand, dedupe store, agent record | poll tick, mark, ack, nack, stop, start | a batch under one lease, two processes for one agent, crashes between working, marking and acking | a repetition has a cause; nothing is dropped or left lying |
| **Jobs** `internal/storage/jobs`, `runtime/jobs` | row of a job | prepare, dedupe, execute, cancel, rm, wait, recover | results after cancellations; recovery of live jobs; duplicates wait for others | an end stands; who is told of a success finds it recorded |
| **Circuit breaker** `runtime/execution/circuitbreaker` | state, counters | Allow, RecordSuccess, RecordFailure, Reset | late results in half-open; slots that are never freed | healthy when closed; never stuck half-open |
| **WFQ scheduler** `runtime/execution/scheduler` | virtual times, heap, work channel | Enqueue, SetWeight, dispatch, Start, Stop | jobs put back; weights that change | shares follow weights; no job lost or doubled |
| **Refresh queue** `interfaces/web/api` | call in flight, last result, per workspace | Enqueue | joiners depend on the leader; results reused | an answer is no older than promised |
| **Orchestration** `v2/runtime/orchestration`, `v2/adapters/jido`, `v2/adapters/turso`, `web/api` | events, board of cards, applied requests; children of the runtime | recover, reconcile, list, dispatch; card actions, replay | a child is spawned, its start appended, and then projected; ids start anew with the process; cards are read and later overwritten | two children work on an issue only for a cause; a run that is over does not stand for ever |
| Quotas `runtime/execution/quotas` | consumption | check, record | check then record | limits |
| Flow engine `runtime/flow` | run of a graph of nodes | Start, Pause, Stop, SubmitOutput | nodes run concurrently | a node runs after what it needs, once |
| Room loop `cmd/foxctl` | delivery lease, deliveries | renew, deliver | delivers what it gathered under an older renewal | one owner delivers |

Those in bold are modelled. They interact by calls within a process (router →
leases, broker → rooms → store, host → state component → registry), by callbacks
(timers, session watchers, process waiters, triggers), and between processes
through rows of a store (queue, jobs, mailbox, worker registry, daemon lease).
The mailbox has two kinds of readers, the actor system and the agent daemon,
which differ in what they do between Poll and Ack; both are shown to implement
the same promise.

## 2. The modules

| Module | Models | Implements | Checked by | Proved in |
|---|---|---|---|---|
| `WorkQueue` | `storage/queue/store.go` | `JobLifecycle` | `MCWorkQueue` | `WorkQueueProofs` |
| `InputLease` | `broker/lease/lease.go` | `LeaseTerms` | `MCTerminalInput` | `InputLeaseProofs` |
| `TerminalInput` (EXTENDS `InputLease`) | `broker/broker.go`, `broker/router/router.go` | steps of `InputLease` | `MCTerminalInput`, `MCInputOverseer` | `InputLeaseProofs` |
| `RoomMembership` | `broker/room/room.go`, `broker.go`, `session/manager.go`, SQLite rows | `Memberships` | `MCRoomMembership` | `RoomMembershipProofs` |
| `RuntimeWorkers` | spawner, state component, signaler, registry, host | `WorkerRecords` | `MCRuntimeWorkers` | `RuntimeWorkersProofs` |
| `DaemonLeader` | `daemon/service.go`, `coordination/store.go` | | `MCDaemonLeader` | `DaemonProofs` |
| `ActorSystem` | `runtime/actor`, `storage/mailbox` | `Delivery` | `MCActorSystem` | `ActorSystemProofs` |
| `AgentDaemon` | `agent/daemon`, `storage/mailbox` | `Delivery` | `MCAgentDaemon` | `AgentDaemonProofs` |
| `CircuitBreaker` | `circuitbreaker/breaker.go` | | `MCMachines` | `MachinesProofs` |
| `FairScheduler` | `scheduler/wfq.go` | | `MCMachines` | `MachinesProofs` |
| `JobStore` | `storage/jobs`, `runtime/jobs/executor`, `runtime/runservice` | | `MCMachines` | `MachinesProofs` |
| `RefreshQueue` | `inMemoryRefreshQueue` of `web/api/orchestration.go` | | `MCMachines` | `MachinesProofs` |
| `OutputLog` | `session/outputlog.go`, `session/subscriber.go` | | `MCMachines` | `MachinesProofs` |
| `Orchestration` | the overseer's component, scheduler and candidate source, jido reconciler and spawner, event store, board, card actions | | `MCInputOverseer` | `DaemonProofs` |

How code and model correspond:

* **One SQL statement, or one critical section, is one step.** The stores execute
  a statement atomically and a mutex a section. Where the code reads, lets go and
  writes, the model has two steps (`FailRead`/`FailWrite`, `JoinCheck`/`JoinBind`/
  the save, `CheckLease` and the two writes of a Submit, `AnnounceStop`/`Send`,
  `AppendChunk`/`Notify`, `ReadClock`/`Join`).
* **Time** is counted down in ticks: a deadline is the distance to it. `Tick` is a
  step that changes every countdown; what must happen in time (a worker in
  punctual runs, a step of a daemon) holds the tick back. Nothing else depends on
  the length of a tick.
* **Crashes** lose what a process keeps in memory and leave the rows.
* Operators marked `Slip` are the mistakes that the mutants put in place of the
  definition after them; no specification uses them.

`WorkQueue`: `jobs` is the table, `workers` what each worker process remembers of
the row it claimed. `JobLifecycle` is what the queue promises: one job per key,
which runs, is put back, is done or dead. The mapping `Board` forgets times and
priorities. In punctual runs no worker holds a job for longer than `StaleAfter`.
Recovery is something a worker may do: the embedding worker does it only when told
to by `recover_stale_after_seconds`, the summary worker never.

`InputLease`: `leases`, `byKey`, `byID` are the manager, `finalizing` the leases
taken from the maps whose `finalize` is still to run, `producers` the calls.
`LeaseTerms` says: at most one standing lease per terminal, and what ended stays
ended, for the reason it ended. `TerminalInput` adds what is typed on each
terminal's prompt and the router, a producer of the lease manager like any client.

`RoomMembership`: `members` and `boundTo` are the maps of the room manager, `rows`
the store, `sessions` and `registered` the sessions and their registry,
`detachers` the two that detach (watcher, DeleteSession). Every save may fail, be
refused by a unique index or find that the row of its end was written before it;
calls, the ends of sessions and restarts overlap as they like. `mishaps` is a history
of what went wrong with the writes of each membership, and of joins that came late,
since the broker started. `Memberships` says: a
membership begins once, ends once, and shares neither its session nor its agent
in the room with another.

`RuntimeWorkers`: `queue` is the channel of the state component, `mem` its
records, `store` the registry, `proc` the processes, `call`, `talk`, `signal`,
`cancel`, `entry` the goroutines of a spawn and the process registry.
`WorkerRecords` says: a record that closed stays closed, and only closes with
what its process did (or as failed by a host that did not find it).

`DaemonLeader`: `lease` is the row, `step` and `wait` say where the service of a
machine is and within what time that ends, `reading` is the clock it read for the
statement under way, less the present. A statement and its answer are two steps,
and so are the start and the end of starting or stopping the workers. `working`
is TRUE from the moment a worker may run until all have been waited for. `lacking`
remembers that some worker did not start: `isLeader` is set by then, and the rounds
that follow find nothing changed and do not try again.

`ActorSystem`: `mail` is the mailbox table, `noted` the notification rows by
mailbox, `watcher` the scan under way, `wakes` the channel; `handler` says where
each wake-up goroutine is, and whether the actor it works for is still the
registered one (`own`). `Stop` cancels the context before it waits, so every
store call of a handler that is at work then fails (`StoreFails`).

`AgentDaemon`: `rows` is the mailbox table, `processed` the dedupe store,
`daemons` the poll loops with the rest of their batch. `worked`, `unmarked` and
`overlaps` are histories: they count successes, successes that were never marked,
and polls that took a message another batch still held. Which visible messages a
poll takes is left open, as timestamps are the senders'.

`Delivery` is the promise of both: a message is sent, completed, and only then
removed.

`Orchestration`: `cards` is the board, by which alone the overseer decides,
`projected` the applied requests, `ids` and `behind` the event store, of which only
the reconciler's ids and the events that are not projected matter. `children` is
what the runtime lists, `phase`, `work` and `hand` are the cycle and the event being
recorded, `desk` is a card action between its reading and its writing. A dispatch
is a number, as its request, run and agent ids are counters of the process.
`causes` is a history.

`JobStore`: `jobs` are the rows, `commands` the `foxctl run` processes. All
commands have the same skill and input, so that all of them meet.
`FairScheduler` measures costs in `Unit`s divided by weights; `share` is a history
of what namespaces were given while both had jobs. `RefreshQueue` numbers the
refreshes and counts time by the last one whose window has passed. `OutputLog`
lets eviction by bytes keep any suffix that `MaxChunks` allows. `CircuitBreaker`
tells probes from late results by the half-open period in which they began.

## 3. The runs

| Run | Question | Bounds |
|---|---|---|
| `wq_safety` | attempts identify claims, implements `JobLifecycle` | 2 keys, 2 workers, 3 claims, 2 batches, retry limit 2: a stolen job, its late report and its next claim all fit |
| `wq_live` | with punctual workers no live job is stolen, extra attempts are crashes; every job ends or is stranded by a crash, and ends where stale jobs are recovered | 2 keys, 2 workers, 4 claims, 1 crash |
| `ti_any` | lease maps in step, each lease ends, `LeaseTerms` under broker and router; every Send returns | 1 terminal, a client and the router, all policies, 2 leases |
| `ti_polite` | without preemption and queueing, what is submitted is one producer's, and the router holds its lease. Or: two children on one issue have a cause, and a run that is over stands for ever only if its end is taken for another's | 2 clients and the router, 3 leases; 2 issues, 2 dispatches, 1 retry, 1 setback (restart, failing call, lost child or action of the user, who acts on one of the issues) |
| `ov_lost` (violation) | a missing child's card goes to retry or blocked | 1 issue, 2 dispatches, no retry, 3 setbacks: enough to lose two children, with a release by the user between |
| `rm` | index follows the rows; who stays on an ended session joined late; store and memory differ only where a write went wrong; DeleteSession is durable; implements `Memberships` | 2 callers, 2 sessions, 2 agents, 2 joins, failing store, 1 restart, at any point; after it, one call at a time |
| `rw_safety` | implements `WorkerRecords` | 2 workers, queue of 2, failing store, 1 chunk, 1 signal, 1 restart |
| `dl_lease` | workers overlap only at a shutdown; some daemon leads again | 2 machines, TTL 10, interval 1, lag 1, skew 1, 3 faults |
| `ac_mail` | one handler per mailbox, no wedged actor, no needless reply, implements `Delivery`, what nothing interferes with is handled | 2 messages of one actor, 2 goroutines, a channel of one, lease and nack of 1 tick, 1 restart allowed, 1 mishap |
| `ac_starved` (violation) | "Actor busy, will poll when done" | 2 messages of one actor |
| `agent` | repetitions have causes, implements `Delivery`, stopped agents end, nothing is left lying | 2 processes, 2 messages, one with a TTL, batches of 2, 2 attempts, 1 setback |
| `machines` | breaker, scheduler, job store, refresh queue and output log | see `Machines.cfg`: 3 callers, 5 jobs of 2 namespaces, 3 commands of which 2 deduplicate, 2 faults, 2 clients and 3 refreshes, 2 viewers and 3 chunks |

Bounds count calls and faults, never what a call may do, so every kind of step
happens in some run; a third key, producer or machine adds only copies of what
two already do to each other. The lease of `dl_lease` is the shortest that is
long enough for its lag and skew.

`machines` explores five components that have nothing to do with one another:
`MCMachines` picks one in the initial state and lets only it move, so the run is
the sum of five small ones. Their safety invariants are `BreakerSafe`,
`SchedulerSafe`, `JobsSafe`, `RefreshSafe` and `LogSafe`, each a conjunction of
the named properties above it in its module; `QueueDrains`, `EndsStand`,
`WaitersComeBack` and `JoinersReturn` are the action and liveness properties.
In the same way `MCInputOverseer` picks the terminal's input or the overseer for
`ti_polite`. Its 8 events of one process are more than the overseer comes to number
there, so that bound cuts nothing off. Three setbacks with a second issue would be too
large; `Runs.cfg`, below, takes one issue through them.

The type invariants, and what follows from them alone, are not in the runs: they
are proved for all values of the constants (section 4).

Two runs end in a counterexample, each against a sentence of the repository that
`PROJECT.json` quotes under `findings`:

* **`ac_starved`.** A wake-up that finds its actor busy, or its goroutine not yet
  ended, is consumed; its notification row is deleted; and no code polls again
  when the actor is done. `BusyActorPolls` asks it only of a message for which such
  a wake-up is at the head of the channel while the actor is at work on another: the
  message stays until a third comes. `QuietIsHandled` is what does hold: a message
  nothing interferes with is handled. (Nor does anything wake for a message whose
  lease lapsed or whose nack ran out, for one that was sent before the trigger
  existed, or for one whose Poll failed; these are outside both properties.)
* **`ov_lost`.** An issue loses its child, the user has it retried, and the second
  child is lost as well. syntheticMissingChild has no request id, so both ends are
  recorded as `<issue>:terminal:failed`; the projection ignores the second, and
  every later one, as a repetition, and the card runs for ever, although
  `src/docs/plans/features/durable-execution-recovery.md:381-383` says that a restart
  recovers it. `RunsEnd` is what holds, and names this case (`EndRepeats`): it is the
  only way for a card to show for ever a run that is over.

More configurations are kept beside the runs. Most refute what a sentence of the
repository says, at a place where a run checks the weaker statement that holds:

| Configuration | Property | Outcome |
|---|---|---|
| `ActorStop.cfg` with `MCActorSystem` | `StopIsFinal` | Refuted: the state a stop directive sets is overwritten by the deferred `SetState(StateIdle)` (supervisor.go:397), and the actor takes the next message. actor.go:50: "DirectiveStop stops the actor permanently." |
| `LeaderShutdown.cfg` with `MCDaemonLeader` | `SingleLeader` | Refuted: `Shutdown` deletes the row before its workers have stopped (service.go:584), and another machine starts its own. service.go:526: "only one machine mutates shared state at a time." `OverlapOnlyAtShutdown` is what holds. With `TTL = 3`, `Lag = 3` and no shutdown, a renewal as long as the lease violates `SingleLeader` too |
| `TerminalPreempted.cfg` with `MCTerminalInput` | `SubmissionsIntact` | Refuted: a preemption between the two writes of a Submit puts two texts on one line (broker.go:534). ATCP-v0.1.md:67: "two producers cannot type over one another." It holds where nobody preempts (`ti_polite`) |
| `TerminalQueue.cfg` with `MCTerminalInput` | `RouterHoldsItsLease` | Refuted: the queue policy waits up to 30 s under a lease of 2 s (router.go:335) and goes on to a delivery that is refused. router.go:47-49: "the TTL is only a safety net for caller crashes." |
| `RoomLateJoin.cfg` with `MCRoomMembership` | `DeadSessionsLeave` | Refuted: a join binds a session that ended since it was looked up (broker.go:263), and nothing lets the member go. broker.go:402: "Detach runs on *every* exit path". `OnlyLateJoinsStay` is what holds |
| `RoomStale.cfg` with `MCRoomMembership` | `StoreAgrees` | Refuted: the write of a join lands after that of its end (broker.go:270). storage.go:43-46: "implementations only need to ensure the row ends up in the right state." `DivergenceHasCause` is what holds |
| `WorkersFull.cfg` with `MCRuntimeWorkers` | `EndRecorded` | Refuted: the last event of a process is refused by a full queue (and, with a queue of 9 and one restart instead, a process outlives its host). No text claims it; `HeardEndsAreRecorded` makes it precise |
| `WorkersRoomy.cfg` with `MCRuntimeWorkers` | `EndRecorded`, `EndsAreRecorded` | Hold, with room for every event, no failure and no restart (247,124 states) |
| `Runs.cfg` with `Orchestration` | `RunsEnd` | Holds for one issue with 3 setbacks, `ov_lost`'s bounds (1.6 million states, over three minutes) |

Seen while modelling, and in the models as it is: `ContextEnds` leaves the WFQ
scheduler taking itself for running, so a later `Start` does nothing; a failing
`Ack` after a sent reply is followed by a second reply, and `Stop` makes every
`Ack` of a handler at work fail; a daemon that enters its loop overwrites a stop
that came since it loaded (`StoppedAgentsEnd` allows for it); `RecoverStaleJobs`
fails a live job after an hour, though runservice/jobs.go:53-56 says it "avoids
erroring active jobs" (`YoungRunsAreSpared` is what holds); a job whose command
died before it started stays queued for ever, and so do those who wait for it
(`WaitersComeBack` allows for it); a panic in a refresh leaves it in flight
(`JoinersReturn`), and one in a probe keeps its slot (`NotWedged`). Outside the
models: the replies of `handleAsk` carry their visibility time in milliseconds
(handlers.go:154), which Poll compares in seconds, so no poll returns them.

### Fairness

* `WorkQueue`: time passes; a worker polls in a loop (strong fairness on its claim, for another worker may take the
  row each time) and ends what it claimed unless it crashes. Nobody need call
  `RequeueStaleRunning`, which store.go:377-381 makes opt-in: `EveryJobFinishes`
  allows for the job a crash leaves running, and `RecoveredJobsFinish` has the
  recovery as its hypothesis.
* `InputLease`, `TerminalInput`: time passes, a timer that ran out fires, and a
  `finalize` that was begun ends; the router's goroutine runs. Clients are under
  no obligation.
* `RuntimeWorkers`: the goroutines of the host run. Processes need not end.
* `DaemonLeader`: time passes, services are started again, their steps end; faults,
  failing starts of workers among them, come to an end. A
  loop whose context is cancelled finds so at every round in a `select` that may
  pick the ticker instead: strong fairness says it does not pick it for ever.
* `ActorSystem`: time passes, the watcher's ticker ticks, goroutines run and
  handlers return (an agent's turn has a timeout), and somebody starts the system.
* `AgentDaemon`: time passes, and a process that runs goes on. Nobody need start,
  stop or send anything.
* `Orchestration`: the overseer's loop goes on, which its ticker sees to, a retry
  falls due and the grace of a young run ends. Children need not end and users
  need do nothing; a restart is followed by another process.
* `FairScheduler`: the ticker ticks and the workers work. `JobStore`: a command
  goes on unless it dies, time passes, and somebody opens the store now and then,
  which recovers stale jobs. `RefreshQueue`: a callback returns or panics.

## 4. The proofs

All theorems hold for any values of the constants that meet the assumptions of
the modules (`...Assumption`), which TLC evaluates in the runs.

| Theorem | Says | Argument |
|---|---|---|
| `WorkQueueProofs!TypeCorrect` | table and workers keep their types | inductive |
| `WorkQueueProofs!Fencing` | two claims of a row never carry the same attempt | attempts of a row only grow, and every claim a worker remembers is at most the row's |
| `WorkQueueProofs!GivenUpWhenExhausted` | Fail gives up only exhausted jobs | what Fail read bounds the row's attempts from below |
| `WorkQueueProofs!EndedStaysEnded`, `Refinement` | ended jobs stay ended; implements `JobLifecycle` | each action is a step of the lifecycle or stutters |
| `WorkQueueProofs!NotStolen`, `CrashesPay` | for punctual workers | the age of a held row is bounded by its worker's time |
| `InputLeaseProofs!TypeCorrect`, `MapsInStep`, `FinalizedOnce` | the manager's maps and leases | `LeaseInv`: ids are handed out in order and only issued leases are finalized |
| `InputLeaseProofs!Refinement` | implements `LeaseTerms` | |
| `InputLeaseProofs!OnlyThroughTheManager`, `UnderTheRouter` | the broker and its router only take steps of the manager, so all of this holds under them | each action of `TerminalInput` is one of `InputLease` or leaves its variables alone |
| `InputLeaseProofs!SubmissionsStayIntact`, `RouterKeepsItsLease` | if leases outlast what is done under them (`Patient`), nobody preempts and no policy queues: a submit sends its producer's own text, and the router has its lease while it sends | `TerminalInv`: whoever composes has a lease with time left and is the only one to have typed on that prompt; two who hold, hold two leases; the router's phase says which terminal it is at |
| `RoomMembershipProofs!TypeCorrect`, `IndexHolds` | index and rows in memory | members are numbered in order of joining; one active membership per session and agent |
| `RoomMembershipProofs!Refinement` | implements `Memberships`, however calls and writes overlap | a start ends what it loaded before it serves |
| `RoomMembershipProofs!DeadLeave` | a session that ended and was watched keeps nobody but who joined it late | `ExitInv`: a running session has its watcher, and the detach under way has already let its member go |
| `RoomMembershipProofs!StoreSettles`, `DeletedForGood` | whatever the store does and however calls overlap: at rest a row differs from memory only where a write of that membership was lost, refused or overtaken; a deleted session has an active row only for that cause, of a late join, or of a leave still saving | `StoreInv`: a row differs from memory only while a call or a detach is to write what memory holds, or for good, because a write of that membership went wrong; no write on its way ends what memory keeps |
| `RuntimeWorkersProofs!TypeCorrect` | host, queue and records | |
| `RuntimeWorkersProofs!Refinement` | where every request names its agent, implements `WorkerRecords` | `IInv`: a closing event in the queue is the only one of its worker and true of its process, and none is queued while a host's record is closed |
| `RuntimeWorkersProofs!HeardEndsAreRecorded` | `EndRecorded`, which `WorkersFull.cfg` refutes in general, holds while the host goes on and nothing it publishes about a process is refused (`Heard`), whatever the capacity and however names are shared | a reported end is recorded, or still queued, or the store has failed and nothing consumes any more |
| `DaemonProofs!TypeCorrect` | row, clocks, services | a clock that was read is at most as old as its statement |
| `DaemonProofs!Overlap`, `OneLeader` | workers overlap only at a shutdown; never if services are only killed | `KeptInv`: at each point of the loop more of the lease is left than the daemon may still need. It holds if `TTL > Interval + 6 Lag + 2 Skew`; TLC refutes it at equality, so the bound is exact |
| `DaemonProofs!StraysAreCaused` | live children of an issue that its card does not show have a cause each, for any issues, dispatches and setbacks | not inductive alone: each event still to be recorded on a card may make it show another child and leave one behind. `Booked` counts ahead: live children not being recorded, the card's own included, and events to come are at most one more than the causes. Listing an issue keeps that because its card shows no live child, or the second listing is a cause |
| `ActorSystemProofs!TypeCorrect`, `ProcessingIsSequential`, `ActorsComeBack` | one goroutine per mailbox; who is busy has one at work | a mailbox is in `processing` exactly while a goroutine has it, and `own` says which goroutine the registered actor belongs to |
| `ActorSystemProofs!RepliesTakeMishaps` | a message is handled at most once more than there were mishaps | one goroutine at most can still add to what a row's message was handled, and what it adds that leaves the row in place is paid for |
| `ActorSystemProofs!DeliversAtLeastOnce` | implements `Delivery` | a goroutine past its handler has a completed message |
| `AgentDaemonProofs!DaemonTypeCorrect`, `WorkedAgainForCause` | repetitions have causes | the successes of a message that was never overlapped are marked, unmarked, or in one hand |
| `AgentDaemonProofs!DaemonAtLeastOnce` | implements `Delivery`, with any number of processes | marked messages were worked |
| `MachinesProofs!BreakerIsSafe` (`BreakerHeals`, `HalfOpenHasAWayOut`) | healthy when closed, slots bounded, never stuck half-open | in half-open, slots taken = probes running + successes counted for this period, as far as no probe was lost |
| `MachinesProofs!SchedulerIsSafe` | no job is lost or executed twice; namespaces that both have jobs get their shares | in virtual time the queued jobs of a namespace lie in a row without a gap; the first begins less than `Unit` before the clock and no later than it, and executing it moves the row by what was given |
| `MachinesProofs!JobsAreSafe`, `JobEndsStand` | who is told of a success finds it; an end stands | a command writes to no row but that of its own job, and to none once it waits for another's |
| `MachinesProofs!RefreshIsSafe` | one refresh at a time; no answer is older than promised | runs, their windows and the readings of the clock are in one order |
| `MachinesProofs!LogIsSafe` | chunks once and in order; drops are counted | what a subscriber was shown is an interval from its start, each chunk of it received, queued or dropped, in order |

In the code the lease of the daemon's row is 45 s and the interval 15 s, so
`Overlap` applies as long as six times what a statement or the workers' start or
stop takes, and twice the skew of the clocks, stay under 30 s. The code enforces
neither.

The conditions are those of the runs, and each is needed. `SubmissionsStayIntact`
fails with preemption (`TerminalPreempted.cfg`) and with a policy that queues, for
the router's lease may then be used up when the prompt becomes ready; the code
keeps `Patient` by a TTL of seconds for writes of milliseconds, and enforces it
nowhere. The theorems about rooms have no such condition: what the code
does not keep is named in them. The scheduler's shares assume that
a cost is at most `Unit`, the cost at weight one, which the code's division gives.

Only model-checked: all liveness properties (TLAPS has no rules for fairness
that these backends handle; `HeardEndsAreRecorded` is the safety half of
`EndsAreRecorded`, which `WorkersRoomy.cfg` shows), and the counterexamples. Every safety invariant and
every action property of a passing run is a theorem.

## 5. What the models leave out

* `WorkQueue`: payloads, and the retention of more than the keys in use.
* `InputLease`: scopes other than the one the broker uses.
* `TerminalInput`: single keys and raw bytes, readiness inference (a terminal is
  ready when it says so), waiting for agents' replies.
* `RoomMembership`: creating and archiving rooms, the message audit.
* `RuntimeWorkers`: what a record says besides status and pid; the agent records
  of ManagedAgentSpawner.
* `DaemonLeader`: the local-only store, under which every daemon leads; a store
  that cannot be opened; what each worker does. stopContextUpdater
  (service.go:1348-1370) tells its goroutine to stop and does not wait for it, so a last
  round of it may outlast `working`, and `Overlap` does not speak of that round.
* `ActorSystem`: timers, events, the trajectory, rows older than a retention.
* `AgentDaemon`: the end of processed marks, which a start deletes after seven days
  (daemon.go:663), so that a message which was marked, not acked, and left until then is
  worked on again; scheduled thinking and autonomous turns, which take no message;
  cancelling a console ask; what a handler does before it succeeds or fails.
* `JobStore`: files beyond whether they could be written, progress, jobs with other
  inputs, which share nothing with these. FindOrInsertJob is one step, which holds
  for the default SQLite driver, one writer at a time, whose busy error is not modelled;
  under Postgres's default isolation its SELECT and INSERT (persist/store.go:328-383) may
  interleave with another's, for the index on args_hash (406) is not unique.
* `RefreshQueue`, `FairScheduler`, `OutputLog`, `CircuitBreaker`: statistics.

* `Orchestration`: dispatching and reconciling by the web API, whose reconcilers
  number their events from one again and so mostly fail; several overseers; an
  action that is appended and not applied; archived cards; the Claimed state, which no
  event sets; more than the 10 dispatches of a tick; the goruntime backend, where
  nothing calls SpawnResultCallback, so that a dispatched card stays in Todo and is
  dispatched at each poll.

Not modelled: the flow engine, quotas and the room
loop (section 1; they have a protocol and are in the plan); the stores with
single-statement operations, the content store and caches, context retrieval,
memory and intelligence, the language-model loop, authentication, the interfaces
and the catalogues of tools and skills, which hold no protocol of several steps,
or are I/O and data processing. `PROJECT.json` names them one by one. These make
up most of the repository's lines: its protocols are in a small part of it.

## 6. Plan

1. Proofs: submissions of clients where the router may queue; which causes the
   goruntime backend would add to `StraysHaveCauses`.
2. `Orchestration` with the goruntime backend over `RuntimeWorkers`; an abstract
   life of an issue for it to implement.
3. `FlowEngine`; the room loop over `DaemonLeader`'s row.
