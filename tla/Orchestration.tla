--------------------------- MODULE Orchestration ---------------------------
(***************************************************************************)
(* The overseer's orchestration loop (v2/runtime/orchestration) with the   *)
(* jido runtime behind it: every few seconds it ends the runs whose child  *)
(* has ended or is missing, and dispatches the issues that wait.  What     *)
(* happens to an issue is appended to the event store and then projected   *)
(* on its card, by which all decisions are made; a user acts on cards      *)
(* through the web API, which also replays the events.                     *)
(*                                                                         *)
(* A dispatch is a number, counted from the start of the process, that     *)
(* stands for its request, run and agent ids, as defaultSchedulerID and    *)
(* defaultIDGenerator count them; so does the reconciler count its events. *)
(* The event store refuses an id it has; the projection ignores a second   *)
(* event of one request about one issue.  The state of a card follows from *)
(* its lane, and that from the last event alone (DeriveLane).              *)
(***************************************************************************)
EXTENDS Naturals, Sequences, FiniteSets

CONSTANTS
  NumIssues,
  Handled,        \* the issues on whose cards the user acts
  MaxAttempts,    \* of the retry policy
  MaxDispatches,  \* bound: children asked for
  MaxEvents,      \* bound: events of one process
  MaxSetbacks     \* bound: restarts, calls that fail, children lost and actions of the user

ASSUME OrchestrationAssumption ==
  /\ NumIssues \in Nat \ {0} /\ Handled \subseteq 1..NumIssues /\ MaxAttempts \in Nat
  /\ MaxDispatches \in Nat /\ MaxEvents \in Nat /\ MaxSetbacks \in Nat

VARIABLES
  cards,       \* cards[i]: lane, run, attempt; whether its retry is due, its last event young
  ids,         \* ids of the reconciler's events in the store
  projected,   \* the issue and request of each event that was projected
  behind,      \* events of the store that were not, and would not be ignored
  children,    \* children[n]: what the runtime has under that name
  phase,       \* where the overseer's cycle is
  work,        \* what is left of that phase: ends, children or candidates
  hand,        \* the event being recorded
  serial,      \* events the reconciler has numbered
  dispatched,  \* dispatches the scheduler has numbered
  desk,        \* the user's action being recorded
  left,        \* what the bounds still allow
  causes       \* history: what may have put a second child to work on an issue

board == <<cards, ids, projected, behind>>
overseer == <<phase, work, hand, serial, dispatched>>
orchestrationVars == <<board, children, overseer, desk, left, causes>>
-----------------------------------------------------------------------------
Issues == 1..NumIssues
Runs == 1..MaxDispatches

\* The numbers of S in ascending order, as the one member of a set.
Ascending(S) ==
  {list \in [1..Cardinality(S) -> S] : \A k, l \in DOMAIN list : k < l => list[k] < list[l]}

Event(i, req, lane, run, attempt, due) ==
  [issue |-> i, req |-> req, lane |-> lane, run |-> run, attempt |-> attempt, due |-> due]

Nothing == [at |-> "empty", event |-> Event(0, <<"none", 0>>, "Todo", 0, 0, FALSE)]
Absent == [issue |-> 0, attempt |-> 0, status |-> "none"]

OrchestrationInit ==
  /\ cards = [i \in Issues |-> [lane |-> "Todo", run |-> 0, attempt |-> 0, due |-> FALSE, young |-> FALSE]]
  /\ ids = {} /\ projected = {} /\ behind = <<>>
  /\ children = [n \in Runs |-> Absent]
  /\ phase = "idle" /\ work = <<>> /\ hand = Nothing
  /\ serial = 0 /\ dispatched = 0
  /\ desk = Nothing
  /\ left = [dispatches |-> MaxDispatches, setbacks |-> MaxSetbacks]
  /\ causes = [i \in Issues |-> 0]

Setback == left.setbacks > 0 /\ left' = [left EXCEPT !.setbacks = @ - 1]
BlameIf(i, cond) == causes' = IF cond THEN [causes EXCEPT ![i] = @ + 1] ELSE causes

Running(i) == cards[i].lane = "Running"
IsRunOf(n, i) == Running(i) /\ cards[i].run = n
Listed(n) == children[n].status \notin {"none", "gone"}
Live(n) == children[n].status = "live"
\* matchRunningChild
HasChild(i) == cards[i].run \in Runs /\ Listed(cards[i].run) /\ children[cards[i].run].issue = i
Alive(i) == Running(i) /\ HasChild(i) /\ Live(cards[i].run)

-----------------------------------------------------------------------------
(* Stores.                                                                 *)

Key(e) == <<e.issue, e.req>>
Ignored(e) == Key(e) \in projected

\* Append, when the id is not taken.
Log(e) == behind' = IF Ignored(e) THEN behind ELSE Append(behind, e)

\* Slip: what the card says is preferred.
Older(old, new) == IF old = 0 THEN new ELSE old

\* What the event does not say stays.
Newer(old, new) == IF new = 0 THEN old ELSE new

\* Apply.
Project(e, fresh) ==
  IF Ignored(e) THEN UNCHANGED <<cards, projected, behind>>
  ELSE
    /\ projected' = projected \cup {Key(e)}
    /\ behind' = SelectSeq(behind, LAMBDA d : Key(d) # Key(e))
    /\ cards' = [cards EXCEPT ![e.issue] =
         [lane |-> e.lane, due |-> e.due, young |-> fresh /\ e.lane = "Running",
          run |-> Newer(@.run, e.run), attempt |-> Newer(@.attempt, e.attempt)]]

\* A failure of attempt a goes to the retry queue if it is of a kind that may
\* pass and the policy allows one more, and else blocks the card.
Failure(i, req, n, a, passing) ==
  IF passing /\ a < MaxAttempts THEN Event(i, req, "RetryQueue", n, a + 1, FALSE)
                                ELSE Event(i, req, "Blocked", n, a, FALSE)

\* What is recorded of a child that is not live: its State says how it ended,
\* or that there is none.
EndOf(n) ==
  LET c == children[n] IN
  IF c.status = "completed"
    THEN Event(c.issue, <<"completed", n>>, "Review", n, c.attempt, FALSE)
    ELSE Failure(c.issue, <<"failed", n>>, n, c.attempt, c.status = "passing")

\* syntheticMissingChild: with no request of its own, the issue stands for it.
Orphaned(i) == Failure(i, <<"failed", 0>>, cards[i].run, cards[i].attempt, FALSE)

-----------------------------------------------------------------------------
(* The overseer's cycle.                                                   *)

Enter(p, w) == phase' = p /\ work' = w
Free(p) == phase = p /\ hand = Nothing
Continue == hand' = Nothing /\ work' = Tail(work)

\* The reconciler numbers e and appends it; where the id is taken, p is next.
Record(e, p) ==
  /\ serial < MaxEvents /\ serial' = serial + 1
  /\ \/ /\ serial' \in ids
        /\ Enter(p, <<>>)
        /\ UNCHANGED <<board, hand>>
     \/ /\ serial' \notin ids
        /\ ids' = ids \cup {serial'}
        /\ Log(e)
        /\ hand' = [at |-> "logged", event |-> e]
        /\ UNCHANGED <<cards, projected, phase, work>>
  /\ UNCHANGED <<children, dispatched, desk, left, causes>>

\* Slip: a card whose child is missing is left to reconciling.
NeedsEndIfKnown(i) == Running(i) /\ HasChild(i) /\ ~Live(cards[i].run)

\* The child of a running card has ended, or is missing and had time to start.
NeedsEnd(i) == Running(i) /\ IF HasChild(i) THEN ~Live(cards[i].run) ELSE ~cards[i].young

\* RecoverOrphanedRuns reads children and running cards, and plans.
Recover ==
  /\ Free("idle") \/ (Free("dispatching") /\ work = <<>>)
  /\ \E ending \in Ascending({i \in Issues : NeedsEnd(i)}) :
       Enter("recovering", [k \in DOMAIN ending |->
         IF HasChild(ending[k]) THEN EndOf(cards[ending[k]].run) ELSE Orphaned(ending[k])])
  /\ UNCHANGED <<board, children, hand, serial, dispatched, desk, left, causes>>

RecordPlan ==
  /\ Free("recovering") /\ work # <<>>
  /\ Record(Head(work), "idle")

\* Reconcile lists the children.
Reconcile ==
  /\ Free("recovering") /\ work = <<>>
  /\ \E listed \in Ascending({n \in Runs : Listed(n)}) : Enter("reconciling", listed)
  /\ UNCHANGED <<board, children, hand, serial, dispatched, desk, left, causes>>

\* The child has ended and the card waits for it.
EndsItsRun(n) == IsRunOf(n, children[n].issue) /\ ~Live(n)

ReconcileChild ==
  /\ Free("reconciling") /\ work # <<>>
  /\ \/ EndsItsRun(Head(work)) /\ Record(EndOf(Head(work)), "retries")
     \/ /\ ~EndsItsRun(Head(work))
        /\ work' = Tail(work)
        /\ UNCHANGED <<board, children, phase, hand, serial, dispatched, desk, left, causes>>

\* The cards of these issues, each with its attempt, in the order of the board.
Candidates(issues) ==
  {[k \in DOMAIN waiting |-> [issue |-> waiting[k], attempt |-> cards[waiting[k]].attempt]] :
     waiting \in Ascending(issues)}

ListRetries ==
  /\ \/ Free("reconciling") /\ work = <<>>
     \/ Free("retries")
  /\ \E retries \in Candidates({i \in Issues : cards[i].lane = "RetryQueue" /\ cards[i].due}) :
       Enter("todos", retries)
  /\ UNCHANGED <<board, children, hand, serial, dispatched, desk, left, causes>>

\* An issue that changed its lane since the first reading is listed twice.
ListTodos ==
  /\ Free("todos")
  /\ \E todos \in Candidates({i \in Issues : cards[i].lane = "Todo"}) :
       LET twice == {i \in Issues : \E k \in DOMAIN work, l \in DOMAIN todos :
                                      work[k].issue = i /\ todos[l].issue = i}
       IN  /\ Enter("dispatching", work \o todos)
           /\ causes' = [i \in Issues |-> IF i \in twice THEN causes[i] + 1 ELSE causes[i]]
  /\ UNCHANGED <<board, children, hand, serial, dispatched, desk, left>>

-----------------------------------------------------------------------------
(* Dispatching a candidate: spawn the child, append, project.              *)

Started(c, n) == Event(c.issue, <<"start", n>>, "Running", n, c.attempt, FALSE)
NotStarted(c, n, passing) == Failure(c.issue, <<"start", n>>, n, c.attempt, passing)

Make(e) ==
  /\ serial < MaxEvents /\ serial' = serial + 1
  /\ hand' = [at |-> "made", event |-> e]

\* SpawnChild: a child of its own name, a timeout that a child may have
\* survived, or a refusal; a name the runtime has is always refused.
Spawn ==
  /\ Free("dispatching") /\ work # <<>>
  /\ LET c == Head(work)
         n == dispatched + 1
         asked == [left EXCEPT !.dispatches = @ - 1]
         created == [children EXCEPT ![n] = [issue |-> c.issue, attempt |-> c.attempt, status |-> "live"]]
     IN
     /\ left.dispatches > 0 /\ dispatched' = n
     /\ \/ /\ ~Listed(n) /\ children' = created
           /\ Make(Started(c, n))
           /\ left' = asked /\ UNCHANGED causes
        \/ /\ ~Listed(n) /\ children' = created /\ left.setbacks > 0
           /\ Make(NotStarted(c, n, TRUE))
           /\ left' = [asked EXCEPT !.setbacks = @ - 1] /\ BlameIf(c.issue, TRUE)
        \/ /\ \E passing \in BOOLEAN : Make(NotStarted(c, n, passing))
           /\ left' = asked /\ UNCHANGED <<children, causes>>
  /\ UNCHANGED <<board, phase, work, desk>>

\* The bound is used up.
PassOver ==
  /\ Free("dispatching") /\ work # <<>> /\ left.dispatches = 0
  /\ work' = Tail(work)
  /\ UNCHANGED <<board, children, phase, hand, serial, dispatched, desk, left, causes>>

\* AppendAndProject, first half: where the id is taken the dispatch has failed.
AppendMade ==
  /\ hand.at = "made"
  /\ \/ /\ serial \in ids
        /\ Continue /\ BlameIf(hand.event.issue, hand.event.lane = "Running")
        /\ UNCHANGED <<ids, behind>>
     \/ /\ serial \notin ids
        /\ ids' = ids \cup {serial}
        /\ Log(hand.event)
        /\ hand' = [hand EXCEPT !.at = "logged"]
        /\ UNCHANGED <<work, causes>>
  /\ UNCHANGED <<cards, projected, children, phase, serial, dispatched, desk, left>>

\* Second half, for all that is recorded.
ProjectLogged ==
  /\ hand.at = "logged"
  /\ LET e == hand.event IN
     /\ Project(e, TRUE)
     /\ BlameIf(e.issue, e.lane = "Running" /\ Ignored(e) /\ ~IsRunOf(e.run, e.issue))
  /\ Continue
  /\ UNCHANGED <<ids, children, phase, serial, dispatched, desk, left>>

\* A call of the runtime or of a store fails: recovery gives up the cycle, as
\* does the listing; reconciling gives way to dispatching.
CallFails ==
  /\ \/ hand = Nothing /\ phase \in {"recovering", "reconciling", "todos"}
        /\ Enter(IF phase = "reconciling" THEN "retries" ELSE "idle", <<>>)
     \/ hand.at # "empty" /\ phase = "dispatching"
        /\ work' = Tail(work) /\ UNCHANGED phase
     \/ hand.at # "empty" /\ phase \in {"recovering", "reconciling"}
        /\ Enter(IF phase = "reconciling" THEN "retries" ELSE "idle", <<>>)
  /\ hand' = Nothing
  /\ BlameIf(hand.event.issue, hand.event.lane = "Running")
  /\ Setback
  /\ UNCHANGED <<board, children, serial, dispatched, desk>>

\* The overseer ends and another starts: its numbers begin anew.
Restart ==
  /\ Setback
  /\ Enter("idle", <<>>) /\ hand' = Nothing
  /\ serial' = 0 /\ dispatched' = 0
  /\ BlameIf(hand.event.issue, hand.event.lane = "Running")
  /\ UNCHANGED <<board, children, desk>>

-----------------------------------------------------------------------------
(* The web API.                                                            *)

Action(i, lane) ==
  Event(i, <<"action", left.setbacks>>, lane, cards[i].run, cards[i].attempt, lane = "RetryQueue")

\* retry-now, release and mark-done, of a card that is read and found not to run.
ReadCard(i, lane) ==
  /\ desk = Nothing /\ ~Running(i)
  /\ lane = "RetryQueue" => cards[i].lane \in {"RetryQueue", "Blocked"}
  /\ Setback
  /\ desk' = [at |-> "made", event |-> Action(i, lane)]
  /\ UNCHANGED <<board, children, overseer, causes>>

\* The event is appended and applied; by now the card may run after all.
Act ==
  /\ desk # Nothing
  /\ Project(desk.event, TRUE)
  /\ BlameIf(desk.event.issue, Running(desk.event.issue))
  /\ desk' = Nothing
  /\ UNCHANGED <<ids, children, overseer, left>>

\* runOrchestrationRefresh replays the events; the first that is not ignored.
Refresh ==
  /\ behind # <<>>
  /\ \E fresh \in BOOLEAN : Project(Head(behind), fresh)
  /\ BlameIf(Head(behind).issue, TRUE)
  /\ UNCHANGED <<ids, children, overseer, desk, left>>

-----------------------------------------------------------------------------
(* The runtime, and time.                                                  *)

ChildEnds(n) ==
  /\ Live(n)
  /\ \E how \in {"completed", "passing", "failed"} : children' = [children EXCEPT ![n].status = how]
  /\ UNCHANGED <<board, overseer, desk, left, causes>>

\* The runtime forgets a child, or all that it knows of it.
ChildLost(n) ==
  /\ Listed(n) /\ Setback
  /\ \E how \in {"gone", "failed"} : children' = [children EXCEPT ![n].status = how]
  /\ UNCHANGED <<board, overseer, desk, causes>>

RetryFallsDue(i) ==
  /\ cards[i].lane = "RetryQueue" /\ ~cards[i].due
  /\ cards' = [cards EXCEPT ![i].due = TRUE]
  /\ UNCHANGED <<ids, projected, behind, children, overseer, desk, left, causes>>

GraceEnds(i) ==
  /\ cards[i].young
  /\ cards' = [cards EXCEPT ![i].young = FALSE]
  /\ UNCHANGED <<ids, projected, behind, children, overseer, desk, left, causes>>

-----------------------------------------------------------------------------
OverseerStep ==
  \/ Recover \/ RecordPlan \/ Reconcile \/ ReconcileChild \/ ListRetries \/ ListTodos
  \/ Spawn \/ PassOver \/ AppendMade \/ ProjectLogged

WebStep ==
  \/ \E i \in Handled, lane \in {"RetryQueue", "Todo", "Done"} : ReadCard(i, lane)
  \/ Act \/ Refresh

OrchestrationNext ==
  \/ OverseerStep \/ CallFails \/ Restart
  \/ WebStep
  \/ \E n \in Runs : ChildEnds(n) \/ ChildLost(n)
  \/ \E i \in Issues : RetryFallsDue(i) \/ GraceEnds(i)

\* The loop goes on and time passes; neither children nor users need do a thing.
OrchestrationFairness ==
  /\ WF_orchestrationVars(OverseerStep)
  /\ \A i \in Issues : WF_orchestrationVars(RetryFallsDue(i)) /\ WF_orchestrationVars(GraceEnds(i))

OrchestrationSpec ==
  OrchestrationInit /\ [][OrchestrationNext]_orchestrationVars /\ OrchestrationFairness

-----------------------------------------------------------------------------
(* Properties.                                                             *)

\* Live children of i that neither its card shows nor the overseer is recording.
Strays(i) ==
  {n \in Runs : /\ Live(n) /\ children[n].issue = i /\ ~IsRunOf(n, i)
                /\ ~(hand.event.lane = "Running" /\ hand.event.run = n)}

\* Two children work on an issue at once only for a cause: a spawn that timed
\* out (child_spawner.go), a start that could not be appended or projected, an
\* issue found in two lanes by two readings (candidate_source.go), an action on
\* a card that began to run since it was read (web orchestration.go), or a
\* replayed event.  Each accounts for one child the card does not show.
StraysHaveCauses == \A i \in Issues : Cardinality(Strays(i)) <= causes[i]

\* "Restarting with Running cards and reachable missing child state recovers
\* those cards into retry or blocked state": once the end of a run whose child
\* is missing is projected, its card does not run.  The code does not keep this.
MissingRunsEnd ==
  [][\A i \in Issues :
       /\ ProjectLogged /\ phase = "recovering"
       /\ hand.event.issue = i /\ IsRunOf(hand.event.run, i) /\ ~HasChild(i)
       => ~Running(i)'
    ]_orchestrationVars

\* What would be recorded of i's run has been, of an earlier run: it is ignored.
EndRepeats(i) == Ignored(IF HasChild(i) THEN EndOf(cards[i].run) ELSE Orphaned(i))

\* A card does not show for ever a run whose child has ended or is missing:
\* RecoverOrphanedRuns and Reconcile see to it, whatever restarts and fails,
\* unless the end is taken for one that was recorded before.
RunsEnd == \A i \in Issues : []<>(Running(i) => Alive(i) \/ EndRepeats(i))
=============================================================================
