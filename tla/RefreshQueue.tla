--------------------------- MODULE RefreshQueue ---------------------------
(***************************************************************************)
(* The refresh queue of the orchestration API (interfaces/web/api,         *)
(* inMemoryRefreshQueue), for one workspace: workspaces share only the     *)
(* lock.  The first caller runs the refresh under its own context, those   *)
(* that come meanwhile wait for its result, and those that come within a   *)
(* window after it are given the result again, errors included.            *)
(*                                                                         *)
(* A caller reads the clock before it takes the lock, so it may be late: a *)
(* result is fresh for it if its window had not passed at that reading.    *)
(***************************************************************************)
EXTENDS Integers, FiniteSets

CONSTANTS
  Clients,  \* callers of Enqueue
  MaxRuns   \* bound: refreshes

ASSUME RefreshAssumption == MaxRuns \in Nat

VARIABLES
  inflight, \* the run in flight, or 0
  outcome,  \* outcome[r]: none, running, ok, error or panicked
  kept,     \* the run whose result is kept, or 0
  lapsed,   \* the last run whose window has passed (history)
  requests  \* requests[c]: where c's call is; its run; what had lapsed when it read the clock

refreshVars == <<inflight, outcome, kept, lapsed, requests>>
-----------------------------------------------------------------------------
Away == [at |-> "away"]
Runs == 1..MaxRuns
Call(step, run, since) == [at |-> step, run |-> run, since |-> since]
Go(c, to) == requests' = [requests EXCEPT ![c] = to]

RefreshInit ==
  /\ inflight = 0 /\ kept = 0 /\ lapsed = 0
  /\ outcome = [r \in Runs |-> "none"]
  /\ requests = [c \in Clients |-> Away]

\* Slip: a result is taken as fresh when its window has just passed.
FreshAtTheEdge(c, run) == run >= requests[c].since

Fresh(c, run) == run > requests[c].since

\* What the pruning at the start of a call leaves.
Pruned(c) == IF Fresh(c, kept) THEN kept ELSE 0

ReadClock(c) ==
  /\ requests[c] = Away
  /\ Go(c, Call("come", 0, lapsed))
  /\ UNCHANGED <<inflight, outcome, kept, lapsed>>

Join(c) ==
  /\ requests[c].at = "come" /\ inflight # 0
  /\ kept' = Pruned(c)
  /\ Go(c, Call("joined", inflight, requests[c].since))
  /\ UNCHANGED <<inflight, outcome, lapsed>>

Reuse(c) ==
  /\ requests[c].at = "come" /\ inflight = 0 /\ Pruned(c) # 0
  /\ kept' = Pruned(c)
  /\ Go(c, Call("answered", kept, requests[c].since))
  /\ UNCHANGED <<inflight, outcome, lapsed>>

Lead(c) ==
  /\ requests[c].at = "come" /\ inflight = 0 /\ Pruned(c) = 0
  /\ kept' = 0
  /\ \E r \in Runs :
       /\ outcome[r] = "none" /\ \A s \in 1..(r - 1) : outcome[s] # "none"
       /\ inflight' = r
       /\ outcome' = [outcome EXCEPT ![r] = "running"]
       /\ Go(c, Call("leading", r, requests[c].since))
  /\ UNCHANGED lapsed

\* Slip: those who wait are told of a success only.
CallbackReturnsTellingSuccess(c) ==
  /\ requests[c].at = "leading"
  /\ LET r == requests[c].run IN
       /\ inflight' = 0 /\ kept' = r
       /\ \E o \in {"ok", "error"} :
            outcome' = [outcome EXCEPT ![r] = IF o = "ok" THEN o ELSE @]
       /\ Go(c, Call("answered", r, requests[c].since))
  /\ UNCHANGED lapsed

\* The callback returns; an error may be that of the leader's context alone.
CallbackReturns(c) ==
  /\ requests[c].at = "leading"
  /\ LET r == requests[c].run IN
       /\ inflight' = 0 /\ kept' = r
       /\ \E o \in {"ok", "error"} : outcome' = [outcome EXCEPT ![r] = o]
       /\ Go(c, Call("answered", r, requests[c].since))
  /\ UNCHANGED lapsed

\* The callback panics: the server recovers for the request, the run stays in flight.
Panic(c) ==
  /\ requests[c].at = "leading"
  /\ outcome' = [outcome EXCEPT ![requests[c].run] = "panicked"]
  /\ Go(c, Away)
  /\ UNCHANGED <<inflight, kept, lapsed>>

Told(c) ==
  /\ requests[c].at = "joined" /\ outcome[requests[c].run] \in {"ok", "error"}
  /\ Go(c, Call("answered", requests[c].run, requests[c].since))
  /\ UNCHANGED <<inflight, outcome, kept, lapsed>>

\* The context of a caller that waits is done.
GiveUp(c) ==
  /\ requests[c].at = "joined"
  /\ Go(c, Away)
  /\ UNCHANGED <<inflight, outcome, kept, lapsed>>

Depart(c) ==
  /\ requests[c].at = "answered"
  /\ Go(c, Away)
  /\ UNCHANGED <<inflight, outcome, kept, lapsed>>

Lapse ==
  /\ lapsed < MaxRuns /\ outcome[lapsed + 1] \in {"ok", "error"}
  /\ lapsed' = lapsed + 1
  /\ UNCHANGED <<inflight, outcome, kept, requests>>

RefreshNext ==
  \/ \E c \in Clients : \/ ReadClock(c) \/ Join(c) \/ Reuse(c) \/ Lead(c) \/ CallbackReturns(c)
                        \/ Panic(c) \/ Told(c) \/ GiveUp(c) \/ Depart(c)
  \/ Lapse

\* A refresh comes to an end, and those who wait for it are scheduled.
RefreshFairness ==
  \A c \in Clients : /\ WF_refreshVars(CallbackReturns(c) \/ Panic(c))
                     /\ WF_refreshVars(Told(c))

RefreshSpec == RefreshInit /\ [][RefreshNext]_refreshVars
RefreshFairSpec == RefreshSpec /\ RefreshFairness
-----------------------------------------------------------------------------
RefreshTypeOK ==
  /\ inflight \in 0..MaxRuns /\ kept \in 0..MaxRuns /\ lapsed \in 0..MaxRuns
  /\ outcome \in [Runs -> {"none", "running", "ok", "error", "panicked"}]
  /\ requests \in [Clients -> {Away} \cup
       [at: {"come", "joined", "leading", "answered"}, run: 0..MaxRuns, since: 0..MaxRuns]]

\* At most one refresh of a workspace runs, the one that is in flight.
OneRefresh ==
  \A c \in Clients : requests[c].at = "leading" =>
    requests[c].run = inflight /\ \A e \in Clients \ {c} : requests[e].at # "leading"

\* Nobody is answered by a run whose window had passed when he read the clock,
\* whatever was kept, joined or pruned by others between that and the lock; and
\* an answer is given only by a run that has ended.
AnswersAreFresh ==
  \A c \in Clients : requests[c].at = "answered" =>
    requests[c].run > requests[c].since /\ outcome[requests[c].run] \in {"ok", "error"}

\* Whoever joined a refresh gets away from it, unless its callback panicked:
\* then the run stays in flight and he waits until his own context is done.
JoinersReturn ==
  \A c \in Clients : requests[c].at = "joined" ~>
    (requests[c].at # "joined" \/ \E r \in Runs : inflight = r /\ outcome[r] = "panicked")

\* The queue at any time: one refresh runs, and whoever has an answer has a fresh one.
RefreshSafe == RefreshTypeOK /\ OneRefresh /\ AnswersAreFresh
=============================================================================
