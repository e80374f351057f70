---------------------------- MODULE AgentDaemon ----------------------------
(***************************************************************************)
(* An agent's daemon (internal/agent/daemon).  It polls the agent's        *)
(* mailbox for a batch of messages, all under one lease taken at the poll, *)
(* and works through them one after the other: a message it finds marked   *)
(* as processed, or past its TTL, it only acks; a handler's error nacks;   *)
(* a handler's success is first marked, then acked.  Nothing keeps two     *)
(* processes from serving one agent, and the leases of the later messages  *)
(* of a batch run out while the earlier ones are worked on.                *)
(*                                                                         *)
(* Which visible messages a poll takes, and the order in a batch, is left  *)
(* open: timestamps are the senders', in seconds.                          *)
(***************************************************************************)
EXTENDS Integers, FiniteSets

CONSTANTS
  Msgs,         \* messages sent to the agent
  Mortal,       \* those with a TTL
  Daemons,      \* processes that may run `agent run` for it
  MaxPoll,      \* MaxPollMessages
  LeaseTicks,   \* messageLeaseDuration
  Backoffs,     \* backoffDuration: how long a nack hides a message of that attempt
  MaxAttempts,  \* bound: polls that return a message
  MaxSetbacks   \* bound: crashes, interruptions, stops and failed store calls

ASSUME DaemonAssumption ==
  /\ Mortal \subseteq Msgs /\ IsFiniteSet(Daemons)
  /\ MaxPoll \in Nat \ {0} /\ LeaseTicks \in Nat \ {0}
  /\ MaxAttempts \in Nat /\ MaxSetbacks \in Nat
  /\ Backoffs \in [1..MaxAttempts -> Nat \ {0}]

VARIABLES
  rows,       \* rows[m]: the row of m: unsent, here or gone; ticks until visible; attempt; past its TTL
  processed,  \* the dedupe store: messages marked as processed
  worked,     \* worked[m]: handler calls with m that succeeded (history)
  unmarked,   \* unmarked[m]: those of them that never came to be marked (history)
  overlaps,   \* overlaps[m]: polls that took m while it was in another batch (history)
  daemons,    \* daemons[d]: where process d is, the rest of its batch, the message in hand
  agentState, \* state of the agent's record: running or stopped
  setbacks    \* crashes, interruptions, stops and failed store calls so far

daemonVars == <<rows, processed, worked, unmarked, overlaps, daemons, agentState, setbacks>>
-----------------------------------------------------------------------------
Off == [at |-> "off"]
Loaded == [at |-> "loaded"]
Between(batch) == [at |-> "between", batch |-> batch]
With(step, m, batch) == [at |-> step, msg |-> m, batch |-> batch]

Row == [at: {"unsent", "here", "gone"}, hidden: Nat, attempt: 0..MaxAttempts, stale: BOOLEAN]
Batching == [at: {"between"}, batch: SUBSET Msgs]
InHand == [at: {"working", "worked", "marked"}, msg: Msgs, batch: SUBSET Msgs]

\* The messages that a process in state s still holds from its last poll.
Held(s) ==
  CASE s.at \in {"off", "loaded"} -> {}
    [] s.at = "between" -> s.batch
    [] OTHER -> s.batch \cup {s.msg}

DaemonInit ==
  /\ rows = [m \in Msgs |-> [at |-> "unsent", hidden |-> 0, attempt |-> 0, stale |-> FALSE]]
  /\ processed = {}
  /\ worked = [m \in Msgs |-> 0] /\ unmarked = [m \in Msgs |-> 0]
  /\ overlaps = [m \in Msgs |-> 0]
  /\ daemons = [d \in Daemons |-> Off]
  /\ agentState = "running"
  /\ setbacks = 0

Setback == setbacks < MaxSetbacks /\ setbacks' = setbacks + 1
Works == UNCHANGED setbacks
Move(d, to) == daemons' = [daemons EXCEPT ![d] = to]

Delete(m) == rows' = [rows EXCEPT ![m] = [@ EXCEPT !.at = "gone", !.hidden = 0]]

\* Nack: of a row that is gone, it changes nothing (ErrNotFound).
HideFor(m, ticks) == rows' = IF rows[m].at = "here" THEN [rows EXCEPT ![m].hidden = ticks] ELSE rows

\* A call of the store with an effect, or one that fails.
Try(effect) == (effect /\ Works) \/ (UNCHANGED rows /\ Setback)
-----------------------------------------------------------------------------
(* Senders, the passing of time, and whoever stops and starts the agent.   *)
SendTo(m) ==
  /\ rows[m].at = "unsent"
  /\ rows' = [rows EXCEPT ![m].at = "here"]
  /\ UNCHANGED <<processed, worked, unmarked, overlaps, daemons, agentState, setbacks>>

GoStale(m) ==
  /\ m \in Mortal /\ rows[m].at # "unsent" /\ ~rows[m].stale
  /\ rows' = [rows EXCEPT ![m].stale = TRUE]
  /\ UNCHANGED <<processed, worked, unmarked, overlaps, daemons, agentState, setbacks>>

\* Slip: a time that has come goes on falling.
PassTimeBelowZero ==
  /\ \E m \in Msgs : rows[m].at = "here" /\ rows[m].hidden > 0
  /\ rows' = [m \in Msgs |-> IF rows[m].at = "here"
                             THEN [rows[m] EXCEPT !.hidden = @ - 1] ELSE rows[m]]
  /\ UNCHANGED <<processed, worked, unmarked, overlaps, daemons, agentState, setbacks>>

PassTime ==
  /\ \E m \in Msgs : rows[m].at = "here" /\ rows[m].hidden > 0
  /\ rows' = [m \in Msgs |-> IF rows[m].at = "here" /\ rows[m].hidden > 0
                             THEN [rows[m] EXCEPT !.hidden = @ - 1] ELSE rows[m]]
  /\ UNCHANGED <<processed, worked, unmarked, overlaps, daemons, agentState, setbacks>>

StopAgent ==
  /\ agentState = "running" /\ Setback /\ agentState' = "stopped"
  /\ UNCHANGED <<rows, processed, worked, unmarked, overlaps, daemons>>

StartAgent ==
  /\ agentState = "stopped" /\ agentState' = "running"
  /\ UNCHANGED <<rows, processed, worked, unmarked, overlaps, daemons, setbacks>>
-----------------------------------------------------------------------------
(* A process: Run, the poll loop, its end.                                 *)
Load(d) ==
  /\ daemons[d] = Off /\ agentState # "stopped"
  /\ Move(d, Loaded)
  /\ UNCHANGED <<rows, processed, worked, unmarked, overlaps, agentState, setbacks>>

\* The state is written, whatever has become of it since it was read.
EnterLoop(d) ==
  /\ daemons[d] = Loaded
  /\ agentState' = "running" /\ Move(d, Between({}))
  /\ UNCHANGED <<rows, processed, worked, unmarked, overlaps, setbacks>>

\* Slip: a message is polled once.
PollableOnce == {m \in Msgs : rows[m].at = "here" /\ rows[m].hidden = 0 /\ rows[m].attempt = 0}

Pollable == {m \in Msgs : /\ rows[m].at = "here" /\ rows[m].hidden = 0
                          /\ rows[m].attempt < MaxAttempts}
Batches ==
  {b \in SUBSET Pollable : /\ Cardinality(b) <= MaxPoll
                           /\ b = Pollable \/ Cardinality(b) = MaxPoll}

Take(b) ==
  rows' = [m \in Msgs |-> IF m \in b
             THEN [rows[m] EXCEPT !.hidden = LeaseTicks, !.attempt = @ + 1] ELSE rows[m]]

PollTick(d) ==
  /\ daemons[d] = Between({}) /\ agentState # "stopped"
  /\ Pollable # {}
  /\ \E b \in Batches :
       /\ Take(b)
       /\ Move(d, Between(b))
       /\ overlaps' = [m \in Msgs |-> IF m \in b /\ (\E e \in Daemons : m \in Held(daemons[e]))
                                      THEN overlaps[m] + 1 ELSE overlaps[m]]
  /\ UNCHANGED <<processed, worked, unmarked, agentState, setbacks>>

\* Slip: the state is looked at only when there is mail.
SeeStoppedWithMail(d) ==
  /\ daemons[d] = Between({}) /\ agentState = "stopped" /\ Pollable # {}
  /\ Move(d, Off)
  /\ UNCHANGED <<rows, processed, worked, unmarked, overlaps, agentState, setbacks>>

SeeStopped(d) ==
  /\ daemons[d] = Between({}) /\ agentState = "stopped"
  /\ Move(d, Off)
  /\ UNCHANGED <<rows, processed, worked, unmarked, overlaps, agentState, setbacks>>

Upcoming(d, m) == daemons[d].at = "between" /\ m \in daemons[d].batch
Rest(d, m) == daemons[d].batch \ {m}

CheckFails(d, m) ==
  /\ Upcoming(d, m)
  /\ Setback
  /\ HideFor(m, LeaseTicks) \/ UNCHANGED rows
  /\ Move(d, Between(Rest(d, m)))
  /\ UNCHANGED <<processed, worked, unmarked, overlaps, agentState>>

\* A duplicate, or expired.
AckUnworked(d, m) ==
  /\ Upcoming(d, m) /\ (m \in processed \/ rows[m].stale)
  /\ Try(Delete(m))
  /\ Move(d, Between(Rest(d, m)))
  /\ UNCHANGED <<processed, worked, unmarked, overlaps, agentState>>

\* Slip: the dedupe store is not asked.
BeginUnchecked(d, m) ==
  /\ Upcoming(d, m) /\ ~rows[m].stale
  /\ Move(d, With("working", m, Rest(d, m)))
  /\ UNCHANGED <<rows, processed, worked, unmarked, overlaps, agentState, setbacks>>

Begin(d, m) ==
  /\ Upcoming(d, m) /\ m \notin processed /\ ~rows[m].stale
  /\ Move(d, With("working", m, Rest(d, m)))
  /\ UNCHANGED <<rows, processed, worked, unmarked, overlaps, agentState, setbacks>>

\* The handler succeeds; a reply is the last thing it does.
Handle(d) ==
  /\ daemons[d].at = "working"
  /\ LET m == daemons[d].msg IN
       /\ worked' = [worked EXCEPT ![m] = @ + 1]
       /\ Move(d, With("worked", m, daemons[d].batch))
  /\ UNCHANGED <<rows, processed, unmarked, overlaps, agentState, setbacks>>

\* Slip: a handler's error is not told from its success.
HandleFailsAcking(d) ==
  /\ daemons[d].at = "working"
  /\ Try(Delete(daemons[d].msg))
  /\ Move(d, Between(daemons[d].batch))
  /\ UNCHANGED <<processed, worked, unmarked, overlaps, agentState>>

\* The backoff is that of the attempt it was polled as.
HandleFails(d) ==
  /\ daemons[d].at = "working"
  /\ LET m == daemons[d].msg IN
       \E a \in 1..rows[m].attempt :
         /\ overlaps[m] = 0 => a = rows[m].attempt
         /\ Try(HideFor(m, Backoffs[a]))
  /\ Move(d, Between(daemons[d].batch))
  /\ UNCHANGED <<processed, worked, unmarked, overlaps, agentState>>

Unmarked(d) == unmarked' = [unmarked EXCEPT ![daemons[d].msg] = @ + 1]

MarkProcessed(d) ==
  /\ daemons[d].at = "worked"
  /\ \/ processed' = processed \cup {daemons[d].msg} /\ Works /\ UNCHANGED unmarked
     \/ UNCHANGED processed /\ Setback /\ Unmarked(d)
  /\ Move(d, With("marked", daemons[d].msg, daemons[d].batch))
  /\ UNCHANGED <<rows, worked, overlaps, agentState>>

AckWorked(d) ==
  /\ daemons[d].at = "marked"
  /\ Try(Delete(daemons[d].msg))
  /\ Move(d, Between(daemons[d].batch))
  /\ UNCHANGED <<processed, worked, unmarked, overlaps, agentState>>

\* The process dies; or its context is cancelled, after which every call of the
\* store fails until the loop is back at its select and writes the state.
Die(d) ==
  /\ daemons[d] # Off
  /\ Setback
  /\ IF daemons[d].at = "worked" THEN Unmarked(d) ELSE UNCHANGED unmarked
  /\ Move(d, Off)
  /\ agentState' \in {agentState, "stopped"}
  /\ UNCHANGED <<rows, processed, worked, overlaps>>

Proceed(d) ==
  \/ EnterLoop(d) \/ PollTick(d) \/ SeeStopped(d) \/ Handle(d) \/ MarkProcessed(d) \/ AckWorked(d)
  \/ \E m \in Msgs : AckUnworked(d, m) \/ Begin(d, m)

DaemonNext ==
  \/ \E m \in Msgs : SendTo(m) \/ GoStale(m)
  \/ \E d \in Daemons : \/ Load(d) \/ Proceed(d) \/ HandleFails(d) \/ Die(d)
                        \/ \E m \in Msgs : CheckFails(d, m)
  \/ PassTime \/ StopAgent \/ StartAgent

DaemonSpec == DaemonInit /\ [][DaemonNext]_daemonVars

\* Time passes; a running process goes on, and a handler comes back, one way or
\* the other: every turn has a time limit.
DaemonFairness ==
  /\ WF_daemonVars(PassTime)
  /\ \A d \in Daemons : WF_daemonVars(Proceed(d) \/ HandleFails(d))

DaemonFairSpec == DaemonSpec /\ DaemonFairness
-----------------------------------------------------------------------------
DaemonTypeOK ==
  /\ rows \in [Msgs -> Row]
  /\ processed \subseteq Msgs
  /\ worked \in [Msgs -> Nat] /\ unmarked \in [Msgs -> Nat] /\ overlaps \in [Msgs -> Nat]
  /\ daemons \in [Daemons -> {Off, Loaded} \cup Batching \cup InHand]
  /\ agentState \in {"running", "stopped"}
  /\ setbacks \in 0..MaxSetbacks

\* What the daemon promises (Delivery): with any number of processes, crashes
\* and failed store calls, a row is deleted only after a handler has succeeded
\* with it, here or in another process, or its TTL has passed.
DaemonStage == [m \in Msgs |->
  CASE rows[m].at = "unsent" -> "unsent"
    [] rows[m].at = "gone" -> "removed"
    [] rows[m].at = "here" /\ (worked[m] > 0 \/ rows[m].stale) -> "completed"
    [] OTHER -> "pending"]
D == INSTANCE Delivery WITH stage <- DaemonStage
DaemonDelivers == D!Spec

\* "The daemon MUST de-duplicate by message ID": a failed Ack never brings a
\* message to its handler again.  It is worked once more only for a success that
\* was never marked (the process died in between, or the dedupe store failed), or
\* for a poll that took it while it was in another batch, its lease having run out.
RepeatsHaveCauses ==
  \A m \in Msgs : worked[m] <= 1 + unmarked[m] + overlaps[m]

\* Once the agent is stopped its processes end, unless somebody starts it again
\* or a process that had read the state before writes running over it.
StoppedAgentsEnd ==
  agentState = "stopped" ~> (agentState = "running" \/ \A d \in Daemons : daemons[d] = Off)

\* While a process runs, no message is left lying: it is deleted, or polled as
\* often as the model allows.
NothingLeftLying ==
  \A m \in Msgs : rows[m].at = "here" ~>
    \/ rows[m].at = "gone" \/ rows[m].attempt = MaxAttempts
    \/ \A d \in Daemons : daemons[d] \in {Off, Loaded}
=============================================================================
