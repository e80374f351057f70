--------------------------- MODULE ActorSystem ----------------------------
(***************************************************************************)
(* The reactive actor system (internal/runtime/actor) on its mailbox       *)
(* (internal/storage/mailbox).  An insert leaves a notification row behind *)
(* (a trigger); the watcher turns the rows it reads into wake-ups, one per *)
(* mailbox, and deletes them; the supervisor answers a wake-up with a      *)
(* goroutine that claims one message under a lease, has the actor handle   *)
(* it and acks or nacks it.  Rows survive the supervisor's process; wake-  *)
(* ups, goroutines and actor states do not.                                *)
(*                                                                         *)
(* Which of the visible messages a poll takes is left open: timestamps are *)
(* the senders', in seconds.                                               *)
(***************************************************************************)
EXTENDS Integers, Sequences, FiniteSets

CONSTANTS
  Msgs,        \* messages sent to actors
  Actors,      \* namespaces of the registered actors
  Caller,      \* a namespace without an actor, which replies go to
  Goroutines,  \* wake-up handlers that may run at a time
  Outcomes,    \* what handlers do: "ok", "error"
  Directives,  \* what OnError answers: "resume", "restart", "stop", "escalate"
  LeaseTicks,  \* how long a claim hides a message
  NackTicks,   \* how long a nack does
  Buffer,      \* capacity of the wake-up channel
  MaxRestarts, \* SupervisionStrategy.MaxRestarts
  MaxMishaps   \* bound: crashes, stops and failed store calls

ASSUME ActorSystemAssumption ==
  /\ Caller \notin Actors
  /\ Outcomes \subseteq {"ok", "error"}
  /\ Directives \subseteq {"resume", "restart", "stop", "escalate"}
  /\ LeaseTicks \in Nat \ {0} /\ NackTicks \in Nat \ {0} /\ NackTicks <= LeaseTicks
  /\ Buffer \in Nat \ {0} /\ MaxRestarts \in Nat /\ MaxMishaps \in Nat

VARIABLES
  mail,       \* mail[m]: the row of m: unsent, here or gone; its mailbox; ticks until visible
  handled,    \* handled[m]: completed calls of a handler with m (history)
  trigger,    \* the notification trigger exists
  noted,      \* mailboxes with a notification row no scan has read
  watcher,    \* the scan under way: mailboxes still to signal, mailboxes signalled
  wakes,      \* the wake-up channel
  phase,      \* the supervisor's process: down, up, or stopping
  actor,      \* actor[a]: the state of the actor registered for a, or none
  restarts,   \* restarts[a]: restarts of a within the window
  processing, \* mailboxes with a wake-up handler running
  handler,    \* handler[g]: the wake-up handler goroutine g runs
  mishaps     \* crashes, stops and failed store calls so far

vars == <<mail, handled, trigger, noted, watcher, wakes, phase, actor, restarts,
          processing, handler, mishaps>>
store == <<mail, handled, trigger, noted>>
supervisor == <<actor, restarts, processing, handler>>
-----------------------------------------------------------------------------
Mailboxes == Actors \cup {Caller}
Row == [at: {"unsent", "here", "gone"}, box: Mailboxes, hidden: 0..LeaseTicks]
ActorStates == {"none", "idle", "processing", "stopped", "error"}
Scan == [at: {"idle", "signalling"}, todo: SUBSET Mailboxes, signalled: SUBSET Mailboxes]

\* "own": the actor a goroutine works for is still the one registered.
Free == [at |-> "free"]
Holding == {"handling", "completed", "failed", "backoff", "nacking"}
Handlers ==
  {Free} \cup [at: {"woken", "claiming", "ending"}, box: Mailboxes, own: BOOLEAN]
         \cup [at: Holding, box: Actors, own: BOOLEAN, msg: Msgs]

NoScan == [at |-> "idle", todo |-> {}, signalled |-> {}]

Init ==
  /\ mail = [m \in Msgs |-> [at |-> "unsent", box |-> Caller, hidden |-> 0]]
  /\ handled = [m \in Msgs |-> 0]
  /\ trigger = FALSE /\ noted = {}
  /\ watcher = NoScan /\ wakes = <<>>
  /\ phase = "down"
  /\ actor = [a \in Actors |-> "none"]
  /\ restarts = [a \in Actors |-> 0]
  /\ processing = {}
  /\ handler = [g \in Goroutines |-> Free]
  /\ mishaps = 0

Mishap == mishaps < MaxMishaps /\ mishaps' = mishaps + 1

\* Every call of the store made with the supervisor's context fails once Stop cancelled it.
StoreFails == \/ phase = "stopping" /\ UNCHANGED mishaps
              \/ phase = "up" /\ Mishap
StoreWorks == phase = "up" /\ UNCHANGED mishaps

Noting(box) == noted' = IF trigger THEN noted \cup {box} ELSE noted
-----------------------------------------------------------------------------
(* Mailbox rows: Send by any process, the passing of time.                 *)
Send(m, a) ==
  /\ mail[m].at = "unsent"
  /\ mail' = [mail EXCEPT ![m] = [at |-> "here", box |-> a, hidden |-> 0]]
  /\ Noting(a)
  /\ UNCHANGED <<handled, trigger, watcher, wakes, phase, supervisor, mishaps>>

Tick ==
  /\ \E m \in Msgs : mail[m].hidden > 0
  /\ mail' = [m \in Msgs |->
       IF mail[m].hidden > 0 THEN [mail[m] EXCEPT !.hidden = @ - 1] ELSE mail[m]]
  /\ UNCHANGED <<handled, trigger, noted, watcher, wakes, phase, supervisor, mishaps>>

Visible(m, box) == mail[m] = [at |-> "here", box |-> box, hidden |-> 0]
Hide(m, ticks) ==
  mail' = IF mail[m].at = "here" THEN [mail EXCEPT ![m].hidden = ticks] ELSE mail
-----------------------------------------------------------------------------
(* The watcher.  The rows of a mailbox count as one; a row a scan has read *)
(* stays in the table until the scan deletes it.                           *)
ScanRows ==
  /\ phase # "down" /\ watcher.at = "idle" /\ noted # {}
  /\ watcher' = [at |-> "signalling", todo |-> noted, signalled |-> {}]
  /\ noted' = {}
  /\ UNCHANGED <<mail, handled, trigger, wakes, phase, supervisor, mishaps>>

\* A full channel leaves the row for the next scan.
Signal(box) ==
  /\ watcher.at = "signalling" /\ box \in watcher.todo
  /\ \/ /\ Len(wakes) < Buffer
        /\ wakes' = Append(wakes, box)
        /\ watcher' = [watcher EXCEPT !.todo = @ \ {box}, !.signalled = @ \cup {box}]
        /\ UNCHANGED noted
     \/ /\ Len(wakes) = Buffer
        /\ watcher' = [watcher EXCEPT !.todo = @ \ {box}]
        /\ noted' = noted \cup {box}
        /\ UNCHANGED wakes
  /\ UNCHANGED <<mail, handled, trigger, phase, supervisor, mishaps>>

\* Slip: the table is emptied, the rows that came since the scan with it.
DeleteAllRows ==
  /\ watcher.at = "signalling" /\ watcher.todo = {}
  /\ noted' = {} /\ watcher' = NoScan
  /\ UNCHANGED <<mail, handled, trigger, wakes, phase, supervisor, mishaps>>

\* A failed delete leaves the rows: their mailboxes are signalled again.
DeleteRows ==
  /\ watcher.at = "signalling" /\ watcher.todo = {}
  /\ \/ UNCHANGED <<noted, mishaps>>
     \/ Mishap /\ noted' = noted \cup watcher.signalled
  /\ watcher' = NoScan
  /\ UNCHANGED <<mail, handled, trigger, wakes, phase, supervisor>>
-----------------------------------------------------------------------------
(* The supervisor's loop and the goroutines of HandleWakeUp.               *)
\* Slip: a wake-up gets its goroutine even if one is at work for the mailbox.
WakeAnyway(g) ==
  /\ phase # "down" /\ wakes # <<>> /\ handler[g] = Free
  /\ wakes' = Tail(wakes)
  /\ processing' = processing \cup {Head(wakes)}
  /\ handler' = [handler EXCEPT ![g] = [at |-> "woken", box |-> Head(wakes), own |-> TRUE]]
  /\ UNCHANGED <<store, watcher, phase, actor, restarts, mishaps>>


HandleWakeUp(g) ==
  /\ phase # "down" /\ wakes # <<>> /\ handler[g] = Free
  /\ wakes' = Tail(wakes)
  /\ IF Head(wakes) \in processing
     THEN UNCHANGED <<processing, handler>>
     ELSE /\ processing' = processing \cup {Head(wakes)}
          /\ handler' = [handler EXCEPT
               ![g] = [at |-> "woken", box |-> Head(wakes), own |-> TRUE]]
  /\ UNCHANGED <<store, watcher, phase, actor, restarts, mishaps>>

SetState(g, s) ==
  actor' = IF handler[g].own THEN [actor EXCEPT ![handler[g].box] = s] ELSE actor
GoOn(g, at) == handler' = [handler EXCEPT ![g].at = at]
Return(g) ==
  handler' = [handler EXCEPT
    ![g] = [at |-> "ending", box |-> handler[g].box, own |-> handler[g].own]]

Registered(box) == box \in Actors /\ actor[box] # "none"

CheckIdle(g) ==
  /\ handler[g].at = "woken"
  /\ IF Registered(handler[g].box) /\ actor[handler[g].box] = "idle"
     THEN SetState(g, "processing") /\ GoOn(g, "claiming")
     ELSE Return(g) /\ UNCHANGED actor
  /\ UNCHANGED <<store, watcher, wakes, phase, restarts, processing, mishaps>>

\* Slip: a poll that fails or finds nothing leaves the actor processing.
ClaimForgetting(g) ==
  /\ handler[g].at = "claiming"
  /\ \/ \E m \in Msgs :
          /\ Visible(m, handler[g].box)
          /\ Hide(m, LeaseTicks)
          /\ handler' = [handler EXCEPT ![g] =
               [at |-> "handling", box |-> @.box, own |-> @.own, msg |-> m]]
          /\ StoreWorks
     \/ /\ IF \E m \in Msgs : Visible(m, handler[g].box)
           THEN StoreFails ELSE UNCHANGED mishaps
        /\ Return(g) /\ UNCHANGED mail
  /\ UNCHANGED <<handled, trigger, noted, watcher, wakes, phase, actor, restarts, processing>>


Claim(g) ==
  /\ handler[g].at = "claiming"
  /\ \/ \E m \in Msgs :
          /\ Visible(m, handler[g].box)
          /\ Hide(m, LeaseTicks)
          /\ handler' = [handler EXCEPT ![g] =
               [at |-> "handling", box |-> @.box, own |-> @.own, msg |-> m]]
          /\ StoreWorks /\ UNCHANGED actor
     \/ /\ IF \E m \in Msgs : Visible(m, handler[g].box)
           THEN StoreFails ELSE UNCHANGED mishaps
        /\ SetState(g, "idle") /\ Return(g) /\ UNCHANGED mail
  /\ UNCHANGED <<handled, trigger, noted, watcher, wakes, phase, restarts, processing>>

\* OnMailReceived: the reply, if there is one, is sent before it returns.
Complete(g) ==
  /\ handler[g].at = "handling" /\ "ok" \in Outcomes
  /\ handled' = [handled EXCEPT ![handler[g].msg] = @ + 1]
  /\ \/ phase = "up" /\ Noting(Caller)
     \/ UNCHANGED noted
  /\ GoOn(g, "completed")
  /\ UNCHANGED <<mail, trigger, watcher, wakes, phase, actor, restarts, processing, mishaps>>

\* The handler fails, or its reply cannot be sent.
Fail(g) ==
  /\ handler[g].at = "handling"
  /\ IF "error" \in Outcomes THEN UNCHANGED mishaps ELSE StoreFails
  /\ GoOn(g, "failed")
  /\ UNCHANGED <<store, watcher, wakes, phase, actor, restarts, processing>>

\* Slip: an ack counts only under a lease that still runs.
AckWhileLeased(g) ==
  /\ handler[g].at = "completed"
  /\ \/ StoreWorks /\ mail' = [mail EXCEPT ![handler[g].msg] =
                       IF @.hidden = 0 THEN @ ELSE [at |-> "gone", box |-> @.box, hidden |-> 0]]
     \/ StoreFails /\ UNCHANGED mail
  /\ SetState(g, "idle") /\ Return(g)
  /\ UNCHANGED <<handled, trigger, noted, watcher, wakes, phase, restarts, processing>>

\* The error of Ack is dropped.
Ack(g) ==
  /\ handler[g].at = "completed"
  /\ \/ StoreWorks /\ mail' = [mail EXCEPT ![handler[g].msg] =
                                   [at |-> "gone", box |-> @.box, hidden |-> 0]]
     \/ StoreFails /\ UNCHANGED mail
  /\ SetState(g, "idle") /\ Return(g)
  /\ UNCHANGED <<handled, trigger, noted, watcher, wakes, phase, restarts, processing>>

\* restartActor counts the restarts of the window, of which some may have left it.
OnError(g) ==
  /\ handler[g].at = "failed"
  /\ \/ /\ "resume" \in Directives
        /\ GoOn(g, "nacking") /\ UNCHANGED <<actor, restarts>>
     \/ /\ "restart" \in Directives
        /\ \E recent \in 1..(restarts[handler[g].box] + 1) :
             /\ restarts' = [restarts EXCEPT ![handler[g].box] = recent]
             /\ IF recent > MaxRestarts
                THEN SetState(g, "error") /\ GoOn(g, "nacking")
                ELSE GoOn(g, "backoff") /\ UNCHANGED actor
     \/ /\ "stop" \in Directives
        /\ SetState(g, "stopped") /\ GoOn(g, "nacking") /\ UNCHANGED restarts
     \/ /\ "escalate" \in Directives
        /\ SetState(g, "error") /\ GoOn(g, "nacking") /\ UNCHANGED restarts
  /\ UNCHANGED <<store, watcher, wakes, phase, processing, mishaps>>

\* The backoff ends, or Stop cancels it; Stop and Start of the actor may fail.
Restart(g) ==
  /\ handler[g].at = "backoff"
  /\ \/ phase = "up" /\ SetState(g, "idle")
     \/ SetState(g, "error")
  /\ GoOn(g, "nacking")
  /\ UNCHANGED <<store, watcher, wakes, phase, restarts, processing, mishaps>>

\* Slip: a message whose handler failed is dropped.
NackDropping(g) ==
  /\ handler[g].at = "nacking"
  /\ \/ StoreWorks /\ mail' = [mail EXCEPT ![handler[g].msg] =
                                   [at |-> "gone", box |-> @.box, hidden |-> 0]]
     \/ StoreFails /\ UNCHANGED mail
  /\ SetState(g, "idle") /\ Return(g)
  /\ UNCHANGED <<handled, trigger, noted, watcher, wakes, phase, restarts, processing>>

\* The deferred SetState(StateIdle) runs whatever the directive set.
Nack(g) ==
  /\ handler[g].at = "nacking"
  /\ \/ StoreWorks /\ Hide(handler[g].msg, NackTicks)
     \/ StoreFails /\ UNCHANGED mail
  /\ SetState(g, "idle") /\ Return(g)
  /\ UNCHANGED <<handled, trigger, noted, watcher, wakes, phase, restarts, processing>>

End(g) ==
  /\ handler[g].at = "ending"
  /\ processing' = processing \ {handler[g].box}
  /\ handler' = [handler EXCEPT ![g] = Free]
  /\ UNCHANGED <<store, watcher, wakes, phase, actor, restarts, mishaps>>
-----------------------------------------------------------------------------
(* Registration, start, stop and crash of the supervisor's process.        *)
Disowned(a) ==
  [g \in Goroutines |->
     IF handler[g].at \in Holding \cup {"claiming"} /\ handler[g].box = a
     THEN [handler[g] EXCEPT !.own = FALSE] ELSE handler[g]]

Register(a) ==
  /\ phase = "up" /\ actor[a] = "none"
  /\ actor' = [actor EXCEPT ![a] = "idle"]
  /\ UNCHANGED <<store, watcher, wakes, phase, restarts, processing, handler, mishaps>>

Unregister(a) ==
  /\ phase = "up" /\ actor[a] # "none"
  /\ actor' = [actor EXCEPT ![a] = "none"]
  /\ restarts' = [restarts EXCEPT ![a] = 0]
  /\ handler' = Disowned(a)
  /\ UNCHANGED <<store, watcher, wakes, phase, processing, mishaps>>

\* respawnRegisteredActors, then System.Start, which installs the trigger.
Start ==
  /\ phase = "down"
  /\ phase' = "up" /\ trigger' = TRUE
  /\ actor' = [a \in Actors |-> "idle"]
  /\ UNCHANGED <<mail, handled, noted, watcher, wakes, restarts, processing, handler, mishaps>>

Stop ==
  /\ phase = "up" /\ Mishap
  /\ phase' = "stopping"
  /\ UNCHANGED <<store, watcher, wakes, supervisor>>

ProcessEnds ==
  /\ phase' = "down"
  /\ noted' = noted \cup watcher.todo \cup watcher.signalled
  /\ watcher' = NoScan /\ wakes' = <<>> /\ processing' = {}
  /\ actor' = [a \in Actors |-> "none"] /\ restarts' = [a \in Actors |-> 0]
  /\ handler' = [g \in Goroutines |-> Free]
  /\ UNCHANGED <<mail, handled, trigger>>

\* Stop has waited for the handlers.
Stopped ==
  /\ phase = "stopping" /\ \A g \in Goroutines : handler[g] = Free
  /\ ProcessEnds /\ UNCHANGED mishaps

Crash == phase # "down" /\ Mishap /\ ProcessEnds
-----------------------------------------------------------------------------
Step(g) ==
  \/ HandleWakeUp(g) \/ CheckIdle(g) \/ Claim(g) \/ Complete(g) \/ Fail(g)
  \/ Ack(g) \/ OnError(g) \/ Restart(g) \/ Nack(g) \/ End(g)

Next ==
  \/ \E m \in Msgs, a \in Actors : Send(m, a)
  \/ Tick
  \/ ScanRows \/ (\E box \in Mailboxes : Signal(box)) \/ DeleteRows
  \/ \E g \in Goroutines : Step(g)
  \/ \E a \in Actors : Register(a) \/ Unregister(a)
  \/ Start \/ Stop \/ Stopped \/ Crash

Spec == Init /\ [][Next]_vars

(* Handlers return (an agent's turn has a timeout), the ticker ticks, the  *)
(* loop drains its channel, and somebody starts the supervisor.            *)
FairSpec ==
  /\ Spec
  /\ WF_vars(Tick) /\ WF_vars(ScanRows) /\ WF_vars(DeleteRows) /\ WF_vars(Start)
  /\ \A box \in Mailboxes : WF_vars(Signal(box))
  /\ \A g \in Goroutines : WF_vars(Step(g))
-----------------------------------------------------------------------------
TypeOK ==
  /\ mail \in [Msgs -> Row]
  /\ handled \in [Msgs -> Nat]
  /\ trigger \in BOOLEAN /\ noted \subseteq Mailboxes
  /\ watcher \in Scan
  /\ wakes \in Seq(Mailboxes) /\ Len(wakes) <= Buffer
  /\ phase \in {"down", "up", "stopping"}
  /\ actor \in [Actors -> ActorStates]
  /\ restarts \in [Actors -> Nat]
  /\ processing \subseteq Mailboxes
  /\ handler \in [Goroutines -> Handlers]
  /\ mishaps \in Nat

Holds(g, m) == handler[g].at \in Holding /\ handler[g].msg = m

\* Sequential processing (supervisor.go:64): two goroutines never work for one
\* mailbox, not even across a restart, or when its actor is registered anew.
OneAtATime ==
  \A g, h \in Goroutines :
    handler[g] # Free /\ handler[h] # Free /\ handler[g].box = handler[h].box => g = h

\* An actor that is not idle, and so takes no message, has a handler at work that
\* will set it idle: no way out of handleWakeUp leaves it processing.
NoActorWedged ==
  \A a \in Actors : actor[a] \notin {"none", "idle"} =>
    \E g \in Goroutines : handler[g].at \in Holding \cup {"claiming"}
                           /\ handler[g].box = a /\ handler[g].own

\* A message is handled again only for a crash, a stop or a failed call of the store:
\* neither lapsed leases nor extra wake-ups make a second reply.
NoNeedlessReply == \A m \in Msgs : handled[m] <= 1 + mishaps

Stage(m) ==
  IF mail[m].at = "unsent" THEN "unsent"
  ELSE IF mail[m].at = "gone" THEN "removed"
  ELSE IF handled[m] = 0 THEN "pending" ELSE "completed"

\* At-least-once delivery (docs/designs/reactive-actor-system.md:13): a message is
\* removed only after a handler completed it, through crashes, stops and retries.
Promise == INSTANCE Delivery WITH stage <- [m \in Msgs |-> Stage(m)]
ImplementsDelivery == Promise!Spec

\* A message whose notification row waits is handled if nothing else happens to its
\* mailbox: no mishap, no failing handler, no other message, no handler at work.
Notified(m) == mail[m].at = "here" /\ phase = "up" /\ mail[m].box \in noted
Company(m) == \E n \in Msgs \ {m} : mail[n].at = "here" /\ mail[n].box = mail[m].box
Failed(m) == mail[m].hidden > 0 /\ \A g \in Goroutines : ~Holds(g, m)
QuietIsHandled ==
  \A m \in Msgs :
    Notified(m) /\ mail[m].hidden = 0 /\ mail[m].box \notin processing
      ~> \/ mail[m].at = "gone" \/ Company(m) \/ Failed(m)
         \/ mishaps > 0 \/ ~Registered(mail[m].box)

\* "Actor busy, will poll when done" (supervisor.go:375): a message that waits when a
\* wake-up for its mailbox finds the actor at work on another one is handled, when the
\* actor is done with that, or later.  The code does not keep this.
WokenWhileBusy(m) ==
  /\ Visible(m, mail[m].box)
  /\ wakes # <<>> /\ Head(wakes) = mail[m].box
  /\ \E g \in Goroutines, n \in Msgs \ {m} : Holds(g, n) /\ handler[g].box = mail[m].box

BusyActorPolls ==
  \A m \in Msgs : WokenWhileBusy(m) ~> mail[m].at = "gone" \/ ~Registered(mail[m].box)

\* "DirectiveStop stops the actor permanently." (actor.go:50): only registering it anew
\* brings a stopped actor back.
StopIsFinal ==
  [][\A a \in Actors : actor[a] = "stopped" => actor'[a] \in {"stopped", "none"}]_actor
=============================================================================
