--------------------------- MODULE TerminalInput ---------------------------
(***************************************************************************)
(* Typing into terminals under leases: the intents of foxprox's broker and *)
(* the fan-out of its room router, on top of the lease manager.            *)
(*                                                                         *)
(* An intent checks the lease, then writes, without a lock across the two. *)
(* Submit writes twice: the text, and 100 ms later the submit key.  The    *)
(* router holds r.mu during a whole Send, so it is one producer.  Clients  *)
(* are sequential; only whole submissions are modelled, not single keys    *)
(* and raw bytes, which leave half a line on purpose.                      *)
(***************************************************************************)
EXTENDS InputLease, FiniteSets

CONSTANTS
  Router,        \* the producer that is the router
  Policies,      \* terminal policies messages are sent with
  RouterTTL,     \* LeaseTTL of the router's options, in ticks
  QueueTimeout,  \* PolicyTimeout of the queue policy, in ticks
  Patient,       \* TRUE: clients submit only on a lease that outlives the submission
  Enduring       \* TRUE: terminals and the manager live on

ASSUME TerminalInputAssumption ==
  /\ Router \in Producers
  /\ Policies \subseteq {"immediate", "safe-prompt-only", "queue", "interrupt"}
  /\ RouterTTL \in TTLs /\ QueueTimeout \in Nat
  /\ Patient \in BOOLEAN /\ Enduring \in BOOLEAN

VARIABLES
  intents,  \* intents[p]: how far p's intent got
  line,     \* line[s]: whose text stands at the prompt of s, not yet submitted
  running,  \* running[s]: the session of s runs
  ready,    \* ready[s]: ProfileReadiness of s
  fanout    \* the Send in progress

terminalVars == <<intents, line, running, ready, fanout>>
vars == <<leaseVars, terminalVars>>

Clients == Producers \ {Router}

(* "submit", "paste": the lease was found current, nothing is written yet; *)
(* "typed": Submit wrote the text and sleeps before the key.               *)
IntentStates == {"none", "submit", "paste", "typed"}

SendIdle == [at |-> "idle"]
SendPhases == {"next", "policy", "deliver", "writing", "release"}
Sends == [at: SendPhases, todo: SUBSET Sessions, policy: Policies, waited: 0..QueueTimeout]

Terminal(p) == leases[producers[p].lease].session

\* checkLease: the manager's current holder is the lease the intent names.
Current(p) ==
  /\ producers[p].at = "holding"
  /\ byKey[Terminal(p)] = producers[p].lease
-----------------------------------------------------------------------------
Init ==
  /\ LeaseInit
  /\ intents = [p \in Producers |-> "none"]
  /\ line = [s \in Sessions |-> {}]
  /\ running = [s \in Sessions |-> TRUE]
  /\ ready = [s \in Sessions |-> TRUE]
  /\ fanout = SendIdle

\* Slip: the lease is not compared with the current holder.
CheckNothing(p, kind) ==
  /\ producers[p].at = "holding"
  /\ intents[p] = "none"
  /\ intents' = [intents EXCEPT ![p] = kind]
  /\ UNCHANGED <<leaseVars, line, running, ready>>

(* Submit and Paste up to the write.  A refused intent changes nothing.    *)
CheckLease(p, kind) ==
  /\ Current(p)
  /\ intents[p] = "none"
  /\ intents' = [intents EXCEPT ![p] = kind]
  /\ UNCHANGED <<leaseVars, line, running, ready>>

(* sess.Write: ErrNotRunning once the session has exited.                  *)
Write(p, after, next) ==
  LET s == Terminal(p) IN
  /\ line' = IF running[s] THEN [line EXCEPT ![s] = after] ELSE line
  /\ intents' = [intents EXCEPT ![p] = IF running[s] THEN next ELSE "none"]
  /\ UNCHANGED <<leaseVars, running, ready>>

TypeText(p) == intents[p] = "submit" /\ Write(p, line[Terminal(p)] \cup {p}, "typed")

PressSubmit(p) == intents[p] = "typed" /\ Write(p, {}, "none")

\* Text and submit key in one write.
PasteAndSubmit(p) == intents[p] = "paste" /\ Write(p, {}, "none")

WriteStep(p) == TypeText(p) \/ PressSubmit(p) \/ PasteAndSubmit(p)
-----------------------------------------------------------------------------
OnlyLeases == UNCHANGED <<intents, line, running, ready, fanout>>

\* Patient clients do not start on a lease about to run out; one that ran
\* out unnoticed may still be tried.
Allows(p) ==
  LET l == producers[p].lease IN
  Patient => leases[l].left > 0 \/ ~IsActive(l)

ClientStep(p) ==
  \/ intents[p] = "none" /\ ProducerCall(p) /\ OnlyLeases
  \/ \E kind \in {"submit", "paste"} :
       producers[p].at = "holding" /\ Allows(p) /\ CheckLease(p, kind) /\ UNCHANGED fanout
  \/ WriteStep(p) /\ UNCHANGED fanout
-----------------------------------------------------------------------------
(* Send: targets are the active members that can mutate and are not        *)
(* skipped.  A Send waits for r.mu, so one is in progress at a time.       *)
Send(targets, policy) ==
  /\ fanout = SendIdle
  /\ fanout' = [at |-> "next", todo |-> targets, policy |-> policy, waited |-> 0]
  /\ UNCHANGED <<leaseVars, intents, line, running, ready>>

GoTo(phase) == fanout' = [fanout EXCEPT !.at = phase]

(* deliverOne takes the lease without preempting.  A dead session may      *)
(* still be registered until the reaper prunes it.                         *)
RouterAcquire(s) ==
  /\ fanout.at = "next" /\ s \in fanout.todo
  /\ Acquire(Router, s, RouterTTL, FALSE)
  /\ fanout' = [fanout EXCEPT !.at = "policy", !.todo = fanout.todo \ {s}, !.waited = 0]
  /\ UNCHANGED <<intents, line, running, ready>>

\* The member is counted as failed and the fan-out goes on.
RouterRefused(s) ==
  /\ fanout.at = "next" /\ s \in fanout.todo
  /\ producers[Router] = Idle
  /\ ~CanAcquire(s, FALSE) \/ ~running[s]
  /\ fanout' = [fanout EXCEPT !.todo = fanout.todo \ {s}]
  /\ UNCHANGED <<leaseVars, intents, line, running, ready>>

RouterReturns ==
  /\ fanout.at = "next" /\ fanout.todo = {}
  /\ producers[Router] = Idle
  /\ fanout' = SendIdle
  /\ UNCHANGED <<leaseVars, intents, line, running, ready>>

\* Slip: the queue policy polls until the terminal is ready.
WaitForPrompt(s) ==
  /\ fanout.at = "policy"
  /\ CASE fanout.policy = "interrupt" -> GoTo(IF Current(Router) /\ running[s] THEN "deliver" ELSE "release")
       [] fanout.policy = "immediate" \/ ready[s] -> GoTo("deliver")
       [] fanout.policy = "safe-prompt-only" -> GoTo("release")
       [] OTHER -> FALSE
  /\ UNCHANGED <<leaseVars, intents, line, running, ready>>

(* applyTerminalPolicy.  The interrupt key is a write of its own: it needs *)
(* the lease, but adds nothing to the line.                                *)
ApplyPolicy(s) ==
  /\ fanout.at = "policy"
  /\ CASE fanout.policy = "interrupt" -> GoTo(IF Current(Router) /\ running[s] THEN "deliver" ELSE "release")
       [] fanout.policy = "immediate" \/ ready[s] -> GoTo("deliver")
       [] fanout.policy = "safe-prompt-only" \/ ~running[s] -> GoTo("release")
       [] OTHER -> fanout.waited = QueueTimeout /\ GoTo("release")
  /\ UNCHANGED <<leaseVars, intents, line, running, ready>>

\* deliverInput: Submit, or Paste for long text; refused when the lease is gone.
Deliver ==
  /\ fanout.at = "deliver"
  /\ IF Current(Router)
     THEN \E kind \in {"submit", "paste"} : CheckLease(Router, kind) /\ GoTo("writing")
     ELSE /\ GoTo("release")
          /\ UNCHANGED <<leaseVars, intents, line, running, ready>>

RouterWrites ==
  /\ fanout.at = "writing"
  /\ WriteStep(Router)
  /\ IF intents'[Router] = "none" THEN GoTo("release") ELSE UNCHANGED fanout

\* The deferred ReleaseLease; its error is ignored.
RouterReleases ==
  /\ fanout.at = "release"
  /\ Release(Router)
  /\ GoTo("next")
  /\ UNCHANGED <<intents, line, running, ready>>

RouterStep ==
  \/ \E s \in Sessions : RouterAcquire(s) \/ RouterRefused(s)
  \/ fanout.at = "policy" /\ ApplyPolicy(Terminal(Router))
  \/ Deliver
  \/ RouterWrites
  \/ RouterReleases
  \/ RouterReturns
-----------------------------------------------------------------------------
SessionExit(s) ==
  /\ running[s] /\ ~Enduring
  /\ running' = [running EXCEPT ![s] = FALSE]
  /\ line' = [line EXCEPT ![s] = {}]
  /\ ready' = [ready EXCEPT ![s] = FALSE]
  /\ UNCHANGED <<leaseVars, intents, fanout>>

\* The program in the terminal becomes busy or comes back to its prompt.
ReadinessChanges(s) ==
  /\ running[s]
  /\ ready' = [ready EXCEPT ![s] = ~ready[s]]
  /\ UNCHANGED <<leaseVars, intents, line, running, fanout>>

Waiting == fanout.at = "policy" /\ fanout.policy = "queue"

(* Patient: no lease runs out under an intent in progress, nor under the   *)
(* router between its acquire and its delivery, unless it is waiting.      *)
Urgent(p) ==
  /\ producers[p].at = "holding"
  /\ leases[producers[p].lease].left <= 1
  /\ intents[p] # "none" \/ (p = Router /\ ~Waiting)

Clock ==
  /\ Patient => \A p \in Producers : ~Urgent(p)
  /\ Tick
  /\ fanout' = IF Waiting /\ fanout.waited < QueueTimeout
               THEN [fanout EXCEPT !.waited = fanout.waited + 1]
               ELSE fanout
  /\ UNCHANGED <<intents, line, running, ready>>

ManagerActs ==
  /\ \/ \E l \in LeaseIds : Expire(l) \/ \E reason \in Endings : Finalize(l, reason)
     \/ ~Enduring /\ Stop
  /\ OnlyLeases

Next ==
  \/ \E p \in Clients : ClientStep(p)
  \/ \E targets \in SUBSET Sessions \ {{}}, policy \in Policies : Send(targets, policy)
  \/ RouterStep
  \/ \E s \in Sessions : SessionExit(s) \/ ReadinessChanges(s)
  \/ ManagerActs
  \/ Clock

Spec == Init /\ [][Next]_vars

\* Goroutines run, due timers fire, the clock advances; clients and terminals
\* owe nothing.
FairSpec ==
  /\ Spec
  /\ WF_vars(RouterStep)
  /\ WF_vars(Clock)
  /\ \A l \in LeaseIds :
       /\ WF_vars(Expire(l) /\ OnlyLeases)
       /\ \A reason \in Endings : WF_vars(Finalize(l, reason) /\ OnlyLeases)
-----------------------------------------------------------------------------
TypeOK ==
  /\ LeaseTypeOK
  /\ intents \in [Producers -> IntentStates]
  /\ line \in [Sessions -> SUBSET Producers]
  /\ running \in [Sessions -> BOOLEAN]
  /\ ready \in [Sessions -> BOOLEAN]
  /\ fanout \in {SendIdle} \cup Sends

(* "Serialize input with leases so two producers cannot type over one      *)
(* another": what a submit key submits is the text of the producer that    *)
(* pressed it, all of it and nothing else.  It takes leases that outlive   *)
(* submissions and producers that do not preempt.                          *)
SubmissionsIntact ==
  \A p \in Producers : intents[p] = "typed" /\ running[Terminal(p)] => line[Terminal(p)] = {p}

(* "The TTL is only a safety net for caller crashes": the router works     *)
(* under its own lease until it releases it, unless the manager stops.     *)
RouterHoldsItsLease ==
  fanout.at \in {"deliver", "writing"} /\ ~stopped => Current(Router)

(* Intents and the router use the manager only through its operations, so  *)
(* what is proved of InputLease holds here.                                *)
ImplementsLeases == LeaseSpec

(* Every Send returns, whatever its members' terminals, other producers    *)
(* and their leases do, so r.mu is free for the next one.                  *)
EverySendReturns == (fanout # SendIdle) ~> (fanout = SendIdle)
=============================================================================
