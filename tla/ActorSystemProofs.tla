------------------------- MODULE ActorSystemProofs -------------------------
(***************************************************************************)
(* Proofs about ActorSystem: type correctness, sequential processing, that *)
(* no actor is left processing, that replies are repeated only for a       *)
(* mishap, and that the rows implement Delivery.                           *)
(***************************************************************************)
EXTENDS ActorSystem, TLAPS

LEMMA QueueFacts ==
  ASSUME NEW S, NEW q \in Seq(S), NEW e \in S
  PROVE  /\ Append(q, e) \in Seq(S) /\ Len(Append(q, e)) = Len(q) + 1
         /\ q # <<>> => /\ Head(q) \in S /\ Tail(q) \in Seq(S)
                        /\ Len(Tail(q)) = Len(q) - 1
         /\ <<>> \in Seq(S) /\ Len(<<>>) = 0
  OBVIOUS

(* What the moves of a goroutine do to its record.                         *)
Unheld == [at: {"woken", "claiming", "ending"}, box: Mailboxes, own: BOOLEAN]
Held == [at: Holding, box: Actors, own: BOOLEAN, msg: Msgs]

LEMMA HandlerShape ==
  ASSUME TypeOK, NEW g \in Goroutines
  PROVE  /\ handler[g].at = "free" => handler[g] = Free
         /\ handler[g].at \in {"woken", "claiming", "ending"} => handler[g] \in Unheld
         /\ handler[g].at \in Holding => handler[g] \in Held
         /\ handler[g] # Free => /\ handler[g].at # "free"
                                 /\ handler[g].box \in Mailboxes /\ handler[g].own \in BOOLEAN
  BY DEF TypeOK, Handlers, Free, Holding, Unheld, Held, Mailboxes

LEMMA ReturnMoves ==
  ASSUME TypeOK, NEW g \in Goroutines, handler[g] # Free, Return(g)
  PROVE  /\ handler' \in [Goroutines -> Handlers]
         /\ handler'[g] \in Unheld /\ handler'[g] # Free
         /\ handler'[g].at = "ending" /\ handler'[g].box = handler[g].box
         /\ \A h \in Goroutines \ {g} : handler'[h] = handler[h]
  BY HandlerShape DEF TypeOK, Return, Handlers, Unheld, Free

LEMMA GoOnMoves ==
  ASSUME TypeOK, NEW g \in Goroutines, NEW at \in Holding, handler[g].at \in Holding, GoOn(g, at)
  PROVE  /\ handler' \in [Goroutines -> Handlers]
         /\ handler'[g] \in Held /\ handler'[g] # Free
         /\ handler'[g].at = at /\ handler'[g].box = handler[g].box
         /\ handler'[g].own = handler[g].own /\ handler'[g].msg = handler[g].msg
         /\ \A h \in Goroutines \ {g} : handler'[h] = handler[h]
  <1>1. handler[g] \in Held
    BY HandlerShape
  <1>2. [handler[g] EXCEPT !.at = at] \in Held
    BY <1>1 DEF Held
  <1>3. Held \subseteq Handlers /\ Free \notin Held
    BY DEF Held, Handlers, Free
  <1> QED
    BY <1>1, <1>2, <1>3 DEF TypeOK, GoOn, Held

LEMMA CheckIdleMoves ==
  ASSUME TypeOK, NEW g \in Goroutines, CheckIdle(g)
  PROVE  /\ handler' \in [Goroutines -> Handlers]
         /\ handler'[g] \in Unheld /\ handler'[g] # Free
         /\ handler'[g].box = handler[g].box
         /\ \A h \in Goroutines \ {g} : handler'[h] = handler[h]
         /\ \/ handler'[g].at = "ending" /\ actor' = actor
            \/ /\ handler'[g].at = "claiming" /\ handler'[g].own = handler[g].own
               /\ SetState(g, "processing") /\ handler[g].box \in Actors
  <1>1. handler[g] \in Unheld /\ handler[g] # Free
    BY HandlerShape DEF CheckIdle, Free
  <1>2. CASE Return(g) /\ UNCHANGED actor
    BY <1>1, <1>2, ReturnMoves
  <1>3. CASE GoOn(g, "claiming") /\ SetState(g, "processing") /\ handler[g].box \in Actors
    <2>1. [handler[g] EXCEPT !.at = "claiming"] \in Unheld
      BY <1>1 DEF Unheld
    <2>2. Unheld \subseteq Handlers /\ Free \notin Unheld
      BY DEF Unheld, Handlers, Free
    <2> QED
      BY <1>1, <1>3, <2>1, <2>2 DEF TypeOK, GoOn, Unheld
  <1> QED
    BY <1>2, <1>3 DEF CheckIdle, Registered

\* Where a message comes into the hands of a goroutine.
LEMMA ClaimMoves ==
  ASSUME TypeOK, NEW g \in Goroutines, NEW m \in Msgs, handler[g].at = "claiming",
         handler[g].box \in Actors,
         handler' = [handler EXCEPT ![g] =
           [at |-> "handling", box |-> @.box, own |-> @.own, msg |-> m]]
  PROVE  /\ handler' \in [Goroutines -> Handlers]
         /\ handler'[g] \in Held /\ handler'[g] # Free
         /\ handler'[g].at = "handling" /\ handler'[g].box = handler[g].box
         /\ handler'[g].own = handler[g].own /\ handler'[g].msg = m
         /\ \A h \in Goroutines \ {g} : handler'[h] = handler[h]
  BY HandlerShape DEF TypeOK, Handlers, Held, Unheld, Free, Holding

LEMMA DisownMoves ==
  ASSUME TypeOK, NEW a \in Actors, handler' = Disowned(a)
  PROVE  /\ handler' \in [Goroutines -> Handlers]
         /\ \A g \in Goroutines :
              /\ handler'[g] = Free <=> handler[g] = Free
              /\ handler[g] # Free => /\ handler'[g].at = handler[g].at
                                      /\ handler'[g].box = handler[g].box
              /\ handler[g] # Free /\ handler[g].box # a => handler'[g] = handler[g]
              /\ handler[g].at \in Holding => handler'[g].msg = handler[g].msg
  <1>1. SUFFICES ASSUME NEW g \in Goroutines
                 PROVE  /\ handler'[g] \in Handlers
                        /\ handler'[g] = Free <=> handler[g] = Free
                        /\ handler[g] # Free => /\ handler'[g].at = handler[g].at
                                                /\ handler'[g].box = handler[g].box
                        /\ handler[g] # Free /\ handler[g].box # a => handler'[g] = handler[g]
                        /\ handler[g].at \in Holding => handler'[g].msg = handler[g].msg
    BY DEF Disowned
  <1>2. CASE handler[g].at \in Holding
    <2>1. handler[g] \in Held
      BY <1>2, HandlerShape
    <2>2. [handler[g] EXCEPT !.own = FALSE] \in Held
      BY <2>1 DEF Held
    <2> QED
      BY <1>2, <2>1, <2>2 DEF Disowned, Held, Handlers, Free
  <1>3. CASE handler[g].at = "claiming"
    <2>1. handler[g] \in Unheld
      BY <1>3, HandlerShape
    <2>2. [handler[g] EXCEPT !.own = FALSE] \in Unheld
      BY <2>1 DEF Unheld
    <2> QED
      BY <1>3, <2>1, <2>2 DEF Disowned, Unheld, Handlers, Free, Holding
  <1>4. CASE handler[g].at \notin Holding \cup {"claiming"}
    BY <1>4 DEF Disowned, TypeOK
  <1> QED
    BY <1>2, <1>3, <1>4
-----------------------------------------------------------------------------
(* Types.  A claim is made only for the mailbox of an actor.               *)
ClaimsForActors == \A g \in Goroutines : handler[g].at = "claiming" => handler[g].box \in Actors

LEMMA RowTypes ==
  ASSUME TypeOK, NEW m \in Msgs
  PROVE  /\ mail[m].box \in Mailboxes /\ mail[m].hidden \in 0..LeaseTicks
         /\ \A ticks \in 0..LeaseTicks : Hide(m, ticks) => mail' \in [Msgs -> Row]
         /\ [at |-> "gone", box |-> mail[m].box, hidden |-> 0] \in Row
         /\ LeaseTicks \in 0..LeaseTicks /\ NackTicks \in 0..LeaseTicks
  <1>1. mail[m] \in Row
    BY DEF TypeOK
  <1>2. ASSUME NEW ticks \in 0..LeaseTicks
        PROVE  [mail[m] EXCEPT !.hidden = ticks] \in Row
    BY <1>1 DEF Row
  <1>3. ASSUME NEW ticks \in 0..LeaseTicks, Hide(m, ticks)
        PROVE  mail' \in [Msgs -> Row]
    BY <1>2, <1>3 DEF TypeOK, Hide
  <1> QED
    BY <1>1, <1>3, ActorSystemAssumption DEF Row

LEMMA SetStateTypes ==
  ASSUME TypeOK, NEW g \in Goroutines, NEW s \in ActorStates, SetState(g, s)
  PROVE  actor' \in [Actors -> ActorStates]
  BY DEF TypeOK, SetState

LEMMA StepTypes ==
  ASSUME TypeOK, ClaimsForActors, NEW g \in Goroutines, Step(g)
  PROVE  TypeOK' /\ ClaimsForActors'
  <1> USE ActorSystemAssumption
  <1> USE DEF store, supervisor
  <1>1. CASE HandleWakeUp(g)
    <2>1. wakes \in Seq(Mailboxes)
      BY DEF TypeOK
    <2>2. Head(wakes) \in Mailboxes /\ Tail(wakes) \in Seq(Mailboxes) /\ Len(Tail(wakes)) <= Buffer
      BY <1>1, <2>1, QueueFacts DEF HandleWakeUp, TypeOK
    <2>3. CASE Head(wakes) \in processing
      BY <1>1, <2>2, <2>3 DEF HandleWakeUp, TypeOK, ClaimsForActors
    <2>4. CASE Head(wakes) \notin processing
      <3>1. PICK new \in Unheld : new = [at |-> "woken", box |-> Head(wakes), own |-> TRUE]
        BY <2>2 DEF Unheld
      <3>2. handler' = [handler EXCEPT ![g] = new] /\ new.at = "woken" /\ new \in Handlers
        BY <1>1, <2>4, <3>1 DEF HandleWakeUp, Unheld, Handlers
      <3>3. handler' \in [Goroutines -> Handlers] /\ ClaimsForActors'
        BY <3>2 DEF TypeOK, ClaimsForActors
      <3> QED
        BY <1>1, <2>2, <2>4, <3>3 DEF HandleWakeUp, TypeOK
    <2> QED
      BY <2>3, <2>4
  <1>2. CASE CheckIdle(g)
    <2>1. actor' \in [Actors -> ActorStates]
      BY <1>2, CheckIdleMoves, SetStateTypes DEF ActorStates, TypeOK
    <2>2. ClaimsForActors'
      BY <1>2, CheckIdleMoves DEF ClaimsForActors
    <2> QED
      BY <1>2, <2>1, <2>2, CheckIdleMoves DEF CheckIdle, TypeOK
  <1>3. CASE Claim(g)
    <2>1. handler[g].box \in Actors /\ handler[g] # Free
      BY <1>3 DEF Claim, ClaimsForActors, Free
    <2>2. CASE Return(g) /\ SetState(g, "idle") /\ UNCHANGED mail
      <3>1. actor' \in [Actors -> ActorStates]
        BY <2>2, SetStateTypes DEF ActorStates
      <3>2. mishaps' \in Nat
        BY <1>3 DEF Claim, StoreFails, StoreWorks, Mishap, TypeOK
      <3>3. handler' \in [Goroutines -> Handlers] /\ ClaimsForActors'
        BY <2>1, <2>2, ReturnMoves DEF ClaimsForActors
      <3> QED
        BY <1>3, <2>2, <3>1, <3>2, <3>3 DEF Claim, TypeOK
    <2>3. ASSUME NEW m \in Msgs, Hide(m, LeaseTicks), StoreWorks, UNCHANGED actor,
                 handler' = [handler EXCEPT ![g] =
                   [at |-> "handling", box |-> @.box, own |-> @.own, msg |-> m]]
          PROVE  TypeOK' /\ ClaimsForActors'
      <3>1. handler' \in [Goroutines -> Handlers] /\ ClaimsForActors'
        BY <1>3, <2>1, <2>3, ClaimMoves DEF ClaimsForActors, Claim
      <3>2. mail' \in [Msgs -> Row]
        BY <2>3, RowTypes
      <3> QED
        BY <1>3, <2>3, <3>1, <3>2 DEF Claim, TypeOK, StoreWorks
    <2> QED
      BY <1>3, <2>2, <2>3 DEF Claim
  <1>4. ASSUME handler[g].at \in Holding,
               \/ Return(g) \/ (\E at \in Holding : GoOn(g, at)),
               \/ UNCHANGED actor \/ (\E s \in ActorStates : SetState(g, s))
        PROVE  /\ handler' \in [Goroutines -> Handlers] /\ ClaimsForActors'
               /\ actor' \in [Actors -> ActorStates]
               /\ handler[g].msg \in Msgs /\ handler[g].box \in Actors
    <2>1. handler[g] \in Held /\ handler[g] # Free
      BY <1>4, HandlerShape DEF Holding, Free
    <2>2. actor' \in [Actors -> ActorStates]
      BY <1>4, SetStateTypes DEF TypeOK
    <2>3. handler' \in [Goroutines -> Handlers] /\ ClaimsForActors'
      BY <1>4, <2>1, ReturnMoves, GoOnMoves DEF ClaimsForActors, Holding
    <2> QED
      BY <2>1, <2>2, <2>3 DEF Held
  <1>5. CASE Complete(g)
    BY <1>4, <1>5 DEF Complete, TypeOK, Noting, Mailboxes, Holding
  <1>6. CASE Fail(g)
    BY <1>4, <1>6 DEF Fail, TypeOK, Holding, StoreFails, Mishap
  <1>7. CASE Ack(g)
    <2>1. handler[g].msg \in Msgs /\ TypeOK
      BY <1>4, <1>7 DEF Ack, Holding, ActorStates
    <2>2. PICK gone \in Row : gone = [at |-> "gone", box |-> mail[handler[g].msg].box, hidden |-> 0]
      BY <2>1, RowTypes
    <2>3. mail' = [mail EXCEPT ![handler[g].msg] = gone] \/ mail' = mail
      BY <1>7, <2>1, <2>2 DEF Ack, TypeOK
    <2>4. mail' \in [Msgs -> Row]
      BY <2>3 DEF TypeOK
    <2> QED
      BY <1>4, <1>7, <2>4 DEF Ack, TypeOK, Holding, ActorStates, StoreFails, StoreWorks, Mishap
  <1>8. CASE OnError(g)
    <2>1. /\ handler' \in [Goroutines -> Handlers] /\ ClaimsForActors'
          /\ actor' \in [Actors -> ActorStates]
          /\ handler[g].box \in Actors
      BY <1>4, <1>8 DEF OnError, Holding, ActorStates
    <2>2. restarts' \in [Actors -> Nat]
      BY <1>8, <2>1 DEF OnError, TypeOK
    <2> QED
      BY <1>8, <2>1, <2>2 DEF OnError, TypeOK
  <1>9. CASE Restart(g)
    BY <1>4, <1>9 DEF Restart, TypeOK, Holding, ActorStates
  <1>10. CASE Nack(g)
    <2>1. handler[g].msg \in Msgs
      BY <1>4, <1>10 DEF Nack, Holding, ActorStates
    <2>2. mail' \in [Msgs -> Row]
      BY <1>10, <2>1, RowTypes DEF Nack, TypeOK
    <2> QED
      BY <1>4, <1>10, <2>2 DEF Nack, TypeOK, Holding, ActorStates, StoreFails, StoreWorks, Mishap
  <1>11. CASE End(g)
    BY <1>11 DEF End, TypeOK, Handlers, ClaimsForActors, Free
  <1> QED
    BY <1>1, <1>2, <1>3, <1>5, <1>6, <1>7, <1>8, <1>9, <1>10, <1>11 DEF Step

LEMMA OtherTypes ==
  ASSUME TypeOK, ClaimsForActors,
         \/ \E m \in Msgs, a \in Actors : Send(m, a)
         \/ Tick \/ ScanRows \/ (\E box \in Mailboxes : Signal(box)) \/ DeleteRows
         \/ \E a \in Actors : Register(a) \/ Unregister(a)
         \/ Start \/ Stop \/ Stopped \/ Crash
  PROVE  TypeOK' /\ ClaimsForActors'
  <1> USE ActorSystemAssumption
  <1> USE DEF store, supervisor
  <1>1. ASSUME NEW m \in Msgs, NEW a \in Actors, Send(m, a)
        PROVE  TypeOK' /\ ClaimsForActors'
    <2>1. mail' \in [Msgs -> Row]
      BY <1>1 DEF Send, TypeOK, Row, Mailboxes
    <2> QED
      BY <1>1, <2>1 DEF Send, Noting, TypeOK, ClaimsForActors, Mailboxes
  <1>2. CASE Tick
    <2>1. ASSUME NEW m \in Msgs, mail[m].hidden > 0
          PROVE  [mail[m] EXCEPT !.hidden = @ - 1] \in Row
      <3>1. mail[m] \in Row /\ mail[m].hidden - 1 \in 0..LeaseTicks
        BY <2>1 DEF TypeOK, Row
      <3> QED
        BY <3>1 DEF Row
    <2>2. mail' \in [Msgs -> Row]
      BY <1>2, <2>1 DEF Tick, TypeOK
    <2> QED
      BY <1>2, <2>2 DEF Tick, TypeOK, ClaimsForActors
  <1>3. CASE ScanRows
    BY <1>3 DEF ScanRows, TypeOK, ClaimsForActors, Scan
  <1>4. ASSUME NEW box \in Mailboxes, Signal(box)
        PROVE  TypeOK' /\ ClaimsForActors'
    <2>1. watcher \in Scan /\ wakes \in Seq(Mailboxes) /\ Len(wakes) <= Buffer
      BY DEF TypeOK
    <2>2. \A t, d \in SUBSET Mailboxes :
            /\ [watcher EXCEPT !.todo = t] \in Scan
            /\ [watcher EXCEPT !.todo = t, !.signalled = d] \in Scan
      BY <2>1 DEF Scan
    <2>3. watcher.todo \in SUBSET Mailboxes /\ watcher.signalled \in SUBSET Mailboxes
      BY <2>1 DEF Scan
    <2>4. CASE /\ Len(wakes) < Buffer /\ wakes' = Append(wakes, box) /\ UNCHANGED noted
               /\ watcher' = [watcher EXCEPT !.todo = @ \ {box}, !.signalled = @ \cup {box}]
      <3>1. wakes' \in Seq(Mailboxes) /\ Len(wakes') = Len(wakes) + 1
        BY <2>1, <2>4, QueueFacts
      <3>2. Len(wakes') <= Buffer
        BY <2>1, <2>4, <3>1
      <3>3. watcher.todo \ {box} \in SUBSET Mailboxes
            /\ watcher.signalled \cup {box} \in SUBSET Mailboxes
        BY <2>3
      <3>4. watcher' \in Scan
        BY <2>2, <2>4, <3>3
      <3> QED
        BY <1>4, <2>4, <3>1, <3>2, <3>4 DEF Signal, TypeOK, ClaimsForActors
    <2>5. CASE /\ watcher' = [watcher EXCEPT !.todo = @ \ {box}]
               /\ noted' = noted \cup {box} /\ UNCHANGED wakes
      <3>1. watcher' \in Scan
        BY <2>2, <2>3, <2>5
      <3> QED
        BY <1>4, <2>5, <3>1 DEF Signal, TypeOK, ClaimsForActors
    <2> QED
      BY <1>4, <2>4, <2>5 DEF Signal
  <1>5. CASE DeleteRows
    BY <1>5 DEF DeleteRows, NoScan, Scan, Mishap, TypeOK, ClaimsForActors
  <1>6. ASSUME NEW a \in Actors, Register(a)
        PROVE  TypeOK' /\ ClaimsForActors'
    BY <1>6 DEF Register, TypeOK, ClaimsForActors, ActorStates
  <1>7. ASSUME NEW a \in Actors, Unregister(a)
        PROVE  TypeOK' /\ ClaimsForActors'
    <2>1. handler' \in [Goroutines -> Handlers]
      BY <1>7, DisownMoves DEF Unregister
    <2>2. ClaimsForActors'
      BY <1>7, DisownMoves DEF Unregister, ClaimsForActors, Free
    <2> QED
      BY <1>7, <2>1, <2>2 DEF Unregister, TypeOK, ActorStates
  <1>8. CASE Start
    BY <1>8 DEF Start, TypeOK, ClaimsForActors, ActorStates
  <1>9. CASE Stop
    BY <1>9 DEF Stop, Mishap, TypeOK, ClaimsForActors
  <1>10. CASE Stopped \/ Crash
    <2>1. ProcessEnds /\ mishaps' \in Nat
      BY <1>10 DEF Stopped, Crash, Mishap, TypeOK
    <2>2. noted' \subseteq Mailboxes
      BY <2>1 DEF ProcessEnds, TypeOK, Scan
    <2>3. wakes' \in Seq(Mailboxes) /\ Len(wakes') <= Buffer
      BY <2>1, QueueFacts DEF ProcessEnds
    <2> QED
      BY <2>1, <2>2, <2>3
      DEF ProcessEnds, TypeOK, ClaimsForActors, NoScan, Scan, ActorStates, Handlers, Free
  <1> QED
    BY <1>1, <1>2, <1>3, <1>4, <1>5, <1>6, <1>7, <1>8, <1>9, <1>10

\* Every state of the system has the types the rows and the goroutines' records claim.
THEOREM TypeCorrect == Spec => [](TypeOK /\ ClaimsForActors)
  <1> USE ActorSystemAssumption
  <1>1. ASSUME Init
        PROVE  TypeOK /\ ClaimsForActors
    <2>1. mail \in [Msgs -> Row] /\ watcher \in Scan
      BY <1>1 DEF Init, Row, Mailboxes, NoScan, Scan
    <2>2. wakes \in Seq(Mailboxes) /\ Len(wakes) <= Buffer
      BY <1>1, QueueFacts DEF Init
    <2>3. handler \in [Goroutines -> Handlers] /\ ClaimsForActors
      BY <1>1 DEF Init, ClaimsForActors, Handlers, Free
    <2> QED
      BY <1>1, <2>1, <2>2, <2>3 DEF Init, TypeOK, ActorStates
  <1>2. TypeOK /\ ClaimsForActors /\ [Next]_vars => (TypeOK /\ ClaimsForActors)'
    <2>1. ASSUME TypeOK, ClaimsForActors, UNCHANGED vars
          PROVE  TypeOK' /\ ClaimsForActors'
      BY <2>1 DEF vars, TypeOK, ClaimsForActors
    <2> QED
      BY <2>1, StepTypes, OtherTypes DEF Next
  <1> QED
    BY <1>1, <1>2, PTL DEF Spec
-----------------------------------------------------------------------------
(* The inductive invariant.                                                *)
Sequential ==
  /\ \A g \in Goroutines : handler[g] # Free => handler[g].box \in processing
  /\ OneAtATime

\* A message at hand is in its mailbox, and completed only where its handler says so.
HeldRows ==
  /\ \A g \in Goroutines, m \in Msgs : Holds(g, m) =>
       /\ mail[m].at = "here" /\ mail[m].box = handler[g].box
       /\ handler[g].at = "completed" => handled[m] >= 1
  /\ \A m \in Msgs : /\ mail[m].at = "unsent" => handled[m] = 0
                     /\ mail[m].at = "gone" => handled[m] >= 1

\* The stop that makes every call of the store fail has been counted.
Counted == IF phase = "stopping" THEN 1 ELSE 0

Tally(m) ==
  /\ handled[m] <= 1 + mishaps
  /\ mail[m].at = "here" =>
       \/ handled[m] <= mishaps
       \/ \E g \in Goroutines : Holds(g, m) /\ handler[g].at = "completed"
  /\ \A g \in Goroutines : Holds(g, m) =>
       /\ handler[g].at = "handling" => handled[m] + Counted <= mishaps
       /\ handler[g].at = "completed" => handled[m] + Counted <= 1 + mishaps
RepliesCounted == \A m \in Msgs : Tally(m)

IInv == TypeOK /\ ClaimsForActors /\ Sequential /\ HeldRows /\ NoActorWedged /\ RepliesCounted

LEMMA OneHolder ==
  ASSUME IInv, NEW g \in Goroutines, NEW h \in Goroutines, NEW m \in Msgs,
         Holds(g, m), Holds(h, m)
  PROVE  g = h
  BY DEF IInv, Sequential, OneAtATime, HeldRows, Holds, Holding, Free

\* A step of one goroutine that keeps its mailbox keeps processing sequential.
LEMMA SequentialStays ==
  ASSUME IInv, NEW g \in Goroutines, handler[g] # Free, processing' = processing,
         handler'[g].box = handler[g].box,
         \A h \in Goroutines \ {g} : handler'[h] = handler[h]
  PROVE  Sequential'
  BY DEF IInv, Sequential, OneAtATime

\* So do the actors: the goroutine at work goes on, or sets its actor idle.
LEMMA ActorsStay ==
  ASSUME IInv, NEW g \in Goroutines, handler[g] # Free, handler[g].own \in BOOLEAN,
         handler'[g].box = handler[g].box,
         \A h \in Goroutines \ {g} : handler'[h] = handler[h],
         \/ SetState(g, "idle")
         \/ /\ handler'[g].at \in Holding \cup {"claiming"} /\ handler'[g].own = handler[g].own
            /\ UNCHANGED actor \/ (\E s \in ActorStates : SetState(g, s))
         \/ handler[g].at = "woken" /\ UNCHANGED actor
  PROVE  NoActorWedged'
  <1> USE DEF IInv, NoActorWedged, SetState, TypeOK
  <1>1. SUFFICES ASSUME NEW a \in Actors, actor'[a] \notin {"none", "idle"}
                 PROVE  \E h \in Goroutines : handler'[h].at \in Holding \cup {"claiming"}
                                               /\ handler'[h].box = a /\ handler'[h].own
    OBVIOUS
  <1>2. CASE actor'[a] = actor[a]
    <2>1. PICK h \in Goroutines : handler[h].at \in Holding \cup {"claiming"}
                                  /\ handler[h].box = a /\ handler[h].own
      BY <1>1, <1>2
    <2>2. CASE h # g
      BY <2>1, <2>2
    <2>3. CASE h = g
      BY <1>1, <1>2, <2>1, <2>3 DEF Holding
    <2> QED
      BY <2>2, <2>3
  <1>3. CASE actor'[a] # actor[a]
    <2>1. handler[g].own /\ handler[g].box = a
      BY <1>3
    <2>2. ~SetState(g, "idle")
      BY <1>1, <2>1
    <2> QED
      BY <1>3, <2>1, <2>2
  <1> QED
    BY <1>2, <1>3

\* And the rows: no message is taken, completed or removed.
LEMMA RowsStay ==
  ASSUME IInv, NEW g \in Goroutines,
         \A m \in Msgs : mail'[m].at = mail[m].at /\ mail'[m].box = mail[m].box,
         handled' = handled, phase' = phase, mishaps' \in Nat, mishaps' >= mishaps,
         \A h \in Goroutines \ {g} : handler'[h] = handler[h],
         handler'[g].at \in Holding =>
           /\ handler[g].at \in Holding
           /\ handler'[g].msg = handler[g].msg /\ handler'[g].box = handler[g].box,
         handler'[g].at \notin {"handling", "completed"}, handler[g].at # "completed"
  PROVE  HeldRows' /\ RepliesCounted'
  <1>1. HeldRows'
    BY DEF IInv, HeldRows, Holds
  <1>2. ASSUME NEW m \in Msgs, NEW h \in Goroutines, Holds(h, m)',
               handler'[h].at \in {"handling", "completed"}
        PROVE  h # g /\ Holds(h, m) /\ handler[h] = handler'[h]
    BY <1>2 DEF Holds
  <1>3. ASSUME NEW m \in Msgs, NEW h \in Goroutines, Holds(h, m), handler[h].at = "completed"
        PROVE  Holds(h, m)' /\ handler'[h].at = "completed"
    BY <1>3 DEF Holds
  <1>4. \A m \in Msgs : handled[m] \in Nat
    BY DEF IInv, TypeOK
  <1>5. mishaps \in Nat /\ Counted \in {0, 1} /\ Counted' = Counted
    BY DEF IInv, TypeOK, Counted
  <1>6. ASSUME NEW m \in Msgs
        PROVE  Tally(m)'
    <2>1. handled[m] <= 1 + mishaps'
      <3>1. handled[m] <= 1 + mishaps
        BY DEF IInv, RepliesCounted, Tally
      <3> QED
        BY <1>4, <1>5, <3>1
    <2>2. mail[m].at = "here" => \/ handled[m] <= mishaps'
           \/ \E h \in Goroutines : Holds(h, m)' /\ handler'[h].at = "completed"
      BY <1>3, <1>4, <1>5 DEF IInv, RepliesCounted, Tally
    <2>3. ASSUME NEW h \in Goroutines, Holds(h, m)'
          PROVE  /\ handler'[h].at = "handling" => handled[m] + Counted <= mishaps'
                 /\ handler'[h].at = "completed" => handled[m] + Counted <= 1 + mishaps'
      BY <1>2, <1>4, <1>5, <2>3 DEF IInv, RepliesCounted, Tally
    <2> QED
      BY <1>4, <1>5, <2>1, <2>2, <2>3 DEF Tally
  <1> QED
    BY <1>1, <1>6 DEF RepliesCounted

LEMMA ClaimInvariant ==
  ASSUME IInv, NEW g \in Goroutines, Claim(g)
  PROVE  Sequential' /\ HeldRows' /\ NoActorWedged' /\ RepliesCounted'
  <1>1. handler[g].at = "claiming" /\ handler[g] # Free /\ handler[g].box \in Actors
        /\ handler[g].own \in BOOLEAN
    BY HandlerShape DEF Claim, IInv, ClaimsForActors, Free
  <1>2. CASE Return(g) /\ SetState(g, "idle") /\ UNCHANGED mail
    <2>1. mishaps' \in Nat /\ mishaps' >= mishaps
      BY DEF Claim, StoreFails, StoreWorks, Mishap, IInv, TypeOK
    <2>2. HeldRows' /\ RepliesCounted'
      BY <1>1, <1>2, <2>1, ReturnMoves, RowsStay DEF Claim, IInv, Holding
    <2> QED
      BY <1>1, <1>2, <2>2, ReturnMoves, SequentialStays, ActorsStay DEF Claim, IInv
  <1>3. ASSUME NEW m \in Msgs, Visible(m, handler[g].box), Hide(m, LeaseTicks), StoreWorks,
               UNCHANGED actor,
               handler' = [handler EXCEPT ![g] =
                 [at |-> "handling", box |-> @.box, own |-> @.own, msg |-> m]]
        PROVE  Sequential' /\ HeldRows' /\ NoActorWedged' /\ RepliesCounted'
    <2>1. /\ handler'[g].at = "handling" /\ handler'[g].box = handler[g].box
          /\ handler'[g].own = handler[g].own /\ handler'[g].msg = m
          /\ \A h \in Goroutines \ {g} : handler'[h] = handler[h]
      BY <1>1, <1>3, ClaimMoves DEF IInv
    <2>2. Sequential' /\ NoActorWedged'
      BY <1>1, <1>3, <2>1, SequentialStays, ActorsStay DEF Claim, Holding
    <2>3. mail[m].at = "here" /\ mail[m].box = handler[g].box
      BY <1>3 DEF Visible
    <2>4. \A n \in Msgs : mail'[n].at = mail[n].at /\ mail'[n].box = mail[n].box
      BY <1>3 DEF Hide, IInv, TypeOK, Row
    <2>5. HeldRows'
      BY <1>3, <2>1, <2>3, <2>4 DEF IInv, HeldRows, Holds, Claim
    <2>6. \A h \in Goroutines : ~Holds(h, m)
      BY <1>1, <2>3 DEF IInv, HeldRows, Sequential, OneAtATime, Holds, Holding, Free
    <2>7. handled[m] <= mishaps
      BY <2>3, <2>6 DEF IInv, RepliesCounted, Tally
    <2>8. handled' = handled /\ mishaps' = mishaps /\ Counted' = 0 /\ Counted = 0
          /\ handled \in [Msgs -> Nat] /\ mishaps \in Nat
      BY <1>3 DEF Claim, StoreWorks, Counted, IInv, TypeOK
    <2>9. ASSUME NEW n \in Msgs, NEW h \in Goroutines
          PROVE  /\ Holds(h, n)' => \/ h = g /\ n = m
                                    \/ Holds(h, n) /\ handler'[h].at = handler[h].at
                 /\ Holds(h, n) => Holds(h, n)' /\ handler'[h].at = handler[h].at
      BY <1>1, <2>1 DEF Holds, Holding
    <2>10. RepliesCounted'
      BY <2>1, <2>4, <2>7, <2>8, <2>9 DEF IInv, RepliesCounted, Tally
    <2> QED
      BY <2>2, <2>5, <2>10
  <1> QED
    BY <1>2, <1>3 DEF Claim

LEMMA CompleteInvariant ==
  ASSUME IInv, NEW g \in Goroutines, Complete(g)
  PROVE  Sequential' /\ HeldRows' /\ NoActorWedged' /\ RepliesCounted'
  <1>1. handler[g].at = "handling" /\ handler[g] \in Held /\ handler[g] # Free
    BY HandlerShape DEF Complete, Holding, IInv, Free
  <1>2. PICK m \in Msgs : m = handler[g].msg
    BY <1>1 DEF Held
  <1>3. /\ handler'[g].at = "completed" /\ handler'[g].box = handler[g].box
        /\ handler'[g].own = handler[g].own /\ handler'[g].msg = m
        /\ \A h \in Goroutines \ {g} : handler'[h] = handler[h]
    BY <1>1, <1>2, GoOnMoves DEF Complete, IInv, Holding
  <1>4. Sequential' /\ NoActorWedged'
    BY <1>1, <1>3, SequentialStays, ActorsStay DEF Complete, Held, Holding
  <1>5. /\ handled' = [handled EXCEPT ![m] = @ + 1] /\ mail' = mail /\ mishaps' = mishaps
        /\ Counted' = Counted /\ Counted \in {0, 1}
        /\ handled \in [Msgs -> Nat] /\ mishaps \in Nat
    BY <1>2 DEF Complete, IInv, TypeOK, Counted
  <1>6. Holds(g, m) /\ \A h \in Goroutines \ {g} : ~Holds(h, m)
    BY <1>1, <1>2, OneHolder DEF Holds, Holding
  <1>7. mail[m].at = "here" /\ handled[m] + Counted <= mishaps
    BY <1>1, <1>6 DEF IInv, HeldRows, RepliesCounted, Tally
  <1>8. ASSUME NEW n \in Msgs, NEW h \in Goroutines
        PROVE  Holds(h, n)' <=> Holds(h, n)
    BY <1>1, <1>2, <1>3 DEF Holds, Holding
  <1>9. \A n \in Msgs : handled'[n] = IF n = m THEN handled[m] + 1 ELSE handled[n]
    BY <1>5
  <1>10. ASSUME NEW n \in Msgs, NEW h \in Goroutines, Holds(h, n), n # m
         PROVE  handler'[h] = handler[h]
    BY <1>1, <1>2, <1>3, <1>10 DEF Holds
  <1>11. HeldRows'
    <2>1. \A n \in Msgs : handled'[n] \in Nat /\ handled'[n] >= handled[n]
      BY <1>5, <1>9
    <2>2. handled'[m] >= 1
      BY <1>5, <1>9
    <2>3. ASSUME NEW h \in Goroutines, NEW n \in Msgs, Holds(h, n)'
          PROVE  /\ mail'[n].at = "here" /\ mail'[n].box = handler'[h].box
                 /\ handler'[h].at = "completed" => handled'[n] >= 1
      <3>1. Holds(h, n)
        BY <1>8, <2>3
      <3>2. CASE n = m
        BY <1>3, <1>5, <1>6, <2>2, <3>1, <3>2 DEF IInv, HeldRows
      <3>3. CASE n # m
        BY <1>5, <1>9, <1>10, <3>1, <3>3 DEF IInv, HeldRows
      <3> QED
        BY <3>2, <3>3
    <2> QED
      BY <1>5, <1>7, <1>9, <2>1, <2>3 DEF IInv, HeldRows
  <1>12. ASSUME NEW n \in Msgs, n # m
         PROVE  Tally(n)'
    BY <1>5, <1>8, <1>9, <1>10, <1>12 DEF IInv, RepliesCounted, Tally
  <1>13. Tally(m)'
    BY <1>3, <1>5, <1>6, <1>7, <1>8, <1>9 DEF Tally
  <1>14. RepliesCounted'
    BY <1>12, <1>13 DEF RepliesCounted
  <1> QED
    BY <1>4, <1>11, <1>14

LEMMA AckInvariant ==
  ASSUME IInv, NEW g \in Goroutines, Ack(g)
  PROVE  Sequential' /\ HeldRows' /\ NoActorWedged' /\ RepliesCounted'
  <1>1. handler[g].at = "completed" /\ handler[g] \in Held /\ handler[g] # Free
    BY HandlerShape DEF Ack, Holding, IInv, Free
  <1>2. PICK m \in Msgs : m = handler[g].msg
    BY <1>1 DEF Held
  <1>3. /\ handler'[g].at = "ending" /\ handler'[g].box = handler[g].box
        /\ \A h \in Goroutines \ {g} : handler'[h] = handler[h]
    BY <1>1, ReturnMoves DEF Ack, IInv
  <1>4. Sequential' /\ NoActorWedged'
    BY <1>1, <1>3, SequentialStays, ActorsStay DEF Ack, Held
  <1>5. Holds(g, m) /\ \A h \in Goroutines \ {g} : ~Holds(h, m)
    BY <1>1, <1>2, OneHolder DEF Holds, Holding
  <1>6. handled[m] + Counted <= 1 + mishaps /\ handled[m] >= 1
    BY <1>1, <1>5 DEF IInv, HeldRows, RepliesCounted, Tally
  <1>7. /\ handled' = handled /\ Counted' = Counted /\ Counted \in {0, 1}
        /\ handled \in [Msgs -> Nat] /\ mishaps \in Nat
    BY DEF Ack, IInv, TypeOK, Counted
  <1>8. ASSUME NEW n \in Msgs, NEW h \in Goroutines
        PROVE  /\ Holds(h, n)' <=> Holds(h, n) /\ n # m
               /\ Holds(h, n)' => handler'[h] = handler[h]
    BY <1>1, <1>2, <1>3, <1>5 DEF Holds, Holding
  <1>9. CASE StoreWorks /\ mail' = [mail EXCEPT ![m] = [at |-> "gone", box |-> @.box, hidden |-> 0]]
    <2>1. mail'[m].at = "gone" /\ \A n \in Msgs \ {m} : mail'[n] = mail[n]
      BY <1>9 DEF IInv, TypeOK
    <2>2. mishaps' = mishaps
      BY <1>9 DEF StoreWorks
    <2>3. HeldRows'
      BY <1>6, <1>7, <1>8, <2>1 DEF IInv, HeldRows
    <2>4. RepliesCounted'
      BY <1>7, <1>8, <2>1, <2>2 DEF IInv, RepliesCounted, Tally
    <2> QED
      BY <1>4, <2>3, <2>4
  <1>10. CASE StoreFails /\ UNCHANGED mail
    <2>1. mishaps' \in Nat /\ mishaps' >= mishaps /\ handled[m] <= mishaps'
      BY <1>6, <1>7, <1>10 DEF StoreFails, Mishap, Counted
    <2>2. HeldRows'
      BY <1>7, <1>8, <1>10 DEF IInv, HeldRows
    <2>3. ASSUME NEW n \in Msgs, n # m
          PROVE  Tally(n)'
      BY <1>7, <1>8, <1>10, <2>1, <2>3 DEF IInv, RepliesCounted, Tally
    <2>4. Tally(m)'
      BY <1>7, <1>8, <2>1 DEF Tally
    <2>5. RepliesCounted'
      BY <2>3, <2>4 DEF RepliesCounted
    <2> QED
      BY <1>4, <2>2, <2>5
  <1> QED
    BY <1>2, <1>9, <1>10 DEF Ack

LEMMA StepInvariant ==
  ASSUME IInv, NEW g \in Goroutines, Step(g)
  PROVE  Sequential' /\ HeldRows' /\ NoActorWedged' /\ RepliesCounted'
  <1> USE DEF store, supervisor
  <1>1. CASE HandleWakeUp(g)
    <2>1. CASE Head(wakes) \in processing
      BY <1>1, <2>1
      DEF HandleWakeUp, IInv, Sequential, OneAtATime, HeldRows, Holds, NoActorWedged,
          RepliesCounted, Tally, Counted
    <2>2. CASE Head(wakes) \notin processing
      <3>1. /\ handler[g] = Free /\ handler'[g].at = "woken" /\ handler'[g].box \notin processing
            /\ processing' = processing \cup {handler'[g].box}
            /\ \A h \in Goroutines \ {g} : handler'[h] = handler[h]
        BY <1>1, <2>2 DEF HandleWakeUp, IInv, TypeOK
      <3>2. Sequential'
        BY <3>1 DEF IInv, Sequential, OneAtATime
      <3>3. NoActorWedged'
        BY <1>1, <3>1 DEF IInv, NoActorWedged, HandleWakeUp, Free, Holding
      <3>4. /\ handler[g].at = "free" /\ mail' = mail /\ handled' = handled
            /\ phase' = phase /\ mishaps' = mishaps /\ mishaps \in Nat
        BY <1>1, <3>1 DEF HandleWakeUp, Free, IInv, TypeOK
      <3>5. HeldRows' /\ RepliesCounted'
        BY <3>1, <3>4, RowsStay DEF Holding
      <3> QED
        BY <3>2, <3>3, <3>5
    <2> QED
      BY <2>1, <2>2
  <1>2. CASE CheckIdle(g)
    <2>1. handler[g].at = "woken" /\ handler[g] # Free /\ handler[g].own \in BOOLEAN
      BY <1>2, HandlerShape DEF CheckIdle, IInv, Free
    <2>2. Sequential' /\ NoActorWedged'
      BY <1>2, <2>1, CheckIdleMoves, SequentialStays, ActorsStay
      DEF CheckIdle, IInv, ActorStates
    <2>3. HeldRows' /\ RepliesCounted'
      BY <1>2, <2>1, CheckIdleMoves, RowsStay DEF CheckIdle, IInv, TypeOK, Holding
    <2> QED
      BY <2>2, <2>3
  <1>3. ASSUME handler[g].at \in {"handling", "failed", "backoff", "nacking"},
               \/ Return(g) /\ SetState(g, "idle")
               \/ /\ \E at \in Holding \ {"handling", "completed"} : GoOn(g, at)
                  /\ UNCHANGED actor \/ (\E s \in ActorStates : SetState(g, s)),
               processing' = processing, handled' = handled, phase' = phase,
               \A m \in Msgs : mail'[m].at = mail[m].at /\ mail'[m].box = mail[m].box,
               mishaps' \in Nat, mishaps' >= mishaps
        PROVE  Sequential' /\ HeldRows' /\ NoActorWedged' /\ RepliesCounted'
    <2>1. handler[g].at \in Holding /\ handler[g] # Free /\ handler[g].own \in BOOLEAN
      BY <1>3, HandlerShape DEF Holding, Free, IInv
    <2>2. CASE Return(g) /\ SetState(g, "idle")
      <3>1. handler'[g].at = "ending" /\ handler'[g].box = handler[g].box
            /\ \A h \in Goroutines \ {g} : handler'[h] = handler[h]
        BY <2>1, <2>2, ReturnMoves DEF IInv
      <3> QED
        BY <1>3, <2>1, <2>2, <3>1, SequentialStays, ActorsStay, RowsStay DEF Holding
    <2>3. ASSUME NEW at \in Holding \ {"handling", "completed"}, GoOn(g, at),
                 UNCHANGED actor \/ (\E s \in ActorStates : SetState(g, s))
          PROVE  Sequential' /\ HeldRows' /\ NoActorWedged' /\ RepliesCounted'
      <3>1. /\ handler'[g].at = at /\ handler'[g].box = handler[g].box
            /\ handler'[g].own = handler[g].own /\ handler'[g].msg = handler[g].msg
            /\ \A h \in Goroutines \ {g} : handler'[h] = handler[h]
        BY <2>1, <2>3, GoOnMoves DEF IInv
      <3> QED
        BY <1>3, <2>1, <2>3, <3>1, SequentialStays, ActorsStay, RowsStay DEF Holding
    <2> QED
      BY <1>3, <2>2, <2>3
  <1>4. CASE Fail(g)
    BY <1>3, <1>4 DEF Fail, StoreFails, Mishap, IInv, TypeOK, Holding
  <1>5. CASE OnError(g)
    BY <1>3, <1>5 DEF OnError, IInv, TypeOK, Holding, ActorStates
  <1>6. CASE Restart(g)
    BY <1>3, <1>6 DEF Restart, IInv, TypeOK, Holding, ActorStates
  <1>7. CASE Nack(g)
    <2>1. handler[g].msg \in Msgs
      BY <1>7, HandlerShape DEF Nack, IInv, Holding, Held
    <2>2. \A m \in Msgs : mail'[m].at = mail[m].at /\ mail'[m].box = mail[m].box
      <3>1. \A m \in Msgs : mail[m] \in Row
        BY DEF IInv, TypeOK
      <3>2. CASE mail' = [mail EXCEPT ![handler[g].msg].hidden = NackTicks]
        BY <2>1, <3>1, <3>2 DEF IInv, TypeOK, Row
      <3> QED
        BY <1>7, <3>2 DEF Nack, Hide
    <2>3. mishaps' \in Nat /\ mishaps' >= mishaps
      BY <1>7 DEF Nack, StoreWorks, StoreFails, Mishap, IInv, TypeOK
    <2> QED
      BY <1>3, <1>7, <2>2, <2>3 DEF Nack
  <1>8. CASE End(g)
    <2>1. /\ handler[g].at = "ending" /\ handler[g] # Free /\ handler'[g] = Free
          /\ \A h \in Goroutines \ {g} : handler'[h] = handler[h]
          /\ processing' = processing \ {handler[g].box}
      BY <1>8 DEF End, IInv, TypeOK, Free
    <2>2. Sequential'
      BY <2>1 DEF IInv, Sequential, OneAtATime
    <2>3. NoActorWedged'
      BY <1>8, <2>1 DEF IInv, NoActorWedged, End, Holding
    <2>4. HeldRows' /\ RepliesCounted'
      BY <1>8, <2>1, RowsStay DEF End, Free, Holding, IInv, TypeOK
    <2> QED
      BY <2>2, <2>3, <2>4
  <1> QED
    BY <1>1, <1>2, <1>4, <1>5, <1>6, <1>7, <1>8, ClaimInvariant, CompleteInvariant, AckInvariant
    DEF Step

\* No goroutine moves.
LEMMA OutsideStays ==
  ASSUME IInv, handled' = handled, actor' = actor, processing' = processing, handler' = handler,
         phase' = phase \/ (phase' = "stopping" /\ mishaps' = mishaps + 1),
         mishaps' \in Nat, mishaps' >= mishaps,
         \A m \in Msgs : \/ mail'[m].at = mail[m].at /\ mail'[m].box = mail[m].box
                         \/ mail[m].at = "unsent" /\ mail'[m].at = "here"
  PROVE  Sequential' /\ HeldRows' /\ NoActorWedged' /\ RepliesCounted'
  <1>1. Sequential' /\ NoActorWedged'
    BY DEF IInv, Sequential, OneAtATime, NoActorWedged
  <1>2. HeldRows'
    BY DEF IInv, HeldRows, Holds
  <1>3. ASSUME NEW m \in Msgs
        PROVE  Tally(m)'
    <2>1. handled[m] \in Nat /\ mishaps \in Nat
      BY DEF IInv, TypeOK
    <2>2. (mail[m].at = "unsent" => handled[m] = 0) /\ Tally(m)
      BY DEF IInv, HeldRows, RepliesCounted
    <2>3. CASE phase' = phase
      BY <2>1, <2>2, <2>3 DEF Tally, Counted, Holds
    <2>4. CASE phase' = "stopping" /\ mishaps' = mishaps + 1
      BY <2>1, <2>2, <2>4 DEF Tally, Counted, Holds
    <2> QED
      BY <2>3, <2>4
  <1> QED
    BY <1>1, <1>2, <1>3 DEF RepliesCounted

LEMMA OtherInvariant ==
  ASSUME IInv,
         \/ \E m \in Msgs, a \in Actors : Send(m, a)
         \/ Tick \/ ScanRows \/ (\E box \in Mailboxes : Signal(box)) \/ DeleteRows
         \/ \E a \in Actors : Register(a) \/ Unregister(a)
         \/ Start \/ Stop \/ Stopped \/ Crash
  PROVE  Sequential' /\ HeldRows' /\ NoActorWedged' /\ RepliesCounted'
  <1> USE DEF store, supervisor
  <1>2. ASSUME NEW m \in Msgs, NEW a \in Actors, Send(m, a)
        PROVE  Sequential' /\ HeldRows' /\ NoActorWedged' /\ RepliesCounted'
    <2>1. \A n \in Msgs : \/ mail'[n].at = mail[n].at /\ mail'[n].box = mail[n].box
                          \/ mail[n].at = "unsent" /\ mail'[n].at = "here"
      <3>1. mail' = [mail EXCEPT ![m] = [at |-> "here", box |-> a, hidden |-> 0]]
            /\ mail[m].at = "unsent" /\ mail \in [Msgs -> Row]
        BY <1>2 DEF Send, IInv, TypeOK
      <3> QED
        BY <3>1
    <2> QED
      BY <1>2, <2>1, OutsideStays DEF Send, IInv, TypeOK
  <1>3. CASE Tick
    <2>1. \A n \in Msgs : mail'[n].at = mail[n].at /\ mail'[n].box = mail[n].box
      BY <1>3 DEF Tick, IInv, TypeOK, Row
    <2> QED
      BY <1>3, <2>1, OutsideStays DEF Tick, IInv, TypeOK
  <1>4. CASE ScanRows \/ (\E box \in Mailboxes : Signal(box)) \/ DeleteRows
    <2>1. mishaps' \in Nat /\ mishaps' >= mishaps
      <3>1. mishaps \in Nat
        BY DEF IInv, TypeOK
      <3>2. mishaps' = mishaps \/ mishaps' = mishaps + 1
        BY <1>4 DEF ScanRows, Signal, DeleteRows, Mishap
      <3> QED
        BY <3>1, <3>2
    <2> QED
      BY <1>4, <2>1, OutsideStays DEF ScanRows, Signal, DeleteRows
  <1>5. ASSUME NEW a \in Actors, Register(a)
        PROVE  Sequential' /\ HeldRows' /\ NoActorWedged' /\ RepliesCounted'
    <2>1. NoActorWedged'
      BY <1>5 DEF Register, IInv, NoActorWedged, TypeOK
    <2> QED
      BY <1>5, <2>1 DEF Register, IInv, Sequential, OneAtATime, HeldRows, Holds, RepliesCounted, Tally, Counted
  <1>6. ASSUME NEW a \in Actors, Unregister(a)
        PROVE  Sequential' /\ HeldRows' /\ NoActorWedged' /\ RepliesCounted'
    <2>1. \A g \in Goroutines :
            /\ handler'[g] = Free <=> handler[g] = Free
            /\ handler[g] # Free => /\ handler'[g].at = handler[g].at
                                    /\ handler'[g].box = handler[g].box
            /\ handler[g] # Free /\ handler[g].box # a => handler'[g] = handler[g]
            /\ handler[g].at \in Holding => handler'[g].msg = handler[g].msg
      BY <1>6, DisownMoves DEF Unregister, IInv
    <2>2. \A g \in Goroutines : /\ handler'[g].at = handler[g].at
                                /\ \A m \in Msgs : Holds(g, m)' <=> Holds(g, m)
                                /\ handler[g].at \in Holding => handler'[g].box = handler[g].box
      BY <2>1 DEF Holds, Free, Holding
    <2>3. Sequential'
      BY <1>6, <2>1 DEF Unregister, IInv, Sequential, OneAtATime
    <2>4. NoActorWedged'
      BY <1>6, <2>1 DEF Unregister, IInv, NoActorWedged, TypeOK, Free, Holding
    <2>5. HeldRows'
      <3>1. ASSUME NEW g \in Goroutines, NEW m \in Msgs, Holds(g, m)'
            PROVE  /\ Holds(g, m) /\ handler'[g].at = handler[g].at
                   /\ handler'[g].box = handler[g].box
        BY <2>2, <3>1 DEF Holds
      <3> QED
        BY <1>6, <3>1 DEF Unregister, IInv, HeldRows
    <2>6. RepliesCounted'
      <3>1. /\ mail' = mail /\ handled' = handled /\ mishaps' = mishaps /\ phase' = phase
            /\ Counted' = Counted
        BY <1>6 DEF Unregister, Counted
      <3>2. ASSUME NEW m \in Msgs
            PROVE  Tally(m)'
        <4>1. Tally(m)
          BY DEF IInv, RepliesCounted
        <4> QED
          BY <2>2, <3>1, <4>1 DEF Tally
      <3> QED
        BY <3>2 DEF RepliesCounted
    <2> QED
      BY <2>3, <2>4, <2>5, <2>6
  <1>7. CASE Start
    <2>1. NoActorWedged'
      BY <1>7 DEF Start, NoActorWedged
    <2> QED
      BY <1>7, <2>1 DEF Start, IInv, Sequential, OneAtATime, HeldRows, Holds, RepliesCounted, Tally, Counted
  <1>8. CASE Stop
    <2>1. mishaps' = mishaps + 1 /\ mishaps' \in Nat /\ mishaps' >= mishaps
      BY <1>8 DEF Stop, Mishap, IInv, TypeOK
    <2> QED
      BY <1>8, <2>1, OutsideStays DEF Stop
  <1>9. CASE Stopped \/ Crash
    <2>1. /\ ProcessEnds /\ mishaps \in Nat /\ handled \in [Msgs -> Nat]
          /\ \/ mishaps' = mishaps + 1
             \/ mishaps' = mishaps /\ \A g \in Goroutines : handler[g] = Free
      BY <1>9 DEF Stopped, Crash, Mishap, IInv, TypeOK
    <2>2. \A g \in Goroutines : handler'[g] = Free
      BY <2>1 DEF ProcessEnds
    <2>3. Sequential' /\ HeldRows' /\ NoActorWedged'
      BY <2>1, <2>2
      DEF ProcessEnds, IInv, Sequential, OneAtATime, HeldRows, Holds, Holding, Free, NoActorWedged
    <2>4. RepliesCounted'
      BY <2>1, <2>2 DEF ProcessEnds, IInv, RepliesCounted, Tally, Holds, Holding, Free
    <2> QED
      BY <2>3, <2>4
  <1> QED
    BY <1>2, <1>3, <1>4, <1>5, <1>6, <1>7, <1>8, <1>9
-----------------------------------------------------------------------------
THEOREM Inductive == Spec => []IInv
  <1>1. Init => Sequential /\ HeldRows /\ NoActorWedged /\ RepliesCounted
    BY DEF Init, Sequential, OneAtATime, HeldRows, Holds, Holding, Free, NoActorWedged,
           RepliesCounted, Tally, Counted
  <1>2. /\ Sequential /\ HeldRows /\ NoActorWedged /\ RepliesCounted
        /\ TypeOK /\ ClaimsForActors /\ [Next]_vars
        => (Sequential /\ HeldRows /\ NoActorWedged /\ RepliesCounted)'
    <2>1. ASSUME IInv, UNCHANGED vars
          PROVE  Sequential' /\ HeldRows' /\ NoActorWedged' /\ RepliesCounted'
      BY <2>1 DEF vars, IInv, Sequential, OneAtATime, HeldRows, Holds, NoActorWedged,
                  RepliesCounted, Tally, Counted
    <2> QED
      BY <2>1, StepInvariant, OtherInvariant DEF Next, IInv
  <1> QED
    BY <1>1, <1>2, TypeCorrect, PTL DEF Spec, IInv

\* Sequential processing, whatever is registered, restarted or lost.
THEOREM ProcessingIsSequential == Spec => []OneAtATime
  <1>1. IInv => OneAtATime
    BY DEF IInv, Sequential
  <1> QED
    BY <1>1, Inductive, PTL

\* No way out of handleWakeUp leaves an actor that takes no more messages.
THEOREM ActorsComeBack == Spec => []NoActorWedged
  <1>1. IInv => NoActorWedged
    BY DEF IInv
  <1> QED
    BY <1>1, Inductive, PTL

\* However leases lapse and wake-ups pile up, a second reply takes a mishap.
THEOREM RepliesTakeMishaps == Spec => []NoNeedlessReply
  <1>1. IInv => NoNeedlessReply
    BY DEF IInv, RepliesCounted, Tally, NoNeedlessReply
  <1> QED
    BY <1>1, Inductive, PTL
-----------------------------------------------------------------------------
(* The rows implement Delivery: sending, completing and acking move one    *)
(* message each, every other step none.                                    *)
Same(m) == mail'[m].at = mail[m].at /\ handled'[m] = handled[m]

LEMMA SameStage ==
  ASSUME NEW m \in Msgs, Same(m)
  PROVE  Stage(m)' = Stage(m)
  BY DEF Same, Stage

LEMMA OneMoves ==
  ASSUME NEW m \in Msgs, \A n \in Msgs \ {m} : Same(n)
  PROVE  [n \in Msgs |-> Stage(n)]' =
           [[n \in Msgs |-> Stage(n)] EXCEPT ![m] = Stage(m)']
  BY SameStage

LEMMA NoneMoves ==
  ASSUME \A m \in Msgs : Same(m)
  PROVE  [m \in Msgs |-> Stage(m)]' = [m \in Msgs |-> Stage(m)]
  BY SameStage

LEMMA StepDelivers ==
  ASSUME IInv, NEW g \in Goroutines, Step(g)
  PROVE  [Promise!Next]_([m \in Msgs |-> Stage(m)])
  <1> USE DEF store, supervisor
  <1>1. CASE Complete(g)
    <2>1. PICK m \in Msgs : m = handler[g].msg /\ Holds(g, m)
      BY <1>1, HandlerShape DEF Complete, IInv, Holding, Held, Holds
    <2>2. /\ mail' = mail /\ handled' = [handled EXCEPT ![m] = @ + 1]
          /\ handled \in [Msgs -> Nat] /\ mail[m].at = "here"
      BY <1>1, <2>1 DEF Complete, IInv, TypeOK, HeldRows
    <2>3. Stage(m) \in {"pending", "completed"} /\ Stage(m)' = "completed"
      BY <2>2 DEF Stage
    <2>4. \A n \in Msgs \ {m} : Same(n)
      BY <2>2 DEF Same
    <2>5. Promise!Complete(m)
      BY <2>3, <2>4, OneMoves DEF Promise!Complete, Promise!Move
    <2> QED
      BY <2>5 DEF Promise!Next
  <1>2. CASE Ack(g)
    <2>1. PICK m \in Msgs : m = handler[g].msg /\ Holds(g, m)
      BY <1>2, HandlerShape DEF Ack, IInv, Holding, Held, Holds
    <2>2. /\ handled' = handled /\ handled \in [Msgs -> Nat]
          /\ mail[m].at = "here" /\ handled[m] >= 1
      BY <1>2, <2>1 DEF Ack, IInv, TypeOK, HeldRows
    <2>3. CASE mail' = [mail EXCEPT ![m] = [at |-> "gone", box |-> @.box, hidden |-> 0]]
      <3>1. mail'[m].at = "gone" /\ \A n \in Msgs \ {m} : mail'[n] = mail[n]
        BY <2>3 DEF IInv, TypeOK
      <3>2. Stage(m) = "completed" /\ Stage(m)' = "removed"
        BY <2>2, <3>1 DEF Stage
      <3>3. \A n \in Msgs \ {m} : Same(n)
        BY <2>2, <3>1 DEF Same
      <3>4. Promise!Remove(m)
        BY <3>2, <3>3, OneMoves DEF Promise!Remove, Promise!Move
      <3> QED
        BY <3>4 DEF Promise!Next
    <2>4. CASE mail' = mail
      BY <2>2, <2>4, NoneMoves DEF Same
    <2> QED
      BY <1>2, <2>1, <2>3, <2>4 DEF Ack
  <1>3. CASE Claim(g) \/ Nack(g)
    <2>1. \A m \in Msgs : mail[m] \in Row
      BY DEF IInv, TypeOK
    <2>2. handled' = handled
      BY <1>3 DEF Claim, Nack
    <2>3. ASSUME NEW n \in Msgs, NEW ticks, mail' = [mail EXCEPT ![n].hidden = ticks]
          PROVE  \A m \in Msgs : mail'[m].at = mail[m].at
      BY <2>1, <2>3 DEF IInv, TypeOK, Row
    <2>4. handler[g].at = "nacking" => handler[g].msg \in Msgs
      BY HandlerShape DEF IInv, Holding, Held
    <2>5. \A m \in Msgs : mail'[m].at = mail[m].at
      BY <1>3, <2>3, <2>4 DEF Claim, Nack, Hide
    <2> QED
      BY <2>2, <2>5, NoneMoves DEF Same
  <1>4. CASE \/ HandleWakeUp(g) \/ CheckIdle(g) \/ Fail(g)
             \/ OnError(g) \/ Restart(g) \/ End(g)
    <2>1. mail' = mail /\ handled' = handled
      BY <1>4 DEF HandleWakeUp, CheckIdle, Fail, OnError, Restart, End
    <2> QED
      BY <2>1, NoneMoves DEF Same
  <1> QED
    BY <1>1, <1>2, <1>3, <1>4 DEF Step

LEMMA OtherDelivers ==
  ASSUME IInv,
         \/ \E m \in Msgs, a \in Actors : Send(m, a)
         \/ Tick \/ ScanRows \/ (\E box \in Mailboxes : Signal(box)) \/ DeleteRows
         \/ \E a \in Actors : Register(a) \/ Unregister(a)
         \/ Start \/ Stop \/ Stopped \/ Crash
  PROVE  [Promise!Next]_([m \in Msgs |-> Stage(m)])
  <1> USE DEF store, supervisor
  <1>1. ASSUME NEW m \in Msgs, NEW a \in Actors, Send(m, a)
        PROVE  Promise!Next
    <2>1. /\ mail[m].at = "unsent" /\ mail'[m].at = "here" /\ handled' = handled
          /\ \A n \in Msgs \ {m} : mail'[n] = mail[n]
      BY <1>1 DEF Send, IInv, TypeOK
    <2>2. handled[m] = 0
      BY <2>1 DEF IInv, HeldRows
    <2>3. Stage(m) = "unsent" /\ Stage(m)' = "pending"
      BY <2>1, <2>2 DEF Stage
    <2>4. Promise!Send(m)
      BY <2>1, <2>3, OneMoves DEF Same, Promise!Send, Promise!Move
    <2> QED
      BY <2>4 DEF Promise!Next
  <1>2. CASE Tick
    <2>1. \A m \in Msgs : mail[m] \in Row
      BY DEF IInv, TypeOK
    <2>2. \A m \in Msgs : mail'[m].at = mail[m].at
      BY <1>2, <2>1 DEF Tick, Row
    <2> QED
      BY <1>2, <2>2, NoneMoves DEF Same, Tick
  <1>3. CASE \/ ScanRows \/ (\E box \in Mailboxes : Signal(box)) \/ DeleteRows
             \/ (\E a \in Actors : Register(a) \/ Unregister(a))
             \/ Start \/ Stop \/ Stopped \/ Crash
    <2>1. mail' = mail /\ handled' = handled
      BY <1>3 DEF ScanRows, Signal, DeleteRows, Register, Unregister, Start, Stop, Stopped,
                  Crash, ProcessEnds
    <2> QED
      BY <2>1, NoneMoves DEF Same
  <1> QED
    BY <1>1, <1>2, <1>3

\* At-least-once delivery: nothing is removed that no handler completed.
THEOREM DeliversAtLeastOnce == Spec => ImplementsDelivery
  <1>1. Init => Promise!Init
    BY DEF Init, Promise!Init, Stage
  <1>2. IInv /\ [Next]_vars => [Promise!Next]_([m \in Msgs |-> Stage(m)])
    <2>1. ASSUME UNCHANGED vars
          PROVE  UNCHANGED [m \in Msgs |-> Stage(m)]
      BY <2>1, NoneMoves DEF vars, Same
    <2> QED
      BY <2>1, StepDelivers, OtherDelivers DEF Next
  <1> QED
    BY <1>1, <1>2, Inductive, PTL DEF Spec, ImplementsDelivery, Promise!Spec
=============================================================================
