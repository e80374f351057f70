---------------------------- MODULE DaemonProofs ----------------------------
(***************************************************************************)
(* Proofs about what the daemon runs: its lease (DaemonLeader), for any    *)
(* number of daemons, and the overseer's loop (Orchestration), for any     *)
(* number of issues; each for any bounds.  The two parts share nothing.    *)
(***************************************************************************)
EXTENDS DaemonLeader, Orchestration, SequenceTheorems, FiniteSetTheorems, TLAPS
-----------------------------------------------------------------------------
(***************************************************************************)
(* DaemonLeader.  Where the lease is long enough for what a daemon does    *)
(* between two renewals, the owner stops its workers before anybody else   *)
(* can take the row.  TypeOK does not say it: the invariant Kept says how  *)
(* much of the lease is left at each point of the loop.                    *)
(***************************************************************************)

\* The lease outlives one wait, six bounded steps and two wrong clocks.
Timely == TTL > Interval + 6 * Lag + 2 * Skew

\* A clock that was read for a statement is not older than the statement.
ClockInv ==
  \A d \in Daemons : step[d] = "asking" =>
    /\ wait[d] <= Lag
    /\ reading[d] >= wait[d] - Lag - Skew

\* What the service's flags say of where it is.
FlagInv ==
  \A d \in Daemons :
    /\ working[d] => leader[d] \/ step[d] \in {"falling"} \cup Leaving
    /\ step[d] = "rising" => leader[d]
    /\ step[d] = "falling" => ~leader[d]
    /\ step[d] = "off" => ~leader[d] /\ ~working[d] /\ ~closing[d]
    /\ step[d] \in Leaving => closing[d]
    /\ closing[d] => MayShutDown

\* The longest that d may yet need the row, were its next request to fail.
Needed(d) ==
  CASE step[d] = "waiting" -> wait[d] + 3 * Lag
    [] step[d] = "asking" -> wait[d] + 2 * Lag
    [] step[d] = "granted" -> wait[d] + Interval + 4 * Lag
    [] step[d] = "rising" -> wait[d] + Interval + 3 * Lag
    [] step[d] = "refused" -> wait[d] + Lag
    [] step[d] = "falling" -> wait[d]
    [] OTHER -> 0

Relies(d) == step[d] \in Up /\ (leader[d] \/ step[d] \in {"granted", "falling"})

\* Nobody's clock shows the row lapsed while its owner still relies on it.
Kept(d) == Relies(d) => lease.owner = d /\ lease.left > Skew + Needed(d)

KeptInv == \A d \in Daemons : Kept(d)
-----------------------------------------------------------------------------
(* Type correctness.                                                        *)

TypeInv == TypeOK /\ ClockInv

\* Daemons start with their types in order.
LEMMA TypeInit == Init => TypeInv
BY DaemonLeaderAssumption
   DEF Init, TypeInv, TypeOK, ClockInv, Lapsed, Up, Leaving

(* What the variables range over, one daemon at a time.                     *)
LEMMA Typed ==
  ASSUME TypeOK, NEW d \in Daemons
  PROVE  /\ lease = [owner |-> lease.owner, left |-> lease.left]
         /\ lease.owner \in Daemons \cup {Nobody}
         /\ lease.left \in Int /\ lease.left >= Lapsed /\ lease.left <= Skew + TTL
         /\ wait[d] \in Int /\ wait[d] >= 0
         /\ reading[d] \in Int /\ reading[d] >= Lapsed /\ reading[d] <= Skew
         /\ step[d] \in {"off"} \cup Up \cup Leaving
         /\ leader[d] \in BOOLEAN /\ working[d] \in BOOLEAN /\ closing[d] \in BOOLEAN
<1>1. lease \in [owner: Daemons \cup {Nobody}, left: Lapsed..(Skew + TTL)]
  BY DEF TypeOK
<1>2. lease.left \in Lapsed..(Skew + TTL) /\ reading[d] \in Lapsed..Skew
  BY <1>1 DEF TypeOK
<1>3. Lapsed \in Int /\ Skew \in Int /\ TTL \in Int
  BY DaemonLeaderAssumption DEF Lapsed
<1> QED
  BY <1>1, <1>2, <1>3 DEF TypeOK

(* The row a renewal writes is a value of its type.                         *)
LEMMA RenewedTyped ==
  ASSUME TypeOK, NEW d \in Daemons
  PROVE  /\ Renewed(d) \in [owner: Daemons \cup {Nobody}, left: Lapsed..(Skew + TTL)]
         /\ [owner |-> Nobody, left |-> Lapsed]
              \in [owner: Daemons \cup {Nobody}, left: Lapsed..(Skew + TTL)]
<1>1. reading[d] + TTL \in Lapsed..(Skew + TTL) /\ Lapsed \in Lapsed..(Skew + TTL)
  BY Typed, DaemonLeaderAssumption DEF Lapsed
<1> QED
  BY <1>1 DEF Renewed

\* A row that nobody owns any more is a row.
LEMMA DisownTyped ==
  ASSUME TypeOK, NEW d \in Daemons, Disown(d)
  PROVE  lease' \in [owner: Daemons \cup {Nobody}, left: Lapsed..(Skew + TTL)]
BY DEF Disown, TypeOK

\* Every step keeps the types, and the age of the clock that was read.
LEMMA TypeStep == TypeInv /\ [Next]_vars => TypeInv'
<1> SUFFICES ASSUME TypeInv, [Next]_vars
             PROVE  TypeInv'
  OBVIOUS
<1> USE DaemonLeaderAssumption
<1>0. TypeOK /\ ClockInv
  BY DEF TypeInv
<1>1. ASSUME NEW d \in Daemons,
             \/ Start(d) \/ Same(d) \/ Rise(d) \/ Fall(d) \/ Turned(d) \/ StartFails(d)
             \/ LoopEnds(d) \/ Shutdown(d)
      PROVE  TypeInv'
  <2>1. /\ leader' \in [Daemons -> BOOLEAN]
        /\ working' \in [Daemons -> BOOLEAN]
        /\ lacking' \in [Daemons -> BOOLEAN]
        /\ closing' \in [Daemons -> BOOLEAN]
    BY <1>0, <1>1 DEF Start, Same, Rise, Fall, Turned, StartFails, LoopEnds, Shutdown, local, TypeOK
  <2>2. UNCHANGED <<lease, reading>> /\ faults' \in 0..MaxFaults
    BY <1>0, <1>1 DEF Start, Same, Rise, Fall, Turned, StartFails, LoopEnds, Shutdown, Fault, local, TypeOK
  <2>3. \/ UNCHANGED <<step, wait>>
        \/ \E s \in {"waiting", "rising", "falling", "ended"}, t \in {Lag, Interval} : Go(d, s, t)
    BY <1>1 DEF Start, Same, Rise, Fall, Turned, StartFails, LoopEnds, Shutdown
  <2> QED
    BY <1>0, <2>1, <2>2, <2>3 DEF Go, TypeInv, TypeOK, ClockInv, Up, Leaving
<1>2. ASSUME NEW d \in Daemons, Ask(d)
      PROVE  TypeInv'
  <2>1. PICK s \in (-Skew)..Skew : reading' = [reading EXCEPT ![d] = s]
    BY <1>2 DEF Ask
  <2>2. s \in Lapsed..Skew /\ s >= Lag - Lag - Skew
    BY <2>1 DEF Lapsed
  <2> QED
    BY <1>0, <1>2, <2>1, <2>2 DEF Ask, Go, TypeInv, TypeOK, ClockInv, Up, Leaving
<1>3. ASSUME NEW d \in Daemons, Acquire(d) \/ AcquireFails(d)
      PROVE  TypeInv'
  <2>1. lease' \in [owner: Daemons \cup {Nobody}, left: Lapsed..(Skew + TTL)]
    BY <1>0, <1>3, RenewedTyped DEF Acquire, AcquireFails, TypeOK
  <2>2. \E s \in {"granted", "refused"} : Go(d, s, Lag)
    BY <1>3 DEF Acquire, AcquireFails
  <2>3. UNCHANGED local /\ faults' \in 0..MaxFaults
    BY <1>0, <1>3 DEF Acquire, AcquireFails, Fault, TypeOK
  <2> QED
    BY <1>0, <2>1, <2>2, <2>3 DEF Go, local, TypeInv, TypeOK, ClockInv, Up, Leaving
<1>4. ASSUME NEW d \in Daemons, Release(d) \/ StopWorkers(d) \/ Crash(d)
      PROVE  TypeInv'
  <2>1. lease' \in [owner: Daemons \cup {Nobody}, left: Lapsed..(Skew + TTL)]
    BY <1>0, <1>4, RenewedTyped, DisownTyped DEF Release, StopWorkers, Crash, TypeOK
  <2>2. faults' \in 0..MaxFaults
    BY <1>0, <1>4 DEF Release, StopWorkers, Crash, Fault, TypeOK
  <2>3. UNCHANGED reading
    BY <1>4 DEF Release, StopWorkers, Crash, Gone
  <2>4. Go(d, "released", Lag) \/ Go(d, "off", 0)
    BY <1>4 DEF Release, StopWorkers, Crash, Gone
  <2>5. /\ leader' \in [Daemons -> BOOLEAN]
        /\ working' \in [Daemons -> BOOLEAN]
        /\ lacking' \in [Daemons -> BOOLEAN]
        /\ closing' \in [Daemons -> BOOLEAN]
    BY <1>0, <1>4 DEF Release, StopWorkers, Crash, Gone, TypeOK
  <2> QED
    BY <1>0, <2>1, <2>2, <2>3, <2>4, <2>5 DEF Go, TypeInv, TypeOK, ClockInv, Up, Leaving
<1>5. CASE Tick
  <2>1. lease' \in [owner: Daemons \cup {Nobody}, left: Lapsed..(Skew + TTL)]
    <3>1. lease.left \in Lapsed..(Skew + TTL) /\ Lapsed \in Int
      BY <1>0 DEF TypeOK, Lapsed
    <3>2. (IF lease.left > Lapsed THEN lease.left - 1 ELSE lease.left) \in Lapsed..(Skew + TTL)
      BY <3>1
    <3> QED
      BY <1>0, <1>5, <3>2 DEF Tick, TypeOK
  <2>2. ASSUME NEW d \in Daemons
        PROVE  /\ wait'[d] \in Int /\ wait'[d] >= 0 /\ (wait'[d] <= Interval \/ wait'[d] <= Lag)
               /\ reading'[d] \in Lapsed..Skew
               /\ step[d] = "asking" => wait'[d] <= Lag /\ reading'[d] >= wait'[d] - Lag - Skew
    BY <1>0, <1>5, Typed DEF Tick, TypeOK, ClockInv, Lapsed
  <2>3. wait' \in [Daemons -> Int] /\ reading' \in [Daemons -> Lapsed..Skew]
    BY <1>5, <2>2 DEF Tick
  <2> QED
    BY <1>0, <1>5, <2>1, <2>2, <2>3 DEF Tick, TypeInv, TypeOK, ClockInv
<1>6. CASE UNCHANGED vars
  BY <1>0, <1>6 DEF vars, local, TypeInv, TypeOK, ClockInv
<1> QED
  BY <1>1, <1>2, <1>3, <1>4, <1>5, <1>6 DEF Next, LoopStep, FaultStep

(* The row, the clocks and the services are always of their types.          *)
THEOREM TypeCorrect == Spec => []TypeOK
<1>1. TypeInv => TypeOK
  BY DEF TypeInv
<1> QED
  BY TypeInit, TypeStep, <1>1, PTL DEF Spec
-----------------------------------------------------------------------------
(* The flags of a service agree with where it is.                           *)

\* No flag is set at the start.
LEMMA FlagInit == Init => FlagInv
BY DEF Init, FlagInv, Up, Leaving

\* The flags of a service follow where it is.
LEMMA FlagStep == TypeInv /\ FlagInv /\ [Next]_vars => FlagInv'
<1> SUFFICES ASSUME TypeOK, FlagInv, [Next]_vars
             PROVE  FlagInv'
  BY DEF TypeInv
<1> USE DEF Go, local, FlagInv, Up, Leaving
<1>1. ASSUME NEW d \in Daemons, Start(d) \/ Ask(d) \/ Acquire(d) \/ AcquireFails(d) \/ Same(d)
      PROVE  FlagInv'
  BY <1>1 DEF Start, Ask, Acquire, AcquireFails, Same, TypeOK
<1>2. ASSUME NEW d \in Daemons, Rise(d) \/ Fall(d) \/ Turned(d) \/ StartFails(d)
      PROVE  FlagInv'
  BY <1>2 DEF Rise, Fall, Turned, StartFails, TypeOK
<1>3. ASSUME NEW d \in Daemons, Shutdown(d) \/ LoopEnds(d) \/ Release(d)
      PROVE  FlagInv'
  BY <1>3 DEF Shutdown, LoopEnds, Release, TypeOK
<1>4. ASSUME NEW d \in Daemons, StopWorkers(d) \/ Crash(d)
      PROVE  FlagInv'
  BY <1>4 DEF StopWorkers, Crash, Gone, TypeOK
<1>5. CASE Tick
  BY <1>5 DEF Tick
<1>6. CASE UNCHANGED vars
  BY <1>6 DEF vars
<1> QED
  BY <1>1, <1>2, <1>3, <1>4, <1>5, <1>6 DEF Next, LoopStep, FaultStep

-----------------------------------------------------------------------------
(* The row stays with whoever relies on it.                                 *)

(* Another daemon is refused the row while it is relied on.                 *)
LEMMA Refused ==
  ASSUME TypeOK, KeptInv, NEW d \in Daemons, NEW e \in Daemons, d # e, Relies(e)
  PROVE  ~MayTake(d)
<1>1. lease.owner = e /\ lease.left > Skew + Needed(e)
  BY DEF KeptInv, Kept
<1>2. Needed(e) \in Int /\ Needed(e) >= 0
  BY Typed, DaemonLeaderAssumption DEF Needed, Up, Leaving
<1> QED
  BY <1>1, <1>2, Typed, DaemonLeaderAssumption DEF MayTake

(* A renewal is long enough for the loop to come round again.               *)
LEMMA LongEnough ==
  ASSUME Timely, TypeInv, NEW d \in Daemons, step[d] = "asking"
  PROVE  Renewed(d).left > Skew + Lag + Interval + 4 * Lag
BY Typed, DaemonLeaderAssumption DEF Timely, TypeInv, ClockInv, Renewed

(* What another daemon's step leaves of a row that is relied on.            *)
LEMMA LeftAlone ==
  ASSUME TypeOK, KeptInv, NEW d \in Daemons, NEW e \in Daemons, d # e, Relies(e),
         \/ UNCHANGED lease
         \/ MayTake(d) /\ lease' = Renewed(d)
         \/ Disown(d)
         \/ lease' = IF lease.owner = d THEN [owner |-> Nobody, left |-> Lapsed] ELSE lease
  PROVE  UNCHANGED lease
BY Refused DEF KeptInv, Kept, Disown

\* Nobody relies on the row at the start.
LEMMA KeptInit == Init => KeptInv
BY DEF Init, KeptInv, Kept, Relies, Up

\* Every step leaves as much of the lease as whoever relies on it may need.
LEMMA KeptStep == Timely /\ TypeInv /\ FlagInv /\ KeptInv /\ [Next]_vars => KeptInv'
<1> SUFFICES ASSUME Timely, TypeInv, FlagInv, KeptInv, [Next]_vars
             PROVE  KeptInv'
  OBVIOUS
<1> USE DaemonLeaderAssumption
<1>0. TypeOK
  BY DEF TypeInv
<1>1. ASSUME NEW d \in Daemons, LoopStep(d) \/ Start(d) \/ FaultStep(d),
             NEW e \in Daemons, e # d, Relies(e)'
      PROVE  Kept(e)'
  <2>1. /\ step'[e] = step[e] /\ wait'[e] = wait[e] /\ leader'[e] = leader[e]
    BY <1>0, <1>1 DEF LoopStep, FaultStep, Start, Ask, Acquire, AcquireFails, Same, Rise, Fall, Turned, StartFails,
                      LoopEnds, Release, StopWorkers, Shutdown, Crash, Gone, Go, local, TypeOK
  <2>2. Relies(e)
    BY <1>1, <2>1 DEF Relies
  <2>3. UNCHANGED lease
    BY <1>0, <1>1, <2>2, LeftAlone
       DEF LoopStep, FaultStep, Start, Ask, Acquire, AcquireFails, Same, Rise, Fall, Turned, StartFails,
           LoopEnds, Release, StopWorkers, Shutdown, Crash
  <2> QED
    BY <2>1, <2>2, <2>3 DEF KeptInv, Kept, Needed, Relies
<1>2. ASSUME NEW d \in Daemons, Start(d) \/ LoopEnds(d) \/ Release(d) \/ StopWorkers(d) \/ Crash(d)
      PROVE  Kept(d)'
  BY <1>0, <1>2 DEF Start, LoopEnds, Release, StopWorkers, Crash, Gone, Go, local, Kept, Relies,
                    Up, TypeOK, FlagInv
<1>3. ASSUME NEW d \in Daemons,
             Ask(d) \/ Same(d) \/ Rise(d) \/ Fall(d) \/ Turned(d) \/ StartFails(d) \/ Shutdown(d)
      PROVE  Kept(d)'
  <2> USE <1>0, Typed DEF Go, local, KeptInv, Kept, Relies, Needed, Up, TypeOK, FlagInv
  <2>1. CASE Ask(d)
    BY <2>1 DEF Ask
  <2>2. CASE Same(d)
    BY <2>2 DEF Same
  <2>3. CASE Rise(d)
    BY <2>3 DEF Rise
  <2>4. CASE Fall(d)
    BY <2>4 DEF Fall
  <2>5. CASE Turned(d) \/ StartFails(d)
    BY <2>5 DEF Turned, StartFails
  <2>6. CASE Shutdown(d)
    BY <2>6 DEF Shutdown
  <2> QED
    BY <1>3, <2>1, <2>2, <2>3, <2>4, <2>5, <2>6
<1>4. ASSUME NEW d \in Daemons, Acquire(d) \/ AcquireFails(d)
      PROVE  Kept(d)'
  <2>1. step[d] = "asking" /\ UNCHANGED leader
    BY <1>4 DEF Acquire, AcquireFails, local
  <2>2. (Go(d, "granted", Lag) /\ lease' = Renewed(d)) \/ Go(d, "refused", Lag)
    BY <1>4 DEF Acquire, AcquireFails
  <2>3. step'[d] \in {"granted", "refused"} /\ wait'[d] = Lag
    BY <1>0, <2>2 DEF Go, TypeOK
  <2>4. CASE lease' = Renewed(d)
    <3>1. lease'.owner = d /\ lease'.left > Skew + Lag + Interval + 4 * Lag
      BY <2>1, <2>4, LongEnough DEF Renewed
    <3> QED
      BY <1>0, <2>3, <3>1, Typed, RenewedTyped, <2>4 DEF Kept, Needed, Renewed
  <2>5. CASE UNCHANGED lease /\ Go(d, "refused", Lag)
    BY <1>0, <2>1, <2>5, Typed DEF Go, KeptInv, Kept, Relies, Needed, Up, TypeOK
  <2> QED
    BY <1>4, <2>4, <2>5 DEF Acquire, AcquireFails
<1>5. CASE Tick
  <2> SUFFICES ASSUME NEW d \in Daemons, Relies(d)
               PROVE  Kept(d)'
    BY <1>5 DEF Tick, KeptInv, Kept, Relies
  <2>1. lease.owner = d /\ lease.left > Skew + Needed(d)
    BY DEF KeptInv, Kept
  <2>2. step'[d] = step[d] /\ wait'[d] = wait[d] - 1 /\ lease'.owner = d
        /\ lease'.left >= lease.left - 1 /\ lease'.left \in Int
    BY <1>0, <1>5, <2>1, Typed DEF Tick, Relies, Up, TypeOK
  <2>3. Needed(d)' = Needed(d) - 1 /\ Needed(d) \in Int
    BY <1>0, <2>2, Typed DEF Relies, Needed, Up
  <2> QED
    BY <1>0, <2>1, <2>2, <2>3, Typed DEF Kept
<1>6. CASE UNCHANGED vars
  BY <1>6 DEF vars, local, KeptInv, Kept, Relies, Needed
<1> QED
  BY <1>1, <1>2, <1>3, <1>4, <1>5, <1>6 DEF Next, LoopStep, FaultStep, KeptInv, Kept

-----------------------------------------------------------------------------
LeaderInv == TypeInv /\ FlagInv /\ KeptInv

\* The three invariants hold together where the lease is long enough.
LEMMA LeaderInvariant == Timely => (Spec => []LeaderInv)
<1> SUFFICES ASSUME Timely
             PROVE  Spec => []LeaderInv
  OBVIOUS
<1>1. Init => LeaderInv
  BY TypeInit, FlagInit, KeptInit DEF LeaderInv
<1>2. LeaderInv /\ [Next]_vars => LeaderInv'
  BY TypeStep, FlagStep, KeptStep DEF LeaderInv
<1> QED
  BY <1>1, <1>2, PTL DEF Spec

(* A daemon that is up and whose workers run relies on the row.             *)
LEMMA WorkersRely ==
  ASSUME LeaderInv, NEW d \in Daemons, working[d], ~closing[d]
  PROVE  lease.owner = d
BY DEF LeaderInv, TypeInv, TypeOK, FlagInv, KeptInv, Kept, Relies, Up, Leaving

(* Where the lease outlives what a daemon does between two renewals, the    *)
(* workers of two machines run at once only while one of them shuts down.   *)
THEOREM Overlap == Timely => (Spec => []OverlapOnlyAtShutdown)
<1>1. LeaderInv => OverlapOnlyAtShutdown
  BY WorkersRely DEF OverlapOnlyAtShutdown, LeaderInv, TypeInv, TypeOK
<1> QED
  BY LeaderInvariant, <1>1, PTL

(* And if services are only ever killed, they never do.                     *)
THEOREM OneLeader == Timely /\ ~MayShutDown => (Spec => []SingleLeader)
<1> SUFFICES ASSUME Timely, ~MayShutDown
             PROVE  Spec => []SingleLeader
  OBVIOUS
<1>1. LeaderInv => SingleLeader
  BY WorkersRely DEF SingleLeader, LeaderInv, TypeInv, TypeOK, FlagInv
<1> QED
  BY LeaderInvariant, <1>1, PTL
-----------------------------------------------------------------------------
(***************************************************************************)
(* Orchestration.  That strays have causes is not inductive: while the     *)
(* overseer has events to record on a card, each of them may make the card *)
(* show another child and leave the one it shows behind.  The invariant    *)
(* books them beforehand: the live children of an issue that are not being *)
(* recorded, the one its card shows included, and the events to come are   *)
(* together at most one more than the causes.  An issue is only put on a   *)
(* list when its card shows no live child, or for a cause.                 *)
(***************************************************************************)

\* The hand holds the start of child n.
InHand(n) == hand.event.lane = "Running" /\ hand.event.run = n

\* Live children of i that the overseer is not recording, its card's included.
Loose(i) == {n \in Runs : Live(n) /\ children[n].issue = i /\ ~InHand(n)}

Times(w, i) == Cardinality({k \in 1..Len(w) : w[k].issue = i})

\* Events that the overseer has yet to record on the card of i in this phase.
Coming(i) ==
  CASE phase \in {"recovering", "todos", "dispatching"} -> Times(work, i)
    [] phase = "reconciling" -> IF hand # Nothing /\ hand.event.issue = i THEN 1 ELSE 0
    [] OTHER -> 0

\* Whatever its card shows then, all but the last of them may each leave one
\* more child behind.
Booked(i) ==
  IF Coming(i) = 0 THEN Cardinality(Strays(i)) <= causes[i]
                   ELSE Cardinality(Loose(i)) + Coming(i) <= causes[i] + 1

Accounted == \A i \in Issues : Booked(i)

HandInStep ==
  /\ hand.at \in {"empty", "made", "logged"}
  /\ hand.at = "empty" => hand = Nothing
  /\ hand # Nothing =>
       /\ phase \in {"recovering", "reconciling", "dispatching"}
       /\ work # <<>>
       /\ phase # "reconciling" => Head(work).issue = hand.event.issue
       /\ hand.event.issue \in Issues
       /\ hand.at = "made" => phase = "dispatching"
  /\ hand.event.lane = "Running" =>
       /\ phase = "dispatching"
       /\ hand # Nothing
       /\ hand.event.run \in Runs => children[hand.event.run].issue = hand.event.issue

Phases == {"idle", "recovering", "reconciling", "retries", "todos", "dispatching"}

\* A list, whatever it lists.
IsList(w) == \E S : w \in Seq(S)

WorkInStep ==
  /\ phase \in Phases
  /\ IsList(work)
  /\ phase \in {"idle", "retries"} => work = <<>>
  /\ phase = "recovering" =>
       \A k \in 1..Len(work) : work[k].lane # "Running" /\ work[k].issue \in Issues
  /\ phase \in {"todos", "dispatching"} => \A k \in 1..Len(work) : work[k].issue \in Issues
  /\ phase = "reconciling" =>
       \A k \in 1..Len(work) : work[k] \in Runs /\ children[work[k]].issue \in Issues

\* Tables have their keys, and records their fields.
Shapes ==
  /\ cards = [i \in Issues |-> cards[i]]
  /\ \A i \in Issues : cards[i] =
       [lane |-> cards[i].lane, run |-> cards[i].run, attempt |-> cards[i].attempt,
        due |-> cards[i].due, young |-> cards[i].young]
  /\ children = [n \in Runs |-> children[n]]
  /\ \A n \in Runs : children[n] =
       [issue |-> children[n].issue, attempt |-> children[n].attempt, status |-> children[n].status]
  /\ \A n \in Runs : Listed(n) => children[n].issue \in Issues
  /\ hand = [at |-> hand.at, event |-> hand.event]
  /\ causes \in [Issues -> Nat]

\* The inductive invariant.
OrchestrationInv == Shapes /\ HandInStep /\ WorkInStep /\ Accounted
-----------------------------------------------------------------------------
(* Counting.                                                               *)

(* One more element, counted once more at most.                            *)
LEMMA OneMore ==
  ASSUME NEW B, IsFiniteSet(B), NEW A, NEW x, A \subseteq B \cup {x}
  PROVE  Cardinality(A) <= Cardinality(B) + 1
<1>1. IsFiniteSet(B \cup {x}) /\ Cardinality(B \cup {x}) <= Cardinality(B) + 1
  <2>1. Cardinality(B) \in Nat
    BY FS_CardinalityType
  <2> QED
    BY <2>1, FS_AddElement
<1>2. IsFiniteSet(A) /\ Cardinality(A) <= Cardinality(B \cup {x})
  BY <1>1, FS_Subset
<1>3. Cardinality(A) \in Nat /\ Cardinality(B) \in Nat /\ Cardinality(B \cup {x}) \in Nat
  BY <1>1, <1>2, FS_CardinalityType
<1> QED
  BY <1>1, <1>2, <1>3

(* How often a list names an issue.                                        *)
LEMMA Places ==
  ASSUME NEW w, IsList(w), NEW i
  PROVE  /\ Len(w) \in Nat
         /\ IsFiniteSet({k \in 1..Len(w) : w[k].issue = i})
         /\ Times(w, i) \in Nat
         /\ Times(w, i) = 0 <=> \A k \in 1..Len(w) : w[k].issue # i
<1> DEFINE P == {k \in 1..Len(w) : w[k].issue = i}
<1>1. PICK S : w \in Seq(S)
  BY DEF IsList
<1>2. Len(w) \in Nat
  BY <1>1, LenProperties
<1>3. IsFiniteSet(1..Len(w))
  BY <1>2, FS_Interval
<1>4. IsFiniteSet(P)
  BY <1>3, FS_Subset
<1>5. Cardinality(P) \in Nat /\ (Cardinality(P) = 0 <=> P = {})
  BY <1>4, FS_CardinalityType, FS_EmptySet
<1>6. Times(w, i) = Cardinality(P)
  BY DEF Times
<1>7. P = {} <=> \A k \in 1..Len(w) : w[k].issue # i
  OBVIOUS
<1> QED
  BY <1>2, <1>4, <1>5, <1>6, <1>7

(* What is left of a list names an issue no more often, and less often     *)
(* when it was the first.                                                  *)
LEMMA TimesTail ==
  ASSUME NEW w, IsList(w), w # <<>>, NEW i
  PROVE  /\ IsList(Tail(w))
         /\ Len(Tail(w)) = Len(w) - 1
         /\ \A k \in 1..Len(Tail(w)) : Tail(w)[k] = w[k + 1] /\ k + 1 \in 1..Len(w)
         /\ Times(Tail(w), i) <= Times(w, i)
         /\ Head(w).issue = i => Times(Tail(w), i) + 1 <= Times(w, i)
<1> DEFINE v == Tail(w)
           A == {k \in 1..Len(v) : v[k].issue = i}
           B == {k \in 1..Len(w) : w[k].issue = i}
           C == B \ {1}
           f == [k \in A |-> k + 1]
<1>1. PICK S : w \in Seq(S)
  BY DEF IsList
<1>2. /\ v \in Seq(S) /\ Len(v) = Len(w) - 1
      /\ \A k \in 1..Len(v) : v[k] = w[k + 1]
  BY <1>1, HeadTailProperties
<1>3. IsList(v)
  BY <1>2 DEF IsList
<1>4. Len(w) \in Nat /\ Len(v) \in Nat /\ IsFiniteSet(B) /\ IsFiniteSet(A)
  BY <1>3, Places
<1>5. IsFiniteSet(C) /\ Cardinality(C) = IF 1 \in B THEN Cardinality(B) - 1 ELSE Cardinality(B)
  BY <1>4, FS_RemoveElement
<1>6. \A k \in A : k \in Nat /\ k + 1 \in C
  <2> SUFFICES ASSUME NEW k \in A PROVE k \in Nat /\ k + 1 \in C
    OBVIOUS
  <2>1. k \in Nat /\ k >= 1 /\ k <= Len(v)
    BY <1>4
  <2>2. k + 1 \in 1..Len(w) /\ k + 1 # 1
    BY <1>2, <1>4, <2>1
  <2>3. v[k] = w[k + 1] /\ v[k].issue = i
    BY <1>2
  <2> QED
    BY <2>1, <2>2, <2>3
<1>7. f \in Injection(A, C)
  <2>1. f \in [A -> C]
    BY <1>6
  <2>2. ASSUME NEW k \in A, NEW l \in A, f[k] = f[l]
        PROVE  k = l
    <3>1. k + 1 = l + 1 /\ k \in Nat /\ l \in Nat
      BY <1>6, <2>2
    <3> QED
      BY <3>1
  <2> QED
    BY <2>1, <2>2, FS_Injection DEF Injection, IsInjective
<1>8. Cardinality(A) <= Cardinality(C)
  <2> HIDE DEF A, C, f
  <2> QED
    BY <1>5, <1>7, FS_Injection
<1>9. Times(v, i) = Cardinality(A) /\ Times(w, i) = Cardinality(B)
  BY DEF Times
<1>10. Head(w).issue = i => 1 \in B
  <2>1. Len(w) # 0 /\ Head(w) = w[1]
    BY <1>1, EmptySeq
  <2> QED
    BY <1>4, <2>1
<1>11. Cardinality(A) \in Nat /\ Cardinality(B) \in Nat /\ Cardinality(C) \in Nat
  BY <1>4, <1>5, FS_CardinalityType
<1>12. \A k \in 1..Len(v) : k + 1 \in 1..Len(w)
  BY <1>2, <1>4
<1>13. Times(v, i) <= Times(w, i)
  <2> HIDE DEF A, B, C
  <2> QED
    BY <1>5, <1>8, <1>9, <1>11
<1>14. Head(w).issue = i => Times(v, i) + 1 <= Times(w, i)
  <2> HIDE DEF A, B, C
  <2> QED
    BY <1>5, <1>8, <1>9, <1>10, <1>11
<1> QED
  BY <1>2, <1>3, <1>12, <1>13, <1>14

(* A list of issues, each named once at most.                              *)
LEMMA TimesOnce ==
  ASSUME NEW w, IsList(w), NEW i,
         \A k \in 1..Len(w), l \in 1..Len(w) : k # l => w[k].issue # w[l].issue
  PROVE  Times(w, i) <= 1
<1> DEFINE P == {k \in 1..Len(w) : w[k].issue = i}
<1>1. CASE P = {}
  <2>1. Cardinality(P) = 0
    BY <1>1, FS_EmptySet
  <2> QED
    BY <2>1 DEF Times
<1>2. CASE P # {}
  <2>1. PICK k \in P : TRUE
    BY <1>2
  <2>2. P = {k}
    BY <2>1
  <2>3. Cardinality(P) = 1
    BY <2>2, FS_Singleton
  <2> QED
    BY <2>3 DEF Times
<1> QED
  BY <1>1, <1>2

(* Listing an issue once more.                                             *)
LEMMA TimesConcat ==
  ASSUME NEW w, IsList(w), NEW v, IsList(v), NEW i,
         \A k \in 1..Len(v), l \in 1..Len(v) : k # l => v[k].issue # v[l].issue
  PROVE  /\ IsList(w \o v)
         /\ Len(w \o v) = Len(w) + Len(v)
         /\ \A k \in 1..Len(w \o v) :
              \/ k \in 1..Len(w) /\ (w \o v)[k] = w[k]
              \/ k - Len(w) \in 1..Len(v) /\ (w \o v)[k] = v[k - Len(w)]
         /\ Times(w \o v, i) <= Times(w, i) + 1
         /\ (\A k \in 1..Len(v) : v[k].issue # i) => Times(w \o v, i) <= Times(w, i)
<1> DEFINE u == w \o v
           A == {k \in 1..Len(u) : u[k].issue = i}
           B == {k \in 1..Len(w) : w[k].issue = i}
<1>1. PICK S, T : w \in Seq(S) /\ v \in Seq(T)
  BY DEF IsList
<1>2. w \in Seq(S \cup T) /\ v \in Seq(S \cup T)
  BY <1>1, SeqMonotonic
<1>3. /\ u \in Seq(S \cup T) /\ Len(u) = Len(w) + Len(v)
      /\ \A k \in 1..Len(w) + Len(v) : u[k] = IF k <= Len(w) THEN w[k] ELSE v[k - Len(w)]
  BY <1>2, ConcatProperties
<1>4. IsList(u)
  BY <1>3 DEF IsList
<1>5. Len(w) \in Nat /\ Len(v) \in Nat /\ IsFiniteSet(B) /\ IsFiniteSet(A)
  BY <1>4, Places
<1>6. \A k \in 1..Len(u) :
        \/ k \in 1..Len(w) /\ u[k] = w[k]
        \/ k - Len(w) \in 1..Len(v) /\ u[k] = v[k - Len(w)]
  <2> SUFFICES ASSUME NEW k \in 1..Len(u)
               PROVE  \/ k \in 1..Len(w) /\ u[k] = w[k]
                      \/ k - Len(w) \in 1..Len(v) /\ u[k] = v[k - Len(w)]
    OBVIOUS
  <2>1. k \in Nat /\ k >= 1 /\ k <= Len(w) + Len(v) /\ k \in 1..Len(w) + Len(v)
    BY <1>3, <1>5
  <2>2. CASE k <= Len(w)
    BY <1>3, <1>5, <2>1, <2>2
  <2>3. CASE ~(k <= Len(w))
    <3>1. k - Len(w) \in 1..Len(v)
      BY <1>5, <2>1, <2>3
    <3> QED
      BY <1>3, <2>1, <2>3, <3>1
  <2> QED
    BY <2>2, <2>3
<1>7. Times(u, i) = Cardinality(A) /\ Times(w, i) = Cardinality(B)
  BY DEF Times
<1>8. ASSUME \A k \in 1..Len(v) : v[k].issue # i
      PROVE  Times(u, i) <= Times(w, i)
  <2>1. A \subseteq B
    BY <1>6, <1>8
  <2> HIDE DEF A, B
  <2> QED
    BY <1>5, <1>7, <2>1, FS_Subset
<1>9. ASSUME NEW m \in 1..Len(v), v[m].issue = i
      PROVE  Times(u, i) <= Times(w, i) + 1
  <2>1. A \subseteq B \cup {Len(w) + m}
    <3> SUFFICES ASSUME NEW k \in A, k \notin B PROVE k = Len(w) + m
      OBVIOUS
    <3>1. k - Len(w) \in 1..Len(v) /\ v[k - Len(w)].issue = i
      BY <1>6
    <3>2. k - Len(w) = m
      BY <1>9, <3>1
    <3> QED
      BY <1>5, <3>1, <3>2
  <2> HIDE DEF A, B
  <2> QED
    BY <1>5, <1>7, <2>1, OneMore
<1>10. Times(w, i) \in Nat /\ Times(u, i) \in Nat
  BY <1>4, Places
<1>11. Times(u, i) <= Times(w, i) + 1
  BY <1>8, <1>9, <1>10
<1> QED
  BY <1>3, <1>4, <1>6, <1>8, <1>11

(* A listing in ascending order.                                           *)
LEMMA AscendingLists ==
  ASSUME NEW S, IsFiniteSet(S), S \subseteq Nat, NEW list \in Ascending(S)
  PROVE  /\ list \in Seq(S) /\ DOMAIN list = 1..Len(list)
         /\ \A k \in 1..Len(list) : list[k] \in S
         /\ \A k \in 1..Len(list), l \in 1..Len(list) : k # l => list[k] # list[l]
<1>1. Cardinality(S) \in Nat
  BY FS_CardinalityType
<1>2. /\ list \in [1..Cardinality(S) -> S]
      /\ \A k \in DOMAIN list, l \in DOMAIN list : k < l => list[k] < list[l]
  BY DEF Ascending
<1>3. list \in Seq(S)
  BY <1>1, <1>2, SeqDef
<1>4. Len(list) \in Nat /\ DOMAIN list = 1..Len(list) /\ list \in [1..Len(list) -> S]
  BY <1>3, LenProperties
<1>5. ASSUME NEW k \in 1..Len(list), NEW l \in 1..Len(list), k # l
      PROVE  list[k] # list[l]
  <2>1. list[k] \in Nat /\ list[l] \in Nat /\ k \in Nat /\ l \in Nat
    <3>1. k \in Nat /\ l \in Nat
      BY <1>4
    <3>2. list[k] \in S /\ list[l] \in S
      BY <1>4
    <3> QED
      BY <3>1, <3>2
  <2>2. k < l \/ l < k
    BY <1>5, <2>1
  <2>3. list[k] < list[l] \/ list[l] < list[k]
    BY <1>2, <1>4, <2>2
  <2> QED
    BY <2>1, <2>3
<1> QED
  BY <1>3, <1>4, <1>5

(* What the board lists: issues of the set, each once.                     *)
LEMMA CandidatesList ==
  ASSUME NEW S \in SUBSET Issues, NEW list \in Candidates(S)
  PROVE  /\ IsList(list)
         /\ \A k \in 1..Len(list) : list[k].issue \in S
         /\ \A k \in 1..Len(list), l \in 1..Len(list) : k # l => list[k].issue # list[l].issue
<1>1. NumIssues \in Nat
  BY OrchestrationAssumption
<1>2. IsFiniteSet(Issues) /\ S \subseteq Nat
  BY <1>1, FS_Interval DEF Issues
<1>3. IsFiniteSet(S)
  BY <1>2, FS_Subset
<1>4. PICK waiting \in Ascending(S) :
        list = [k \in DOMAIN waiting |-> [issue |-> waiting[k], attempt |-> cards[waiting[k]].attempt]]
  BY DEF Candidates
<1>5. /\ waiting \in Seq(S) /\ DOMAIN waiting = 1..Len(waiting)
      /\ \A k \in 1..Len(waiting) : waiting[k] \in S
      /\ \A k \in 1..Len(waiting), l \in 1..Len(waiting) : k # l => waiting[k] # waiting[l]
  BY <1>2, <1>3, AscendingLists
<1>6. Len(waiting) \in Nat
  BY <1>5, LenProperties
<1>7. /\ list \in [1..Len(waiting) -> {list[k] : k \in 1..Len(waiting)}]
      /\ \A k \in 1..Len(waiting) : list[k].issue = waiting[k]
  BY <1>4, <1>5
<1>8. list \in Seq({list[k] : k \in 1..Len(waiting)})
  BY <1>6, <1>7, SeqDef
<1>9. Len(list) = Len(waiting)
  <2>1. DOMAIN list = 1..Len(list) /\ Len(list) \in Nat
    BY <1>8, LenProperties
  <2>2. DOMAIN list = 1..Len(waiting)
    BY <1>7
  <2> QED
    BY <1>6, <2>1, <2>2
<1>10. IsList(list)
  BY <1>8 DEF IsList
<1> QED
  BY <1>5, <1>7, <1>9, <1>10
-----------------------------------------------------------------------------
(* Strays and loose children.                                              *)

(* Sets of children are finite.                                            *)
LEMMA RunSets ==
  ASSUME NEW A, A \subseteq Runs
  PROVE  IsFiniteSet(A) /\ Cardinality(A) \in Nat
<1>1. IsFiniteSet(Runs)
  BY OrchestrationAssumption, FS_Interval DEF Runs
<1> QED
  BY <1>1, FS_Subset, FS_CardinalityType

(* A part of a set of children is no larger.                               *)
LEMMA NoMore ==
  ASSUME NEW A, NEW B, A \subseteq B, B \subseteq Runs
  PROVE  Cardinality(A) <= Cardinality(B)
<1>1. IsFiniteSet(B)
  BY RunSets
<1> QED
  BY <1>1, FS_Subset

(* A child that the card does not show is loose.                           *)
LEMMA Counted ==
  ASSUME NEW i
  PROVE  /\ Loose(i) \subseteq Runs /\ Strays(i) \subseteq Loose(i)
         /\ Loose(i)' \subseteq Runs /\ Strays(i)' \subseteq Loose(i)'
         /\ Cardinality(Loose(i)) \in Nat /\ Cardinality(Strays(i)) \in Nat
         /\ Cardinality(Loose(i)') \in Nat /\ Cardinality(Strays(i)') \in Nat
         /\ Cardinality(Strays(i)) <= Cardinality(Loose(i))
         /\ Cardinality(Strays(i)') <= Cardinality(Loose(i)')
<1>1. Loose(i) \subseteq Runs /\ Strays(i) \subseteq Loose(i)
  BY DEF Loose, Strays, InHand
<1>2. Loose(i)' \subseteq Runs /\ Strays(i)' \subseteq Loose(i)'
  BY DEF Loose, Strays, InHand
<1>3. Strays(i) \subseteq Runs /\ Strays(i)' \subseteq Runs
  BY <1>1, <1>2
<1> QED
  BY <1>1, <1>2, <1>3, RunSets, NoMore

(* The live child that a card shows is the one that is loose and no stray. *)
LEMMA ShownOnly ==
  ASSUME NEW i
  PROVE  /\ Loose(i) \subseteq Strays(i) \cup {cards[i].run}
         /\ ~Running(i) => Loose(i) \subseteq Strays(i)
         /\ ~Alive(i) => Loose(i) \subseteq Strays(i)
BY DEF Loose, Strays, InHand, IsRunOf, Alive, HasChild, Listed, Live

(* What is to come is counted, before a step and after it.                 *)
LEMMA ComingCounts ==
  ASSUME NEW i
  PROVE  /\ WorkInStep => Coming(i) \in Nat
         /\ WorkInStep' => Coming(i)' \in Nat
<1>1. WorkInStep => IsList(work)
  BY DEF WorkInStep
<1>2. WorkInStep' => IsList(work')
  BY DEF WorkInStep, IsList
<1>3. WorkInStep => Times(work, i) \in Nat
  BY <1>1, Places
<1>4. WorkInStep' => Times(work', i) \in Nat
  BY <1>2, Places
<1>5. WorkInStep => Coming(i) \in Nat
  BY <1>3 DEF Coming
<1>6. Times(work, i)' = Times(work', i)
  BY DEF Times
<1>7. WorkInStep' => Coming(i)' \in Nat
  BY <1>4, <1>6 DEF Coming
<1> QED
  BY <1>5, <1>7
-----------------------------------------------------------------------------
(* Keeping account.  With events still to come on the card of i, only its  *)
(* loose children matter.                                                  *)
LEMMA StillComing ==
  ASSUME NEW i \in Issues, OrchestrationInv, Shapes', WorkInStep',
         Coming(i) # 0, Coming(i)' <= Coming(i),
         Cardinality(Loose(i)') + causes[i] <= Cardinality(Loose(i)) + causes'[i]
  PROVE  Booked(i)'
<1>1. Coming(i) \in Nat /\ Coming(i)' \in Nat
  BY ComingCounts DEF OrchestrationInv
<1>2. causes[i] \in Nat /\ causes'[i] \in Nat
  BY DEF OrchestrationInv, Shapes
<1>3. Cardinality(Loose(i)) + Coming(i) <= causes[i] + 1
  BY DEF OrchestrationInv, Accounted, Booked
<1> DEFINE L == Cardinality(Loose(i))
           LL == Cardinality(Loose(i)')
           SS == Cardinality(Strays(i)')
<1>4. L \in Nat /\ LL \in Nat /\ SS \in Nat /\ SS <= LL
  BY Counted
<1>5. Booked(i)' = IF Coming(i)' = 0 THEN SS <= causes'[i] ELSE LL + Coming(i)' <= causes'[i] + 1
  BY DEF Booked
<1> HIDE DEF L, LL, SS
<1>6. L + Coming(i) <= causes[i] + 1 /\ LL + causes[i] <= L + causes'[i]
  BY <1>3 DEF L, LL
<1>7. LL + Coming(i)' <= causes'[i] + 1
  BY <1>1, <1>2, <1>4, <1>6
<1>8. SS <= causes'[i]
  BY <1>1, <1>2, <1>4, <1>6
<1> QED
  BY <1>5, <1>7, <1>8

(* One more is to come, for a cause.                                       *)
LEMMA OneMoreComing ==
  ASSUME NEW i \in Issues, OrchestrationInv, Shapes', WorkInStep',
         Coming(i) # 0, Coming(i)' # 0, Coming(i)' <= Coming(i) + 1,
         Loose(i)' = Loose(i), causes'[i] = causes[i] + 1
  PROVE  Booked(i)'
<1>1. Coming(i) \in Nat /\ Coming(i)' \in Nat
  BY ComingCounts DEF OrchestrationInv
<1>2. causes[i] \in Nat
  BY DEF OrchestrationInv, Shapes
<1>3. Cardinality(Loose(i)) + Coming(i) <= causes[i] + 1
  BY DEF OrchestrationInv, Accounted, Booked
<1>4. Cardinality(Loose(i)) \in Nat
  BY Counted
<1>5. Cardinality(Loose(i)) + Coming(i)' <= causes'[i] + 1
  BY <1>1, <1>2, <1>3, <1>4
<1> QED
  BY <1>5 DEF Booked

(* Nothing to come before or after.                                        *)
LEMMA NothingComing ==
  ASSUME NEW i \in Issues, OrchestrationInv, Shapes',
         Coming(i) = 0, Coming(i)' = 0,
         Cardinality(Strays(i)') + causes[i] <= Cardinality(Strays(i)) + causes'[i]
  PROVE  Booked(i)'
<1>1. causes[i] \in Nat /\ causes'[i] \in Nat
  BY DEF OrchestrationInv, Shapes
<1>2. Cardinality(Strays(i)) <= causes[i]
  BY DEF OrchestrationInv, Accounted, Booked
<1>3. Cardinality(Strays(i)) \in Nat /\ Cardinality(Strays(i)') \in Nat
  BY Counted
<1>4. Cardinality(Strays(i)') <= causes'[i]
  BY <1>1, <1>2, <1>3
<1> QED
  BY <1>4 DEF Booked

(* The first is to come on a card that shows no live child.                *)
LEMMA FirstComing ==
  ASSUME NEW i \in Issues, OrchestrationInv, Shapes', WorkInStep',
         Coming(i) = 0, Coming(i)' <= 1,
         Loose(i)' \subseteq Strays(i), causes'[i] = causes[i]
  PROVE  Booked(i)'
<1>1. Coming(i)' \in Nat
  BY ComingCounts
<1>2. causes[i] \in Nat
  BY DEF OrchestrationInv, Shapes
<1>3. Cardinality(Strays(i)) <= causes[i]
  BY DEF OrchestrationInv, Accounted, Booked
<1>4. Cardinality(Loose(i)') <= Cardinality(Strays(i))
  BY Counted, NoMore
<1>5. /\ Cardinality(Strays(i)) \in Nat /\ Cardinality(Loose(i)') \in Nat
      /\ Cardinality(Strays(i)') \in Nat /\ Cardinality(Strays(i)') <= Cardinality(Loose(i)')
  BY Counted
<1>6. Cardinality(Strays(i)') <= causes'[i] /\ Cardinality(Loose(i)') + Coming(i)' <= causes'[i] + 1
  BY <1>1, <1>2, <1>3, <1>4, <1>5
<1> QED
  BY <1>6 DEF Booked

(* One that was to come is recorded.                                       *)
LEMMA OneCame ==
  ASSUME NEW i \in Issues, OrchestrationInv, Shapes', WorkInStep',
         Coming(i)' + 1 <= Coming(i), causes'[i] >= causes[i],
         Cardinality(Loose(i)') <= Cardinality(Loose(i)) + 1,
         Cardinality(Strays(i)') + causes[i] <= Cardinality(Loose(i)) + causes'[i]
  PROVE  Booked(i)'
<1>1. Coming(i) \in Nat /\ Coming(i)' \in Nat
  BY ComingCounts DEF OrchestrationInv
<1>2. causes[i] \in Nat /\ causes'[i] \in Nat
  BY DEF OrchestrationInv, Shapes
<1>3. Coming(i) # 0
  BY <1>1
<1>4. Cardinality(Loose(i)) + Coming(i) <= causes[i] + 1
  BY <1>3 DEF OrchestrationInv, Accounted, Booked
<1>5. /\ Cardinality(Loose(i)) \in Nat /\ Cardinality(Loose(i)') \in Nat
      /\ Cardinality(Strays(i)') \in Nat
  BY Counted
<1>6. Cardinality(Loose(i)') + Coming(i)' <= causes'[i] + 1
  BY <1>1, <1>2, <1>4, <1>5
<1>7. Cardinality(Strays(i)') <= causes'[i]
  BY <1>1, <1>2, <1>4, <1>5
<1> QED
  BY <1>6, <1>7 DEF Booked

(* A step that brings nothing more and lets no child loose.                *)
LEMMA NothingLoose ==
  ASSUME NEW i \in Issues, OrchestrationInv, Shapes', WorkInStep',
         Coming(i)' <= Coming(i), causes'[i] >= causes[i],
         Loose(i)' \subseteq Loose(i), Strays(i)' \subseteq Strays(i)
  PROVE  Booked(i)'
<1>1. Coming(i) \in Nat /\ Coming(i)' \in Nat
  BY ComingCounts DEF OrchestrationInv
<1>2. /\ Cardinality(Loose(i)') <= Cardinality(Loose(i))
      /\ Cardinality(Strays(i)') <= Cardinality(Strays(i))
  <2>1. Loose(i) \subseteq Runs /\ Strays(i) \subseteq Runs
    BY Counted
  <2> QED
    BY <2>1, NoMore
<1>3. /\ Cardinality(Loose(i)) \in Nat /\ Cardinality(Loose(i)') \in Nat
      /\ Cardinality(Strays(i)) \in Nat /\ Cardinality(Strays(i)') \in Nat
  BY Counted
<1>4. causes[i] \in Nat /\ causes'[i] \in Nat
  BY DEF OrchestrationInv, Shapes
<1>5. CASE Coming(i) = 0
  <2>1. Coming(i)' = 0
    BY <1>1, <1>5
  <2>2. Cardinality(Strays(i)') + causes[i] <= Cardinality(Strays(i)) + causes'[i]
    BY <1>2, <1>3, <1>4
  <2> QED
    BY <1>5, <2>1, <2>2, NothingComing
<1>6. CASE Coming(i) # 0
  <2>1. Cardinality(Loose(i)') + causes[i] <= Cardinality(Loose(i)) + causes'[i]
    BY <1>2, <1>3, <1>4
  <2> QED
    BY <1>6, <2>1, StillComing
<1> QED
  BY <1>5, <1>6
-----------------------------------------------------------------------------
(* Steps that leave children, cards' runs and the start in the hand alone. *)
LEMMA SameStrays ==
  ASSUME NEW i, children' = children,
         cards'[i].lane = cards[i].lane, cards'[i].run = cards[i].run,
         \A n \in Runs : InHand(n)' <=> InHand(n)
  PROVE  Strays(i)' = Strays(i) /\ Loose(i)' = Loose(i)
BY DEF Strays, Loose, InHand, Live, IsRunOf, Running

(* Cards, children and hand keep their fields where they keep their        *)
(* values.                                                                 *)
LEMMA ShapesStay ==
  ASSUME Shapes, cards' = cards, children' = children, hand' = hand,
         causes' \in [Issues -> Nat]
  PROVE  Shapes'
BY DEF Shapes, Listed

(* Nothing on the list.                                                    *)
LEMMA EmptyList == IsList(<<>>) /\ Len(<<>>) = 0 /\ \A i : Times(<<>>, i) = 0
<1>1. IsList(<<>>) /\ Len(<<>>) = 0
  BY EmptySeq DEF IsList
<1>2. \A k \in 1..0 : FALSE
  OBVIOUS
<1>3. \A i : {k \in 1..Len(<<>>) : <<>>[k].issue = i} = {}
  BY <1>1, <1>2
<1>4. \A i : Times(<<>>, i) = 0
  BY <1>3, FS_EmptySet DEF Times
<1> QED
  BY <1>1, <1>4

(* With nothing in hand, no event that starts a child is.                  *)
LEMMA EmptyHand ==
  /\ hand = Nothing => hand.event.lane # "Running" /\ \A n : ~InHand(n)
  /\ hand' = Nothing => hand'.event.lane # "Running" /\ \A n : ~InHand(n)'
BY DEF Nothing, Event, InHand

(* What ends a run starts none, and is about the issue of the run.         *)
LEMMA EndsStart ==
  /\ \A n : EndOf(n).lane # "Running" /\ EndOf(n).issue = children[n].issue
  /\ \A i : Orphaned(i).lane # "Running" /\ Orphaned(i).issue = i
  /\ \A c, n, passing : /\ NotStarted(c, n, passing).lane # "Running"
                        /\ NotStarted(c, n, passing).issue = c.issue
  /\ \A c, n : Started(c, n).lane = "Running" /\ Started(c, n).issue = c.issue /\ Started(c, n).run = n
BY DEF EndOf, Orphaned, NotStarted, Started, Failure, Event

(* A step that only moves the overseer on to another phase or item, with   *)
(* nothing in hand.                                                        *)
LEMMA MovesOn ==
  ASSUME OrchestrationInv, UNCHANGED <<cards, children, hand>>, hand = Nothing,
         causes' \in [Issues -> Nat], WorkInStep', \A i \in Issues : Booked(i)'
  PROVE  OrchestrationInv'
<1>1. Shapes'
  BY ShapesStay DEF OrchestrationInv
<1>2. HandInStep'
  <2>1. hand.at = "empty" /\ hand.event.lane # "Running" /\ hand' = hand
    BY EmptyHand DEF Nothing
  <2> QED
    BY <2>1 DEF HandInStep
<1> QED
  BY <1>1, <1>2 DEF OrchestrationInv, Accounted

(* Nothing is to come when the overseer is idle or has nothing in hand.    *)
LEMMA NoneComing ==
  ASSUME hand = Nothing, NEW i \in Issues,
         phase \in {"idle", "retries", "reconciling"} \/ (phase \in Phases /\ work = <<>>)
  PROVE  Coming(i) = 0
BY EmptyList DEF Coming, Phases
-----------------------------------------------------------------------------
(* RecoverOrphanedRuns plans at most one end of the run of each issue, and *)
(* only where the card shows no live child.                                *)
LEMMA RecoverKeeps ==
  ASSUME OrchestrationInv, Recover
  PROVE  OrchestrationInv'
<1> DEFINE plan(list) == [k \in DOMAIN list |->
             IF HasChild(list[k]) THEN EndOf(cards[list[k]].run) ELSE Orphaned(list[k])]
<1>1. /\ hand = Nothing /\ phase \in {"idle", "dispatching"} /\ (phase = "dispatching" => work = <<>>)
      /\ UNCHANGED <<cards, children, hand, causes>>
      /\ phase' = "recovering"
  BY DEF Recover, Free, board, Enter
<1>2. PICK list \in Ascending({i \in Issues : NeedsEnd(i)}) : work' = plan(list)
  BY DEF Recover, Enter
<1>3. IsFiniteSet({i \in Issues : NeedsEnd(i)}) /\ {i \in Issues : NeedsEnd(i)} \subseteq Nat
  <2>1. IsFiniteSet(Issues) /\ Issues \subseteq Nat
    BY OrchestrationAssumption, FS_Interval DEF Issues
  <2> QED
    BY <2>1, FS_Subset
<1>4. /\ list \in Seq({i \in Issues : NeedsEnd(i)}) /\ DOMAIN list = 1..Len(list)
      /\ \A k \in 1..Len(list) : list[k] \in Issues /\ NeedsEnd(list[k])
      /\ \A k \in 1..Len(list), l \in 1..Len(list) : k # l => list[k] # list[l]
  BY <1>2, <1>3, AscendingLists
<1>5. Len(list) \in Nat
  BY <1>4, LenProperties
<1>6. /\ work' \in [1..Len(list) -> {work'[k] : k \in 1..Len(list)}]
      /\ DOMAIN work' = 1..Len(list)
  BY <1>2, <1>4
<1>7. work' \in Seq({work'[k] : k \in 1..Len(list)})
  BY <1>5, <1>6, SeqDef
<1>8. IsList(work') /\ Len(work') = Len(list)
  <2>1. DOMAIN work' = 1..Len(work') /\ Len(work') \in Nat
    BY <1>7, LenProperties
  <2> QED
    BY <1>5, <1>6, <1>7, <2>1 DEF IsList
<1>9. ASSUME NEW k \in 1..Len(work')
      PROVE  work'[k].lane # "Running" /\ work'[k].issue = list[k]
  <2>1. k \in DOMAIN list /\ work'[k] = IF HasChild(list[k]) THEN EndOf(cards[list[k]].run)
                                                             ELSE Orphaned(list[k])
    BY <1>2, <1>4, <1>8
  <2> QED
    BY <2>1, EndsStart DEF HasChild
<1>10. WorkInStep'
  BY <1>1, <1>4, <1>8, <1>9 DEF WorkInStep, Phases, IsList
<1>11. ASSUME NEW i \in Issues
       PROVE  Booked(i)'
  <2>1. Coming(i) = 0
    BY <1>1, NoneComing DEF Phases
  <2>2. Coming(i)' = Times(work', i)
    BY <1>1 DEF Coming, Times
  <2>3. Times(work', i) <= 1
    BY <1>4, <1>8, <1>9, TimesOnce
  <2>4. Strays(i)' = Strays(i) /\ Loose(i)' = Loose(i)
    BY <1>1, SameStrays DEF InHand
  <2>5. Shapes'
    BY <1>1, ShapesStay DEF OrchestrationInv, Shapes
  <2>6. CASE NeedsEnd(i)
    <3>1. ~Alive(i)
      BY <2>6 DEF NeedsEnd, Alive
    <3> QED
      BY <1>1, <1>10, <2>1, <2>2, <2>3, <2>4, <2>5, <3>1, ShownOnly, FirstComing
  <2>7. CASE ~NeedsEnd(i)
    <3>1. \A k \in 1..Len(work') : work'[k].issue # i
      BY <1>4, <1>8, <1>9, <2>7
    <3>2. Times(work', i) = 0
      BY <1>8, <3>1, Places
    <3>3. Cardinality(Strays(i)') + causes[i] <= Cardinality(Strays(i)) + causes'[i]
      BY <1>1, <2>4, Counted DEF OrchestrationInv, Shapes
    <3> QED
      BY <2>1, <2>2, <2>5, <3>2, <3>3, NothingComing
  <2> QED
    BY <2>6, <2>7
<1>12. causes' \in [Issues -> Nat]
  BY <1>1 DEF OrchestrationInv, Shapes
<1> QED
  BY <1>1, <1>10, <1>11, <1>12, MovesOn

(* The reconciler lists children, each of some issue.                      *)
LEMMA ReconcileKeeps ==
  ASSUME OrchestrationInv, Reconcile
  PROVE  OrchestrationInv'
<1>1. /\ hand = Nothing /\ phase = "recovering" /\ work = <<>>
      /\ UNCHANGED <<cards, children, hand, causes>> /\ phase' = "reconciling"
  BY DEF Reconcile, Free, board, Enter
<1>2. PICK list \in Ascending({n \in Runs : Listed(n)}) : work' = list
  BY DEF Reconcile, Enter
<1>3. IsFiniteSet({n \in Runs : Listed(n)}) /\ {n \in Runs : Listed(n)} \subseteq Nat
  <2>1. Runs \subseteq Nat
    BY OrchestrationAssumption DEF Runs
  <2> QED
    BY <2>1, RunSets
<1>4. /\ list \in Seq({n \in Runs : Listed(n)})
      /\ \A k \in 1..Len(list) : list[k] \in Runs /\ Listed(list[k])
  BY <1>2, <1>3, AscendingLists
<1>5. IsList(work')
  BY <1>2, <1>4 DEF IsList
<1>6. WorkInStep'
  BY <1>1, <1>2, <1>4, <1>5 DEF WorkInStep, Phases, IsList, OrchestrationInv, Shapes
<1>7. ASSUME NEW i \in Issues
      PROVE  Booked(i)'
  <2>1. Coming(i) = 0
    BY <1>1, NoneComing DEF Phases
  <2>2. Coming(i)' = 0
    BY <1>1 DEF Coming
  <2>3. Strays(i)' = Strays(i)
    BY <1>1, SameStrays DEF InHand
  <2>4. Shapes'
    BY <1>1, ShapesStay DEF OrchestrationInv, Shapes
  <2>5. Cardinality(Strays(i)') + causes[i] <= Cardinality(Strays(i)) + causes'[i]
    BY <1>1, <2>3, Counted DEF OrchestrationInv, Shapes
  <2> QED
    BY <2>1, <2>2, <2>4, <2>5, NothingComing
<1>8. causes' \in [Issues -> Nat]
  BY <1>1 DEF OrchestrationInv, Shapes
<1> QED
  BY <1>1, <1>6, <1>7, <1>8, MovesOn

(* Appending an end: it is to come on the card of its issue from then on.  *)
LEMMA RecordKeeps ==
  ASSUME OrchestrationInv, hand = Nothing, work # <<>>,
         phase \in {"recovering", "reconciling"},
         NEW e, NEW p \in {"idle", "retries"}, Record(e, p),
         e.lane # "Running", e.issue \in Issues,
         phase = "recovering" => Head(work).issue = e.issue,
         phase = "reconciling" => ~Alive(e.issue)
  PROVE  OrchestrationInv'
<1>1. UNCHANGED <<cards, children, causes>>
  BY DEF Record, board
<1>2. \A n : ~InHand(n)
  BY EmptyHand
<1>3. causes' \in [Issues -> Nat]
  BY <1>1 DEF OrchestrationInv, Shapes
<1>4. CASE phase' = p /\ work' = <<>> /\ hand' = hand
  <2>1. WorkInStep'
    BY <1>4, EmptyList DEF WorkInStep, Phases, IsList
  <2>2. Shapes'
    BY <1>1, <1>3, <1>4, ShapesStay DEF OrchestrationInv
  <2>3. ASSUME NEW i \in Issues
        PROVE  Booked(i)'
    <3>1. Coming(i)' = 0
      BY <1>4 DEF Coming
    <3>2. Strays(i)' = Strays(i) /\ Loose(i)' = Loose(i)
      BY <1>1, <1>4, SameStrays DEF InHand
    <3>3. Coming(i)' <= Coming(i)
      BY <3>1, ComingCounts DEF OrchestrationInv
    <3>4. causes'[i] >= causes[i]
      BY <1>1 DEF OrchestrationInv, Shapes
    <3> QED
      BY <2>1, <2>2, <3>2, <3>3, <3>4, NothingLoose
  <2> QED
    BY <1>1, <1>3, <1>4, <2>1, <2>3, MovesOn
<1>5. CASE phase' = phase /\ work' = work /\ hand' = [at |-> "logged", event |-> e]
  <2>1. /\ hand'.at = "logged" /\ hand'.event = e /\ hand' # Nothing
        /\ hand' = [at |-> hand'.at, event |-> hand'.event]
    BY <1>5 DEF Nothing
  <2>2. \A n : ~InHand(n)'
    BY <2>1 DEF InHand
  <2>3. WorkInStep'
    BY <1>1, <1>5 DEF OrchestrationInv, WorkInStep, IsList
  <2>4. Shapes'
    BY <1>1, <1>3, <2>1 DEF OrchestrationInv, Shapes, Listed
  <2>5. HandInStep'
    BY <1>5, <2>1 DEF HandInStep
  <2>6. ASSUME NEW i \in Issues
        PROVE  Booked(i)'
    <3>1. Strays(i)' = Strays(i) /\ Loose(i)' = Loose(i)
      BY <1>1, <1>2, <2>2, SameStrays
    <3>2. causes'[i] = causes[i] /\ causes'[i] >= causes[i]
      BY <1>1 DEF OrchestrationInv, Shapes
    <3>3. CASE phase = "reconciling" /\ i = e.issue
      <4>1. Coming(i) = 0 /\ Coming(i)' = 1
        BY <1>5, <2>1, <3>3 DEF Coming
      <4>2. Loose(i)' \subseteq Strays(i)
        BY <3>1, <3>3, ShownOnly
      <4> QED
        BY <2>3, <2>4, <3>2, <4>1, <4>2, FirstComing
    <3>4. CASE ~(phase = "reconciling" /\ i = e.issue)
      <4>1. Coming(i)' = Coming(i)
        BY <1>5, <2>1, <3>4 DEF Coming, Times
      <4>2. Coming(i)' <= Coming(i)
        BY <4>1, ComingCounts DEF OrchestrationInv
      <4> QED
        BY <2>3, <2>4, <3>1, <3>2, <4>2, NothingLoose
    <3> QED
      BY <3>3, <3>4
  <2> QED
    BY <2>3, <2>4, <2>5, <2>6 DEF OrchestrationInv, Accounted
<1> QED
  BY <1>4, <1>5 DEF Record, Enter

(* RecordPlan appends the next end of the plan.                            *)
LEMMA RecordPlanKeeps ==
  ASSUME OrchestrationInv, RecordPlan
  PROVE  OrchestrationInv'
<1>1. hand = Nothing /\ phase = "recovering" /\ work # <<>> /\ Record(Head(work), "idle")
  BY DEF RecordPlan, Free
<1>2. Head(work) = work[1] /\ 1 \in 1..Len(work)
  BY <1>1, EmptySeq DEF OrchestrationInv, WorkInStep, IsList
<1>3. Head(work).lane # "Running" /\ Head(work).issue \in Issues
  BY <1>1, <1>2 DEF OrchestrationInv, WorkInStep
<1> QED
  BY <1>1, <1>3, RecordKeeps

(* Reconcile appends the end of a child that its card shows, or passes it  *)
(* by.                                                                     *)
LEMMA ReconcileChildKeeps ==
  ASSUME OrchestrationInv, ReconcileChild
  PROVE  OrchestrationInv'
<1>1. hand = Nothing /\ phase = "reconciling" /\ work # <<>>
  BY DEF ReconcileChild, Free
<1>2. Head(work) = work[1] /\ 1 \in 1..Len(work)
  BY <1>1, EmptySeq DEF OrchestrationInv, WorkInStep, IsList
<1>3. Head(work) \in Runs /\ children[Head(work)].issue \in Issues
  BY <1>1, <1>2 DEF OrchestrationInv, WorkInStep
<1>4. CASE EndsItsRun(Head(work)) /\ Record(EndOf(Head(work)), "retries")
  <2>1. EndOf(Head(work)).lane # "Running" /\ EndOf(Head(work)).issue = children[Head(work)].issue
    BY EndsStart
  <2>2. ~Alive(EndOf(Head(work)).issue)
    BY <1>4, <2>1 DEF EndsItsRun, IsRunOf, Alive
  <2> QED
    BY <1>1, <1>3, <1>4, <2>1, <2>2, RecordKeeps
<1>5. CASE /\ work' = Tail(work)
           /\ UNCHANGED <<board, children, phase, hand, serial, dispatched, desk, left, causes>>
  <2>1. UNCHANGED <<cards, children, hand, causes, phase>>
    BY <1>5 DEF board
  <2>2. IsList(work)
    BY DEF OrchestrationInv, WorkInStep
  <2>3. /\ IsList(work')
        /\ \A k \in 1..Len(work') : work'[k] = work[k + 1] /\ k + 1 \in 1..Len(work)
    BY <1>1, <1>5, <2>2, TimesTail
  <2>4. WorkInStep'
    BY <1>1, <2>1, <2>3 DEF OrchestrationInv, WorkInStep, IsList, Phases
  <2>5. Shapes'
    BY <2>1, ShapesStay DEF OrchestrationInv, Shapes
  <2>6. ASSUME NEW i \in Issues
        PROVE  Booked(i)'
    <3>1. Coming(i)' = Coming(i)
      BY <1>1, <2>1 DEF Coming
    <3>2. Strays(i)' = Strays(i) /\ Loose(i)' = Loose(i)
      BY <2>1, SameStrays DEF InHand
    <3>3. Coming(i)' <= Coming(i) /\ causes'[i] >= causes[i]
      BY <2>1, <3>1, ComingCounts DEF OrchestrationInv, Shapes
    <3> QED
      BY <2>4, <2>5, <3>2, <3>3, NothingLoose
  <2>7. causes' \in [Issues -> Nat]
    BY <2>1 DEF OrchestrationInv, Shapes
  <2> QED
    BY <1>1, <2>1, <2>4, <2>6, <2>7, MovesOn
<1> QED
  BY <1>4, <1>5 DEF ReconcileChild
-----------------------------------------------------------------------------
(* The first reading of the board: issues that wait and do not run.        *)
LEMMA ListRetriesKeeps ==
  ASSUME OrchestrationInv, ListRetries
  PROVE  OrchestrationInv'
<1> DEFINE R == {i \in Issues : cards[i].lane = "RetryQueue" /\ cards[i].due}
<1>1. /\ hand = Nothing /\ phase \in {"reconciling", "retries"}
      /\ UNCHANGED <<cards, children, hand, causes>> /\ phase' = "todos"
  BY DEF ListRetries, Free, board, Enter
<1>2. PICK list \in Candidates(R) : work' = list
  BY DEF ListRetries, Enter
<1>3. R \in SUBSET Issues
  OBVIOUS
<1>4. /\ IsList(list)
      /\ \A k \in 1..Len(list) : list[k].issue \in R
      /\ \A k \in 1..Len(list), l \in 1..Len(list) : k # l => list[k].issue # list[l].issue
  BY <1>2, <1>3, CandidatesList
<1>5. WorkInStep'
  BY <1>1, <1>2, <1>4 DEF WorkInStep, Phases, IsList
<1>6. ASSUME NEW i \in Issues
      PROVE  Booked(i)'
  <2>1. Coming(i) = 0
    BY <1>1, NoneComing
  <2>2. Coming(i)' = Times(list, i)
    BY <1>1, <1>2 DEF Coming, Times
  <2>3. Times(list, i) <= 1
    BY <1>4, TimesOnce
  <2>4. Strays(i)' = Strays(i) /\ Loose(i)' = Loose(i)
    BY <1>1, SameStrays DEF InHand
  <2>5. Shapes'
    BY <1>1, ShapesStay DEF OrchestrationInv, Shapes
  <2>6. CASE i \in R
    <3>1. ~Running(i)
      BY <2>6 DEF Running
    <3> QED
      BY <1>1, <1>5, <2>1, <2>2, <2>3, <2>4, <2>5, <3>1, ShownOnly, FirstComing
  <2>7. CASE i \notin R
    <3>1. Times(list, i) = 0
      BY <1>4, <2>7, Places
    <3>2. Cardinality(Strays(i)') + causes[i] <= Cardinality(Strays(i)) + causes'[i]
      BY <1>1, <2>4, Counted DEF OrchestrationInv, Shapes
    <3> QED
      BY <2>1, <2>2, <2>5, <3>1, <3>2, NothingComing
  <2> QED
    BY <2>6, <2>7
<1>7. causes' \in [Issues -> Nat]
  BY <1>1 DEF OrchestrationInv, Shapes
<1> QED
  BY <1>1, <1>5, <1>6, <1>7, MovesOn

(* The second reading: an issue that is listed again does not run either,  *)
(* and its first dispatch may leave a child behind for the second.         *)
LEMMA ListTodosKeeps ==
  ASSUME OrchestrationInv, ListTodos
  PROVE  OrchestrationInv'
<1> DEFINE R == {i \in Issues : cards[i].lane = "Todo"}
           twice(list) == {i \in Issues : \E k \in DOMAIN work, l \in DOMAIN list :
                                            work[k].issue = i /\ list[l].issue = i}
<1>1. /\ hand = Nothing /\ phase = "todos"
      /\ UNCHANGED <<cards, children, hand>>
  BY DEF ListTodos, Free, board
<1>2. PICK list \in Candidates(R) :
        /\ phase' = "dispatching" /\ work' = work \o list
        /\ causes' = [i \in Issues |-> IF i \in twice(list) THEN causes[i] + 1 ELSE causes[i]]
  BY DEF ListTodos, Enter
<1>3. R \in SUBSET Issues
  OBVIOUS
<1>4. /\ IsList(list)
      /\ \A k \in 1..Len(list) : list[k].issue \in R
      /\ \A k \in 1..Len(list), l \in 1..Len(list) : k # l => list[k].issue # list[l].issue
  BY <1>2, <1>3, CandidatesList
<1>5. IsList(work) /\ \A k \in 1..Len(work) : work[k].issue \in Issues
  BY <1>1 DEF OrchestrationInv, WorkInStep
<1>6. /\ IsList(work')
      /\ \A k \in 1..Len(work') :
           \/ k \in 1..Len(work) /\ work'[k] = work[k]
           \/ k - Len(work) \in 1..Len(list) /\ work'[k] = list[k - Len(work)]
      /\ \A i : Times(work', i) <= Times(work, i) + 1
      /\ \A i : (\A k \in 1..Len(list) : list[k].issue # i) => Times(work', i) <= Times(work, i)
  BY <1>2, <1>4, <1>5, TimesConcat
<1>7. \A k \in 1..Len(work') : work'[k].issue \in Issues
  BY <1>4, <1>5, <1>6
<1>8. WorkInStep'
  BY <1>2, <1>6, <1>7 DEF WorkInStep, Phases, IsList
<1>9. causes' \in [Issues -> Nat]
  BY <1>2 DEF OrchestrationInv, Shapes
<1>10. Shapes'
  BY <1>1, <1>9, ShapesStay DEF OrchestrationInv
<1>11. DOMAIN work = 1..Len(work) /\ DOMAIN list = 1..Len(list)
  BY <1>4, <1>5, LenProperties DEF IsList
<1>12. ASSUME NEW i \in Issues
       PROVE  Booked(i)'
  <2>1. Coming(i) = Times(work, i) /\ Coming(i)' = Times(work', i)
    BY <1>1, <1>2 DEF Coming, Times
  <2>2. Times(work, i) \in Nat /\ Times(work', i) \in Nat
    BY <1>5, <1>6, Places
  <2>3. Strays(i)' = Strays(i) /\ Loose(i)' = Loose(i)
    BY <1>1, SameStrays DEF InHand
  <2>4. causes[i] \in Nat /\ causes'[i] = IF i \in twice(list) THEN causes[i] + 1 ELSE causes[i]
    BY <1>2 DEF OrchestrationInv, Shapes
  <2>5. CASE \A k \in 1..Len(list) : list[k].issue # i
    <3>1. Coming(i)' <= Coming(i)
      BY <1>6, <2>1, <2>5
    <3>2. causes'[i] >= causes[i]
      BY <2>4
    <3> QED
      BY <1>8, <1>10, <2>3, <3>1, <3>2, NothingLoose
  <2>6. CASE (\E k \in 1..Len(list) : list[k].issue = i) /\ Times(work, i) = 0
    <3>1. ~Running(i)
      BY <1>4, <2>6 DEF Running
    <3>2. i \notin twice(list)
      BY <1>5, <1>11, <2>6, Places
    <3>3. Coming(i) = 0 /\ Coming(i)' <= 1
      BY <1>6, <2>1, <2>2, <2>6
    <3>4. causes'[i] = causes[i]
      BY <2>4, <3>2
    <3>5. Loose(i)' \subseteq Strays(i)
      BY <2>3, <3>1, ShownOnly
    <3> QED
      BY <1>8, <1>10, <3>3, <3>4, <3>5, FirstComing
  <2>7. CASE (\E k \in 1..Len(list) : list[k].issue = i) /\ Times(work, i) # 0
    <3>1. i \in twice(list)
      BY <1>5, <1>11, <2>7, Places
    <3>2. causes'[i] = causes[i] + 1
      BY <2>4, <3>1
    <3>3. CASE Coming(i)' # 0
      <4>1. Coming(i) # 0 /\ Coming(i)' <= Coming(i) + 1
        BY <1>6, <2>1, <2>7
      <4> QED
        BY <1>8, <1>10, <2>3, <3>2, <3>3, <4>1, OneMoreComing
    <3>4. CASE Coming(i)' = 0
      <4>1. Coming(i)' <= Coming(i) /\ causes'[i] >= causes[i]
        BY <2>1, <2>2, <2>4, <3>2, <3>4
      <4> QED
        BY <1>8, <1>10, <2>3, <4>1, NothingLoose
    <3> QED
      BY <3>3, <3>4
  <2> QED
    BY <2>5, <2>6, <2>7
<1> QED
  BY <1>1, <1>8, <1>9, <1>12, MovesOn
-----------------------------------------------------------------------------
(* The first item of a list that is not empty.                             *)
LEMMA FirstItem ==
  ASSUME WorkInStep, work # <<>>
  PROVE  /\ Head(work) = work[1] /\ 1 \in 1..Len(work)
         /\ \A i : Head(work).issue = i => Times(work, i) # 0
<1>1. IsList(work)
  BY DEF WorkInStep
<1>2. Head(work) = work[1] /\ 1 \in 1..Len(work)
  BY <1>1, EmptySeq DEF IsList
<1> QED
  BY <1>1, <1>2, Places

(* Going on to the next item: one event fewer is to come.                  *)
LEMMA TailInStep ==
  ASSUME OrchestrationInv, work # <<>>, phase' = phase, work' = Tail(work),
         children' = children, hand' = Nothing
  PROVE  /\ WorkInStep'
         /\ \A i \in Issues : Coming(i)' <= Coming(i)
         /\ \A i \in Issues : hand # Nothing /\ hand.event.issue = i => Coming(i)' + 1 <= Coming(i)
<1>1. WorkInStep /\ HandInStep /\ IsList(work)
  BY DEF OrchestrationInv, WorkInStep
<1>2. /\ IsList(work')
      /\ \A k \in 1..Len(work') : work'[k] = work[k + 1] /\ k + 1 \in 1..Len(work)
      /\ \A i : Times(work', i) <= Times(work, i)
      /\ \A i : Head(work).issue = i => Times(work', i) + 1 <= Times(work, i)
  BY <1>1, TimesTail
<1>3. phase \notin {"idle", "retries"}
  BY <1>1 DEF WorkInStep
<1>4. WorkInStep'
  <2>1. phase' = "recovering" =>
          \A k \in 1..Len(work') : work'[k].lane # "Running" /\ work'[k].issue \in Issues
    BY <1>1, <1>2 DEF WorkInStep
  <2>2. phase' \in {"todos", "dispatching"} => \A k \in 1..Len(work') : work'[k].issue \in Issues
    BY <1>1, <1>2 DEF WorkInStep
  <2>3. phase' = "reconciling" =>
          \A k \in 1..Len(work') : work'[k] \in Runs /\ children'[work'[k]].issue \in Issues
    BY <1>1, <1>2 DEF WorkInStep
  <2> QED
    BY <1>1, <1>2, <1>3, <2>1, <2>2, <2>3 DEF WorkInStep, IsList
<1>5. \A i : Times(work, i)' = Times(work', i)
  BY DEF Times
<1>6. ASSUME NEW i \in Issues
      PROVE  Coming(i)' <= Coming(i)
  <2>1. CASE phase \in {"recovering", "todos", "dispatching"}
    BY <1>2, <1>5, <2>1 DEF Coming
  <2>2. CASE phase \notin {"recovering", "todos", "dispatching"}
    <3>1. Coming(i)' = 0
      BY <2>2 DEF Coming
    <3> QED
      BY <3>1, ComingCounts DEF OrchestrationInv
  <2> QED
    BY <2>1, <2>2
<1>7. ASSUME NEW i \in Issues, hand # Nothing, hand.event.issue = i
      PROVE  Coming(i)' + 1 <= Coming(i)
  <2>1. phase \in {"recovering", "reconciling", "dispatching"} /\ (phase # "reconciling" => Head(work).issue = i)
    BY <1>1, <1>7 DEF HandInStep
  <2>2. CASE phase = "reconciling"
    <3>1. Coming(i) = 1 /\ Coming(i)' = 0
      BY <1>7, <2>2 DEF Coming
    <3> QED
      BY <3>1
  <2>3. CASE phase # "reconciling"
    <3>1. Times(work', i) + 1 <= Times(work, i)
      BY <1>2, <2>1, <2>3
    <3>2. Coming(i) = Times(work, i) /\ Coming(i)' = Times(work', i)
      BY <1>5, <2>1, <2>3 DEF Coming
    <3> QED
      BY <3>1, <3>2
  <2> QED
    BY <2>2, <2>3
<1> QED
  BY <1>4, <1>6, <1>7

(* A hand that is at work holds an event.                                  *)
LEMMA FullHand == hand.at # "empty" => hand # Nothing
<1>1. Nothing.at = "empty"
  BY DEF Nothing
<1> QED
  BY <1>1

(* What is in hand is dropped: if it starts a child, that is one more than *)
(* the card shows, for a cause.                                            *)
LEMMA HandDropped ==
  ASSUME OrchestrationInv, UNCHANGED <<cards, children>>, hand' = Nothing, WorkInStep',
         BlameIf(hand.event.issue, hand.event.lane = "Running"),
         \A i \in Issues : Coming(i)' <= Coming(i)
  PROVE  OrchestrationInv'
<1>1. Shapes /\ HandInStep /\ WorkInStep
  BY DEF OrchestrationInv
<1>2. \A n : ~InHand(n)'
  BY EmptyHand
<1>3. Shapes'
  <2>1. causes' \in [Issues -> Nat]
    <3>1. hand.event.lane = "Running" => hand.event.issue \in Issues
      BY <1>1 DEF HandInStep
    <3>2. causes \in [Issues -> Nat]
      BY <1>1 DEF Shapes
    <3> QED
      BY <3>1, <3>2 DEF BlameIf
  <2>2. hand' = [at |-> hand'.at, event |-> hand'.event]
    BY DEF Nothing
  <2> QED
    BY <1>1, <2>1, <2>2 DEF Shapes, Listed
<1>4. HandInStep'
  <2>1. hand'.at = "empty" /\ hand'.event.lane # "Running"
    BY EmptyHand DEF Nothing
  <2> QED
    BY <2>1 DEF HandInStep
<1>5. ASSUME NEW i \in Issues
      PROVE  Booked(i)'
  <2>1. causes[i] \in Nat
    BY <1>1 DEF Shapes
  <2>2. CASE hand.event.lane = "Running" /\ hand.event.issue = i
    <3>1. phase = "dispatching" /\ work # <<>> /\ Head(work).issue = i
      BY <1>1, <2>2 DEF HandInStep
    <3>2. Coming(i) # 0
      BY <1>1, <3>1, FirstItem DEF Coming
    <3>3. Loose(i)' \subseteq Loose(i) \cup {hand.event.run}
      BY DEF Loose, InHand, Live
    <3>4. Cardinality(Loose(i)') <= Cardinality(Loose(i)) + 1
      BY <3>3, Counted, RunSets, OneMore
    <3>5. causes'[i] = causes[i] + 1
      BY <1>1, <2>2 DEF BlameIf, Shapes
    <3>6. Cardinality(Loose(i)') \in Nat /\ Cardinality(Loose(i)) \in Nat
      BY Counted
    <3>7. Cardinality(Loose(i)') + causes[i] <= Cardinality(Loose(i)) + causes'[i]
      BY <2>1, <3>4, <3>5, <3>6
    <3> QED
      BY <1>3, <3>2, <3>7, StillComing
  <2>3. CASE ~(hand.event.lane = "Running" /\ hand.event.issue = i)
    <3>1. \A n \in Runs : InHand(n) => children[n].issue # i
      BY <1>1, <2>3 DEF HandInStep, InHand
    <3>2. Loose(i)' \subseteq Loose(i)
      BY <3>1 DEF Loose, Live
    <3>3. Strays(i)' \subseteq Strays(i)
      BY <3>1 DEF Strays, Live, InHand, IsRunOf, Running
    <3>4. causes'[i] = causes[i]
      BY <1>1, <2>3 DEF BlameIf, Shapes
    <3>5. causes'[i] >= causes[i]
      BY <2>1, <3>4
    <3> QED
      BY <1>3, <3>2, <3>3, <3>5, NothingLoose
  <2> QED
    BY <2>2, <2>3
<1> QED
  BY <1>3, <1>4, <1>5 DEF OrchestrationInv, Accounted

(* The bound on dispatches is used up.                                     *)
LEMMA PassOverKeeps ==
  ASSUME OrchestrationInv, PassOver
  PROVE  OrchestrationInv'
<1>1. /\ hand = Nothing /\ work # <<>> /\ work' = Tail(work)
      /\ UNCHANGED <<cards, children, hand, phase, causes>>
  BY DEF PassOver, Free, board
<1>2. WorkInStep' /\ \A i \in Issues : Coming(i)' <= Coming(i)
  BY <1>1, TailInStep
<1>3. BlameIf(hand.event.issue, hand.event.lane = "Running")
  BY <1>1, EmptyHand DEF BlameIf
<1> QED
  BY <1>1, <1>2, <1>3, HandDropped

(* The phases in which nothing is left to record.                          *)
LEMMA Rests ==
  ASSUME WorkInStep, phase' \in {"idle", "retries"}, work' = <<>>
  PROVE  WorkInStep' /\ \A i \in Issues : Coming(i)' <= Coming(i)
<1>1. WorkInStep'
  BY EmptyList DEF WorkInStep, Phases, IsList
<1>2. \A i : Coming(i)' = 0
  BY DEF Coming
<1> QED
  BY <1>1, <1>2, ComingCounts

(* A call fails, with or without an event in hand.                         *)
LEMMA CallFailsKeeps ==
  ASSUME OrchestrationInv, CallFails
  PROVE  OrchestrationInv'
<1>1. /\ UNCHANGED <<cards, children>> /\ hand' = Nothing
      /\ BlameIf(hand.event.issue, hand.event.lane = "Running")
  BY DEF CallFails, board
<1>2. HandInStep /\ WorkInStep
  BY DEF OrchestrationInv
<1>3. CASE phase' \in {"idle", "retries"} /\ work' = <<>>
  BY <1>1, <1>2, <1>3, Rests, HandDropped
<1>4. CASE hand.at # "empty" /\ phase' = phase /\ work' = Tail(work)
  <2>1. work # <<>>
    BY <1>2, <1>4, FullHand DEF HandInStep
  <2>2. WorkInStep' /\ \A i \in Issues : Coming(i)' <= Coming(i)
    BY <1>1, <1>4, <2>1, TailInStep
  <2> QED
    BY <1>1, <2>2, HandDropped
<1> QED
  BY <1>3, <1>4 DEF CallFails, Enter

(* A restart drops what is in hand and all that was to come.               *)
LEMMA RestartKeeps ==
  ASSUME OrchestrationInv, Restart
  PROVE  OrchestrationInv'
<1>1. /\ UNCHANGED <<cards, children>> /\ hand' = Nothing
      /\ BlameIf(hand.event.issue, hand.event.lane = "Running")
      /\ phase' = "idle" /\ work' = <<>>
  BY DEF Restart, board, Enter
<1> QED
  BY <1>1, Rests, HandDropped DEF OrchestrationInv

(* The append of a dispatch: a taken id drops it.                          *)
LEMMA AppendMadeKeeps ==
  ASSUME OrchestrationInv, AppendMade
  PROVE  OrchestrationInv'
<1>1. hand.at = "made" /\ UNCHANGED <<cards, children, phase>>
  BY DEF AppendMade
<1>2. Shapes /\ HandInStep /\ WorkInStep
  BY DEF OrchestrationInv
<1>3. hand # Nothing /\ work # <<>> /\ phase = "dispatching" /\ Head(work).issue = hand.event.issue
      /\ hand.event.issue \in Issues
  <2>1. hand # Nothing
    BY <1>1, FullHand
  <2> QED
    BY <1>1, <1>2, <2>1 DEF HandInStep
<1>4. CASE Continue /\ BlameIf(hand.event.issue, hand.event.lane = "Running")
  BY <1>1, <1>3, <1>4, TailInStep, HandDropped DEF Continue
<1>5. CASE hand' = [hand EXCEPT !.at = "logged"] /\ UNCHANGED <<work, causes>>
  <2>1. hand' = [at |-> "logged", event |-> hand.event]
    BY <1>2, <1>5 DEF Shapes
  <2>2. /\ hand'.at = "logged" /\ hand'.event = hand.event
        /\ hand' = [at |-> hand'.at, event |-> hand'.event] /\ hand' # Nothing
    BY <2>1 DEF Nothing
  <2>3. Shapes'
    BY <1>1, <1>2, <1>5, <2>2 DEF Shapes, Listed
  <2>4. HandInStep'
    BY <1>1, <1>2, <1>3, <1>5, <2>2 DEF HandInStep
  <2>5. WorkInStep'
    BY <1>1, <1>2, <1>5 DEF WorkInStep, IsList
  <2>6. ASSUME NEW i \in Issues
        PROVE  Booked(i)'
    <3>1. Strays(i)' = Strays(i) /\ Loose(i)' = Loose(i)
      BY <1>1, <2>2, SameStrays DEF InHand
    <3>2. Coming(i)' = Coming(i)
      BY <1>1, <1>3, <1>5 DEF Coming, Times
    <3>3. Coming(i)' <= Coming(i) /\ causes'[i] >= causes[i]
      BY <1>2, <1>5, <3>2, ComingCounts DEF Shapes
    <3> QED
      BY <2>3, <2>5, <3>1, <3>3, NothingLoose
  <2> QED
    BY <2>3, <2>4, <2>5, <2>6 DEF OrchestrationInv, Accounted
<1> QED
  BY <1>4, <1>5 DEF AppendMade
-----------------------------------------------------------------------------
(* A dispatch asks for a child under the next number.                      *)
LEMMA SpawnKeeps ==
  ASSUME OrchestrationInv, Spawn
  PROVE  OrchestrationInv'
<1> DEFINE c == Head(work)
           n == dispatched + 1
           i == c.issue
           born == [issue |-> c.issue, attempt |-> c.attempt, status |-> "live"]
<1>1. /\ hand = Nothing /\ phase = "dispatching" /\ work # <<>>
      /\ UNCHANGED <<cards, phase, work>>
  BY DEF Spawn, Free, board
<1>2. Shapes /\ HandInStep /\ WorkInStep
  BY DEF OrchestrationInv
<1>3. i \in Issues /\ Times(work, i) # 0
  <2>1. Head(work) = work[1] /\ 1 \in 1..Len(work)
    BY <1>1, <1>2, FirstItem
  <2> QED
    BY <1>1, <1>2, <2>1, FirstItem DEF WorkInStep
<1>4. PICK e : /\ hand' = [at |-> "made", event |-> e]
               /\ \/ children' = [children EXCEPT ![n] = born] /\ e = Started(c, n) /\ UNCHANGED causes
                  \/ /\ children' = [children EXCEPT ![n] = born]
                     /\ \E passing \in BOOLEAN : e = NotStarted(c, n, passing)
                     /\ BlameIf(i, TRUE)
                  \/ /\ UNCHANGED <<children, causes>>
                     /\ \E passing \in BOOLEAN : e = NotStarted(c, n, passing)
  BY DEF Spawn, Make
<1>5. e.issue = i /\ (e.lane = "Running" => e = Started(c, n) /\ e.run = n)
  <2> HIDE DEF c, n
  <2>1. \A passing : NotStarted(c, n, passing).lane # "Running" /\ NotStarted(c, n, passing).issue = c.issue
    BY EndsStart
  <2>2. Started(c, n).issue = c.issue /\ Started(c, n).run = n
    BY EndsStart
  <2>3. CASE e = Started(c, n)
    BY <2>2, <2>3
  <2>4. CASE \E passing \in BOOLEAN : e = NotStarted(c, n, passing)
    BY <2>1, <2>4
  <2> QED
    BY <1>4, <2>3, <2>4
<1>6. /\ hand'.at = "made" /\ hand'.event = e /\ hand' # Nothing
      /\ hand' = [at |-> hand'.at, event |-> hand'.event]
  BY <1>4 DEF Nothing
<1>7. \A m : ~InHand(m)
  BY <1>1, EmptyHand
<1>8. \A m : InHand(m)' <=> (e.lane = "Running" /\ m = n)
  BY <1>5, <1>6 DEF InHand
<1>9. /\ children' = [m \in Runs |-> children'[m]]
      /\ \A m \in Runs : m # n => children'[m] = children[m]
      /\ \A m \in Runs : m = n => children'[m] = born \/ children'[m] = children[m]
      /\ e.lane = "Running" => \A m \in Runs : m = n => children'[m] = born
  <2> HIDE DEF n, c, born
  <2>1. children = [m \in Runs |-> children[m]]
    BY <1>2 DEF Shapes
  <2>2. \A passing : NotStarted(c, n, passing).lane # "Running"
    BY EndsStart
  <2> QED
    BY <1>4, <2>1, <2>2
<1>10. causes' \in [Issues -> Nat]
  BY <1>2, <1>3, <1>4 DEF Shapes, BlameIf
<1>11. Shapes'
  <2>1. ASSUME NEW m \in Runs
        PROVE  /\ children'[m] = [issue |-> children'[m].issue, attempt |-> children'[m].attempt,
                                  status |-> children'[m].status]
               /\ children'[m].status \notin {"none", "gone"} => children'[m].issue \in Issues
    <3>1. CASE children'[m] = born
      BY <1>3, <3>1
    <3>2. CASE children'[m] = children[m]
      BY <1>2, <3>2 DEF Shapes, Listed
    <3> QED
      BY <1>9, <3>1, <3>2
  <2> QED
    BY <1>1, <1>2, <1>6, <1>9, <1>10, <2>1 DEF Shapes, Listed
<1>12. HandInStep'
  <2>1. e.lane = "Running" => (n \in Runs => children'[n].issue = i)
    BY <1>9
  <2> QED
    BY <1>1, <1>3, <1>5, <1>6, <2>1 DEF HandInStep
<1>13. WorkInStep'
  BY <1>1, <1>2 DEF WorkInStep, IsList
<1>14. \A j : Coming(j)' = Coming(j) /\ Coming(j) = Times(work, j)
  BY <1>1 DEF Coming, Times
<1>15. ASSUME NEW j \in Issues
       PROVE  Booked(j)'
  <2>1. Coming(j)' <= Coming(j) /\ causes[j] \in Nat /\ causes'[j] \in Nat
    BY <1>2, <1>10, <1>14, ComingCounts DEF Shapes
  <2>2. CASE j # i
    <3>1. Loose(j)' \subseteq Loose(j)
      BY <1>7, <1>9, <2>2 DEF Loose, Live
    <3>2. Strays(j)' \subseteq Strays(j)
      <4>1. \A m \in Runs : children'[m].issue = j => children'[m] = children[m]
        BY <1>9, <2>2
      <4>2. \A m : ~(hand.event.lane = "Running" /\ hand.event.run = m)
        BY <1>7 DEF InHand
      <4> QED
        BY <1>1, <4>1, <4>2 DEF Strays, Live, IsRunOf, Running
    <3>3. causes'[j] = causes[j]
      BY <1>2, <1>4, <2>2 DEF BlameIf, Shapes
    <3>4. causes'[j] >= causes[j]
      BY <2>1, <3>3
    <3> QED
      BY <1>11, <1>13, <2>1, <3>1, <3>2, <3>4, NothingLoose
  <2>3. CASE j = i
    <3>1. Coming(j) # 0
      BY <1>3, <1>14, <2>3
    <3>2. Cardinality(Loose(j)) \in Nat /\ Cardinality(Loose(j)') \in Nat
      BY Counted
    <3>3. CASE causes' = causes /\ (e.lane = "Running" \/ children' = children)
      <4>1. Loose(j)' \subseteq Loose(j)
        BY <1>7, <1>8, <1>9, <3>3 DEF Loose, Live
      <4>2. Cardinality(Loose(j)') <= Cardinality(Loose(j))
        BY <4>1, Counted, NoMore
      <4>3. Cardinality(Loose(j)') + causes[j] <= Cardinality(Loose(j)) + causes'[j]
        BY <2>1, <3>2, <3>3, <4>2
      <4> QED
        BY <1>11, <1>13, <2>1, <3>1, <4>3, StillComing
    <3>4. CASE BlameIf(i, TRUE)
      <4>1. Loose(j)' \subseteq Loose(j) \cup {n}
        BY <1>7, <1>9 DEF Loose, Live
      <4>2. Cardinality(Loose(j)') <= Cardinality(Loose(j)) + 1
        <5> HIDE DEF n
        <5> QED
          BY <4>1, Counted, RunSets, OneMore
      <4>3. causes'[j] = causes[j] + 1
        BY <1>2, <2>3, <3>4 DEF BlameIf, Shapes
      <4>4. Cardinality(Loose(j)') + causes[j] <= Cardinality(Loose(j)) + causes'[j]
        BY <2>1, <3>2, <4>2, <4>3
      <4> QED
        BY <1>11, <1>13, <2>1, <3>1, <4>4, StillComing
    <3>5. e = Started(c, n) => e.lane = "Running"
      BY EndsStart
    <3> QED
      BY <1>4, <3>3, <3>4, <3>5
  <2> QED
    BY <2>2, <2>3
<1> QED
  BY <1>11, <1>12, <1>13, <1>15 DEF OrchestrationInv, Accounted
-----------------------------------------------------------------------------
(* What Apply does to the cards.                                           *)
LEMMA Projected ==
  ASSUME Shapes, NEW e, NEW fresh, Project(e, fresh)
  PROVE  /\ cards' = [i \in Issues |-> cards'[i]]
         /\ \A i \in Issues : cards'[i] =
              [lane |-> cards'[i].lane, run |-> cards'[i].run, attempt |-> cards'[i].attempt,
               due |-> cards'[i].due, young |-> cards'[i].young]
         /\ Ignored(e) => cards' = cards
         /\ \A i \in Issues : e.issue # i => cards'[i] = cards[i]
         /\ \A i \in Issues : e.issue = i /\ ~Ignored(e) =>
              cards'[i].lane = e.lane /\ cards'[i].run = Newer(cards[i].run, e.run)
<1>1. /\ cards = [i \in Issues |-> cards[i]]
      /\ \A i \in Issues : cards[i] =
           [lane |-> cards[i].lane, run |-> cards[i].run, attempt |-> cards[i].attempt,
            due |-> cards[i].due, young |-> cards[i].young]
  BY DEF Shapes
<1>2. CASE Ignored(e)
  <2>1. cards' = cards
    BY <1>2 DEF Project
  <2> QED
    BY <1>1, <1>2, <2>1
<1>3. CASE ~Ignored(e)
  <2>1. cards' = [cards EXCEPT ![e.issue] =
         [lane |-> e.lane, due |-> e.due, young |-> fresh /\ e.lane = "Running",
          run |-> Newer(cards[e.issue].run, e.run), attempt |-> Newer(cards[e.issue].attempt, e.attempt)]]
    BY <1>3 DEF Project
  <2>2. cards' = [i \in Issues |-> cards'[i]]
    BY <1>1, <2>1
  <2>3. \A i \in Issues : e.issue # i => cards'[i] = cards[i]
    BY <1>1, <2>1
  <2>4. ASSUME NEW i \in Issues, e.issue = i
        PROVE  /\ cards'[i] =
                    [lane |-> cards'[i].lane, run |-> cards'[i].run, attempt |-> cards'[i].attempt,
                     due |-> cards'[i].due, young |-> cards'[i].young]
               /\ cards'[i].lane = e.lane /\ cards'[i].run = Newer(cards[i].run, e.run)
    <3> DEFINE y == fresh /\ e.lane = "Running"
               r == Newer(cards[i].run, e.run)
               a == Newer(cards[i].attempt, e.attempt)
    <3>1. cards'[i] = [lane |-> e.lane, due |-> e.due, young |-> y, run |-> r, attempt |-> a]
      BY <1>1, <2>1, <2>4
    <3> HIDE DEF y, r, a
    <3>2. /\ cards'[i] =
               [lane |-> cards'[i].lane, run |-> cards'[i].run, attempt |-> cards'[i].attempt,
                due |-> cards'[i].due, young |-> cards'[i].young]
          /\ cards'[i].lane = e.lane /\ cards'[i].run = r
      BY <3>1
    <3> QED
      BY <3>2 DEF r
  <2>5. ASSUME NEW i \in Issues
        PROVE  cards'[i] =
                 [lane |-> cards'[i].lane, run |-> cards'[i].run, attempt |-> cards'[i].attempt,
                  due |-> cards'[i].due, young |-> cards'[i].young]
    <3>1. CASE e.issue = i
      BY <2>4, <3>1
    <3>2. CASE e.issue # i
      BY <1>1, <2>3, <3>2
    <3> QED
      BY <3>1, <3>2
  <2>6. \A i \in Issues : e.issue = i =>
          cards'[i].lane = e.lane /\ cards'[i].run = Newer(cards[i].run, e.run)
    BY <2>4
  <2> QED
    BY <1>3, <2>2, <2>3, <2>5, <2>6
<1> QED
  BY <1>2, <1>3

(* The event in hand reaches the card: one that starts a child makes the   *)
(* card show it, unless it is ignored, for a cause.                        *)
LEMMA ProjectLoggedKeeps ==
  ASSUME OrchestrationInv, ProjectLogged
  PROVE  OrchestrationInv'
<1> DEFINE e == hand.event
<1>1. /\ hand.at = "logged" /\ hand' = Nothing /\ work' = Tail(work)
      /\ UNCHANGED <<children, phase>>
      /\ Project(hand.event, TRUE)
      /\ BlameIf(e.issue, e.lane = "Running" /\ Ignored(e) /\ ~IsRunOf(e.run, e.issue))
  BY DEF ProjectLogged, Continue
<1>2. Shapes /\ HandInStep /\ WorkInStep
  BY DEF OrchestrationInv
<1>3. hand # Nothing
  BY <1>1, FullHand
<1>4. work # <<>> /\ e.issue \in Issues
      /\ (e.lane = "Running" => (e.run \in Runs => children[e.run].issue = e.issue))
  BY <1>2, <1>3 DEF HandInStep
<1>5. /\ WorkInStep'
      /\ \A i \in Issues : Coming(i)' <= Coming(i)
      /\ \A i \in Issues : e.issue = i => Coming(i)' + 1 <= Coming(i)
  BY <1>1, <1>3, <1>4, TailInStep
<1>6. \A n : ~InHand(n)'
  BY <1>1, EmptyHand
<1>7. /\ cards' = [i \in Issues |-> cards'[i]]
      /\ \A i \in Issues : cards'[i] =
           [lane |-> cards'[i].lane, run |-> cards'[i].run, attempt |-> cards'[i].attempt,
            due |-> cards'[i].due, young |-> cards'[i].young]
      /\ Ignored(e) => cards' = cards
      /\ \A i \in Issues : e.issue # i => cards'[i] = cards[i]
      /\ \A i \in Issues : e.issue = i /\ ~Ignored(e) =>
           cards'[i].lane = e.lane /\ cards'[i].run = Newer(cards[i].run, e.run)
  BY <1>1, <1>2, Projected
<1>8. causes' \in [Issues -> Nat]
  BY <1>1, <1>2, <1>4 DEF Shapes, BlameIf
<1>9. Shapes'
  <2>1. hand' = [at |-> hand'.at, event |-> hand'.event]
    BY <1>1 DEF Nothing
  <2> QED
    BY <1>1, <1>2, <1>7, <1>8, <2>1 DEF Shapes, Listed
<1>10. HandInStep'
  <2>1. hand'.at = "empty" /\ hand'.event.lane # "Running"
    BY <1>1, EmptyHand DEF Nothing
  <2> QED
    BY <1>1, <2>1 DEF HandInStep
<1>11. ASSUME NEW i \in Issues
       PROVE  Booked(i)'
  <2>1. causes[i] \in Nat /\ causes'[i] \in Nat
    BY <1>2, <1>8 DEF Shapes
  <2>2. CASE e.issue # i
    <3>1. \A n \in Runs : InHand(n) => children[n].issue # i
      BY <1>4, <2>2 DEF InHand
    <3>2. Loose(i)' \subseteq Loose(i)
      BY <1>1, <3>1 DEF Loose, Live
    <3>3. Strays(i)' \subseteq Strays(i)
      BY <1>1, <1>7, <2>2, <3>1 DEF Strays, Live, InHand, IsRunOf, Running
    <3>4. causes'[i] = causes[i]
      BY <1>1, <1>2, <2>2 DEF BlameIf, Shapes
    <3>5. Coming(i)' <= Coming(i) /\ causes'[i] >= causes[i]
      BY <1>5, <2>1, <3>4
    <3> QED
      BY <1>5, <1>9, <3>2, <3>3, <3>5, NothingLoose
  <2>3. CASE e.issue = i
    <3>1. Coming(i)' + 1 <= Coming(i)
      BY <1>5, <2>3
    <3>2. Loose(i)' \subseteq Loose(i) \cup {e.run}
      BY <1>1 DEF Loose, InHand, Live
    <3>3. Cardinality(Loose(i)') <= Cardinality(Loose(i)) + 1
      <4> HIDE DEF e
      <4> QED
        BY <3>2, Counted, RunSets, OneMore
    <3>4. /\ Cardinality(Loose(i)) \in Nat /\ Cardinality(Strays(i)') \in Nat
          /\ Cardinality(Strays(i)') <= Cardinality(Loose(i)') /\ Cardinality(Loose(i)') \in Nat
      BY Counted
    <3>5. CASE e.lane = "Running" /\ Ignored(e) /\ ~IsRunOf(e.run, e.issue)
      <4>1. causes'[i] = causes[i] + 1
        BY <1>1, <1>2, <2>3, <3>5 DEF BlameIf, Shapes
      <4>2. Cardinality(Strays(i)') + causes[i] <= Cardinality(Loose(i)) + causes'[i]
        BY <2>1, <3>3, <3>4, <4>1
      <4>3. causes'[i] >= causes[i]
        BY <2>1, <4>1
      <4> QED
        BY <1>5, <1>9, <3>1, <3>3, <4>2, <4>3, OneCame
    <3>6. CASE ~(e.lane = "Running" /\ Ignored(e) /\ ~IsRunOf(e.run, e.issue))
      <4>1. causes'[i] = causes[i]
        BY <1>1, <1>2, <2>3, <3>6 DEF BlameIf, Shapes
      <4>2. ASSUME NEW n \in Runs, e.lane = "Running", e.run = n
            PROVE  IsRunOf(n, i)'
        <5>1. CASE Ignored(e)
          <6>1. IsRunOf(n, i)
            BY <2>3, <3>6, <4>2, <5>1
          <6> QED
            BY <1>7, <5>1, <6>1 DEF IsRunOf, Running
        <5>2. CASE ~Ignored(e)
          <6>1. n # 0
            BY OrchestrationAssumption DEF Runs
          <6>2. cards'[i].lane = "Running" /\ cards'[i].run = n
            BY <1>7, <2>3, <4>2, <5>2, <6>1 DEF Newer
          <6> QED
            BY <6>2 DEF IsRunOf, Running
        <5> QED
          BY <5>1, <5>2
      <4>3. ASSUME NEW n \in Strays(i)'
            PROVE  n \in Loose(i)
        <5>1. n \in Runs /\ Live(n) /\ children[n].issue = i /\ ~IsRunOf(n, i)'
          BY <1>1 DEF Strays, Live, IsRunOf, Running
        <5>2. ~InHand(n)
          BY <4>2, <5>1 DEF InHand
        <5> QED
          BY <5>1, <5>2 DEF Loose
      <4>4. Cardinality(Strays(i)') <= Cardinality(Loose(i))
        BY <4>3, Counted, NoMore
      <4>5. Cardinality(Strays(i)') + causes[i] <= Cardinality(Loose(i)) + causes'[i]
        BY <2>1, <3>4, <4>1, <4>4
      <4>6. causes'[i] >= causes[i]
        BY <2>1, <4>1
      <4> QED
        BY <1>5, <1>9, <3>1, <3>3, <4>5, <4>6, OneCame
    <3> QED
      BY <3>5, <3>6
  <2> QED
    BY <2>2, <2>3
<1> QED
  BY <1>5, <1>9, <1>10, <1>11 DEF OrchestrationInv, Accounted
-----------------------------------------------------------------------------
(* An event is projected by the web API: if its card runs then, that child *)
(* may go on, for a cause.                                                 *)
LEMMA ProjectKeeps ==
  ASSUME OrchestrationInv, NEW e, NEW fresh, Project(e, fresh),
         UNCHANGED <<children, phase, work, hand>>,
         NEW cond \in BOOLEAN, BlameIf(e.issue, cond),
         e.issue \in Issues /\ Running(e.issue) => cond
  PROVE  OrchestrationInv'
<1>1. Shapes /\ HandInStep /\ WorkInStep
  BY DEF OrchestrationInv
<1>2. /\ cards' = [i \in Issues |-> cards'[i]]
      /\ \A i \in Issues : cards'[i] =
           [lane |-> cards'[i].lane, run |-> cards'[i].run, attempt |-> cards'[i].attempt,
            due |-> cards'[i].due, young |-> cards'[i].young]
      /\ \A i \in Issues : e.issue # i => cards'[i] = cards[i]
  BY <1>1, Projected
<1>3. causes' \in [Issues -> Nat]
  <2>1. causes \in [Issues -> Nat]
    BY <1>1 DEF Shapes
  <2>2. CASE e.issue \in Issues
    BY <2>1, <2>2 DEF BlameIf
  <2>3. CASE e.issue \notin Issues
    BY <2>1, <2>3 DEF BlameIf
  <2> QED
    BY <2>2, <2>3
<1>4. Shapes'
  BY <1>1, <1>2, <1>3 DEF Shapes, Listed
<1>5. HandInStep'
  BY <1>1 DEF HandInStep
<1>6. WorkInStep'
  BY <1>1 DEF WorkInStep, IsList
<1>7. ASSUME NEW i \in Issues
      PROVE  Booked(i)'
  <2>1. causes[i] \in Nat /\ causes'[i] \in Nat
    BY <1>1, <1>3 DEF Shapes
  <2>2. Loose(i)' = Loose(i)
    BY DEF Loose, Live, InHand
  <2>3. Coming(i)' = Coming(i)
    BY DEF Coming, Times
  <2>4. Coming(i)' <= Coming(i)
    BY <2>3, ComingCounts DEF OrchestrationInv
  <2>5. CASE e.issue # i
    <3>1. Strays(i)' = Strays(i)
      BY <1>2, <2>5, SameStrays DEF InHand
    <3>2. causes'[i] = causes[i]
      BY <1>1, <2>5 DEF BlameIf, Shapes
    <3>3. causes'[i] >= causes[i]
      BY <2>1, <3>2
    <3> QED
      BY <1>4, <1>6, <2>2, <2>4, <3>1, <3>3, NothingLoose
  <2>6. CASE e.issue = i
    <3>1. causes'[i] = IF cond THEN causes[i] + 1 ELSE causes[i]
      BY <1>1, <2>6 DEF BlameIf, Shapes
    <3>2. /\ Strays(i)' \subseteq Loose(i)' /\ Loose(i) \subseteq Runs
          /\ Cardinality(Strays(i)) \in Nat /\ Cardinality(Strays(i)') \in Nat
          /\ Cardinality(Loose(i)) \in Nat
          /\ Strays(i) \subseteq Runs
      BY Counted
    <3>3. CASE Coming(i) # 0
      <4>1. Cardinality(Loose(i)') + causes[i] <= Cardinality(Loose(i)) + causes'[i]
        BY <2>1, <2>2, <3>1, <3>2
      <4> QED
        BY <1>4, <1>6, <2>4, <3>3, <4>1, StillComing
    <3>4. CASE Coming(i) = 0
      <4>1. CASE cond
        <5>1. Strays(i)' \subseteq Strays(i) \cup {cards[i].run}
          BY <2>2, <3>2, ShownOnly
        <5>2. Cardinality(Strays(i)') <= Cardinality(Strays(i)) + 1
          BY <3>2, <5>1, RunSets, OneMore
        <5>3. Cardinality(Strays(i)') + causes[i] <= Cardinality(Strays(i)) + causes'[i]
          BY <2>1, <3>1, <3>2, <4>1, <5>2
        <5> QED
          BY <1>4, <2>3, <3>4, <5>3, NothingComing
      <4>2. CASE ~cond
        <5>1. ~Running(i)
          BY <2>6, <4>2
        <5>2. Strays(i)' \subseteq Strays(i)
          BY <2>2, <3>2, <5>1, ShownOnly
        <5>3. Cardinality(Strays(i)') <= Cardinality(Strays(i))
          BY <3>2, <5>2, NoMore
        <5>4. Cardinality(Strays(i)') + causes[i] <= Cardinality(Strays(i)) + causes'[i]
          BY <2>1, <3>1, <3>2, <4>2, <5>3
        <5> QED
          BY <1>4, <2>3, <3>4, <5>4, NothingComing
      <4> QED
        BY <4>1, <4>2
    <3> QED
      BY <3>3, <3>4
  <2> QED
    BY <2>5, <2>6
<1> QED
  BY <1>4, <1>5, <1>6, <1>7 DEF OrchestrationInv, Accounted

(* The action of a user on a card that may run by now has a cause if it    *)
(* does.                                                                   *)
LEMMA ActKeeps ==
  ASSUME OrchestrationInv, Act
  PROVE  OrchestrationInv'
<1> DEFINE e == desk.event
           cond == Running(e.issue)
<1>1. cond \in BOOLEAN
  BY DEF Running
<1>2. Project(e, TRUE) /\ BlameIf(e.issue, cond) /\ UNCHANGED <<children, phase, work, hand>>
  BY DEF Act, overseer
<1>3. e.issue \in Issues /\ Running(e.issue) => cond
  OBVIOUS
<1> HIDE DEF e, cond
<1> QED
  BY <1>1, <1>2, <1>3, ProjectKeeps

(* A replayed event always counts as a cause.                              *)
LEMMA RefreshKeeps ==
  ASSUME OrchestrationInv, Refresh
  PROVE  OrchestrationInv'
<1> DEFINE e == Head(behind)
<1>1. PICK fresh \in BOOLEAN : Project(e, fresh)
  BY DEF Refresh
<1>2. BlameIf(e.issue, TRUE) /\ UNCHANGED <<children, phase, work, hand>>
  BY DEF Refresh, overseer
<1> HIDE DEF e
<1> QED
  BY <1>1, <1>2, ProjectKeeps
-----------------------------------------------------------------------------
(* A child that ends, or is forgotten, is no longer live.                  *)
LEMMA ChildStops ==
  ASSUME OrchestrationInv, NEW n \in Runs, Listed(n),
         NEW how \in {"completed", "passing", "failed", "gone"},
         children' = [children EXCEPT ![n].status = how],
         UNCHANGED <<cards, phase, work, hand, causes>>
  PROVE  OrchestrationInv'
<1>1. Shapes /\ HandInStep /\ WorkInStep
  BY DEF OrchestrationInv
<1>2. /\ children = [m \in Runs |-> children[m]]
      /\ children[n] = [issue |-> children[n].issue, attempt |-> children[n].attempt,
                        status |-> children[n].status]
  BY <1>1 DEF Shapes
<1>3. /\ children' = [m \in Runs |-> children'[m]]
      /\ children'[n] = [children[n] EXCEPT !.status = how]
      /\ \A m \in Runs : m # n => children'[m] = children[m]
  BY <1>2
<1>4. children'[n] = [issue |-> children[n].issue, attempt |-> children[n].attempt, status |-> how]
  BY <1>2, <1>3
<1>5. /\ children'[n].issue = children[n].issue /\ children'[n].status = how
      /\ children'[n] = [issue |-> children'[n].issue, attempt |-> children'[n].attempt,
                         status |-> children'[n].status]
  BY <1>4
<1>6. \A m \in Runs : children'[m].issue = children[m].issue
  BY <1>3, <1>5
<1>7. Shapes'
  <2>1. \A m \in Runs : children'[m] = [issue |-> children'[m].issue, attempt |-> children'[m].attempt,
                                        status |-> children'[m].status]
    BY <1>1, <1>3, <1>5 DEF Shapes
  <2>2. \A m \in Runs : children'[m].status \notin {"none", "gone"} => children'[m].issue \in Issues
    BY <1>1, <1>3, <1>6 DEF Shapes, Listed
  <2> QED
    BY <1>1, <1>3, <2>1, <2>2 DEF Shapes, Listed
<1>8. HandInStep'
  BY <1>1, <1>6 DEF HandInStep
<1>9. WorkInStep'
  BY <1>1, <1>6 DEF WorkInStep, IsList
<1>10. ASSUME NEW i \in Issues
       PROVE  Booked(i)'
  <2>1. Coming(i)' = Coming(i)
    BY DEF Coming, Times
  <2>2. Coming(i)' <= Coming(i) /\ causes'[i] >= causes[i]
    BY <1>1, <2>1, ComingCounts DEF OrchestrationInv, Shapes
  <2>3. \A m \in Runs : children'[m].status = "live" => children'[m] = children[m]
    BY <1>3, <1>5
  <2>4. Loose(i)' \subseteq Loose(i)
    BY <2>3 DEF Loose, Live, InHand
  <2>5. Strays(i)' \subseteq Strays(i)
    BY <2>3 DEF Strays, Live, IsRunOf, Running
  <2> QED
    BY <1>7, <1>9, <2>2, <2>4, <2>5, NothingLoose
<1> QED
  BY <1>7, <1>8, <1>9, <1>10 DEF OrchestrationInv, Accounted

(* Time passes on a card, and steps of the desk: lane and run stay.        *)
LEMMA CardsAlike ==
  ASSUME OrchestrationInv, cards' = [i \in Issues |-> cards'[i]],
         \A i \in Issues :
           /\ cards'[i] = [lane |-> cards'[i].lane, run |-> cards'[i].run, attempt |-> cards'[i].attempt,
                           due |-> cards'[i].due, young |-> cards'[i].young]
           /\ cards'[i].lane = cards[i].lane /\ cards'[i].run = cards[i].run,
         UNCHANGED <<children, phase, work, hand, causes>>
  PROVE  OrchestrationInv'
<1>1. Shapes /\ HandInStep /\ WorkInStep
  BY DEF OrchestrationInv
<1>2. Shapes'
  BY <1>1 DEF Shapes, Listed
<1>3. HandInStep'
  BY <1>1 DEF HandInStep
<1>4. WorkInStep'
  BY <1>1 DEF WorkInStep, IsList
<1>5. ASSUME NEW i \in Issues
      PROVE  Booked(i)'
  <2>1. Coming(i)' = Coming(i)
    BY DEF Coming, Times
  <2>2. Coming(i)' <= Coming(i) /\ causes'[i] >= causes[i]
    BY <1>1, <2>1, ComingCounts DEF OrchestrationInv, Shapes
  <2>3. Strays(i)' = Strays(i) /\ Loose(i)' = Loose(i)
    BY SameStrays DEF InHand
  <2> QED
    BY <1>2, <1>4, <2>2, <2>3, NothingLoose
<1> QED
  BY <1>2, <1>3, <1>4, <1>5 DEF OrchestrationInv, Accounted

(* Steps that change neither board nor children nor what is in hand.       *)
LEMMA BoardStays ==
  ASSUME OrchestrationInv, UNCHANGED <<cards, children, phase, work, hand, causes>>
  PROVE  OrchestrationInv'
BY CardsAlike DEF OrchestrationInv, Shapes

(* A retry that falls due, or a run that is no longer young, shows the     *)
(* same child.                                                             *)
LEMMA TimePasses ==
  ASSUME OrchestrationInv, NEW i \in Issues, RetryFallsDue(i) \/ GraceEnds(i)
  PROVE  OrchestrationInv'
<1>1. UNCHANGED <<children, phase, work, hand, causes>>
  BY DEF RetryFallsDue, GraceEnds, overseer
<1>2. /\ cards = [k \in Issues |-> cards[k]]
      /\ \A k \in Issues : cards[k] =
           [lane |-> cards[k].lane, run |-> cards[k].run, attempt |-> cards[k].attempt,
            due |-> cards[k].due, young |-> cards[k].young]
  BY DEF OrchestrationInv, Shapes
<1>3. \/ cards' = [cards EXCEPT ![i] = [cards[i] EXCEPT !.due = TRUE]]
      \/ cards' = [cards EXCEPT ![i] = [cards[i] EXCEPT !.young = FALSE]]
  BY DEF RetryFallsDue, GraceEnds
<1>4. /\ cards' = [k \in Issues |-> cards'[k]]
      /\ cards'[i] = [cards[i] EXCEPT !.due = TRUE] \/ cards'[i] = [cards[i] EXCEPT !.young = FALSE]
      /\ \A k \in Issues : k # i => cards'[k] = cards[k]
  BY <1>2, <1>3
<1>5. /\ cards'[i] = [lane |-> cards'[i].lane, run |-> cards'[i].run, attempt |-> cards'[i].attempt,
                      due |-> cards'[i].due, young |-> cards'[i].young]
      /\ cards'[i].lane = cards[i].lane /\ cards'[i].run = cards[i].run
  BY <1>2, <1>4
<1> QED
  BY <1>1, <1>2, <1>4, <1>5, CardsAlike
-----------------------------------------------------------------------------
(* At the start there is nothing to account for.                           *)
LEMMA OrchestrationStarts ==
  ASSUME OrchestrationInit
  PROVE  OrchestrationInv
<1>1. /\ hand = Nothing /\ phase = "idle" /\ work = <<>>
      /\ children = [n \in Runs |-> Absent] /\ causes = [i \in Issues |-> 0]
      /\ cards = [i \in Issues |-> [lane |-> "Todo", run |-> 0, attempt |-> 0, due |-> FALSE, young |-> FALSE]]
  BY DEF OrchestrationInit
<1>2. \A n \in Runs : ~Listed(n) /\ ~Live(n)
  BY <1>1 DEF Listed, Live, Absent
<1>3. hand.at = "empty" /\ hand = [at |-> hand.at, event |-> hand.event]
  BY <1>1 DEF Nothing
<1>4. Shapes
  BY <1>1, <1>2, <1>3 DEF Shapes, Absent
<1>5. HandInStep
  BY <1>1, <1>3, EmptyHand DEF HandInStep
<1>6. WorkInStep
  BY <1>1, EmptyList DEF WorkInStep, Phases
<1>7. ASSUME NEW i \in Issues
      PROVE  Booked(i)
  <2>1. Coming(i) = 0
    BY <1>1 DEF Coming
  <2>2. Strays(i) = {}
    BY <1>2 DEF Strays
  <2>3. Cardinality(Strays(i)) = 0
    BY <2>2, FS_EmptySet
  <2> QED
    BY <1>1, <2>1, <2>3 DEF Booked
<1> QED
  BY <1>4, <1>5, <1>6, <1>7 DEF OrchestrationInv, Accounted

(* Every step keeps the account.                                           *)
LEMMA OrchestrationStep ==
  ASSUME OrchestrationInv, [OrchestrationNext]_orchestrationVars
  PROVE  OrchestrationInv'
<1>1. CASE OverseerStep
  BY <1>1, RecoverKeeps, RecordPlanKeeps, ReconcileKeeps, ReconcileChildKeeps, ListRetriesKeeps,
     ListTodosKeeps, SpawnKeeps, PassOverKeeps, AppendMadeKeeps, ProjectLoggedKeeps DEF OverseerStep
<1>2. CASE CallFails \/ Restart
  BY <1>2, CallFailsKeeps, RestartKeeps
<1>3. CASE WebStep
  <2>1. ASSUME NEW i, NEW lane, ReadCard(i, lane)
        PROVE  OrchestrationInv'
    BY <2>1, BoardStays DEF ReadCard, board, overseer
  <2> QED
    BY <1>3, <2>1, ActKeeps, RefreshKeeps DEF WebStep
<1>4. CASE \E n \in Runs : ChildEnds(n) \/ ChildLost(n)
  <2>1. PICK n \in Runs : ChildEnds(n) \/ ChildLost(n)
    BY <1>4
  <2>2. Listed(n) /\ UNCHANGED <<cards, phase, work, hand, causes>>
    BY <2>1 DEF ChildEnds, ChildLost, Live, Listed, board, overseer
  <2>3. PICK how \in {"completed", "passing", "failed", "gone"} :
          children' = [children EXCEPT ![n].status = how]
    BY <2>1 DEF ChildEnds, ChildLost
  <2> QED
    BY <2>2, <2>3, ChildStops
<1>5. CASE \E i \in Issues : RetryFallsDue(i) \/ GraceEnds(i)
  BY <1>5, TimePasses
<1>6. CASE UNCHANGED orchestrationVars
  BY <1>6, BoardStays DEF orchestrationVars, board, overseer
<1> QED
  BY <1>1, <1>2, <1>3, <1>4, <1>5, <1>6 DEF OrchestrationNext

(* Whatever is still to come, the children a card does not show have their *)
(* causes.                                                                 *)
LEMMA InvAccounts ==
  ASSUME OrchestrationInv
  PROVE  StraysHaveCauses
<1> SUFFICES ASSUME NEW i \in Issues
             PROVE  Cardinality(Strays(i)) <= causes[i]
  BY DEF StraysHaveCauses
<1>1. Booked(i) /\ causes[i] \in Nat
  BY DEF OrchestrationInv, Accounted, Shapes
<1>2. /\ Coming(i) \in Nat /\ Cardinality(Loose(i)) \in Nat /\ Cardinality(Strays(i)) \in Nat
      /\ Cardinality(Strays(i)) <= Cardinality(Loose(i))
  BY ComingCounts, Counted DEF OrchestrationInv
<1>3. CASE Coming(i) = 0
  BY <1>1, <1>3 DEF Booked
<1>4. CASE Coming(i) # 0
  <2>1. Cardinality(Loose(i)) + Coming(i) <= causes[i] + 1
    BY <1>1, <1>4 DEF Booked
  <2> QED
    BY <1>1, <1>2, <1>4, <2>1
<1> QED
  BY <1>3, <1>4

\* A second child works on an issue only for a cause, for any number of issues,
\* dispatches, failures, restarts and actions: a dispatch that is spawned,
\* appended and projected, or loses its way in between (SpawnResultCallback),
\* leaves no child behind that nothing accounts for.
THEOREM StraysAreCaused == OrchestrationSpec => []StraysHaveCauses
<1>1. OrchestrationInit => OrchestrationInv
  BY OrchestrationStarts
<1>2. OrchestrationInv /\ [OrchestrationNext]_orchestrationVars => OrchestrationInv'
  BY OrchestrationStep
<1>3. OrchestrationInv => StraysHaveCauses
  BY InvAccounts
<1> QED
  BY <1>1, <1>2, <1>3, PTL DEF OrchestrationSpec
=============================================================================
