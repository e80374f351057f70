------------------------ MODULE RuntimeWorkersProofs ------------------------
(***************************************************************************)
(* Proofs about RuntimeWorkers: type correctness, and, where every spawn   *)
(* has a worker id of its own, that the registry implements WorkerRecords  *)
(* whatever is lost, refused or restarted on the way; and that every end   *)
(* is recorded while the host stays up and nothing it publishes about its  *)
(* processes is refused.                                                   *)
(***************************************************************************)
EXTENDS RuntimeWorkers, TLAPS

LEMMA AppendFacts ==
  ASSUME NEW S, NEW q \in Seq(S), NEW e \in S
  PROVE  /\ Append(q, e) \in Seq(S)
         /\ Len(Append(q, e)) = Len(q) + 1
         /\ \A i \in 1..Len(q) : Append(q, e)[i] = q[i]
         /\ Append(q, e)[Len(q) + 1] = e
  OBVIOUS

LEMMA TailFacts ==
  ASSUME NEW S, NEW q \in Seq(S), q # <<>>
  PROVE  /\ Head(q) \in S /\ Head(q) = q[1] /\ 1 \in 1..Len(q)
         /\ Tail(q) \in Seq(S)
         /\ Len(Tail(q)) = Len(q) - 1
         /\ \A i \in 1..Len(Tail(q)) : i + 1 \in 1..Len(q) /\ Tail(q)[i] = q[i + 1]
  OBVIOUS

-----------------------------------------------------------------------------
(* Types. *)

LEMMA WorkerOfType ==
  ASSUME NEW d \in Dispatches
  PROVE  WorkerOf(d) \in Workers
  BY DEF Workers

LEMMA ObservationType ==
  ASSUME NEW w \in Workers, NEW s \in Statuses, NEW p \in Pids
  PROVE  /\ Observation(w, s, p) \in Event
         /\ Observation(w, s, p).worker = w
         /\ Observation(w, s, p).status = s
         /\ Observation(w, s, p).pid = p
  BY DEF Observation, Event

LEMMA OfferType ==
  ASSUME TypeOK, NEW e \in Event, Offer(e)
  PROVE  queue' \in Seq(Event) /\ Len(queue') <= Capacity
  <1>1. CASE Publish(e)
    <2>1. queue' \in Seq(Event) /\ Len(queue') = Len(queue) + 1
      BY <1>1, AppendFacts DEF Publish, TypeOK
    <2> QED
      BY <1>1, <2>1, RuntimeWorkersAssumption DEF Publish, TypeOK
  <1>2. CASE Refused
    BY <1>2 DEF Refused, TypeOK
  <1> QED
    BY <1>1, <1>2 DEF Offer

LEMMA MergeType ==
  ASSUME NEW row \in Row, NEW e \in Event
  PROVE  Merge(row, e) \in Row
  BY DEF Merge, StatusAfter, Row, Event

LEMMA ApplyTypes ==
  ASSUME TypeOK, Apply
  PROVE  TypeOK'
  <1>1. PICK e \in Event : e = Head(queue)
    BY TailFacts DEF Apply, TypeOK
  <1>2. /\ queue' \in Seq(Event) /\ Len(queue') <= Capacity
    BY TailFacts, RuntimeWorkersAssumption DEF Apply, TypeOK
  <1>3. e.worker \in Workers
    BY DEF Event
  <1>4. PICK row \in Row : row = Merge(mem[e.worker], e)
    BY <1>3, MergeType DEF TypeOK
  <1>5. mem' = [mem EXCEPT ![e.worker] = row] /\ store' = [store EXCEPT ![e.worker] = row]
    BY <1>1, <1>4 DEF Apply
  <1>6. mem' \in [Workers -> Row] /\ store' \in [Workers -> Row]
    BY <1>3, <1>4, <1>5 DEF TypeOK
  <1> QED
    BY <1>2, <1>6 DEF Apply, TypeOK, spawnVars, signalVars

LEMMA SpawnTypes ==
  ASSUME TypeOK, NEW d \in Dispatches, SpawnStep(d)
  PROVE  TypeOK'
  <1> USE DEF TypeOK, hostVars, spawnVars, signalVars, Forgotten, SetCall
  <1>1. CASE Request(d)
    <2> DEFINE e == Observation(WorkerOf(d), "pending", NoProcess)
    <2>1. e \in Event
      BY WorkerOfType, ObservationType DEF Statuses, Pids
    <2>2. Offer(e)
      BY <1>1 DEF Request, Offer
    <2>3. queue' \in Seq(Event) /\ Len(queue') <= Capacity
      BY <2>1, <2>2, OfferType
    <2> QED
      BY <1>1, <2>3 DEF Request
  <1>2. CASE StartFails(d)
    <2> DEFINE e == Observation(WorkerOf(d), "failed", NoProcess)
    <2>1. e \in Event
      BY WorkerOfType, ObservationType DEF Statuses, Terminal, Pids
    <2>2. queue' \in Seq(Event) /\ Len(queue') <= Capacity
      BY <1>2, <2>1, OfferType DEF StartFails
    <2> QED
      BY <1>2, <2>2 DEF StartFails
  <1>3. CASE Start(d)
    BY <1>3, WorkerOfType DEF Start, Pids
  <1>4. ASSUME NEW from, NEW s \in Active, NEW to \in Forgotten, Announce(d, from, s, to)
        PROVE  TypeOK'
    <2> DEFINE e == Observation(WorkerOf(d), s, d)
    <2>1. e \in Event
      BY WorkerOfType, ObservationType DEF Statuses, Pids
    <2>2. Offer(e)
      BY <1>4 DEF Announce, Offer
    <2>3. queue' \in Seq(Event) /\ Len(queue') <= Capacity
      BY <2>1, <2>2, OfferType
    <2> QED
      BY <1>4, <2>3 DEF Announce
  <1>5. CASE Spawned(d)
    BY <1>4, <1>5 DEF Spawned, Active
  <1>6. CASE Started(d)
    BY <1>4, <1>6 DEF Started, Active
  <1> QED
    BY <1>1, <1>2, <1>3, <1>5, <1>6 DEF SpawnStep

LEMMA OutcomeType ==
  ASSUME NEW d \in Dispatches
  PROVE  Outcome(d) \in Terminal /\ Outcome(d) \in Statuses
  BY DEF Outcome, Terminal, Statuses

LEMMA WaiterTypes ==
  ASSUME TypeOK, NEW d \in Dispatches, WaiterStep(d)
  PROVE  TypeOK'
  <1> USE DEF TypeOK, hostVars, spawnVars, signalVars, Forgotten, SetCall
  <1>1. CASE Report(d)
    <2> DEFINE e == Observation(WorkerOf(d), Outcome(d), d)
    <2>1. e \in Event
      BY WorkerOfType, ObservationType, OutcomeType DEF Pids
    <2>2. queue' \in Seq(Event) /\ Len(queue') <= Capacity
      BY <1>1, <2>1, OfferType DEF Report
    <2> QED
      BY <1>1, <2>2 DEF Report
  <1>2. CASE Unregister(d)
    BY <1>2 DEF Unregister, Pids
  <1> QED
    BY <1>1, <1>2 DEF WaiterStep

LEMMA TalkTypes ==
  ASSUME TypeOK, NEW d \in Dispatches, TalkStep(d)
  PROVE  TypeOK'
  <1> USE DEF TypeOK, hostVars, spawnVars, signalVars
  <1>1. CASE LogChunk(d)
    <2> DEFINE e == Observation(WorkerOf(d), "running", NoProcess)
    <2>1. e \in Event
      BY WorkerOfType, ObservationType DEF Statuses, Active, Pids
    <2>2. queue' \in Seq(Event) /\ Len(queue') <= Capacity
      BY <1>1, <2>1, OfferType DEF LogChunk
    <2>3. talk' \in 0..MaxTalk
      BY <1>1, RuntimeWorkersAssumption DEF LogChunk
    <2> QED
      BY <1>1, <2>2, <2>3 DEF LogChunk
  <1>2. CASE HeartbeatDue(d)
    <2>1. talk' \in 0..MaxTalk
      BY <1>2, RuntimeWorkersAssumption DEF HeartbeatDue
    <2> QED
      BY <1>2, <2>1 DEF HeartbeatDue
  <1>3. CASE Heartbeat(d)
    <2> DEFINE e == Observation(WorkerOf(d), "running", d)
    <2>1. e \in Event
      BY WorkerOfType, ObservationType DEF Statuses, Active, Pids
    <2>2. queue' \in Seq(Event) /\ Len(queue') <= Capacity
      BY <1>3, <2>1, OfferType DEF Heartbeat
    <2> QED
      BY <1>3, <2>2 DEF Heartbeat
  <1> QED
    BY <1>1, <1>2, <1>3 DEF TalkStep

LEMMA SignalTypes ==
  ASSUME TypeOK, NEW d \in Dispatches, SignalStep(d)
  PROVE  TypeOK'
  <1> USE DEF TypeOK, hostVars, spawnVars, signalVars, SetSignal
  <1>1. ASSUME NEW from, NEW to \in {"announced", "sending"}, AnnounceStop(d, from, to)
        PROVE  TypeOK'
    <2> DEFINE e == Observation(WorkerOf(d), "stopping", d)
    <2>1. e \in Event
      BY WorkerOfType, ObservationType DEF Statuses, Active, Pids
    <2>2. Offer(e)
      BY <1>1 DEF AnnounceStop, Offer
    <2>3. queue' \in Seq(Event) /\ Len(queue') <= Capacity
      BY <2>1, <2>2, OfferType
    <2> QED
      BY <1>1, <2>3 DEF AnnounceStop
  <1>2. CASE CancelRequested(d)
    BY <1>1, <1>2 DEF CancelRequested
  <1>3. CASE SignalSent(d)
    BY <1>1, <1>3 DEF SignalSent
  <1>4. CASE Send(d)
    BY <1>4 DEF Send, Exited
  <1> QED
    BY <1>2, <1>3, <1>4 DEF SignalStep

LEMMA MarkTypes ==
  ASSUME TypeOK, NEW w \in Workers, Mark(w)
  PROVE  TypeOK'
  <1>1. signals' \in 0..MaxSignals
    BY RuntimeWorkersAssumption DEF Mark, TypeOK
  <1> QED
    BY <1>1 DEF Mark, TypeOK, hostVars, spawnVars, SetSignal

LEMMA ReattachTypes ==
  ASSUME TypeOK, NEW w \in Workers, todo[w].status \in Statuses, Reattach(w) \/ Resolve(w)
  PROVE  TypeOK'
  <1> USE DEF TypeOK, hostVars, spawnVars, signalVars
  <1>1. todo[w].pid \in Pids /\ NoRow \in Row
    BY DEF Row, NoRow, Pids
  <1>2. Observation(w, todo[w].status, todo[w].pid) \in Event
    BY <1>1, ObservationType
  <1>3. Observation(w, "failed", todo[w].pid) \in Event
    BY <1>1, ObservationType DEF Statuses, Terminal
  <1>4. CASE Reattach(w)
    <2>1. Offer(Observation(w, todo[w].status, todo[w].pid))
      BY <1>4 DEF Reattach, Offer
    <2>2. queue' \in Seq(Event) /\ Len(queue') <= Capacity
      BY <1>2, <2>1, OfferType
    <2> QED
      BY <1>4, <2>2 DEF Reattach
  <1>5. CASE Resolve(w)
    <2>1. \/ Offer(Observation(w, todo[w].status, todo[w].pid))
          \/ Offer(Observation(w, "failed", todo[w].pid))
      BY <1>5 DEF Resolve, FoundDead, FoundAlive, Offer
    <2>2. queue' \in Seq(Event) /\ Len(queue') <= Capacity
      BY <1>2, <1>3, <2>1, OfferType
    <2>3. entry' \in [Workers -> Pids]
      BY <1>1, <1>5 DEF Resolve, FoundDead, FoundAlive
    <2> QED
      BY <1>1, <1>5, <2>2, <2>3 DEF Resolve
  <1> QED
    BY <1>4, <1>5

LEMMA HostTypes ==
  ASSUME TypeOK, UpsertFails \/ Startup \/ Ready \/ Close \/ Down
  PROVE  TypeOK'
  <1> USE DEF TypeOK, hostVars, spawnVars, signalVars
  <1>0. NoRow \in Row
    BY DEF Row, NoRow, Pids
  <1>1. CASE UpsertFails
    <2>1. queue' \in Seq(Event) /\ Len(queue') <= Capacity
      BY <1>1, TailFacts, RuntimeWorkersAssumption DEF UpsertFails
    <2> QED
      BY <1>1, <2>1 DEF UpsertFails
  <1>2. CASE Startup
    BY <1>0, <1>2 DEF Startup
  <1>3. CASE Ready
    BY <1>3 DEF Ready
  <1>4. CASE Close
    BY <1>4 DEF Close
  <1>5. CASE Down
    <2>1. queue' \in Seq(Event) /\ Len(queue') <= Capacity
      BY <1>5, RuntimeWorkersAssumption DEF Down
    <2>2. restarts' \in 0..MaxRestarts
      BY <1>5, RuntimeWorkersAssumption DEF Down
    <2> QED
      BY <1>0, <1>5, <2>1, <2>2 DEF Down, Pids, Forgotten
  <1> QED
    BY <1>1, <1>2, <1>3, <1>4, <1>5

LEMMA ExitTypes ==
  ASSUME TypeOK, NEW d \in Dispatches, Exit(d)
  PROVE  TypeOK'
  BY DEF Exit, Exited, TypeOK, hostVars, signalVars

\* What reattaching works on: rows that were read as active.
TodoRows ==
  /\ \A w \in Workers : todo[w] # NoRow => todo[w].status \in Active
  /\ \A w \in midway : todo[w] # NoRow
  /\ mode = "down" => midway = {}

Typed == TypeOK /\ TodoRows

LEMMA TypedInit == Init => Typed
  <1> SUFFICES ASSUME Init PROVE Typed
    OBVIOUS
  <1>1. NoRow \in Row
    BY DEF Row, NoRow, Pids
  <1>2. queue \in Seq(Event) /\ Len(queue) = 0
    BY DEF Init
  <1> QED
    BY <1>1, <1>2, RuntimeWorkersAssumption DEF Init, Typed, TypeOK, TodoRows, Pids

LEMMA TypedStep == Typed /\ [Next]_vars => Typed'
  <1> SUFFICES ASSUME Typed, [Next]_vars PROVE Typed'
    OBVIOUS
  <1> USE DEF Typed
  <1>1. TypeOK'
    <2>1. ASSUME NEW w \in Workers, Reattach(w) \/ Resolve(w) PROVE TypeOK'
      <3>1. todo[w].status \in Statuses
        BY <2>1 DEF TodoRows, Statuses, Reattach, Resolve
      <3> QED
        BY <2>1, <3>1, ReattachTypes
    <2>2. CASE UNCHANGED vars
      BY <2>2 DEF vars, hostVars, spawnVars, signalVars, TypeOK
    <2> QED
      BY <2>1, <2>2, ApplyTypes, HostTypes, SpawnTypes, WaiterTypes, TalkTypes, SignalTypes, ExitTypes,
         MarkTypes DEF Next
  <1>2. TodoRows'
    <2>1. CASE UNCHANGED <<mode, todo, midway>>
      BY <2>1 DEF TodoRows
    <2>2. CASE Startup
      BY <2>2 DEF Startup, TodoRows
    <2>3. ASSUME NEW w \in Workers, Reattach(w) PROVE TodoRows'
      BY <2>3 DEF Reattach, TodoRows
    <2>4. ASSUME NEW w \in Workers, Resolve(w) PROVE TodoRows'
      BY <2>4 DEF Resolve, TodoRows, TypeOK
    <2>5. CASE Down
      BY <2>5 DEF Down, TodoRows
    <2>6. ASSUME NEW d \in Dispatches,
                 SpawnStep(d) \/ WaiterStep(d) \/ TalkStep(d) \/ SignalStep(d) \/ Exit(d)
          PROVE  UNCHANGED <<mode, todo, midway>>
      BY <2>6 DEF SpawnStep, WaiterStep, TalkStep, SignalStep, Exit, Request, StartFails, Start, Spawned,
         Started, Announce, Report, Unregister, LogChunk, HeartbeatDue, Heartbeat, CancelRequested,
         SignalSent, AnnounceStop, Send, hostVars
    <2>7. CASE Apply \/ UpsertFails \/ Ready \/ Close
      BY <2>7 DEF Apply, UpsertFails, Ready, Close, TodoRows
    <2>8. ASSUME NEW w \in Workers, Mark(w) PROVE TodoRows'
      BY <2>1, <2>8 DEF Mark, hostVars
    <2>9. CASE UNCHANGED vars
      BY <2>1, <2>9 DEF vars, hostVars
    <2> QED
      BY <2>1, <2>2, <2>3, <2>4, <2>5, <2>6, <2>7, <2>8, <2>9 DEF Next
  <1> QED
    BY <1>1, <1>2

\* The host, its queue and its records keep their types, whatever the calls
\* are named and whatever is refused or lost.
THEOREM TypeCorrect == Spec => []TypeOK
  <1>1. Spec => []Typed
    BY TypedInit, TypedStep, PTL DEF Spec
  <1>2. Typed => TypeOK
    BY DEF Typed
  <1> QED
    BY <1>1, <1>2, PTL

-----------------------------------------------------------------------------
(* Workers of their own: the inductive invariant. *)

Live == {"idle", "requested", "started", "spawned", "waited"}
Over == {"refused", "ended", "lost"}

\* Somebody may still publish the end of w.
MayClose(w) == call[w] \in Live \/ todo[w] # NoRow

\* The end of w was recorded by an earlier host, and this one knows nothing of w.
Gone(w) == store[w].status \in Terminal /\ mem[w].status = "none"

\* Nobody publishes anything about w.
Silent(w) ==
  call[w] \in Over /\ entry[w] = NoProcess /\ signal[w] = "none" /\ ~beating[w] /\ todo[w] = NoRow

WorkerOK(w) ==
  /\ {mem[w].pid, store[w].pid, todo[w].pid, entry[w]} \subseteq {w, NoProcess}
  /\ store[w].status # "none" \/ entry[w] = w \/ signal[w] # "none" \/ beating[w] => call[w] # "idle"
  /\ call[w] \in {"idle", "requested"} => proc[w] = "none"
  /\ todo[w] # NoRow => call[w] \in Over
  /\ mem[w].status # "none" => store[w].status = mem[w].status
  /\ mem[w].status \in Terminal => ~MayClose(w)
  /\ Gone(w) => Silent(w)
  /\ mode = "down" =>
       /\ mem[w] = NoRow /\ todo[w] = NoRow /\ queue = <<>>
       /\ call[w] \notin Forgotten /\ signal[w] = "none" /\ ~beating[w]

\* What an event on its way says is so, and stays so until it is applied.
Sound(e) ==
  /\ e.pid \in {e.worker, NoProcess}
  /\ call[e.worker] # "idle"
  /\ ~Gone(e.worker)
  /\ e.status \in Terminal => ~MayClose(e.worker) /\ mem[e.worker].status \notin Terminal
  /\ e.status = "completed" => proc[e.worker] = "ok"
  /\ e.status = "cancelled" => proc[e.worker] \in Exited /\ cancel[e.worker]

QueueSound == \A i \in 1..Len(queue) : Sound(queue[i])

\* At most one event on its way ends a worker.
OneEnd ==
  \A i, j \in 1..Len(queue) :
    queue[i].worker = queue[j].worker /\ queue[i].status \in Terminal /\ queue[j].status \in Terminal => i = j

Kept == (\A w \in Workers : WorkerOK(w)) /\ QueueSound /\ OneEnd

IInv == Typed /\ Kept

Own == Named = Dispatches

LEMMA OwnWorkers ==
  ASSUME Own
  PROVE  Workers = Dispatches /\ \A d \in Dispatches : WorkerOf(d) = d
  BY DEF Own, Workers, WorkerOf

\* What was on its way stays sound, what is published is sound, and an end
\* is published only by who may: then the queue is as it should be.
LEMMA QueueStep ==
  ASSUME TypeOK, QueueSound, OneEnd, NEW e \in Event,
         \/ queue' = queue
         \/ /\ queue' = Append(queue, e) /\ Sound(e)'
            /\ e.status \in Terminal => MayClose(e.worker),
         \A f \in Event : Sound(f) => Sound(f)'
  PROVE  QueueSound' /\ OneEnd'
  <1> USE DEF TypeOK
  <1>1. ASSUME NEW i \in 1..Len(queue) PROVE queue[i] \in Event /\ Sound(queue[i])
    BY <1>1 DEF QueueSound
  <1>2. CASE queue' = queue
    <2>1. ASSUME NEW i \in 1..Len(queue') PROVE Sound(queue[i])'
      <3>1. PICK f \in Event : f = queue[i] /\ f = queue'[i]
        BY <1>1, <1>2, <2>1
      <3>2. Sound(f)'
        BY <1>1, <1>2, <2>1, <3>1
      <3> QED
        BY <3>1, <3>2 DEF Sound
    <2> QED
      BY <1>2, <2>1 DEF QueueSound, OneEnd
  <1>3. CASE queue' = Append(queue, e) /\ Sound(e)' /\ (e.status \in Terminal => MayClose(e.worker))
    <2>1. /\ Len(queue') = Len(queue) + 1
          /\ \A i \in 1..Len(queue) : queue'[i] = queue[i]
          /\ queue'[Len(queue) + 1] = e
      BY <1>3, AppendFacts
    <2>2. ASSUME NEW i \in 1..Len(queue') PROVE Sound(queue[i])'
      <3>1. CASE i \in 1..Len(queue)
        <4>1. PICK f \in Event : f = queue[i] /\ f = queue'[i]
          BY <1>1, <2>1, <3>1
        <4>2. Sound(f)'
          BY <1>1, <3>1, <4>1
        <4> QED
          BY <4>1, <4>2 DEF Sound
      <3>2. CASE i = Len(queue) + 1
        BY <1>3, <2>1, <3>2 DEF Sound
      <3> QED
        BY <2>1, <2>2, <3>1, <3>2
    <2>3. ASSUME e.status \in Terminal, NEW i \in 1..Len(queue), queue[i].worker = e.worker
          PROVE  queue[i].status \notin Terminal
      BY <1>1, <1>3, <2>3 DEF Sound
    <2>4. OneEnd'
      BY <2>1, <2>3 DEF OneEnd
    <2> QED
      BY <2>2, <2>4 DEF QueueSound
  <1> QED
    BY <1>2, <1>3

LEMMA SpawnKeeps ==
  ASSUME Own, IInv, NEW d \in Dispatches, SpawnStep(d)
  PROVE  Kept'
  <1> USE DEF IInv, Typed, Kept, TypeOK, SpawnStep, Request, StartFails, Start, Spawned, Started, Announce, SetCall, Hosted, Publish, Refused, Offer, hostVars, spawnVars, signalVars,
              MayClose, Gone, Silent, Live, Over, Terminal, Exited
  <1>1. Workers = Dispatches /\ WorkerOf(d) = d
    BY OwnWorkers
  <1>2. WorkerOK(d)
    BY <1>1
  <1>3. ASSUME NEW w \in Workers PROVE WorkerOK(w)'
    <2>1. WorkerOK(w)
      OBVIOUS
    <2> QED
      BY <1>1, <1>2, <2>1 DEF WorkerOK, Forgotten
  <1>4. ASSUME NEW f \in Event, Sound(f) PROVE Sound(f)'
    <2>1. WorkerOK(f.worker) /\ f.worker \in Dispatches
      BY <1>1 DEF Event
    <2> QED
      BY <1>1, <1>2, <1>4, <2>1 DEF Sound, WorkerOK
  <1>5. PICK s \in Statuses, p \in {d, NoProcess} :
          \/ queue' = queue
          \/ /\ queue' = Append(queue, Observation(d, s, p))
             /\ s \in Terminal => MayClose(d) /\ ~MayClose(d)' /\ mem[d].status \notin Terminal
             /\ s = "completed" => proc[d] = "ok"
             /\ s = "cancelled" => proc[d] \in Exited /\ cancel[d]
             /\ ~Gone(d) /\ call[d]' # "idle"
    BY <1>1, <1>2 DEF WorkerOK, Statuses, Active
  <1>6. PICK e \in Event : e = Observation(d, s, p) /\ e.worker = d /\ e.status = s /\ e.pid = p
    BY <1>1, ObservationType DEF Pids
  <1>7. \/ queue' = queue
        \/ /\ queue' = Append(queue, e) /\ Sound(e)'
           /\ e.status \in Terminal => MayClose(e.worker)
    BY <1>1, <1>2, <1>5, <1>6 DEF Sound, WorkerOK
  <1> QED
    BY <1>3, <1>4, <1>7, QueueStep

LEMMA WaiterKeeps ==
  ASSUME Own, IInv, NEW d \in Dispatches, WaiterStep(d)
  PROVE  Kept'
  <1> USE DEF IInv, Typed, Kept, TypeOK, WaiterStep, Report, Outcome, Unregister, SetCall, Publish, Refused, Offer, hostVars, spawnVars, signalVars,
              MayClose, Gone, Silent, Live, Over, Terminal, Exited
  <1>1. Workers = Dispatches /\ WorkerOf(d) = d
    BY OwnWorkers
  <1>2. WorkerOK(d)
    BY <1>1
  <1>3. ASSUME NEW w \in Workers PROVE WorkerOK(w)'
    <2>1. WorkerOK(w)
      OBVIOUS
    <2> QED
      BY <1>1, <1>2, <2>1 DEF WorkerOK, Forgotten
  <1>4. ASSUME NEW f \in Event, Sound(f) PROVE Sound(f)'
    <2>1. WorkerOK(f.worker) /\ f.worker \in Dispatches
      BY <1>1 DEF Event
    <2> QED
      BY <1>1, <1>2, <1>4, <2>1 DEF Sound, WorkerOK
  <1>5. PICK s \in Statuses, p \in {d, NoProcess} :
          \/ queue' = queue
          \/ /\ queue' = Append(queue, Observation(d, s, p))
             /\ s \in Terminal => MayClose(d) /\ ~MayClose(d)' /\ mem[d].status \notin Terminal
             /\ s = "completed" => proc[d] = "ok"
             /\ s = "cancelled" => proc[d] \in Exited /\ cancel[d]
             /\ ~Gone(d) /\ call[d]' # "idle"
    BY <1>1, <1>2 DEF WorkerOK, Statuses, Active
  <1>6. PICK e \in Event : e = Observation(d, s, p) /\ e.worker = d /\ e.status = s /\ e.pid = p
    BY <1>1, ObservationType DEF Pids
  <1>7. \/ queue' = queue
        \/ /\ queue' = Append(queue, e) /\ Sound(e)'
           /\ e.status \in Terminal => MayClose(e.worker)
    BY <1>1, <1>2, <1>5, <1>6 DEF Sound, WorkerOK
  <1> QED
    BY <1>3, <1>4, <1>7, QueueStep

LEMMA TalkKeeps ==
  ASSUME Own, IInv, NEW d \in Dispatches, TalkStep(d)
  PROVE  Kept'
  <1> USE DEF IInv, Typed, Kept, TypeOK, TalkStep, LogChunk, HeartbeatDue, Heartbeat, Publish, Refused, Offer, hostVars, spawnVars, signalVars,
              MayClose, Gone, Silent, Live, Over, Terminal, Exited
  <1>1. Workers = Dispatches /\ WorkerOf(d) = d
    BY OwnWorkers
  <1>2. WorkerOK(d)
    BY <1>1
  <1>3. ASSUME NEW w \in Workers PROVE WorkerOK(w)'
    <2>1. WorkerOK(w)
      OBVIOUS
    <2> QED
      BY <1>1, <1>2, <2>1 DEF WorkerOK, Forgotten
  <1>4. ASSUME NEW f \in Event, Sound(f) PROVE Sound(f)'
    <2>1. WorkerOK(f.worker) /\ f.worker \in Dispatches
      BY <1>1 DEF Event
    <2> QED
      BY <1>1, <1>2, <1>4, <2>1 DEF Sound, WorkerOK
  <1>5. PICK s \in Statuses, p \in {d, NoProcess} :
          \/ queue' = queue
          \/ /\ queue' = Append(queue, Observation(d, s, p))
             /\ s \in Terminal => MayClose(d) /\ ~MayClose(d)' /\ mem[d].status \notin Terminal
             /\ s = "completed" => proc[d] = "ok"
             /\ s = "cancelled" => proc[d] \in Exited /\ cancel[d]
             /\ ~Gone(d) /\ call[d]' # "idle"
    BY <1>1, <1>2 DEF WorkerOK, Statuses, Active
  <1>6. PICK e \in Event : e = Observation(d, s, p) /\ e.worker = d /\ e.status = s /\ e.pid = p
    BY <1>1, ObservationType DEF Pids
  <1>7. \/ queue' = queue
        \/ /\ queue' = Append(queue, e) /\ Sound(e)'
           /\ e.status \in Terminal => MayClose(e.worker)
    BY <1>1, <1>2, <1>5, <1>6 DEF Sound, WorkerOK
  <1> QED
    BY <1>3, <1>4, <1>7, QueueStep

LEMMA SignalKeeps ==
  ASSUME Own, IInv, NEW d \in Dispatches, SignalStep(d)
  PROVE  Kept'
  <1> USE DEF IInv, Typed, Kept, TypeOK, SignalStep, CancelRequested, SignalSent, AnnounceStop, Send, SetSignal, Publish, Refused, Offer, hostVars, spawnVars, signalVars,
              MayClose, Gone, Silent, Live, Over, Terminal, Exited
  <1>1. Workers = Dispatches /\ WorkerOf(d) = d
    BY OwnWorkers
  <1>2. WorkerOK(d)
    BY <1>1
  <1>3. ASSUME NEW w \in Workers PROVE WorkerOK(w)'
    <2>1. WorkerOK(w)
      OBVIOUS
    <2> QED
      BY <1>1, <1>2, <2>1 DEF WorkerOK, Forgotten
  <1>4. ASSUME NEW f \in Event, Sound(f) PROVE Sound(f)'
    <2>1. WorkerOK(f.worker) /\ f.worker \in Dispatches
      BY <1>1 DEF Event
    <2> QED
      BY <1>1, <1>2, <1>4, <2>1 DEF Sound, WorkerOK
  <1>5. PICK s \in Statuses, p \in {d, NoProcess} :
          \/ queue' = queue
          \/ /\ queue' = Append(queue, Observation(d, s, p))
             /\ s \in Terminal => MayClose(d) /\ ~MayClose(d)' /\ mem[d].status \notin Terminal
             /\ s = "completed" => proc[d] = "ok"
             /\ s = "cancelled" => proc[d] \in Exited /\ cancel[d]
             /\ ~Gone(d) /\ call[d]' # "idle"
    BY <1>1, <1>2 DEF WorkerOK, Statuses, Active
  <1>6. PICK e \in Event : e = Observation(d, s, p) /\ e.worker = d /\ e.status = s /\ e.pid = p
    BY <1>1, ObservationType DEF Pids
  <1>7. \/ queue' = queue
        \/ /\ queue' = Append(queue, e) /\ Sound(e)'
           /\ e.status \in Terminal => MayClose(e.worker)
    BY <1>1, <1>2, <1>5, <1>6 DEF Sound, WorkerOK
  <1> QED
    BY <1>3, <1>4, <1>7, QueueStep

LEMMA ExitKeeps ==
  ASSUME Own, IInv, NEW d \in Dispatches, Exit(d)
  PROVE  Kept'
  <1> USE DEF IInv, Typed, Kept, TypeOK, Exit, hostVars, spawnVars, signalVars,
              MayClose, Gone, Silent, Live, Over, Terminal, Exited
  <1>1. Workers = Dispatches /\ WorkerOf(d) = d
    BY OwnWorkers
  <1>2. WorkerOK(d)
    BY <1>1
  <1>3. ASSUME NEW w \in Workers PROVE WorkerOK(w)'
    <2>1. WorkerOK(w)
      OBVIOUS
    <2> QED
      BY <1>1, <1>2, <2>1 DEF WorkerOK, Forgotten
  <1>4. ASSUME NEW f \in Event, Sound(f) PROVE Sound(f)'
    <2>1. WorkerOK(f.worker) /\ f.worker \in Dispatches
      BY <1>1 DEF Event
    <2> QED
      BY <1>1, <1>2, <1>4, <2>1 DEF Sound, WorkerOK
  <1>5. PICK s \in Statuses, p \in {d, NoProcess} :
          \/ queue' = queue
          \/ /\ queue' = Append(queue, Observation(d, s, p))
             /\ s \in Terminal => MayClose(d) /\ ~MayClose(d)' /\ mem[d].status \notin Terminal
             /\ s = "completed" => proc[d] = "ok"
             /\ s = "cancelled" => proc[d] \in Exited /\ cancel[d]
             /\ ~Gone(d) /\ call[d]' # "idle"
    BY <1>1, <1>2 DEF WorkerOK, Statuses, Active
  <1>6. PICK e \in Event : e = Observation(d, s, p) /\ e.worker = d /\ e.status = s /\ e.pid = p
    BY <1>1, ObservationType DEF Pids
  <1>7. \/ queue' = queue
        \/ /\ queue' = Append(queue, e) /\ Sound(e)'
           /\ e.status \in Terminal => MayClose(e.worker)
    BY <1>1, <1>2, <1>5, <1>6 DEF Sound, WorkerOK
  <1> QED
    BY <1>3, <1>4, <1>7, QueueStep

LEMMA MarkKeeps ==
  ASSUME Own, IInv, NEW v \in Workers, Mark(v)
  PROVE  Kept'
  <1> USE DEF IInv, Typed, Kept, TypeOK, Mark, SetSignal, Hosted, hostVars, spawnVars
  <1>1. Workers = Dispatches
    BY OwnWorkers
  <1>2. WorkerOK(v) /\ entry[v] = v
    BY <1>1 DEF WorkerOK
  <1>3. ASSUME NEW w \in Workers PROVE WorkerOK(w)'
    <2>1. WorkerOK(w)
      OBVIOUS
    <2> QED
      BY <1>1, <1>2, <2>1, RuntimeWorkersAssumption DEF WorkerOK, MayClose, Gone, Silent, Live, Over, Terminal
  <1>4. ASSUME NEW f \in Event, Sound(f) PROVE Sound(f)'
    BY <1>1, <1>2, <1>4 DEF Event, Sound, MayClose, Gone
  <1>5. PICK e \in Event : TRUE
    BY <1>1, <1>2, ObservationType DEF Statuses, Pids
  <1> QED
    BY <1>3, <1>4, <1>5, QueueStep

LEMMA ReattachKeeps ==
  ASSUME Own, IInv, NEW v \in Workers, Reattach(v) \/ Resolve(v)
  PROVE  Kept'
  <1> USE DEF IInv, Typed, Kept, TypeOK, Reattach, Resolve, FoundDead, FoundAlive, Publish, Refused, spawnVars,
              signalVars, MayClose, Gone, Silent, Live, Over, Terminal
  <1>1. Workers = Dispatches
    BY OwnWorkers
  <1>2. WorkerOK(v) /\ todo[v] # NoRow /\ todo[v].status \in Active /\ todo[v].pid \in {v, NoProcess}
    BY <1>1 DEF WorkerOK, TodoRows
  <1>3. ASSUME NEW w \in Workers PROVE WorkerOK(w)'
    <2>1. WorkerOK(w)
      OBVIOUS
    <2>2. UNCHANGED <<mem, store, call, proc, beating, cancel, signal>> /\ mode # "down" /\ mode' # "down"
      OBVIOUS
    <2>3. \/ todo'[w] = todo[w]
          \/ todo'[w] = NoRow /\ todo'[w].pid = NoProcess
      BY DEF NoRow
    <2>4. entry'[w] = entry[w] \/ (w = v /\ entry'[w] = todo[w].pid)
      BY <1>1, <1>2
    <2>5. todo'[w] # NoRow => todo[w] # NoRow
      BY <2>3
    <2>6. {mem[w].pid, store[w].pid, todo[w].pid, entry[w]}' \subseteq {w, NoProcess}
      BY <1>2, <2>1, <2>2, <2>3, <2>4 DEF WorkerOK
    <2>7. entry'[w] # entry[w] => call[w] # "idle" /\ ~Gone(w)
      BY <1>2, <2>1, <2>4 DEF WorkerOK
    <2> QED
      BY <2>1, <2>2, <2>3, <2>5, <2>6, <2>7 DEF WorkerOK
  <1>4. ASSUME NEW f \in Event, Sound(f) PROVE Sound(f)'
    <2>1. WorkerOK(f.worker) /\ f.worker \in Dispatches
      BY <1>1 DEF Event
    <2> QED
      BY <1>1, <1>2, <1>4, <2>1 DEF Sound, WorkerOK
  <1>5. PICK s \in Statuses, p \in {v, NoProcess} :
          \/ queue' = queue
          \/ /\ queue' = Append(queue, Observation(v, s, p))
             /\ s \in Terminal => s = "failed" /\ MayClose(v) /\ ~MayClose(v)' /\ mem[v].status \notin Terminal
             /\ ~Gone(v) /\ call[v] # "idle"
    BY <1>1, <1>2 DEF WorkerOK, Statuses, Active
  <1>6. PICK e \in Event : e = Observation(v, s, p) /\ e.worker = v /\ e.status = s /\ e.pid = p
    BY <1>1, ObservationType DEF Pids
  <1>7. \/ queue' = queue
        \/ /\ queue' = Append(queue, e) /\ Sound(e)'
           /\ e.status \in Terminal => MayClose(e.worker)
    BY <1>1, <1>2, <1>5, <1>6 DEF Sound, WorkerOK
  <1> QED
    BY <1>3, <1>4, <1>7, QueueStep

LEMMA HostKeeps ==
  ASSUME Own, IInv, Startup \/ Ready \/ Close \/ Down
  PROVE  Kept'
  <1> USE DEF IInv, Typed, Kept, TypeOK
  <1>1. Workers = Dispatches
    BY OwnWorkers
  <1>2. CASE Startup
    <2>1. queue = <<>> \/ Workers = {}
      BY <1>2 DEF Startup, WorkerOK
    <2>2. ASSUME NEW w \in Workers PROVE WorkerOK(w)'
      <3>1. WorkerOK(w)
        OBVIOUS
      <3> QED
        BY <1>1, <1>2, <3>1 DEF Startup, WorkerOK, MayClose, Gone, Silent, Live, Over, Terminal, Active,
           Forgotten, NoRow, spawnVars, signalVars
    <2>3. Len(queue') = 0
      BY <1>2, <2>1 DEF Startup, Event
    <2> QED
      BY <2>2, <2>3 DEF QueueSound, OneEnd
  <1>3. CASE Ready \/ Close
    <2>1. ASSUME NEW w \in Workers PROVE WorkerOK(w)'
      <3>1. WorkerOK(w)
        OBVIOUS
      <3> QED
        BY <1>3, <3>1 DEF Ready, Close, WorkerOK, MayClose, Gone, Silent, spawnVars, signalVars
    <2>2. QueueSound' /\ OneEnd'
      BY <1>3 DEF Ready, Close, QueueSound, OneEnd, Sound, MayClose, Gone, spawnVars, signalVars
    <2> QED
      BY <2>1, <2>2
  <1>4. CASE Down
    <2>1. ASSUME NEW w \in Workers PROVE WorkerOK(w)'
      <3>1. WorkerOK(w)
        OBVIOUS
      <3> QED
        BY <1>1, <1>4, <3>1 DEF Down, WorkerOK, MayClose, Gone, Silent, Live, Over, Terminal, Forgotten, NoRow
    <2>2. Len(queue') = 0
      BY <1>4 DEF Down
    <2> QED
      BY <2>1, <2>2 DEF QueueSound, OneEnd
  <1> QED
    BY <1>2, <1>3, <1>4

\* The queue without its head.
LEMMA TailKeeps ==
  ASSUME Own, IInv, Apply \/ UpsertFails
  PROVE  /\ queue' \in Seq(Event) /\ OneEnd'
         /\ \A i \in 1..Len(queue') :
              /\ queue'[i] \in Event /\ Sound(queue'[i])
              /\ ~(/\ queue'[i].worker = Head(queue).worker
                   /\ queue'[i].status \in Terminal /\ Head(queue).status \in Terminal)
  <1>1. /\ queue # <<>> /\ queue' = Tail(queue) /\ Head(queue) = queue[1] /\ 1 \in 1..Len(queue)
        /\ queue' \in Seq(Event)
        /\ \A i \in 1..Len(queue') : i + 1 \in 1..Len(queue) /\ queue'[i] = queue[i + 1]
    <2>1. queue \in Seq(Event) /\ queue # <<>> /\ queue' = Tail(queue)
      BY DEF Apply, UpsertFails, IInv, Typed, TypeOK
    <2> QED
      BY <2>1, TailFacts
  <1>2. OneEnd'
    BY <1>1 DEF OneEnd, IInv, Kept
  <1>3. ASSUME NEW i \in 1..Len(queue')
        PROVE  /\ queue'[i] \in Event /\ Sound(queue'[i])
               /\ ~(/\ queue'[i].worker = Head(queue).worker
                    /\ queue'[i].status \in Terminal /\ Head(queue).status \in Terminal)
    <2>1. i + 1 # 1 /\ i + 1 \in 1..Len(queue) /\ queue'[i] = queue[i + 1]
      BY <1>1
    <2>2. queue'[i] \in Event
      BY <1>1
    <2>3. Sound(queue'[i])
      BY <2>1 DEF IInv, Kept, QueueSound
    <2> QED
      BY <1>1, <2>1, <2>2, <2>3 DEF IInv, Kept, OneEnd
  <1> QED
    BY <1>1, <1>2, <1>3

LEMMA ApplyKeeps ==
  ASSUME Own, IInv, Apply
  PROVE  Kept'
  <1> USE DEF IInv, Typed, Kept, TypeOK
  <1>1. Workers = Dispatches
    BY OwnWorkers
  <1>2. PICK e \in Event : e = Head(queue) /\ Sound(e)
    BY TailFacts DEF Apply, QueueSound
  <1>3. e.worker \in Workers /\ e.status \in Statuses /\ e.pid \in Pids
    BY DEF Event
  <1>4. PICK row \in Row : row = Merge(mem[e.worker], e)
    BY <1>3, MergeType
  <1>5. /\ mem' = [mem EXCEPT ![e.worker] = row] /\ store' = [store EXCEPT ![e.worker] = row]
        /\ mode = "running"
        /\ UNCHANGED <<mode, todo, call, proc, beating, entry, cancel, signal>>
    BY <1>2, <1>4 DEF Apply, spawnVars, signalVars
  <1>6. WorkerOK(e.worker)
    BY <1>3
  <1>7. /\ row.status # "none"
        /\ row.status \in Terminal => mem[e.worker].status \in Terminal \/ e.status \in Terminal
        /\ row.pid \in {e.worker, NoProcess}
    <2>1. row.status \in {mem[e.worker].status, e.status}
      BY <1>4 DEF Merge, StatusAfter
    <2>2. row.status = e.status \/ row.status \in Terminal
      BY <1>4 DEF Merge, StatusAfter
    <2>3. row.pid \in {mem[e.worker].pid, e.pid}
      BY <1>4 DEF Merge
    <2> QED
      BY <1>2, <1>3, <1>6, <2>1, <2>2, <2>3 DEF Statuses, Active, Terminal, Sound, WorkerOK
  <1>8. row.status \in Terminal => ~MayClose(e.worker)
    BY <1>2, <1>6, <1>7 DEF Sound, WorkerOK
  <1>9. ASSUME NEW w \in Workers PROVE WorkerOK(w)'
    <2>1. WorkerOK(w)
      OBVIOUS
    <2>2. CASE w # e.worker
      BY <1>5, <2>1, <2>2 DEF WorkerOK, MayClose, Gone, Silent
    <2>3. CASE w = e.worker
      <3>1. mem'[w] = row /\ store'[w] = row
        BY <1>3, <1>5, <2>3
      <3> QED
        BY <1>2, <1>5, <1>7, <1>8, <2>1, <2>3, <3>1 DEF WorkerOK, MayClose, Gone, Silent, Sound
    <2> QED
      BY <2>2, <2>3
  <1>10. ASSUME NEW f \in Event, Sound(f),
                ~(f.worker = e.worker /\ f.status \in Terminal /\ e.status \in Terminal)
         PROVE  Sound(f)'
    <2>1. CASE f.worker # e.worker
      BY <1>5, <1>10, <2>1 DEF Sound, MayClose, Gone
    <2>2. CASE f.worker = e.worker
      <3>1. mem'[f.worker] = row /\ store'[f.worker] = row
        BY <1>3, <1>5, <2>2
      <3> QED
        BY <1>5, <1>7, <1>10, <2>2, <3>1 DEF Sound, MayClose, Gone
    <2> QED
      BY <2>1, <2>2
  <1>11. ASSUME NEW i \in 1..Len(queue') PROVE Sound(queue[i])'
    <2>1. PICK f \in Event :
            /\ f = queue'[i] /\ Sound(f)
            /\ ~(f.worker = e.worker /\ f.status \in Terminal /\ e.status \in Terminal)
      BY <1>2, <1>11, TailKeeps
    <2>2. Sound(f)'
      BY <1>10, <2>1
    <2> QED
      BY <2>1, <2>2 DEF Sound
  <1> QED
    BY <1>9, <1>11, TailKeeps DEF QueueSound

LEMMA UpsertFailsKeeps ==
  ASSUME Own, IInv, UpsertFails
  PROVE  Kept'
  <1> USE DEF IInv, Typed, Kept, TypeOK
  <1>1. mode = "running" /\ mode' = "failed"
        /\ UNCHANGED <<mem, store, todo, call, proc, beating, entry, cancel, signal>>
    BY DEF UpsertFails, spawnVars, signalVars
  <1>2. ASSUME NEW w \in Workers PROVE WorkerOK(w)'
    <2>1. WorkerOK(w)
      OBVIOUS
    <2> QED
      BY <1>1, <2>1 DEF WorkerOK, MayClose, Gone, Silent
  <1>3. ASSUME NEW i \in 1..Len(queue') PROVE Sound(queue[i])'
    <2>1. PICK f \in Event : f = queue'[i] /\ Sound(f)
      BY <1>3, TailKeeps
    <2>2. Sound(f)'
      BY <1>1, <2>1 DEF Sound, MayClose, Gone
    <2> QED
      BY <2>1, <2>2 DEF Sound
  <1> QED
    BY <1>2, <1>3, TailKeeps DEF QueueSound

LEMMA StutterKeeps ==
  ASSUME IInv, UNCHANGED vars
  PROVE  Kept'
  <1> USE DEF vars, hostVars, spawnVars, signalVars
  <1>1. (\A w \in Workers : WorkerOK(w))'
    BY DEF IInv, Kept, WorkerOK, MayClose, Gone, Silent
  <1>2. QueueSound' /\ OneEnd'
    BY DEF IInv, Kept, QueueSound, OneEnd, Sound, MayClose, Gone
  <1> QED
    BY <1>1, <1>2 DEF Kept

LEMMA IInvInit == Own /\ Init => IInv
  <1> SUFFICES ASSUME Own, Init PROVE IInv
    OBVIOUS
  <1>1. Len(queue) = 0 /\ Workers = Dispatches
    BY OwnWorkers DEF Init
  <1>2. ASSUME NEW w \in Workers PROVE WorkerOK(w)
    <2>1. NoRow.status = "none" /\ NoRow.pid = NoProcess
      BY DEF NoRow
    <2>2. /\ mem[w] = NoRow /\ store[w] = NoRow /\ todo[w] = NoRow /\ entry[w] = NoProcess
          /\ call[w] = "idle" /\ proc[w] = "none" /\ signal[w] = "none" /\ beating[w] = FALSE /\ queue = <<>>
      BY <1>1, <1>2 DEF Init
    <2> QED
      BY <1>1, <1>2, <2>1, <2>2, RuntimeWorkersAssumption
         DEF WorkerOK, MayClose, Gone, Silent, Forgotten, Live, Terminal
  <1> QED
    BY <1>1, <1>2, TypedInit DEF IInv, Kept, QueueSound, OneEnd

LEMMA IInvStep == Own /\ IInv /\ [Next]_vars => IInv'
  <1> SUFFICES ASSUME Own, IInv, [Next]_vars PROVE IInv'
    OBVIOUS
  <1>1. Typed'
    BY TypedStep DEF IInv
  <1>2. Kept'
    BY ApplyKeeps, UpsertFailsKeeps, HostKeeps, SpawnKeeps, WaiterKeeps, TalkKeeps, SignalKeeps, ExitKeeps,
       MarkKeeps, ReattachKeeps, StutterKeeps DEF Next
  <1> QED
    BY <1>1, <1>2 DEF IInv

-----------------------------------------------------------------------------
(* Workers of their own: the registry implements WorkerRecords. *)

LEMMA SameState ==
  ASSUME Own, Typed
  PROVE  Workers = Dispatches /\ proc \in [Workers -> {"none", "alive"} \cup Exited]
  BY OwnWorkers DEF Typed, TypeOK

LEMMA RecordsInit == Own /\ Init => Records!Init
  BY OwnWorkers DEF Init, NoRow, Records!Init

\* Applying an event changes an open record, or leaves a closed one alone.
LEMMA RecordsApply ==
  ASSUME Own, IInv, Apply
  PROVE  [Records!Next]_Records!vars
  <1> USE DEF IInv, Typed, Kept, TypeOK
  <1>1. Workers = Dispatches
    BY OwnWorkers
  <1>2. PICK e \in Event : e = Head(queue) /\ Sound(e)
    BY TailFacts DEF Apply, QueueSound
  <1>3. e.worker \in Workers /\ e.status \in Statuses /\ WorkerOK(e.worker)
    BY DEF Event
  <1>4. PICK row \in Row : row = Merge(mem[e.worker], e)
    BY <1>3, MergeType
  <1>5. store' = [store EXCEPT ![e.worker] = row] /\ UNCHANGED <<proc, cancel>>
    BY <1>2, <1>4 DEF Apply, spawnVars, signalVars
  <1> DEFINE now == [w \in Workers |-> store[w].status]
  <1>6. now' = [now EXCEPT ![e.worker] = row.status]
    BY <1>3, <1>5
  <1>7. now[e.worker] \in Statuses \cup {"none"}
    BY <1>3 DEF Row
  <1>8. mem[e.worker].status # "none" => now[e.worker] = mem[e.worker].status
    BY <1>3 DEF WorkerOK
  <1>9. mem[e.worker].status = "none" => now[e.worker] \notin Terminal
    BY <1>2, <1>3 DEF Sound, Gone
  <1>10. CASE mem[e.worker].status \in Terminal
    <2>1. row.status = mem[e.worker].status
      BY <1>2, <1>4, <1>10 DEF Sound, Merge, StatusAfter
    <2>2. mem[e.worker].status # "none"
      BY <1>10 DEF Terminal
    <2>3. now' = now
      BY <1>3, <1>6, <1>8, <2>1, <2>2
    <2> QED
      BY <1>5, <2>3 DEF Records!vars, Records!world
  <1>11. CASE mem[e.worker].status \notin Terminal
    <2>1. row.status = e.status
      BY <1>4, <1>11 DEF Merge, StatusAfter
    <2>2. now[e.worker] \in Records!Open
      BY <1>7, <1>8, <1>9, <1>11 DEF Statuses, Active, Terminal, Records!Open
    <2>3. CASE e.status \notin Terminal
      <3>1. e.status \in Records!Open \ {"none"}
        BY <1>3, <2>3 DEF Statuses, Active, Terminal, Records!Open
      <3>2. Records!Observe(e.worker, e.status)
        BY <1>5, <1>6, <2>1, <2>2, <3>1 DEF Records!Observe, Records!world
      <3> QED
        BY <1>3, <3>1, <3>2 DEF Records!Next
    <2>4. CASE e.status \in Terminal
      <3>1. e.status \in Records!Closed
        BY <2>4 DEF Terminal, Records!Closed
      <3>2. /\ e.status = "completed" => proc[e.worker] = "ok"
            /\ e.status = "cancelled" => proc[e.worker] \in Records!Ended /\ cancel[e.worker]
        BY <1>2 DEF Sound, Exited, Records!Ended
      <3>3. Records!Close(e.worker, e.status)
        BY <1>5, <1>6, <2>1, <2>2, <3>2 DEF Records!Close, Records!world
      <3> QED
        BY <1>3, <3>1, <3>3 DEF Records!Next
    <2> QED
      BY <2>3, <2>4
  <1> QED
    BY <1>10, <1>11

\* A process of a call that has not started one has not been started before.
LEMMA RecordsProcess ==
  ASSUME Own, IInv, NEW d \in Dispatches, Start(d) \/ Exit(d) \/ Send(d)
  PROVE  [Records!Next]_Records!vars
  <1> USE DEF IInv, Typed, Kept, TypeOK
  <1>1. Workers = Dispatches
    BY OwnWorkers
  <1>2. UNCHANGED <<store, cancel>>
    BY DEF Start, Exit, Send, hostVars, signalVars
  <1>3. UNCHANGED proc \/ Records!Run(d)
    <2>1. CASE Start(d)
      <3>1. proc[d] = "none"
        BY <1>1, <2>1 DEF Start, WorkerOK
      <3> QED
        BY <1>2, <2>1, <3>1 DEF Start, Records!Run
    <2>2. CASE Exit(d)
      BY <1>2, <2>2 DEF Exit, Exited, Records!Run, Records!Ended
    <2>3. CASE Send(d)
      BY <1>2, <2>3 DEF Send, Records!Run, Records!Ended
    <2> QED
      BY <2>1, <2>2, <2>3
  <1>4. CASE UNCHANGED proc
    BY <1>2, <1>4 DEF Records!vars, Records!world
  <1>5. CASE Records!Run(d)
    BY <1>1, <1>5 DEF Records!Next
  <1> QED
    BY <1>3, <1>4, <1>5

LEMMA RecordsMark ==
  ASSUME Own, IInv, NEW v \in Workers, Mark(v)
  PROVE  [Records!Next]_Records!vars
  <1>1. Workers = Dispatches /\ entry[v] = v
    BY OwnWorkers DEF IInv, Kept, WorkerOK, Mark
  <1>2. Records!Ask(v)
    BY <1>1 DEF Mark, Records!Ask, hostVars, spawnVars
  <1> QED
    BY <1>2 DEF Records!Next

LEMMA RecordsDown ==
  ASSUME Own, Down
  PROVE  [Records!Next]_Records!vars
  <1>1. Records!Forget
    BY OwnWorkers DEF Down, Records!Forget
  <1> QED
    BY <1>1 DEF Records!Next

\* Every other step leaves records, processes and requests alone.
LEMMA RecordsStutter ==
  ASSUME UNCHANGED <<store, proc, cancel>>
  PROVE  UNCHANGED Records!vars
  BY DEF Records!vars, Records!world

LEMMA RecordsStep == Own /\ IInv /\ [Next]_vars => [Records!Next]_Records!vars
  <1> SUFFICES ASSUME Own, IInv, [Next]_vars PROVE [Records!Next]_Records!vars
    OBVIOUS
  <1>1. CASE UpsertFails \/ Startup \/ Ready \/ Close
    BY <1>1, RecordsStutter DEF UpsertFails, Startup, Ready, Close, spawnVars, signalVars
  <1>2. ASSUME NEW w \in Workers, Reattach(w) \/ Resolve(w) PROVE UNCHANGED <<store, proc, cancel>>
    BY <1>2 DEF Reattach, Resolve, spawnVars, signalVars
  <1>3. ASSUME NEW d \in Dispatches,
               SpawnStep(d) \/ WaiterStep(d) \/ TalkStep(d) \/ SignalStep(d) \/ Exit(d)
        PROVE  UNCHANGED <<store, proc, cancel>> \/ Start(d) \/ Exit(d) \/ Send(d)
    BY <1>3 DEF SpawnStep, WaiterStep, TalkStep, SignalStep, Request, StartFails, Spawned, Started, Announce,
       Report, Unregister, LogChunk, HeartbeatDue, Heartbeat, CancelRequested, SignalSent, AnnounceStop,
       hostVars, spawnVars, signalVars
  <1>4. CASE UNCHANGED vars
    BY <1>4, RecordsStutter DEF vars, hostVars, spawnVars, signalVars
  <1> QED
    BY <1>1, <1>2, <1>3, <1>4, RecordsApply, RecordsProcess, RecordsMark, RecordsDown, RecordsStutter DEF Next

\* Where every spawn has a worker id of its own, a record closes once and for
\* good and tells the truth about its process, whatever events are refused,
\* late or lost, wherever the store fails and however often the host restarts.
THEOREM Refinement == Own => (Spec => ImplementsWorkerRecords)
  <1>1. Own /\ Init => IInv /\ Records!Init
    BY IInvInit, RecordsInit
  <1>2. Own /\ IInv /\ [Next]_vars => IInv' /\ [Records!Next]_Records!vars
    BY IInvStep, RecordsStep
  <1>3. Own => Own'
    BY DEF Own
  <1> QED
    BY <1>1, <1>2, <1>3, PTL DEF Spec, ImplementsWorkerRecords, Records!Spec
-----------------------------------------------------------------------------
(* What it takes for every end to be recorded.                             *)

\* The host does not end, and no announcement and no report of a process finds
\* the queue full or closed.
Heard ==
  /\ mode' = "down" => mode = "down"
  /\ \A d \in Dispatches :
       call'[d] \in {"abandoned", "reported"} => call'[d] = call[d] \/ queue' # queue

\* The end of w is recorded, or on its way.
Recorded(w) == mem[w].status \in Terminal /\ store[w].status \in Terminal
Queued(w) == \E i \in 1..Len(queue) : queue[i].worker = w /\ queue[i].status \in Terminal

HeardInv ==
  /\ \A d \in Dispatches : call[d] \notin {"abandoned", "lost"}
  /\ mode # "failed" =>
       \A d \in Dispatches : call[d] \in {"reported", "ended"} =>
         Recorded(WorkerOf(d)) \/ Queued(WorkerOf(d))

\* What is published comes after what is queued.
LEMMA StaysHeard ==
  ASSUME Typed, queue' = queue \/ \E e \in Event : queue' = Append(queue, e),
         UNCHANGED <<mem, store>>, NEW w, Recorded(w) \/ Queued(w)
  PROVE  (Recorded(w) \/ Queued(w))'
  <1>1. CASE Recorded(w)
    BY <1>1 DEF Recorded
  <1>2. CASE Queued(w)
    <2>1. PICK i \in 1..Len(queue) : queue[i].worker = w /\ queue[i].status \in Terminal
      BY <1>2 DEF Queued
    <2>2. queue \in Seq(Event)
      BY DEF Typed, TypeOK
    <2>3. i \in 1..Len(queue') /\ queue'[i] = queue[i]
      <3>1. CASE queue' = queue
        BY <3>1
      <3>2. CASE \E e \in Event : queue' = Append(queue, e)
        BY <2>2, <3>2, AppendFacts
      <3> QED
        BY <3>1, <3>2
    <2> QED
      BY <2>1, <2>3 DEF Queued
  <1> QED
    BY <1>1, <1>2

\* Steps that bring no call to its report.
LEMMA HeardStays ==
  ASSUME Typed, HeardInv, queue' = queue \/ \E e \in Event : queue' = Append(queue, e),
         UNCHANGED <<mem, store>>, mode' = "failed" \/ mode # "failed",
         \A d \in Dispatches :
           /\ call'[d] \notin {"abandoned", "lost"}
           /\ call'[d] \in {"reported", "ended"} => call[d] \in {"reported", "ended"}
  PROVE  HeardInv'
  <1>1. ASSUME mode' # "failed", NEW d \in Dispatches, call'[d] \in {"reported", "ended"}
        PROVE  (Recorded(WorkerOf(d)) \/ Queued(WorkerOf(d)))'
    <2>1. Recorded(WorkerOf(d)) \/ Queued(WorkerOf(d))
      BY <1>1 DEF HeardInv
    <2> QED
      BY <2>1, StaysHeard DEF Recorded, Queued, WorkerOf
  <1> QED
    BY <1>1 DEF HeardInv, WorkerOf, Recorded, Queued

\* The report of an end is queued.
LEMMA ReportHeard ==
  ASSUME Typed, HeardInv, Heard, NEW d \in Dispatches, Report(d)
  PROVE  HeardInv'
  <1> DEFINE e == Observation(WorkerOf(d), Outcome(d), d)
  <1>1. /\ call[d] = "waited" /\ call' = [call EXCEPT ![d] = "reported"]
        /\ UNCHANGED <<mode, mem, store>> /\ Offer(e)
    BY DEF Report, SetCall, hostVars
  <1>2. call \in [Dispatches -> {"idle", "refused", "ended", "lost"} \cup Forgotten] /\ queue \in Seq(Event)
    BY DEF Typed, TypeOK
  <1>3. call'[d] = "reported" /\ \A c \in Dispatches : c # d => call'[c] = call[c]
    BY <1>1, <1>2
  <1>4. queue' # queue
    BY <1>1, <1>3 DEF Heard
  <1>5. queue' = Append(queue, e)
    BY <1>1, <1>4 DEF Offer, Publish, Refused
  <1>6. e \in Event /\ e.worker = WorkerOf(d) /\ e.status \in Terminal
    <2>1. Outcome(d) \in Statuses /\ Outcome(d) \in Terminal
      BY DEF Outcome, Statuses, Terminal
    <2> QED
      BY <2>1, WorkerOfType DEF Observation, Event, Pids
  <1>7. Queued(WorkerOf(d))'
    <2>1. Len(queue') \in Nat /\ Len(queue) + 1 \in 1..Len(queue') /\ queue'[Len(queue) + 1] = e
      BY <1>2, <1>5, <1>6, AppendFacts
    <2> QED
      BY <1>6, <2>1 DEF Queued, WorkerOf
  <1>8. ASSUME mode # "failed", NEW c \in Dispatches, c # d, call'[c] \in {"reported", "ended"}
        PROVE  (Recorded(WorkerOf(c)) \/ Queued(WorkerOf(c)))'
    <2>1. Recorded(WorkerOf(c)) \/ Queued(WorkerOf(c))
      BY <1>3, <1>8 DEF HeardInv
    <2> QED
      BY <1>1, <1>5, <1>6, <2>1, StaysHeard DEF Recorded, Queued, WorkerOf
  <1> QED
    BY <1>1, <1>3, <1>7, <1>8 DEF HeardInv, WorkerOf, Recorded, Queued

\* An event that is applied is recorded, and no later one reopens the record.
LEMMA ApplyHeard ==
  ASSUME Typed, HeardInv, Apply
  PROVE  HeardInv'
  <1> DEFINE e == Head(queue)
             row == Merge(mem[e.worker], e)
  <1>1. /\ mode = "running" /\ queue # <<>> /\ queue' = Tail(queue)
        /\ mem' = [mem EXCEPT ![e.worker] = row] /\ store' = [store EXCEPT ![e.worker] = row]
        /\ mode' = mode /\ call' = call
    BY DEF Apply, spawnVars
  <1>2. queue \in Seq(Event) /\ mem \in [Workers -> Row] /\ store \in [Workers -> Row]
    BY DEF Typed, TypeOK
  <1>3. /\ e \in Event /\ e = queue[1] /\ Len(Tail(queue)) = Len(queue) - 1 /\ Len(queue) \in Nat
    BY <1>1, <1>2, TailFacts
  <1>4. e.worker \in Workers /\ (mem[e.worker].status \in Terminal \/ e.status \in Terminal => row.status \in Terminal)
    BY <1>3 DEF Event, Merge, StatusAfter
  <1> HIDE DEF e, row
  <1>5. ASSUME NEW d \in Dispatches, call[d] \in {"reported", "ended"}
        PROVE  (Recorded(WorkerOf(d)) \/ Queued(WorkerOf(d)))'
    <2> DEFINE w == WorkerOf(d)
    <2>1. w \in Workers /\ (Recorded(w) \/ Queued(w))
      BY <1>1, <1>5, WorkerOfType DEF HeardInv
    <2>2. CASE Recorded(w) \/ (e.worker = w /\ e.status \in Terminal)
      <3>1. mem'[w].status \in Terminal /\ store'[w].status \in Terminal
        <4>1. CASE e.worker = w
          <5>1. mem'[w] = row /\ store'[w] = row
            BY <1>1, <1>2, <2>1, <4>1
          <5> QED
            BY <1>4, <2>2, <4>1, <5>1 DEF Recorded
        <4>2. CASE e.worker # w
          <5>1. mem'[w] = mem[w] /\ store'[w] = store[w]
            BY <1>1, <1>2, <2>1, <4>2
          <5> QED
            BY <2>2, <4>2, <5>1 DEF Recorded
        <4> QED
          BY <4>1, <4>2
      <3> QED
        BY <3>1 DEF Recorded, WorkerOf
    <2>3. CASE Queued(w) /\ ~(e.worker = w /\ e.status \in Terminal)
      <3>1. PICK i \in 1..Len(queue) : queue[i].worker = w /\ queue[i].status \in Terminal
        BY <2>3 DEF Queued
      <3>2. i # 1
        BY <1>3, <2>3, <3>1
      <3>3. i - 1 \in 1..Len(queue') /\ queue'[i - 1] = queue[i]
        <4>1. i - 1 \in 1..Len(Tail(queue))
          BY <1>3, <3>2
        <4>2. Tail(queue)[i - 1] = queue[(i - 1) + 1] /\ (i - 1) + 1 = i
          BY <1>1, <1>2, <1>3, <4>1, TailFacts
        <4> QED
          BY <1>1, <4>1, <4>2
      <3> QED
        BY <3>1, <3>3 DEF Queued, WorkerOf
    <2> QED
      BY <2>1, <2>2, <2>3
  <1> QED
    BY <1>1, <1>5 DEF HeardInv, WorkerOf, Recorded, Queued

\* Every step of a host that is heard.
LEMMA HeardStep ==
  ASSUME Typed, HeardInv, [Next]_vars, [Heard]_vars
  PROVE  HeardInv'
  <1>1. CASE UNCHANGED vars
    BY <1>1, HeardStays DEF vars, hostVars, spawnVars, HeardInv
  <1> SUFFICES ASSUME Heard, Next PROVE HeardInv'
    BY <1>1
  <1>2. CASE Apply
    BY <1>2, ApplyHeard
  <1>3. CASE UpsertFails
    BY <1>3 DEF UpsertFails, HeardInv, spawnVars
  <1>4. CASE Startup \/ Ready \/ Close
    BY <1>4, HeardStays DEF Startup, Ready, Close, HeardInv, spawnVars
  <1>5. CASE Down
    BY <1>5 DEF Down, Hosted, Heard
  <1>6. ASSUME NEW d \in Dispatches, Report(d)
        PROVE  HeardInv'
    BY <1>6, ReportHeard
  <1>7. ASSUME NEW d \in Dispatches,
               \/ Request(d) \/ StartFails(d) \/ Start(d) \/ Spawned(d) \/ Started(d) \/ Unregister(d)
        PROVE  HeardInv'
    <2>1. call \in [Dispatches -> {"idle", "refused", "ended", "lost"} \cup Forgotten]
      BY DEF Typed, TypeOK
    <2>2. UNCHANGED <<mode, mem, store>>
      BY <1>7 DEF Request, StartFails, Start, Spawned, Started, Announce, Unregister, hostVars
    <2>3. queue' = queue \/ \E e \in Event : queue' = Append(queue, e)
      BY <1>7, WorkerOfType DEF Request, StartFails, Start, Spawned, Started, Announce, Unregister,
         Offer, Publish, Refused, Observation, Event, Statuses, Active, Terminal, Pids
    <2>4. \A c \in Dispatches : c # d => call'[c] = call[c]
      BY <1>7, <2>1 DEF Request, StartFails, Start, Spawned, Started, Announce, Unregister, SetCall
    <2>5. /\ call'[d] \notin {"abandoned", "lost"}
          /\ call'[d] \in {"reported", "ended"} => call[d] \in {"reported", "ended"}
      BY <1>7, <2>1 DEF Request, StartFails, Start, Spawned, Started, Announce, Unregister, SetCall,
         Refused, Heard
    <2> QED
      BY <2>2, <2>3, <2>4, <2>5, HeardStays DEF HeardInv
  <1>8. ASSUME NEW d \in Dispatches, TalkStep(d) \/ SignalStep(d) \/ Exit(d)
        PROVE  HeardInv'
    <2>1. UNCHANGED <<mode, mem, store, call>>
      BY <1>8 DEF TalkStep, SignalStep, Exit, LogChunk, HeartbeatDue, Heartbeat, CancelRequested, SignalSent,
         AnnounceStop, Send, hostVars, spawnVars
    <2>2. queue' = queue \/ \E e \in Event : queue' = Append(queue, e)
      BY <1>8, WorkerOfType DEF TalkStep, SignalStep, Exit, LogChunk, HeartbeatDue, Heartbeat, CancelRequested,
         SignalSent, AnnounceStop, Send, Offer, Publish, Refused, Observation, Event, Statuses, Active, Terminal, Pids
    <2> QED
      BY <2>1, <2>2, HeardStays DEF HeardInv
  <1>9. ASSUME NEW w \in Workers, Mark(w) \/ Reattach(w) \/ Resolve(w)
        PROVE  HeardInv'
    <2>1. UNCHANGED <<mem, store, call>> /\ (mode # "failed" \/ mode' = "failed")
      BY <1>9 DEF Mark, Reattach, Resolve, hostVars, spawnVars, HeardInv
    <2>2. queue' = queue \/ \E e \in Event : queue' = Append(queue, e)
      <3>1. CASE Mark(w)
        BY <3>1 DEF Mark
      <3>2. CASE Reattach(w) \/ Resolve(w)
        <4>1. todo[w] # NoRow
          BY <3>2 DEF Typed, TodoRows, Reattach, Resolve
        <4>2. todo[w].status \in Statuses
          BY <4>1 DEF Typed, TodoRows, Statuses
        <4>3. todo[w].pid \in Pids
          BY DEF Typed, TypeOK, Row
        <4>4. /\ Observation(w, todo[w].status, todo[w].pid) \in Event
              /\ Observation(w, "failed", todo[w].pid) \in Event
          BY <4>2, <4>3, ObservationType DEF Statuses, Terminal
        <4> QED
          BY <3>2, <4>4 DEF Reattach, Resolve, FoundDead, FoundAlive, Publish, Refused
      <3> QED
        BY <1>9, <3>1, <3>2
    <2> QED
      BY <2>1, <2>2, HeardStays DEF HeardInv
  <1> QED
    BY <1>2, <1>3, <1>4, <1>5, <1>6, <1>7, <1>8, <1>9 DEF Next, SpawnStep, WaiterStep

\* As long as the host goes on and is heard, the registry says of every process
\* whose spawn and waiter are done that it ended, for any capacity, number of
\* spawns, signals and chunks, and with names shared or not: only a refused
\* announcement or report, or a host that ends, leaves an end unrecorded.
THEOREM HeardEndsAreRecorded == Spec /\ [][Heard]_vars => []EndRecorded
  <1>1. Init => HeardInv
    BY DEF Init, HeardInv
  <1>2. Typed /\ HeardInv /\ [Next]_vars /\ [Heard]_vars => HeardInv'
    BY HeardStep
  <1>3. Typed /\ HeardInv => EndRecorded
    <2> SUFFICES ASSUME Typed, HeardInv, NEW d \in Dispatches, Settled(d)
                 PROVE  store[WorkerOf(d)].status \in Terminal
      BY DEF EndRecorded
    <2>1. mode = "running" /\ queue = <<>> /\ call[d] = "ended"
      BY DEF Settled, HeardInv
    <2>2. ~Queued(WorkerOf(d))
      BY <2>1 DEF Queued
    <2> QED
      BY <2>1, <2>2 DEF HeardInv, Recorded
  <1> QED
    BY <1>1, <1>2, <1>3, TypedInit, TypedStep, PTL DEF Spec
=============================================================================
