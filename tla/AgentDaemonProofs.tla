------------------------- MODULE AgentDaemonProofs -------------------------
(***************************************************************************)
(* For every number of messages, processes, polls and setbacks: types, the *)
(* causes of repeated work, and that the daemon implements Delivery.       *)
(*                                                                         *)
(* What a handler may still do with a message is counted: each process     *)
(* that holds it and has not yet worked it is Pending.  As long as it is   *)
(* not marked, the successes so far and those pending are paid for by lost *)
(* marks and overlapping polls, but for one if a process has it Open, that *)
(* is pending or worked and about to be marked.  Once it is marked, only   *)
(* those already working on it can succeed again (Account).                *)
(***************************************************************************)
EXTENDS AgentDaemon, TLAPS, FiniteSetTheorems

Working(s, m) == s.at = "working" /\ s.msg = m
Pending(s, m) ==
  \/ s.at = "between" /\ m \in s.batch
  \/ s.at \in {"working", "worked", "marked"} /\ m \in s.batch
  \/ Working(s, m)
Open(s, m) == Pending(s, m) \/ (s.at = "worked" /\ s.msg = m)

WorkingAt(m) == {d \in Daemons : Working(daemons[d], m)}
PendingAt(m) == {d \in Daemons : Pending(daemons[d], m)}
OpenAt(m) == {d \in Daemons : Open(daemons[d], m)}

One(holds) == IF holds THEN 1 ELSE 0

Account(m) ==
  /\ m \notin processed =>
       worked[m] + Cardinality(PendingAt(m)) <= unmarked[m] + overlaps[m] + One(OpenAt(m) # {})
  /\ m \in processed =>
       worked[m] + Cardinality(WorkingAt(m)) <= 1 + unmarked[m] + overlaps[m]

\* A message in hand is not in the rest of the batch, and what is held was sent.
Apart == \A d \in Daemons :
  /\ daemons[d] \in InHand => daemons[d].msg \notin daemons[d].batch
  /\ \A m \in Held(daemons[d]) : m \in Msgs /\ rows[m].at # "unsent"

\* What is marked, or was just worked, has been worked.
Succeeded ==
  /\ \A m \in processed : worked[m] >= 1
  /\ \A d \in Daemons : daemons[d].at \in {"worked", "marked"} => worked[daemons[d].msg] >= 1
  /\ \A m \in Msgs : rows[m].at = "unsent" => worked[m] = 0 /\ ~rows[m].stale

Accounted == \A m \in Msgs : Account(m)

DInv == DaemonTypeOK /\ Apart /\ Succeeded /\ Accounted
-----------------------------------------------------------------------------
LEMMA States ==
  /\ Off \notin Batching \cup InHand /\ Loaded \notin Batching \cup InHand
  /\ \A b \in SUBSET Msgs : Between(b) \in Batching
  /\ \A s \in {"working", "worked", "marked"}, m \in Msgs, b \in SUBSET Msgs :
       With(s, m, b) \in InHand
  BY DEF Off, Loaded, Between, With, Batching, InHand

\* Where a process is tells the kind of record its state is.
LEMMA KindOf ==
  ASSUME DaemonTypeOK, NEW d \in Daemons
  PROVE  /\ daemons[d].at = "between" => daemons[d] \in Batching
         /\ daemons[d].at \in {"working", "worked", "marked"} => daemons[d] \in InHand
         /\ daemons[d] \in Batching => daemons[d].batch \subseteq Msgs
         /\ daemons[d] \in InHand => daemons[d].msg \in Msgs /\ daemons[d].batch \subseteq Msgs
  BY DEF DaemonTypeOK, Batching, InHand, Off, Loaded

LEMMA MoveType ==
  ASSUME DaemonTypeOK, NEW d \in Daemons, NEW to \in {Off, Loaded} \cup Batching \cup InHand,
         Move(d, to)
  PROVE  daemons' \in [Daemons -> {Off, Loaded} \cup Batching \cup InHand]
  BY DEF DaemonTypeOK, Move

LEMMA BetweenType ==
  ASSUME DaemonTypeOK, NEW d \in Daemons, NEW b \in SUBSET Msgs, Move(d, Between(b))
  PROVE  daemons' \in [Daemons -> {Off, Loaded} \cup Batching \cup InHand]
  BY MoveType, States

LEMMA WithType ==
  ASSUME DaemonTypeOK, NEW d \in Daemons, NEW s \in {"working", "worked", "marked"},
         NEW m \in Msgs, NEW b \in SUBSET Msgs, Move(d, With(s, m, b))
  PROVE  daemons' \in [Daemons -> {Off, Loaded} \cup Batching \cup InHand]
  BY MoveType, States

\* A row stays a row when it is hidden, deleted, or left alone.
LEMMA RowType ==
  ASSUME DaemonTypeOK, NEW m \in Msgs
  PROVE  /\ Delete(m) => rows' \in [Msgs -> Row]
         /\ \A n \in Nat : HideFor(m, n) => rows' \in [Msgs -> Row]
  <1>1. \A r \in Row : [r EXCEPT !.at = "gone", !.hidden = 0] \in Row
    BY DEF Row
  <1>2. \A r \in Row, n \in Nat : [r EXCEPT !.hidden = n] \in Row
    BY DEF Row
  <1>3. rows \in [Msgs -> Row]
    BY DEF DaemonTypeOK
  <1>4. Delete(m) => rows' \in [Msgs -> Row]
    BY <1>1, <1>3 DEF Delete
  <1>5. ASSUME NEW n \in Nat, HideFor(m, n)
        PROVE  rows' \in [Msgs -> Row]
    <2>1. [rows[m] EXCEPT !.hidden = n] \in Row
      BY <1>2, <1>3
    <2> QED BY <1>3, <1>5, <2>1 DEF HideFor
  <1> QED BY <1>4, <1>5

LEMMA TryType ==
  ASSUME DaemonTypeOK, NEW m \in Msgs,
         Try(Delete(m)) \/ (\E n \in Nat : Try(HideFor(m, n)))
  PROVE  rows' \in [Msgs -> Row] /\ setbacks' \in 0..MaxSetbacks
  <1>1. rows \in [Msgs -> Row] /\ setbacks \in 0..MaxSetbacks
    BY DEF DaemonTypeOK
  <1>2. setbacks' \in 0..MaxSetbacks
    BY <1>1, DaemonAssumption DEF Try, Works, Setback
  <1> QED BY <1>1, <1>2, RowType DEF Try

LEMMA SetbackType ==
  ASSUME DaemonTypeOK, Setback
  PROVE  setbacks' \in 0..MaxSetbacks
  BY DaemonAssumption DEF DaemonTypeOK, Setback

\* The environment's steps: senders, time, whoever stops and starts the agent.
Outside ==
  \/ \E m \in Msgs : SendTo(m) \/ GoStale(m)
  \/ PassTime \/ StopAgent \/ StartAgent

LEMMA OutsideType ==
  ASSUME DaemonTypeOK, Outside
  PROVE  DaemonTypeOK'
  <1> USE DEF DaemonTypeOK
  <1>1. ASSUME NEW m \in Msgs, SendTo(m)
        PROVE  DaemonTypeOK'
    <2>1. [rows[m] EXCEPT !.at = "here"] \in Row
      BY DEF Row
    <2> QED BY <1>1, <2>1 DEF SendTo
  <1>2. ASSUME NEW m \in Msgs, GoStale(m)
        PROVE  DaemonTypeOK'
    <2>1. [rows[m] EXCEPT !.stale = TRUE] \in Row
      BY DEF Row
    <2> QED BY <1>2, <2>1 DEF GoStale
  <1>3. CASE PassTime
    <2>1. ASSUME NEW m \in Msgs, rows[m].hidden > 0
          PROVE  [rows[m] EXCEPT !.hidden = @ - 1] \in Row
      <3>1. rows[m] \in Row
        OBVIOUS
      <3>2. rows[m].hidden - 1 \in Nat
        BY <2>1, <3>1 DEF Row
      <3> QED BY <3>1, <3>2 DEF Row
    <2> QED BY <1>3, <2>1 DEF PassTime
  <1>4. CASE StopAgent \/ StartAgent
    BY <1>4, SetbackType DEF StopAgent, StartAgent
  <1> QED BY <1>1, <1>2, <1>3, <1>4 DEF Outside

\* The steps of process d.
Acts(d) ==
  \/ Load(d) \/ Proceed(d) \/ HandleFails(d) \/ Die(d)
  \/ \E m \in Msgs : CheckFails(d, m)

LEMMA ActsType ==
  ASSUME DaemonTypeOK, NEW d \in Daemons, Acts(d)
  PROVE  DaemonTypeOK'
  <1> USE DEF DaemonTypeOK
  <1>1. CASE Load(d) \/ EnterLoop(d) \/ SeeStopped(d)
    <2>1. daemons' \in [Daemons -> {Off, Loaded} \cup Batching \cup InHand]
      BY <1>1, MoveType, BetweenType DEF Load, EnterLoop, SeeStopped
    <2> QED BY <1>1, <2>1 DEF Load, EnterLoop, SeeStopped
  <1>2. CASE PollTick(d)
    <2>1. PICK b \in Batches : /\ Take(b) /\ Move(d, Between(b))
                               /\ overlaps' \in [Msgs -> Nat]
      BY <1>2 DEF PollTick
    <2>2. b \subseteq Pollable /\ b \subseteq Msgs
      BY DEF Batches, Pollable
    <2>3. daemons' \in [Daemons -> {Off, Loaded} \cup Batching \cup InHand]
      BY <2>1, <2>2, BetweenType
    <2>4. ASSUME NEW m \in b
          PROVE  [rows[m] EXCEPT !.hidden = LeaseTicks, !.attempt = @ + 1] \in Row
      <3>1. rows[m] \in Row /\ rows[m].attempt < MaxAttempts
        BY <2>2 DEF Pollable
      <3>2. rows[m].attempt + 1 \in 0..MaxAttempts
        BY <3>1, DaemonAssumption DEF Row
      <3> QED BY <3>1, <3>2, DaemonAssumption DEF Row
    <2>5. rows' \in [Msgs -> Row]
      BY <2>1, <2>4 DEF Take
    <2> QED BY <1>2, <2>1, <2>3, <2>5 DEF PollTick
  <1>3. ASSUME NEW m \in Msgs, CheckFails(d, m) \/ AckUnworked(d, m) \/ Begin(d, m)
        PROVE  DaemonTypeOK'
    <2>1. Rest(d, m) \subseteq Msgs
      BY <1>3, KindOf DEF CheckFails, AckUnworked, Begin, Upcoming, Rest
    <2>2. daemons' \in [Daemons -> {Off, Loaded} \cup Batching \cup InHand]
      BY <1>3, <2>1, BetweenType, WithType DEF CheckFails, AckUnworked, Begin
    <2>3. rows' \in [Msgs -> Row] /\ setbacks' \in 0..MaxSetbacks
      BY <1>3, TryType, SetbackType, RowType, DaemonAssumption DEF CheckFails, AckUnworked, Begin
    <2> QED BY <1>3, <2>2, <2>3 DEF CheckFails, AckUnworked, Begin
  <1>4. CASE Handle(d) \/ MarkProcessed(d) \/ AckWorked(d) \/ HandleFails(d)
    <2>1. daemons[d].msg \in Msgs /\ daemons[d].batch \subseteq Msgs
      BY <1>4, KindOf DEF Handle, MarkProcessed, AckWorked, HandleFails
    <2>2. daemons' \in [Daemons -> {Off, Loaded} \cup Batching \cup InHand]
      BY <1>4, <2>1, BetweenType, WithType DEF Handle, MarkProcessed, AckWorked, HandleFails
    <2>3. CASE Handle(d) \/ MarkProcessed(d)
      BY <2>1, <2>2, <2>3, SetbackType DEF Handle, MarkProcessed, Unmarked, Works
    <2>4. CASE AckWorked(d)
      BY <2>1, <2>2, <2>4, TryType DEF AckWorked
    <2>5. CASE HandleFails(d)
      <3>1. PICK a \in 1..rows[daemons[d].msg].attempt : Try(HideFor(daemons[d].msg, Backoffs[a]))
        BY <2>5 DEF HandleFails
      <3>2. a \in 1..MaxAttempts
        <4>1. rows[daemons[d].msg] \in Row
          BY <2>1
        <4>2. rows[daemons[d].msg].attempt \in 0..MaxAttempts
          BY <4>1 DEF Row
        <4> QED BY <4>2, DaemonAssumption
      <3>3. Backoffs[a] \in Nat
        BY <3>2, DaemonAssumption
      <3> QED BY <2>1, <2>2, <2>5, <3>1, <3>3, TryType DEF HandleFails
    <2> QED BY <1>4, <2>3, <2>4, <2>5
  <1>5. CASE Die(d)
    <2>1. daemons' \in [Daemons -> {Off, Loaded} \cup Batching \cup InHand]
      BY <1>5, MoveType DEF Die
    <2>2. unmarked' \in [Msgs -> Nat]
      BY <1>5, KindOf DEF Die, Unmarked
    <2> QED BY <1>5, <2>1, <2>2, SetbackType DEF Die
  <1> QED BY <1>1, <1>2, <1>3, <1>4, <1>5 DEF Acts, Proceed

LEMMA InitType == DaemonInit => DaemonTypeOK
  BY DaemonAssumption DEF DaemonInit, DaemonTypeOK, Row

\* Every variable keeps its type.
THEOREM DaemonTypeCorrect == DaemonSpec => []DaemonTypeOK
  <1>1. DaemonTypeOK /\ [DaemonNext]_daemonVars => DaemonTypeOK'
    <2>1. ASSUME DaemonTypeOK, UNCHANGED daemonVars
          PROVE  DaemonTypeOK'
      BY <2>1 DEF DaemonTypeOK, daemonVars
    <2> QED BY <2>1, OutsideType, ActsType DEF DaemonNext, Outside, Acts
  <1> QED BY <1>1, InitType, PTL DEF DaemonSpec
-----------------------------------------------------------------------------
(* What one process does to the counts: P and W are the other processes    *)
(* that are pending or working, o tells whether one of them has m open.    *)
LEMMA OneCounted ==
  ASSUME NEW S, NEW T, NEW d, IsFiniteSet(S), IsFiniteSet(T), S \ {d} = T \ {d}
  PROVE  /\ Cardinality(S \ {d}) \in Nat
         /\ Cardinality(S) = Cardinality(S \ {d}) + One(d \in S)
         /\ Cardinality(T) = Cardinality(S \ {d}) + One(d \in T)
  <1>1. IsFiniteSet(S \ {d}) /\ Cardinality(S \ {d}) \in Nat
    BY FS_Subset, FS_CardinalityType
  <1>2. ASSUME NEW X, IsFiniteSet(X), X \ {d} = S \ {d}
        PROVE  Cardinality(X) = Cardinality(S \ {d}) + One(d \in X)
    <2>1. CASE d \in X
      <3>1. Cardinality(X \ {d}) = Cardinality(X) - 1 /\ Cardinality(X) \in Nat
        BY <1>2, <2>1, FS_RemoveElement, FS_CardinalityType
      <3> QED BY <1>2, <2>1, <3>1 DEF One
    <2>2. CASE d \notin X
      <3>1. X = S \ {d}
        BY <1>2, <2>2
      <3> QED BY <1>1, <2>2, <3>1 DEF One
    <2> QED BY <2>1, <2>2
  <1> QED BY <1>1, <1>2

LEMMA Counts ==
  ASSUME DaemonTypeOK, NEW d \in Daemons, NEW to, NEW m \in Msgs, Move(d, to)
  PROVE  \E P, W \in Nat, o \in 0..1 :
           /\ W <= P /\ (o = 0 => P = 0)
           /\ Cardinality(PendingAt(m)) = P + One(Pending(daemons[d], m))
           /\ Cardinality(PendingAt(m))' = P + One(Pending(to, m))
           /\ Cardinality(WorkingAt(m)) = W + One(Working(daemons[d], m))
           /\ Cardinality(WorkingAt(m))' = W + One(Working(to, m))
           /\ OpenAt(m) # {} <=> (o = 1 \/ Open(daemons[d], m))
           /\ (OpenAt(m) # {})' <=> (o = 1 \/ Open(to, m))
  <1>1. daemons'[d] = to /\ \A e \in Daemons \ {d} : daemons'[e] = daemons[e]
    BY DEF Move, DaemonTypeOK
  <1>2. /\ PendingAt(m) \ {d} = PendingAt(m)' \ {d}
        /\ WorkingAt(m) \ {d} = WorkingAt(m)' \ {d}
        /\ OpenAt(m) \ {d} = OpenAt(m)' \ {d}
    BY <1>1 DEF PendingAt, WorkingAt, OpenAt
  <1>3. /\ d \in PendingAt(m) <=> Pending(daemons[d], m)
        /\ d \in PendingAt(m)' <=> Pending(to, m)
        /\ d \in WorkingAt(m) <=> Working(daemons[d], m)
        /\ d \in WorkingAt(m)' <=> Working(to, m)
        /\ d \in OpenAt(m) <=> Open(daemons[d], m)
        /\ d \in OpenAt(m)' <=> Open(to, m)
    BY <1>1 DEF PendingAt, WorkingAt, OpenAt
  <1>4. /\ IsFiniteSet(PendingAt(m)) /\ IsFiniteSet(PendingAt(m)')
        /\ IsFiniteSet(WorkingAt(m)) /\ IsFiniteSet(WorkingAt(m)')
    BY DaemonAssumption, FS_Subset DEF PendingAt, WorkingAt
  <1>5. PICK P \in Nat : /\ P = Cardinality(PendingAt(m) \ {d})
                         /\ Cardinality(PendingAt(m)) = P + One(d \in PendingAt(m))
                         /\ Cardinality(PendingAt(m)') = P + One(d \in PendingAt(m)')
    <2>1. /\ Cardinality(PendingAt(m) \ {d}) \in Nat
          /\ Cardinality(PendingAt(m)) = Cardinality(PendingAt(m) \ {d}) + One(d \in PendingAt(m))
      BY <1>4, OneCounted
    <2>2. Cardinality(PendingAt(m)') = Cardinality(PendingAt(m) \ {d}) + One(d \in PendingAt(m)')
      BY <1>2, <1>4, OneCounted
    <2> QED BY <2>1, <2>2
  <1>6. PICK W \in Nat : /\ W = Cardinality(WorkingAt(m) \ {d})
                         /\ Cardinality(WorkingAt(m)) = W + One(d \in WorkingAt(m))
                         /\ Cardinality(WorkingAt(m)') = W + One(d \in WorkingAt(m)')
    <2>1. /\ Cardinality(WorkingAt(m) \ {d}) \in Nat
          /\ Cardinality(WorkingAt(m)) = Cardinality(WorkingAt(m) \ {d}) + One(d \in WorkingAt(m))
      BY <1>4, OneCounted
    <2>2. Cardinality(WorkingAt(m)') = Cardinality(WorkingAt(m) \ {d}) + One(d \in WorkingAt(m)')
      BY <1>2, <1>4, OneCounted
    <2> QED BY <2>1, <2>2
  <1>7. PICK o \in 0..1 : o = 1 <=> OpenAt(m) \ {d} # {}
    <2>1. 0 \in 0..1 /\ 1 \in 0..1 /\ 0 # 1
      OBVIOUS
    <2> QED BY <2>1
  <1>8. W <= P
    <2>1. WorkingAt(m) \ {d} \subseteq PendingAt(m) \ {d}
      BY DEF WorkingAt, PendingAt, Pending
    <2>2. IsFiniteSet(PendingAt(m) \ {d})
      BY <1>4, FS_Subset
    <2> QED BY <1>5, <1>6, <2>1, <2>2, FS_Subset
  <1>9. o = 0 => P = 0
    <2> SUFFICES ASSUME o = 0 PROVE P = 0
      OBVIOUS
    <2>1. PendingAt(m) \ {d} \subseteq OpenAt(m) \ {d}
      BY DEF PendingAt, OpenAt, Open
    <2>2. PendingAt(m) \ {d} = {}
      BY <1>7, <2>1
    <2> QED BY <1>5, <2>2, FS_EmptySet
  <1>10. OpenAt(m) # {} <=> (o = 1 \/ Open(daemons[d], m))
    BY <1>3, <1>7
  <1>11. (OpenAt(m) # {})' <=> (o = 1 \/ Open(to, m))
    BY <1>2, <1>3, <1>7
  <1>12. /\ Cardinality(PendingAt(m)) = P + One(Pending(daemons[d], m))
         /\ Cardinality(PendingAt(m))' = P + One(Pending(to, m))
         /\ Cardinality(WorkingAt(m)) = W + One(Working(daemons[d], m))
         /\ Cardinality(WorkingAt(m))' = W + One(Working(to, m))
    BY <1>3, <1>5, <1>6 DEF One
  <1> QED BY <1>8, <1>9, <1>10, <1>11, <1>12
-----------------------------------------------------------------------------
(* What a step of one process means for one message.                       *)
Counted(m) == worked[m] \in Nat /\ unmarked[m] \in Nat /\ overlaps[m] \in Nat

\* The process takes nothing on; if it closes m unworked it was pending, if it
\* closes it worked, a mark is lost.
LEMMA LetGoAccount ==
  ASSUME DaemonTypeOK, NEW d \in Daemons, NEW to, NEW m \in Msgs, Move(d, to), Account(m),
         Counted(m), Counted(m)',
         m \in processed' <=> m \in processed,
         worked'[m] = worked[m], unmarked'[m] >= unmarked[m], overlaps'[m] >= overlaps[m],
         Pending(to, m) => Pending(daemons[d], m),
         Working(to, m) => Working(daemons[d], m) \/ m \notin processed,
         Open(daemons[d], m) => \/ Open(to, m) \/ Pending(daemons[d], m)
                                \/ unmarked'[m] >= unmarked[m] + 1
  PROVE  Account(m)'
  <1>1. PICK P, W \in Nat, o \in 0..1 :
           /\ W <= P /\ (o = 0 => P = 0)
           /\ Cardinality(PendingAt(m)) = P + One(Pending(daemons[d], m))
           /\ Cardinality(PendingAt(m))' = P + One(Pending(to, m))
           /\ Cardinality(WorkingAt(m)) = W + One(Working(daemons[d], m))
           /\ Cardinality(WorkingAt(m))' = W + One(Working(to, m))
           /\ OpenAt(m) # {} <=> (o = 1 \/ Open(daemons[d], m))
           /\ (OpenAt(m) # {})' <=> (o = 1 \/ Open(to, m))
    BY Counts
  <1>2. Pending(daemons[d], m) => Open(daemons[d], m)
    BY DEF Open
  <1>3. ASSUME m \notin processed
        PROVE  worked'[m] + Cardinality(PendingAt(m))'
                 <= unmarked'[m] + overlaps'[m] + One((OpenAt(m) # {})')
    <2>1. worked[m] + P + One(Pending(daemons[d], m))
            <= unmarked[m] + overlaps[m] + One(o = 1 \/ Open(daemons[d], m))
      BY <1>1, <1>3 DEF Account, One, Counted
    <2>2. worked[m] + P + One(Pending(to, m))
            <= unmarked'[m] + overlaps'[m] + One(o = 1 \/ Open(to, m))
      <3>1. CASE o = 1
        BY <1>1, <2>1, <3>1 DEF One, Counted
      <3>2. CASE o = 0 /\ Open(to, m)
        BY <1>1, <1>2, <2>1, <3>2 DEF One, Counted
      <3>3. CASE o = 0 /\ ~Open(to, m) /\ Pending(daemons[d], m)
        BY <1>1, <1>2, <2>1, <3>3 DEF One, Counted, Open
      <3>4. CASE o = 0 /\ ~Open(to, m) /\ ~Pending(daemons[d], m)
        BY <1>1, <2>1, <3>4 DEF One, Counted, Open
      <3> QED BY <3>1, <3>2, <3>3, <3>4
    <2> QED BY <1>1, <2>2 DEF One, Counted
  <1>4. ASSUME m \in processed
        PROVE  worked'[m] + Cardinality(WorkingAt(m))' <= 1 + unmarked'[m] + overlaps'[m]
    BY <1>1, <1>4 DEF Account, One, Counted
  <1> QED BY <1>3, <1>4 DEF Account, One

\* A success: it was pending, and is open until it is marked.
LEMMA HandleAccount ==
  ASSUME DaemonTypeOK, NEW d \in Daemons, NEW to, NEW m \in Msgs, Move(d, to), Account(m),
         Counted(m), Counted(m)',
         m \in processed' <=> m \in processed,
         worked'[m] = worked[m] + 1, unmarked'[m] = unmarked[m], overlaps'[m] = overlaps[m],
         Working(daemons[d], m), ~Pending(to, m), Open(to, m)
  PROVE  Account(m)'
  <1>1. PICK P, W \in Nat, o \in 0..1 :
           /\ W <= P /\ (o = 0 => P = 0)
           /\ Cardinality(PendingAt(m)) = P + One(Pending(daemons[d], m))
           /\ Cardinality(PendingAt(m))' = P + One(Pending(to, m))
           /\ Cardinality(WorkingAt(m)) = W + One(Working(daemons[d], m))
           /\ Cardinality(WorkingAt(m))' = W + One(Working(to, m))
           /\ OpenAt(m) # {} <=> (o = 1 \/ Open(daemons[d], m))
           /\ (OpenAt(m) # {})' <=> (o = 1 \/ Open(to, m))
    BY Counts
  <1>2. Pending(daemons[d], m) /\ Open(daemons[d], m) /\ ~Working(to, m)
    BY DEF Open, Pending
  <1>3. ASSUME m \notin processed
        PROVE  worked'[m] + Cardinality(PendingAt(m))'
                 <= unmarked'[m] + overlaps'[m] + One((OpenAt(m) # {})')
    BY <1>1, <1>2, <1>3 DEF Account, One, Counted
  <1>4. ASSUME m \in processed
        PROVE  worked'[m] + Cardinality(WorkingAt(m))' <= 1 + unmarked'[m] + overlaps'[m]
    BY <1>1, <1>2, <1>4 DEF Account, One, Counted
  <1> QED BY <1>3, <1>4 DEF Account, One

\* A mark: from now on only those at work on m can still succeed.
LEMMA MarkAccount ==
  ASSUME DaemonTypeOK, NEW d \in Daemons, NEW to, NEW m \in Msgs, Move(d, to), Account(m),
         Counted(m), m \in processed',
         worked'[m] = worked[m], unmarked'[m] = unmarked[m], overlaps'[m] = overlaps[m],
         ~Working(to, m)
  PROVE  Account(m)'
  <1>1. PICK P, W \in Nat, o \in 0..1 :
           /\ W <= P /\ (o = 0 => P = 0)
           /\ Cardinality(PendingAt(m)) = P + One(Pending(daemons[d], m))
           /\ Cardinality(WorkingAt(m)) = W + One(Working(daemons[d], m))
           /\ Cardinality(WorkingAt(m))' = W + One(Working(to, m))
    BY Counts
  <1>2. worked'[m] + Cardinality(WorkingAt(m))' <= 1 + unmarked'[m] + overlaps'[m]
    BY <1>1 DEF Account, One, Counted
  <1> QED BY <1>2 DEF Account

\* A poll: a process that held nothing now has m pending, an overlap if any other held it.
LEMMA TakeAccount ==
  ASSUME DaemonTypeOK, NEW d \in Daemons, NEW to, NEW m \in Msgs, Move(d, to), Account(m),
         Counted(m), m \in processed' <=> m \in processed,
         worked'[m] = worked[m], unmarked'[m] = unmarked[m],
         ~Open(daemons[d], m), ~Working(to, m), Pending(to, m),
         overlaps'[m] = overlaps[m] + 1 \/ (overlaps'[m] = overlaps[m] /\ OpenAt(m) = {})
  PROVE  Account(m)'
  <1>1. PICK P, W \in Nat, o \in 0..1 :
           /\ W <= P /\ (o = 0 => P = 0)
           /\ Cardinality(PendingAt(m)) = P + One(Pending(daemons[d], m))
           /\ Cardinality(PendingAt(m))' = P + One(Pending(to, m))
           /\ Cardinality(WorkingAt(m)) = W + One(Working(daemons[d], m))
           /\ Cardinality(WorkingAt(m))' = W + One(Working(to, m))
           /\ OpenAt(m) # {} <=> (o = 1 \/ Open(daemons[d], m))
           /\ (OpenAt(m) # {})' <=> (o = 1 \/ Open(to, m))
    BY Counts
  <1>2. Open(to, m) /\ ~Pending(daemons[d], m) /\ ~Working(daemons[d], m)
    BY DEF Open, Pending
  <1>3. ASSUME m \notin processed
        PROVE  worked'[m] + Cardinality(PendingAt(m))'
                 <= unmarked'[m] + overlaps'[m] + One((OpenAt(m) # {})')
    BY <1>1, <1>2, <1>3 DEF Account, One, Counted
  <1>4. ASSUME m \in processed
        PROVE  worked'[m] + Cardinality(WorkingAt(m))' <= 1 + unmarked'[m] + overlaps'[m]
    BY <1>1, <1>2, <1>4 DEF Account, One, Counted
  <1> QED BY <1>3, <1>4 DEF Account, One
-----------------------------------------------------------------------------
\* What the predicates say of each kind of state.
LEMMA Chain ==
  ASSUME NEW s, NEW m
  PROVE  /\ Working(s, m) => Pending(s, m)
         /\ Pending(s, m) => Open(s, m)
         /\ s.at = "between" => (Open(s, m) <=> m \in s.batch) /\ (Pending(s, m) <=> m \in s.batch)
         /\ s.at \in {"working", "worked", "marked"} /\ m \in s.batch => Pending(s, m)
         /\ s.at \in {"marked", "working"} => (Open(s, m) => Pending(s, m))
         /\ s.at = "worked" => (Open(s, m) => Pending(s, m) \/ m = s.msg)
  BY DEF Open, Pending, Working

LEMMA OffReading ==
  ASSUME NEW m, NEW s \in {Off, Loaded, Between({})}
  PROVE  ~Open(s, m)
  BY DEF Open, Pending, Working, Off, Loaded, Between

LEMMA BetweenReading ==
  ASSUME NEW m, NEW b
  PROVE  /\ Pending(Between(b), m) <=> m \in b
         /\ ~Working(Between(b), m)
  BY DEF Pending, Working, Between

LEMMA WithReading ==
  ASSUME NEW m, NEW n, NEW b
  PROVE  /\ Pending(With("working", n, b), m) <=> m \in b \/ m = n
         /\ Working(With("working", n, b), m) <=> m = n
         /\ Pending(With("worked", n, b), m) <=> m \in b
         /\ Pending(With("marked", n, b), m) <=> m \in b
         /\ ~Working(With("worked", n, b), m)
         /\ ~Working(With("marked", n, b), m)
         /\ Open(With("worked", n, b), m) <=> m \in b \/ m = n
  BY DEF Open, Pending, Working, With

LEMMA CountedAlways ==
  DaemonTypeOK => \A m \in Msgs : Counted(m)
  BY DEF DaemonTypeOK, Counted

LEMMA ActsAccounted ==
  ASSUME DInv, DaemonTypeOK', NEW d \in Daemons, Acts(d), NEW m \in Msgs
  PROVE  Account(m)'
  <1> USE DEF DInv
  <1>1. Account(m) /\ Counted(m) /\ Counted(m)'
    <2>1. Account(m) /\ Counted(m)
      BY CountedAlways DEF Accounted
    <2>2. Counted(m)'
      BY DEF DaemonTypeOK, Counted
    <2> QED BY <2>1, <2>2
  <1>2. CASE Load(d) \/ EnterLoop(d) \/ SeeStopped(d)
    <2>1. PICK to \in {Loaded, Between({}), Off} : Move(d, to)
      BY <1>2 DEF Load, EnterLoop, SeeStopped
    <2>2. /\ ~Pending(to, m) /\ ~Working(to, m)
      BY <2>1, OffReading, Chain
    <2>3. ~Open(daemons[d], m)
      BY <1>2, OffReading DEF Load, EnterLoop, SeeStopped
    <2>4. /\ processed' = processed /\ worked' = worked
          /\ unmarked' = unmarked /\ overlaps' = overlaps
      BY <1>2 DEF Load, EnterLoop, SeeStopped
    <2> QED BY <1>1, <2>1, <2>2, <2>3, <2>4, LetGoAccount DEF Counted
  <1>3. CASE PollTick(d)
    <2>1. PICK b \in Batches :
            /\ Move(d, Between(b)) /\ daemons[d] = Between({})
            /\ overlaps' = [n \in Msgs |-> IF n \in b /\ (\E e \in Daemons : n \in Held(daemons[e]))
                                           THEN overlaps[n] + 1 ELSE overlaps[n]]
            /\ processed' = processed /\ worked' = worked /\ unmarked' = unmarked
      BY <1>3 DEF PollTick
    <2>2. ~Open(daemons[d], m) /\ ~Working(Between(b), m) /\ ~Pending(daemons[d], m)
      BY <2>1, OffReading, BetweenReading, Chain
    <2>3. CASE m \in b
      <3>1. ASSUME OpenAt(m) # {} PROVE overlaps'[m] = overlaps[m] + 1
        <4>1. PICK e \in Daemons : Open(daemons[e], m)
          BY <3>1 DEF OpenAt
        <4>2. m \in Held(daemons[e])
          BY <4>1 DEF Open, Pending, Working, Held
        <4> QED BY <2>1, <2>3, <4>2
      <3>2. overlaps'[m] = overlaps[m] + 1 \/ (overlaps'[m] = overlaps[m] /\ OpenAt(m) = {})
        BY <2>1, <3>1
      <3>3. Pending(Between(b), m)
        BY <2>3, BetweenReading
      <3> QED BY <1>1, <2>1, <2>2, <3>2, <3>3, TakeAccount
    <2>4. CASE m \notin b
      <3>1. overlaps'[m] = overlaps[m]
        BY <2>1, <2>4
      <3>2. ~Pending(Between(b), m)
        BY <2>4, BetweenReading
      <3> QED BY <1>1, <2>1, <2>2, <3>1, <3>2, LetGoAccount DEF Counted
    <2> QED BY <2>3, <2>4
  <1>4. ASSUME NEW n \in Msgs, CheckFails(d, n) \/ AckUnworked(d, n)
        PROVE  Account(m)'
    <2>1. Move(d, Between(Rest(d, n))) /\ daemons[d].at = "between"
      BY <1>4 DEF CheckFails, AckUnworked, Upcoming
    <2>2. Pending(Between(Rest(d, n)), m) => Pending(daemons[d], m)
      BY <2>1, BetweenReading, Chain DEF Rest
    <2>3. ~Working(Between(Rest(d, n)), m)
      BY BetweenReading
    <2>4. Open(daemons[d], m) => Pending(daemons[d], m)
      BY <2>1, Chain
    <2>5. /\ processed' = processed /\ worked' = worked
          /\ unmarked' = unmarked /\ overlaps' = overlaps
      BY <1>4 DEF CheckFails, AckUnworked
    <2> QED BY <1>1, <2>1, <2>2, <2>3, <2>4, <2>5, LetGoAccount DEF Counted
  <1>5. ASSUME NEW n \in Msgs, Begin(d, n)
        PROVE  Account(m)'
    <2>1. /\ Move(d, With("working", n, Rest(d, n))) /\ daemons[d].at = "between"
          /\ n \in daemons[d].batch /\ n \notin processed
      BY <1>5 DEF Begin, Upcoming
    <2>2. Pending(With("working", n, Rest(d, n)), m) <=> Pending(daemons[d], m)
      BY <2>1, WithReading, Chain DEF Rest
    <2>3. Working(With("working", n, Rest(d, n)), m) => m \notin processed
      BY <2>1, WithReading
    <2>4. Open(daemons[d], m) => Pending(daemons[d], m)
      BY <2>1, Chain
    <2>5. /\ processed' = processed /\ worked' = worked
          /\ unmarked' = unmarked /\ overlaps' = overlaps
      BY <1>5 DEF Begin
    <2> QED BY <1>1, <2>1, <2>2, <2>3, <2>4, <2>5, LetGoAccount DEF Counted
  <1>6. CASE Handle(d)
    <2>1. PICK n \in Msgs : /\ n = daemons[d].msg /\ daemons[d].at = "working"
                            /\ n \notin daemons[d].batch
                            /\ Move(d, With("worked", n, daemons[d].batch))
                            /\ worked' = [worked EXCEPT ![n] = @ + 1]
                            /\ processed' = processed /\ unmarked' = unmarked /\ overlaps' = overlaps
      BY <1>6, KindOf DEF Handle, Apart
    <2>2. CASE m = n
      <3>1. Working(daemons[d], m)
        BY <2>1, <2>2 DEF Working
      <3>2. ~Pending(With("worked", n, daemons[d].batch), m) /\ Open(With("worked", n, daemons[d].batch), m)
        BY <2>1, <2>2, WithReading
      <3>3. worked'[m] = worked[m] + 1
        BY <2>1, <2>2 DEF DaemonTypeOK
      <3> QED BY <1>1, <2>1, <3>1, <3>2, <3>3, HandleAccount
    <2>3. CASE m # n
      <3>1. worked'[m] = worked[m]
        BY <2>1, <2>3 DEF DaemonTypeOK
      <3>2. /\ Pending(With("worked", n, daemons[d].batch), m) => Pending(daemons[d], m)
            /\ ~Working(With("worked", n, daemons[d].batch), m)
            /\ Open(daemons[d], m) => Pending(daemons[d], m)
        BY <2>1, <2>3, WithReading, Chain
      <3> QED BY <1>1, <2>1, <3>1, <3>2, LetGoAccount DEF Counted
    <2> QED BY <2>2, <2>3
  <1>7. CASE MarkProcessed(d)
    <2>1. PICK n \in Msgs : /\ n = daemons[d].msg /\ daemons[d].at = "worked"
                            /\ Move(d, With("marked", n, daemons[d].batch))
                            /\ worked' = worked /\ overlaps' = overlaps
      BY <1>7, KindOf DEF MarkProcessed
    <2>2. /\ Pending(With("marked", n, daemons[d].batch), m) => Pending(daemons[d], m)
          /\ ~Working(With("marked", n, daemons[d].batch), m)
          /\ Open(daemons[d], m) => Pending(daemons[d], m) \/ m = n
      BY <2>1, WithReading, Chain
    <2>3. CASE processed' = processed \cup {n} /\ unmarked' = unmarked
      <3>1. CASE m = n
        BY <1>1, <2>1, <2>2, <2>3, <3>1, MarkAccount
      <3>2. CASE m # n
        BY <1>1, <2>1, <2>2, <2>3, <3>2, LetGoAccount DEF Counted
      <3> QED BY <3>1, <3>2
    <2>4. CASE processed' = processed /\ unmarked' = [unmarked EXCEPT ![n] = @ + 1]
      <3>1. unmarked'[m] = IF m = n THEN unmarked[m] + 1 ELSE unmarked[m]
        BY <2>4 DEF DaemonTypeOK
      <3> QED BY <1>1, <2>1, <2>2, <2>4, <3>1, LetGoAccount DEF Counted
    <2> QED BY <1>7, <2>1, <2>3, <2>4 DEF MarkProcessed, Unmarked
  <1>8. CASE AckWorked(d) \/ HandleFails(d)
    <2>1. /\ Move(d, Between(daemons[d].batch)) /\ daemons[d].at \in {"marked", "working"}
          /\ processed' = processed /\ worked' = worked
          /\ unmarked' = unmarked /\ overlaps' = overlaps
      BY <1>8 DEF AckWorked, HandleFails
    <2>2. /\ Pending(Between(daemons[d].batch), m) => Pending(daemons[d], m)
          /\ ~Working(Between(daemons[d].batch), m)
          /\ Open(daemons[d], m) => Pending(daemons[d], m)
      BY <2>1, BetweenReading, Chain
    <2> QED BY <1>1, <2>1, <2>2, LetGoAccount DEF Counted
  <1>9. CASE Die(d)
    <2>1. /\ Move(d, Off) /\ processed' = processed /\ worked' = worked /\ overlaps' = overlaps
          /\ IF daemons[d].at = "worked" THEN Unmarked(d) ELSE unmarked' = unmarked
      BY <1>9 DEF Die
    <2>2. ~Pending(Off, m) /\ ~Working(Off, m)
      BY OffReading, Chain
    <2>3. CASE daemons[d].at = "worked"
      <3>1. unmarked'[m] = IF m = daemons[d].msg THEN unmarked[m] + 1 ELSE unmarked[m]
        BY <2>1, <2>3, KindOf DEF Unmarked, DaemonTypeOK
      <3>2. Open(daemons[d], m) => Pending(daemons[d], m) \/ m = daemons[d].msg
        BY <2>3 DEF Open
      <3> QED BY <1>1, <2>1, <2>2, <3>1, <3>2, LetGoAccount DEF Counted
    <2>4. CASE daemons[d].at # "worked"
      <3>1. Open(daemons[d], m) => Pending(daemons[d], m)
        BY <2>4 DEF Open
      <3> QED BY <1>1, <2>1, <2>2, <2>4, <3>1, LetGoAccount DEF Counted
    <2> QED BY <2>3, <2>4
  <1> QED BY <1>2, <1>3, <1>4, <1>5, <1>6, <1>7, <1>8, <1>9 DEF Acts, Proceed
-----------------------------------------------------------------------------
\* No step takes a row back to the time before it was sent, or changes what
\* was worked but by a success.
LEMMA RowsGoOn ==
  ASSUME DaemonTypeOK, NEW d \in Daemons, Acts(d), NEW m \in Msgs
  PROVE  rows'[m].at \in {rows[m].at, "gone"} /\ rows'[m].stale = rows[m].stale
  <1>1. rows \in [Msgs -> Row] /\ \A n \in Msgs : rows[n] \in Row
    BY DEF DaemonTypeOK
  <1>2. ASSUME NEW n \in Msgs, Delete(n)
        PROVE  /\ rows'[m].at = IF m = n THEN "gone" ELSE rows[m].at
               /\ rows'[m].stale = rows[m].stale
    BY <1>1, <1>2 DEF Delete, Row
  <1>3. ASSUME NEW n \in Msgs, NEW ticks, HideFor(n, ticks)
        PROVE  rows'[m].at = rows[m].at /\ rows'[m].stale = rows[m].stale
    BY <1>1, <1>3 DEF HideFor, Row
  <1>4. CASE PollTick(d)
    <2>1. PICK b : Take(b)
      BY <1>4 DEF PollTick
    <2>2. rows'[m] = IF m \in b
                     THEN [rows[m] EXCEPT !.hidden = LeaseTicks, !.attempt = @ + 1] ELSE rows[m]
      BY <2>1 DEF Take
    <2>3. rows[m] \in Row
      BY <1>1
    <2> QED BY <2>2, <2>3 DEF Row
  <1>5. ASSUME NEW n \in Msgs, CheckFails(d, n) \/ AckUnworked(d, n)
        PROVE  rows'[m].at \in {rows[m].at, "gone"} /\ rows'[m].stale = rows[m].stale
    BY <1>2, <1>3, <1>5 DEF CheckFails, AckUnworked, Try
  <1>6. CASE AckWorked(d) \/ HandleFails(d)
    <2>1. daemons[d].msg \in Msgs
      BY <1>6, KindOf DEF AckWorked, HandleFails
    <2>2. \/ UNCHANGED rows \/ Delete(daemons[d].msg)
          \/ \E ticks : HideFor(daemons[d].msg, ticks)
      BY <1>6 DEF AckWorked, HandleFails, Try
    <2> QED BY <1>2, <1>3, <2>1, <2>2
  <1>7. CASE \/ Load(d) \/ EnterLoop(d) \/ SeeStopped(d) \/ Handle(d) \/ MarkProcessed(d) \/ Die(d)
             \/ \E n \in Msgs : Begin(d, n)
    BY <1>7 DEF Load, EnterLoop, SeeStopped, Handle, MarkProcessed, Die, Begin
  <1> QED BY <1>4, <1>5, <1>6, <1>7 DEF Acts, Proceed

\* What a process holds after its step it held before, or has just polled.
LEMMA ActsApart ==
  ASSUME DInv, NEW d \in Daemons, Acts(d)
  PROVE  Apart'
  <1> USE DEF DInv
  <1>1. \E to : Move(d, to) /\ (to \in InHand => to.msg \notin to.batch)
                /\ \A m \in Held(to) : m \in Msgs /\ (m \in Held(daemons[d]) \/ rows[m].at = "here")
    <2>1. Held(Off) = {} /\ Held(Loaded) = {} /\ \A b : Held(Between(b)) = b
      BY DEF Held, Off, Loaded, Between
    <2>2. \A m, b : \A s \in {"working", "worked", "marked"} :
            /\ Held(With(s, m, b)) = b \cup {m}
            /\ With(s, m, b).msg = m /\ With(s, m, b).batch = b
      BY DEF Held, With
    <2>3. CASE Load(d) \/ EnterLoop(d) \/ SeeStopped(d) \/ Die(d)
      <3>1. PICK to \in {Off, Loaded, Between({})} : Move(d, to)
        BY <2>3 DEF Load, EnterLoop, SeeStopped, Die
      <3>2. to \notin InHand /\ Held(to) = {}
        BY <2>1 DEF Off, Loaded, Between, InHand
      <3> QED BY <3>1, <3>2
    <2>4. CASE PollTick(d)
      <3>1. PICK b \in Batches : Move(d, Between(b))
        BY <2>4 DEF PollTick
      <3>2. \A m \in b : m \in Msgs /\ rows[m].at = "here"
        BY DEF Batches, Pollable
      <3>3. Between(b) \notin InHand
        BY DEF Between, InHand
      <3> QED BY <2>1, <3>1, <3>2, <3>3
    <2>5. ASSUME NEW n \in Msgs, CheckFails(d, n) \/ AckUnworked(d, n) \/ Begin(d, n)
          PROVE  \E to : Move(d, to) /\ (to \in InHand => to.msg \notin to.batch)
                         /\ \A m \in Held(to) : m \in Msgs /\ m \in Held(daemons[d])
      <3>1. daemons[d].at = "between" /\ n \in daemons[d].batch /\ Held(daemons[d]) = daemons[d].batch
        BY <2>5 DEF CheckFails, AckUnworked, Begin, Upcoming, Held
      <3>2. Rest(d, n) \subseteq Msgs /\ n \notin Rest(d, n) /\ Rest(d, n) \subseteq daemons[d].batch
        BY <3>1, KindOf DEF Rest
      <3>3. Between(Rest(d, n)) \notin InHand
        BY DEF Between, InHand
      <3>4. CASE Move(d, Between(Rest(d, n)))
        BY <2>1, <3>1, <3>2, <3>3, <3>4
      <3>5. CASE Move(d, With("working", n, Rest(d, n)))
        BY <2>2, <3>1, <3>2, <3>5
      <3> QED BY <2>5, <3>4, <3>5 DEF CheckFails, AckUnworked, Begin
    <2>6. CASE Handle(d) \/ MarkProcessed(d) \/ AckWorked(d) \/ HandleFails(d)
      <3>1. PICK n \in Msgs : /\ n = daemons[d].msg /\ n \notin daemons[d].batch
                              /\ daemons[d].batch \subseteq Msgs
                              /\ Held(daemons[d]) = daemons[d].batch \cup {n}
        BY <2>6, KindOf DEF Handle, MarkProcessed, AckWorked, HandleFails, Apart, Held
      <3>2. Between(daemons[d].batch) \notin InHand
        BY DEF Between, InHand
      <3>3. CASE Move(d, Between(daemons[d].batch))
        BY <2>1, <3>1, <3>2, <3>3
      <3>4. CASE \E s \in {"worked", "marked"} : Move(d, With(s, n, daemons[d].batch))
        BY <2>2, <3>1, <3>4
      <3> QED BY <2>6, <3>1, <3>3, <3>4 DEF Handle, MarkProcessed, AckWorked, HandleFails
    <2> QED BY <2>3, <2>4, <2>5, <2>6 DEF Acts, Proceed
  <1>2. PICK to : Move(d, to) /\ (to \in InHand => to.msg \notin to.batch)
                  /\ \A m \in Held(to) : m \in Msgs /\ (m \in Held(daemons[d]) \/ rows[m].at = "here")
    BY <1>1
  <1>3. \A e \in Daemons : daemons'[e] = IF e = d THEN to ELSE daemons[e]
    BY <1>2 DEF Move, DaemonTypeOK
  <1>4. \A m \in Msgs : rows[m].at # "unsent" => rows'[m].at # "unsent"
    BY RowsGoOn
  <1>5. ASSUME NEW e \in Daemons
        PROVE  /\ daemons'[e] \in InHand => daemons'[e].msg \notin daemons'[e].batch
               /\ \A m \in Held(daemons'[e]) : m \in Msgs /\ rows'[m].at # "unsent"
    BY <1>2, <1>3, <1>4 DEF Apart
  <1> QED BY <1>5 DEF Apart, Held, InHand

LEMMA ActsSucceeded ==
  ASSUME DInv, NEW d \in Daemons, Acts(d)
  PROVE  Succeeded'
  <1> USE DEF DInv
  <1>1. \A m \in Msgs : worked'[m] \in Nat /\ worked'[m] >= worked[m]
    <2>1. CASE Handle(d)
      BY <2>1 DEF Handle, DaemonTypeOK
    <2>2. CASE ~Handle(d)
      <3>1. worked' = worked
        BY <2>2 DEF Acts, Proceed, Load, EnterLoop, PollTick, SeeStopped, MarkProcessed,
                    AckWorked, AckUnworked, Begin, HandleFails, Die, CheckFails
      <3> QED BY <3>1 DEF DaemonTypeOK
    <2> QED BY <2>1, <2>2
  <1>2. ASSUME NEW m \in processed'
        PROVE  worked'[m] >= 1
    <2>1. CASE m \in processed
      BY <1>1, <2>1 DEF Succeeded, DaemonTypeOK
    <2>2. CASE m \notin processed
      <3>1. MarkProcessed(d) /\ m = daemons[d].msg
        BY <1>2, <2>2 DEF Acts, Proceed, Load, EnterLoop, PollTick, SeeStopped, MarkProcessed, Handle,
                    AckWorked, AckUnworked, Begin, HandleFails, Die, CheckFails
      <3>2. daemons[d].at = "worked" /\ m \in Msgs
        BY <3>1, KindOf DEF MarkProcessed
      <3> QED BY <1>1, <3>1, <3>2 DEF Succeeded, DaemonTypeOK
    <2> QED BY <2>1, <2>2
  <1>3. ASSUME NEW e \in Daemons, daemons'[e].at \in {"worked", "marked"}
        PROVE  worked'[daemons'[e].msg] >= 1
    <2>1. CASE daemons'[e] = daemons[e]
      BY <1>1, <1>3, <2>1, KindOf DEF Succeeded, DaemonTypeOK
    <2>2. CASE daemons'[e] # daemons[e]
      <3>1. e = d
        BY <2>2 DEF Acts, Proceed, Load, EnterLoop, PollTick, SeeStopped, MarkProcessed, Handle,
                    AckWorked, AckUnworked, Begin, HandleFails, Die, CheckFails, Move, DaemonTypeOK
      <3>2. /\ Off.at = "off" /\ Loaded.at = "loaded" /\ (\A b : Between(b).at = "between")
            /\ \A s, m, b : With(s, m, b).at = s /\ With(s, m, b).msg = m
        BY DEF Off, Loaded, Between, With
      <3>3. Handle(d) \/ MarkProcessed(d)
        BY <1>3, <3>1, <3>2 DEF Acts, Proceed, Load, EnterLoop, PollTick, SeeStopped,
                    AckWorked, AckUnworked, Begin, HandleFails, Die, CheckFails, Move, DaemonTypeOK
      <3>4. daemons[d].msg \in Msgs /\ daemons'[d].msg = daemons[d].msg
        BY <3>2, <3>3, KindOf DEF Handle, MarkProcessed, Move, DaemonTypeOK
      <3>5. CASE Handle(d)
        BY <3>1, <3>4, <3>5 DEF Handle, DaemonTypeOK
      <3>6. CASE MarkProcessed(d)
        BY <1>1, <3>1, <3>4, <3>6 DEF MarkProcessed, Succeeded, DaemonTypeOK
      <3> QED BY <3>3, <3>5, <3>6
    <2> QED BY <2>1, <2>2
  <1>4. ASSUME NEW m \in Msgs, rows'[m].at = "unsent"
        PROVE  worked'[m] = 0 /\ ~rows'[m].stale
    <2>1. rows[m].at = "unsent" /\ rows'[m].stale = rows[m].stale
      BY <1>4, RowsGoOn
    <2>2. worked[m] = 0 /\ ~rows[m].stale
      BY <2>1 DEF Succeeded
    <2>3. worked'[m] = worked[m]
      <3>1. CASE Handle(d)
        <4>1. daemons[d].msg \in Held(daemons[d])
          BY <3>1 DEF Handle, Held
        <4>2. m # daemons[d].msg
          BY <2>1, <4>1 DEF Apart
        <4> QED BY <3>1, <4>2 DEF Handle, DaemonTypeOK
      <3>2. CASE ~Handle(d)
        BY <3>2 DEF Acts, Proceed, Load, EnterLoop, PollTick, SeeStopped, MarkProcessed,
                    AckWorked, AckUnworked, Begin, HandleFails, Die, CheckFails
      <3> QED BY <3>1, <3>2
    <2> QED BY <2>1, <2>2, <2>3
  <1> QED BY <1>2, <1>3, <1>4 DEF Succeeded
-----------------------------------------------------------------------------
\* The environment works nothing and holds nothing.
LEMMA OutsideKeeps ==
  ASSUME DInv, Outside
  PROVE  Apart' /\ Succeeded' /\ Accounted'
  <1>1. /\ daemons' = daemons /\ processed' = processed /\ worked' = worked
        /\ unmarked' = unmarked /\ overlaps' = overlaps
    BY DEF Outside, SendTo, GoStale, PassTime, StopAgent, StartAgent
  <1>2. \A m \in Msgs : /\ rows[m].at # "unsent" => rows'[m].at # "unsent"
                        /\ rows'[m].at = "unsent" => rows[m].at = "unsent" /\ rows'[m].stale = rows[m].stale
    <2>1. rows \in [Msgs -> Row] /\ \A m \in Msgs : rows[m] \in Row
      BY DEF DInv, DaemonTypeOK
    <2>2. ASSUME NEW n \in Msgs, SendTo(n) \/ GoStale(n), NEW m \in Msgs
          PROVE  /\ rows[m].at # "unsent" => rows'[m].at # "unsent"
                 /\ rows'[m].at = "unsent" => rows[m].at = "unsent" /\ rows'[m].stale = rows[m].stale
      BY <2>1, <2>2 DEF SendTo, GoStale, Row
    <2>3. ASSUME PassTime, NEW m \in Msgs
          PROVE  rows'[m].at = rows[m].at /\ rows'[m].stale = rows[m].stale
      <3>1. rows'[m] = IF rows[m].at = "here" /\ rows[m].hidden > 0
                       THEN [rows[m] EXCEPT !.hidden = @ - 1] ELSE rows[m]
        BY <2>3 DEF PassTime
      <3> QED BY <2>1, <3>1 DEF Row
    <2>4. ASSUME StopAgent \/ StartAgent
          PROVE  rows' = rows
      BY <2>4 DEF StopAgent, StartAgent
    <2> QED BY <2>2, <2>3, <2>4 DEF Outside
  <1>3. Apart'
    <2>1. \A d \in Daemons : \A m \in Held(daemons[d]) : m \in Msgs /\ rows'[m].at # "unsent"
      BY <1>2 DEF DInv, Apart
    <2> QED BY <1>1, <2>1 DEF DInv, Apart, Held, InHand
  <1>4. Succeeded'
    BY <1>1, <1>2 DEF DInv, Succeeded
  <1>5. Accounted'
    BY <1>1 DEF DInv, Accounted, Account, PendingAt, WorkingAt, OpenAt, Pending, Working, Open, One
  <1> QED BY <1>3, <1>4, <1>5

LEMMA InitDInv == DaemonInit => DInv
  <1> SUFFICES ASSUME DaemonInit PROVE DInv
    OBVIOUS
  <1>1. DaemonTypeOK
    BY InitType
  <1>2. \A d \in Daemons : daemons[d] = Off /\ Held(daemons[d]) = {} /\ daemons[d] \notin InHand
    BY DEF DaemonInit, Off, Held, InHand
  <1>3. Apart
    BY <1>2 DEF Apart
  <1>4. Succeeded
    BY <1>2 DEF DaemonInit, Succeeded, Off
  <1>5. ASSUME NEW m \in Msgs
        PROVE  Account(m)
    <2>1. PendingAt(m) = {}
      BY <1>2 DEF PendingAt, Pending, Working, Off
    <2>2. Cardinality(PendingAt(m)) = 0
      BY <2>1, FS_EmptySet
    <2> QED BY <2>2 DEF DaemonInit, Account, One
  <1> QED BY <1>1, <1>3, <1>4, <1>5 DEF DInv, Accounted

LEMMA NextDInv == DInv /\ [DaemonNext]_daemonVars => DInv'
  <1> SUFFICES ASSUME DInv, [DaemonNext]_daemonVars PROVE DInv'
    OBVIOUS
  <1>1. CASE Outside
    BY <1>1, OutsideType, OutsideKeeps DEF DInv
  <1>2. ASSUME NEW d \in Daemons, Acts(d)
        PROVE  DInv'
    <2>1. DaemonTypeOK'
      BY <1>2, ActsType DEF DInv
    <2>2. Accounted'
      BY <1>2, <2>1, ActsAccounted DEF Accounted
    <2> QED BY <1>2, <2>1, <2>2, ActsApart, ActsSucceeded DEF DInv
  <1>3. CASE UNCHANGED daemonVars
    BY <1>3 DEF daemonVars, DInv, DaemonTypeOK, Apart, Held, InHand, Succeeded, Accounted, Account,
                PendingAt, WorkingAt, OpenAt, Pending, Working, Open, One
  <1> QED BY <1>1, <1>2, <1>3 DEF DaemonNext, Outside, Acts

\* DInv is invariant.
THEOREM DaemonInductive == DaemonSpec => []DInv
BY InitDInv, NextDInv, PTL DEF DaemonSpec

\* A handler gets a message again only for a success that was never marked or a
\* poll that took it while it was in another batch: failed Acks do not bring it back.
THEOREM WorkedAgainForCause == DaemonSpec => []RepeatsHaveCauses
  <1>1. DInv => RepeatsHaveCauses
    <2> SUFFICES ASSUME DInv, NEW m \in Msgs
                 PROVE  worked[m] <= 1 + unmarked[m] + overlaps[m]
      BY DEF RepeatsHaveCauses
    <2>1. Account(m) /\ Counted(m)
      BY CountedAlways DEF DInv, Accounted
    <2>2. IsFiniteSet(PendingAt(m)) /\ IsFiniteSet(WorkingAt(m))
      BY DaemonAssumption, FS_Subset DEF PendingAt, WorkingAt
    <2>3. Cardinality(PendingAt(m)) \in Nat /\ Cardinality(WorkingAt(m)) \in Nat
      BY <2>2, FS_CardinalityType
    <2> QED BY <2>1, <2>3 DEF Account, Counted, One
  <1> QED BY <1>1, DaemonInductive, PTL
-----------------------------------------------------------------------------
(* The rows implement Delivery: a message moves when it is sent, worked for *)
(* the first time, expired or deleted; every other step moves none.         *)
StageOf(m) ==
  CASE rows[m].at = "unsent" -> "unsent"
    [] rows[m].at = "gone" -> "removed"
    [] rows[m].at = "here" /\ (worked[m] > 0 \/ rows[m].stale) -> "completed"
    [] OTHER -> "pending"

Same(m) == rows'[m].at = rows[m].at /\ rows'[m].stale = rows[m].stale /\ worked'[m] = worked[m]

LEMMA SameStage ==
  ASSUME NEW m \in Msgs, Same(m)
  PROVE  StageOf(m)' = StageOf(m)
  BY DEF Same, StageOf

\* Only m may have moved.
LEMMA OneMoves ==
  ASSUME NEW m \in Msgs, \A n \in Msgs \ {m} : Same(n),
         \/ StageOf(m)' = StageOf(m)
         \/ StageOf(m) = "unsent" /\ StageOf(m)' = "pending"
         \/ StageOf(m) = "pending" /\ StageOf(m)' = "completed"
         \/ StageOf(m) = "completed" /\ StageOf(m)' = "removed"
  PROVE  [D!Next]_DaemonStage
  <1>1. /\ DaemonStage \in [Msgs -> {"unsent", "pending", "completed", "removed"}]
        /\ \A n \in Msgs : DaemonStage[n] = StageOf(n)
    BY DEF DaemonStage, StageOf
  <1>2. \A n \in Msgs : DaemonStage'[n] = StageOf(n)'
    BY DEF DaemonStage, StageOf
  <1>3. DaemonStage' = [DaemonStage EXCEPT ![m] = StageOf(m)']
    <2>1. \A n \in Msgs \ {m} : StageOf(n)' = StageOf(n)
      BY SameStage
    <2>2. DOMAIN DaemonStage' = Msgs /\ DaemonStage' = [n \in Msgs |-> DaemonStage'[n]]
      BY DEF DaemonStage
    <2> QED BY <1>1, <1>2, <2>1, <2>2
  <1>4. CASE StageOf(m)' = StageOf(m)
    BY <1>1, <1>3, <1>4
  <1>5. CASE StageOf(m)' # StageOf(m)
    BY <1>1, <1>3, <1>5 DEF D!Next, D!Send, D!Complete, D!Remove, D!Move
  <1> QED BY <1>4, <1>5

LEMMA NoneMoves ==
  ASSUME \A m \in Msgs : Same(m)
  PROVE  UNCHANGED DaemonStage
  BY DEF Same, DaemonStage
LEMMA ActsDeliver ==
  ASSUME DInv, NEW d \in Daemons, Acts(d)
  PROVE  [D!Next]_DaemonStage
  <1> USE DEF DInv
  <1>1. rows \in [Msgs -> Row] /\ worked \in [Msgs -> Nat] /\ \A m \in Msgs : rows[m] \in Row
    BY DEF DaemonTypeOK
  \* A delete is of a message that was worked or has expired; it may be gone already.
  <1>2. ASSUME NEW n \in Msgs, Delete(n) \/ UNCHANGED rows, worked' = worked,
               worked[n] > 0 \/ rows[n].stale, rows[n].at # "unsent"
        PROVE  [D!Next]_DaemonStage
    <2>1. \A m \in Msgs \ {n} : Same(m)
      BY <1>1, <1>2 DEF Delete, Same, Row
    <2>2. rows'[n].at \in {rows[n].at, "gone"} /\ rows'[n].stale = rows[n].stale
      <3>1. CASE UNCHANGED rows
        BY <3>1
      <3>2. CASE Delete(n)
        <4>1. rows'[n] = [rows[n] EXCEPT !.at = "gone", !.hidden = 0] /\ rows[n] \in Row
          BY <1>1, <3>2 DEF Delete
        <4> QED BY <4>1 DEF Row
      <3> QED BY <1>2, <3>1, <3>2
    <2>3. rows[n].at \in {"here", "gone"}
      BY <1>1, <1>2 DEF Row
    <2>4. StageOf(n)' = StageOf(n) \/ (StageOf(n) = "completed" /\ StageOf(n)' = "removed")
      BY <1>2, <2>2, <2>3 DEF StageOf
    <2> QED BY <2>1, <2>4, OneMoves
  <1>3. ASSUME NEW n \in Msgs, NEW ticks, HideFor(n, ticks) \/ UNCHANGED rows, worked' = worked
        PROVE  [D!Next]_DaemonStage
    <2>1. \A m \in Msgs : Same(m)
      BY <1>1, <1>3 DEF HideFor, Same, Row
    <2> QED BY <2>1, NoneMoves
  <1>4. CASE PollTick(d)
    <2>1. PICK b : Take(b)
      BY <1>4 DEF PollTick
    <2>2. ASSUME NEW m \in Msgs
          PROVE  Same(m)
      <3>1. rows'[m] = IF m \in b
                       THEN [rows[m] EXCEPT !.hidden = LeaseTicks, !.attempt = @ + 1] ELSE rows[m]
        BY <2>1 DEF Take
      <3> QED BY <1>1, <1>4, <3>1 DEF PollTick, Same, Row
    <2> QED BY <2>2, NoneMoves
  <1>5. ASSUME NEW n \in Msgs, CheckFails(d, n)
        PROVE  [D!Next]_DaemonStage
    BY <1>3, <1>5 DEF CheckFails
  <1>6. ASSUME NEW n \in Msgs, AckUnworked(d, n)
        PROVE  [D!Next]_DaemonStage
    <2>1. n \in Held(daemons[d]) /\ (n \in processed \/ rows[n].stale)
      BY <1>6 DEF AckUnworked, Upcoming, Held
    <2>2. (worked[n] > 0 \/ rows[n].stale) /\ rows[n].at # "unsent"
      BY <1>1, <2>1 DEF Succeeded, Apart
    <2> QED BY <1>2, <1>6, <2>2 DEF AckUnworked, Try
  <1>7. CASE AckWorked(d)
    <2>1. daemons[d].msg \in Msgs /\ daemons[d].msg \in Held(daemons[d]) /\ daemons[d].at = "marked"
      BY <1>7, KindOf DEF AckWorked, Held
    <2>2. worked[daemons[d].msg] > 0 /\ rows[daemons[d].msg].at # "unsent"
      BY <1>1, <2>1 DEF Succeeded, Apart
    <2> QED BY <1>2, <1>7, <2>1, <2>2 DEF AckWorked, Try
  <1>8. CASE HandleFails(d)
    <2>1. daemons[d].msg \in Msgs
      BY <1>8, KindOf DEF HandleFails
    <2> QED BY <1>3, <1>8, <2>1 DEF HandleFails, Try
  <1>9. CASE Handle(d)
    <2>1. PICK n \in Msgs : /\ n = daemons[d].msg /\ n \in Held(daemons[d])
                            /\ rows' = rows /\ worked' = [worked EXCEPT ![n] = @ + 1]
      BY <1>9, KindOf DEF Handle, Held
    <2>2. \A m \in Msgs \ {n} : Same(m)
      BY <1>1, <2>1 DEF Same
    <2>3. rows[n].at \in {"here", "gone"} /\ worked'[n] > 0
      BY <1>1, <2>1 DEF Apart, Row
    <2>4. StageOf(n)' = StageOf(n) \/ (StageOf(n) = "pending" /\ StageOf(n)' = "completed")
      BY <2>1, <2>3 DEF StageOf
    <2> QED BY <2>2, <2>4, OneMoves
  <1>10. CASE \/ Load(d) \/ EnterLoop(d) \/ SeeStopped(d) \/ MarkProcessed(d) \/ Die(d)
              \/ \E n \in Msgs : Begin(d, n)
    <2>1. rows' = rows /\ worked' = worked
      BY <1>10 DEF Load, EnterLoop, SeeStopped, MarkProcessed, Die, Begin
    <2> QED BY <2>1, NoneMoves DEF Same
  <1> QED BY <1>4, <1>5, <1>6, <1>7, <1>8, <1>9, <1>10 DEF Acts, Proceed

LEMMA OutsideDelivers ==
  ASSUME DInv, Outside
  PROVE  [D!Next]_DaemonStage
  <1> USE DEF DInv
  <1>1. rows \in [Msgs -> Row] /\ worked \in [Msgs -> Nat] /\ \A m \in Msgs : rows[m] \in Row
    BY DEF DaemonTypeOK
  <1>2. ASSUME NEW n \in Msgs, SendTo(n)
        PROVE  [D!Next]_DaemonStage
    <2>1. \A m \in Msgs \ {n} : Same(m)
      BY <1>1, <1>2 DEF SendTo, Same
    <2>2. rows[n].at = "unsent" /\ rows'[n].at = "here" /\ rows'[n].stale = rows[n].stale
          /\ worked'[n] = worked[n]
      BY <1>1, <1>2 DEF SendTo, Row
    <2>3. StageOf(n) = "unsent" /\ StageOf(n)' = "pending"
      BY <2>2 DEF StageOf, Succeeded
    <2> QED BY <2>1, <2>3, OneMoves
  <1>3. ASSUME NEW n \in Msgs, GoStale(n)
        PROVE  [D!Next]_DaemonStage
    <2>1. \A m \in Msgs \ {n} : Same(m)
      BY <1>1, <1>3 DEF GoStale, Same
    <2>2. rows[n].at \in {"here", "gone"} /\ rows'[n].at = rows[n].at /\ rows'[n].stale = TRUE
      BY <1>1, <1>3 DEF GoStale, Row
    <2>3. StageOf(n)' = StageOf(n) \/ (StageOf(n) = "pending" /\ StageOf(n)' = "completed")
      BY <2>2 DEF StageOf
    <2> QED BY <2>1, <2>3, OneMoves
  <1>4. CASE PassTime
    <2>1. ASSUME NEW m \in Msgs
          PROVE  Same(m)
      <3>1. rows'[m] = IF rows[m].at = "here" /\ rows[m].hidden > 0
                       THEN [rows[m] EXCEPT !.hidden = @ - 1] ELSE rows[m]
        BY <1>4 DEF PassTime
      <3> QED BY <1>1, <1>4, <3>1 DEF PassTime, Same, Row
    <2> QED BY <2>1, NoneMoves
  <1>5. CASE StopAgent \/ StartAgent
    BY <1>5, NoneMoves DEF StopAgent, StartAgent, Same
  <1> QED BY <1>2, <1>3, <1>4, <1>5 DEF Outside

\* At-least-once delivery: with any number of processes, crashes and failed store
\* calls, nothing is deleted that no handler succeeded with, unless it expired.
THEOREM DaemonAtLeastOnce == DaemonSpec => DaemonDelivers
  <1>1. DaemonInit => D!Init
    BY DEF DaemonInit, D!Init, DaemonStage
  <1>2. DInv /\ [DaemonNext]_daemonVars => [D!Next]_DaemonStage
    <2>1. ASSUME UNCHANGED daemonVars
          PROVE  UNCHANGED DaemonStage
      BY <2>1, NoneMoves DEF daemonVars, Same
    <2> QED BY <2>1, ActsDeliver, OutsideDelivers DEF DaemonNext, Outside, Acts
  <1> QED BY <1>1, <1>2, DaemonInductive, PTL DEF DaemonSpec, DaemonDelivers, D!Spec
=============================================================================
