----------------------- MODULE RoomMembershipProofs -----------------------
(***************************************************************************)
(* Proofs that the room manager's index and rows stay in step, that the    *)
(* broker implements Memberships over any number of restarts, and what its *)
(* writes to the store come to: who stays bound to an ended session, when  *)
(* a row differs from memory, what a DeleteSession leaves behind.  For any *)
(* rooms, agents, sessions and clients, and any store failures.            *)
(***************************************************************************)
EXTENDS RoomMembership, TLAPS

\* Nothing is known of a membership before it begins, and only memberships
\* that began are on their way to the store.
Begun ==
  /\ \A m \in MemberIds : m > joins => members[m] = NoMember /\ rows[m] = NoMember
  /\ \A c \in Clients : calls[c].at = "save" => calls[c].id <= joins
  /\ detaching # Free => members[detaching.id] # NoMember

\* No call, no detach and no registered session outlives the broker it was of.
OnlyWhileUp ==
  status # "up" =>
    /\ \A c \in Clients : calls[c] = Idle
    /\ registered = {} /\ detachers = {} /\ detaching = Free

\* The partial unique indexes of the store.
RowsUnique ==
  \A m, n \in MemberIds :
    RowActive(m) /\ RowActive(n) /\ Clash(rows[m], rows[n]) => m = n

\* The inductive invariant.
Inv == TypeOK /\ Begun /\ OnlyWhileUp /\ RowsUnique /\ IndexInStep
-----------------------------------------------------------------------------
(* A row that is there is a member.                                        *)
LEMMA Fields ==
  ASSUME TypeOK, NEW m \in MemberIds
  PROVE  /\ members[m] # NoMember =>
              /\ members[m] \in Member /\ members[m].room \in Rooms
              /\ members[m].agent \in Agents /\ members[m].session \in Sessions
              /\ members[m].active \in BOOLEAN
         /\ rows[m] # NoMember =>
              /\ rows[m] \in Member /\ rows[m].room \in Rooms
              /\ rows[m].agent \in Agents /\ rows[m].session \in Sessions
              /\ rows[m].active \in BOOLEAN
<1>1. members[m] # NoMember => members[m] \in Member
  BY DEF TypeOK
<1>2. rows[m] # NoMember => rows[m] \in Member
  BY DEF TypeOK
<1> QED
  BY <1>1, <1>2 DEF Member

(* What a call remembers.                                                  *)
LEMMA Remembered ==
  ASSUME TypeOK, NEW c \in Clients
  PROVE  /\ calls[c].at = "bind" => calls[c] # Idle /\ calls[c].member \in Binding
         /\ calls[c].at = "save" =>
              calls[c] # Idle /\ calls[c].id \in MemberIds /\ calls[c].member \in Member
<1>1. calls[c] \in CallStates
  BY DEF TypeOK
<1> QED
  BY <1>1 DEF CallStates, Idle

(* A member with its end stamped is still that member.                     *)
LEMMA EndedMember ==
  ASSUME TypeOK, NEW m \in MemberIds, members[m] # NoMember
  PROVE  LET ended == [members[m] EXCEPT !.active = FALSE] IN
         /\ ended \in Member /\ ended # NoMember /\ ~ended.active
         /\ ended.session = members[m].session
<1>1. members[m] \in Member
  BY DEF TypeOK
<1>2. [members[m] EXCEPT !.active = FALSE] \in Member
  BY <1>1 DEF Member
<1> QED
  BY <1>1, <1>2, NoMemberAssumption DEF Member

(* An active member's session is bound, and to nobody else.                *)
LEMMA ActiveIsBound ==
  ASSUME TypeOK, IndexInStep, NEW m \in MemberIds, IsActive(m)
  PROVE  /\ boundTo[members[m].session] = members[m].room
         /\ boundTo[members[m].session] # NoRoom
         /\ \A n \in MemberIds :
              IsActive(n) /\ members[n].session = members[m].session => n = m
<1>1. members[m].room \in Rooms
  BY Fields DEF IsActive
<1> QED
  BY <1>1, RoomMembershipAssumption DEF IndexInStep, Clash
-----------------------------------------------------------------------------
(* Saving the row of a membership that began keeps the store well formed.  *)
LEMMA SaveKeeps ==
  ASSUME Inv, NEW m \in MemberIds, NEW value \in Member, m <= joins, joins' = joins, Save(m, value)
  PROVE  /\ rows' \in [MemberIds -> Member \cup {NoMember}]
         /\ \A n \in MemberIds : n > joins => rows'[n] = NoMember
         /\ RowsUnique'
         /\ mishaps' \subseteq Mishaps \X MemberIds
<1>0. mishaps' \subseteq Mishaps \X MemberIds
  BY DEF Save, Upsert, NotSaved, Mishaps, Inv, TypeOK
<1>1. rows \in [MemberIds -> Member \cup {NoMember}]
  BY DEF Inv, TypeOK
<1>2. CASE rows' = rows
  BY <1>0, <1>1, <1>2 DEF Inv, Begun, RowsUnique, RowActive
<1>3. CASE ~Refused(m, value) /\ rows' = [rows EXCEPT ![m] = value]
  <2>1. rows'[m] = value /\ \A n \in MemberIds \ {m} : rows'[n] = rows[n]
    BY <1>1, <1>3
  <2>2. rows' \in [MemberIds -> Member \cup {NoMember}]
    BY <1>1, <1>3
  <2>3. \A n \in MemberIds : n > joins => n # m
    BY DEF Inv, TypeOK, MemberIds
  <2>4. \A n \in MemberIds : n > joins => rows'[n] = NoMember
    BY <2>1, <2>3 DEF Inv, Begun
  <2>5. ASSUME NEW n \in MemberIds \ {m}, RowActive(n)', RowActive(m)'
        PROVE  ~Clash(rows'[n], rows'[m]) /\ ~Clash(rows'[m], rows'[n])
    BY <1>3, <2>1, <2>5 DEF Refused, RowActive, Clash
  <2>6. ASSUME NEW n \in MemberIds, NEW k \in MemberIds,
               RowActive(n)', RowActive(k)', Clash(rows'[n], rows'[k])
        PROVE  n = k
    <3>1. CASE n = m \/ k = m
      BY <2>5, <2>6, <3>1
    <3>2. CASE n # m /\ k # m
      <4>1. RowActive(n) /\ RowActive(k) /\ Clash(rows[n], rows[k])
        BY <2>1, <2>6, <3>2 DEF RowActive
      <4> QED
        BY <4>1 DEF Inv, RowsUnique
    <3> QED
      BY <3>1, <3>2
  <2>7. RowsUnique'
    BY <2>6 DEF RowsUnique
  <2> QED
    BY <1>0, <2>2, <2>4, <2>7
<1> QED
  BY <1>0, <1>2, <1>3 DEF Save, Upsert, NotSaved

(* Ending an active membership clears its session and no other.            *)
LEMMA EndKeeps ==
  ASSUME Inv, NEW m \in MemberIds, IsActive(m), EndMember(m)
  PROVE  /\ members' \in [MemberIds -> Member \cup {NoMember}]
         /\ boundTo' \in [Sessions -> Rooms \cup {NoRoom}]
         /\ members'[m] = [members[m] EXCEPT !.active = FALSE]
         /\ members'[m] # NoMember /\ ~IsActive(m)'
         /\ \A n \in MemberIds \ {m} : members'[n] = members[n]
         /\ IndexInStep'
<1>1. /\ members' = [members EXCEPT ![m] = [@ EXCEPT !.active = FALSE]]
      /\ boundTo' = [boundTo EXCEPT ![members[m].session] = NoRoom]
  BY DEF EndMember
<1>2. /\ members \in [MemberIds -> Member \cup {NoMember}]
      /\ boundTo \in [Sessions -> Rooms \cup {NoRoom}]
      /\ members[m] # NoMember /\ members[m].session \in Sessions
  BY Fields DEF Inv, TypeOK, IsActive
<1>3. /\ members'[m] = [members[m] EXCEPT !.active = FALSE]
      /\ \A n \in MemberIds \ {m} : members'[n] = members[n]
  BY <1>1, <1>2
<1>4. /\ members'[m] \in Member /\ members'[m] # NoMember /\ ~members'[m].active
  BY <1>2, <1>3, EndedMember DEF Inv
<1>5. /\ boundTo'[members[m].session] = NoRoom
      /\ \A s \in Sessions \ {members[m].session} : boundTo'[s] = boundTo[s]
  BY <1>1, <1>2
<1>6. ~IsActive(m)'
  BY <1>4 DEF IsActive
<1>7. \A n \in MemberIds : IsActive(n)' <=> IsActive(n) /\ n # m
  BY <1>3, <1>6 DEF IsActive
<1>8. ASSUME NEW n \in MemberIds, IsActive(n)'
      PROVE  boundTo'[members'[n].session] = members'[n].room
  <2>1. IsActive(n) /\ n # m /\ members'[n] = members[n]
    BY <1>3, <1>7, <1>8
  <2>2. members[n].session # members[m].session
    BY <2>1, ActiveIsBound DEF Inv
  <2>3. members[n].session \in Sessions
    BY <2>1, Fields DEF Inv, IsActive
  <2>4. boundTo[members[n].session] = members[n].room
    BY <2>1, ActiveIsBound DEF Inv
  <2> QED
    BY <1>5, <2>1, <2>2, <2>3, <2>4
<1>9. ASSUME NEW s \in Sessions, boundTo'[s] # NoRoom
      PROVE  \E n \in MemberIds : IsActive(n)' /\ members'[n].session = s
  <2>1. s # members[m].session /\ boundTo[s] # NoRoom
    BY <1>5, <1>9
  <2>2. PICK n \in MemberIds : IsActive(n) /\ members[n].session = s
    BY <2>1 DEF Inv, IndexInStep
  <2>3. n # m
    BY <2>1, <2>2
  <2> QED
    BY <1>3, <1>7, <2>2, <2>3
<1>10. ASSUME NEW n \in MemberIds, NEW k \in MemberIds,
              IsActive(n)', IsActive(k)', Clash(members'[n], members'[k])
       PROVE  n = k
  <2>1. IsActive(n) /\ IsActive(k) /\ members'[n] = members[n] /\ members'[k] = members[k]
    BY <1>3, <1>7, <1>10
  <2> QED
    BY <1>10, <2>1 DEF Inv, IndexInStep
<1>11. IndexInStep'
  BY <1>8, <1>9, <1>10 DEF IndexInStep
<1>12. /\ members' \in [MemberIds -> Member \cup {NoMember}]
       /\ boundTo' \in [Sessions -> Rooms \cup {NoRoom}]
  BY <1>1, <1>2, <1>3, <1>4
<1> QED
  BY <1>3, <1>4, <1>6, <1>11, <1>12

(* A new membership clashes with no active one.                            *)
LEMMA JoinKeeps ==
  ASSUME Inv, NEW c \in Clients, JoinBind(c)
  PROVE  \E m \in MemberIds :
         /\ m = joins + 1 /\ joins' = m /\ members[m] = NoMember
         /\ members' \in [MemberIds -> Member \cup {NoMember}]
         /\ boundTo' \in [Sessions -> Rooms \cup {NoRoom}]
         /\ members'[m] = [room |-> calls[c].member.room, agent |-> calls[c].member.agent,
                           session |-> calls[c].member.session, active |-> TRUE]
         /\ members'[m] \in Member /\ members'[m] # NoMember /\ IsActive(m)'
         /\ \A n \in MemberIds \ {m} : members'[n] = members[n]
         /\ \A n \in MemberIds : IsActive(n) => n # m /\ ~Clash(members[n], members'[m])
         /\ IndexInStep'
<1>0. joins < MaxJoins /\ joins \in Nat /\ MaxJoins \in Nat
  BY RoomMembershipAssumption DEF Inv, TypeOK, JoinBind
<1>m. PICK m \in MemberIds : m = joins + 1
  BY <1>0 DEF MemberIds
<1> DEFINE b == calls[c].member
           new == [room |-> b.room, agent |-> b.agent, session |-> b.session, active |-> TRUE]
<1>1. /\ calls[c].at = "bind" /\ CanBind(b) /\ joins < MaxJoins /\ joins' = m
      /\ members' = [members EXCEPT ![m] = new]
      /\ boundTo' = [boundTo EXCEPT ![b.session] = b.room]
  BY <1>m DEF JoinBind
<1>2. /\ joins \in Nat /\ MaxJoins \in Nat
      /\ members \in [MemberIds -> Member \cup {NoMember}]
      /\ boundTo \in [Sessions -> Rooms \cup {NoRoom}]
  BY RoomMembershipAssumption DEF Inv, TypeOK
<1>3. m \in MemberIds /\ m > joins
  BY <1>m, <1>2
<1>4. members[m] = NoMember
  BY <1>3 DEF Inv, Begun
<1>5. b \in Binding
  BY <1>1, Remembered DEF Inv
<1>6. /\ b.room \in Rooms /\ b.agent \in Agents /\ b.session \in Sessions
      /\ new \in Member /\ new # NoMember
  <2>1. b.room \in Rooms /\ b.agent \in Agents /\ b.session \in Sessions
    BY <1>5 DEF Binding
  <2>2. new \in Member
    BY <2>1 DEF Member
  <2> QED
    BY <2>1, <2>2, NoMemberAssumption
<1>7. members'[m] = new /\ \A n \in MemberIds \ {m} : members'[n] = members[n]
  BY <1>1, <1>2, <1>3
<1>8. boundTo'[b.session] = b.room /\ \A s \in Sessions \ {b.session} : boundTo'[s] = boundTo[s]
  BY <1>1, <1>2, <1>6
<1>9. IsActive(m)'
  BY <1>6, <1>7 DEF IsActive
<1>10. \A n \in MemberIds : IsActive(n)' <=> IsActive(n) \/ n = m
  BY <1>7, <1>9 DEF IsActive
<1>11. ASSUME NEW n \in MemberIds, IsActive(n)
       PROVE  /\ n # m /\ members[n].session # b.session
              /\ ~(members[n].room = b.room /\ members[n].agent = b.agent)
  <2>1. n # m
    BY <1>4, <1>11 DEF IsActive
  <2>2. boundTo[members[n].session] # NoRoom
    BY <1>11, ActiveIsBound DEF Inv
  <2>3. boundTo[b.session] = NoRoom
    BY <1>1 DEF CanBind
  <2> QED
    BY <1>1, <1>11, <2>1, <2>2, <2>3 DEF CanBind
<1>12. ASSUME NEW n \in MemberIds, IsActive(n)
       PROVE  ~Clash(members[n], new) /\ ~Clash(new, members[n])
  <2>1. /\ members[n].session # b.session
        /\ ~(members[n].room = b.room /\ members[n].agent = b.agent)
    BY <1>11, <1>12
  <2>2. new.session = b.session /\ new.room = b.room /\ new.agent = b.agent
    OBVIOUS
  <2> QED
    BY <2>1, <2>2 DEF Clash
<1>13. ASSUME NEW n \in MemberIds, IsActive(n)'
       PROVE  boundTo'[members'[n].session] = members'[n].room
  <2>1. CASE n = m
    BY <1>7, <1>8, <2>1
  <2>2. CASE n # m
    <3>1. IsActive(n) /\ members'[n] = members[n]
      BY <1>7, <1>10, <1>13, <2>2
    <3>2. members[n].session \in Sessions \ {b.session}
      BY <1>11, <3>1, Fields DEF Inv, IsActive
    <3>3. boundTo[members[n].session] = members[n].room
      BY <3>1, ActiveIsBound DEF Inv
    <3> QED
      BY <1>8, <3>1, <3>2, <3>3
  <2> QED
    BY <2>1, <2>2
<1>14. ASSUME NEW s \in Sessions, boundTo'[s] # NoRoom
       PROVE  \E n \in MemberIds : IsActive(n)' /\ members'[n].session = s
  <2>1. CASE s = b.session
    BY <1>3, <1>7, <1>9, <2>1
  <2>2. CASE s # b.session
    <3>1. PICK n \in MemberIds : IsActive(n) /\ members[n].session = s
      BY <1>8, <1>14, <2>2 DEF Inv, IndexInStep
    <3>2. n # m
      BY <1>11, <3>1
    <3> QED
      BY <1>7, <1>10, <3>1, <3>2
  <2> QED
    BY <2>1, <2>2
<1>15. ASSUME NEW n \in MemberIds, NEW k \in MemberIds,
              IsActive(n)', IsActive(k)', Clash(members'[n], members'[k])
       PROVE  n = k
  <2>1. CASE n # m /\ k # m
    <3>1. IsActive(n) /\ IsActive(k) /\ members'[n] = members[n] /\ members'[k] = members[k]
      BY <1>7, <1>10, <1>15, <2>1
    <3> QED
      BY <1>15, <3>1 DEF Inv, IndexInStep
  <2>2. CASE n = m /\ k # m
    <3>1. IsActive(k) /\ members'[k] = members[k]
      BY <1>7, <1>10, <1>15, <2>2
    <3> QED
      BY <1>7, <1>12, <1>15, <2>2, <3>1
  <2>3. CASE n # m /\ k = m
    <3>1. IsActive(n) /\ members'[n] = members[n]
      BY <1>7, <1>10, <1>15, <2>3
    <3> QED
      BY <1>7, <1>12, <1>15, <2>3, <3>1
  <2> QED
    BY <2>1, <2>2, <2>3
<1>16. IndexInStep'
  BY <1>13, <1>14, <1>15 DEF IndexInStep
<1>17. /\ members' \in [MemberIds -> Member \cup {NoMember}]
       /\ boundTo' \in [Sessions -> Rooms \cup {NoRoom}]
  BY <1>1, <1>2, <1>6
<1> QED
  BY <1>m, <1>1, <1>3, <1>4, <1>6, <1>7, <1>9, <1>11, <1>12, <1>16, <1>17
-----------------------------------------------------------------------------
(* What the store holds is fit to be memory: it was unique.                *)
LEMMA HydrateKeeps ==
  ASSUME Inv, Hydrate
  PROVE  /\ boundTo' \in [Sessions -> Rooms \cup {NoRoom}]
         /\ IndexInStep'
<1>1. /\ members' = rows
      /\ boundTo' = [s \in Sessions |->
           IF \E r \in Rooms : StoredIn(s, r) THEN CHOOSE r \in Rooms : StoredIn(s, r) ELSE NoRoom]
  BY DEF Hydrate
<1>2. \A m \in MemberIds : IsActive(m)' <=> RowActive(m)
  BY <1>1 DEF IsActive, RowActive
<1>3. ASSUME NEW s \in Sessions, \E r \in Rooms : StoredIn(s, r)
      PROVE  boundTo'[s] \in Rooms /\ StoredIn(s, boundTo'[s])
  BY <1>1, <1>3
<1>4. ASSUME NEW s \in Sessions, ~\E r \in Rooms : StoredIn(s, r)
      PROVE  boundTo'[s] = NoRoom
  BY <1>1, <1>4
<1>5. ASSUME NEW m \in MemberIds, IsActive(m)'
      PROVE  boundTo'[members'[m].session] = members'[m].room
  <2>1. RowActive(m) /\ members'[m] = rows[m] /\ rows[m].room \in Rooms /\ rows[m].session \in Sessions
    BY <1>1, <1>2, <1>5, Fields DEF Inv, RowActive
  <2>2. StoredIn(rows[m].session, rows[m].room)
    BY <2>1 DEF StoredIn
  <2>3. StoredIn(rows[m].session, boundTo'[rows[m].session])
    BY <1>3, <2>1, <2>2
  <2>4. PICK n \in MemberIds : /\ RowActive(n) /\ rows[n].session = rows[m].session
                               /\ rows[n].room = boundTo'[rows[m].session]
    BY <2>3 DEF StoredIn
  <2>5. n = m
    BY <2>1, <2>4 DEF Inv, RowsUnique, Clash
  <2> QED
    BY <2>1, <2>4, <2>5
<1>6. ASSUME NEW s \in Sessions, boundTo'[s] # NoRoom
      PROVE  \E m \in MemberIds : IsActive(m)' /\ members'[m].session = s
  <2>1. StoredIn(s, boundTo'[s])
    BY <1>3, <1>4, <1>6
  <2> QED
    BY <1>1, <1>2, <2>1 DEF StoredIn
<1>7. ASSUME NEW m \in MemberIds, NEW n \in MemberIds,
             IsActive(m)', IsActive(n)', Clash(members'[m], members'[n])
      PROVE  m = n
  BY <1>1, <1>2, <1>7 DEF Inv, RowsUnique
<1>8. boundTo' \in [Sessions -> Rooms \cup {NoRoom}]
  <2>1. \A s \in Sessions : boundTo'[s] \in Rooms \cup {NoRoom}
    BY <1>3, <1>4
  <2> QED
    BY <1>1, <2>1
<1> QED
  BY <1>5, <1>6, <1>7, <1>8 DEF IndexInStep

LEMMA InvInit == Init => Inv
<1> SUFFICES ASSUME Init PROVE Inv
  OBVIOUS
<1> USE DEF Init
<1>1. \A m \in MemberIds : ~IsActive(m) /\ ~RowActive(m)
  BY DEF IsActive, RowActive
<1>2. TypeOK
  BY RoomMembershipAssumption DEF TypeOK, CallStates
<1>3. Begun /\ OnlyWhileUp
  BY DEF Begun, OnlyWhileUp, Idle
<1>4. RowsUnique /\ IndexInStep
  BY <1>1 DEF RowsUnique, IndexInStep
<1> QED
  BY <1>2, <1>3, <1>4 DEF Inv

(* The steps that touch neither memory nor the store.                      *)
LEMMA Untouched ==
  ASSUME Inv, UNCHANGED <<memory, rows>>
  PROVE  RowsUnique' /\ IndexInStep'
BY DEF Inv, memory, RowsUnique, IndexInStep, RowActive, IsActive

(* The steps of a call.                                                    *)
LEMMA CallKeeps ==
  ASSUME Inv, NEW c \in Clients, Call(c)
  PROVE  Inv'
<1> USE DEF memory, sessionVars, detachVars
<1>1. ASSUME NEW x \in CallStates, status = "up", calls' = [calls EXCEPT ![c] = x]
      PROVE  /\ calls' \in [Clients -> CallStates]
             /\ calls'[c] = x
             /\ \A d \in Clients \ {c} : calls'[d] = calls[d]
  BY <1>1 DEF Inv, TypeOK
<1>2. Idle \in CallStates /\ Idle.at # "save"
  BY DEF CallStates, Idle
<1>3. calls[c] # Idle => status = "up"
  BY DEF Inv, OnlyWhileUp
<1>4. ASSUME NEW b \in Binding, JoinCheck(c, b)
      PROVE  Inv'
  <2>1. [at |-> "bind", member |-> b] \in CallStates
    BY DEF CallStates
  <2>2. /\ calls' \in [Clients -> CallStates]
        /\ calls'[c] = [at |-> "bind", member |-> b]
        /\ \A d \in Clients \ {c} : calls'[d] = calls[d]
    BY <1>1, <1>4, <2>1 DEF JoinCheck
  <2>3. RowsUnique' /\ IndexInStep'
    BY <1>4, Untouched DEF JoinCheck
  <2>4. TypeOK'
    BY <1>4, <2>2 DEF Inv, TypeOK, JoinCheck
  <2>5. Begun' /\ OnlyWhileUp'
    BY <1>4, <2>2 DEF Inv, Begun, OnlyWhileUp, JoinCheck
  <2> QED
    BY <2>3, <2>4, <2>5 DEF Inv
<1>5. ASSUME JoinRefused(c)
      PROVE  Inv'
  <2>1. calls[c] # Idle
    BY <1>5, Remembered DEF JoinRefused, Inv
  <2>2. /\ calls' \in [Clients -> CallStates] /\ calls'[c] = Idle
        /\ \A d \in Clients \ {c} : calls'[d] = calls[d]
    BY <1>1, <1>2, <1>3, <1>5, <2>1 DEF JoinRefused
  <2>3. RowsUnique' /\ IndexInStep'
    BY <1>5, Untouched DEF JoinRefused
  <2>4. TypeOK'
    BY <1>5, <2>2 DEF Inv, TypeOK, JoinRefused
  <2>5. Begun' /\ OnlyWhileUp'
    BY <1>2, <1>5, <2>2 DEF Inv, Begun, OnlyWhileUp, JoinRefused
  <2> QED
    BY <2>3, <2>4, <2>5 DEF Inv
<1>6. ASSUME JoinBind(c)
      PROVE  Inv'
  <2>1. PICK m \in MemberIds :
          /\ m = joins + 1 /\ joins' = m /\ members[m] = NoMember
          /\ members' \in [MemberIds -> Member \cup {NoMember}]
          /\ boundTo' \in [Sessions -> Rooms \cup {NoRoom}]
          /\ members'[m] = [room |-> calls[c].member.room, agent |-> calls[c].member.agent,
                            session |-> calls[c].member.session, active |-> TRUE]
          /\ members'[m] \in Member /\ members'[m] # NoMember /\ IsActive(m)'
          /\ \A n \in MemberIds \ {m} : members'[n] = members[n]
          /\ IndexInStep'
    BY <1>6, JoinKeeps
  <2>2. calls[c] # Idle
    BY <1>6, Remembered DEF JoinBind, Inv
  <2>3. calls' = [calls EXCEPT ![c] = [at |-> "save", id |-> m, member |-> members'[m]]]
    BY <1>6, <2>1 DEF JoinBind
  <2>4. [at |-> "save", id |-> m, member |-> members'[m]] \in CallStates
    BY <2>1 DEF CallStates
  <2>5. /\ calls' \in [Clients -> CallStates]
        /\ calls'[c] = [at |-> "save", id |-> m, member |-> members'[m]]
        /\ \A d \in Clients \ {c} : calls'[d] = calls[d]
    BY <1>1, <1>3, <2>2, <2>3, <2>4
  <2>6. joins \in Nat /\ MaxJoins \in Nat /\ m \in 0..MaxJoins
    BY RoomMembershipAssumption DEF Inv, TypeOK, MemberIds
  <2>7. /\ UNCHANGED <<status, rows, sessionVars, detachVars, crashes>>
        /\ mishaps' = mishaps \/ mishaps' = mishaps \cup {<<"late", m>>}
    BY <1>6, <2>1 DEF JoinBind
  <2>16. mishaps' \subseteq Mishaps \X MemberIds
    BY <2>7 DEF Inv, TypeOK, Mishaps
  <2>8. TypeOK'
    BY <2>1, <2>5, <2>6, <2>7, <2>16 DEF Inv, TypeOK
  <2>9. \A n \in MemberIds : n > joins' => n > joins /\ n # m
    BY <2>1, <2>6 DEF MemberIds
  <2>10. \A d \in Clients \ {c} : calls[d].at = "save" => calls[d].id <= joins'
    <3>1. \A d \in Clients \ {c} : calls[d].at = "save" => calls[d].id <= joins /\ calls[d].id \in Nat
      BY Remembered DEF Inv, Begun, MemberIds
    <3> QED
      BY <2>1, <2>6, <3>1
  <2>11. calls'[c].id <= joins'
    BY <2>1, <2>5, <2>6
  <2>12. detaching' # Free => members'[detaching'.id] # NoMember
    <3>1. detaching # Free => detaching.id \in MemberIds /\ members[detaching.id] # NoMember
      BY DEF Inv, TypeOK, Begun
    <3> QED
      BY <2>1, <2>7, <3>1
  <2>13. Begun'
    BY <2>1, <2>5, <2>7, <2>9, <2>10, <2>11, <2>12 DEF Inv, Begun
  <2>14. OnlyWhileUp'
    BY <1>3, <2>2, <2>7 DEF OnlyWhileUp
  <2>15. RowsUnique'
    BY <2>7 DEF Inv, RowsUnique, RowActive
  <2> QED
    BY <2>1, <2>8, <2>13, <2>14, <2>15 DEF Inv
<1>7. ASSUME NEW m \in MemberIds, Leave(c, m)
      PROVE  Inv'
  <2>1. IsActive(m) /\ EndMember(m) /\ status = "up"
    BY <1>7 DEF Leave
  <2>2. /\ members' \in [MemberIds -> Member \cup {NoMember}]
        /\ boundTo' \in [Sessions -> Rooms \cup {NoRoom}]
        /\ members'[m] # NoMember
        /\ \A n \in MemberIds \ {m} : members'[n] = members[n]
        /\ IndexInStep'
    BY <2>1, EndKeeps
  <2>3. [members[m] EXCEPT !.active = FALSE] \in Member
    BY <2>1, EndedMember DEF Inv, IsActive
  <2>4. [at |-> "save", id |-> m, member |-> [members[m] EXCEPT !.active = FALSE]] \in CallStates
    BY <2>3 DEF CallStates
  <2>5. /\ calls' \in [Clients -> CallStates]
        /\ calls'[c] = [at |-> "save", id |-> m, member |-> [members[m] EXCEPT !.active = FALSE]]
        /\ \A d \in Clients \ {c} : calls'[d] = calls[d]
    BY <1>1, <1>7, <2>1, <2>4 DEF Leave
  <2>6. UNCHANGED <<joins, status, rows, sessionVars, detachVars, crashes, mishaps>>
    BY <1>7 DEF Leave, EndMember
  <2>7. TypeOK'
    BY <2>2, <2>5, <2>6 DEF Inv, TypeOK
  <2>8. m <= joins
    <3>1. m \in Nat /\ joins \in Nat
      BY DEF Inv, TypeOK, MemberIds
    <3> QED
      BY <2>1, <3>1 DEF Inv, Begun, IsActive
  <2>9. calls'[c].id <= joins'
    BY <2>5, <2>6, <2>8
  <2>10. \A n \in MemberIds : n > joins' => members'[n] = NoMember /\ rows'[n] = NoMember
    <3>1. \A n \in MemberIds : n > joins => n # m
      BY <2>8 DEF Inv, TypeOK, MemberIds
    <3> QED
      BY <2>2, <2>6, <3>1 DEF Inv, Begun
  <2>11. detaching' # Free => members'[detaching'.id] # NoMember
    <3>1. detaching # Free => detaching.id \in MemberIds /\ members[detaching.id] # NoMember
      BY DEF Inv, TypeOK, Begun
    <3> QED
      BY <2>2, <2>6, <3>1
  <2>12. Begun'
    BY <2>5, <2>6, <2>9, <2>10, <2>11 DEF Inv, Begun
  <2>13. OnlyWhileUp'
    BY <2>1, <2>6 DEF OnlyWhileUp
  <2>14. RowsUnique'
    BY <2>6 DEF Inv, RowsUnique, RowActive
  <2> QED
    BY <2>2, <2>7, <2>12, <2>13, <2>14 DEF Inv
<1>8. ASSUME SaveCall(c)
      PROVE  Inv'
  <2>1. /\ calls[c] # Idle /\ calls[c].id \in MemberIds /\ calls[c].member \in Member
        /\ calls[c].id <= joins
    BY <1>8, Remembered DEF SaveCall, Inv, Begun
  <2>2. joins' = joins /\ Save(calls[c].id, calls[c].member)
    BY <1>8 DEF SaveCall
  <2>3. /\ rows' \in [MemberIds -> Member \cup {NoMember}]
        /\ \A n \in MemberIds : n > joins => rows'[n] = NoMember
        /\ RowsUnique' /\ mishaps' \subseteq Mishaps \X MemberIds
    BY <2>1, <2>2, SaveKeeps
  <2>4. /\ calls' \in [Clients -> CallStates] /\ calls'[c] = Idle
        /\ \A d \in Clients \ {c} : calls'[d] = calls[d]
    BY <1>1, <1>2, <1>3, <1>8, <2>1 DEF SaveCall
  <2>5. UNCHANGED <<status, memory, sessionVars, detachVars, crashes>>
    BY <1>8 DEF SaveCall
  <2>6. TypeOK'
    BY <2>3, <2>4, <2>5 DEF Inv, TypeOK
  <2>7. Begun' /\ OnlyWhileUp'
    BY <1>2, <2>3, <2>4, <2>5 DEF Inv, Begun, OnlyWhileUp
  <2>8. IndexInStep'
    BY <2>5 DEF Inv, IndexInStep, IsActive
  <2> QED
    BY <2>3, <2>6, <2>7, <2>8 DEF Inv
<1> QED
  BY <1>4, <1>5, <1>6, <1>7, <1>8 DEF Call
(* Sessions begin and end; their watchers and deleters detach them.        *)
LEMMA SessionKeeps ==
  ASSUME Inv, NEW s \in Sessions, SessionStep(s)
  PROVE  Inv'
<1> USE DEF memory, sessionVars, detachVars
<1>1. ASSUME CreateSession(s) \/ Exit(s) \/ Reap(s) \/ DeleteSession(s)
      PROVE  Inv'
  <2>1. /\ UNCHANGED <<status, members, boundTo, joins, rows, detaching, calls, crashes, deleted, mishaps>>
        /\ sessions' \in [Sessions -> {"new", "running", "done"}]
        /\ registered' \subseteq Sessions
        /\ detachers' \subseteq Detachers \X Sessions
    BY <1>1 DEF CreateSession, Exit, Reap, DeleteSession, Inv, TypeOK, Detachers
  <2>2. status # "up" => registered' = {} /\ detachers' = {}
    BY <1>1 DEF CreateSession, Exit, Reap, DeleteSession, Inv, OnlyWhileUp
  <2>3. TypeOK'
    BY <2>1 DEF Inv, TypeOK
  <2>4. Begun' /\ OnlyWhileUp'
    BY <2>1, <2>2 DEF Inv, Begun, OnlyWhileUp
  <2>5. RowsUnique' /\ IndexInStep'
    BY <2>1, Untouched
  <2> QED
    BY <2>3, <2>4, <2>5 DEF Inv
<1>2. ASSUME NEW who \in Detachers, Detach(who, s)
      PROVE  Inv'
  <2>1. /\ <<who, s>> \in detachers /\ detaching = Free /\ status = "up"
        /\ UNCHANGED <<status, joins, rows, sessions, registered, calls, crashes, mishaps>>
    BY <1>2 DEF Detach, EndMember, Inv, OnlyWhileUp
  <2>2. CASE boundTo[s] = NoRoom
    <3>1. UNCHANGED <<memory, detaching>> /\ Finished(who, s)
      BY <1>2, <2>2 DEF Detach
    <3>2. detachers' \subseteq Detachers \X Sessions /\ deleted' \subseteq Sessions
      BY <3>1 DEF Finished, Inv, TypeOK
    <3>3. TypeOK'
      BY <2>1, <3>1, <3>2 DEF Inv, TypeOK
    <3>4. Begun' /\ OnlyWhileUp'
      BY <2>1, <3>1 DEF Inv, Begun, OnlyWhileUp
    <3>5. RowsUnique' /\ IndexInStep'
      BY <2>1, <3>1, Untouched
    <3> QED
      BY <3>3, <3>4, <3>5 DEF Inv
  <2>3. CASE boundTo[s] # NoRoom
    <3>1. PICK m \in MemberIds :
            /\ IsActive(m) /\ EndMember(m)
            /\ detaching' = [by |-> who, session |-> s, id |-> m]
            /\ UNCHANGED <<detachers, deleted>>
      BY <1>2, <2>3 DEF Detach
    <3>2. /\ members' \in [MemberIds -> Member \cup {NoMember}]
          /\ boundTo' \in [Sessions -> Rooms \cup {NoRoom}]
          /\ members'[m] # NoMember
          /\ \A n \in MemberIds \ {m} : members'[n] = members[n]
          /\ IndexInStep'
      BY <3>1, EndKeeps
    <3>3. detaching' \in [by: Detachers, session: Sessions, id: MemberIds] /\ detaching'.id = m
      BY <3>1
    <3>4. TypeOK'
      BY <2>1, <3>1, <3>2, <3>3 DEF Inv, TypeOK
    <3>5. \A n \in MemberIds : n > joins => n # m
      BY <3>1 DEF Inv, Begun, IsActive
    <3>6. Begun'
      BY <2>1, <3>2, <3>3, <3>5 DEF Inv, Begun
    <3>7. OnlyWhileUp'
      BY <2>1 DEF OnlyWhileUp
    <3>8. RowsUnique'
      BY <2>1 DEF Inv, RowsUnique, RowActive
    <3> QED
      BY <3>2, <3>4, <3>6, <3>7, <3>8 DEF Inv
  <2> QED
    BY <2>2, <2>3
<1> QED
  BY <1>1, <1>2 DEF SessionStep

LEMMA SaveDetachedKeeps == Inv /\ SaveDetached => Inv'
<1> SUFFICES ASSUME Inv, SaveDetached PROVE Inv'
  OBVIOUS
<1> USE DEF memory, sessionVars, detachVars
<1>1. /\ detaching # Free /\ detaching' = Free /\ Finished(detaching.by, detaching.session)
      /\ Save(detaching.id, members[detaching.id])
      /\ UNCHANGED <<status, memory, sessionVars, calls, crashes>>
  BY DEF SaveDetached
<1>2. /\ detaching.id \in MemberIds /\ detaching.session \in Sessions
      /\ members[detaching.id] # NoMember
  BY <1>1 DEF Inv, TypeOK, Begun
<1>3. members[detaching.id] \in Member /\ detaching.id <= joins
  <2>1. detaching.id \in Nat /\ joins \in Nat
    BY <1>2 DEF Inv, TypeOK, MemberIds
  <2> QED
    BY <1>2, <2>1, Fields DEF Inv, Begun
<1>4. /\ rows' \in [MemberIds -> Member \cup {NoMember}]
      /\ \A n \in MemberIds : n > joins => rows'[n] = NoMember
      /\ RowsUnique' /\ mishaps' \subseteq Mishaps \X MemberIds
  BY <1>1, <1>2, <1>3, SaveKeeps
<1>5. detachers' \subseteq detachers /\ deleted' \subseteq Sessions
  BY <1>1, <1>2 DEF Finished, Inv, TypeOK
<1>6. TypeOK'
  BY <1>1, <1>4, <1>5 DEF Inv, TypeOK
<1>7. Begun' /\ OnlyWhileUp'
  BY <1>1, <1>4, <1>5 DEF Inv, Begun, OnlyWhileUp
<1>8. IndexInStep'
  BY <1>1 DEF Inv, IndexInStep, IsActive
<1> QED
  BY <1>4, <1>6, <1>7, <1>8 DEF Inv

(* The broker ends and starts again.                                       *)
LEMMA RestartKeeps ==
  ASSUME Inv, Crash \/ Hydrate \/ StampFails \/ Serve \/ \E m \in MemberIds : Stamp(m)
  PROVE  Inv'
<1> USE DEF memory, sessionVars, detachVars
<1>1. CASE Crash
  <2>1. \A m \in MemberIds : members'[m] = NoMember /\ ~IsActive(m)'
    BY <1>1 DEF Crash, Gone, IsActive
  <2>2. \A s \in Sessions : boundTo'[s] = NoRoom
    BY <1>1 DEF Crash, Gone
  <2>3. IndexInStep'
    BY <2>1, <2>2 DEF IndexInStep
  <2>4. Idle \in CallStates /\ Idle.at # "save"
    BY DEF CallStates, Idle
  <2>5. crashes' \in 0..MaxCrashes
    BY <1>1, RoomMembershipAssumption DEF Crash, Inv, TypeOK
  <2>6. /\ members' \in [MemberIds -> Member \cup {NoMember}]
        /\ boundTo' \in [Sessions -> Rooms \cup {NoRoom}]
        /\ sessions' \in [Sessions -> {"new", "running", "done"}]
    BY <1>1 DEF Crash, Gone
  <2>7. UNCHANGED <<joins, rows, deleted>> /\ status' = "down"
    BY <1>1 DEF Crash, Gone
  <2>13. mishaps' \subseteq Mishaps \X MemberIds
    BY <1>1 DEF Crash, Mishaps, Inv, TypeOK
  <2>8. registered' = {} /\ detachers' = {} /\ detaching' = Free /\ calls' = [c \in Clients |-> Idle]
    BY <1>1 DEF Crash
  <2>9. TypeOK'
    BY <2>4, <2>5, <2>6, <2>7, <2>8, <2>13 DEF Inv, TypeOK
  <2>10. Begun'
    BY <2>1, <2>4, <2>7, <2>8 DEF Inv, Begun
  <2>11. OnlyWhileUp'
    BY <2>8 DEF OnlyWhileUp
  <2>12. RowsUnique'
    BY <2>7 DEF Inv, RowsUnique, RowActive
  <2> QED
    BY <2>3, <2>9, <2>10, <2>11, <2>12 DEF Inv
<1>2. CASE Hydrate
  <2>1. boundTo' \in [Sessions -> Rooms \cup {NoRoom}] /\ IndexInStep'
    BY <1>2, HydrateKeeps
  <2>2. /\ members' = rows /\ status = "down" /\ status' = "starting"
        /\ UNCHANGED <<joins, rows, sessionVars, detachVars, calls, crashes, mishaps>>
    BY <1>2 DEF Hydrate
  <2>3. TypeOK'
    BY <2>1, <2>2 DEF Inv, TypeOK
  <2>4. Begun' /\ OnlyWhileUp'
    BY <2>2 DEF Inv, Begun, OnlyWhileUp
  <2>5. RowsUnique'
    BY <2>2 DEF Inv, RowsUnique, RowActive
  <2> QED
    BY <2>1, <2>3, <2>4, <2>5 DEF Inv
<1>3. CASE Serve
  <2>1. /\ status' = "up" /\ mishaps' = {}
        /\ UNCHANGED <<memory, rows, sessionVars, detachVars, calls, crashes>>
    BY <1>3 DEF Serve
  <2>2. TypeOK' /\ Begun' /\ OnlyWhileUp'
    BY <2>1 DEF Inv, TypeOK, Begun, OnlyWhileUp
  <2> QED
    BY <2>1, <2>2, Untouched DEF Inv
<1>4. ASSUME NEW m \in MemberIds, Stamp(m)
      PROVE  Inv'
  <2>1. /\ IsActive(m) /\ EndMember(m) /\ status = "starting"
        /\ Save(m, [members[m] EXCEPT !.active = FALSE])
        /\ UNCHANGED <<joins, status, sessionVars, detachVars, calls, crashes>>
    <3>1. ~[members[m] EXCEPT !.active = FALSE].active
      BY <1>4, EndedMember DEF Stamp, Inv, IsActive
    <3> QED
      BY <1>4, <3>1 DEF Stamp, EndMember, Save, Refused
  <2>2. /\ members' \in [MemberIds -> Member \cup {NoMember}]
        /\ boundTo' \in [Sessions -> Rooms \cup {NoRoom}]
        /\ members'[m] # NoMember
        /\ \A n \in MemberIds \ {m} : members'[n] = members[n]
        /\ IndexInStep'
    BY <2>1, EndKeeps
  <2>3. [members[m] EXCEPT !.active = FALSE] \in Member
    BY <2>1, EndedMember DEF Inv, IsActive
  <2>4. m <= joins
    <3>1. m \in Nat /\ joins \in Nat
      BY DEF Inv, TypeOK, MemberIds
    <3> QED
      BY <2>1, <3>1 DEF Inv, Begun, IsActive
  <2>5. /\ rows' \in [MemberIds -> Member \cup {NoMember}]
        /\ \A n \in MemberIds : n > joins => rows'[n] = NoMember
        /\ RowsUnique' /\ mishaps' \subseteq Mishaps \X MemberIds
    BY <2>1, <2>3, <2>4, SaveKeeps
  <2>6. \A n \in MemberIds : n > joins => n # m
    BY <2>1 DEF Inv, Begun, IsActive
  <2>7. TypeOK'
    BY <2>1, <2>2, <2>5 DEF Inv, TypeOK
  <2>8. detaching = Free
    BY <2>1 DEF Inv, OnlyWhileUp
  <2>9. Begun' /\ OnlyWhileUp'
    BY <2>1, <2>2, <2>5, <2>6, <2>8 DEF Inv, Begun, OnlyWhileUp
  <2> QED
    BY <2>2, <2>5, <2>7, <2>9 DEF Inv
<1>5. CASE StampFails
  <2>1. /\ \A m \in MemberIds : members'[m] = NoMember /\ ~IsActive(m)'
        /\ \A s \in Sessions : boundTo'[s] = NoRoom
        /\ members' \in [MemberIds -> Member \cup {NoMember}]
        /\ boundTo' \in [Sessions -> Rooms \cup {NoRoom}]
        /\ status' = "down" /\ status # "up"
        /\ UNCHANGED <<joins, rows, sessionVars, detachVars, calls, crashes, mishaps>>
    BY <1>5 DEF StampFails, Gone, IsActive
  <2>2. IndexInStep' /\ RowsUnique'
    BY <2>1 DEF IndexInStep, Inv, RowsUnique, RowActive
  <2>3. TypeOK'
    BY <2>1 DEF Inv, TypeOK
  <2>4. OnlyWhileUp' /\ Begun'
    BY <2>1 DEF Inv, OnlyWhileUp, Begun, Idle
  <2> QED
    BY <2>2, <2>3, <2>4 DEF Inv
<1> QED
  BY <1>1, <1>2, <1>3, <1>4, <1>5

LEMMA InvStep == Inv /\ [Next]_vars => Inv'
<1> SUFFICES ASSUME Inv, [Next]_vars PROVE Inv'
  OBVIOUS
<1>1. CASE UNCHANGED vars
  <2>1. TypeOK' /\ Begun' /\ OnlyWhileUp'
    BY <1>1 DEF vars, memory, sessionVars, detachVars, Inv, TypeOK, Begun, OnlyWhileUp
  <2> QED
    BY <1>1, <2>1, Untouched DEF vars, Inv
<1> QED
  BY <1>1, CallKeeps, SessionKeeps, SaveDetachedKeeps, RestartKeeps DEF Next

(* In every state memory is well formed, and so is the store it came from. *)
THEOREM Safety == Spec => []Inv
BY InvInit, InvStep, PTL DEF Spec

(* Memory, store, sessions and calls in progress keep their types.         *)
THEOREM TypeCorrect == Spec => []TypeOK
<1>1. Inv => TypeOK
  BY DEF Inv
<1> QED
  BY <1>1, Safety, PTL

(* sessionToRoom and the member rows say the same in every state.          *)
THEOREM IndexHolds == Spec => []IndexInStep
<1>1. Inv => IndexInStep
  BY DEF Inv
<1> QED
  BY <1>1, Safety, PTL
-----------------------------------------------------------------------------
(* Standing, one membership at a time.                                     *)
Stood(m) ==
  /\ m > joins => Standing[m] = [state |-> "new"]
  /\ m <= joins /\ status = "up" /\ IsActive(m) =>
       Standing[m] = [state |-> "bound",
                      to |-> [room |-> members[m].room, agent |-> members[m].agent,
                              session |-> members[m].session]]
  /\ m <= joins /\ ~(status = "up" /\ IsActive(m)) => Standing[m] = [state |-> "ended"]

LEMMA Standings == Inv => \A m \in MemberIds : Stood(m)
<1> SUFFICES ASSUME Inv, NEW m \in MemberIds
             PROVE  Stood(m)
  OBVIOUS
<1>1. m \in Nat /\ joins \in Nat
  BY DEF Inv, TypeOK, MemberIds
<1>2. m <= joins <=> ~(m > joins)
  BY <1>1
<1>3. m > joins => ~IsActive(m)
  BY DEF Inv, Begun, IsActive
<1> QED
  BY <1>2, <1>3 DEF Stood, Standing

LEMMA StandingsNext == Inv' => \A m \in MemberIds : Stood(m)'
<1>1. (Inv => \A m \in MemberIds : Stood(m))'
  BY Standings, PTL
<1> QED
  BY <1>1 DEF MemberIds

LEMMA SameStanding ==
  ASSUME \A m \in MemberIds : Standing'[m] = Standing[m]
  PROVE  Standing' = Standing
BY DEF Standing

(* A membership whose row and whose broker did not change stands as before. *)
LEMMA StandsAsBefore ==
  ASSUME Inv, Inv', NEW m \in MemberIds, joins' = joins, status' = status,
         members'[m] = members[m]
  PROVE  Standing'[m] = Standing[m]
<1>1. IsActive(m)' <=> IsActive(m)
  BY DEF IsActive
<1>2. Stood(m) /\ Stood(m)'
  BY Standings, StandingsNext
<1>3. m \in Nat /\ joins \in Nat
  BY DEF Inv, TypeOK, MemberIds
<1>4. m > joins \/ m <= joins
  BY <1>3
<1> QED
  BY <1>1, <1>2, <1>4 DEF Stood
-----------------------------------------------------------------------------
(* JoinBind is Join.                                                       *)
LEMMA JoinStands ==
  ASSUME Inv, Inv', NEW c \in Clients, JoinBind(c)
  PROVE  Promise!Next
<1>1. PICK m \in MemberIds :
        /\ m = joins + 1 /\ joins' = m /\ members[m] = NoMember
        /\ members'[m] = [room |-> calls[c].member.room, agent |-> calls[c].member.agent,
                          session |-> calls[c].member.session, active |-> TRUE]
        /\ members'[m] \in Member /\ IsActive(m)'
        /\ \A n \in MemberIds \ {m} : members'[n] = members[n]
        /\ \A n \in MemberIds : IsActive(n) => n # m /\ ~Clash(members[n], members'[m])
  BY JoinKeeps
<1>2. PICK b \in Binding : b = [room |-> members'[m].room, agent |-> members'[m].agent,
                                session |-> members'[m].session]
  <2>1. members'[m].room \in Rooms /\ members'[m].agent \in Agents /\ members'[m].session \in Sessions
    BY <1>1 DEF Member
  <2> QED
    BY <2>1 DEF Binding
<1>3. status = "up" /\ status' = "up"
  <2>1. calls[c] # Idle
    BY Remembered DEF JoinBind, Inv
  <2> QED
    BY <2>1 DEF JoinBind, Inv, OnlyWhileUp
<1>4. joins \in Nat /\ m \in Nat
  BY DEF Inv, TypeOK, MemberIds
<1>5. Standing[m] = [state |-> "new"]
  <2>1. m > joins
    BY <1>1, <1>4
  <2> QED
    BY <2>1, Standings DEF Stood
<1>6. Standing'[m] = [state |-> "bound", to |-> b]
  <2>1. m <= joins'
    BY <1>1, <1>4
  <2>2. Stood(m)'
    BY StandingsNext
  <2> QED
    BY <1>1, <1>2, <1>3, <2>1, <2>2 DEF Stood
<1>7. ASSUME NEW n \in MemberIds, n # m
      PROVE  Standing'[n] = Standing[n]
  <2>1. Stood(n) /\ Stood(n)'
    BY Standings, StandingsNext
  <2>2. members'[n] = members[n]
    BY <1>1, <1>7
  <2>3. IsActive(n)' <=> IsActive(n)
    BY <2>2 DEF IsActive
  <2>4. n \in Nat
    BY DEF MemberIds
  <2>5. (n > joins' <=> n > joins) /\ (n <= joins' <=> n <= joins) /\ (n > joins \/ n <= joins)
    BY <1>1, <1>4, <1>7, <2>4
  <2> QED
    BY <1>3, <2>1, <2>2, <2>3, <2>5 DEF Stood
<1>8. Standing' = [Standing EXCEPT ![m] = [state |-> "bound", to |-> b]]
  BY <1>6, <1>7 DEF Standing
<1>9. ASSUME NEW n \in MemberIds, Standing[n].state = "bound"
      PROVE  ~Promise!Clash(Standing[n].to, b)
  <2>1. Stood(n)
    BY Standings
  <2>2. n \in Nat
    BY DEF MemberIds
  <2>3. n <= joins /\ IsActive(n)
    BY <1>4, <1>9, <2>1, <2>2 DEF Stood
  <2>4. Standing[n].to = [room |-> members[n].room, agent |-> members[n].agent,
                          session |-> members[n].session]
    BY <1>3, <2>1, <2>3 DEF Stood
  <2>5. ~Clash(members[n], members'[m])
    BY <1>1, <2>3
  <2> QED
    BY <1>2, <2>4, <2>5 DEF Clash, Promise!Clash
<1>10. Promise!Join(m, b)
  BY <1>5, <1>8, <1>9 DEF Promise!Join, Promise!New, Promise!Bound, Promise!Stands, MemberIds
<1> QED
  BY <1>2, <1>10 DEF Promise!Next, MemberIds, Promise!Binding, Binding

(* Memberships that stood and stand no more have ended.                    *)
LEMMA EndStands ==
  ASSUME Inv, Inv', joins' = joins, NEW ms \in SUBSET MemberIds,
         \A m \in ms : status = "up" /\ IsActive(m) /\ ~(status' = "up" /\ IsActive(m)'),
         \A m \in MemberIds \ ms : Standing'[m] = Standing[m]
  PROVE  Promise!Next
<1>1. ASSUME NEW m \in ms
      PROVE  Standing[m].state = "bound" /\ Standing'[m] = [state |-> "ended"]
  <2>0. m \in MemberIds
    BY <1>1
  <2>1. m \in MemberIds /\ m \in Nat /\ joins \in Nat
    BY <2>0 DEF Inv, TypeOK, MemberIds
  <2>2. m <= joins
    BY <2>1 DEF Inv, Begun, IsActive
  <2>3. Stood(m) /\ Stood(m)'
    BY <2>1, Standings, StandingsNext
  <2> QED
    BY <2>2, <2>3 DEF Stood
<1>2. Standing' = [m \in MemberIds |-> IF m \in ms THEN [state |-> "ended"] ELSE Standing[m]]
  <2>1. \A m \in MemberIds :
          Standing'[m] = IF m \in ms THEN [state |-> "ended"] ELSE Standing[m]
    BY <1>1
  <2> QED
    BY <2>1 DEF Standing
<1>3. Promise!End(ms)
  BY <1>1, <1>2 DEF Promise!End, Promise!Stands, Promise!Ended, MemberIds
<1> QED
  BY <1>3 DEF Promise!Next, MemberIds

(* Ending one active membership, while the broker is up or starts.         *)
LEMMA EndOneStands ==
  ASSUME Inv, Inv', NEW m \in MemberIds, IsActive(m), EndMember(m), status' = status
  PROVE  Promise!Next \/ Standing' = Standing
<1>1. /\ ~IsActive(m)' /\ joins' = joins
      /\ \A n \in MemberIds \ {m} : members'[n] = members[n]
  BY EndKeeps DEF EndMember
<1>2. \A n \in MemberIds \ {m} : Standing'[n] = Standing[n]
  BY <1>1, StandsAsBefore
<1>3. CASE status = "up"
  <2>1. {m} \in SUBSET MemberIds
    OBVIOUS
  <2> QED
    BY <1>1, <1>2, <1>3, <2>1, EndStands
<1>4. CASE status # "up"
  <2>1. Stood(m) /\ Stood(m)'
    BY Standings, StandingsNext
  <2>2. m \in Nat /\ joins \in Nat
    BY DEF Inv, TypeOK, MemberIds
  <2>3. m > joins \/ m <= joins
    BY <2>2
  <2>4. Standing'[m] = Standing[m]
    BY <1>1, <1>4, <2>1, <2>3 DEF Stood
  <2> QED
    BY <1>2, <2>4, SameStanding
<1> QED
  BY <1>3, <1>4

LEMMA PromiseInit == Init => Promise!Init
<1> SUFFICES ASSUME Init PROVE Promise!Init
  OBVIOUS
<1>1. \A m \in MemberIds : m > joins
  BY DEF Init, MemberIds
<1>2. \A m \in MemberIds : Standing[m] = [state |-> "new"]
  BY <1>1, InvInit, Standings DEF Stood
<1>3. Standing = [m \in MemberIds |-> [state |-> "new"]]
  BY <1>2 DEF Standing
<1> QED
  BY <1>3 DEF Promise!Init, Promise!New, MemberIds

LEMMA PromiseStep == Inv /\ Inv' /\ [Next]_vars => [Promise!Next]_Standing
<1> SUFFICES ASSUME Inv, Inv', [Next]_vars
             PROVE  Promise!Next \/ Standing' = Standing
  OBVIOUS
<1> USE DEF memory, sessionVars, detachVars
<1>1. ASSUME UNCHANGED <<status, memory>>
      PROVE  Standing' = Standing
  BY <1>1, StandsAsBefore, SameStanding
<1>2. ASSUME NEW c \in Clients, Call(c)
      PROVE  Promise!Next \/ Standing' = Standing
  <2>1. ASSUME NEW m \in MemberIds, Leave(c, m)
        PROVE  Promise!Next \/ Standing' = Standing
    BY <2>1, EndOneStands DEF Leave
  <2>2. ASSUME JoinRefused(c) \/ SaveCall(c) \/ \E b \in Binding : JoinCheck(c, b)
        PROVE  Standing' = Standing
    BY <1>1, <2>2 DEF JoinRefused, SaveCall, JoinCheck
  <2> QED
    BY <1>2, <2>1, <2>2, JoinStands DEF Call
<1>3. ASSUME NEW s \in Sessions, SessionStep(s)
      PROVE  Promise!Next \/ Standing' = Standing
  <2>1. ASSUME CreateSession(s) \/ Exit(s) \/ Reap(s) \/ DeleteSession(s)
        PROVE  Standing' = Standing
    BY <1>1, <2>1 DEF CreateSession, Exit, Reap, DeleteSession
  <2>2. ASSUME NEW who \in Detachers, Detach(who, s)
        PROVE  Promise!Next \/ Standing' = Standing
    <3>1. CASE boundTo[s] = NoRoom
      BY <1>1, <2>2, <3>1 DEF Detach
    <3>2. CASE boundTo[s] # NoRoom
      <4>1. PICK m \in MemberIds : IsActive(m) /\ EndMember(m)
        BY <2>2, <3>2 DEF Detach
      <4> QED
        BY <2>2, <4>1, EndOneStands DEF Detach
    <3> QED
      BY <3>1, <3>2
  <2> QED
    BY <1>3, <2>1, <2>2 DEF SessionStep
<1>4. CASE Crash
  <2> DEFINE ms == {m \in MemberIds : status = "up" /\ IsActive(m)}
  <2>1. joins' = joins /\ status' = "down" /\ status' # "up"
    BY <1>4 DEF Crash, Gone
  <2>2. ASSUME NEW m \in MemberIds \ ms
        PROVE  Standing'[m] = Standing[m]
    <3>1. Stood(m) /\ Stood(m)'
      BY Standings, StandingsNext
    <3>2. m \in Nat /\ joins \in Nat
      BY DEF Inv, TypeOK, MemberIds
    <3>3. m > joins \/ m <= joins
      BY <3>2
    <3>4. ~(status = "up" /\ IsActive(m))
      BY <2>2
    <3> QED
      BY <2>1, <3>1, <3>3, <3>4 DEF Stood
  <2>3. ms \in SUBSET MemberIds
    OBVIOUS
  <2> HIDE DEF ms
  <2>4. \A m \in ms : status = "up" /\ IsActive(m) /\ ~(status' = "up" /\ IsActive(m)')
    BY <2>1 DEF ms
  <2> QED
    BY <2>1, <2>2, <2>3, <2>4, EndStands
<1>5. ASSUME Hydrate \/ StampFails \/ Serve
      PROVE  Standing' = Standing
  <2>1. \A m \in MemberIds : ~(status = "up" /\ IsActive(m)) /\ ~(status' = "up" /\ IsActive(m)')
    BY <1>5 DEF Hydrate, StampFails, Gone, Serve, IsActive
  <2>2. joins' = joins
    BY <1>5 DEF Hydrate, StampFails, Serve
  <2>3. ASSUME NEW m \in MemberIds
        PROVE  Standing'[m] = Standing[m]
    <3>1. Stood(m) /\ Stood(m)'
      BY Standings, StandingsNext
    <3>2. m \in Nat /\ joins \in Nat
      BY DEF Inv, TypeOK, MemberIds
    <3>3. m > joins \/ m <= joins
      BY <3>2
    <3> QED
      BY <2>1, <2>2, <3>1, <3>3 DEF Stood
  <2> QED
    BY <2>3, SameStanding
<1>6. ASSUME NEW m \in MemberIds, Stamp(m)
      PROVE  Promise!Next \/ Standing' = Standing
  BY <1>6, EndOneStands DEF Stamp
<1>7. ASSUME SaveDetached \/ UNCHANGED vars
      PROVE  Standing' = Standing
  BY <1>1, <1>7 DEF SaveDetached, vars
<1> QED
  BY <1>2, <1>3, <1>4, <1>5, <1>6, <1>7 DEF Next

(* The broker implements Memberships, over restarts and late writes.       *)
THEOREM Refinement == Spec => ImplementsMemberships
BY PromiseInit, PromiseStep, Safety, PTL DEF Spec, ImplementsMemberships, Promise!Spec
-----------------------------------------------------------------------------
(* Who stays bound to an ended session.                                    *)

LateOnly(s) == \A m \in MemberIds : IsActive(m) /\ members[m].session = s => Late(m)

\* A running session has its watcher, and none outlives its broker.
WatchersThere ==
  \A s \in Sessions : sessions[s] = "running" => status = "up" /\ <<"watcher", s>> \in detachers

\* The session that is being detached has ended, and lost who was bound before.
DetachingLeft ==
  detaching # Free => sessions[detaching.session] = "done" /\ LateOnly(detaching.session)

WatchedOrLeft == status = "up" => \A s \in Sessions : Watched(s) \/ LateOnly(s)

ExitInv == WatchersThere /\ DetachingLeft /\ WatchedOrLeft

LEMMA ExitInit == Init => ExitInv
BY DEF Init, ExitInv, WatchersThere, DetachingLeft, WatchedOrLeft, Watched

(* Memory that only lost members, and a history that only grew.            *)
LEMMA StillLateOnly ==
  ASSUME NEW s \in Sessions, LateOnly(s), mishaps \subseteq mishaps',
         \A m \in MemberIds : IsActive(m)' => IsActive(m) /\ members'[m].session = members[m].session
  PROVE  LateOnly(s)'
BY DEF LateOnly, Late

LEMMA EndedOnly ==
  ASSUME Inv, NEW m \in MemberIds, IsActive(m), EndMember(m)
  PROVE  /\ ~IsActive(m)'
         /\ \A n \in MemberIds : IsActive(n)' => IsActive(n) /\ members'[n].session = members[n].session
<1>1. ~IsActive(m)' /\ \A n \in MemberIds \ {m} : members'[n] = members[n]
  BY EndKeeps
<1> QED
  BY <1>1 DEF IsActive

LEMMA ExitCall ==
  ASSUME Inv, ExitInv, NEW c \in Clients, Call(c)
  PROVE  ExitInv'
<1> USE DEF memory, sessionVars, detachVars
<1>1. UNCHANGED <<status, sessions, detachers, detaching>>
  BY DEF Call, JoinCheck, JoinRefused, JoinBind, Leave, SaveCall
<1>2. ASSUME NEW s \in Sessions, sessions[s] = "done", LateOnly(s)
      PROVE  LateOnly(s)'
  <2>1. ASSUME UNCHANGED members, mishaps \subseteq mishaps'
        PROVE  LateOnly(s)'
    BY <1>2, <2>1 DEF LateOnly, Late, IsActive
  <2>2. ASSUME JoinRefused(c) \/ SaveCall(c) \/ \E b \in Binding : JoinCheck(c, b)
        PROVE  LateOnly(s)'
    BY <2>1, <2>2 DEF JoinRefused, SaveCall, JoinCheck, Save, Upsert, NotSaved
  <2>3. ASSUME NEW m \in MemberIds, Leave(c, m)
        PROVE  LateOnly(s)'
    BY <1>2, <2>3, EndedOnly, StillLateOnly DEF Leave
  <2>4. ASSUME JoinBind(c)
        PROVE  LateOnly(s)'
    <3>1. PICK m \in MemberIds :
            /\ m = joins + 1
            /\ members'[m] = [room |-> calls[c].member.room, agent |-> calls[c].member.agent,
                              session |-> calls[c].member.session, active |-> TRUE]
            /\ \A n \in MemberIds \ {m} : members'[n] = members[n]
      BY <2>4, JoinKeeps
    <3>2. members'[m].session = calls[c].member.session
      BY <3>1
    <3>3. mishaps' = IF sessions[calls[c].member.session] = "done"
                     THEN mishaps \cup {<<"late", m>>} ELSE mishaps
      BY <2>4, <3>1 DEF JoinBind
    <3>4. members'[m].session = s => Late(m)'
      BY <1>2, <3>2, <3>3 DEF Late
    <3>5. \A n \in MemberIds \ {m} : IsActive(n)' /\ members'[n].session = s => Late(n)'
      BY <1>2, <3>1, <3>3 DEF LateOnly, Late, IsActive
    <3> QED
      BY <3>4, <3>5 DEF LateOnly
  <2> QED
    BY <2>2, <2>3, <2>4 DEF Call
<1>3. WatchersThere'
  BY <1>1 DEF ExitInv, WatchersThere
<1>4. DetachingLeft'
  <2>1. detaching # Free => detaching.session \in Sessions
    BY DEF Inv, TypeOK
  <2> QED
    BY <1>1, <1>2, <2>1 DEF ExitInv, DetachingLeft
<1>5. WatchedOrLeft'
  BY <1>1, <1>2 DEF ExitInv, WatchedOrLeft, Watched
<1> QED
  BY <1>3, <1>4, <1>5 DEF ExitInv

LEMMA ExitSession ==
  ASSUME Inv, ExitInv, NEW s \in Sessions, SessionStep(s)
  PROVE  ExitInv'
<1> USE DEF memory, sessionVars, detachVars
<1>0. detaching # Free => detaching.session \in Sessions
  BY DEF Inv, TypeOK
<1>1. CASE CreateSession(s) \/ Exit(s) \/ Reap(s) \/ DeleteSession(s)
  <2>1. UNCHANGED <<members, mishaps, status, detaching>>
    BY <1>1 DEF CreateSession, Exit, Reap, DeleteSession
  <2>2. \A t \in Sessions : LateOnly(t) => LateOnly(t)'
    BY <2>1 DEF LateOnly, Late, IsActive
  <2>3. /\ \A t \in Sessions : sessions[t] = "done" => sessions'[t] = "done"
        /\ \A t \in Sessions : sessions'[t] = "running" =>
             sessions[t] = "running" \/ (status = "up" /\ <<"watcher", t>> \in detachers')
        /\ \A t \in Sessions : sessions'[t] = "done" => sessions[t] = "done" \/ sessions[t] = "running"
        /\ detachers \subseteq detachers'
    BY <1>1 DEF CreateSession, Exit, Reap, DeleteSession, Inv, TypeOK
  <2>4. WatchersThere'
    BY <2>1, <2>3 DEF ExitInv, WatchersThere
  <2>5. DetachingLeft'
    BY <1>0, <2>1, <2>2, <2>3 DEF ExitInv, DetachingLeft
  <2>6. WatchedOrLeft'
    BY <2>1, <2>2, <2>3 DEF ExitInv, WatchedOrLeft, Watched, WatchersThere
  <2> QED
    BY <2>4, <2>5, <2>6 DEF ExitInv
<1>2. ASSUME NEW who \in Detachers, Detach(who, s)
      PROVE  ExitInv'
  <2>1. sessions[s] = "done" /\ detaching = Free /\ UNCHANGED <<sessions, mishaps, status>>
    BY <1>2 DEF Detach
  <2>2. CASE boundTo[s] = NoRoom
    <3>1. detachers' = detachers \ {<<who, s>>} /\ UNCHANGED <<members, detaching>>
      BY <1>2, <2>2 DEF Detach, Finished
    <3>2. \A t \in Sessions : LateOnly(t)' <=> LateOnly(t)
      BY <2>1, <3>1 DEF LateOnly, Late, IsActive
    <3>3. LateOnly(s)
      BY <2>2, ActiveIsBound DEF LateOnly, Inv
    <3>4. WatchersThere'
      BY <2>1, <3>1 DEF ExitInv, WatchersThere
    <3>5. WatchedOrLeft'
      BY <2>1, <3>1, <3>2, <3>3 DEF ExitInv, WatchedOrLeft, Watched
    <3> QED
      BY <2>1, <3>1, <3>4, <3>5 DEF ExitInv, DetachingLeft
  <2>3. CASE boundTo[s] # NoRoom
    <3>1. PICK m \in MemberIds :
            /\ IsActive(m) /\ members[m].session = s /\ EndMember(m)
            /\ detaching' = [by |-> who, session |-> s, id |-> m] /\ detachers' = detachers
      BY <1>2, <2>3 DEF Detach
    <3>2. /\ ~IsActive(m)'
          /\ \A n \in MemberIds : IsActive(n)' => IsActive(n) /\ members'[n].session = members[n].session
      BY <3>1, EndedOnly
    <3>3. \A t \in Sessions : LateOnly(t) => LateOnly(t)'
      BY <2>1, <3>2, StillLateOnly
    <3>4. LateOnly(s)'
      <4>1. \A n \in MemberIds : IsActive(n)' => members'[n].session # s
        BY <3>1, <3>2, ActiveIsBound DEF Inv
      <4> QED
        BY <4>1 DEF LateOnly
    <3>5. DetachingLeft'
      <4>1. detaching'.session = s
        BY <3>1
      <4> QED
        BY <2>1, <3>4, <4>1 DEF DetachingLeft
    <3>6. WatchersThere' /\ WatchedOrLeft'
      BY <2>1, <3>1, <3>3 DEF ExitInv, WatchersThere, WatchedOrLeft, Watched
    <3> QED
      BY <3>5, <3>6 DEF ExitInv
  <2> QED
    BY <2>2, <2>3
<1> QED
  BY <1>1, <1>2 DEF SessionStep

LEMMA ExitRest ==
  ASSUME Inv, ExitInv,
         \/ SaveDetached \/ Crash \/ Hydrate \/ StampFails \/ Serve
         \/ (\E m \in MemberIds : Stamp(m)) \/ UNCHANGED vars
  PROVE  ExitInv'
<1> USE DEF memory, sessionVars, detachVars
<1>1. CASE SaveDetached
  <2>1. /\ detaching # Free /\ detaching' = Free /\ detaching.session \in Sessions
        /\ detachers' = detachers \ {<<detaching.by, detaching.session>>}
        /\ UNCHANGED <<status, sessions, members>> /\ mishaps \subseteq mishaps'
    BY <1>1 DEF SaveDetached, Finished, Save, Upsert, NotSaved, Inv, TypeOK
  <2>2. \A t \in Sessions : LateOnly(t) => LateOnly(t)'
    BY <2>1 DEF LateOnly, Late, IsActive
  <2>3. sessions[detaching.session] = "done" /\ LateOnly(detaching.session)
    BY <2>1 DEF ExitInv, DetachingLeft
  <2>4. WatchersThere'
    BY <2>1, <2>3 DEF ExitInv, WatchersThere
  <2>5. WatchedOrLeft'
    BY <2>1, <2>2, <2>3 DEF ExitInv, WatchedOrLeft, Watched
  <2> QED
    BY <2>1, <2>4, <2>5 DEF ExitInv, DetachingLeft
<1>2. CASE Crash
  <2>1. /\ \A s \in Sessions : sessions'[s] # "running"
        /\ detaching' = Free /\ status' = "down"
    BY <1>2 DEF Crash, Gone
  <2> QED
    BY <2>1 DEF ExitInv, WatchersThere, DetachingLeft, WatchedOrLeft
<1>3. ASSUME Hydrate \/ StampFails \/ \E m \in MemberIds : Stamp(m)
      PROVE  ExitInv'
  <2>1. status # "up" /\ status' # "up" /\ UNCHANGED <<sessions, detaching>>
    BY <1>3 DEF Hydrate, StampFails, Gone, Stamp
  <2>2. detaching = Free
    BY <2>1 DEF Inv, OnlyWhileUp
  <2> QED
    BY <2>1, <2>2 DEF ExitInv, WatchersThere, DetachingLeft, WatchedOrLeft
<1>4. CASE Serve
  <2>1. /\ status = "starting" /\ \A m \in MemberIds : ~IsActive(m)'
        /\ UNCHANGED <<sessions, detaching>>
    BY <1>4 DEF Serve, IsActive
  <2>2. detaching = Free
    BY <2>1 DEF Inv, OnlyWhileUp
  <2>3. \A s \in Sessions : LateOnly(s)' /\ sessions[s] # "running"
    BY <2>1 DEF LateOnly, ExitInv, WatchersThere
  <2> QED
    BY <2>1, <2>2, <2>3 DEF ExitInv, WatchersThere, DetachingLeft, WatchedOrLeft
<1>5. CASE UNCHANGED vars
  BY <1>5 DEF vars, ExitInv, WatchersThere, DetachingLeft, WatchedOrLeft, Watched, LateOnly,
     Late, IsActive
<1> QED
  BY <1>1, <1>2, <1>3, <1>4, <1>5

LEMMA ExitStep == Inv /\ ExitInv /\ [Next]_vars => ExitInv'
BY ExitCall, ExitSession, ExitRest DEF Next

THEOREM ExitsHold == Spec => []ExitInv
BY ExitInit, ExitStep, Safety, PTL DEF Spec

(* An ended session whose watcher has run keeps no member that was bound   *)
(* before that end, however calls overlap it and whatever the store does.  *)
THEOREM DeadLeave == Spec => []OnlyLateJoinsStay
<1>1. ExitInv => OnlyLateJoinsStay
  BY DEF ExitInv, WatchedOrLeft, OnlyLateJoinsStay, LateOnly
<1> QED
  BY <1>1, ExitsHold, PTL
-----------------------------------------------------------------------------
(* What is on its way to the store.                                        *)

\* A call writes its own membership, and no end that memory does not have.
SavesFit ==
  \A c \in Clients : calls[c].at = "save" =>
    LET m == members[calls[c].id] v == calls[c].member IN
    /\ m # NoMember /\ v.room = m.room /\ v.agent = m.agent /\ v.session = m.session
    /\ m.active => v.active

\* A detach has ended a member of its session, and whoever runs it has not finished.
DetachFits ==
  detaching # Free => /\ <<detaching.by, detaching.session>> \in detachers
                      /\ members[detaching.id].session = detaching.session
                      /\ ~members[detaching.id].active

\* Somebody is to write what memory holds of m.
BeingWritten(m) ==
  \/ detaching # Free /\ detaching.id = m
  \/ \E c \in Clients : /\ calls[c].at = "save" /\ calls[c].id = m
                        /\ calls[c].member.active = members[m].active

SameBinding(v, w) == v.room = w.room /\ v.agent = w.agent /\ v.session = w.session

\* A row is that of its member, and differs only while somebody is to write
\* it, or for good because a write went wrong.
RowsFollow ==
  /\ status = "up" => \A m \in MemberIds :
       /\ rows[m] # NoMember => members[m] # NoMember /\ SameBinding(rows[m], members[m])
       /\ rows[m] # members[m] => BeingWritten(m) \/ WriteWentWrong(m)
  /\ status = "starting" => rows = members

\* A deleted session has ended, and whoever was bound to it since is late.
DeletedFit ==
  \A s \in deleted :
    /\ sessions[s] = "done"
    /\ status = "up" => \A m \in MemberIds :
         /\ members[m] # NoMember /\ members[m].session = s
         /\ IsActive(m) \/ (detaching # Free /\ detaching.id = m)
         => Late(m)

StoreInv == SavesFit /\ DetachFits /\ RowsFollow /\ DeletedFit /\ DeleteIsDurable

LEMMA StoreInit == Init => StoreInv
BY DEF Init, StoreInv, SavesFit, DetachFits, RowsFollow, DeletedFit, DeleteIsDurable, Idle

(* Members with the same binding and the same end are the same.            *)
LEMMA SameMember ==
  ASSUME NEW v \in Member, NEW w \in Member, SameBinding(v, w), v.active = w.active
  PROVE  v = w
BY DEF Member, SameBinding

LEMMA MishapsStand ==
  ASSUME mishaps \subseteq mishaps', NEW m \in MemberIds
  PROVE  (Late(m) => Late(m)') /\ (WriteWentWrong(m) => WriteWentWrong(m)')
BY DEF Late, WriteWentWrong

(* Steps that begin no write, end none, and change no member or row.       *)
LEMMA NothingWritten ==
  ASSUME Inv, StoreInv, UNCHANGED <<status, members, rows, mishaps, detaching, deleted>>,
         detachers \subseteq detachers',
         \A s \in Sessions : sessions[s] = "done" => sessions'[s] = "done",
         \A c \in Clients : calls[c].at = "save" \/ calls'[c].at = "save" => calls'[c] = calls[c]
  PROVE  StoreInv'
<1>1. \A c \in Clients : calls'[c].at = "save" <=> calls[c].at = "save"
  OBVIOUS
<1>2. SavesFit'
  BY <1>1 DEF StoreInv, SavesFit
<1>3. DetachFits'
  BY DEF StoreInv, DetachFits
<1>4. \A m \in MemberIds : (BeingWritten(m) => BeingWritten(m)') /\ (LeaveUnderWay(m) => LeaveUnderWay(m)')
  BY <1>1 DEF BeingWritten, LeaveUnderWay
<1>5. \A m \in MemberIds : (Late(m) <=> Late(m)') /\ (WriteWentWrong(m) <=> WriteWentWrong(m)')
  BY DEF Late, WriteWentWrong
<1>6. RowsFollow'
  BY <1>4, <1>5 DEF StoreInv, RowsFollow
<1>7. DeletedFit'
  BY <1>5 DEF StoreInv, DeletedFit, IsActive, Inv, TypeOK
<1>8. DeleteIsDurable'
  BY <1>4, <1>5 DEF StoreInv, DeleteIsDurable, RowActive
<1> QED
  BY <1>2, <1>3, <1>6, <1>7, <1>8 DEF StoreInv

(* A row that memory has ended, and no detach is to write.                 *)
LEMMA EndedRow ==
  ASSUME Inv, StoreInv, status = "up", NEW m \in MemberIds, rows[m] # members[m],
         members[m] # NoMember, ~IsActive(m), ~(detaching # Free /\ detaching.id = m)
  PROVE  LeaveUnderWay(m) \/ WriteWentWrong(m)
<1>1. members[m].active = FALSE
  BY Fields DEF Inv, IsActive
<1> QED
  BY <1>1 DEF StoreInv, RowsFollow, BeingWritten, LeaveUnderWay

(* When DeleteSession returns, what is left is accounted for.              *)
LEMMA NowDeleted ==
  ASSUME Inv, StoreInv, status = "up", NEW s \in Sessions, LateOnly(s),
         NEW m \in MemberIds, RowActive(m), rows[m].session = s,
         ~(detaching # Free /\ detaching.id = m)
  PROVE  Late(m) \/ WriteWentWrong(m) \/ LeaveUnderWay(m)
<1>1. members[m] # NoMember /\ members[m].session = s
  BY DEF StoreInv, RowsFollow, RowActive, SameBinding
<1>2. CASE IsActive(m)
  BY <1>1, <1>2 DEF LateOnly
<1>3. CASE ~IsActive(m)
  <2>1. rows[m] # members[m]
    BY <1>3 DEF RowActive, IsActive
  <2> QED
    BY <1>1, <1>3, <2>1, EndedRow
<1> QED
  BY <1>2, <1>3
-----------------------------------------------------------------------------
LEMMA StoreJoinBind ==
  ASSUME Inv, StoreInv, NEW c \in Clients, JoinBind(c)
  PROVE  StoreInv'
<1> USE DEF memory, sessionVars, detachVars
<1>1. PICK m \in MemberIds :
        /\ m = joins + 1 /\ members[m] = NoMember
        /\ members'[m] = [room |-> calls[c].member.room, agent |-> calls[c].member.agent,
                          session |-> calls[c].member.session, active |-> TRUE]
        /\ members'[m] # NoMember
        /\ \A n \in MemberIds \ {m} : members'[n] = members[n]
  BY JoinKeeps
<1> DEFINE new == members'[m]
<1>2. /\ calls'[c] = [at |-> "save", id |-> m, member |-> new]
      /\ \A d \in Clients \ {c} : calls'[d] = calls[d]
      /\ calls[c].at # "save"
      /\ UNCHANGED <<status, rows, sessions, detachers, detaching, deleted>>
      /\ mishaps \subseteq mishaps'
      /\ sessions[calls[c].member.session] = "done" => <<"late", m>> \in mishaps'
  <2>1. JoinBind(c) /\ calls \in [Clients -> CallStates]
    BY DEF Inv, TypeOK
  <2>2. calls' = [calls EXCEPT ![c] = [at |-> "save", id |-> m, member |-> new]]
    BY <1>1, <2>1 DEF JoinBind
  <2> QED
    BY <1>1, <2>1, <2>2 DEF JoinBind
<1>3. new.active /\ new.session = calls[c].member.session
  BY <1>1
<1>n. members'[m] = new
  OBVIOUS
<1> HIDE DEF new
<1>4. rows[m] = NoMember
  <2>1. m > joins
    BY <1>1 DEF Inv, TypeOK
  <2> QED
    BY <2>1 DEF Inv, Begun
<1>5. \A d \in Clients \ {c} : calls[d].at = "save" => calls[d].id \in MemberIds \ {m}
  BY <1>1, Remembered DEF Inv, StoreInv, SavesFit
<1>6. detaching # Free => detaching.id \in MemberIds \ {m}
  BY <1>1 DEF Inv, Begun, TypeOK
<1>7. SavesFit'
  <2>1. calls'[c].id = m /\ calls'[c].member = new
    BY <1>2
  <2>2. \A d \in Clients \ {c} : calls'[d].at = "save" => members'[calls'[d].id] = members[calls[d].id]
    BY <1>1, <1>2, <1>5
  <2> QED
    BY <1>1, <1>2, <1>3, <1>n, <2>1, <2>2 DEF StoreInv, SavesFit
<1>8. DetachFits'
  BY <1>1, <1>2, <1>6 DEF StoreInv, DetachFits
<1>9. BeingWritten(m)'
  <2>1. calls'[c].at = "save" /\ calls'[c].id = m /\ calls'[c].member.active = members'[m].active
    BY <1>2, <1>n
  <2> QED
    BY <2>1 DEF BeingWritten
<1>10. \A n \in MemberIds \ {m} : BeingWritten(n) => BeingWritten(n)'
  BY <1>1, <1>2 DEF BeingWritten
<1>11. \A n \in MemberIds : LeaveUnderWay(n) => LeaveUnderWay(n)'
  BY <1>2 DEF LeaveUnderWay
<1>12. RowsFollow'
  <2>1. status # "starting"
    BY Remembered DEF Inv, OnlyWhileUp, JoinBind
  <2> QED
    BY <1>1, <1>2, <1>4, <1>9, <1>10, <2>1, MishapsStand DEF StoreInv, RowsFollow
<1>13. ASSUME NEW s \in deleted, status = "up", NEW n \in MemberIds, members'[n].session = s,
              members'[n] # NoMember, IsActive(n)' \/ (detaching # Free /\ detaching.id = n)
       PROVE  Late(n)'
  <2>1. CASE n = m
    <3>1. sessions[s] = "done"
      BY DEF StoreInv, DeletedFit
    <3> QED
      BY <1>2, <1>3, <1>13, <1>n, <2>1, <3>1 DEF Late
  <2>2. CASE n # m
    <3>1. Late(n)
      BY <1>1, <1>13, <2>2 DEF StoreInv, DeletedFit, IsActive
    <3> QED
      BY <1>2, <3>1 DEF Late
  <2> QED
    BY <2>1, <2>2
<1>14. DeletedFit'
  BY <1>2, <1>13 DEF StoreInv, DeletedFit
<1>15. DeleteIsDurable'
  BY <1>2, <1>11, MishapsStand DEF StoreInv, DeleteIsDurable, RowActive
<1> QED
  BY <1>7, <1>8, <1>12, <1>14, <1>15 DEF StoreInv

(* An end in memory, by LeaveRoom or by a detach.                          *)
LEMMA EndFits ==
  ASSUME Inv, StoreInv, NEW m \in MemberIds, IsActive(m), EndMember(m)
  PROVE  /\ ~IsActive(m)' /\ members'[m] # NoMember /\ ~members'[m].active
         /\ SameBinding(members'[m], members[m])
         /\ members'[m] = [members[m] EXCEPT !.active = FALSE]
         /\ \A n \in MemberIds \ {m} : members'[n] = members[n]
         /\ \A c \in Clients : calls[c].at = "save" =>
              LET v == calls[c].member IN
              /\ members'[calls[c].id] # NoMember /\ SameBinding(v, members'[calls[c].id])
              /\ members'[calls[c].id].active => v.active
<1>1. members[m] \in Member /\ members \in [MemberIds -> Member \cup {NoMember}]
  BY Fields DEF Inv, IsActive, TypeOK
<1>2. /\ members'[m] = [members[m] EXCEPT !.active = FALSE]
      /\ \A n \in MemberIds \ {m} : members'[n] = members[n]
  BY <1>1 DEF EndMember
<1>3. members'[m] # NoMember /\ ~members'[m].active /\ SameBinding(members'[m], members[m])
  BY <1>1, <1>2, EndedMember DEF Inv, IsActive, SameBinding, Member
<1>4. ASSUME NEW c \in Clients, calls[c].at = "save"
      PROVE  LET v == calls[c].member IN
             /\ members'[calls[c].id] # NoMember /\ SameBinding(v, members'[calls[c].id])
             /\ members'[calls[c].id].active => v.active
  <2>1. calls[c].id \in MemberIds
    BY <1>4, Remembered DEF Inv
  <2>2. CASE calls[c].id = m
    BY <1>3, <1>4, <2>2 DEF StoreInv, SavesFit, SameBinding
  <2>3. CASE calls[c].id # m
    BY <1>2, <1>4, <2>1, <2>3 DEF StoreInv, SavesFit, SameBinding
  <2> QED
    BY <2>2, <2>3
<1> QED
  BY <1>2, <1>3, <1>4 DEF IsActive

LEMMA StoreLeave ==
  ASSUME Inv, StoreInv, NEW c \in Clients, NEW m \in MemberIds, Leave(c, m)
  PROVE  StoreInv'
<1> USE DEF memory, sessionVars, detachVars
<1> DEFINE end == [members[m] EXCEPT !.active = FALSE]
<1>1. /\ IsActive(m) /\ EndMember(m) /\ status = "up"
      /\ UNCHANGED <<status, rows, sessions, detachers, detaching, deleted, mishaps>>
      /\ calls[c] = Idle /\ calls' = [calls EXCEPT ![c] = [at |-> "save", id |-> m, member |-> end]]
  BY DEF Leave
<1>2. /\ calls'[c] = [at |-> "save", id |-> m, member |-> end]
      /\ \A d \in Clients \ {c} : calls'[d] = calls[d]
      /\ calls[c].at # "save"
  BY <1>1 DEF Inv, TypeOK, Idle
<1>n. members'[m] = end
  BY <1>1, EndFits
<1> HIDE DEF end
<1>3. /\ ~IsActive(m)' /\ members'[m] # NoMember /\ ~members'[m].active
      /\ SameBinding(members'[m], members[m])
      /\ \A n \in MemberIds \ {m} : members'[n] = members[n]
      /\ \A d \in Clients : calls[d].at = "save" =>
           LET v == calls[d].member IN
           /\ members'[calls[d].id] # NoMember /\ SameBinding(v, members'[calls[d].id])
           /\ members'[calls[d].id].active => v.active
  BY <1>1, EndFits
<1>4. SavesFit'
  <2>1. calls'[c].id = m /\ calls'[c].member = end
    BY <1>2
  <2> QED
    BY <1>2, <1>3, <1>n, <2>1 DEF SavesFit, SameBinding
<1>5. DetachFits'
  BY <1>1, <1>3 DEF StoreInv, DetachFits, Inv, TypeOK, SameBinding
<1>6. BeingWritten(m)'
  <2>1. calls'[c].at = "save" /\ calls'[c].id = m /\ calls'[c].member.active = members'[m].active
    BY <1>2, <1>n
  <2> QED
    BY <2>1 DEF BeingWritten
<1>7. \A n \in MemberIds \ {m} : BeingWritten(n) => BeingWritten(n)'
  BY <1>1, <1>2, <1>3 DEF BeingWritten
<1>8. \A n \in MemberIds : LeaveUnderWay(n) => LeaveUnderWay(n)'
  BY <1>2 DEF LeaveUnderWay
<1>9. RowsFollow'
  BY <1>1, <1>3, <1>6, <1>7, MishapsStand DEF StoreInv, RowsFollow, SameBinding
<1>10. DeletedFit'
  <2>1. detaching # Free => detaching.id # m
    BY <1>1 DEF StoreInv, DetachFits, IsActive
  <2>2. \A n \in MemberIds \ {m} : IsActive(n)' <=> IsActive(n)
    BY <1>3 DEF IsActive
  <2>3. \A n \in MemberIds : Late(n)' <=> Late(n)
    BY <1>1 DEF Late
  <2> QED
    BY <1>1, <1>3, <2>1, <2>2, <2>3 DEF StoreInv, DeletedFit
<1>11. DeleteIsDurable'
  BY <1>1, <1>8, MishapsStand DEF StoreInv, DeleteIsDurable, RowActive
<1> QED
  BY <1>4, <1>5, <1>9, <1>10, <1>11 DEF StoreInv

(* Writing one row: a join that finds its row overtaken leaves its mark.   *)
LEMMA Written ==
  ASSUME Inv, NEW m \in MemberIds, NEW v, Save(m, v)
  PROVE  /\ mishaps \subseteq mishaps'
         /\ \A n \in MemberIds \ {m} : rows'[n] = rows[n]
         /\ \/ rows'[m] = v /\ (v.active => rows[m] = NoMember \/ WriteWentWrong(m)')
            \/ rows' = rows /\ WriteWentWrong(m)'
<1>1. CASE ~Refused(m, v) /\ Upsert(m, v)
  <2>1. rows' = [rows EXCEPT ![m] = v] /\ rows \in [MemberIds -> Member \cup {NoMember}]
    BY <1>1 DEF Upsert, Inv, TypeOK
  <2>2. rows'[m] = v /\ \A n \in MemberIds \ {m} : rows'[n] = rows[n]
    BY <2>1
  <2> QED
    BY <1>1, <2>2 DEF Upsert, WriteWentWrong
<1>2. ASSUME NEW why \in {"lost", "refused"}, NotSaved(m, why)
      PROVE  mishaps \subseteq mishaps' /\ rows' = rows /\ WriteWentWrong(m)'
  BY <1>2 DEF NotSaved, WriteWentWrong
<1> QED
  BY <1>1, <1>2 DEF Save

LEMMA StoreSaveCall ==
  ASSUME Inv, Inv', StoreInv, NEW c \in Clients, SaveCall(c)
  PROVE  StoreInv'
<1> USE DEF memory, sessionVars, detachVars
<1>1. /\ calls[c].at = "save"
      /\ UNCHANGED <<status, members, sessions, detachers, detaching, deleted>>
  BY DEF SaveCall
<1>2. calls[c].id \in MemberIds /\ calls[c].member \in Member /\ status = "up"
  BY <1>1, Remembered DEF Inv, OnlyWhileUp
<1>3. PICK m \in MemberIds, v \in Member : m = calls[c].id /\ v = calls[c].member
  BY <1>2
<1>4. /\ mishaps \subseteq mishaps'
      /\ \A n \in MemberIds \ {m} : rows'[n] = rows[n]
      /\ \/ rows'[m] = v /\ (v.active => rows[m] = NoMember \/ WriteWentWrong(m)')
         \/ rows' = rows /\ WriteWentWrong(m)'
  BY <1>3, Written DEF SaveCall
<1>5. calls'[c].at # "save" /\ \A d \in Clients \ {c} : calls'[d] = calls[d]
  BY DEF SaveCall, Inv, TypeOK, Idle
<1>6. members[m] \in Member /\ SameBinding(v, members[m]) /\ (members[m].active => v.active)
  <2>1. members[m] # NoMember /\ SameBinding(v, members[m]) /\ (members[m].active => v.active)
    BY <1>1, <1>3 DEF StoreInv, SavesFit, SameBinding
  <2> QED
    BY <2>1, Fields DEF Inv
<1>b. v.active \in BOOLEAN /\ members[m].active \in BOOLEAN
  BY <1>6 DEF Member
<1>7. SavesFit'
  BY <1>1, <1>5 DEF StoreInv, SavesFit
<1>8. DetachFits'
  BY <1>1 DEF StoreInv, DetachFits
<1>9. \A n \in MemberIds : (Late(n) => Late(n)') /\ (WriteWentWrong(n) => WriteWentWrong(n)')
  BY <1>4, MishapsStand
<1>10. DeletedFit'
  BY <1>1, <1>9 DEF StoreInv, DeletedFit, IsActive
<1>11. \A n \in MemberIds \ {m} :
         (BeingWritten(n) => BeingWritten(n)') /\ (LeaveUnderWay(n) => LeaveUnderWay(n)')
  BY <1>1, <1>3, <1>5 DEF BeingWritten, LeaveUnderWay
\* A write that is not what memory holds leaves the other writer of m at it.
<1>12. ASSUME v.active # members[m].active
       PROVE  /\ BeingWritten(m) => BeingWritten(m)'
              /\ v.active /\ ~members[m].active
  BY <1>1, <1>3, <1>5, <1>6, <1>b, <1>12 DEF BeingWritten
<1>13. ASSUME v.active
       PROVE  LeaveUnderWay(m) => LeaveUnderWay(m)'
  BY <1>1, <1>3, <1>5, <1>13 DEF LeaveUnderWay
<1>14. rows'[m] # NoMember => SameBinding(rows'[m], members[m])
  BY <1>2, <1>4, <1>6 DEF StoreInv, RowsFollow
<1>15. ASSUME rows'[m] # members[m]
       PROVE  BeingWritten(m)' \/ WriteWentWrong(m)'
  <2>1. CASE rows'[m] = v /\ (v.active => rows[m] = NoMember \/ WriteWentWrong(m)')
    <3>1. v.active # members[m].active
      BY <1>6, <1>15, <2>1, SameMember
    <3>2. CASE rows[m] = NoMember
      <4>1. rows[m] # members[m]
        BY <1>6, <3>2, NoMemberAssumption
      <4>2. BeingWritten(m) \/ WriteWentWrong(m)
        BY <1>2, <4>1 DEF StoreInv, RowsFollow
      <4> QED
        BY <1>9, <1>12, <3>1, <4>2
    <3> QED
      BY <1>12, <2>1, <3>1, <3>2
  <2> QED
    BY <1>4, <2>1
<1>16. RowsFollow'
  <2>1. members[m] # NoMember
    BY <1>6, NoMemberAssumption
  <2>2. ASSUME NEW n \in MemberIds
        PROVE  /\ rows'[n] # NoMember => members'[n] # NoMember /\ SameBinding(rows'[n], members'[n])
               /\ rows'[n] # members'[n] => BeingWritten(n)' \/ WriteWentWrong(n)'
    <3>1. CASE n = m
      BY <1>1, <1>14, <1>15, <2>1, <3>1
    <3>2. CASE n # m
      BY <1>1, <1>2, <1>4, <1>9, <1>11, <3>2 DEF StoreInv, RowsFollow
    <3> QED
      BY <3>1, <3>2
  <2> QED
    BY <1>1, <1>2, <2>2 DEF RowsFollow
<1>17. ASSUME NEW s \in deleted, NEW n \in MemberIds, RowActive(n)', rows'[n].session = s
       PROVE  Late(n)' \/ WriteWentWrong(n)' \/ LeaveUnderWay(n)'
  <2>1. CASE n # m
    BY <1>4, <1>9, <1>11, <1>17, <2>1 DEF StoreInv, DeleteIsDurable, RowActive
  <2>2. CASE n = m /\ ~WriteWentWrong(m)'
    <3>1. rows'[m] = v /\ v.active /\ v.session = s /\ rows[m] = NoMember
      BY <1>4, <1>17, <2>2 DEF RowActive
    <3>2. members[m].session = s /\ members[m] # NoMember
      BY <1>6, <3>1, NoMemberAssumption DEF SameBinding
    <3>3. CASE IsActive(m) \/ (detaching # Free /\ detaching.id = m)
      BY <1>2, <1>9, <2>2, <3>2, <3>3 DEF StoreInv, DeletedFit
    <3>4. CASE ~IsActive(m) /\ ~(detaching # Free /\ detaching.id = m)
      <4>1. LeaveUnderWay(m) \/ WriteWentWrong(m)
        BY <1>2, <3>1, <3>2, <3>4, EndedRow
      <4> QED
        BY <1>9, <1>13, <2>2, <3>1, <4>1
    <3> QED
      BY <3>3, <3>4
  <2> QED
    BY <2>1, <2>2
<1>18. DeleteIsDurable'
  BY <1>1, <1>17 DEF DeleteIsDurable
<1> QED
  BY <1>7, <1>8, <1>10, <1>16, <1>18 DEF StoreInv

LEMMA StoreSaveDetached ==
  ASSUME Inv, ExitInv, StoreInv, SaveDetached
  PROVE  StoreInv'
<1> USE DEF memory, sessionVars, detachVars
<1>1. /\ detaching # Free /\ detaching' = Free /\ Finished(detaching.by, detaching.session)
      /\ UNCHANGED <<status, members, sessions, calls>>
  BY DEF SaveDetached
<1>2. detaching.id \in MemberIds /\ detaching.session \in Sessions /\ status = "up"
  BY <1>1 DEF Inv, TypeOK, OnlyWhileUp
<1>3. PICK m \in MemberIds, s \in Sessions : m = detaching.id /\ s = detaching.session
  BY <1>2
<1>4. ~members[m].active /\ members[m] # NoMember
  BY <1>1, <1>3 DEF StoreInv, DetachFits, Inv, Begun
<1>5. /\ mishaps \subseteq mishaps'
      /\ \A n \in MemberIds \ {m} : rows'[n] = rows[n]
      /\ rows'[m] = members[m] \/ (rows' = rows /\ WriteWentWrong(m)')
  BY <1>3, Written DEF SaveDetached
<1>6. \A n \in MemberIds : (Late(n) => Late(n)') /\ (WriteWentWrong(n) => WriteWentWrong(n)')
  BY <1>5, MishapsStand
<1>7. sessions[s] = "done" /\ LateOnly(s)
  BY <1>1, <1>3 DEF ExitInv, DetachingLeft
<1>8. deleted' = deleted \/ deleted' = deleted \cup {s}
  BY <1>1, <1>3 DEF Finished
<1>9. SavesFit' /\ DetachFits'
  BY <1>1 DEF StoreInv, SavesFit, DetachFits
<1>10. \A n \in MemberIds : LeaveUnderWay(n)' <=> LeaveUnderWay(n)
  BY <1>1 DEF LeaveUnderWay
<1>11. \A n \in MemberIds \ {m} : BeingWritten(n) => BeingWritten(n)'
  BY <1>1, <1>3 DEF BeingWritten
<1>12. RowsFollow'
  BY <1>1, <1>2, <1>4, <1>5, <1>6, <1>11 DEF StoreInv, RowsFollow, SameBinding
<1>13. DeletedFit'
  BY <1>1, <1>6, <1>7, <1>8 DEF StoreInv, DeletedFit, LateOnly, IsActive
<1>14. ASSUME NEW t \in deleted', NEW n \in MemberIds, RowActive(n)', rows'[n].session = t
       PROVE  Late(n)' \/ WriteWentWrong(n)' \/ LeaveUnderWay(n)'
  <2>1. CASE n = m
    <3>1. CASE rows'[m] = members[m]
      BY <1>4, <1>14, <2>1, <3>1 DEF RowActive
    <3> QED
      BY <1>5, <2>1, <3>1
  <2>2. CASE n # m
    <3>1. RowActive(n) /\ rows[n].session = t
      BY <1>5, <1>14, <2>2 DEF RowActive
    <3>2. CASE t \in deleted
      BY <1>6, <1>10, <3>1, <3>2 DEF StoreInv, DeleteIsDurable
    <3>3. CASE t = s
      <4>1. ~(detaching # Free /\ detaching.id = n)
        BY <1>3, <2>2
      <4>2. Late(n) \/ WriteWentWrong(n) \/ LeaveUnderWay(n)
        BY <1>2, <1>7, <3>1, <3>3, <4>1, NowDeleted
      <4> QED
        BY <1>6, <1>10, <4>2
    <3> QED
      BY <1>8, <1>14, <3>2, <3>3
  <2> QED
    BY <2>1, <2>2
<1>15. DeleteIsDurable'
  BY <1>14 DEF DeleteIsDurable
<1> QED
  BY <1>9, <1>12, <1>13, <1>15 DEF StoreInv

LEMMA StoreDetach ==
  ASSUME Inv, StoreInv, NEW who \in Detachers, NEW s \in Sessions, Detach(who, s)
  PROVE  StoreInv'
<1> USE DEF memory, sessionVars, detachVars
<1>1. /\ <<who, s>> \in detachers /\ sessions[s] = "done" /\ detaching = Free /\ status = "up"
      /\ UNCHANGED <<status, rows, sessions, calls, mishaps>>
  BY DEF Detach, Inv, OnlyWhileUp
<1>2. \A n \in MemberIds : /\ Late(n)' <=> Late(n)
                           /\ WriteWentWrong(n)' <=> WriteWentWrong(n)
                           /\ LeaveUnderWay(n)' <=> LeaveUnderWay(n)
  BY <1>1 DEF Late, WriteWentWrong, LeaveUnderWay
<1>3. CASE boundTo[s] = NoRoom
  <2>1. /\ UNCHANGED <<members, detaching>>
        /\ deleted' = deleted \/ deleted' = deleted \cup {s}
    BY <1>3 DEF Detach, Finished
  <2>2. \A n \in MemberIds : IsActive(n) => members[n].session # s
    BY <1>3, ActiveIsBound DEF Inv
  <2>3. LateOnly(s)
    BY <2>2 DEF LateOnly
  <2>4. SavesFit' /\ DetachFits'
    BY <1>1, <2>1 DEF StoreInv, SavesFit, DetachFits
  <2>5. RowsFollow'
    <3>1. \A n \in MemberIds : BeingWritten(n)' <=> BeingWritten(n)
      BY <1>1, <2>1 DEF BeingWritten
    <3> QED
      BY <1>1, <1>2, <2>1, <3>1 DEF StoreInv, RowsFollow
  <2>6. DeletedFit'
    <3>1. \A n \in MemberIds : IsActive(n)' <=> IsActive(n)
      BY <2>1 DEF IsActive
    <3> QED
      BY <1>1, <1>2, <2>1, <2>2, <3>1 DEF StoreInv, DeletedFit
  <2>7. ASSUME NEW t \in deleted', NEW n \in MemberIds, RowActive(n), rows[n].session = t
        PROVE  Late(n) \/ WriteWentWrong(n) \/ LeaveUnderWay(n)
    <3>1. CASE t \in deleted
      BY <2>7, <3>1 DEF StoreInv, DeleteIsDurable
    <3>2. CASE t = s
      BY <1>1, <2>3, <2>7, <3>2, NowDeleted
    <3> QED
      BY <2>1, <2>7, <3>1, <3>2
  <2>8. DeleteIsDurable'
    BY <1>1, <1>2, <2>7 DEF DeleteIsDurable, RowActive
  <2> QED
    BY <2>4, <2>5, <2>6, <2>8 DEF StoreInv
<1>4. CASE boundTo[s] # NoRoom
  <2>1. PICK m \in MemberIds :
          /\ IsActive(m) /\ members[m].session = s /\ EndMember(m)
          /\ detaching' = [by |-> who, session |-> s, id |-> m]
          /\ detachers' = detachers /\ deleted' = deleted
    BY <1>4 DEF Detach
  <2>2. /\ ~IsActive(m)' /\ members'[m] # NoMember /\ ~members'[m].active
        /\ SameBinding(members'[m], members[m])
        /\ \A n \in MemberIds \ {m} : members'[n] = members[n]
        /\ \A d \in Clients : calls[d].at = "save" =>
             LET v == calls[d].member IN
             /\ members'[calls[d].id] # NoMember /\ SameBinding(v, members'[calls[d].id])
             /\ members'[calls[d].id].active => v.active
    BY <2>1, EndFits
  <2>3. detaching'.by = who /\ detaching'.session = s /\ detaching'.id = m /\ detaching' # Free
    BY <2>1 DEF Free
  <2>4. SavesFit'
    BY <1>1, <2>2 DEF SavesFit, SameBinding
  <2>5. DetachFits'
    BY <1>1, <2>1, <2>2, <2>3 DEF DetachFits, SameBinding
  <2>6. RowsFollow'
    <3>1. BeingWritten(m)'
      BY <2>3 DEF BeingWritten
    <3>2. \A n \in MemberIds \ {m} : BeingWritten(n) => BeingWritten(n)'
      BY <1>1, <2>2 DEF BeingWritten
    <3> QED
      BY <1>1, <1>2, <2>2, <3>1, <3>2 DEF StoreInv, RowsFollow, SameBinding
  <2>7. DeletedFit'
    <3>1. \A n \in MemberIds \ {m} : IsActive(n)' <=> IsActive(n)
      BY <2>2 DEF IsActive
    <3>2. members'[m].session = s
      BY <2>1, <2>2 DEF SameBinding
    <3>3. ASSUME NEW t \in deleted, NEW n \in MemberIds, members'[n] # NoMember,
                 members'[n].session = t, IsActive(n)' \/ n = m
          PROVE  Late(n)
      <4>1. status = "up" => (members[n] # NoMember /\ members[n].session = t /\ IsActive(n) => Late(n))
        BY <3>3 DEF StoreInv, DeletedFit
      <4>2. CASE n = m
        BY <1>1, <2>1, <3>2, <3>3, <4>1, <4>2 DEF IsActive
      <4>3. CASE n # m
        BY <1>1, <2>2, <3>1, <3>3, <4>1, <4>3
      <4> QED
        BY <4>2, <4>3
    <3>4. \A t \in deleted : sessions[t] = "done"
      BY DEF StoreInv, DeletedFit
    <3>5. ASSUME NEW t \in deleted', NEW n \in MemberIds, members'[n] # NoMember,
                 members'[n].session = t, IsActive(n)' \/ detaching'.id = n
          PROVE  Late(n)'
      BY <1>2, <2>1, <2>3, <3>3, <3>5
    <3> QED
      BY <1>1, <2>1, <3>4, <3>5 DEF DeletedFit
  <2>8. DeleteIsDurable'
    BY <1>1, <1>2, <2>1 DEF StoreInv, DeleteIsDurable, RowActive
  <2> QED
    BY <2>4, <2>5, <2>6, <2>7, <2>8 DEF StoreInv
<1> QED
  BY <1>3, <1>4

LEMMA StoreRestart ==
  ASSUME Inv, StoreInv, Crash \/ Hydrate \/ StampFails \/ Serve \/ \E m \in MemberIds : Stamp(m)
  PROVE  StoreInv'
<1> USE DEF memory, sessionVars, detachVars
<1>1. CASE Crash
  <2>1. /\ status' = "down" /\ detaching' = Free /\ deleted' = deleted /\ rows' = rows
        /\ \A c \in Clients : calls'[c].at # "save"
        /\ \A s \in Sessions : sessions[s] = "done" => sessions'[s] = "done"
        /\ mishaps \subseteq mishaps'
        /\ \A m \in MemberIds : BeingSaved(m) => WriteWentWrong(m)'
    BY <1>1 DEF Crash, Gone, Idle, WriteWentWrong
  <2>2. \A m \in MemberIds : LeaveUnderWay(m) => WriteWentWrong(m)'
    BY <2>1 DEF LeaveUnderWay, BeingSaved
  <2>3. DeleteIsDurable'
    BY <2>1, <2>2, MishapsStand DEF StoreInv, DeleteIsDurable, RowActive
  <2> QED
    BY <2>1, <2>3 DEF StoreInv, SavesFit, DetachFits, RowsFollow, DeletedFit, Inv, TypeOK
<1>2. ASSUME Hydrate \/ StampFails \/ \E m \in MemberIds : Stamp(m)
      PROVE  StoreInv'
  <2>1. /\ status # "up" /\ status' \in {"down", "starting"}
        /\ UNCHANGED <<sessions, detaching, deleted, calls>>
    BY <1>2 DEF Hydrate, StampFails, Gone, Stamp
  <2>2. detaching = Free /\ \A c \in Clients : calls[c] = Idle
    BY <2>1 DEF Inv, OnlyWhileUp
  <2>3. SavesFit' /\ DetachFits' /\ DeletedFit'
    BY <2>1, <2>2 DEF StoreInv, SavesFit, DetachFits, DeletedFit, Idle
  <2>4. CASE Hydrate \/ StampFails
    <3>1. rows' = rows /\ mishaps' = mishaps /\ (status' = "down" \/ members' = rows)
      BY <2>4 DEF Hydrate, StampFails, Gone
    <3>2. RowsFollow'
      BY <2>1, <3>1 DEF RowsFollow
    <3>3. DeleteIsDurable'
      BY <2>1, <3>1 DEF StoreInv, DeleteIsDurable, RowActive, Late, WriteWentWrong, LeaveUnderWay
    <3> QED
      BY <2>3, <3>2, <3>3 DEF StoreInv
  <2>5. ASSUME NEW m \in MemberIds, Stamp(m)
        PROVE  StoreInv'
    <3>1. /\ IsActive(m) /\ EndMember(m) /\ status = "starting" /\ status' = status
          /\ rows' = [rows EXCEPT ![m] = [members[m] EXCEPT !.active = FALSE]]
          /\ mishaps' = mishaps
      <4>1. ~[members[m] EXCEPT !.active = FALSE].active
        BY <2>5, EndedMember DEF Stamp, Inv, IsActive
      <4> QED
        BY <2>5, <4>1 DEF Stamp, Upsert
    <3>2. /\ members'[m] = [members[m] EXCEPT !.active = FALSE] /\ ~members'[m].active
          /\ \A n \in MemberIds \ {m} : members'[n] = members[n]
          /\ members \in [MemberIds -> Member \cup {NoMember}]
          /\ rows \in [MemberIds -> Member \cup {NoMember}]
      BY <3>1, EndFits DEF Inv, TypeOK
    <3>3. rows = members
      BY <3>1 DEF StoreInv, RowsFollow
    <3>4. rows' = members'
      BY <3>1, <3>3 DEF EndMember
    <3>5. ~RowActive(m)' /\ \A n \in MemberIds \ {m} : rows'[n] = rows[n]
      BY <3>2, <3>3, <3>4 DEF RowActive
    <3>6. DeleteIsDurable'
      BY <2>1, <3>1, <3>5 DEF StoreInv, DeleteIsDurable, RowActive, Late, WriteWentWrong, LeaveUnderWay
    <3> QED
      BY <2>3, <3>1, <3>4, <3>6 DEF StoreInv, RowsFollow
  <2> QED
    BY <1>2, <2>4, <2>5
<1>3. CASE Serve
  <2>1. /\ status = "starting" /\ status' = "up" /\ \A m \in MemberIds : ~IsActive(m)
        /\ UNCHANGED <<members, rows, sessions, detaching, deleted, calls>>
    BY <1>3 DEF Serve
  <2>2. detaching = Free /\ \A c \in Clients : calls[c] = Idle
    BY <2>1 DEF Inv, OnlyWhileUp
  <2>3. rows = members
    BY <2>1 DEF StoreInv, RowsFollow
  <2>4. RowsFollow'
    BY <2>1, <2>3 DEF RowsFollow, SameBinding
  <2>5. \A m \in MemberIds : ~IsActive(m)' /\ ~RowActive(m)'
    BY <2>1, <2>3 DEF IsActive, RowActive
  <2>6. DeletedFit' /\ DeleteIsDurable'
    BY <2>1, <2>2, <2>5 DEF StoreInv, DeletedFit, DeleteIsDurable
  <2> QED
    BY <2>1, <2>2, <2>4, <2>6 DEF StoreInv, SavesFit, DetachFits, Idle
<1> QED
  BY <1>1, <1>2, <1>3

LEMMA StoreStep == Inv /\ Inv' /\ ExitInv /\ StoreInv /\ [Next]_vars => StoreInv'
<1> SUFFICES ASSUME Inv, Inv', ExitInv, StoreInv, [Next]_vars PROVE StoreInv'
  OBVIOUS
<1> USE DEF memory, sessionVars, detachVars
<1>1. ASSUME NEW c \in Clients, Call(c)
      PROVE  StoreInv'
  <2>1. ASSUME JoinRefused(c) \/ \E b \in Binding : JoinCheck(c, b)
        PROVE  StoreInv'
    <3>1. \A d \in Clients : calls[d].at = "save" \/ calls'[d].at = "save" => calls'[d] = calls[d]
      BY <2>1 DEF JoinRefused, JoinCheck, Inv, TypeOK, Idle
    <3>2. UNCHANGED <<status, members, rows, mishaps, detaching, deleted, detachers, sessions>>
      BY <2>1 DEF JoinRefused, JoinCheck
    <3> QED
      BY <3>1, <3>2, NothingWritten
  <2> QED
    BY <1>1, <2>1, StoreJoinBind, StoreLeave, StoreSaveCall DEF Call
<1>2. ASSUME NEW s \in Sessions, SessionStep(s)
      PROVE  StoreInv'
  <2>1. ASSUME CreateSession(s) \/ Exit(s) \/ Reap(s) \/ DeleteSession(s)
        PROVE  StoreInv'
    <3>1. /\ UNCHANGED <<status, members, rows, mishaps, detaching, deleted, calls>>
          /\ detachers \subseteq detachers'
          /\ \A t \in Sessions : sessions[t] = "done" => sessions'[t] = "done"
      BY <2>1 DEF CreateSession, Exit, Reap, DeleteSession, Inv, TypeOK
    <3> QED
      BY <3>1, NothingWritten
  <2> QED
    BY <1>2, <2>1, StoreDetach DEF SessionStep
<1>3. CASE UNCHANGED vars
  BY <1>3, NothingWritten DEF vars
<1> QED
  BY <1>1, <1>2, <1>3, StoreSaveDetached, StoreRestart DEF Next

(* In every state what is on its way covers what the store does not have.  *)
THEOREM StoreFollows == Spec => []StoreInv
<1>1. Spec => [](Inv /\ ExitInv)
  BY Safety, ExitsHold, PTL
<1> QED
  BY <1>1, StoreInit, StoreStep, PTL DEF Spec

(* With nothing in progress a row differs from memory only if a write of   *)
(* that membership was lost, refused or overtaken by that of its end.      *)
THEOREM StoreSettles == Spec => []DivergenceHasCause
<1>1. StoreInv => DivergenceHasCause
  <2> SUFFICES ASSUME StoreInv, Quiet, NEW m \in MemberIds, rows[m] # members[m]
               PROVE  WriteWentWrong(m)
    BY DEF DivergenceHasCause
  <2>1. ~BeingWritten(m)
    BY DEF Quiet, BeingWritten, Idle
  <2> QED
    BY <2>1 DEF StoreInv, RowsFollow, Quiet
<1> QED
  BY <1>1, StoreFollows, PTL

(* A session that DeleteSession removed has no active row but that of a    *)
(* late join, of a write that went wrong, or of a LeaveRoom still saving.  *)
THEOREM DeletedForGood == Spec => []DeleteIsDurable
<1>1. StoreInv => DeleteIsDurable
  BY DEF StoreInv
<1> QED
  BY <1>1, StoreFollows, PTL
=============================================================================
