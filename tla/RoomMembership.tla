--------------------------- MODULE RoomMembership ---------------------------
(***************************************************************************)
(* Room memberships of foxprox: the room manager's memory, the store it is *)
(* written through to, the sessions members are bound to, and the end of a *)
(* session, which several goroutines notice.                               *)
(*                                                                         *)
(* Memory changes under one mutex; the copy it returns is written to the   *)
(* store after the lock, so writes may arrive in any order, and the store  *)
(* may fail, which nothing makes up for.  Rooms exist and are stored: they *)
(* are created once and the broker archives none.                          *)
(***************************************************************************)
EXTENDS Naturals, FiniteSets

CONSTANTS
  Rooms, Agents, Sessions,
  Clients,     \* callers of JoinRoom and LeaveRoom, one call each at a time
  NoMember,    \* no member, no row
  NoRoom,      \* the session is bound to no room
  MaxJoins,    \* bound: memberships
  MaxCrashes   \* bound: ends of the broker

ASSUME RoomMembershipAssumption ==
  /\ NoRoom \notin Rooms
  /\ MaxJoins \in Nat /\ MaxCrashes \in Nat

MemberIds == 1..MaxJoins
Binding == [room: Rooms, agent: Agents, session: Sessions]
Member == [room: Rooms, agent: Agents, session: Sessions, active: BOOLEAN]

ASSUME NoMemberAssumption == NoMember \notin Member

VARIABLES
  status,     \* of the broker: "up", "down", or "starting"
  members,    \* members[m]: the manager's row of membership m
  boundTo,    \* sessionToRoom
  joins,      \* memberships so far; joined_at tells them apart
  rows,       \* rows[m]: the stored row of membership m
  sessions,   \* sessions[s]: "new", "running", or "done"
  registered, \* sessions in the session manager's registry
  detachers,  \* <<who, s>>: goroutines that will detach s once it is done
  detaching,  \* the detach that holds detachMu, with the row it has to save
  deleted,    \* sessions whose DeleteSession returned
  calls,      \* calls[c]: where c's call got
  crashes,
  mishaps     \* history of the broker since it started: <<what, m>>, what befell
              \* the writes of m, or "late" if m was bound after its session's end

memory == <<members, boundTo, joins>>
sessionVars == <<sessions, registered>>
detachVars == <<detachers, detaching, deleted>>
vars == <<status, memory, rows, sessionVars, detachVars, calls, crashes, mishaps>>

Idle == [at |-> "idle"]
Free == [by |-> "nobody"]
Detachers == {"watcher", "delete"}
Mishaps == {"late", "lost", "refused", "overtaken"}

Clash(b, c) ==
  \/ b.session = c.session
  \/ b.room = c.room /\ b.agent = c.agent

IsActive(m) == members[m] # NoMember /\ members[m].active
RowActive(m) == rows[m] # NoMember /\ rows[m].active
-----------------------------------------------------------------------------
Init ==
  /\ status = "up"
  /\ members = [m \in MemberIds |-> NoMember]
  /\ boundTo = [s \in Sessions |-> NoRoom]
  /\ joins = 0
  /\ rows = [m \in MemberIds |-> NoMember]
  /\ sessions = [s \in Sessions |-> "new"]
  /\ registered = {}
  /\ detachers = {}
  /\ detaching = Free
  /\ deleted = {}
  /\ calls = [c \in Clients |-> Idle]
  /\ crashes = 0
  /\ mishaps = {}

(* SaveMember: an upsert on the membership; the partial unique indexes     *)
(* refuse an active row that clashes with another active one.  A write     *)
(* that was refused or lost is reported or dropped, and never repeated.    *)
Refused(m, value) ==
  value.active /\ \E n \in MemberIds \ {m} : RowActive(n) /\ Clash(rows[n], value)

\* A join that finds its row there comes after its own end.
Upsert(m, value) ==
  /\ rows' = [rows EXCEPT ![m] = value]
  /\ mishaps' = IF value.active /\ rows[m] # NoMember
                THEN mishaps \cup {<<"overtaken", m>>} ELSE mishaps

NotSaved(m, why) ==
  /\ rows' = rows
  /\ mishaps' = mishaps \cup {<<why, m>>}

Save(m, value) ==
  \/ Refused(m, value) /\ NotSaved(m, "refused")
  \/ ~Refused(m, value) /\ (Upsert(m, value) \/ NotSaved(m, "lost"))
-----------------------------------------------------------------------------
(* JoinRoom: look the session up, bind it in memory, save the row.         *)
JoinCheck(c, b) ==
  /\ status = "up" /\ calls[c] = Idle
  /\ b.session \in registered
  /\ calls' = [calls EXCEPT ![c] = [at |-> "bind", member |-> b]]
  /\ UNCHANGED <<status, memory, rows, sessionVars, detachVars, crashes, mishaps>>

CanBind(b) ==
  /\ boundTo[b.session] = NoRoom
  /\ \A m \in MemberIds : IsActive(m) =>
       ~(members[m].room = b.room /\ members[m].agent = b.agent)

JoinRefused(c) ==
  /\ calls[c].at = "bind" /\ ~CanBind(calls[c].member)
  /\ calls' = [calls EXCEPT ![c] = Idle]
  /\ UNCHANGED <<status, memory, rows, sessionVars, detachVars, crashes, mishaps>>

JoinBind(c) ==
  LET b == calls[c].member
      m == joins + 1
      new == [room |-> b.room, agent |-> b.agent, session |-> b.session, active |-> TRUE]
  IN
  /\ calls[c].at = "bind" /\ CanBind(b)
  /\ joins < MaxJoins
  /\ joins' = m
  /\ members' = [members EXCEPT ![m] = new]
  /\ boundTo' = [boundTo EXCEPT ![b.session] = b.room]
  /\ calls' = [calls EXCEPT ![c] = [at |-> "save", id |-> m, member |-> new]]
  /\ mishaps' = IF sessions[b.session] = "done" THEN mishaps \cup {<<"late", m>>} ELSE mishaps
  /\ UNCHANGED <<status, rows, sessionVars, detachVars, crashes>>

EndMember(m) ==
  /\ members' = [members EXCEPT ![m] = [@ EXCEPT !.active = FALSE]]
  /\ boundTo' = [boundTo EXCEPT ![members[m].session] = NoRoom]
  /\ UNCHANGED joins

\* Slip: leaving a room does not clear the session index.
LeaveKeepingIndex(c, m) ==
  /\ status = "up" /\ calls[c] = Idle
  /\ IsActive(m)
  /\ members' = [members EXCEPT ![m] = [@ EXCEPT !.active = FALSE]]
  /\ calls' = [calls EXCEPT ![c] =
       [at |-> "save", id |-> m, member |-> [members[m] EXCEPT !.active = FALSE]]]
  /\ UNCHANGED <<boundTo, joins, status, rows, sessionVars, detachVars, crashes, mishaps>>

\* LeaveRoom; without an active member it changes nothing.
Leave(c, m) ==
  /\ status = "up" /\ calls[c] = Idle
  /\ IsActive(m)
  /\ EndMember(m)
  /\ calls' = [calls EXCEPT ![c] =
       [at |-> "save", id |-> m, member |-> [members[m] EXCEPT !.active = FALSE]]]
  /\ UNCHANGED <<status, rows, sessionVars, detachVars, crashes, mishaps>>

\* The write-through of JoinRoom and LeaveRoom; its error is reported, and memory stays as it is.
SaveCall(c) ==
  /\ calls[c].at = "save"
  /\ Save(calls[c].id, calls[c].member)
  /\ calls' = [calls EXCEPT ![c] = Idle]
  /\ UNCHANGED <<status, memory, sessionVars, detachVars, crashes>>
-----------------------------------------------------------------------------
\* The watcher goroutine of the session starts with it.
CreateSession(s) ==
  /\ status = "up" /\ sessions[s] = "new"
  /\ sessions' = [sessions EXCEPT ![s] = "running"]
  /\ registered' = registered \cup {s}
  /\ detachers' = detachers \cup {<<"watcher", s>>}
  /\ UNCHANGED <<status, memory, rows, detaching, deleted, calls, crashes, mishaps>>

\* run closes done: the child exited or was told to.
Exit(s) ==
  /\ sessions[s] = "running"
  /\ sessions' = [sessions EXCEPT ![s] = "done"]
  /\ UNCHANGED <<status, memory, rows, registered, detachVars, calls, crashes, mishaps>>

\* The reaper, up to its interval later.
Reap(s) ==
  /\ s \in registered /\ sessions[s] = "done"
  /\ registered' = registered \ {s}
  /\ UNCHANGED <<status, memory, rows, sessions, detachVars, calls, crashes, mishaps>>

\* DeleteSession up to <-Done: it takes the session out of the registry first.
DeleteSession(s) ==
  /\ s \in registered
  /\ registered' = registered \ {s}
  /\ detachers' = detachers \cup {<<"delete", s>>}
  /\ UNCHANGED <<status, memory, rows, sessions, detaching, deleted, calls, crashes, mishaps>>

Finished(who, s) ==
  /\ detachers' = detachers \ {<<who, s>>}
  /\ deleted' = IF who = "delete" THEN deleted \cup {s} ELSE deleted

\* Slip: detachMu is not taken.
DetachUnlocked(who, s) ==
  /\ <<who, s>> \in detachers /\ sessions[s] = "done"
  /\ IF boundTo[s] = NoRoom
     THEN Finished(who, s) /\ UNCHANGED <<memory, detaching>>
     ELSE /\ detaching = Free
          /\ \E m \in MemberIds :
               /\ IsActive(m) /\ members[m].session = s
               /\ EndMember(m)
               /\ detaching' = [by |-> who, session |-> s, id |-> m]
          /\ UNCHANGED <<detachers, deleted>>
  /\ UNCHANGED <<status, rows, sessionVars, calls, crashes, mishaps>>

\* Slip: the end of a session leaves its membership alone.
DetachNothing(who, s) ==
  /\ <<who, s>> \in detachers /\ sessions[s] = "done" /\ detaching = Free
  /\ Finished(who, s)
  /\ UNCHANGED <<status, memory, rows, sessionVars, detaching, calls, crashes, mishaps>>

(* detachSessionFromRooms in memory, by the watcher and by DeleteSession.  *)
(* detachMu is held until the row is saved.                                *)
Detach(who, s) ==
  /\ <<who, s>> \in detachers /\ sessions[s] = "done" /\ detaching = Free
  /\ IF boundTo[s] = NoRoom
     THEN Finished(who, s) /\ UNCHANGED <<memory, detaching>>
     ELSE /\ \E m \in MemberIds :
               /\ IsActive(m) /\ members[m].session = s
               /\ EndMember(m)
               /\ detaching' = [by |-> who, session |-> s, id |-> m]
          /\ UNCHANGED <<detachers, deleted>>
  /\ UNCHANGED <<status, rows, sessionVars, calls, crashes, mishaps>>

\* Slip: the ended membership is not saved.
DropDetached ==
  /\ detaching # Free
  /\ detaching' = Free
  /\ Finished(detaching.by, detaching.session)
  /\ UNCHANGED <<status, memory, rows, sessionVars, calls, crashes, mishaps>>

\* The write-through of a detach; its error is dropped.
SaveDetached ==
  /\ detaching # Free
  /\ Save(detaching.id, members[detaching.id])
  /\ detaching' = Free
  /\ Finished(detaching.by, detaching.session)
  /\ UNCHANGED <<status, memory, sessionVars, calls, crashes>>
-----------------------------------------------------------------------------
BeingSaved(m) ==
  \/ \E c \in Clients : calls[c].at = "save" /\ calls[c].id = m
  \/ detaching # Free /\ detaching.id = m

Gone ==
  /\ status' = "down"
  /\ members' = [m \in MemberIds |-> NoMember]
  /\ boundTo' = [s \in Sessions |-> NoRoom]

(* The broker ends, by a crash or by Stop, which waits for no save.  Its   *)
(* sessions end with it.                                                   *)
Crash ==
  /\ status # "down" /\ crashes < MaxCrashes
  /\ crashes' = crashes + 1
  /\ Gone
  /\ sessions' = [s \in Sessions |-> IF sessions[s] = "new" THEN "new" ELSE "done"]
  /\ registered' = {}
  /\ detachers' = {}
  /\ detaching' = Free
  /\ calls' = [c \in Clients |-> Idle]
  /\ mishaps' = mishaps \cup {<<"lost", m>> : m \in {n \in MemberIds : BeingSaved(n)}}
  /\ UNCHANGED <<joins, rows, deleted>>

StoredIn(s, r) == \E m \in MemberIds : RowActive(m) /\ rows[m].session = s /\ rows[m].room = r

\* hydrate: memory is what the store holds, active rows included.
Hydrate ==
  /\ status = "down"
  /\ status' = "starting"
  /\ members' = rows
  /\ boundTo' = [s \in Sessions |->
       IF \E r \in Rooms : StoredIn(s, r) THEN CHOOSE r \in Rooms : StoredIn(s, r) ELSE NoRoom]
  /\ UNCHANGED <<joins, rows, sessionVars, detachVars, calls, crashes, mishaps>>

\* StampActiveMembersLeft, one member at a time.
Stamp(m) ==
  /\ status = "starting" /\ IsActive(m)
  /\ EndMember(m)
  /\ Upsert(m, [members[m] EXCEPT !.active = FALSE])
  /\ UNCHANGED <<status, sessionVars, detachVars, calls, crashes>>

\* A stamp that cannot be saved: there is no broker.
StampFails ==
  /\ status = "starting" /\ \E m \in MemberIds : IsActive(m)
  /\ Gone
  /\ UNCHANGED <<joins, rows, sessionVars, detachVars, calls, crashes, mishaps>>

\* Slip: the broker serves without having stamped what it loaded.
ServeAtOnce ==
  /\ status = "starting"
  /\ status' = "up"
  /\ mishaps' = {}
  /\ UNCHANGED <<memory, rows, sessionVars, detachVars, calls, crashes>>

\* With every loaded member stamped, the history begins anew.
Serve ==
  /\ status = "starting" /\ \A m \in MemberIds : ~IsActive(m)
  /\ status' = "up"
  /\ mishaps' = {}
  /\ UNCHANGED <<memory, rows, sessionVars, detachVars, calls, crashes>>

Call(c) ==
  \/ \E b \in Binding : JoinCheck(c, b)
  \/ JoinRefused(c) \/ JoinBind(c)
  \/ \E m \in MemberIds : Leave(c, m)
  \/ SaveCall(c)

SessionStep(s) ==
  \/ CreateSession(s) \/ Exit(s) \/ Reap(s) \/ DeleteSession(s)
  \/ \E who \in Detachers : Detach(who, s)

Next ==
  \/ \E c \in Clients : Call(c)
  \/ \E s \in Sessions : SessionStep(s)
  \/ SaveDetached
  \/ Crash \/ Hydrate \/ StampFails \/ Serve
  \/ \E m \in MemberIds : Stamp(m)

Spec == Init /\ [][Next]_vars
-----------------------------------------------------------------------------
CallStates ==
  {Idle} \cup [at: {"bind"}, member: Binding]
    \cup [at: {"save"}, id: MemberIds, member: Member]

TypeOK ==
  /\ status \in {"up", "down", "starting"}
  /\ members \in [MemberIds -> Member \cup {NoMember}]
  /\ boundTo \in [Sessions -> Rooms \cup {NoRoom}]
  /\ joins \in 0..MaxJoins
  /\ rows \in [MemberIds -> Member \cup {NoMember}]
  /\ sessions \in [Sessions -> {"new", "running", "done"}]
  /\ registered \subseteq Sessions
  /\ detachers \subseteq Detachers \X Sessions
  /\ detaching \in {Free} \cup [by: Detachers, session: Sessions, id: MemberIds]
  /\ deleted \subseteq Sessions
  /\ calls \in [Clients -> CallStates]
  /\ crashes \in 0..MaxCrashes
  /\ mishaps \subseteq Mishaps \X MemberIds

(* The index by session and the member rows say the same, although joins,  *)
(* leaves, detaches and the start change them separately: no session is    *)
(* active twice, and none is bound that the rows have let go.              *)
IndexInStep ==
  /\ \A m \in MemberIds : IsActive(m) => boundTo[members[m].session] = members[m].room
  /\ \A s \in Sessions : boundTo[s] # NoRoom =>
       \E m \in MemberIds : IsActive(m) /\ members[m].session = s
  /\ \A m, n \in MemberIds :
       IsActive(m) /\ IsActive(n) /\ Clash(members[m], members[n]) => m = n

(* "Detach runs on every exit path": once the watcher of an ended session  *)
(* has run, no member is bound to it.  The code does not keep this.        *)
Left(s) == \A m \in MemberIds : IsActive(m) => members[m].session # s
Watched(s) == sessions[s] # "done" \/ <<"watcher", s>> \in detachers

DeadSessionsLeave == status = "up" => \A s \in Sessions : Watched(s) \/ Left(s)

Late(m) == <<"late", m>> \in mishaps

(* What it does keep: a member of an ended session whose watcher has run   *)
(* was bound after that end.  Who was bound before it is let go, whatever  *)
(* joins, leaves and deletes come between.                                 *)
OnlyLateJoinsStay ==
  status = "up" =>
    \A s \in Sessions, m \in MemberIds :
      IsActive(m) /\ members[m].session = s => Watched(s) \/ Late(m)

(* With no call and no detach in progress the store holds what memory      *)
(* holds, "the row ends up in the right state", but for lost writes.  The  *)
(* order of the writes breaks this.                                        *)
Quiet ==
  /\ status = "up"
  /\ \A c \in Clients : calls[c] = Idle
  /\ detaching = Free

StoreAgrees == Quiet => \A m \in MemberIds : <<"lost", m>> \in mishaps \/ rows[m] = members[m]

(* What holds: a row differs from memory for a cause of its own.  A write  *)
(* of that very membership was lost, or refused, or came after that of its *)
(* end; no other way out of a call or a detach leaves a row behind.        *)
WriteWentWrong(m) == \E why \in {"lost", "refused", "overtaken"} : <<why, m>> \in mishaps

DivergenceHasCause ==
  Quiet => \A m \in MemberIds : rows[m] # members[m] => WriteWentWrong(m)

(* DeleteSession's caller may close the store at once: when it returns the *)
(* end of each membership is stored, whoever detached the session, but for *)
(* a late join, a write that went wrong, and a LeaveRoom that ended the    *)
(* membership and has yet to save it.                                      *)
LeaveUnderWay(m) ==
  \E c \in Clients : calls[c].at = "save" /\ calls[c].id = m /\ ~calls[c].member.active

DeleteIsDurable ==
  \A s \in deleted, m \in MemberIds :
    RowActive(m) /\ rows[m].session = s => Late(m) \/ WriteWentWrong(m) \/ LeaveUnderWay(m)

(* A membership stands while the broker that bound it keeps it active.     *)
Standing == [m \in MemberIds |->
  CASE m > joins -> [state |-> "new"]
    [] status = "up" /\ IsActive(m) ->
         [state |-> "bound", to |-> [room |-> members[m].room, agent |-> members[m].agent,
                                     session |-> members[m].session]]
    [] OTHER -> [state |-> "ended"]]

Promise == INSTANCE Memberships WITH standing <- Standing

(* Late writes may leave ended memberships active in the store, and the    *)
(* broker may end at any time; still no membership stands again, and none  *)
(* shares its session or its agent with another.                           *)
ImplementsMemberships == Promise!Spec
=============================================================================
