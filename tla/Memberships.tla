---------------------------- MODULE Memberships ----------------------------
(***************************************************************************)
(* What foxprox promises of room memberships: a membership binds an agent  *)
(* of a room to one session, excludes every other that shares its session  *)
(* or its agent, and once ended never comes back, not even by a restart.   *)
(***************************************************************************)
EXTENDS Naturals

CONSTANTS Rooms, Agents, Sessions, MaxJoins

VARIABLE standing  \* standing[m]: the state of membership m, with its binding while it stands

Binding == [room: Rooms, agent: Agents, session: Sessions]

Clash(b, c) ==
  \/ b.session = c.session
  \/ b.room = c.room /\ b.agent = c.agent

New == [state |-> "new"]
Ended == [state |-> "ended"]
Bound(b) == [state |-> "bound", to |-> b]

Stands(m) == standing[m].state = "bound"

Init == standing = [m \in 1..MaxJoins |-> New]

Join(m, b) ==
  /\ standing[m] = New
  /\ \A n \in 1..MaxJoins : Stands(n) => ~Clash(standing[n].to, b)
  /\ standing' = [standing EXCEPT ![m] = Bound(b)]

\* Leaving, the end of a session, or the end of the broker with all of them.
End(ms) ==
  /\ \A m \in ms : Stands(m)
  /\ standing' = [m \in 1..MaxJoins |-> IF m \in ms THEN Ended ELSE standing[m]]

Next ==
  \/ \E ms \in SUBSET (1..MaxJoins) : End(ms)
  \/ \E m \in 1..MaxJoins, b \in Binding : Join(m, b)

Spec == Init /\ [][Next]_standing
=============================================================================
