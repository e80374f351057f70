-------------------------- MODULE MCRoomMembership --------------------------
(***************************************************************************)
(* Any number of calls overlap until the broker ends, which it may do in   *)
(* the midst of them; after that one client calls at a time.               *)
(***************************************************************************)
EXTENDS RoomMembership, TLC

Busy(c) == calls[c] # Idle

MCNext ==
  /\ Next
  /\ crashes' > 0 => \A c, d \in Clients : Busy(c)' /\ Busy(d)' => c = d

MCSpec == Init /\ [][MCNext]_vars

\* Clients, sessions and agents are interchangeable.
Symmetry == Permutations(Clients) \cup Permutations(Sessions) \cup Permutations(Agents)
=============================================================================
