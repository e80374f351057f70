----------------------------- MODULE Delivery -----------------------------
(***************************************************************************)
(* What a leased mailbox promises, at-least-once delivery, without leases, *)
(* wake-ups or processes: a message is removed only once a handler has     *)
(* completed it; until it is removed it may be completed again.            *)
(***************************************************************************)
CONSTANT Msgs

\* stage[m]: how far message m has come.
VARIABLE stage

Init == stage = [m \in Msgs |-> "unsent"]

Move(m, from, next) == stage[m] \in from /\ stage' = [stage EXCEPT ![m] = next]

Send(m) == Move(m, {"unsent"}, "pending")
Complete(m) == Move(m, {"pending", "completed"}, "completed")
Remove(m) == Move(m, {"completed"}, "removed")

Next == \E m \in Msgs : Send(m) \/ Complete(m) \/ Remove(m)

Spec == Init /\ [][Next]_stage
=============================================================================
