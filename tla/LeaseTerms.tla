---------------------------- MODULE LeaseTerms ----------------------------
(***************************************************************************)
(* What the lease manager promises, without maps, locks or goroutines: a   *)
(* lease is granted once, while it stands no other lease on the terminal   *)
(* does, and it ends once, for one reason.                                 *)
(***************************************************************************)
EXTENDS Integers

CONSTANTS Sessions, LeaseIds, Endings, NoTerm

\* term[l]: the terminal lease l is for and how it stands, NoTerm if never granted.
VARIABLE term

Stands(l, s) == term[l] = [session |-> s, standing |-> "active"]

Init == term = [l \in LeaseIds |-> NoTerm]

Grant(l, s) ==
  /\ term[l] = NoTerm
  /\ \A m \in LeaseIds : ~Stands(m, s)
  /\ term' = [term EXCEPT ![l] = [session |-> s, standing |-> "active"]]

\* The old lease ends in the step that grants the new one.
Replace(old, l, s) ==
  /\ term[l] = NoTerm
  /\ Stands(old, s)
  /\ term' = [term EXCEPT ![l] = [session |-> s, standing |-> "active"],
                          ![old] = [session |-> s, standing |-> "preempted"]]

End(ls, why) ==
  /\ \A l \in ls : \E s \in Sessions : Stands(l, s)
  /\ term' = [l \in LeaseIds |->
       IF l \in ls THEN [session |-> term[l].session, standing |-> why] ELSE term[l]]

Next ==
  \/ \E l \in LeaseIds, s \in Sessions :
       Grant(l, s) \/ \E old \in LeaseIds : Replace(old, l, s)
  \/ \E ls \in SUBSET LeaseIds, why \in Endings : End(ls, why)

Spec == Init /\ [][Next]_term
=============================================================================
