------------------------- MODULE InputLeaseProofs -------------------------
(***************************************************************************)
(* Proofs that the lease manager keeps its two maps in step, finalizes     *)
(* every lease once with the reason it was let go for, and implements      *)
(* LeaseTerms, for any terminals, producers, TTLs and number of leases;    *)
(* and that intents and the router of TerminalInput only take steps of the *)
(* manager, so that all this holds for them, whatever their policies.      *)
(* Then what leases are for: while producers neither preempt nor outstay   *)
(* their leases, what a submit key submits is its producer's own text.     *)
(***************************************************************************)
EXTENDS TerminalInput, TLAPS

\* Ids are handed out in order.
Numbered == \A l \in LeaseIds : leases[l] # NoLease <=> l <= issued

\* Only leases that were issued are finalized.
OnlyIssued ==
  \A l \in LeaseIds, reason \in Endings : <<l, reason>> \in finalizing => leases[l] # NoLease

\* The inductive invariant.
LeaseInv == LeaseTypeOK /\ Numbered /\ OnlyIssued /\ MapsAgree /\ EndsOnce
-----------------------------------------------------------------------------
(* The records the actions build are values of their types.                *)
LEMMA Values ==
  ASSUME NEW l \in LeaseIds, NEW m \in LeaseIds
  PROVE  /\ Idle \in ProducerStates
         /\ Holding(l) \in ProducerStates
         /\ Acquiring(l, m) \in ProducerStates
         /\ Releasing(l) \in ProducerStates
BY DEF Idle, Holding, Acquiring, Releasing, ProducerStates

(* What "holding", "acquiring" and "releasing" remember are lease ids.     *)
LEMMA Remembered ==
  ASSUME LeaseTypeOK, NEW p \in Producers
  PROVE  /\ producers[p].at = "holding" => producers[p].lease \in LeaseIds
         /\ producers[p].at = "acquiring" =>
              producers[p].lease \in LeaseIds /\ producers[p].ends \in LeaseIds
         /\ producers[p].at = "releasing" => producers[p].ends \in LeaseIds
<1>1. producers[p] \in ProducerStates
  BY DEF LeaseTypeOK
<1> QED
  BY <1>1 DEF ProducerStates, Idle

(* No lease value is NoLease.                                              *)
LEMMA IssuedIsLease ==
  ASSUME LeaseTypeOK, NEW l \in LeaseIds, leases[l] # NoLease
  PROVE  /\ leases[l] \in Lease
         /\ leases[l].session \in Sessions
         /\ leases[l].left \in Nat
         /\ leases[l].reason \in Endings \cup {"active"}
<1>1. leases[l] \in Lease
  BY DEF LeaseTypeOK
<1> QED
  BY <1>1 DEF Lease

LEMMA FreshLease ==
  ASSUME NEW s \in Sessions, NEW ttl \in TTLs
  PROVE  /\ [session |-> s, left |-> ttl, reason |-> "active"] \in Lease
         /\ [session |-> s, left |-> ttl, reason |-> "active"] # NoLease
<1>1. ttl \in Nat
  BY InputLeaseAssumption
<1>2. [session |-> s, left |-> ttl, reason |-> "active"] \in Lease
  BY <1>1 DEF Lease
<1> QED
  BY <1>2, NoLeaseAssumption

(* The next id.                                                            *)
LEMMA NextId ==
  ASSUME LeaseInv, issued < MaxLeases
  PROVE  /\ issued + 1 \in LeaseIds
         /\ issued + 1 # Nobody
         /\ leases[issued + 1] = NoLease
         /\ issued + 1 \notin byID
         /\ \A s \in Sessions : byKey[s] # issued + 1
         /\ issued + 1 \in 0..MaxLeases
<1>1. issued \in Nat /\ MaxLeases \in Nat
  BY InputLeaseAssumption DEF LeaseInv, LeaseTypeOK
<1>2. issued + 1 \in LeaseIds /\ issued + 1 # Nobody /\ issued + 1 \in 0..MaxLeases
  BY <1>1 DEF LeaseIds, Nobody
<1>3. ~(issued + 1 <= issued)
  BY <1>1
<1>4. leases[issued + 1] = NoLease
  BY <1>2, <1>3 DEF LeaseInv, Numbered
<1>5. issued + 1 \notin byID
  BY <1>4 DEF LeaseInv, MapsAgree
<1>6. \A s \in Sessions : byKey[s] # issued + 1
  BY <1>2, <1>5 DEF LeaseInv, MapsAgree
<1> QED
  BY <1>2, <1>4, <1>5, <1>6
-----------------------------------------------------------------------------
(* Acquire keeps the invariant: the preempted lease leaves both maps and   *)
(* is finalized by the preemptor.                                          *)
LEMMA AcquireKeeps ==
  ASSUME LeaseInv, NEW p \in Producers, NEW s \in Sessions, NEW ttl \in TTLs,
         NEW preempt \in BOOLEAN, Acquire(p, s, ttl, preempt)
  PROVE  LeaseInv'
<1> DEFINE l == issued + 1
           old == byKey[s]
           new == [session |-> s, left |-> ttl, reason |-> "active"]
<1>1. /\ l \in LeaseIds /\ l # Nobody /\ leases[l] = NoLease /\ l \notin byID
      /\ \A t \in Sessions : byKey[t] # l
      /\ l \in 0..MaxLeases
  BY NextId DEF Acquire, CanAcquire
<1>2. new \in Lease /\ new # NoLease
  BY FreshLease
<1>3. old \in LeaseIds \cup {Nobody}
  BY DEF LeaseInv, LeaseTypeOK
<1>4. /\ issued' = l
      /\ leases' = [leases EXCEPT ![l] = new]
      /\ byKey' = [byKey EXCEPT ![s] = l]
      /\ byID' = (byID \ {old}) \cup {l}
      /\ finalizing' = IF old = Nobody THEN finalizing
                                       ELSE finalizing \cup {<<old, "preempted">>}
      /\ producers' = [producers EXCEPT ![p] =
           IF old = Nobody THEN Holding(l) ELSE Acquiring(l, old)]
      /\ stopped' = stopped
  BY DEF Acquire
<1>5. Nobody \notin LeaseIds
  BY DEF Nobody, LeaseIds
<1>6. /\ leases'[l] = new
      /\ \A m \in LeaseIds \ {l} : leases'[m] = leases[m]
  BY <1>1, <1>4 DEF LeaseInv, LeaseTypeOK
<1>7. /\ byKey'[s] = l
      /\ \A t \in Sessions \ {s} : byKey'[t] = byKey[t]
  BY <1>4 DEF LeaseInv, LeaseTypeOK
<1>8. old # Nobody => /\ old \in byID
                      /\ leases[old] # NoLease
                      /\ leases[old].session = s
                      /\ old # l
  BY <1>1 DEF LeaseInv, MapsAgree
<1>9. LeaseTypeOK'
  <2>1. byKey' \in [Sessions -> LeaseIds \cup {Nobody}]
    BY <1>1, <1>4 DEF LeaseInv, LeaseTypeOK
  <2>2. byID' \subseteq LeaseIds
    BY <1>1, <1>4 DEF LeaseInv, LeaseTypeOK
  <2>3. leases' \in [LeaseIds -> Lease \cup {NoLease}]
    BY <1>1, <1>2, <1>4 DEF LeaseInv, LeaseTypeOK
  <2>4. finalizing' \subseteq LeaseIds \X Endings
    BY <1>3, <1>4 DEF LeaseInv, LeaseTypeOK, Endings
  <2>5. (IF old = Nobody THEN Holding(l) ELSE Acquiring(l, old)) \in ProducerStates
    BY <1>1, <1>3, Values
  <2>6. producers' \in [Producers -> ProducerStates]
    BY <1>4, <2>5 DEF LeaseInv, LeaseTypeOK
  <2> QED
    BY <1>1, <1>4, <2>1, <2>2, <2>3, <2>4, <2>6 DEF LeaseInv, LeaseTypeOK
<1>10. Numbered'
  <2> SUFFICES ASSUME NEW m \in LeaseIds
               PROVE  leases'[m] # NoLease <=> m <= issued'
    BY DEF Numbered
  <2>1. issued \in Nat /\ m \in Nat
    BY DEF LeaseInv, LeaseTypeOK, LeaseIds
  <2>2. CASE m = l
    BY <1>2, <1>4, <1>6, <2>1, <2>2
  <2>3. CASE m # l
    <3>1. m <= l <=> m <= issued
      BY <2>1, <2>3
    <3> QED
      BY <1>4, <1>6, <2>3, <3>1 DEF LeaseInv, Numbered
  <2> QED
    BY <2>2, <2>3
<1>11. MapsAgree'
  <2>1. ASSUME NEW t \in Sessions, byKey'[t] # Nobody
        PROVE  byKey'[t] \in byID' /\ leases'[byKey'[t]].session = t
    <3>1. CASE t = s
      BY <1>4, <1>6, <1>7, <3>1
    <3>2. CASE t # s
      <4>1. byKey'[t] = byKey[t] /\ byKey[t] \in byID /\ leases[byKey[t]].session = t
        BY <1>7, <2>1, <3>2 DEF LeaseInv, MapsAgree
      <4>2. byKey[t] # l /\ byKey[t] # old /\ byKey[t] \in LeaseIds
        BY <1>1, <1>8, <2>1, <3>2, <4>1 DEF LeaseInv, LeaseTypeOK
      <4> QED
        BY <1>4, <1>6, <4>1, <4>2
    <3> QED
      BY <3>1, <3>2
  <2>2. ASSUME NEW m \in byID'
        PROVE  leases'[m] # NoLease /\ byKey'[leases'[m].session] = m
    <3>1. CASE m = l
      BY <1>2, <1>6, <1>7, <3>1
    <3>2. CASE m # l
      <4>1. m \in byID /\ m # old /\ m \in LeaseIds
        BY <1>4, <2>2, <3>2 DEF LeaseInv, LeaseTypeOK
      <4>2. leases[m] # NoLease /\ byKey[leases[m].session] = m /\ leases'[m] = leases[m]
        BY <1>6, <3>2, <4>1 DEF LeaseInv, MapsAgree
      <4>3. leases[m].session \in Sessions /\ leases[m].session # s
        BY <4>1, <4>2, IssuedIsLease DEF LeaseInv
      <4> QED
        BY <1>7, <4>2, <4>3
    <3> QED
      BY <3>1, <3>2
  <2> QED
    BY <2>1, <2>2 DEF MapsAgree
<1>12. EndsOnce'
  <2> SUFFICES ASSUME NEW m \in LeaseIds, leases'[m] # NoLease
               PROVE
                 \/ /\ m \in byID'
                    /\ IsActive(m)'
                    /\ \A reason \in Endings : <<m, reason>> \notin finalizing'
                 \/ /\ m \notin byID'
                    /\ IsActive(m)'
                    /\ \E reason \in Endings :
                         \A other \in Endings : <<m, other>> \in finalizing' <=> other = reason
                 \/ /\ m \notin byID'
                    /\ ~IsActive(m)'
                    /\ \A reason \in Endings : <<m, reason>> \notin finalizing'
    BY DEF EndsOnce
  <2>1. CASE m = l
    <3>1. m \in byID' /\ IsActive(m)'
      BY <1>2, <1>4, <1>6, <2>1 DEF IsActive
    <3>2. \A reason \in Endings : <<m, reason>> \notin finalizing
      BY <1>1, <2>1 DEF LeaseInv, OnlyIssued
    <3> QED
      BY <1>4, <1>8, <2>1, <3>1, <3>2
  <2>2. CASE m # l /\ m = old
    <3>1. /\ m \in byID /\ leases[m] # NoLease /\ leases'[m] = leases[m]
          /\ old # Nobody
      BY <1>5, <1>6, <1>8, <2>2
    <3>2. IsActive(m) /\ \A reason \in Endings : <<m, reason>> \notin finalizing
      BY <3>1 DEF LeaseInv, EndsOnce
    <3>3. m \notin byID' /\ IsActive(m)'
      BY <1>4, <2>2, <3>1, <3>2 DEF IsActive
    <3>4. \A other \in Endings : <<m, other>> \in finalizing' <=> other = "preempted"
      BY <1>4, <2>2, <3>1, <3>2
    <3>5. "preempted" \in Endings
      BY DEF Endings
    <3> QED
      BY <3>3, <3>4, <3>5
  <2>3. CASE m # l /\ m # old
    <3>1. /\ leases'[m] = leases[m]
          /\ m \in byID' <=> m \in byID
          /\ \A other \in Endings : <<m, other>> \in finalizing' <=> <<m, other>> \in finalizing
          /\ IsActive(m)' <=> IsActive(m)
      BY <1>4, <1>6, <2>3 DEF IsActive
    <3> QED
      BY <3>1 DEF LeaseInv, EndsOnce
  <2> QED
    BY <2>1, <2>2, <2>3
<1>13. OnlyIssued'
  <2> SUFFICES ASSUME NEW m \in LeaseIds, NEW reason \in Endings, <<m, reason>> \in finalizing'
               PROVE  leases'[m] # NoLease
    BY DEF OnlyIssued
  <2>1. CASE m = l
    BY <1>2, <1>6, <2>1
  <2>2. CASE m # l /\ m = old
    BY <1>5, <1>6, <1>8, <2>2
  <2>3. CASE m # l /\ m # old
    <3>1. <<m, reason>> \in finalizing
      BY <1>4, <2>3
    <3> QED
      BY <1>6, <2>3, <3>1 DEF LeaseInv, OnlyIssued
  <2> QED
    BY <2>1, <2>2, <2>3
<1> QED
  BY <1>9, <1>10, <1>11, <1>12, <1>13 DEF LeaseInv

(* Release and expire keep it: the lease leaves both maps with one reason. *)
LEMMA RemoveKeeps ==
  ASSUME LeaseInv, NEW l \in byID, NEW why \in Endings, Remove(l, why),
         producers' \in [Producers -> ProducerStates]
  PROVE  LeaseInv'
<1>1. /\ l \in LeaseIds
      /\ leases[l] # NoLease
      /\ byKey[leases[l].session] = l
      /\ IsActive(l)
      /\ \A reason \in Endings : <<l, reason>> \notin finalizing
  BY DEF LeaseInv, LeaseTypeOK, MapsAgree, EndsOnce
<1>2. PICK s \in Sessions : s = leases[l].session
  BY <1>1, IssuedIsLease DEF LeaseInv
<1>3. /\ byID' = byID \ {l}
      /\ byKey' = [byKey EXCEPT ![s] = Nobody]
      /\ finalizing' = finalizing \cup {<<l, why>>}
      /\ leases' = leases /\ issued' = issued /\ stopped' = stopped
  BY <1>2 DEF Remove
<1>4. byKey'[s] = Nobody /\ \A t \in Sessions \ {s} : byKey'[t] = byKey[t]
  BY <1>3 DEF LeaseInv, LeaseTypeOK
<1>5. LeaseTypeOK'
  <2>1. byKey' \in [Sessions -> LeaseIds \cup {Nobody}]
    BY <1>3 DEF LeaseInv, LeaseTypeOK
  <2>2. finalizing' \subseteq LeaseIds \X Endings
    BY <1>1, <1>3 DEF LeaseInv, LeaseTypeOK
  <2> QED
    BY <1>3, <2>1, <2>2 DEF LeaseInv, LeaseTypeOK
<1>6. Numbered'
  BY <1>3 DEF LeaseInv, Numbered
<1>7. OnlyIssued'
  BY <1>1, <1>3 DEF LeaseInv, OnlyIssued
<1>8. MapsAgree'
  <2>1. ASSUME NEW t \in Sessions, byKey'[t] # Nobody
        PROVE  byKey'[t] \in byID' /\ leases'[byKey'[t]].session = t
    <3>1. t # s /\ byKey'[t] = byKey[t]
      BY <1>4, <2>1
    <3>2. byKey[t] \in byID /\ leases[byKey[t]].session = t
      BY <2>1, <3>1 DEF LeaseInv, MapsAgree
    <3> QED
      BY <1>2, <1>3, <3>1, <3>2
  <2>2. ASSUME NEW m \in byID'
        PROVE  leases'[m] # NoLease /\ byKey'[leases'[m].session] = m
    <3>1. m \in byID /\ m # l /\ m \in LeaseIds
      BY <1>3, <2>2 DEF LeaseInv, LeaseTypeOK
    <3>2. leases[m] # NoLease /\ byKey[leases[m].session] = m
      BY <3>1 DEF LeaseInv, MapsAgree
    <3>3. leases[m].session \in Sessions /\ leases[m].session # s
      BY <1>1, <1>2, <3>1, <3>2, IssuedIsLease DEF LeaseInv
    <3> QED
      BY <1>3, <1>4, <3>2, <3>3
  <2> QED
    BY <2>1, <2>2 DEF MapsAgree
<1>9. EndsOnce'
  <2>1. IsActive(l)' /\ l \notin byID'
    BY <1>1, <1>3 DEF IsActive
  <2>2. \A other \in Endings : <<l, other>> \in finalizing' <=> other = why
    BY <1>1, <1>3
  <2>3. \A m \in LeaseIds \ {l} :
          /\ leases'[m] = leases[m]
          /\ m \in byID' <=> m \in byID
          /\ IsActive(m)' <=> IsActive(m)
          /\ \A other \in Endings : <<m, other>> \in finalizing' <=> <<m, other>> \in finalizing
    BY <1>3 DEF IsActive
  <2> QED
    BY <2>1, <2>2, <2>3 DEF LeaseInv, EndsOnce
<1> QED
  BY <1>5, <1>6, <1>7, <1>8, <1>9 DEF LeaseInv

(* Finalize keeps it: the one pending reason becomes the lease's reason.   *)
LEMMA FinalizeKeeps ==
  ASSUME LeaseInv, NEW l \in LeaseIds, NEW why \in Endings, Finalize(l, why)
  PROVE  LeaseInv'
<1>1. <<l, why>> \in finalizing /\ leases[l] # NoLease
  BY DEF Finalize, LeaseInv, OnlyIssued
<1>2. /\ l \notin byID /\ IsActive(l)
      /\ \A other \in Endings : <<l, other>> \in finalizing <=> other = why
  BY <1>1 DEF LeaseInv, EndsOnce
<1>3. /\ finalizing' = finalizing \ {<<l, why>>}
      /\ leases' = [leases EXCEPT ![l] = [@ EXCEPT !.reason = why]]
      /\ byKey' = byKey /\ byID' = byID /\ issued' = issued /\ stopped' = stopped
  BY <1>2 DEF Finalize
<1>4. leases[l] \in Lease
  BY <1>1, IssuedIsLease DEF LeaseInv
<1>5. /\ [leases[l] EXCEPT !.reason = why] \in Lease
      /\ [leases[l] EXCEPT !.reason = why].session = leases[l].session
      /\ [leases[l] EXCEPT !.reason = why].reason = why
  BY <1>4 DEF Lease
<1>6. [leases[l] EXCEPT !.reason = why] # NoLease
  BY <1>5, NoLeaseAssumption
<1>7. /\ leases'[l] = [leases[l] EXCEPT !.reason = why]
      /\ \A m \in LeaseIds \ {l} : leases'[m] = leases[m]
  BY <1>3 DEF LeaseInv, LeaseTypeOK
<1>8. \A m \in LeaseIds : /\ leases'[m] # NoLease <=> leases[m] # NoLease
                          /\ leases[m] # NoLease => leases'[m].session = leases[m].session
  BY <1>1, <1>5, <1>6, <1>7
<1>9. LeaseTypeOK'
  <2>1. leases' \in [LeaseIds -> Lease \cup {NoLease}]
    BY <1>3, <1>5 DEF LeaseInv, LeaseTypeOK
  <2>2. ASSUME NEW p \in Producers
        PROVE  producers'[p] \in ProducerStates
    <3>1. producers[p] \in ProducerStates
      BY DEF LeaseInv, LeaseTypeOK
    <3>2. producers'[p] =
            CASE producers[p].at = "acquiring" /\ producers[p].ends = l -> Holding(producers[p].lease)
              [] producers[p].at = "releasing" /\ producers[p].ends = l -> Idle
              [] OTHER -> producers[p]
      BY DEF Finalize
    <3>3. CASE producers[p].at = "acquiring" /\ producers[p].ends = l
      <4>1. producers'[p] = Holding(producers[p].lease)
        BY <3>2, <3>3
      <4> QED
        BY <3>3, <4>1, Remembered, Values DEF LeaseInv
    <3>4. CASE producers[p].at = "releasing" /\ producers[p].ends = l
      BY <3>2, <3>4, Values
    <3>5. CASE /\ ~(producers[p].at = "acquiring" /\ producers[p].ends = l)
               /\ ~(producers[p].at = "releasing" /\ producers[p].ends = l)
      BY <3>1, <3>2, <3>5
    <3> QED
      BY <3>3, <3>4, <3>5
  <2>3. producers' \in [Producers -> ProducerStates]
    BY <2>2 DEF Finalize
  <2> QED
    BY <1>3, <2>1, <2>3 DEF LeaseInv, LeaseTypeOK
<1>10. Numbered'
  BY <1>3, <1>8 DEF LeaseInv, Numbered
<1>11. OnlyIssued'
  BY <1>3, <1>8 DEF LeaseInv, OnlyIssued
<1>12. MapsAgree'
  <2>1. \A s \in Sessions : byKey[s] \in LeaseIds \cup {Nobody}
    BY DEF LeaseInv, LeaseTypeOK
  <2>2. \A m \in byID : m \in LeaseIds
    BY DEF LeaseInv, LeaseTypeOK
  <2>3. \A m \in byID : leases[m] # NoLease
    BY DEF LeaseInv, MapsAgree
  <2> QED
    BY <1>3, <1>8, <2>1, <2>2, <2>3 DEF LeaseInv, MapsAgree
<1>13. EndsOnce'
  <2>1. /\ l \notin byID'
        /\ ~IsActive(l)'
        /\ \A other \in Endings : <<l, other>> \notin finalizing'
    <3>1. why # "active"
      BY DEF Endings
    <3>2. ~IsActive(l)'
      BY <1>5, <1>7, <3>1 DEF IsActive
    <3> QED
      BY <1>2, <1>3, <3>2
  <2>2. \A m \in LeaseIds \ {l} :
          /\ leases'[m] = leases[m]
          /\ m \in byID' <=> m \in byID
          /\ IsActive(m)' <=> IsActive(m)
          /\ \A other \in Endings : <<m, other>> \in finalizing' <=> <<m, other>> \in finalizing
    BY <1>3, <1>7 DEF IsActive
  <2> QED
    BY <2>1, <2>2 DEF LeaseInv, EndsOnce
<1> QED
  BY <1>9, <1>10, <1>11, <1>12, <1>13 DEF LeaseInv
(* Stop keeps it: every lease in the maps is finalized as stopped.         *)
LEMMA StopKeeps ==
  ASSUME LeaseInv, Stop
  PROVE  LeaseInv'
<1>1. /\ byKey' = [s \in Sessions |-> Nobody] /\ byID' = {}
      /\ finalizing' = finalizing \cup {<<l, "stopped">> : l \in byID}
      /\ leases' = leases /\ issued' = issued /\ producers' = producers
      /\ stopped' = TRUE
  BY DEF Stop
<1>2. "stopped" \in Endings
  BY DEF Endings
<1>3. byID \subseteq LeaseIds
  BY DEF LeaseInv, LeaseTypeOK
<1>4. \A l \in LeaseIds, other \in Endings :
        <<l, other>> \in finalizing' <=>
          <<l, other>> \in finalizing \/ (l \in byID /\ other = "stopped")
  BY <1>1
<1>5. LeaseTypeOK'
  <2>1. byKey' \in [Sessions -> LeaseIds \cup {Nobody}]
    BY <1>1
  <2>2. finalizing' \subseteq LeaseIds \X Endings
    BY <1>1, <1>2, <1>3 DEF LeaseInv, LeaseTypeOK
  <2> QED
    BY <1>1, <2>1, <2>2 DEF LeaseInv, LeaseTypeOK
<1>6. Numbered'
  BY <1>1 DEF LeaseInv, Numbered
<1>7. OnlyIssued'
  BY <1>1, <1>4 DEF LeaseInv, OnlyIssued, MapsAgree
<1>8. MapsAgree'
  BY <1>1 DEF MapsAgree
<1>9. EndsOnce'
  <2>1. ASSUME NEW l \in byID
        PROVE  /\ IsActive(l)'
               /\ \A other \in Endings : <<l, other>> \in finalizing' <=> other = "stopped"
    <3>1. l \in LeaseIds /\ leases[l] # NoLease
      BY <1>3, <2>1 DEF LeaseInv, MapsAgree
    <3>2. IsActive(l) /\ \A other \in Endings : <<l, other>> \notin finalizing
      BY <2>1, <3>1 DEF LeaseInv, EndsOnce
    <3> QED
      BY <1>1, <1>4, <2>1, <3>1, <3>2 DEF IsActive
  <2>2. \A m \in LeaseIds \ byID :
          /\ leases'[m] = leases[m]
          /\ IsActive(m)' <=> IsActive(m)
          /\ \A other \in Endings : <<m, other>> \in finalizing' <=> <<m, other>> \in finalizing
    BY <1>1, <1>4 DEF IsActive
  <2>3. \A m \in LeaseIds : m \notin byID'
    BY <1>1
  <2> QED
    BY <1>1, <1>2, <2>1, <2>2, <2>3 DEF LeaseInv, EndsOnce
<1> QED
  BY <1>5, <1>6, <1>7, <1>8, <1>9 DEF LeaseInv

(* Tick keeps it: only the time left changes.                              *)
LEMMA TickKeeps ==
  ASSUME LeaseInv, Tick
  PROVE  LeaseInv'
<1>1. /\ byKey' = byKey /\ byID' = byID /\ issued' = issued /\ finalizing' = finalizing
      /\ stopped' = stopped /\ producers' = producers
      /\ leases' = [l \in LeaseIds |->
           IF IsActive(l) /\ leases[l].left > 0
           THEN [leases[l] EXCEPT !.left = leases[l].left - 1]
           ELSE leases[l]]
  BY DEF Tick
<1>2. ASSUME NEW l \in LeaseIds
      PROVE  /\ leases'[l] \in Lease \cup {NoLease}
             /\ leases'[l] # NoLease <=> leases[l] # NoLease
             /\ leases[l] # NoLease => /\ leases'[l].session = leases[l].session
                                       /\ leases'[l].reason = leases[l].reason
  <2>1. CASE ~(IsActive(l) /\ leases[l].left > 0)
    <3>1. leases'[l] = leases[l]
      BY <1>1, <2>1
    <3> QED
      BY <3>1 DEF LeaseInv, LeaseTypeOK
  <2>2. CASE IsActive(l) /\ leases[l].left > 0
    <3>1. leases[l] # NoLease /\ leases[l] \in Lease /\ leases[l].left \in Nat
      BY <2>2, IssuedIsLease DEF LeaseInv, IsActive
    <3>2. leases'[l] = [leases[l] EXCEPT !.left = leases[l].left - 1]
      BY <1>1, <2>2
    <3>3. leases[l].left - 1 \in Nat
      BY <2>2, <3>1
    <3>4. leases'[l] \in Lease
      BY <3>1, <3>2, <3>3 DEF Lease
    <3>5. leases'[l].session = leases[l].session /\ leases'[l].reason = leases[l].reason
      BY <3>1, <3>2 DEF Lease
    <3> QED
      BY <3>1, <3>4, <3>5, NoLeaseAssumption
  <2> QED
    BY <2>1, <2>2
<1>3. \A l \in LeaseIds : IsActive(l)' <=> IsActive(l)
  BY <1>2 DEF IsActive
<1>4. LeaseTypeOK'
  <2>1. leases' \in [LeaseIds -> Lease \cup {NoLease}]
    BY <1>1, <1>2
  <2> QED
    BY <1>1, <2>1 DEF LeaseInv, LeaseTypeOK
<1>5. Numbered' /\ OnlyIssued'
  BY <1>1, <1>2 DEF LeaseInv, Numbered, OnlyIssued
<1>6. MapsAgree'
  <2>1. \A s \in Sessions : byKey[s] \in LeaseIds \cup {Nobody}
    BY DEF LeaseInv, LeaseTypeOK
  <2>2. \A m \in byID : m \in LeaseIds /\ leases[m] # NoLease
    BY DEF LeaseInv, LeaseTypeOK, MapsAgree
  <2> QED
    BY <1>1, <1>2, <2>1, <2>2 DEF LeaseInv, MapsAgree
<1>7. EndsOnce'
  BY <1>1, <1>2, <1>3 DEF LeaseInv, EndsOnce
<1> QED
  BY <1>4, <1>5, <1>6, <1>7 DEF LeaseInv
-----------------------------------------------------------------------------
LEMMA InvInit == LeaseInit => LeaseInv
<1> SUFFICES ASSUME LeaseInit
             PROVE  LeaseInv
  OBVIOUS
<1>1. LeaseTypeOK
  <2>1. 0 \in 0..MaxLeases
    BY InputLeaseAssumption
  <2>2. producers \in [Producers -> ProducerStates]
    BY DEF LeaseInit, ProducerStates
  <2> QED
    BY <2>1, <2>2 DEF LeaseInit, LeaseTypeOK
<1>2. Numbered
  BY DEF LeaseInit, Numbered, LeaseIds
<1>3. OnlyIssued /\ MapsAgree /\ EndsOnce
  BY DEF LeaseInit, OnlyIssued, MapsAgree, EndsOnce
<1> QED
  BY <1>1, <1>2, <1>3 DEF LeaseInv

LEMMA InvStep == LeaseInv /\ [LeaseNext]_leaseVars => LeaseInv'
<1> SUFFICES ASSUME LeaseInv, [LeaseNext]_leaseVars
             PROVE  LeaseInv'
  OBVIOUS
<1>1. ASSUME NEW p \in Producers, NEW s \in Sessions, NEW ttl \in TTLs,
             NEW preempt \in {FALSE, Preempting}, Acquire(p, s, ttl, preempt)
      PROVE  LeaseInv'
  <2>1. preempt \in BOOLEAN
    BY InputLeaseAssumption
  <2> QED
    BY <1>1, <2>1, AcquireKeeps
<1>2. ASSUME NEW p \in Producers, producers[p].at = "holding", producers' = [producers EXCEPT ![p] = Idle],
             UNCHANGED <<byKey, byID, leases, issued, finalizing, stopped>>
      PROVE  LeaseInv'
  <2>1. producers' \in [Producers -> ProducerStates]
    BY <1>2 DEF LeaseInv, LeaseTypeOK, ProducerStates
  <2>2. LeaseTypeOK'
    BY <1>2, <2>1 DEF LeaseInv, LeaseTypeOK
  <2>3. Numbered' /\ OnlyIssued' /\ MapsAgree'
    BY <1>2 DEF LeaseInv, Numbered, OnlyIssued, MapsAgree
  <2>4. EndsOnce'
    BY <1>2 DEF LeaseInv, EndsOnce, IsActive
  <2> QED
    BY <2>2, <2>3, <2>4 DEF LeaseInv
<1>3. ASSUME NEW p \in Producers, Release(p)
      PROVE  LeaseInv'
  <2>1. CASE producers[p].lease \in byID
    <3>1. PICK l \in byID : l = producers[p].lease
      BY <2>1
    <3>2. Remove(l, "released") /\ producers' = [producers EXCEPT ![p] = Releasing(l)]
      BY <1>3, <2>1, <3>1 DEF Release
    <3>3. l \in LeaseIds /\ "released" \in Endings
      BY DEF LeaseInv, LeaseTypeOK, Endings
    <3>4. producers' \in [Producers -> ProducerStates]
      BY <3>2, <3>3, Values DEF LeaseInv, LeaseTypeOK
    <3> QED
      BY <3>2, <3>3, <3>4, RemoveKeeps
  <2>2. CASE producers[p].lease \notin byID
    BY <1>2, <1>3, <2>2 DEF Release
  <2> QED
    BY <2>1, <2>2
<1>4. ASSUME NEW p \in Producers, Abandon(p)
      PROVE  LeaseInv'
  BY <1>2, <1>4 DEF Abandon
<1>5. ASSUME NEW l \in LeaseIds, Expire(l)
      PROVE  LeaseInv'
  <2>1. l \in byID /\ Remove(l, "expired") /\ producers' = producers
    BY <1>5 DEF Expire
  <2>2. "expired" \in Endings /\ producers' \in [Producers -> ProducerStates]
    BY <2>1 DEF LeaseInv, LeaseTypeOK, Endings
  <2> QED
    BY <2>1, <2>2, RemoveKeeps
<1>6. ASSUME NEW l \in LeaseIds, NEW reason \in Endings, Finalize(l, reason)
      PROVE  LeaseInv'
  BY <1>6, FinalizeKeeps
<1>7. CASE Stop
  BY <1>7, StopKeeps
<1>8. CASE Tick
  BY <1>8, TickKeeps
<1>9. CASE UNCHANGED leaseVars
  <2>1. /\ byKey' = byKey /\ byID' = byID /\ leases' = leases /\ issued' = issued
        /\ finalizing' = finalizing /\ stopped' = stopped /\ producers' = producers
    BY <1>9 DEF leaseVars
  <2>2. LeaseTypeOK' /\ Numbered' /\ OnlyIssued' /\ MapsAgree'
    BY <2>1 DEF LeaseInv, LeaseTypeOK, Numbered, OnlyIssued, MapsAgree
  <2>3. EndsOnce'
    BY <2>1 DEF LeaseInv, EndsOnce, IsActive
  <2> QED
    BY <2>2, <2>3 DEF LeaseInv
<1> QED
  BY <1>1, <1>3, <1>4, <1>5, <1>6, <1>7, <1>8, <1>9
  DEF LeaseNext, ProducerCall, ManagerStep

THEOREM Safety == LeaseSpec => []LeaseInv
BY InvInit, InvStep, PTL DEF LeaseSpec

(* The type invariant of the lease manager.                                *)
THEOREM TypeCorrect == LeaseSpec => []LeaseTypeOK
<1>1. LeaseInv => LeaseTypeOK
  BY DEF LeaseInv
<1> QED
  BY <1>1, Safety, PTL

(* Release and expire never free a terminal another producer holds.        *)
THEOREM MapsInStep == LeaseSpec => []MapsAgree
<1>1. LeaseInv => MapsAgree
  BY DEF LeaseInv
<1> QED
  BY <1>1, Safety, PTL

(* Every lease let go of is finalized exactly once, for the right reason.  *)
THEOREM FinalizedOnce == LeaseSpec => []EndsOnce
<1>1. LeaseInv => EndsOnce
  BY DEF LeaseInv
<1> QED
  BY <1>1, Safety, PTL
-----------------------------------------------------------------------------
(* How a lease stands, case by case.                                       *)
Stood(l) ==
  /\ leases[l] = NoLease => Term[l] = NoLease
  /\ l \in byID => Term[l] = [session |-> leases[l].session, standing |-> "active"]
  /\ \A why \in Endings : <<l, why>> \in finalizing =>
       Term[l] = [session |-> leases[l].session, standing |-> why]
  /\ leases[l] # NoLease /\ ~IsActive(l) =>
       Term[l] = [session |-> leases[l].session, standing |-> leases[l].reason]

LEMMA Standings == LeaseInv => \A l \in LeaseIds : Stood(l)
<1> SUFFICES ASSUME LeaseInv, NEW l \in LeaseIds
             PROVE  Stood(l)
  OBVIOUS
<1>1. Term[l] = IF leases[l] = NoLease THEN NoLease
                ELSE [session |-> leases[l].session, standing |-> Standing(l)]
  BY DEF Term
<1>2. leases[l] = NoLease => Term[l] = NoLease
  BY <1>1
<1>3. l \in byID => Term[l] = [session |-> leases[l].session, standing |-> "active"]
  BY <1>1 DEF Standing, LeaseInv, MapsAgree
<1>4. ASSUME NEW why \in Endings, <<l, why>> \in finalizing
      PROVE  Term[l] = [session |-> leases[l].session, standing |-> why]
  <2>1. leases[l] # NoLease
    BY <1>4 DEF LeaseInv, OnlyIssued
  <2>2. l \notin byID /\ \A other \in Endings : <<l, other>> \in finalizing <=> other = why
    BY <1>4, <2>1 DEF LeaseInv, EndsOnce
  <2>3. (CHOOSE reason \in Endings : <<l, reason>> \in finalizing) = why
    BY <1>4, <2>2
  <2> QED
    BY <1>1, <1>4, <2>1, <2>2, <2>3 DEF Standing
<1>5. ASSUME leases[l] # NoLease, ~IsActive(l)
      PROVE  Term[l] = [session |-> leases[l].session, standing |-> leases[l].reason]
  <2>1. l \notin byID /\ \A why \in Endings : <<l, why>> \notin finalizing
    BY <1>5 DEF LeaseInv, EndsOnce
  <2> QED
    BY <1>1, <1>5, <2>1 DEF Standing
<1> QED
  BY <1>2, <1>3, <1>4, <1>5 DEF Stood

LEMMA StandingsNext == LeaseInv' => \A l \in LeaseIds : Stood(l)'
<1>1. (LeaseInv => \A l \in LeaseIds : Stood(l))'
  BY Standings, PTL
<1> QED
  BY <1>1

(* Only a lease in the maps stands as active.                              *)
LEMMA ActiveIsKnown ==
  ASSUME LeaseInv, NEW l \in LeaseIds, NEW s \in Sessions,
         Term[l] = [session |-> s, standing |-> "active"]
  PROVE  l \in byID /\ leases[l].session = s /\ byKey[s] = l
<1>1. Stood(l)
  BY Standings
<1>2. leases[l] # NoLease
  BY <1>1, NoLeaseAssumption DEF Stood
<1>3. CASE l \in byID
  <2>1. leases[l].session = s
    BY <1>1, <1>3 DEF Stood
  <2> QED
    BY <1>3, <2>1 DEF LeaseInv, MapsAgree
<1>4. CASE \E why \in Endings : <<l, why>> \in finalizing
  <2>1. PICK why \in Endings : <<l, why>> \in finalizing
    BY <1>4
  <2>2. [session |-> leases[l].session, standing |-> why] = [session |-> s, standing |-> "active"]
    BY <1>1, <2>1 DEF Stood
  <2>3. why = "active"
    BY <2>2
  <2> QED
    BY <2>3 DEF Endings
<1>5. CASE ~IsActive(l)
  <2>1. [session |-> leases[l].session, standing |-> leases[l].reason].standing = "active"
    BY <1>1, <1>2, <1>5 DEF Stood
  <2> QED
    BY <1>2, <1>5, <2>1 DEF IsActive
<1> QED
  BY <1>2, <1>3, <1>4, <1>5 DEF LeaseInv, EndsOnce

LEMMA TermIsFunction ==
  /\ Term = [l \in LeaseIds |-> Term[l]]
  /\ Term' = [l \in LeaseIds |-> Term'[l]]
BY DEF Term

(* Two functions on the lease ids that agree everywhere are equal.         *)
LEMMA SameTerm ==
  ASSUME \A l \in LeaseIds : Term'[l] = Term[l]
  PROVE  Term' = Term
BY TermIsFunction

(* Acquire grants, or replaces the holder.                                 *)
LEMMA AcquireGrants ==
  ASSUME LeaseInv, LeaseInv', NEW p \in Producers, NEW s \in Sessions, NEW ttl \in TTLs,
         NEW preempt \in BOOLEAN, Acquire(p, s, ttl, preempt)
  PROVE  Terms!Next
<1> DEFINE new == [session |-> s, left |-> ttl, reason |-> "active"]
<1>a. PICK l \in LeaseIds : l = issued + 1
  BY NextId DEF Acquire, CanAcquire
<1>b. PICK old \in LeaseIds \cup {Nobody} : old = byKey[s]
  BY DEF LeaseInv, LeaseTypeOK
<1>1. /\ l \in LeaseIds /\ leases[l] = NoLease /\ l \notin byID
      /\ \A t \in Sessions : byKey[t] # l
  BY <1>a, NextId DEF Acquire, CanAcquire
<1>2. old \in LeaseIds \cup {Nobody} /\ Nobody \notin LeaseIds
  BY DEF Nobody, LeaseIds
<1>3. /\ leases' = [leases EXCEPT ![l] = new]
      /\ byID' = (byID \ {old}) \cup {l}
      /\ finalizing' = IF old = Nobody THEN finalizing
                                       ELSE finalizing \cup {<<old, "preempted">>}
  BY <1>a, <1>b DEF Acquire
<1>4. leases'[l] = new /\ \A m \in LeaseIds \ {l} : leases'[m] = leases[m]
  BY <1>1, <1>3 DEF LeaseInv, LeaseTypeOK
<1>5. \A m \in LeaseIds : Stood(m) /\ Stood(m)'
  BY Standings, StandingsNext
<1>6. Term[l] = NoLease /\ Term'[l] = [session |-> s, standing |-> "active"]
  <2>1. l \in byID' /\ leases'[l].session = s
    BY <1>3, <1>4
  <2>2. Term[l] = NoLease
    BY <1>1, <1>5 DEF Stood
  <2>3. Term'[l] = [session |-> leases'[l].session, standing |-> "active"]
    BY <1>1, <1>5, <2>1 DEF Stood
  <2> QED
    BY <2>1, <2>2, <2>3
<1>7. ASSUME NEW m \in LeaseIds, m # l, m # old
      PROVE  Term'[m] = Term[m]
  <2>1. /\ leases'[m] = leases[m]
        /\ m \in byID' <=> m \in byID
        /\ \A why \in Endings : <<m, why>> \in finalizing' <=> <<m, why>> \in finalizing
        /\ IsActive(m)' <=> IsActive(m)
    BY <1>3, <1>4, <1>7 DEF IsActive
  <2>2. CASE leases[m] = NoLease
    BY <1>5, <2>1, <2>2 DEF Stood
  <2>3. CASE m \in byID
    <3>1. Term[m] = [session |-> leases[m].session, standing |-> "active"]
      BY <1>5, <2>3 DEF Stood
    <3>2. Term'[m] = [session |-> leases'[m].session, standing |-> "active"]
      BY <1>5, <2>1, <2>3 DEF Stood
    <3> QED
      BY <2>1, <3>1, <3>2
  <2>4. CASE \E why \in Endings : <<m, why>> \in finalizing
    <3>1. PICK why \in Endings : <<m, why>> \in finalizing
      BY <2>4
    <3>2. Term[m] = [session |-> leases[m].session, standing |-> why]
      BY <1>5, <3>1 DEF Stood
    <3>3. Term'[m] = [session |-> leases'[m].session, standing |-> why]
      BY <1>5, <2>1, <3>1 DEF Stood
    <3> QED
      BY <2>1, <3>2, <3>3
  <2>5. CASE leases[m] # NoLease /\ ~IsActive(m)
    BY <1>5, <2>1, <2>5 DEF Stood
  <2> QED
    BY <2>2, <2>3, <2>4, <2>5 DEF LeaseInv, EndsOnce
<1>8. CASE old = Nobody
  <2>1. ASSUME NEW m \in LeaseIds, Term[m] = [session |-> s, standing |-> "active"]
        PROVE  FALSE
    <3>1. byKey[s] = m
      BY <2>1, ActiveIsKnown
    <3> QED
      BY <1>2, <1>b, <1>8, <3>1
  <2>2. Term' = [Term EXCEPT ![l] = [session |-> s, standing |-> "active"]]
    BY <1>1, <1>2, <1>6, <1>7, <1>8, TermIsFunction
  <2>3. Terms!Grant(l, s)
    BY <1>6, <2>1, <2>2 DEF Terms!Grant, Terms!Stands
  <2> QED
    BY <1>1, <2>3 DEF Terms!Next
<1>9. CASE old # Nobody
  <2>1. old \in LeaseIds /\ old \in byID /\ leases[old].session = s /\ old # l
    BY <1>1, <1>2, <1>b, <1>9 DEF LeaseInv, MapsAgree
  <2>2. Term[old] = [session |-> s, standing |-> "active"]
    BY <1>5, <2>1 DEF Stood
  <2>3. <<old, "preempted">> \in finalizing' /\ "preempted" \in Endings
    BY <1>3, <1>9 DEF Endings
  <2>4. Term'[old] = [session |-> s, standing |-> "preempted"]
    BY <1>4, <1>5, <2>1, <2>3 DEF Stood
  <2>5. Term' = [Term EXCEPT ![l] = [session |-> s, standing |-> "active"],
                             ![old] = [session |-> s, standing |-> "preempted"]]
    <3>1. \A m \in LeaseIds :
            Term'[m] = IF m = old THEN [session |-> s, standing |-> "preempted"]
                       ELSE IF m = l THEN [session |-> s, standing |-> "active"]
                       ELSE Term[m]
      BY <1>6, <1>7, <2>4
    <3>2. [Term EXCEPT ![l] = [session |-> s, standing |-> "active"],
                       ![old] = [session |-> s, standing |-> "preempted"]]
          = [m \in LeaseIds |->
               IF m = old THEN [session |-> s, standing |-> "preempted"]
               ELSE IF m = l THEN [session |-> s, standing |-> "active"]
               ELSE Term[m]]
      BY <1>1, <2>1, TermIsFunction
    <3> QED
      BY <3>1, <3>2, TermIsFunction
  <2>6. Terms!Replace(old, l, s)
    BY <1>6, <2>2, <2>5 DEF Terms!Replace, Terms!Stands
  <2> QED
    BY <1>1, <2>1, <2>6 DEF Terms!Next
<1> QED
  BY <1>8, <1>9
(* A lease whose entries do not change stands as before.                   *)
LEMMA StandsUnchanged ==
  ASSUME LeaseInv, LeaseInv', NEW m \in LeaseIds,
         leases'[m] = leases[m],
         m \in byID' <=> m \in byID,
         \A why \in Endings : <<m, why>> \in finalizing' <=> <<m, why>> \in finalizing
  PROVE  Term'[m] = Term[m]
<1>1. Stood(m)
  BY Standings
<1>2. Stood(m)'
  BY StandingsNext
<1>3. CASE leases[m] = NoLease
  BY <1>1, <1>2, <1>3 DEF Stood
<1>4. CASE m \in byID
  <2>1. Term[m] = [session |-> leases[m].session, standing |-> "active"]
    BY <1>1, <1>4 DEF Stood
  <2>2. Term'[m] = [session |-> leases'[m].session, standing |-> "active"]
    BY <1>2, <1>4 DEF Stood
  <2> QED
    BY <2>1, <2>2
<1>5. CASE \E why \in Endings : <<m, why>> \in finalizing
  <2>1. PICK why \in Endings : <<m, why>> \in finalizing
    BY <1>5
  <2>2. Term[m] = [session |-> leases[m].session, standing |-> why]
    BY <1>1, <2>1 DEF Stood
  <2>3. Term'[m] = [session |-> leases'[m].session, standing |-> why]
    BY <1>2, <2>1 DEF Stood
  <2> QED
    BY <2>2, <2>3
<1>6. CASE leases[m] # NoLease /\ ~IsActive(m)
  <2>1. Term[m] = [session |-> leases[m].session, standing |-> leases[m].reason]
    BY <1>1, <1>6 DEF Stood
  <2>2. leases'[m] # NoLease /\ ~IsActive(m)'
    BY <1>6 DEF IsActive
  <2>3. Term'[m] = [session |-> leases'[m].session, standing |-> leases'[m].reason]
    BY <1>2, <2>2 DEF Stood
  <2> QED
    BY <2>1, <2>3
<1> QED
  BY <1>3, <1>4, <1>5, <1>6 DEF LeaseInv, EndsOnce

(* Taking leases out of the maps with a reason ends them.                  *)
LEMMA TakenOutEnds ==
  ASSUME LeaseInv, LeaseInv', NEW ls \in SUBSET byID, NEW why \in Endings,
         leases' = leases, byID' = byID \ ls,
         finalizing' = finalizing \cup {<<l, why>> : l \in ls}
  PROVE  Terms!Next
<1>1. ls \in SUBSET LeaseIds
  BY DEF LeaseInv, LeaseTypeOK
<1>2. ASSUME NEW l \in ls
      PROVE  /\ \E s \in Sessions : Term[l] = [session |-> s, standing |-> "active"]
             /\ Term'[l] = [session |-> Term[l].session, standing |-> why]
  <2>1. l \in LeaseIds /\ l \in byID /\ leases[l] # NoLease
    BY <1>1, <1>2 DEF LeaseInv, MapsAgree
  <2>2. Term[l] = [session |-> leases[l].session, standing |-> "active"]
    BY <2>1, Standings DEF Stood
  <2>3. leases[l].session \in Sessions
    BY <2>1, IssuedIsLease DEF LeaseInv
  <2>4. <<l, why>> \in finalizing'
    BY <1>2
  <2>5. Stood(l)'
    BY <2>1, StandingsNext
  <2>6. Term'[l] = [session |-> leases'[l].session, standing |-> why]
    BY <2>4, <2>5 DEF Stood
  <2> QED
    BY <2>2, <2>3, <2>6
<1>3. ASSUME NEW m \in LeaseIds, m \notin ls
      PROVE  Term'[m] = Term[m]
  <2>1. m \in byID' <=> m \in byID
    BY <1>3
  <2>2. \A other \in Endings : <<m, other>> \in finalizing' <=> <<m, other>> \in finalizing
    BY <1>3
  <2> QED
    BY <1>3, <2>1, <2>2, StandsUnchanged
<1>4. Term' = [l \in LeaseIds |->
        IF l \in ls THEN [session |-> Term[l].session, standing |-> why] ELSE Term[l]]
  BY <1>1, <1>2, <1>3, TermIsFunction
<1>5. Terms!End(ls, why)
  BY <1>2, <1>4 DEF Terms!End, Terms!Stands
<1> QED
  BY <1>1, <1>5 DEF Terms!Next

(* Finalize tells the holder what stands already.                          *)
LEMMA FinalizeTells ==
  ASSUME LeaseInv, LeaseInv', NEW l \in LeaseIds, NEW why \in Endings, Finalize(l, why)
  PROVE  Term' = Term
<1>1. <<l, why>> \in finalizing /\ leases[l] # NoLease
  BY DEF Finalize, LeaseInv, OnlyIssued
<1>2. IsActive(l)
  BY <1>1 DEF LeaseInv, EndsOnce
<1>3. /\ finalizing' = finalizing \ {<<l, why>>} /\ byID' = byID
      /\ leases' = [leases EXCEPT ![l] = [@ EXCEPT !.reason = why]]
  BY <1>2 DEF Finalize
<1>4. leases[l] \in Lease
  BY <1>1, IssuedIsLease DEF LeaseInv
<1>5. /\ leases'[l] = [leases[l] EXCEPT !.reason = why]
      /\ \A m \in LeaseIds \ {l} : leases'[m] = leases[m]
  BY <1>3 DEF LeaseInv, LeaseTypeOK
<1>6. leases'[l].session = leases[l].session /\ leases'[l].reason = why /\ leases'[l] \in Lease
  BY <1>4, <1>5 DEF Lease
<1>7. Term'[l] = Term[l]
  <2>1. Term[l] = [session |-> leases[l].session, standing |-> why]
    BY <1>1, Standings DEF Stood
  <2>2. Stood(l)'
    BY StandingsNext
  <2>3. leases'[l] # NoLease /\ ~IsActive(l)'
    BY <1>6, NoLeaseAssumption DEF IsActive, Endings
  <2>4. Term'[l] = [session |-> leases'[l].session, standing |-> leases'[l].reason]
    BY <2>2, <2>3 DEF Stood
  <2> QED
    BY <1>6, <2>1, <2>4
<1>8. ASSUME NEW m \in LeaseIds, m # l
      PROVE  Term'[m] = Term[m]
  BY <1>3, <1>5, <1>8, StandsUnchanged
<1> QED
  BY <1>7, <1>8, SameTerm

(* Tick changes no standing.                                               *)
LEMMA TickTells ==
  ASSUME LeaseInv, LeaseInv', Tick
  PROVE  Term' = Term
<1> SUFFICES ASSUME NEW l \in LeaseIds
             PROVE  Term'[l] = Term[l]
  BY SameTerm
<1>1. byID' = byID /\ finalizing' = finalizing
  BY DEF Tick
<1>2. leases'[l] = IF IsActive(l) /\ leases[l].left > 0
                   THEN [leases[l] EXCEPT !.left = leases[l].left - 1]
                   ELSE leases[l]
  BY DEF Tick
<1>3. CASE ~(IsActive(l) /\ leases[l].left > 0)
  BY <1>1, <1>2, <1>3, StandsUnchanged
<1>4. CASE IsActive(l) /\ leases[l].left > 0
  <2>1. leases[l] # NoLease /\ leases[l] \in Lease
    BY <1>4, IssuedIsLease DEF LeaseInv, IsActive
  <2>2. leases'[l].session = leases[l].session
    BY <1>2, <1>4, <2>1 DEF Lease
  <2>3. CASE l \in byID
    <3>1. Term[l] = [session |-> leases[l].session, standing |-> "active"]
      BY <2>3, Standings DEF Stood
    <3>2. Stood(l)'
      BY StandingsNext
    <3>3. Term'[l] = [session |-> leases'[l].session, standing |-> "active"]
      BY <1>1, <2>3, <3>2 DEF Stood
    <3> QED
      BY <2>2, <3>1, <3>3
  <2>4. CASE \E why \in Endings : <<l, why>> \in finalizing
    <3>1. PICK why \in Endings : <<l, why>> \in finalizing
      BY <2>4
    <3>2. Term[l] = [session |-> leases[l].session, standing |-> why]
      BY <3>1, Standings DEF Stood
    <3>3. Stood(l)'
      BY StandingsNext
    <3>4. Term'[l] = [session |-> leases'[l].session, standing |-> why]
      BY <1>1, <3>1, <3>3 DEF Stood
    <3> QED
      BY <2>2, <3>2, <3>4
  <2> QED
    BY <1>4, <2>1, <2>3, <2>4 DEF LeaseInv, EndsOnce
<1> QED
  BY <1>3, <1>4

LEMMA TermsInit == LeaseInit => Terms!Init
BY DEF LeaseInit, Terms!Init, Term

LEMMA TermsStep == LeaseInv /\ LeaseInv' /\ [LeaseNext]_leaseVars => [Terms!Next]_Term
<1> SUFFICES ASSUME LeaseInv, LeaseInv', [LeaseNext]_leaseVars
             PROVE  Terms!Next \/ Term' = Term
  OBVIOUS
<1>1. ASSUME UNCHANGED <<byID, leases, finalizing>>
      PROVE  Term' = Term
  BY <1>1, SameTerm, StandsUnchanged
<1>2. ASSUME NEW l \in byID, NEW why \in Endings, Remove(l, why)
      PROVE  Terms!Next
  <2>1. /\ {l} \in SUBSET byID /\ leases' = leases /\ byID' = byID \ {l}
        /\ finalizing' = finalizing \cup {<<m, why>> : m \in {l}}
    BY <1>2 DEF Remove
  <2> QED
    BY <2>1, TakenOutEnds
<1>3. ASSUME NEW p \in Producers, NEW s \in Sessions, NEW ttl \in TTLs,
             NEW preempt \in {FALSE, Preempting}, Acquire(p, s, ttl, preempt)
      PROVE  Terms!Next
  <2>1. preempt \in BOOLEAN
    BY InputLeaseAssumption
  <2> QED
    BY <1>3, <2>1, AcquireGrants
<1>4. ASSUME NEW p \in Producers, Release(p)
      PROVE  Terms!Next \/ Term' = Term
  <2>1. CASE producers[p].lease \in byID
    <3>1. Remove(producers[p].lease, "released") /\ "released" \in Endings
      BY <1>4, <2>1 DEF Release, Endings
    <3> QED
      BY <1>2, <2>1, <3>1
  <2>2. CASE producers[p].lease \notin byID
    BY <1>1, <1>4, <2>2 DEF Release
  <2> QED
    BY <2>1, <2>2
<1>5. ASSUME NEW p \in Producers, Abandon(p)
      PROVE  Term' = Term
  BY <1>1, <1>5 DEF Abandon
<1>6. ASSUME NEW l \in LeaseIds, Expire(l)
      PROVE  Terms!Next
  <2>1. l \in byID /\ Remove(l, "expired") /\ "expired" \in Endings
    BY <1>6 DEF Expire, Endings
  <2> QED
    BY <1>2, <2>1
<1>7. CASE Stop
  <2>1. /\ byID \in SUBSET byID /\ "stopped" \in Endings /\ leases' = leases
        /\ byID' = byID \ byID
        /\ finalizing' = finalizing \cup {<<l, "stopped">> : l \in byID}
    BY <1>7 DEF Stop, Endings
  <2> QED
    BY <2>1, TakenOutEnds
<1>8. CASE UNCHANGED leaseVars
  BY <1>1, <1>8 DEF leaseVars
<1> QED
  BY <1>3, <1>4, <1>5, <1>6, <1>7, <1>8, FinalizeTells, TickTells
  DEF LeaseNext, ProducerCall, ManagerStep

(* The lease manager implements LeaseTerms.                                *)
THEOREM Refinement == LeaseSpec => ImplementsTerms
BY TermsInit, TermsStep, Safety, PTL DEF LeaseSpec, ImplementsTerms, Terms!Spec
-----------------------------------------------------------------------------
(* A client's step, and the router's, is a call of the manager or none.    *)
LEMMA ClientsUseLeases ==
  ASSUME NEW p \in Clients, ClientStep(p)
  PROVE  [LeaseNext]_leaseVars
<1>1. CASE ProducerCall(p)
  <2>1. p \in Producers
    BY DEF Clients
  <2> QED
    BY <1>1, <2>1 DEF LeaseNext
<1>2. CASE ~ProducerCall(p)
  <2>1. UNCHANGED leaseVars
    BY <1>2 DEF ClientStep, CheckLease, WriteStep, TypeText, PressSubmit, PasteAndSubmit, Write
  <2> QED
    BY <2>1
<1> QED
  BY <1>1, <1>2

LEMMA RouterUsesLeases ==
  ASSUME RouterStep
  PROVE  [LeaseNext]_leaseVars
<1>1. ASSUME NEW s \in Sessions, RouterAcquire(s)
      PROVE  LeaseNext
  <2>1. Acquire(Router, s, RouterTTL, FALSE)
    BY <1>1 DEF RouterAcquire
  <2>2. ProducerCall(Router)
    BY <2>1, TerminalInputAssumption DEF ProducerCall
  <2> QED
    BY <2>2, TerminalInputAssumption DEF LeaseNext
<1>2. CASE RouterReleases
  BY <1>2, TerminalInputAssumption DEF RouterReleases, LeaseNext, ProducerCall
<1>3. CASE \/ \E s \in Sessions : RouterRefused(s)
           \/ \E s : ApplyPolicy(s)
           \/ Deliver \/ RouterWrites \/ RouterReturns
  <2>1. UNCHANGED leaseVars
    BY <1>3 DEF RouterRefused, ApplyPolicy, Deliver, RouterWrites, RouterReturns, CheckLease,
                WriteStep, TypeText, PressSubmit, PasteAndSubmit, Write
  <2> QED
    BY <2>1
<1> QED
  BY <1>1, <1>2, <1>3 DEF RouterStep

LEMMA StepsUseLeases == [Next]_vars => [LeaseNext]_leaseVars
<1> SUFFICES ASSUME [Next]_vars PROVE [LeaseNext]_leaseVars
  OBVIOUS
<1>1. CASE ManagerActs
  BY <1>1 DEF ManagerActs, LeaseNext, ManagerStep
<1>2. CASE Clock
  BY <1>2 DEF Clock, LeaseNext, ManagerStep
<1>3. CASE \/ \E targets \in SUBSET Sessions \ {{}}, policy \in Policies : Send(targets, policy)
           \/ \E s \in Sessions : SessionExit(s) \/ ReadinessChanges(s)
           \/ UNCHANGED vars
  BY <1>3 DEF Send, SessionExit, ReadinessChanges, vars
<1> QED
  BY <1>1, <1>2, <1>3, ClientsUseLeases, RouterUsesLeases DEF Next

(* Intents and the router use the manager only through its operations, and *)
(* never change what it keeps behind its back.                             *)
THEOREM OnlyThroughTheManager == Spec => ImplementsLeases
<1>1. Init => LeaseInit
  BY DEF Init
<1> QED
  BY <1>1, StepsUseLeases, PTL DEF Spec, ImplementsLeases, LeaseSpec

(* So what is proved of the manager holds under intents and the router.    *)
THEOREM UnderTheRouter == Spec => [](MapsAgree /\ EndsOnce) /\ ImplementsTerms
<1>1. Spec => LeaseSpec
  BY OnlyThroughTheManager DEF ImplementsLeases
<1> QED
  BY <1>1, MapsInStep, FinalizedOnce, Refinement, PTL
-----------------------------------------------------------------------------
(* Producers that do not preempt, clients that submit only on a lease that *)
(* outlives the submission, and a router that waits for no prompt.         *)
Unhurried == Patient /\ ~Preempting /\ "queue" \notin Policies

NobodyPreempts == \A p \in Producers : producers[p].at # "acquiring"

\* Two producers hold two leases, and both were issued.
HeldApart ==
  \A p \in Producers : producers[p].at = "holding" =>
    /\ leases[producers[p].lease] # NoLease
    /\ \A q \in Producers \ {p} :
         producers[q].at = "holding" => producers[q].lease # producers[p].lease

StopFreesAll == stopped => \A s \in Sessions : byKey[s] = Nobody

\* What the manager and the producers keep between them.
HoldersInv == LeaseInv /\ NobodyPreempts /\ HeldApart /\ StopFreesAll

\* p's lease cannot end under it, unless the manager stops.
Secure(p) ==
  /\ producers[p].at = "holding"
  /\ stopped \/ (Current(p) /\ leases[producers[p].lease].left > 0)

Composing(p) ==
  \/ intents[p] # "none"
  \/ p = Router /\ fanout.at \in {"policy", "deliver", "writing"}

ComposersSecure == \A p \in Producers : Composing(p) => Secure(p)

\* Producers with an intent in progress are at different terminals.
OneTypist ==
  \A p \in Producers : \A q \in Producers \ {p} :
    intents[p] # "none" /\ intents[q] # "none" => Terminal(p) # Terminal(q)

\* A line is the text of the producers that typed and have not submitted.
LinesAreTyped ==
  \A s \in Sessions, p \in Producers :
    p \in line[s] <=> intents[p] = "typed" /\ Terminal(p) = s /\ running[s]

RouterInStep == intents[Router] # "none" <=> fanout.at = "writing"

\* The inductive invariant.
TerminalInv ==
  /\ TypeOK /\ HoldersInv
  /\ ComposersSecure /\ OneTypist /\ LinesAreTyped /\ RouterInStep
-----------------------------------------------------------------------------
(* A holder's lease, and its terminal.                                     *)
LEMMA Held ==
  ASSUME HoldersInv, NEW p \in Producers, producers[p].at = "holding"
  PROVE  /\ producers[p].lease \in LeaseIds
         /\ leases[producers[p].lease] # NoLease
         /\ leases[producers[p].lease] \in Lease
         /\ Terminal(p) \in Sessions
<1>1. LeaseTypeOK
  BY DEF HoldersInv, LeaseInv
<1>2. producers[p].lease \in LeaseIds
  BY <1>1, Remembered
<1>3. leases[producers[p].lease] # NoLease
  BY DEF HoldersInv, HeldApart
<1> QED
  BY <1>1, <1>2, <1>3, IssuedIsLease DEF Terminal

(* The current holder's lease is in the maps, and active; the manager runs.*)
LEMMA CurrentStands ==
  ASSUME HoldersInv, NEW p \in Producers, Current(p)
  PROVE  /\ producers[p].lease \in byID
         /\ IsActive(producers[p].lease)
         /\ ~stopped
<1>1. producers[p].at = "holding" /\ byKey[Terminal(p)] = producers[p].lease
  BY DEF Current
<1>2. producers[p].lease \in LeaseIds /\ Terminal(p) \in Sessions
  BY <1>1, Held
<1>3. producers[p].lease # Nobody
  BY <1>2 DEF LeaseIds, Nobody
<1>4. producers[p].lease \in byID
  BY <1>1, <1>2, <1>3 DEF HoldersInv, LeaseInv, MapsAgree
<1>5. leases[producers[p].lease] # NoLease
  BY <1>1, Held
<1>6. IsActive(producers[p].lease)
  BY <1>2, <1>4, <1>5 DEF HoldersInv, LeaseInv, EndsOnce
<1> QED
  BY <1>1, <1>2, <1>3, <1>4, <1>6 DEF HoldersInv, StopFreesAll

(* A secure holder stays so while its call, its lease and its terminal's   *)
(* entry stand.                                                            *)
LEMMA StaysSecure ==
  ASSUME HoldersInv, NEW p \in Producers, Secure(p), producers'[p] = producers[p],
         leases'[producers[p].lease].session = leases[producers[p].lease].session,
         stopped'
           \/ (Current(p) /\ byKey'[Terminal(p)] = byKey[Terminal(p)]
                          /\ leases'[producers[p].lease].left > 0)
  PROVE  Secure(p)' /\ Terminal(p)' = Terminal(p)
<1>1. Terminal(p)' = Terminal(p)
  BY DEF Terminal
<1> QED
  BY <1>1 DEF Secure, Current
-----------------------------------------------------------------------------
(* Acquire without preempting leaves every other holder its terminal, and  *)
(* gives its caller a lease that outlives a submission.                    *)
LEMMA AcquireSecures ==
  ASSUME HoldersInv, LeaseInv', NEW p \in Producers, NEW s \in Sessions, NEW ttl \in TTLs,
         Acquire(p, s, ttl, FALSE)
  PROVE  /\ HoldersInv'
         /\ Secure(p)'
         /\ \A q \in Producers \ {p} : Secure(q) => Secure(q)' /\ Terminal(q)' = Terminal(q)
<1> DEFINE l == issued + 1
           new == [session |-> s, left |-> ttl, reason |-> "active"]
<1>1. LeaseInv /\ issued < MaxLeases /\ ~stopped /\ byKey[s] = Nobody /\ producers[p] = Idle
  BY DEF Acquire, CanAcquire, HoldersInv
<1>2. l \in LeaseIds /\ leases[l] = NoLease /\ l # Nobody
  BY <1>1, NextId
<1>3. /\ leases' = [leases EXCEPT ![l] = new]
      /\ byKey' = [byKey EXCEPT ![s] = l]
      /\ producers' = [producers EXCEPT ![p] = Holding(l)]
      /\ stopped' = stopped
  BY <1>1 DEF Acquire
<1> HIDE DEF l
<1>4. /\ leases'[l] = new
      /\ \A m \in LeaseIds \ {l} : leases'[m] = leases[m]
      /\ byKey'[s] = l
      /\ \A t \in Sessions \ {s} : byKey'[t] = byKey[t]
      /\ producers'[p] = Holding(l)
      /\ \A q \in Producers \ {p} : producers'[q] = producers[q]
  BY <1>1, <1>2, <1>3 DEF LeaseInv, LeaseTypeOK
<1>5. new # NoLease /\ new.session = s /\ new.left = ttl /\ ttl > 0
  BY FreshLease, InputLeaseAssumption
<1>6. producers'[p].at = "holding" /\ producers'[p].lease = l
  BY <1>4 DEF Holding
<1>7. ASSUME NEW q \in Producers \ {p}, producers[q].at = "holding"
      PROVE  /\ producers[q].lease \in LeaseIds \ {l}
             /\ leases'[producers[q].lease] = leases[producers[q].lease]
             /\ leases[producers[q].lease] # NoLease
  BY <1>2, <1>4, <1>7, Held
<1>8. NobodyPreempts'
  BY <1>4, <1>6 DEF HoldersInv, NobodyPreempts
<1>9. HeldApart'
  <2>1. ASSUME NEW q \in Producers, producers'[q].at = "holding"
        PROVE  /\ leases'[producers'[q].lease] # NoLease
               /\ \A r \in Producers \ {q} :
                    producers'[r].at = "holding" => producers'[r].lease # producers'[q].lease
    <3>1. CASE q = p
      BY <1>4, <1>5, <1>6, <1>7, <3>1
    <3>2. CASE q # p
      <4>1. producers[q].at = "holding" /\ producers'[q] = producers[q]
        BY <1>4, <2>1, <3>2
      <4>2. leases'[producers'[q].lease] # NoLease /\ producers'[q].lease # l
        BY <1>7, <3>2, <4>1
      <4>3. ASSUME NEW r \in Producers \ {q}, producers'[r].at = "holding"
            PROVE  producers'[r].lease # producers'[q].lease
        <5>1. CASE r = p
          BY <1>6, <4>2, <5>1
        <5>2. CASE r # p
          BY <1>4, <4>1, <4>3, <5>2 DEF HoldersInv, HeldApart
        <5> QED
          BY <5>1, <5>2
      <4> QED
        BY <4>2, <4>3
    <3> QED
      BY <3>1, <3>2
  <2> QED
    BY <2>1 DEF HeldApart
<1>10. StopFreesAll'
  BY <1>1, <1>3 DEF StopFreesAll
<1>11. Secure(p)'
  BY <1>4, <1>5, <1>6 DEF Secure, Current, Terminal
<1>12. ASSUME NEW q \in Producers \ {p}, Secure(q)
       PROVE  Secure(q)' /\ Terminal(q)' = Terminal(q)
  <2>1. producers[q].at = "holding" /\ Current(q) /\ leases[producers[q].lease].left > 0
    BY <1>1, <1>12 DEF Secure
  <2>2. leases'[producers[q].lease] = leases[producers[q].lease]
    BY <1>7, <2>1
  <2>3. Terminal(q) \in Sessions /\ producers[q].lease \in LeaseIds
    BY <2>1, Held
  <2>4. Terminal(q) # s
    BY <1>1, <2>1, <2>3 DEF Current, LeaseIds, Nobody
  <2>5. byKey'[Terminal(q)] = byKey[Terminal(q)]
    BY <1>4, <2>3, <2>4
  <2> QED
    BY <1>4, <1>12, <2>1, <2>2, <2>5, StaysSecure
<1> QED
  BY <1>8, <1>9, <1>10, <1>11, <1>12 DEF HoldersInv

(* Taking a lease out of the maps leaves the other holders theirs.         *)
LEMMA RemoveSpares ==
  ASSUME HoldersInv, NEW l \in byID, NEW why \in Endings, Remove(l, why),
         NEW q \in Producers, Secure(q), producers'[q] = producers[q],
         producers[q].lease # l
  PROVE  Secure(q)' /\ Terminal(q)' = Terminal(q)
<1>1. leases' = leases /\ stopped' = stopped
      /\ byKey' = [byKey EXCEPT ![leases[l].session] = Nobody]
  BY DEF Remove
<1>2. CASE stopped
  BY <1>1, <1>2, StaysSecure
<1>3. CASE ~stopped
  <2>1. producers[q].at = "holding" /\ Current(q) /\ leases[producers[q].lease].left > 0
    BY <1>3 DEF Secure
  <2>2. byKey[leases[l].session] = l
    BY DEF HoldersInv, LeaseInv, MapsAgree
  <2>3. Terminal(q) # leases[l].session
    BY <2>1, <2>2 DEF Current
  <2>4. Terminal(q) \in Sessions
    BY <2>1, Held
  <2>5. byKey'[Terminal(q)] = byKey[Terminal(q)]
    BY <1>1, <2>3, <2>4 DEF HoldersInv, LeaseInv, LeaseTypeOK
  <2> QED
    BY <1>1, <2>1, <2>5, StaysSecure
<1> QED
  BY <1>2, <1>3

(* A producer that lets go of its lease leaves the others theirs.          *)
LEMMA LettingGoKeeps ==
  ASSUME HoldersInv, LeaseInv', NEW p \in Producers, producers'[p].at \in {"idle", "releasing"},
         \A q \in Producers \ {p} : producers'[q] = producers[q],
         leases' = leases, stopped' = stopped,
         \A s \in Sessions : byKey'[s] \in {byKey[s], Nobody}
  PROVE  HoldersInv'
BY DEF HoldersInv, NobodyPreempts, HeldApart, StopFreesAll

(* Release takes out its caller's lease or nothing.                        *)
LEMMA ReleaseSpares ==
  ASSUME HoldersInv, LeaseInv', NEW p \in Producers, Release(p)
  PROVE  /\ HoldersInv'
         /\ \A q \in Producers \ {p} : Secure(q) => Secure(q)' /\ Terminal(q)' = Terminal(q)
<1> DEFINE l == producers[p].lease
<1>1. producers[p].at = "holding" /\ l \in LeaseIds
  BY Held DEF Release
<1>2. CASE l \in byID
  <2>1. /\ Remove(l, "released") /\ "released" \in Endings
        /\ producers' = [producers EXCEPT ![p] = Releasing(l)]
    BY <1>2 DEF Release, Endings
  <2>2. /\ producers'[p].at = "releasing"
        /\ \A q \in Producers \ {p} : producers'[q] = producers[q]
    BY <2>1 DEF HoldersInv, LeaseInv, LeaseTypeOK, Releasing
  <2>3. /\ leases' = leases /\ stopped' = stopped
        /\ \A s \in Sessions : byKey'[s] \in {byKey[s], Nobody}
    BY <2>1 DEF Remove, HoldersInv, LeaseInv, LeaseTypeOK
  <2>4. HoldersInv'
    BY <2>2, <2>3, LettingGoKeeps
  <2>5. ASSUME NEW q \in Producers \ {p}, Secure(q)
        PROVE  Secure(q)' /\ Terminal(q)' = Terminal(q)
    <3>1. producers[q].lease # l
      BY <1>1, <2>5 DEF HoldersInv, HeldApart, Secure
    <3> QED
      BY <1>2, <2>1, <2>2, <2>5, <3>1, RemoveSpares
  <2> QED
    BY <2>4, <2>5
<1>3. CASE l \notin byID
  <2>1. /\ producers' = [producers EXCEPT ![p] = Idle]
        /\ leases' = leases /\ stopped' = stopped /\ byKey' = byKey
    BY <1>3 DEF Release
  <2>2. /\ producers'[p].at = "idle"
        /\ \A q \in Producers \ {p} : producers'[q] = producers[q]
    BY <2>1 DEF HoldersInv, LeaseInv, LeaseTypeOK, Idle
  <2>3. HoldersInv'
    BY <2>1, <2>2, LettingGoKeeps
  <2> QED
    BY <2>1, <2>2, <2>3, StaysSecure DEF Secure
<1> QED
  BY <1>2, <1>3

(* A producer that forgets its lease leaves the maps alone.                *)
LEMMA AbandonSpares ==
  ASSUME HoldersInv, LeaseInv', NEW p \in Producers, Abandon(p)
  PROVE  /\ HoldersInv'
         /\ \A q \in Producers \ {p} : Secure(q) => Secure(q)' /\ Terminal(q)' = Terminal(q)
<1>1. /\ producers' = [producers EXCEPT ![p] = Idle]
      /\ leases' = leases /\ stopped' = stopped /\ byKey' = byKey
  BY DEF Abandon
<1>2. /\ producers'[p].at = "idle"
      /\ \A q \in Producers \ {p} : producers'[q] = producers[q]
  BY <1>1 DEF HoldersInv, LeaseInv, LeaseTypeOK, Idle
<1>3. HoldersInv'
  BY <1>1, <1>2, LettingGoKeeps
<1> QED
  BY <1>1, <1>2, <1>3, StaysSecure DEF Secure

(* Only a lease whose time is up expires, and a secure one's is not.       *)
LEMMA ExpireSpares ==
  ASSUME HoldersInv, LeaseInv', NEW l \in LeaseIds, Expire(l)
  PROVE  /\ HoldersInv'
         /\ \A q \in Producers : Secure(q) => Secure(q)' /\ Terminal(q)' = Terminal(q)
<1>1. /\ l \in byID /\ leases[l].left = 0 /\ Remove(l, "expired") /\ "expired" \in Endings
      /\ producers' = producers
  BY DEF Expire, Endings
<1>2. /\ leases' = leases /\ stopped' = stopped
      /\ \A s \in Sessions : byKey'[s] \in {byKey[s], Nobody}
  BY <1>1 DEF Remove, HoldersInv, LeaseInv, LeaseTypeOK
<1>3. HoldersInv'
  BY <1>1, <1>2 DEF HoldersInv, NobodyPreempts, HeldApart, StopFreesAll
<1>4. ~stopped
  <2>1. byKey[leases[l].session] = l /\ leases[l].session \in Sessions
    BY <1>1, IssuedIsLease DEF HoldersInv, LeaseInv, MapsAgree
  <2> QED
    BY <2>1 DEF HoldersInv, StopFreesAll, LeaseIds, Nobody
<1>5. ASSUME NEW q \in Producers, Secure(q)
      PROVE  Secure(q)' /\ Terminal(q)' = Terminal(q)
  <2>1. producers[q].lease # l
    BY <1>1, <1>4, <1>5 DEF Secure
  <2> QED
    BY <1>1, <1>5, <2>1, RemoveSpares
<1> QED
  BY <1>3, <1>5

(* Stop frees every terminal at once, and nobody acquires one after it.    *)
LEMMA StopSpares ==
  ASSUME HoldersInv, LeaseInv', Stop
  PROVE  /\ HoldersInv'
         /\ \A q \in Producers : Secure(q) => Secure(q)' /\ Terminal(q)' = Terminal(q)
<1>1. /\ stopped' /\ byKey' = [s \in Sessions |-> Nobody]
      /\ leases' = leases /\ producers' = producers
  BY DEF Stop
<1>2. HoldersInv'
  BY <1>1 DEF HoldersInv, NobodyPreempts, HeldApart, StopFreesAll
<1> QED
  BY <1>1, <1>2, StaysSecure

(* Finalize changes a lease's reason, and only producers in a call.        *)
LEMMA FinalizeSpares ==
  ASSUME HoldersInv, LeaseInv', NEW l \in LeaseIds, NEW why \in Endings, Finalize(l, why)
  PROVE  /\ HoldersInv'
         /\ \A q \in Producers : Secure(q) => Secure(q)' /\ Terminal(q)' = Terminal(q)
<1>1. /\ byKey' = byKey /\ stopped' = stopped
      /\ leases' = IF IsActive(l) THEN [leases EXCEPT ![l] = [@ EXCEPT !.reason = why]] ELSE leases
  BY DEF Finalize
<1>2. ASSUME NEW m \in LeaseIds, leases[m] # NoLease
      PROVE  /\ leases'[m] # NoLease
             /\ leases'[m].session = leases[m].session
             /\ leases'[m].left = leases[m].left
  <2>1. leases[m] \in Lease
    BY <1>2, IssuedIsLease DEF HoldersInv, LeaseInv
  <2>2. leases'[m] = IF IsActive(l) /\ m = l THEN [leases[m] EXCEPT !.reason = why] ELSE leases[m]
    BY <1>1 DEF HoldersInv, LeaseInv, LeaseTypeOK
  <2>3. [leases[m] EXCEPT !.reason = why] \in Lease
    BY <2>1 DEF Lease
  <2> QED
    BY <1>2, <2>1, <2>2, <2>3, NoLeaseAssumption DEF Lease
<1>3. ASSUME NEW q \in Producers
      PROVE  /\ producers[q].at = "holding" => producers'[q] = producers[q]
             /\ producers'[q].at = "holding" => producers[q].at = "holding"
             /\ producers'[q].at # "acquiring"
  <2>1. producers[q].at # "acquiring"
    BY DEF HoldersInv, NobodyPreempts
  <2>2. producers'[q] = IF producers[q].at = "releasing" /\ producers[q].ends = l
                        THEN Idle ELSE producers[q]
    BY <2>1 DEF Finalize
  <2> QED
    BY <2>1, <2>2 DEF Idle
<1>4. NobodyPreempts'
  BY <1>3 DEF NobodyPreempts
<1>5. HeldApart'
  <2>1. ASSUME NEW q \in Producers, producers'[q].at = "holding"
        PROVE  /\ leases'[producers'[q].lease] # NoLease
               /\ \A r \in Producers \ {q} :
                    producers'[r].at = "holding" => producers'[r].lease # producers'[q].lease
    <3>1. producers[q].at = "holding" /\ producers'[q] = producers[q]
      BY <1>3, <2>1
    <3>2. producers[q].lease \in LeaseIds /\ leases[producers[q].lease] # NoLease
      BY <3>1, Held
    <3>3. leases'[producers'[q].lease] # NoLease
      BY <1>2, <3>1, <3>2
    <3>4. ASSUME NEW r \in Producers \ {q}, producers'[r].at = "holding"
          PROVE  producers'[r].lease # producers'[q].lease
      <4>1. producers[r].at = "holding" /\ producers'[r] = producers[r]
        BY <1>3, <3>4
      <4> QED
        BY <3>1, <4>1 DEF HoldersInv, HeldApart
    <3> QED
      BY <3>3, <3>4
  <2> QED
    BY <2>1 DEF HeldApart
<1>6. StopFreesAll'
  BY <1>1 DEF HoldersInv, StopFreesAll
<1>7. ASSUME NEW q \in Producers, Secure(q)
      PROVE  Secure(q)' /\ Terminal(q)' = Terminal(q)
  <2>1. producers[q].at = "holding" /\ producers'[q] = producers[q]
    BY <1>3, <1>7 DEF Secure
  <2>2. producers[q].lease \in LeaseIds /\ leases[producers[q].lease] # NoLease
    BY <2>1, Held
  <2>3. /\ leases'[producers[q].lease].session = leases[producers[q].lease].session
        /\ leases'[producers[q].lease].left = leases[producers[q].lease].left
    BY <1>2, <2>2
  <2> QED
    BY <1>1, <1>7, <2>1, <2>3, StaysSecure DEF Secure
<1> QED
  BY <1>4, <1>5, <1>6, <1>7 DEF HoldersInv

(* A tick leaves those secure that have more than one to go.               *)
LEMMA TickSpares ==
  ASSUME HoldersInv, LeaseInv', Tick
  PROVE  /\ HoldersInv'
         /\ \A q \in Producers : Secure(q) /\ leases[producers[q].lease].left > 1 =>
              Secure(q)' /\ Terminal(q)' = Terminal(q)
<1>1. byKey' = byKey /\ stopped' = stopped /\ producers' = producers
  BY DEF Tick
<1>2. ASSUME NEW m \in LeaseIds, leases[m] # NoLease
      PROVE  /\ leases'[m] # NoLease
             /\ leases'[m].session = leases[m].session
             /\ leases[m].left > 1 => leases'[m].left > 0
  <2>1. leases[m] \in Lease /\ leases[m].left \in Nat
    BY <1>2, IssuedIsLease DEF HoldersInv, LeaseInv
  <2>2. leases'[m] = IF IsActive(m) /\ leases[m].left > 0
                     THEN [leases[m] EXCEPT !.left = leases[m].left - 1]
                     ELSE leases[m]
    BY DEF Tick
  <2>3. CASE leases[m].left > 0 /\ IsActive(m)
    <3>1. /\ leases'[m].session = leases[m].session
          /\ leases'[m].left = leases[m].left - 1
          /\ leases'[m].reason = leases[m].reason
      BY <2>1, <2>2, <2>3 DEF Lease
    <3>2. leases[m].left - 1 \in Nat
      BY <2>1, <2>3
    <3>3. leases'[m] \in Lease
      BY <2>1, <2>2, <2>3, <3>2 DEF Lease
    <3>4. leases[m].left > 1 => leases[m].left - 1 > 0
      BY <2>1
    <3> QED
      BY <3>1, <3>3, <3>4, NoLeaseAssumption
  <2>4. CASE ~(leases[m].left > 0 /\ IsActive(m))
    <3>1. leases'[m] = leases[m]
      BY <2>2, <2>4
    <3>2. leases[m].left > 1 => leases[m].left > 0
      BY <2>1
    <3> QED
      BY <1>2, <3>1, <3>2
  <2> QED
    BY <2>3, <2>4
<1>3. HeldApart'
  <2>1. ASSUME NEW q \in Producers, producers[q].at = "holding"
        PROVE  leases'[producers[q].lease] # NoLease
    BY <1>2, <2>1, Held
  <2> QED
    BY <1>1, <2>1 DEF HoldersInv, HeldApart
<1>4. NobodyPreempts' /\ StopFreesAll'
  BY <1>1 DEF HoldersInv, NobodyPreempts, StopFreesAll
<1>5. ASSUME NEW q \in Producers, Secure(q), leases[producers[q].lease].left > 1
      PROVE  Secure(q)' /\ Terminal(q)' = Terminal(q)
  <2>1. producers[q].at = "holding"
    BY <1>5 DEF Secure
  <2>2. producers[q].lease \in LeaseIds /\ leases[producers[q].lease] # NoLease
    BY <2>1, Held
  <2> QED
    BY <1>1, <1>2, <1>5, <2>2, StaysSecure DEF Secure
<1> QED
  BY <1>3, <1>4, <1>5 DEF HoldersInv
-----------------------------------------------------------------------------
(* Where the router is in its Send.                                        *)
LEMMA Sending ==
  ASSUME TypeOK, fanout.at # "idle"
  PROVE  fanout \in Sends
BY DEF TypeOK, SendIdle

(* A phase of the Send is entered as it is.                                *)
LEMMA GoesOn ==
  ASSUME fanout \in Sends, NEW phase \in SendPhases, GoTo(phase)
  PROVE  fanout' \in Sends /\ fanout'.at = phase
BY DEF GoTo, Sends

(* No policy of an unhurried system waits for a prompt.                    *)
LEMMA NeverWaits ==
  ASSUME TypeOK, Unhurried
  PROVE  ~Waiting
<1> SUFFICES ASSUME Waiting PROVE FALSE
  OBVIOUS
<1>1. fanout.at = "policy" /\ fanout.policy = "queue"
  BY DEF Waiting
<1>2. fanout \in Sends
  BY <1>1, Sending
<1> QED
  BY <1>1, <1>2 DEF Sends, Unhurried

(* A step outside the manager leaves the leases as they are.               *)
LEMMA LeasesStand ==
  ASSUME HoldersInv, LeaseInv', UNCHANGED leaseVars
  PROVE  /\ HoldersInv'
         /\ \A q \in Producers : (Secure(q)' <=> Secure(q)) /\ Terminal(q)' = Terminal(q)
<1>1. /\ byKey' = byKey /\ leases' = leases /\ stopped' = stopped /\ producers' = producers
  BY DEF leaseVars
<1>2. NobodyPreempts' /\ HeldApart' /\ StopFreesAll'
  BY <1>1 DEF HoldersInv, NobodyPreempts, HeldApart, StopFreesAll
<1> QED
  BY <1>1, <1>2 DEF HoldersInv, Secure, Current, Terminal

(* A step that leaves intents and lines alone.                             *)
LEMMA BystandersKeep ==
  ASSUME TerminalInv, TypeOK', HoldersInv', RouterInStep',
         intents' = intents, line' = line, running' = running,
         \A q \in Producers : Composing(q)' => Secure(q)',
         \A q \in Producers : intents[q] # "none" => Terminal(q)' = Terminal(q)
  PROVE  TerminalInv'
<1>1. ComposersSecure'
  BY DEF ComposersSecure
<1>2. OneTypist'
  BY DEF TerminalInv, OneTypist
<1>3. LinesAreTyped'
  BY DEF TerminalInv, LinesAreTyped
<1> QED
  BY <1>1, <1>2, <1>3 DEF TerminalInv

(* A current lease, not about to run out, lets an intent begin: nobody     *)
(* else has one at that terminal.                                          *)
LEMMA CheckKeeps ==
  ASSUME TerminalInv, HoldersInv', NEW p \in Producers, NEW kind \in {"submit", "paste"},
         CheckLease(p, kind), leases[producers[p].lease].left > 0
  PROVE  /\ intents' \in [Producers -> IntentStates] /\ intents'[p] = kind
         /\ \A q \in Producers \ {p} : intents'[q] = intents[q]
         /\ Secure(p)'
         /\ OneTypist' /\ LinesAreTyped'
<1>1. /\ Current(p) /\ intents[p] = "none"
      /\ intents' = [intents EXCEPT ![p] = kind]
      /\ UNCHANGED leaseVars /\ line' = line /\ running' = running
  BY DEF CheckLease
<1>2. /\ intents \in [Producers -> IntentStates]
      /\ HoldersInv
  BY DEF TerminalInv, TypeOK
<1>3. LeaseInv'
  BY DEF HoldersInv
<1>4. /\ intents' \in [Producers -> IntentStates] /\ intents'[p] = kind
      /\ \A q \in Producers \ {p} : intents'[q] = intents[q]
  BY <1>1, <1>2 DEF IntentStates
<1>5. \A q \in Producers : (Secure(q)' <=> Secure(q)) /\ Terminal(q)' = Terminal(q)
  BY <1>1, <1>2, <1>3, LeasesStand
<1>6. Secure(p)
  BY <1>1 DEF Secure, Current
<1>7. ASSUME NEW q \in Producers \ {p}, intents[q] # "none"
      PROVE  Terminal(q) # Terminal(p)
  <2>1. Secure(q)
    BY <1>7 DEF TerminalInv, ComposersSecure, Composing
  <2>2. ~stopped
    BY <1>1, <1>2, CurrentStands
  <2>3. Current(q)
    BY <2>1, <2>2 DEF Secure
  <2> QED
    BY <1>1, <1>2, <2>3 DEF Current, HoldersInv, HeldApart
<1>8. OneTypist'
  BY <1>4, <1>5, <1>7 DEF TerminalInv, OneTypist
<1>9. LinesAreTyped'
  <2> SUFFICES ASSUME NEW s \in Sessions, NEW q \in Producers
               PROVE  q \in line[s] <=> intents'[q] = "typed" /\ Terminal(q) = s /\ running[s]
    BY <1>1, <1>5 DEF LinesAreTyped
  <2>1. q \in line[s] <=> intents[q] = "typed" /\ Terminal(q) = s /\ running[s]
    BY DEF TerminalInv, LinesAreTyped
  <2>2. intents'[q] = "typed" <=> intents[q] = "typed"
    BY <1>1, <1>4
  <2> QED
    BY <2>1, <2>2
<1> QED
  BY <1>4, <1>5, <1>6, <1>8, <1>9

(* A write changes the line of its own terminal, where nobody else types.  *)
LEMMA WriteKeeps ==
  ASSUME TerminalInv, LeaseInv', NEW p \in Producers, WriteStep(p)
  PROVE  /\ intents' \in [Producers -> IntentStates] /\ intents[p] # "none"
         /\ line' \in [Sessions -> SUBSET Producers]
         /\ \A q \in Producers \ {p} : intents'[q] = intents[q]
         /\ OneTypist' /\ LinesAreTyped'
<1> DEFINE s0 == Terminal(p)
<1>1. PICK after \in SUBSET Producers, next \in {"none", "typed"} :
        /\ Write(p, after, next)
        /\ intents[p] # "none"
        /\ \/ next = "typed" /\ intents[p] = "submit" /\ after = line[s0] \cup {p}
           \/ next = "none" /\ after = {}
  <2>1. intents[p] # "none" => s0 \in Sessions
    BY Held DEF TerminalInv, ComposersSecure, Composing, Secure
  <2>2. line \in [Sessions -> SUBSET Producers]
    BY DEF TerminalInv, TypeOK
  <2>3. CASE TypeText(p)
    <3>1. intents[p] = "submit" /\ Write(p, line[s0] \cup {p}, "typed")
      BY <2>3 DEF TypeText
    <3>2. line[s0] \cup {p} \in SUBSET Producers
      BY <2>1, <2>2, <3>1
    <3> QED
      BY <3>1, <3>2
  <2>4. CASE PressSubmit(p) \/ PasteAndSubmit(p)
    BY <2>4 DEF PressSubmit, PasteAndSubmit
  <2> QED
    BY <2>3, <2>4 DEF WriteStep
<1>2. /\ line' = IF running[s0] THEN [line EXCEPT ![s0] = after] ELSE line
      /\ intents' = [intents EXCEPT ![p] = IF running[s0] THEN next ELSE "none"]
      /\ running' = running /\ UNCHANGED leaseVars
  BY <1>1 DEF Write
<1>3. /\ intents \in [Producers -> IntentStates]
      /\ line \in [Sessions -> SUBSET Producers]
      /\ HoldersInv
  BY DEF TerminalInv, TypeOK
<1>4. /\ intents' \in [Producers -> IntentStates]
      /\ intents'[p] = IF running[s0] THEN next ELSE "none"
      /\ \A q \in Producers \ {p} : intents'[q] = intents[q]
      /\ line' \in [Sessions -> SUBSET Producers]
  BY <1>2, <1>3 DEF IntentStates
<1>5. \A q \in Producers : Terminal(q)' = Terminal(q)
  BY <1>2, <1>3, LeasesStand
<1>6. s0 \in Sessions
  BY <1>1, <1>3, Held DEF TerminalInv, ComposersSecure, Composing, Secure
<1>7. \A q \in Producers \ {p} : intents[q] # "none" => Terminal(q) # s0
  BY <1>1 DEF TerminalInv, OneTypist
<1>8. OneTypist'
  <2> SUFFICES ASSUME NEW q \in Producers, NEW r \in Producers \ {q},
                      intents'[q] # "none", intents'[r] # "none"
               PROVE  Terminal(q) # Terminal(r)
    BY <1>5 DEF OneTypist
  <2>1. intents[q] # "none" /\ intents[r] # "none"
    BY <1>1, <1>4
  <2> QED
    BY <2>1 DEF TerminalInv, OneTypist
<1>9. LinesAreTyped'
  <2> SUFFICES ASSUME NEW s \in Sessions, NEW q \in Producers
               PROVE  q \in line'[s] <=> intents'[q] = "typed" /\ Terminal(q) = s /\ running[s]
    BY <1>2, <1>5 DEF LinesAreTyped
  <2>1. q \in line[s] <=> intents[q] = "typed" /\ Terminal(q) = s /\ running[s]
    BY DEF TerminalInv, LinesAreTyped
  <2>2. s # s0 => line'[s] = line[s]
    BY <1>2, <1>3
  <2>3. line'[s0] = IF running[s0] THEN after ELSE line[s0]
    BY <1>2, <1>3, <1>6
  <2> HIDE DEF s0
  <2>4. CASE q # p
    <3>1. intents'[q] = intents[q]
      BY <1>4, <2>4
    <3>2. CASE s # s0
      BY <2>1, <2>2, <3>1, <3>2
    <3>3. CASE s = s0 /\ ~running[s0]
      BY <2>1, <2>3, <3>1, <3>3
    <3>4. CASE s = s0 /\ running[s0]
      <4>1. ~(intents[q] = "typed" /\ Terminal(q) = s)
        BY <1>7, <2>4, <3>4
      <4>2. q \notin line[s]
        BY <2>1, <4>1
      <4>3. q \notin after
        BY <1>1, <2>4, <3>4, <4>2
      <4> QED
        BY <2>3, <3>1, <3>4, <4>1, <4>3
    <3> QED
      BY <3>2, <3>3, <3>4
  <2>5. CASE q = p
    <3>1. Terminal(q) = s0
      BY <2>5 DEF s0
    <3>2. CASE s # s0
      BY <2>1, <2>2, <3>1, <3>2
    <3>3. CASE s = s0 /\ ~running[s0]
      BY <2>1, <2>3, <3>3
    <3>4. CASE s = s0 /\ running[s0]
      <4>1. intents'[q] = next /\ line'[s] = after
        BY <1>4, <2>3, <2>5, <3>4
      <4>2. next = "typed" <=> q \in after
        BY <1>1, <2>5
      <4> QED
        BY <3>1, <3>4, <4>1, <4>2
    <3> QED
      BY <3>2, <3>3, <3>4
  <2> QED
    BY <2>4, <2>5
<1> QED
  BY <1>1, <1>4, <1>8, <1>9
-----------------------------------------------------------------------------
(* The clock, which runs no composer's lease down to nothing.              *)
LEMMA ClockKeeps ==
  ASSUME TerminalInv, LeaseInv', Unhurried, Clock
  PROVE  TerminalInv'
<1>1. Tick /\ UNCHANGED <<intents, line, running, ready>> /\ \A p \in Producers : ~Urgent(p)
  BY DEF Clock, Unhurried
<1>2. TypeOK /\ HoldersInv
  BY DEF TerminalInv
<1>3. ~Waiting
  BY <1>2, NeverWaits
<1>4. fanout' = fanout
  BY <1>3 DEF Clock
<1>5. ASSUME NEW q \in Producers, Composing(q)
      PROVE  Secure(q)' /\ Terminal(q)' = Terminal(q)
  <2>1. Secure(q) /\ producers[q].at = "holding"
    BY <1>5 DEF TerminalInv, ComposersSecure, Secure
  <2>2. ~(leases[producers[q].lease].left <= 1)
    BY <1>1, <1>3, <1>5, <2>1 DEF Urgent, Composing
  <2>3. leases[producers[q].lease].left \in Nat
    BY <1>2, <2>1, Held DEF Lease
  <2>4. leases[producers[q].lease].left > 1
    BY <2>2, <2>3
  <2> QED
    BY <1>1, <1>2, <2>1, <2>4, TickSpares
<1>6. HoldersInv'
  BY <1>1, <1>2, TickSpares
<1>7. TypeOK'
  BY <1>1, <1>2, <1>4 DEF TypeOK, LeaseInv
<1>8. RouterInStep'
  BY <1>1, <1>4 DEF TerminalInv, RouterInStep
<1>9. \A q \in Producers : Composing(q)' <=> Composing(q)
  BY <1>1, <1>4 DEF Composing
<1>10. \A q \in Producers : intents[q] # "none" => Terminal(q)' = Terminal(q)
  BY <1>5 DEF Composing
<1> QED
  BY <1>1, <1>5, <1>6, <1>7, <1>8, <1>9, <1>10, BystandersKeep

(* A step of the manager, or a client's call, with no intent of its own.   *)
LEMMA OnlyLeasesKeeps ==
  ASSUME TerminalInv, HoldersInv', OnlyLeases,
         \A q \in Producers : Composing(q) => Secure(q)' /\ Terminal(q)' = Terminal(q)
  PROVE  TerminalInv'
<1>1. intents' = intents /\ line' = line /\ running' = running /\ ready' = ready /\ fanout' = fanout
  BY DEF OnlyLeases
<1>2. TypeOK'
  BY <1>1 DEF TerminalInv, TypeOK, HoldersInv, LeaseInv
<1>3. RouterInStep'
  BY <1>1 DEF TerminalInv, RouterInStep
<1>4. \A q \in Producers : Composing(q)' <=> Composing(q)
  BY <1>1 DEF Composing
<1>5. \A q \in Producers : intents[q] # "none" => Terminal(q)' = Terminal(q)
  BY DEF Composing
<1> QED
  BY <1>1, <1>2, <1>3, <1>4, <1>5, BystandersKeep

(* Timers, finalize and Stop.                                              *)
LEMMA ManagerKeeps ==
  ASSUME TerminalInv, LeaseInv', ManagerActs
  PROVE  TerminalInv'
<1>1. HoldersInv /\ \A q \in Producers : Composing(q) => Secure(q)
  BY DEF TerminalInv, ComposersSecure
<1>2. HoldersInv' /\ \A q \in Producers : Secure(q) => Secure(q)' /\ Terminal(q)' = Terminal(q)
  BY <1>1, ExpireSpares, FinalizeSpares, StopSpares DEF ManagerActs
<1>3. OnlyLeases
  BY DEF ManagerActs
<1> QED
  BY <1>1, <1>2, <1>3, OnlyLeasesKeeps

(* A client's call, the start of its intent, or a write.                   *)
LEMMA ClientKeeps ==
  ASSUME TerminalInv, LeaseInv', Unhurried, NEW p \in Clients, ClientStep(p)
  PROVE  TerminalInv'
<1>1. p \in Producers /\ p # Router /\ Router \in Producers
  BY TerminalInputAssumption DEF Clients
<1>2. TypeOK /\ HoldersInv /\ \A q \in Producers : Composing(q) => Secure(q)
  BY DEF TerminalInv, ComposersSecure
<1>3. CASE intents[p] = "none" /\ ProducerCall(p) /\ OnlyLeases
  <2>1. /\ HoldersInv'
        /\ \A q \in Producers \ {p} : Secure(q) => Secure(q)' /\ Terminal(q)' = Terminal(q)
    <3>1. ASSUME NEW s \in Sessions, NEW ttl \in TTLs, NEW preempt \in {FALSE, Preempting},
                 Acquire(p, s, ttl, preempt)
          PROVE  /\ HoldersInv'
                 /\ \A q \in Producers \ {p} : Secure(q) => Secure(q)' /\ Terminal(q)' = Terminal(q)
      <4>1. preempt = FALSE
        BY InputLeaseAssumption DEF Unhurried
      <4>2. Acquire(p, s, ttl, FALSE)
        BY <3>1, <4>1
      <4> QED
        BY <1>1, <1>2, <4>2, AcquireSecures
    <3>2. CASE Release(p) \/ Abandon(p)
      BY <1>1, <1>2, <3>2, ReleaseSpares, AbandonSpares
    <3> QED
      BY <1>1, <1>3, <3>1, <3>2 DEF ProducerCall
  <2>2. ~Composing(p)
    BY <1>1, <1>3 DEF Composing
  <2> QED
    BY <1>2, <1>3, <2>1, <2>2, OnlyLeasesKeeps
<1>4. CASE \E kind \in {"submit", "paste"} :
             producers[p].at = "holding" /\ Allows(p) /\ CheckLease(p, kind) /\ UNCHANGED fanout
  <2>1. PICK kind \in {"submit", "paste"} : Allows(p) /\ CheckLease(p, kind) /\ fanout' = fanout
    BY <1>4
  <2>2. leases[producers[p].lease].left > 0
    BY <1>1, <1>2, <2>1, CurrentStands DEF Allows, CheckLease, Unhurried
  <2>3. /\ UNCHANGED leaseVars /\ line' = line /\ running' = running /\ ready' = ready
    BY <2>1 DEF CheckLease
  <2>4. /\ HoldersInv'
        /\ \A q \in Producers : (Secure(q)' <=> Secure(q)) /\ Terminal(q)' = Terminal(q)
    BY <1>2, <2>3, LeasesStand
  <2>5. /\ intents' \in [Producers -> IntentStates] /\ intents'[p] = kind
        /\ \A q \in Producers \ {p} : intents'[q] = intents[q]
        /\ Secure(p)' /\ OneTypist' /\ LinesAreTyped'
    BY <1>1, <2>1, <2>2, <2>4, CheckKeeps
  <2>6. TypeOK'
    BY <1>2, <2>1, <2>3, <2>5 DEF TypeOK, LeaseInv
  <2>7. ComposersSecure'
    BY <1>2, <2>1, <2>4, <2>5 DEF ComposersSecure, Composing
  <2>8. RouterInStep'
    BY <1>1, <2>1, <2>5 DEF TerminalInv, RouterInStep
  <2> QED
    BY <2>4, <2>5, <2>6, <2>7, <2>8 DEF TerminalInv
<1>5. CASE WriteStep(p) /\ UNCHANGED fanout
  <2>1. UNCHANGED leaseVars /\ running' = running /\ ready' = ready /\ fanout' = fanout
    BY <1>5 DEF WriteStep, TypeText, PressSubmit, PasteAndSubmit, Write
  <2>2. /\ HoldersInv'
        /\ \A q \in Producers : (Secure(q)' <=> Secure(q)) /\ Terminal(q)' = Terminal(q)
    BY <1>2, <2>1, LeasesStand
  <2>3. /\ intents' \in [Producers -> IntentStates] /\ intents[p] # "none"
        /\ line' \in [Sessions -> SUBSET Producers]
        /\ \A q \in Producers \ {p} : intents'[q] = intents[q]
        /\ OneTypist' /\ LinesAreTyped'
    BY <1>1, <1>5, WriteKeeps
  <2>4. TypeOK'
    BY <1>2, <2>1, <2>3 DEF TypeOK, LeaseInv
  <2>5. ComposersSecure'
    BY <1>2, <2>1, <2>2, <2>3 DEF ComposersSecure, Composing
  <2>6. RouterInStep'
    BY <1>1, <2>1, <2>3 DEF TerminalInv, RouterInStep
  <2> QED
    BY <2>2, <2>3, <2>4, <2>5, <2>6 DEF TerminalInv
<1> QED
  BY <1>3, <1>4, <1>5 DEF ClientStep

(* The router between two targets, before and after a Send, or deciding to *)
(* deliver: only the phase changes.                                        *)
LEMMA PhaseKeeps ==
  ASSUME TerminalInv, LeaseInv', UNCHANGED <<leaseVars, intents, line, running, ready>>,
         fanout.at # "writing", fanout' \in {SendIdle} \cup Sends, fanout'.at # "writing",
         fanout'.at \in {"policy", "deliver"} => fanout.at = "policy"
  PROVE  TerminalInv'
<1>1. TypeOK /\ HoldersInv /\ \A q \in Producers : Composing(q) => Secure(q)
  BY DEF TerminalInv, ComposersSecure
<1>2. /\ HoldersInv'
      /\ \A q \in Producers : (Secure(q)' <=> Secure(q)) /\ Terminal(q)' = Terminal(q)
  BY <1>1, LeasesStand
<1>3. TypeOK'
  BY <1>1 DEF TypeOK, LeaseInv
<1>4. RouterInStep'
  BY DEF TerminalInv, RouterInStep
<1>5. \A q \in Producers : Composing(q)' => Composing(q)
  BY DEF Composing
<1> QED
  BY <1>1, <1>2, <1>3, <1>4, <1>5, BystandersKeep

(* Send waits for the one before it.                                       *)
LEMMA SendKeeps ==
  ASSUME TerminalInv, LeaseInv', NEW targets \in SUBSET Sessions, NEW policy \in Policies,
         Send(targets, policy)
  PROVE  TerminalInv'
<1>1. fanout' \in Sends /\ fanout'.at = "next"
  BY TerminalInputAssumption DEF Send, Sends, SendPhases
<1>2. fanout.at = "idle"
  BY DEF Send, SendIdle
<1> QED
  BY <1>1, <1>2, PhaseKeeps DEF Send

(* deliverOne starts with a lease of RouterTTL.                            *)
LEMMA RouterAcquireKeeps ==
  ASSUME TerminalInv, LeaseInv', NEW s \in Sessions, RouterAcquire(s)
  PROVE  TerminalInv'
<1>1. TypeOK /\ HoldersInv /\ \A q \in Producers : Composing(q) => Secure(q)
  BY DEF TerminalInv, ComposersSecure
<1>2. /\ fanout.at = "next" /\ Acquire(Router, s, RouterTTL, FALSE)
      /\ fanout' = [fanout EXCEPT !.at = "policy", !.todo = fanout.todo \ {s}, !.waited = 0]
      /\ intents' = intents /\ line' = line /\ running' = running /\ ready' = ready
  BY DEF RouterAcquire
<1>3. fanout \in Sends
  BY <1>1, <1>2, Sending
<1>4. fanout' \in Sends /\ fanout'.at = "policy"
  <2>1. /\ QueueTimeout \in Nat /\ 0 \in 0..QueueTimeout /\ "policy" \in SendPhases
        /\ fanout.todo \ {s} \in SUBSET Sessions
    BY <1>3, TerminalInputAssumption DEF Sends, SendPhases
  <2> QED
    BY <1>2, <1>3, <2>1 DEF Sends
<1>5. /\ HoldersInv' /\ Secure(Router)'
      /\ \A q \in Producers \ {Router} : Secure(q) => Secure(q)' /\ Terminal(q)' = Terminal(q)
  BY <1>1, <1>2, AcquireSecures, TerminalInputAssumption
<1>6. intents[Router] = "none"
  BY <1>2 DEF TerminalInv, RouterInStep
<1>7. TypeOK'
  BY <1>1, <1>2, <1>4 DEF TypeOK, LeaseInv
<1>8. RouterInStep'
  BY <1>2, <1>4, <1>6 DEF RouterInStep
<1>9. \A q \in Producers \ {Router} : Composing(q)' <=> Composing(q)
  BY <1>2 DEF Composing
<1>10. \A q \in Producers : intents[q] # "none" => Terminal(q)' = Terminal(q)
  BY <1>1, <1>5, <1>6 DEF Composing
<1> QED
  BY <1>1, <1>2, <1>5, <1>7, <1>8, <1>9, <1>10, BystandersKeep

(* The policy goes on to the delivery or gives up.                         *)
LEMMA ApplyPolicyKeeps ==
  ASSUME TerminalInv, LeaseInv', NEW s, ApplyPolicy(s)
  PROVE  TerminalInv'
<1>1. fanout.at = "policy" /\ UNCHANGED <<leaseVars, intents, line, running, ready>>
  BY DEF ApplyPolicy
<1>2. fanout \in Sends
  BY <1>1, Sending DEF TerminalInv
<1>3. PICK phase \in {"deliver", "release"} : GoTo(phase)
  BY DEF ApplyPolicy
<1>4. fanout' \in Sends /\ fanout'.at = phase
  BY <1>2, <1>3, GoesOn DEF SendPhases
<1> QED
  BY <1>1, <1>4, PhaseKeeps

(* The delivery starts an intent on the router's lease.                    *)
LEMMA DeliverKeeps ==
  ASSUME TerminalInv, LeaseInv', Deliver
  PROVE  TerminalInv'
<1>1. fanout.at = "deliver"
  BY DEF Deliver
<1>2. /\ TypeOK /\ HoldersInv /\ \A q \in Producers : Composing(q) => Secure(q)
      /\ fanout \in Sends /\ Router \in Producers
  BY <1>1, Sending, TerminalInputAssumption DEF TerminalInv, ComposersSecure
<1>3. CASE Current(Router)
  <2>1. PICK kind \in {"submit", "paste"} : CheckLease(Router, kind) /\ GoTo("writing")
    BY <1>3 DEF Deliver
  <2>2. fanout' \in Sends /\ fanout'.at = "writing"
    BY <1>2, <2>1, GoesOn DEF SendPhases
  <2>3. Secure(Router) /\ ~stopped
    BY <1>1, <1>2, <1>3, CurrentStands DEF Composing
  <2>4. leases[producers[Router].lease].left > 0
    BY <2>3 DEF Secure
  <2>5. /\ UNCHANGED leaseVars /\ line' = line /\ running' = running /\ ready' = ready
    BY <2>1 DEF CheckLease
  <2>6. /\ HoldersInv'
        /\ \A q \in Producers : (Secure(q)' <=> Secure(q)) /\ Terminal(q)' = Terminal(q)
    BY <1>2, <2>5, LeasesStand
  <2>7. /\ intents' \in [Producers -> IntentStates] /\ intents'[Router] = kind
        /\ \A q \in Producers \ {Router} : intents'[q] = intents[q]
        /\ Secure(Router)' /\ OneTypist' /\ LinesAreTyped'
    BY <1>2, <2>1, <2>4, <2>6, CheckKeeps
  <2>8. TypeOK'
    BY <1>2, <2>2, <2>5, <2>7 DEF TypeOK, LeaseInv
  <2>9. ComposersSecure'
    BY <1>2, <2>6, <2>7 DEF ComposersSecure, Composing
  <2>10. RouterInStep'
    BY <2>2, <2>7 DEF RouterInStep
  <2> QED
    BY <2>6, <2>7, <2>8, <2>9, <2>10 DEF TerminalInv
<1>4. CASE ~Current(Router)
  <2>1. GoTo("release") /\ UNCHANGED <<leaseVars, intents, line, running, ready>>
    BY <1>4 DEF Deliver
  <2>2. fanout' \in Sends /\ fanout'.at = "release"
    BY <1>2, <2>1, GoesOn DEF SendPhases
  <2> QED
    BY <1>1, <2>1, <2>2, PhaseKeeps
<1> QED
  BY <1>3, <1>4

(* The router's text and its submit key.                                  *)
LEMMA RouterWritesKeeps ==
  ASSUME TerminalInv, LeaseInv', RouterWrites
  PROVE  TerminalInv'
<1>1. fanout.at = "writing" /\ WriteStep(Router)
  BY DEF RouterWrites
<1>2. /\ TypeOK /\ HoldersInv /\ \A q \in Producers : Composing(q) => Secure(q)
      /\ fanout \in Sends /\ Router \in Producers
  BY <1>1, Sending, TerminalInputAssumption DEF TerminalInv, ComposersSecure
<1>3. UNCHANGED leaseVars /\ running' = running /\ ready' = ready
  BY <1>1 DEF WriteStep, TypeText, PressSubmit, PasteAndSubmit, Write
<1>4. /\ HoldersInv'
      /\ \A q \in Producers : (Secure(q)' <=> Secure(q)) /\ Terminal(q)' = Terminal(q)
  BY <1>2, <1>3, LeasesStand
<1>5. /\ intents' \in [Producers -> IntentStates] /\ intents[Router] # "none"
      /\ line' \in [Sessions -> SUBSET Producers]
      /\ \A q \in Producers \ {Router} : intents'[q] = intents[q]
      /\ OneTypist' /\ LinesAreTyped'
  BY <1>1, <1>2, WriteKeeps
<1>6. fanout' \in Sends /\ fanout'.at = IF intents'[Router] = "none" THEN "release" ELSE "writing"
  <2>1. CASE intents'[Router] = "none"
    BY <1>2, <2>1, GoesOn DEF RouterWrites, SendPhases
  <2>2. CASE intents'[Router] # "none"
    BY <1>1, <1>2, <2>2 DEF RouterWrites
  <2> QED
    BY <2>1, <2>2
<1>7. TypeOK'
  BY <1>2, <1>3, <1>5, <1>6 DEF TypeOK, LeaseInv
<1>8. ComposersSecure'
  BY <1>1, <1>2, <1>4, <1>5 DEF ComposersSecure, Composing
<1>9. RouterInStep'
  BY <1>6 DEF RouterInStep
<1> QED
  BY <1>4, <1>5, <1>7, <1>8, <1>9 DEF TerminalInv

(* The router lets go of its lease with no intent in progress.             *)
LEMMA RouterReleasesKeeps ==
  ASSUME TerminalInv, LeaseInv', RouterReleases
  PROVE  TerminalInv'
<1>1. /\ fanout.at = "release" /\ Release(Router) /\ GoTo("next")
      /\ intents' = intents /\ line' = line /\ running' = running /\ ready' = ready
  BY DEF RouterReleases
<1>2. /\ TypeOK /\ HoldersInv /\ \A q \in Producers : Composing(q) => Secure(q)
      /\ fanout \in Sends /\ Router \in Producers
  BY <1>1, Sending, TerminalInputAssumption DEF TerminalInv, ComposersSecure
<1>3. fanout' \in Sends /\ fanout'.at = "next"
  BY <1>1, <1>2, GoesOn DEF SendPhases
<1>4. /\ HoldersInv'
      /\ \A q \in Producers \ {Router} : Secure(q) => Secure(q)' /\ Terminal(q)' = Terminal(q)
  BY <1>1, <1>2, ReleaseSpares
<1>5. intents[Router] = "none"
  BY <1>1 DEF TerminalInv, RouterInStep
<1>6. TypeOK'
  BY <1>1, <1>2, <1>3 DEF TypeOK, LeaseInv
<1>7. RouterInStep'
  BY <1>1, <1>3, <1>5 DEF RouterInStep
<1>8. \A q \in Producers : Composing(q)' => q # Router /\ Composing(q)
  BY <1>1, <1>3, <1>5 DEF Composing
<1>9. \A q \in Producers : intents[q] # "none" => Terminal(q)' = Terminal(q)
  BY <1>2, <1>4, <1>5 DEF Composing
<1> QED
  BY <1>1, <1>2, <1>4, <1>6, <1>7, <1>8, <1>9, BystandersKeep

(* Every step of the router.                                              *)
LEMMA RouterKeeps ==
  ASSUME TerminalInv, LeaseInv', RouterStep
  PROVE  TerminalInv'
<1>1. ASSUME NEW s \in Sessions, RouterRefused(s)
      PROVE  TerminalInv'
  <2>1. fanout.at = "next" /\ fanout' = [fanout EXCEPT !.todo = fanout.todo \ {s}]
    BY <1>1 DEF RouterRefused
  <2>2. fanout \in Sends
    BY <2>1, Sending DEF TerminalInv
  <2>3. fanout' \in Sends /\ fanout'.at = "next"
    BY <2>1, <2>2 DEF Sends
  <2> QED
    BY <1>1, <2>1, <2>3, PhaseKeeps DEF RouterRefused
<1>2. CASE RouterReturns
  <2>1. fanout.at = "next" /\ fanout' = SendIdle /\ SendIdle.at = "idle"
    BY <1>2 DEF RouterReturns, SendIdle
  <2> QED
    BY <1>2, <2>1, PhaseKeeps DEF RouterReturns
<1> QED
  BY <1>1, <1>2, RouterAcquireKeeps, ApplyPolicyKeeps, DeliverKeeps, RouterWritesKeeps,
     RouterReleasesKeeps
  DEF RouterStep

(* A session that exits takes its line with it.                            *)
LEMMA SessionExitKeeps ==
  ASSUME TerminalInv, LeaseInv', NEW s \in Sessions, SessionExit(s)
  PROVE  TerminalInv'
<1>1. /\ running' = [running EXCEPT ![s] = FALSE] /\ line' = [line EXCEPT ![s] = {}]
      /\ ready' = [ready EXCEPT ![s] = FALSE]
      /\ UNCHANGED leaseVars /\ intents' = intents /\ fanout' = fanout
  BY DEF SessionExit
<1>2. TypeOK /\ HoldersInv /\ \A q \in Producers : Composing(q) => Secure(q)
  BY DEF TerminalInv, ComposersSecure
<1>3. /\ HoldersInv'
      /\ \A q \in Producers : (Secure(q)' <=> Secure(q)) /\ Terminal(q)' = Terminal(q)
  BY <1>1, <1>2, LeasesStand
<1>4. TypeOK'
  BY <1>1, <1>2 DEF TypeOK, LeaseInv
<1>5. ComposersSecure'
  BY <1>1, <1>2, <1>3 DEF ComposersSecure, Composing
<1>6. OneTypist' /\ RouterInStep'
  BY <1>1, <1>3 DEF TerminalInv, OneTypist, RouterInStep
<1>7. LinesAreTyped'
  <2> SUFFICES ASSUME NEW t \in Sessions, NEW q \in Producers
               PROVE  q \in line'[t] <=> intents[q] = "typed" /\ Terminal(q) = t /\ running'[t]
    BY <1>1, <1>3 DEF LinesAreTyped
  <2>1. q \in line[t] <=> intents[q] = "typed" /\ Terminal(q) = t /\ running[t]
    BY DEF TerminalInv, LinesAreTyped
  <2>2. /\ line'[t] = IF t = s THEN {} ELSE line[t]
        /\ running'[t] = IF t = s THEN FALSE ELSE running[t]
    BY <1>1, <1>2 DEF TypeOK
  <2> QED
    BY <2>1, <2>2
<1> QED
  BY <1>3, <1>4, <1>5, <1>6, <1>7 DEF TerminalInv

(* Readiness is nobody's text and nobody's lease.                         *)
LEMMA ReadinessKeeps ==
  ASSUME TerminalInv, LeaseInv', NEW s \in Sessions, ReadinessChanges(s)
  PROVE  TerminalInv'
<1>1. /\ ready' = [ready EXCEPT ![s] = ~ready[s]] /\ UNCHANGED leaseVars
      /\ intents' = intents /\ line' = line /\ running' = running /\ fanout' = fanout
  BY DEF ReadinessChanges
<1>2. TypeOK /\ HoldersInv /\ \A q \in Producers : Composing(q) => Secure(q)
  BY DEF TerminalInv, ComposersSecure
<1>3. /\ HoldersInv'
      /\ \A q \in Producers : (Secure(q)' <=> Secure(q)) /\ Terminal(q)' = Terminal(q)
  BY <1>1, <1>2, LeasesStand
<1>4. TypeOK'
  BY <1>1, <1>2 DEF TypeOK, LeaseInv
<1>5. RouterInStep' /\ \A q \in Producers : Composing(q)' <=> Composing(q)
  BY <1>1 DEF TerminalInv, RouterInStep, Composing
<1> QED
  BY <1>1, <1>2, <1>3, <1>4, <1>5, BystandersKeep
-----------------------------------------------------------------------------
(* A terminal's behaviour starts in the invariant and stays in it.         *)
LEMMA TerminalInit == Init => TerminalInv
<1> SUFFICES ASSUME Init PROVE TerminalInv
  OBVIOUS
<1>1. LeaseInv
  BY InvInit DEF Init
<1>2. \A p \in Producers : producers[p].at = "idle" /\ intents[p] = "none"
  BY DEF Init, LeaseInit, Idle
<1>3. ~stopped /\ fanout.at = "idle"
  BY DEF Init, LeaseInit, SendIdle
<1>4. HoldersInv
  BY <1>1, <1>2, <1>3 DEF HoldersInv, NobodyPreempts, HeldApart, StopFreesAll
<1>5. TypeOK
  BY <1>1 DEF Init, TypeOK, LeaseInv, IntentStates
<1>6. ComposersSecure /\ OneTypist
  BY <1>2, <1>3 DEF ComposersSecure, OneTypist, Composing
<1>7. LinesAreTyped
  BY <1>2 DEF Init, LinesAreTyped
<1>8. RouterInStep
  BY <1>2, <1>3, TerminalInputAssumption DEF RouterInStep
<1> QED
  BY <1>4, <1>5, <1>6, <1>7, <1>8 DEF TerminalInv

(* Every step keeps the invariant.                                        *)
LEMMA TerminalStep == Unhurried /\ TerminalInv /\ [Next]_vars => TerminalInv'
<1> SUFFICES ASSUME Unhurried, TerminalInv, [Next]_vars PROVE TerminalInv'
  OBVIOUS
<1>1. LeaseInv'
  BY StepsUseLeases, InvStep DEF TerminalInv, HoldersInv
<1>2. CASE UNCHANGED vars
  <2>1. OnlyLeases /\ UNCHANGED leaseVars
    BY <1>2 DEF vars, terminalVars, OnlyLeases
  <2>2. /\ HoldersInv' /\ \A q \in Producers : Composing(q) => Secure(q)
        /\ \A q \in Producers : (Secure(q)' <=> Secure(q)) /\ Terminal(q)' = Terminal(q)
    BY <1>1, <2>1, LeasesStand DEF TerminalInv, ComposersSecure
  <2> QED
    BY <2>1, <2>2, OnlyLeasesKeeps
<1>3. CASE Next
  BY <1>1, <1>3, ClientKeeps, SendKeeps, RouterKeeps, SessionExitKeeps, ReadinessKeeps,
     ManagerKeeps, ClockKeeps
  DEF Next
<1> QED
  BY <1>2, <1>3

(* The invariant holds for any terminals, producers, TTLs and messages.    *)
THEOREM TerminalSafety == Unhurried /\ Spec => []TerminalInv
<1> SUFFICES ASSUME Unhurried PROVE Spec => []TerminalInv
  OBVIOUS
<1>1. TerminalInv /\ [Next]_vars => TerminalInv'
  BY TerminalStep
<1> QED
  BY <1>1, TerminalInit, PTL DEF Spec

(* What a submit key submits is the text of the producer that pressed it,  *)
(* all of it and nothing else: two producers never type over one another.  *)
THEOREM SubmissionsStayIntact == Unhurried /\ Spec => []SubmissionsIntact
<1>1. TerminalInv => SubmissionsIntact
  <2> SUFFICES ASSUME TerminalInv, NEW p \in Producers, intents[p] = "typed",
                      running[Terminal(p)]
               PROVE  line[Terminal(p)] = {p}
    BY DEF SubmissionsIntact
  <2>1. Terminal(p) \in Sessions
    BY Held DEF TerminalInv, ComposersSecure, Composing, Secure
  <2>2. line[Terminal(p)] \subseteq Producers
    BY <2>1 DEF TerminalInv, TypeOK
  <2>3. p \in line[Terminal(p)]
    BY <2>1 DEF TerminalInv, LinesAreTyped
  <2>4. ASSUME NEW q \in line[Terminal(p)]
        PROVE  q = p
    <3>1. q \in Producers /\ intents[q] = "typed" /\ Terminal(q) = Terminal(p)
      BY <2>1, <2>2, <2>4 DEF TerminalInv, LinesAreTyped
    <3> QED
      BY <3>1 DEF TerminalInv, OneTypist
  <2> QED
    BY <2>3, <2>4
<1> QED
  BY <1>1, TerminalSafety, PTL

(* The router's lease is still its own when it delivers and while it       *)
(* writes: the TTL never takes it away.                                    *)
THEOREM RouterKeepsItsLease == Unhurried /\ Spec => []RouterHoldsItsLease
<1>1. TerminalInv => RouterHoldsItsLease
  BY TerminalInputAssumption DEF TerminalInv, ComposersSecure, Composing, Secure, RouterHoldsItsLease
<1> QED
  BY <1>1, TerminalSafety, PTL
=============================================================================
