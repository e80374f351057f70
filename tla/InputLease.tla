---------------------------- MODULE InputLease ----------------------------
(***************************************************************************)
(* The lease manager of foxprox (broker/lease): who may type into which    *)
(* terminal.  Every method changes the two maps under m.mu, unlocks, and   *)
(* only then finalizes the lease it took out of them (sets its reason and  *)
(* closes Expired()), so each is two steps.  TTL timers, preemption, Stop  *)
(* and the producers' own calls meet between the two.                      *)
(*                                                                         *)
(* One scope, terminal.input, so a key is a session.  Lease ids are ULIDs, *)
(* unique for ever: the numbers 1, 2, ... here.                            *)
(***************************************************************************)
EXTENDS Integers

CONSTANTS
  Sessions,    \* terminals
  Producers,   \* callers of the manager, each with at most one lease at a time
  TTLs,        \* ticks a producer may ask for
  Preempting,  \* TRUE: producers may acquire with Preempt
  NoLease,     \* no lease was issued under this id
  MaxLeases    \* bound: leases issued

ASSUME InputLeaseAssumption ==
  /\ TTLs \subseteq Nat \ {0}
  /\ Preempting \in BOOLEAN
  /\ MaxLeases \in Nat \ {0}

LeaseIds == 1..MaxLeases
Nobody == 0
Endings == {"released", "expired", "preempted", "stopped"}
Lease == [session: Sessions, left: Nat, reason: Endings \cup {"active"}]

ASSUME NoLeaseAssumption ==
  /\ NoLease \notin Lease
  /\ NoLease \notin [session: Sessions, standing: Endings \cup {"active"}]

VARIABLES
  byKey,      \* byKey[s]: the lease that holds terminal s, or Nobody
  byID,       \* ids of the leases the manager knows
  leases,     \* leases[l]: the lease value its holders see
  issued,     \* leases issued so far
  finalizing, \* <<lease, reason>>: a goroutine is about to call finalize
  stopped,    \* Stop was called
  producers   \* producers[p]: the call p is in, the lease p was given

leaseVars == <<byKey, byID, leases, issued, finalizing, stopped, producers>>
-----------------------------------------------------------------------------
(* "acquiring" and "releasing": inside a call that will finalize the lease *)
(* ends; "holding": between calls, with a lease that may have ended since. *)
Idle == [at |-> "idle"]
Holding(l) == [at |-> "holding", lease |-> l]
Acquiring(l, ends) == [at |-> "acquiring", lease |-> l, ends |-> ends]
Releasing(l) == [at |-> "releasing", ends |-> l]

ProducerStates ==
  {Idle} \cup [at: {"holding"}, lease: LeaseIds]
    \cup [at: {"acquiring"}, lease: LeaseIds, ends: LeaseIds]
    \cup [at: {"releasing"}, ends: LeaseIds]

IsActive(l) == leases[l] # NoLease /\ leases[l].reason = "active"

LeaseInit ==
  /\ byKey = [s \in Sessions |-> Nobody]
  /\ byID = {}
  /\ leases = [l \in LeaseIds |-> NoLease]
  /\ issued = 0
  /\ finalizing = {}
  /\ stopped = FALSE
  /\ producers = [p \in Producers |-> Idle]

CanAcquire(s, preempt) ==
  /\ ~stopped
  /\ byKey[s] = Nobody \/ preempt
  /\ issued < MaxLeases

\* Slip: the preempted lease stays in byID.
AcquireKeepingOld(p, s, ttl, preempt) ==
  LET l == issued + 1
      old == byKey[s]
  IN
  /\ producers[p] = Idle
  /\ CanAcquire(s, preempt)
  /\ issued' = l
  /\ leases' = [leases EXCEPT ![l] = [session |-> s, left |-> ttl, reason |-> "active"]]
  /\ byKey' = [byKey EXCEPT ![s] = l]
  /\ byID' = byID \cup {l}
  /\ finalizing' = IF old = Nobody THEN finalizing
                                   ELSE finalizing \cup {<<old, "preempted">>}
  /\ producers' = [producers EXCEPT ![p] =
       IF old = Nobody THEN Holding(l) ELSE Acquiring(l, old)]
  /\ UNCHANGED stopped

(* Under the lock: take the current holder's lease out if preempting, put  *)
(* the new one in.  ErrLeaseHeld and ErrManagerStopped change nothing.     *)
Acquire(p, s, ttl, preempt) ==
  LET l == issued + 1
      old == byKey[s]
  IN
  /\ producers[p] = Idle
  /\ CanAcquire(s, preempt)
  /\ issued' = l
  /\ leases' = [leases EXCEPT ![l] = [session |-> s, left |-> ttl, reason |-> "active"]]
  /\ byKey' = [byKey EXCEPT ![s] = l]
  /\ byID' = (byID \ {old}) \cup {l}
  /\ finalizing' = IF old = Nobody THEN finalizing
                                   ELSE finalizing \cup {<<old, "preempted">>}
  /\ producers' = [producers EXCEPT ![p] =
       IF old = Nobody THEN Holding(l) ELSE Acquiring(l, old)]
  /\ UNCHANGED stopped

\* What Release and expire do under the lock to a lease they found in byID.
Remove(l, reason) ==
  /\ byID' = byID \ {l}
  /\ byKey' = [byKey EXCEPT ![leases[l].session] = Nobody]
  /\ finalizing' = finalizing \cup {<<l, reason>>}
  /\ UNCHANGED <<leases, issued, stopped>>

\* Slip: Release does not look the lease up in byID.
ReleaseUnchecked(p) ==
  /\ producers[p].at = "holding"
  /\ Remove(producers[p].lease, "released")
  /\ producers' = [producers EXCEPT ![p] = Releasing(producers[p].lease)]

(* A lease that expired or was preempted is unknown: ErrUnknownLease, and  *)
(* whoever holds the terminal now is left alone.                           *)
Release(p) ==
  /\ producers[p].at = "holding"
  /\ LET l == producers[p].lease IN
       IF l \in byID
       THEN /\ Remove(l, "released")
            /\ producers' = [producers EXCEPT ![p] = Releasing(l)]
       ELSE /\ producers' = [producers EXCEPT ![p] = Idle]
            /\ UNCHANGED <<byKey, byID, leases, issued, finalizing, stopped>>

\* A producer that crashes or forgets: its lease is left to the TTL.
Abandon(p) ==
  /\ producers[p].at = "holding"
  /\ producers' = [producers EXCEPT ![p] = Idle]
  /\ UNCHANGED <<byKey, byID, leases, issued, finalizing, stopped>>

(* The TTL timer.  A timer that fires after the lease left byID skips it;  *)
(* finalize stops the timer.                                               *)
Expire(l) ==
  /\ IsActive(l) /\ leases[l].left = 0
  /\ l \in byID
  /\ Remove(l, "expired")
  /\ UNCHANGED producers

\* Slip: the leases are dropped from the maps but not finalized.
StopSilently ==
  /\ ~stopped
  /\ stopped' = TRUE
  /\ byKey' = [s \in Sessions |-> Nobody]
  /\ byID' = {}
  /\ UNCHANGED <<leases, issued, finalizing, producers>>

Stop ==
  /\ ~stopped
  /\ stopped' = TRUE
  /\ byKey' = [s \in Sessions |-> Nobody]
  /\ byID' = {}
  /\ finalizing' = finalizing \cup {<<l, "stopped">> : l \in byID}
  /\ UNCHANGED <<leases, issued, producers>>

(* finalize: the first reason wins.  A producer whose call this was, to    *)
(* release the lease or to preempt it, gets its answer.                    *)
Finalize(l, reason) ==
  /\ <<l, reason>> \in finalizing
  /\ finalizing' = finalizing \ {<<l, reason>>}
  /\ leases' = IF IsActive(l)
               THEN [leases EXCEPT ![l] = [@ EXCEPT !.reason = reason]]
               ELSE leases
  /\ producers' = [p \in Producers |->
       CASE producers[p].at = "acquiring" /\ producers[p].ends = l -> Holding(producers[p].lease)
         [] producers[p].at = "releasing" /\ producers[p].ends = l -> Idle
         [] OTHER -> producers[p]]
  /\ UNCHANGED <<byKey, byID, issued, stopped>>

\* A timer runs until finalize stops it.
Tick ==
  /\ leases' = [l \in LeaseIds |->
       IF IsActive(l) /\ leases[l].left > 0
       THEN [leases[l] EXCEPT !.left = leases[l].left - 1]
       ELSE leases[l]]
  /\ UNCHANGED <<byKey, byID, issued, finalizing, stopped, producers>>

ProducerCall(p) ==
  \/ \E s \in Sessions, ttl \in TTLs, preempt \in {FALSE, Preempting} :
       Acquire(p, s, ttl, preempt)
  \/ Release(p)
  \/ Abandon(p)

ManagerStep ==
  \/ \E l \in LeaseIds : Expire(l) \/ \E reason \in Endings : Finalize(l, reason)
  \/ Stop
  \/ Tick

LeaseNext == (\E p \in Producers : ProducerCall(p)) \/ ManagerStep

LeaseSpec == LeaseInit /\ [][LeaseNext]_leaseVars

(* The clock runs, due timers fire, and a goroutine that left the lock     *)
(* reaches finalize.  Producers owe nothing.                               *)
ManagerFairness ==
  /\ WF_leaseVars(Tick)
  /\ \A l \in LeaseIds :
       /\ WF_leaseVars(Expire(l))
       /\ \A reason \in Endings : WF_leaseVars(Finalize(l, reason))

FairLeaseSpec == LeaseSpec /\ ManagerFairness
-----------------------------------------------------------------------------
LeaseTypeOK ==
  /\ byKey \in [Sessions -> LeaseIds \cup {Nobody}]
  /\ byID \subseteq LeaseIds
  /\ leases \in [LeaseIds -> Lease \cup {NoLease}]
  /\ issued \in 0..MaxLeases
  /\ finalizing \subseteq LeaseIds \X Endings
  /\ stopped \in BOOLEAN
  /\ producers \in [Producers -> ProducerStates]
-----------------------------------------------------------------------------
(* byKey and byID are two views of one set of leases, although Release and *)
(* expire look a lease up in one and delete its session's entry from the   *)
(* other: a late release never frees a terminal somebody else holds.       *)
MapsAgree ==
  /\ \A s \in Sessions : byKey[s] # Nobody =>
       byKey[s] \in byID /\ leases[byKey[s]].session = s
  /\ \A l \in byID : leases[l] # NoLease /\ byKey[leases[l].session] = l

(* A lease the manager let go of is finalized once and with the reason it  *)
(* was let go for: release, expiry, preemption and Stop, which all race    *)
(* for it, never both win, and none of them forgets to tell the holder.    *)
EndsOnce ==
  \A l \in LeaseIds : leases[l] # NoLease =>
    \/ /\ l \in byID
       /\ IsActive(l)
       /\ \A reason \in Endings : <<l, reason>> \notin finalizing
    \/ /\ l \notin byID
       /\ IsActive(l)
       /\ \E reason \in Endings :
            \A other \in Endings : <<l, other>> \in finalizing <=> other = reason
    \/ /\ l \notin byID
       /\ ~IsActive(l)
       /\ \A reason \in Endings : <<l, reason>> \notin finalizing

(* The TTL is the safety net for producers that crash: every lease ends,   *)
(* and its Expired() channel is closed.                                    *)
EveryLeaseEnds == \A l \in LeaseIds : IsActive(l) ~> ~IsActive(l)
-----------------------------------------------------------------------------
(* A lease stands as LeaseTerms sees it while it is in the maps; taken out *)
(* of them, it has ended for the reason finalize is about to give.         *)
Standing(l) ==
  IF l \in byID THEN "active"
  ELSE IF \E reason \in Endings : <<l, reason>> \in finalizing
  THEN CHOOSE reason \in Endings : <<l, reason>> \in finalizing
  ELSE leases[l].reason

Term == [l \in LeaseIds |->
  IF leases[l] = NoLease THEN NoLease
  ELSE [session |-> leases[l].session, standing |-> Standing(l)]]

Terms == INSTANCE LeaseTerms WITH term <- Term, NoTerm <- NoLease

(* Whatever timers, preemptors and Stop do, one lease at a time stands on  *)
(* a terminal, and one that ended does not stand again.                    *)
ImplementsTerms == Terms!Spec
=============================================================================
