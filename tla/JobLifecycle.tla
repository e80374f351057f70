--------------------------- MODULE JobLifecycle ---------------------------
(***************************************************************************)
(* What the job queue promises whoever enqueues into it, without workers,  *)
(* time, priorities or statements: a key has at most one job; a job is     *)
(* waited for, run, put back, and ends done or dead; it is dead only after *)
(* at least `limit' runs; an ended job changes no more until it is         *)
(* forgotten.                                                              *)
(***************************************************************************)
EXTENDS Integers

CONSTANTS Keys, Limits, Absent

VARIABLE board  \* board[k]: the job of key k, or Absent

Fresh(limit) == [phase |-> "waiting", tries |-> 0, limit |-> limit]

InPhase(k, phase) == board[k] # Absent /\ board[k].phase = phase

Init == board = [k \in Keys |-> Absent]

\* Keys that have a job already, even an ended one, are passed over.
Submit(keys) ==
  \E limit \in [keys -> Limits] :
    board' = [k \in Keys |->
      IF k \in keys /\ board[k] = Absent THEN Fresh(limit[k]) ELSE board[k]]

Start(k) ==
  /\ InPhase(k, "waiting")
  /\ board' = [board EXCEPT ![k] =
       [phase |-> "running", tries |-> board[k].tries + 1, limit |-> board[k].limit]]

PutBack(keys) ==
  /\ \A k \in keys : InPhase(k, "running")
  /\ board' = [k \in Keys |->
       IF k \in keys THEN [board[k] EXCEPT !.phase = "waiting"] ELSE board[k]]

Finish(k) ==
  /\ InPhase(k, "running")
  /\ board' = [board EXCEPT ![k] = [@ EXCEPT !.phase = "done"]]

GiveUp(k) ==
  /\ InPhase(k, "running")
  /\ board[k].tries >= board[k].limit
  /\ board' = [board EXCEPT ![k] = [@ EXCEPT !.phase = "dead"]]

Forget(keys) == board' = [k \in Keys |-> IF k \in keys THEN Absent ELSE board[k]]

Next ==
  \/ \E keys \in SUBSET Keys : Submit(keys) \/ PutBack(keys) \/ Forget(keys)
  \/ \E k \in Keys : Start(k) \/ Finish(k) \/ GiveUp(k)

Spec == Init /\ [][Next]_board
=============================================================================
