--------------------------- MODULE WorkerRecords ---------------------------
(***************************************************************************)
(* What the registry of runtime workers promises of a worker that belongs  *)
(* to one spawn: its record may change while it is open, it is closed at   *)
(* most once and then for good, "completed" only after its process ended   *)
(* well, "cancelled" only after somebody asked for it and it ended.        *)
(***************************************************************************)
CONSTANT Workers

VARIABLES
  record,  \* record[w]: the recorded status of w
  process, \* process[w]: "none", "alive", or how it ended: "ok", "error"
  asked    \* asked[w]: the running host was asked to stop w

world == <<process, asked>>
vars == <<record, world>>

Open == {"none", "pending", "starting", "running", "stopping"}
Closed == {"completed", "failed", "cancelled"}
Ended == {"ok", "error"}

Init ==
  /\ record = [w \in Workers |-> "none"]
  /\ process = [w \in Workers |-> "none"]
  /\ asked = [w \in Workers |-> FALSE]

Observe(w, s) ==
  /\ record[w] \in Open
  /\ s \in Open \ {"none"}
  /\ record' = [record EXCEPT ![w] = s]
  /\ UNCHANGED world

Close(w, s) ==
  /\ record[w] \in Open
  /\ s = "completed" => process[w] = "ok"
  /\ s = "cancelled" => process[w] \in Ended /\ asked[w]
  /\ record' = [record EXCEPT ![w] = s]
  /\ UNCHANGED world

\* A process starts once and ends once.
Run(w) ==
  /\ \/ process[w] = "none" /\ process' = [process EXCEPT ![w] = "alive"]
     \/ process[w] = "alive" /\ \E how \in Ended : process' = [process EXCEPT ![w] = how]
  /\ UNCHANGED <<record, asked>>

Ask(w) ==
  /\ asked' = [asked EXCEPT ![w] = TRUE]
  /\ UNCHANGED <<record, process>>

\* The host ends, and forgets what it was asked.
Forget ==
  /\ asked' = [w \in Workers |-> FALSE]
  /\ UNCHANGED <<record, process>>

Next ==
  \/ \E w \in Workers : Run(w) \/ Ask(w)
  \/ \E w \in Workers, s \in Open : Observe(w, s)
  \/ \E w \in Workers, s \in Closed : Close(w, s)
  \/ Forget

Spec == Init /\ [][Next]_vars
=============================================================================
