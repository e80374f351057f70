-------------------------- MODULE MCInputOverseer --------------------------
(***************************************************************************)
(* The input of a terminal and the overseer have nothing to do with one    *)
(* another and share a run: a behaviour is a behaviour of one of them,     *)
(* chosen at the start, while the other stays as it begins.                *)
(***************************************************************************)
EXTENDS MCTerminalInput, Orchestration

VARIABLE machine  \* the one that moves

bothVars == <<machine, vars, orchestrationVars>>

BothInit ==
  /\ machine \in {"input", "overseer"}
  /\ Init /\ OrchestrationInit

BothNext ==
  \/ machine = "input" /\ Next /\ UNCHANGED <<machine, orchestrationVars>>
  \/ machine = "overseer" /\ OrchestrationNext /\ UNCHANGED <<machine, vars>>

\* OrchestrationFairness, where the overseer moves.
OverseerMoves(A) == machine = "overseer" /\ A /\ UNCHANGED <<machine, vars>>

OverseerFairness ==
  /\ WF_bothVars(OverseerMoves(OverseerStep))
  /\ \A i \in Issues :
       /\ WF_bothVars(OverseerMoves(RetryFallsDue(i)))
       /\ WF_bothVars(OverseerMoves(GraceEnds(i)))

BothSpec == BothInit /\ [][BothNext]_bothVars /\ OverseerFairness
=============================================================================
