--------------------------- MODULE MCAgentDaemon ---------------------------
(* Two processes of one agent, which has two messages, one of them with a TTL;  *)
(* the second nack hides a message for longer than the first.                   *)
EXTENDS AgentDaemon
MCBackoffs == [a \in 1..MaxAttempts |-> IF a = 1 THEN 1 ELSE 2]
=============================================================================
