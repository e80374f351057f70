-------------------------- MODULE MCTerminalInput --------------------------
(* Instances of TerminalInput for TLC. *)
EXTENDS TerminalInput, TLC

CONSTANTS s1, s2, c1, c2, router

MCClients == Permutations({c1, c2})
=============================================================================
