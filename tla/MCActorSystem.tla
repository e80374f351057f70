--------------------------- MODULE MCActorSystem ---------------------------
(* Instances of ActorSystem for TLC. *)
EXTENDS ActorSystem, TLC

CONSTANTS m1, m2, m3, g1, g2

MCSymmetry == Permutations({m1, m2, m3}) \cup Permutations({g1, g2})
=============================================================================
