--------------------------- MODULE MCDaemonLeader ---------------------------
EXTENDS DaemonLeader, TLC

\* Nothing tells one machine from another.
Symmetry == Permutations(Daemons)
=============================================================================
