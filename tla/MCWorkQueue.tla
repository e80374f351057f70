---------------------------- MODULE MCWorkQueue ----------------------------
(* Instances of WorkQueue for TLC. *)
EXTENDS WorkQueue, TLC

CONSTANTS k1, k2, w1, w2

\* Doubling from one tick, as in Fail.
MCBackoff == [a \in 1..MaxClaims |-> 2^(a - 1)]

\* The whole queue, and the part one group or payload kind selects.
MCScopes == {{k1, k2}, {k1}}
MCWhole == {{k1, k2}}

MCSymmetry == Permutations({w1, w2})
=============================================================================
