-------------------------- MODULE MCRuntimeWorkers --------------------------
EXTENDS RuntimeWorkers, TLC

\* Dispatches are interchangeable where all of them, or none, name an agent.
Symmetry == Permutations(Dispatches)
=============================================================================
