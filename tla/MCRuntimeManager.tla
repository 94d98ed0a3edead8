-------------------------- MODULE MCRuntimeManager --------------------------
EXTENDS RuntimeManager, TLC

Symmetry == Permutations(Requests)

=============================================================================
