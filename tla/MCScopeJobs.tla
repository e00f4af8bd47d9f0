----------------------------- MODULE MCScopeJobs -----------------------------
\* Small instances of one scope for TLC.
EXTENDS Scope, TLC

CONSTANTS j1, j2, j3

ThreeJobs == {j1, j2, j3}
JobSymmetry == Permutations(ThreeJobs)
=============================================================================
