----------------------------- MODULE MCSpmcRing -----------------------------
\* Small instances of the single-producer ring for TLC.
EXTENDS SpmcRing, TLC

CONSTANTS c1, c2

TwoConsumers == {c1, c2}

\* Nothing orders the consumers.
Symmetry == Permutations(TwoConsumers)
=============================================================================
