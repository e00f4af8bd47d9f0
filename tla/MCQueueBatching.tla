--------------------------- MODULE MCQueueBatching ---------------------------
\* A small queue for TLC.
EXTENDS QueueBatching, TLC

CONSTANTS t1, t2, t3, x, y

ThreeThreads == {t1, t2, t3}
Symmetric == Permutations(ThreeThreads)
TwoValues == {x, y}
SomeBatches == {<<x>>, <<y>>, <<x, y>>}
OneOrTwo == {1, 2}

Bounded == Len(elements) <= 4
=============================================================================
