---------------------------- MODULE MCScopeCalls ----------------------------
\* Two pools; a worker of the first and an outsider call into both, three deep.
EXTENDS ScopeCalls

CONSTANTS poolA, poolB, worker, outsider

TwoPools == {poolA, poolB}
TwoThreads == {worker, outsider}
HomeOfWorker ==
  [t \in TwoThreads |-> IF t = worker THEN [pool |-> poolA, index |-> "own"] ELSE None]
=============================================================================
