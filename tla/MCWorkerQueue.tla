---------------------------- MODULE MCWorkerQueue ----------------------------
\* Small instances of the deques for TLC.
EXTENDS WorkerQueueInv, TLC

CONSTANTS w1, w2, w3, j1, j2, j3, j4

TwoWorkers == {w1, w2}
ThreeWorkers == {w1, w2, w3}
TwoJobs == {j1, j2}
FourJobs == {j1, j2, j3, j4}

\* Nothing orders the workers or the jobs; used for safety runs only.
TwoSymmetryFour == Permutations(TwoWorkers) \cup Permutations(FourJobs)

\* One producer and its thieves: w1 spawns and pops, the others only steal.
\* Bounds the operations that begin, never the steps of one that has begun.
OneProducer ==
  /\ shared = <<>>
  /\ pc[w1] \notin Stealing \cup {"exited"}
  /\ \A w \in Workers \ {w1} :
       /\ pc[w] \notin {"push_write", "spill", "exited"}
       /\ pc[w] \in Stealing => local[w].victim = w1
=============================================================================
