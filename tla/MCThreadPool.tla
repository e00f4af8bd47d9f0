---------------------------- MODULE MCThreadPool ----------------------------
\* Small instances of the pool for TLC.
EXTENDS ThreadPool, TLC

CONSTANTS p1, p2, s1, s2, b1, b2, Scope1, Scope2, RunBatch

\* Pick agrees with SelectSeq.
ASSUME \A s \in UNION {[1..n -> 1..3] : n \in 0..4}, x \in 1..3 :
  Pick(s, {i \in DOMAIN s : s[i] # x}) = SelectSeq(s, LAMBDA y : y # x)

Nobody == {}
OnePush == {p1}
TwoPushes == {p1, p2}
HostScope == {Scope1}
HostBatch == {RunBatch}
HelperScope == {Scope2}

\* A pusher, and a host that runs a batch of two.
BatchSpawns == [b \in {RunBatch, p1, b1, b2} |-> {}]
BatchOfTwo == (RunBatch :> <<b1, b2>>) @@ [b \in {p1, b1, b2} |-> <<>>]

\* A pusher, and a scope with two jobs, the first of which runs a batch.
NestedSpawns == (Scope1 :> {s1, s2}) @@ [b \in {p1, s1, s2, b1} |-> {}]
NestedBatch == (s1 :> <<b1>>) @@ [b \in {Scope1, p1, s2, b1} |-> <<>>]

\* Two external callers, each with a scope of one job.
TwoCallers == (Scope1 :> {s1}) @@ (Scope2 :> {s2}) @@ [b \in {s1, s2} |-> {}]
TwoCallersBatch == [b \in {Scope1, Scope2, s1, s2} |-> <<>>]

\* Two pushes and a scope with one job.
OneSpawn == (Scope1 :> {s1}) @@ [b \in {p1, p2, s1} |-> {}]
NoBatch == [b \in {Scope1, p1, p2, s1} |-> <<>>]
=============================================================================
