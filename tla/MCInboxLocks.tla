---------------------------- MODULE MCInboxLocks ----------------------------
\* A small instance of batch publication for TLC: the host and a second
\* external caller publish, and a job of each of their batches publishes
\* others, one of them more jobs than there are workers.
EXTENDS InboxLocks, TLC

CONSTANTS HostCall, HelperCall, h1, h2, x1, n1, n2, n3, n4

BigClosures == {h1, n2}
Callers == (Host :> HostCall) @@ (Helper :> HelperCall)
Batches ==
  (HostCall :> <<h1, h2>>) @@ (HelperCall :> <<x1>>)
  @@ (h1 :> <<n1, n2, n3>>) @@ (x1 :> <<n4>>)
  @@ [b \in {h2, n1, n2, n3, n4} |-> <<>>]
=============================================================================
