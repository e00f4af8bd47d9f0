------------------------ MODULE WorkerQueueRefinement ------------------------
(***************************************************************************)
(* The rings implement the sequences of WorkStealing.  A steal takes       *)
(* effect at the CAS on the victim's anchor, a pop at the CAS on the own   *)
(* anchor, and a push, a pull or a steal reaches the thief's deque with    *)
(* the fetch_add on its tail.                                              *)
(***************************************************************************)
EXTENDS WorkerQueue

Publishing ==
  {"push_publish", "pull_publish", "steal_copy", "steal_publish", "steal_bump"}

DequeOf(w) ==
  IF pc[w] = "dropped" THEN <<>>
  ELSE [i \in 1..Filled(w) |-> Item(w, blocked[w], i - 1)]

\* Of a batch that is being copied, the first `copied` jobs are in the thief's
\* ring already and the others still in the victim's.
FlightOf(w) ==
  CASE pc[w] \in {"push_write", "spill"} -> <<local[w].job>>
    [] pc[w] \in Publishing ->
         [i \in 1..local[w].amount |->
            IF i <= local[w].copied THEN Item(w, tail[w], i - 1)
            ELSE Item(local[w].victim, local[w].blocked, i - 1)]
    [] OTHER -> <<>>

\* Popped, and not yet read out of its slot.
Taken == {Item(w, tail[w], 0) : w \in {u \in Workers : pc[u] = "pop_take"}}

WS == INSTANCE WorkStealing WITH
  Bound  <- Capacity,
  deque  <- [w \in Workers |-> DequeOf(w)],
  flight <- [w \in Workers |-> FlightOf(w)],
  queue  <- shared,
  out    <- out \cup Taken

(***************************************************************************)
(* Every behaviour of the rings is one of the deques: the owner pops the   *)
(* newest job, a thief gets the oldest jobs in their order, and a batch    *)
(* reaches the deque of the thief as it was claimed.                       *)
(***************************************************************************)
ImplementsWorkStealing == WS!WSSpec

(***************************************************************************)
(* No job is lost, run twice or dropped after it was taken, through any    *)
(* interleaving of push, pop, pull, steal and Drop.                        *)
(***************************************************************************)
JobsExactlyOnce == WS!ExactlyOnce
=============================================================================
