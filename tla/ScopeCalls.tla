----------------------------- MODULE ScopeCalls -----------------------------
(***************************************************************************)
(* Who may use which deque (thread_pool/mod.rs scope, local.rs, shared.rs  *)
(* current_worker): a thread has at most one identity, THREAD_LOCAL_CTX;   *)
(* an outsider that calls scope borrows the pool's host slot if it is free *)
(* and helps through a private deque if it is not.  Calls nest, on one     *)
(* pool and across pools, from closures and from jobs run while waiting.   *)
(***************************************************************************)
EXTENDS Integers, Sequences, SequencesExt

CONSTANTS
  Pools, Threads, NoPool, NoThread,
  Home,       \* the context each thread starts with: its own slot, or none
  MaxDepth    \* bound on nested calls of one thread

VARIABLES
  ctx,        \* THREAD_LOCAL_CTX of each thread
  owner,      \* host_owner of each pool: the thread that holds it
  frames      \* the calls of scope each thread is in, innermost last

vars == <<ctx, owner, frames>>

None == [pool |-> NoPool, index |-> "none"]
HostOf(p) == [pool |-> p, index |-> "host"]

\* A thread is a worker of one pool, under an index that no other thread has and
\* that is not the host's, or it belongs to no pool.
ASSUME CallsAssumption ==
  /\ NoPool \notin Pools /\ NoThread \notin Threads /\ MaxDepth \in Nat
  /\ Home = [t \in Threads |-> Home[t]]
  /\ \A t \in Threads : Home[t] = None \/ (Home[t].pool \in Pools /\ Home[t].index # "host")
  /\ \A t, u \in Threads : Home[t] = Home[u] => t = u \/ Home[t] = None

Init ==
  /\ ctx = Home
  /\ owner = [p \in Pools |-> NoThread]
  /\ frames = [t \in Threads |-> <<>>]

Push(t, f) == frames' = [frames EXCEPT ![t] = Append(@, f)]
Top(t) == Last(frames[t])
SetTop(t, f) == frames' = [frames EXCEPT ![t] = Append(Front(@), f)]

\* The role of a call: "member" of the pool already, its "host", or "helper".
Frame(t, p, role) ==
  [pool |-> p, role |-> role, previous |-> ctx[t], at |-> "closure", worker |-> None]

OutsiderIfNobody(t, p) == ctx[t].pool = NoPool         \* mutant
Outsider(t, p) == ctx[t].pool # p

\* A call comes from outside, from a closure, or from a job run by run_until.
MayCall(t) == Len(frames[t]) < MaxDepth
              /\ (frames[t] # <<>> => Top(t).at \in {"closure", "wait"})

CallAsMember(t, p) ==
  /\ MayCall(t) /\ ~Outsider(t, p)
  /\ Push(t, Frame(t, p, "member"))
  /\ UNCHANGED <<ctx, owner>>

CallAsHostUnguarded(t, p) ==          \* mutant: the guard is dropped at once
  /\ MayCall(t) /\ Outsider(t, p) /\ owner[p] = NoThread
  /\ ctx' = [ctx EXCEPT ![t] = HostOf(p)]
  /\ Push(t, Frame(t, p, "host"))
  /\ UNCHANGED owner

CallAsHost(t, p) ==
  /\ MayCall(t) /\ Outsider(t, p) /\ owner[p] = NoThread
  /\ owner' = [owner EXCEPT ![p] = t]
  /\ ctx' = [ctx EXCEPT ![t] = HostOf(p)]
  /\ Push(t, Frame(t, p, "host"))

CallAsHelper(t, p) ==
  /\ MayCall(t) /\ Outsider(t, p) /\ owner[p] # NoThread
  /\ Push(t, Frame(t, p, "helper"))
  /\ UNCHANGED <<ctx, owner>>

\* The worker that run_until is given: the private one, or current_worker().
CurrentWorker(t, p) == IF ctx[t].pool = p THEN ctx[t] ELSE None

ClosureEnds(t) ==
  /\ frames[t] # <<>> /\ Top(t).at = "closure"
  /\ SetTop(t, [pool |-> Top(t).pool, role |-> Top(t).role, previous |-> Top(t).previous,
                at |-> "wait", worker |-> IF Top(t).role = "helper" THEN None
                                          ELSE CurrentWorker(t, Top(t).pool)])
  /\ UNCHANGED <<ctx, owner>>

KeepContext(t) ==                     \* mutant: the identity is not given back
  /\ frames[t] # <<>> /\ Top(t).at = "wait"
  /\ SetTop(t, [Top(t) EXCEPT !.at = "leave"])
  /\ UNCHANGED <<ctx, owner>>

\* run_until is over: the identity goes back, then the guard of the host slot.
RestoreContext(t) ==
  /\ frames[t] # <<>> /\ Top(t).at = "wait"
  /\ ctx' = IF Top(t).role = "host" THEN [ctx EXCEPT ![t] = Top(t).previous] ELSE ctx
  /\ SetTop(t, [Top(t) EXCEPT !.at = "leave"])
  /\ UNCHANGED owner

Leave(t) ==
  /\ frames[t] # <<>> /\ Top(t).at = "leave"
  /\ owner' = IF Top(t).role = "host" THEN [owner EXCEPT ![Top(t).pool] = NoThread]
              ELSE owner
  /\ frames' = [frames EXCEPT ![t] = Front(@)]
  /\ UNCHANGED ctx

Next ==
  \E t \in Threads :
    \/ \E p \in Pools : CallAsMember(t, p) \/ CallAsHost(t, p) \/ CallAsHelper(t, p)
    \/ ClosureEnds(t) \/ RestoreContext(t) \/ Leave(t)

Spec == Init /\ [][Next]_vars
-----------------------------------------------------------------------------
\* The deques that t pushes to or pops from: the one spawn finds through its
\* identity, the ones its identities before the nested calls were for, and the
\* ones its unfinished run_until calls were given.
Uses(t) ==
  ({ctx[t]} \cup {f.previous : f \in Range(frames[t])}
            \cup {f.worker : f \in Range(frames[t])}) \ {None}

(***************************************************************************)
(* A deque has one producer: no two threads ever push to or pop from the   *)
(* same deque as its owner (WorkerQueue::push and pop are unsynchronised   *)
(* between owners).                                                        *)
(***************************************************************************)
OneOwnerPerDeque ==
  \A t, u \in Threads : t # u => Uses(t) \cap Uses(u) = {}

(***************************************************************************)
(* The expect of ThreadPool::scope, "scope must have a worker or an        *)
(* external helper", holds after any nesting of calls inside the closure.  *)
(***************************************************************************)
ScopeHasWorker ==
  \A t \in Threads : \A f \in Range(frames[t]) :
    f.at = "wait" /\ f.role # "helper" => f.worker.pool = f.pool

(***************************************************************************)
(* A thread that is back from all its calls is who it was before, and no   *)
(* pool's host slot is left with a thread that is outside of it.           *)
(***************************************************************************)
IdentityReturned ==
  \A t \in Threads :
    /\ frames[t] = <<>> => ctx[t] = Home[t]
    /\ \A p \in Pools : owner[p] = t =>
         \E f \in Range(frames[t]) : f.pool = p /\ f.role = "host"
=============================================================================
