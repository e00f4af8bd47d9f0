---------------------------- MODULE QueueBatching ----------------------------
(***************************************************************************)
(* QueueBatching (utils/queue_batching.rs): a FIFO queue behind a spin     *)
(* lock, with a copy of its length that is read without the lock.  It is   *)
(* the pool's shared queue, every inbox and the list of sleepers, and it   *)
(* is by the cached length that others decide there is nothing in it.      *)
(***************************************************************************)
EXTENDS Integers, Sequences, SequencesExt

CONSTANTS
  Threads, NoThread,
  Values,      \* what is queued
  Batches,     \* what push_batch may append in one go: non-empty sequences
  Limits       \* how many elements one operation may take out; 1 is pop

ASSUME QueueAssumption ==
  /\ NoThread \notin Threads
  /\ Batches \subseteq Seq(Values) \ {<<>>}
  /\ Limits \subseteq Nat \ {0}

VARIABLES
  elements,    \* the VecDeque, touched by the holder of the lock only
  len,         \* the cached length
  locked,      \* the holder of the lock
  pc,          \* where each thread is in its operation
  op           \* the operation: what it appends, or how many it takes

vars == <<elements, len, locked, pc, op>>

NoOp == [items |-> <<>>, limit |-> 0, counted |-> 0]

Init ==
  /\ elements = <<>>
  /\ len = 0
  /\ locked = NoThread
  /\ pc = [t \in Threads |-> "idle"]
  /\ op = [t \in Threads |-> NoOp]

Goto(t, p, o) == pc' = [pc EXCEPT ![t] = p] /\ op' = [op EXCEPT ![t] = o]

\* get: spins until the lock is free.
Acquire(t) == locked = NoThread /\ locked' = t
-----------------------------------------------------------------------------
\* push and push_batch take the lock at once, as does clear.
PushLock(t, b) ==
  /\ pc[t] = "idle" /\ Acquire(t)
  /\ Goto(t, "locked", [NoOp EXCEPT !.items = b])
  /\ UNCHANGED <<elements, len>>

ClearLock(t) ==
  /\ pc[t] = "idle" /\ Acquire(t)
  /\ Goto(t, "locked", [NoOp EXCEPT !.limit = Len(elements)])
  /\ UNCHANGED <<elements, len>>

\* Users of the guard take without a look at the length: wake_one pops, and
\* sleep_if_idle, publish_batch and its rollback remove what they find by retain
\* and truncate.  Which elements go is not told apart here, only how many.
GuardLock(t, n) ==
  /\ pc[t] = "idle" /\ Acquire(t)
  /\ Goto(t, "locked", [NoOp EXCEPT !.limit = n])
  /\ UNCHANGED <<elements, len>>

\* pop, pop_batch and drain_into_buffer look at the length first: they return
\* at once when it is zero, and otherwise wait for the lock.
TakeLook(t, n) ==
  /\ pc[t] = "idle" /\ len # 0
  /\ Goto(t, "want", [NoOp EXCEPT !.limit = n])
  /\ UNCHANGED <<elements, len, locked>>

TakeLock(t) ==
  /\ pc[t] = "want" /\ Acquire(t)
  /\ Goto(t, "locked", op[t])
  /\ UNCHANGED <<elements, len>>

\* try_get: what the thieves of an inbox use; one attempt, then elsewhere.
TryGetFails(t) ==
  /\ pc[t] = "want" /\ locked # NoThread
  /\ Goto(t, "idle", NoOp)
  /\ UNCHANGED <<elements, len, locked>>

\* min(limit, elements.len()): the queue may have shrunk since the look.
Moved(t) == IF op[t].limit <= Len(elements) THEN op[t].limit ELSE Len(elements)

CountedBefore == Len(elements)        \* mutant: the length at the time of get
Counted == Len(elements')             \* what the drop of the guard finds

Change(t) ==
  /\ pc[t] = "locked"
  /\ elements' = IF op[t].items # <<>> THEN elements \o op[t].items
                 ELSE SubSeq(elements, Moved(t) + 1, Len(elements))
  /\ Goto(t, "changed", [op[t] EXCEPT !.counted = Counted])
  /\ UNCHANGED <<len, locked>>

\* Drop of the guard: "record the length and then release the lock, in that
\* exact order".
UnlockFirst == <<"lock", "len">>      \* mutant
ReleaseOrder == <<"len", "lock">>

ReleaseStep(t, field) ==
  IF field = "len" THEN len' = op[t].counted /\ UNCHANGED locked
                   ELSE locked' = NoThread /\ UNCHANGED len

ReleaseBegin(t) ==
  /\ pc[t] = "changed"
  /\ ReleaseStep(t, ReleaseOrder[1])
  /\ Goto(t, "counted", op[t])
  /\ UNCHANGED elements

ReleaseEnd(t) ==
  /\ pc[t] = "counted"
  /\ ReleaseStep(t, ReleaseOrder[2])
  /\ Goto(t, "idle", NoOp)
  /\ UNCHANGED elements

Next ==
  \E t \in Threads :
    \/ \E b \in Batches : PushLock(t, b)
    \/ \E n \in Limits : TakeLook(t, n)
    \/ \E n \in Limits \cup {0} : GuardLock(t, n)
    \/ ClearLock(t) \/ TakeLock(t) \/ TryGetFails(t)
    \/ Change(t) \/ ReleaseBegin(t) \/ ReleaseEnd(t)

Spec == Init /\ [][Next]_vars
-----------------------------------------------------------------------------
\* The thread that holds the lock is the one that is between get and the drop
\* of its guard.
TypeOK ==
  /\ elements \in Seq(Values)
  /\ len \in Nat
  /\ locked \in Threads \cup {NoThread}
  /\ pc \in [Threads -> {"idle", "want", "locked", "changed", "counted"}]
  /\ op \in [Threads -> [items : Batches \cup {<<>>}, limit : Nat, counted : Nat]]
  /\ \A t \in Threads : locked = t <=> pc[t] \in {"locked", "changed", "counted"}

(***************************************************************************)
(* Whoever finds the cached length zero may take the queue for empty: all  *)
(* that is in it then belongs to one push that has not returned.  This is  *)
(* what sleep_if_idle, pop and drain_into_buffer rely on.                  *)
(***************************************************************************)
NothingHidden ==
  len = 0 /\ elements # <<>> =>
    \E t \in Threads : pc[t] = "changed" /\ Len(op[t].items) = Len(elements)

\* What the holder of the lock knows of the cached length.
Exact(t) ==
  /\ pc[t] = "changed" =>
       /\ op[t].counted = Len(elements)
       /\ IF op[t].items # <<>> THEN Len(elements) = len + Len(op[t].items)
                                ELSE Len(elements) <= len
  /\ pc[t] \in {"locked", "counted"} => len = Len(elements)

(***************************************************************************)
(* The inductive invariant behind NothingHidden: the cached length is      *)
(* exact, except between a change of the queue and the store of its length *)
(* by the holder of the lock.                                              *)
(***************************************************************************)
LengthInv ==
  /\ TypeOK
  /\ locked = NoThread => len = Len(elements)
  /\ \A t \in Threads : Exact(t)
=============================================================================
