----------------------------- MODULE WorkerQueue -----------------------------
(***************************************************************************)
(* The work-stealing deques of the pool (thread_pool/worker_queue.rs) at   *)
(* the granularity of their atomic operations.                             *)
(*                                                                         *)
(* Every worker owns one fixed ring.  Its `anchor` packs two cursors in a  *)
(* single atomic word, `tail` and `blocked` (in_stealing in the code);     *)
(* `stolen` is an atomic of its own.  Of the ring,                         *)
(*     [stolen, blocked)           is claimed by thieves that still read,  *)
(*     [blocked, tail)             holds jobs that nobody has claimed,     *)
(*     [tail, stolen + Capacity)   is free for the owner to write.         *)
(* The owner pushes and pops at the tail; a thief claims a batch at        *)
(* `blocked` with one CAS, copies it into the ring it owns itself, then    *)
(* publishes `stolen`, in the order of the claims, and then its own tail.  *)
(*                                                                         *)
(* Reads of the owner's own tail need no step: nobody else moves it.       *)
(* Atomics are sequentially consistent in this model.                      *)
(***************************************************************************)
EXTENDS Cursors, Sequences, FiniteSets

CONSTANTS
  Workers,    \* the threads that own a deque: background workers and the host
  Jobs,       \* identities of jobs; an identity is reused once its job has run
  NoJob       \* content of a slot never written, or whose job was moved out

ASSUME WorkerAssumption == NoJob \notin Jobs

VARIABLES
  tail,       \* anchor, high half: the next slot the owner writes
  blocked,    \* anchor, low half: the next slot a thief claims
  stolen,     \* every slot before it has been read out by its thief
  buffer,     \* the slots of each ring; take_at and drop_at move the job out
  shared,     \* the pool's shared queue, `ThreadPoolInner::tasks`
  out,        \* jobs outside of the queues: not submitted, or handed to run
  pc,         \* where each worker is
  local       \* what each worker has read so far in the current operation;
              \* amount: the slots from its tail on that it is about to use

anchors == <<tail, blocked>>
vars == <<tail, blocked, stolen, buffer, shared, out, pc, local>>

\* The victim is a deque, the thief's own one when there is none.
NoLocal(w) == [victim |-> w, tail |-> 0, blocked |-> 0,
               amount |-> 0, copied |-> 0, job |-> NoJob]

Locals == [victim : Workers, tail : Cursor, blocked : Cursor,
           amount : 0..Capacity, copied : 0..Capacity, job : Jobs \cup {NoJob}]

\* "ready": about to pop, or running a job that may push.  "dry": the last pop
\* of the worker's own deque found nothing.
Idle == {"ready", "dry", "exited", "dropped"}
Stealing == {"steal_load", "steal_cas", "steal_copy", "steal_publish", "steal_bump"}
PCs == Idle \cup Stealing \cup
       {"push_write", "push_publish", "spill", "pop_cas", "pop_take",
        "pull_drain", "pull_publish"}

Goto(w, p, l) == /\ pc' = [pc EXCEPT ![w] = p]
                 /\ local' = [local EXCEPT ![w] = l]

Return(w, p) == Goto(w, p, NoLocal(w))

Filled(w) == filled_slots(tail[w], blocked[w])

\* A bug: a slot counts as free as soon as it is claimed, or the difference of
\* the cursors does not wrap.
FreeOnceClaimed(w) == empty_slots(tail[w], blocked[w])
FreeUnwrapped(w) == Capacity - tail[w] + stolen[w]

Free(w) == empty_slots(tail[w], stolen[w])

\* The slot that is n places behind cursor c, and what it holds.
At(c, n) == Slot(WrappingAdd(c, n))
Item(w, c, n) == buffer[w][At(c, n)]

Init ==
  /\ tail = [w \in Workers |-> 0]
  /\ blocked = [w \in Workers |-> 0]
  /\ stolen = [w \in Workers |-> 0]
  /\ buffer = [w \in Workers |-> [s \in SlotIndex |-> NoJob]]
  /\ shared = <<>>
  /\ out = Jobs
  /\ pc = [w \in Workers |-> "ready"]
  /\ local = [w \in Workers |-> NoLocal(w)]
-----------------------------------------------------------------------------
(***************************************************************************)
(* push: a job running on w spawns x.  A full ring hands x back and the    *)
(* caller, Scope::push_job, spills it to the shared queue.                 *)
(***************************************************************************)
PushLoad(w, x) ==
  /\ pc[w] = "ready"
  /\ x \in out
  /\ out' = out \ {x}
  /\ Goto(w, IF Free(w) < 1 THEN "spill" ELSE "push_write",
          [NoLocal(w) EXCEPT !.job = x, !.amount = Least(Free(w), 1)])
  /\ UNCHANGED <<anchors, stolen, buffer, shared>>

PushWrite(w) ==
  /\ pc[w] = "push_write"
  /\ buffer' = [buffer EXCEPT ![w][At(tail[w], 0)] = local[w].job]
  /\ Goto(w, "push_publish", [NoLocal(w) EXCEPT !.amount = 1, !.copied = 1])
  /\ UNCHANGED <<anchors, stolen, shared, out>>

\* fetch_add(amount << 32): the carry of the tail leaves the 64-bit word.
PublishTail(w) ==
  tail' = [tail EXCEPT ![w] = WrappingAdd(@, local[w].amount)]

PushPublish(w) ==
  /\ pc[w] = "push_publish"
  /\ PublishTail(w)
  /\ Return(w, "ready")
  /\ UNCHANGED <<blocked, stolen, buffer, shared, out>>

Spill(w) ==
  /\ pc[w] = "spill"
  /\ shared' = Append(shared, local[w].job)
  /\ Return(w, "ready")
  /\ UNCHANGED <<anchors, stolen, buffer, out>>

(***************************************************************************)
(* pop: the owner takes the newest job.  The tail part of the CAS always   *)
(* matches, so it fails exactly when a thief has claimed meanwhile; a      *)
(* spurious failure of the weak CAS changes nothing.                       *)
(***************************************************************************)
PopLook(w) ==
  Goto(w, IF Filled(w) < 1 THEN "dry" ELSE "pop_cas",
       IF Filled(w) < 1 THEN NoLocal(w)
                        ELSE [NoLocal(w) EXCEPT !.blocked = blocked[w]])

PopLoad(w) ==
  /\ pc[w] = "ready"
  /\ PopLook(w)
  /\ UNCHANGED <<anchors, stolen, buffer, shared, out>>

PopCas(w) ==
  /\ pc[w] = "pop_cas"
  /\ blocked[w] = local[w].blocked
  /\ tail' = [tail EXCEPT ![w] = WrappingSub(@, 1)]
  /\ Goto(w, "pop_take", [NoLocal(w) EXCEPT !.amount = 1])
  /\ UNCHANGED <<blocked, stolen, buffer, shared, out>>

PopRetry(w) ==
  /\ pc[w] = "pop_cas"
  /\ blocked[w] # local[w].blocked
  /\ PopLook(w)
  /\ UNCHANGED <<anchors, stolen, buffer, shared, out>>

PopTake(w) ==
  /\ pc[w] = "pop_take"
  /\ out' = out \cup {Item(w, tail[w], 0)}
  /\ buffer' = [buffer EXCEPT ![w][At(tail[w], 0)] = NoJob]
  /\ Return(w, "ready")
  /\ UNCHANGED <<anchors, stolen, shared>>
-----------------------------------------------------------------------------
(***************************************************************************)
(* push_batch_by_taking_from_queue: a worker without local work moves a    *)
(* batch out of the shared queue.  The drain runs under that queue's lock, *)
(* the new tail is published after the lock is gone.                       *)
(***************************************************************************)
PullLoad(w) ==
  LET take == Least(Least(Free(w), Capacity), Len(shared)) IN
  /\ pc[w] = "dry"
  /\ take >= 1
  /\ Goto(w, "pull_drain", [NoLocal(w) EXCEPT !.amount = take])
  /\ UNCHANGED <<anchors, stolen, buffer, shared, out>>

PullDrain(w) ==
  LET n == Least(local[w].amount, Len(shared)) IN
  /\ pc[w] = "pull_drain"
  /\ n >= 1
  /\ buffer' = [buffer EXCEPT ![w] = [s \in SlotIndex |->
       IF \E k \in 0..(n - 1) : s = At(tail[w], k)
       THEN shared[1 + (CHOOSE k \in 0..(n - 1) : s = At(tail[w], k))]
       ELSE @[s]]]
  /\ shared' = SubSeq(shared, n + 1, Len(shared))
  /\ Goto(w, "pull_publish", [NoLocal(w) EXCEPT !.amount = n, !.copied = n])
  /\ UNCHANGED <<anchors, stolen, out>>

\* Somebody else emptied the shared queue between the two looks at it.
PullNothing(w) ==
  /\ pc[w] = "pull_drain"
  /\ shared = <<>>
  /\ Return(w, "dry")
  /\ UNCHANGED <<anchors, stolen, buffer, shared, out>>

PullPublish(w) ==
  /\ pc[w] = "pull_publish"
  /\ PublishTail(w)
  /\ Return(w, "ready")
  /\ UNCHANGED <<blocked, stolen, buffer, shared, out>>
-----------------------------------------------------------------------------
(***************************************************************************)
(* try_steal_batch_to: worker w, whose own deque ran dry, takes up to max  *)
(* jobs from the head of v's deque.  One CAS on the whole anchor; when it  *)
(* fails the thief reports Busy and goes elsewhere.                        *)
(***************************************************************************)
StealBegin(w, v, max) ==
  /\ pc[w] = "dry"
  /\ v # w
  /\ Goto(w, "steal_load",
          [NoLocal(w) EXCEPT !.victim = v, !.amount = Least(Free(w), max)])
  /\ UNCHANGED <<anchors, stolen, buffer, shared, out>>

StealAmount(w) == Least(local[w].amount, Filled(local[w].victim))

StealLoad(w) ==
  LET v == local[w].victim IN
  /\ pc[w] = "steal_load"
  /\ StealAmount(w) >= 1
  /\ Goto(w, "steal_cas",
          [local[w] EXCEPT !.tail = tail[v], !.blocked = blocked[v],
                           !.amount = StealAmount(w)])
  /\ UNCHANGED <<anchors, stolen, buffer, shared, out>>

StealEmpty(w) ==
  /\ pc[w] = "steal_load"
  /\ StealAmount(w) < 1
  /\ Return(w, "dry")
  /\ UNCHANGED <<anchors, stolen, buffer, shared, out>>

\* A bug: the CAS covers one half of the anchor only.
OnlyTailUnchanged(w) == tail[local[w].victim] = local[w].tail
OnlyBlockedUnchanged(w) == blocked[local[w].victim] = local[w].blocked

AnchorUnchanged(w) ==
  LET v == local[w].victim IN
  tail[v] = local[w].tail /\ blocked[v] = local[w].blocked

StealCas(w) ==
  /\ pc[w] = "steal_cas"
  /\ AnchorUnchanged(w)
  /\ blocked' = [blocked EXCEPT ![local[w].victim] =
                   WrappingAdd(@, local[w].amount)]
  /\ Goto(w, "steal_copy", local[w])
  /\ UNCHANGED <<tail, stolen, buffer, shared, out>>

StealBusy(w) ==
  /\ pc[w] = "steal_cas"
  /\ ~AnchorUnchanged(w)
  /\ Return(w, "dry")
  /\ UNCHANGED <<anchors, stolen, buffer, shared, out>>

\* A bug: the copy loop runs up to and including pop_amount.
StealCopyOneMore(w) ==
  LET n == local[w].copied IN
  /\ pc[w] = "steal_copy"
  /\ buffer' = [buffer EXCEPT
       ![local[w].victim][At(local[w].blocked, n)] = NoJob,
       ![w][At(tail[w], n)] = Item(local[w].victim, local[w].blocked, n)]
  /\ Goto(w, IF n = local[w].amount THEN "steal_publish" ELSE "steal_copy",
          [local[w] EXCEPT !.copied = n + 1])
  /\ UNCHANGED <<anchors, stolen, shared, out>>

\* One round of the copy loop; the claim starts at local[w].blocked.
StealCopy(w) ==
  LET n == local[w].copied IN
  /\ pc[w] = "steal_copy"
  /\ buffer' = [buffer EXCEPT
       ![local[w].victim][At(local[w].blocked, n)] = NoJob,
       ![w][At(tail[w], n)] = Item(local[w].victim, local[w].blocked, n)]
  /\ Goto(w, IF n + 1 = local[w].amount THEN "steal_publish" ELSE "steal_copy",
          [local[w] EXCEPT !.copied = n + 1])
  /\ UNCHANGED <<anchors, stolen, shared, out>>

\* A bug: `stolen` is advanced without waiting for earlier claims, or the wait
\* compares it with the end of the claim.
NoTurns(w) == pc[w] = "steal_publish"
TurnAtEnd(w) ==
  stolen[local[w].victim] = WrappingAdd(local[w].blocked, local[w].amount)

\* consumer_publish_stolen spins until every earlier claim on v is published.
MyTurn(w) == stolen[local[w].victim] = local[w].blocked

StealPublish(w) ==
  /\ pc[w] = "steal_publish"
  /\ MyTurn(w)
  /\ stolen' = [stolen EXCEPT ![local[w].victim] =
                  WrappingAdd(@, local[w].amount)]
  /\ Goto(w, "steal_bump", local[w])
  /\ UNCHANGED <<anchors, buffer, shared, out>>

StealBump(w) ==
  /\ pc[w] = "steal_bump"
  /\ PublishTail(w)
  /\ Return(w, "ready")
  /\ UNCHANGED <<blocked, stolen, buffer, shared, out>>
-----------------------------------------------------------------------------
\* The search found nothing, or an inbox job: the loop starts over with a pop.
Retry(w) ==
  /\ pc[w] = "dry"
  /\ Return(w, "ready")
  /\ UNCHANGED <<anchors, stolen, buffer, shared, out>>

\* ThreadPool::push from any thread, while the pool is not shutting down.
Submit(x) ==
  /\ x \in out
  /\ \A w \in Workers : pc[w] \notin {"exited", "dropped"}
  /\ out' = out \ {x}
  /\ shared' = Append(shared, x)
  /\ UNCHANGED <<anchors, stolen, buffer, pc, local>>

\* Shutdown: a worker leaves its loop with jobs still in its deque ...
Exit(w) ==
  /\ pc[w] = "ready"
  /\ Return(w, "exited")
  /\ UNCHANGED <<anchors, stolen, buffer, shared, out>>

\* ... and once all are joined, Drop releases the jobs in [blocked, tail).
Dropped(w) == {Item(w, blocked[w], n) : n \in 0..(Filled(w) - 1)}

Drop(w) ==
  /\ pc[w] = "exited"
  /\ \A u \in Workers : pc[u] \in {"exited", "dropped"}
  /\ out' = out \cup Dropped(w)
  /\ buffer' = [buffer EXCEPT ![w] = [s \in SlotIndex |-> NoJob]]
  /\ Return(w, "dropped")
  /\ UNCHANGED <<anchors, stolen, shared>>

AllDropped == (\A w \in Workers : pc[w] = "dropped") /\ UNCHANGED vars

Operation(w) ==
  \/ \E x \in Jobs : PushLoad(w, x)
  \/ PopLoad(w)
  \/ PullLoad(w)
  \/ \E v \in Workers, max \in 1..Capacity : StealBegin(w, v, max)
  \/ Retry(w)
  \/ Exit(w)
  \/ Drop(w)

\* The steps of an operation that has begun.
Continue(w) ==
  \/ PushWrite(w) \/ PushPublish(w) \/ Spill(w)
  \/ PopCas(w) \/ PopRetry(w) \/ PopTake(w)
  \/ PullDrain(w) \/ PullNothing(w) \/ PullPublish(w)
  \/ StealLoad(w) \/ StealEmpty(w) \/ StealCas(w) \/ StealBusy(w)
  \/ StealCopy(w) \/ StealPublish(w) \/ StealBump(w)

Next ==
  \/ \E w \in Workers : Operation(w) \/ Continue(w)
  \/ \E x \in Jobs : Submit(x)
  \/ AllDropped

Spec == Init /\ [][Next]_vars
-----------------------------------------------------------------------------
(***************************************************************************)
(* Cursors stay cursors, and no worker sets out to move more jobs than a   *)
(* ring has slots.                                                         *)
(***************************************************************************)
TypeOK ==
  /\ tail \in [Workers -> Cursor]
  /\ blocked \in [Workers -> Cursor]
  /\ stolen \in [Workers -> Cursor]
  /\ buffer \in [Workers -> [SlotIndex -> Jobs \cup {NoJob}]]
  /\ shared \in Seq(Jobs)
  /\ out \in SUBSET (Jobs \cup {NoJob})
  /\ pc \in [Workers -> PCs]
  /\ local \in [Workers -> Locals]

(***************************************************************************)
(* What pop, steal and Drop take out of a slot is a job: a slot that was   *)
(* never written, or whose job was already moved out, is never taken (it   *)
(* would be a second run or a double free of the closure).                 *)
(***************************************************************************)
OnlyJobsTaken == NoJob \notin out

\* The cells of ring q that lie i..j places behind cursor c.
Span(q, c, i, j) == {<<q, At(c, k)>> : k \in i..j}

\* The cells that w reads, or writes, in the rest of the step it is about to
\* take: the unsafe take_at and write calls, which take no lock.
Reads(w) ==
  CASE pc[w] = "steal_copy" -> Span(local[w].victim, local[w].blocked,
                                    local[w].copied, local[w].amount - 1)
    [] pc[w] = "pop_take"   -> Span(w, tail[w], 0, 0)
    [] OTHER                -> {}

Writes(w) ==
  CASE pc[w] = "push_write" -> Span(w, tail[w], 0, 0)
    [] pc[w] = "pull_drain" -> Span(w, tail[w], 0, local[w].amount - 1)
    [] pc[w] = "steal_copy" -> Span(w, tail[w], local[w].copied,
                                    local[w].amount - 1)
    [] OTHER                -> {}

(***************************************************************************)
(* The unsafe slot accesses never meet: no cell is read by two workers     *)
(* (a job taken twice), and no cell is written while another worker reads  *)
(* or writes it (a torn job).                                              *)
(***************************************************************************)
NoSlotRace ==
  \A t, u \in Workers : t # u =>
    /\ Reads(t) \cap Reads(u) = {}
    /\ (Reads(t) \cup Writes(t)) \cap Writes(u) = {}

(***************************************************************************)
(* The wait of consumer_publish_stolen cannot be circular: while claims on *)
(* a deque are outstanding, one thief holds the claim that starts at       *)
(* `stolen`, and it is copying or about to publish.                        *)
(***************************************************************************)
NextInLine ==
  \A v \in Workers : stolen[v] # blocked[v] =>
    \E w \in Workers : /\ pc[w] \in {"steal_copy", "steal_publish"}
                       /\ local[w].victim = v /\ local[w].blocked = stolen[v]

(***************************************************************************)
(* A thief that claimed a batch gets to publish it and returns, whatever   *)
(* the claims that precede its own on the same victim: nobody waits in a   *)
(* circle.  Fairness: a thread that is inside an operation keeps running.  *)
(***************************************************************************)
FairSpec == Spec /\ \A w \in Workers : WF_vars(Continue(w))

StealReturns == \A w \in Workers : pc[w] \in Stealing ~> pc[w] \in Idle

(***************************************************************************)
(* The debug_assert of try_steal_batch_to: "a stealer shouldn't have any   *)
(* tasks while trying to steal", which it tests as free_slots > 0.         *)
(***************************************************************************)
StealerHasRoom == \A w \in Workers : pc[w] = "steal_load" => local[w].amount > 0
=============================================================================
