----------------------------- MODULE InboxLocks -----------------------------
(***************************************************************************)
(* publish_batch at the grain of its locks (shared.rs): several threads    *)
(* publish batches at once, each locking every inbox in index order,       *)
(* running the caller's iterator while it holds them all, and releasing    *)
(* from the last inbox to the first; meanwhile the owners of the inboxes   *)
(* pop from them and thieves try to.                                       *)
(*                                                                         *)
(* Members 0..N own an inbox, N being the host; N + 1 is an external       *)
(* caller without the host slot.  A job may publish a batch of its own.    *)
(* What a thread does after its publication, and how it waits for its      *)
(* jobs, is in ThreadPool: here it goes on taking jobs.  The iterator of a *)
(* batch may panic; it does not use the pool itself.                       *)
(***************************************************************************)
EXTENDS InlineFn, Sequences, SequencesExt, FiniteSets

CONSTANTS
  N,          \* total_worker
  Call,       \* the body of the external call of each external thread
  Batch,      \* the jobs that each body hands to run_batch
  Boxed,      \* jobs whose closure does not fit into the job
  NoThread

Host == N
Helper == N + 1
Members == 0..N
Threads == 0..(N + 1)
Bodies == DOMAIN Batch
Jobs == UNION {Range(Batch[b]) : b \in Bodies}

\* A job is one closure: it is one job of one batch.  The two external calls are
\* two calls.
ASSUME InboxAssumption ==
  /\ N \in Nat \ {0} /\ NoThread \notin Int
  /\ Call \in [{Host, Helper} -> Bodies \ Jobs] /\ Call[Host] # Call[Helper]
  /\ Batch \in [Bodies -> Seq(Bodies)]
  /\ \A b, c \in Bodies : \A i \in DOMAIN Batch[b], j \in DOMAIN Batch[c] :
       Batch[b][i] = Batch[c][j] => b = c /\ i = j
  /\ Boxed \subseteq Jobs

VARIABLES
  inbox,      \* the jobs in each inbox, in front those that are published
  owner,      \* the thread that holds the lock of each inbox
  kept,       \* original_len: the jobs an inbox had when its holder locked it
  body,       \* the body that each thread publishes a batch for
  pc, at,     \* where each thread is, and the index of its loop
  settled,    \* bodies whose batch is published or given up
  taken,      \* jobs that were taken out of an inbox to be run
  closure     \* what became of the closure of each job

vars == <<inbox, owner, kept, body, pc, at, settled, taken, closure>>

Init ==
  /\ inbox = [m \in Members |-> <<>>]
  /\ owner = [m \in Members |-> NoThread]
  /\ kept = [m \in Members |-> 0]
  /\ body = [t \in Threads |-> IF t \in DOMAIN Call THEN Call[t] ELSE Call[Host]]
  /\ pc = [t \in Threads |-> IF t \in DOMAIN Call THEN "lock" ELSE "idle"]
  /\ at = [t \in Threads |-> 0]
  /\ settled = {}
  /\ taken = {}
  /\ closure = [x \in Jobs |-> Unmade]

Goto(t, p, i) == pc' = [pc EXCEPT ![t] = p] /\ at' = [at EXCEPT ![t] = i]
-----------------------------------------------------------------------------
(***************************************************************************)
(* Publishing: with_batch_inboxes, one stack frame and one guard per inbox *)
(***************************************************************************)
CallerIndex(t) == IF t = Helper THEN 0 ELSE t

LockOrderFromCaller(t, i) == (CallerIndex(t) + i) % (N + 1)    \* mutant
LockOrder(t, i) == i

\* QueueBatching::get: the CAS that succeeds; a thread spins until the lock is free.
LockNext(t) ==
  LET m == LockOrder(t, at[t]) IN
  /\ pc[t] = "lock" /\ owner[m] = NoThread
  /\ owner' = [owner EXCEPT ![m] = t]
  /\ kept' = [kept EXCEPT ![m] = Len(inbox[m])]
  /\ IF at[t] = N THEN Goto(t, "assign", 0) ELSE Goto(t, "lock", at[t] + 1)
  /\ UNCHANGED <<inbox, body, settled, taken, closure>>

Participants(caller) == IF caller = Host THEN N + 1 ELSE N

TargetOfTurn(caller, i) == i % Participants(caller)            \* mutant

\* Job number i of a batch (from 0): the caller first, then the others.
TargetOf(caller, i) ==
  LET turn == i % Participants(caller)
  IN  IF turn = 0 THEN caller ELSE IF turn <= caller THEN turn - 1 ELSE turn

\* The iterator makes the next job, and push puts it into its inbox.
Assign(t) ==
  LET batch == Batch[body[t]]
      x == batch[at[t] + 1]
  IN
  /\ pc[t] = "assign" /\ at[t] < Len(batch)
  /\ closure' = [closure EXCEPT ![x] = NewScoped(x \notin Boxed)]
  /\ inbox' = [inbox EXCEPT ![TargetOf(CallerIndex(t), at[t])] = Append(@, x)]
  /\ Goto(t, "assign", at[t] + 1)
  /\ UNCHANGED <<owner, kept, body, settled, taken>>

\* The iterator is exhausted.
Assigned(t) ==
  /\ pc[t] = "assign" /\ at[t] = Len(Batch[body[t]])
  /\ settled' = settled \cup {body[t]}
  /\ Goto(t, "release", N)
  /\ UNCHANGED <<inbox, owner, kept, body, taken, closure>>

\* The iterator panics instead of giving the next job, or its end.
IteratorPanics(t) ==
  /\ pc[t] = "assign"
  /\ settled' = settled \cup {body[t]}
  /\ Goto(t, "rollback", N)
  /\ UNCHANGED <<inbox, owner, kept, body, taken, closure>>

ReleaseFirstToLast(t) == N - at[t]    \* mutant
Releases(t) == at[t]

TruncateAll(t, m) == <<>>             \* mutant: older jobs go as well
Truncated(t, m) == SubSeq(inbox[m], 1, kept[m])

\* A frame returns: truncate after a failure, which drops the jobs of this
\* batch, then drop the guard.
Release(t) ==
  LET m == Releases(t)
      left == IF pc[t] = "release" THEN inbox[m] ELSE Truncated(t, m)
  IN
  /\ pc[t] \in {"release", "rollback"}
  /\ inbox' = [inbox EXCEPT ![m] = left]
  /\ closure' = [x \in Jobs |-> IF x \in Range(inbox[m]) \ Range(left)
                               THEN DropUnrun(closure[x]) ELSE closure[x]]
  /\ owner' = [owner EXCEPT ![m] = NoThread]
  /\ IF at[t] = 0 THEN Goto(t, "idle", 0) ELSE Goto(t, pc[t], at[t] - 1)
  /\ UNCHANGED <<kept, body, settled, taken>>
-----------------------------------------------------------------------------
(***************************************************************************)
(* Taking.  The cached length of an inbox is what its last holder left;    *)
(* the lock is taken only when it is not zero, by the owner with get, by a *)
(* thief with try_get.  The lock is released before the job runs.          *)
(***************************************************************************)
Shown(m) == IF owner[m] = NoThread THEN Len(inbox[m]) ELSE kept[m]

Look(t) ==
  /\ pc[t] = "idle" /\ t \in Members /\ Shown(t) > 0
  /\ Goto(t, "pop", 0)
  /\ UNCHANGED <<inbox, owner, kept, body, settled, taken, closure>>

\* run_once: the job is over, or it goes on to publish its batch.
TakeAndRun(t, m) ==
  /\ inbox[m] # <<>>
  /\ taken' = taken \cup {Head(inbox[m])}
  /\ closure' = [closure EXCEPT ![Head(inbox[m])] = RunOnce(@)]
  /\ inbox' = [inbox EXCEPT ![m] = Tail(@)]
  /\ IF Batch[Head(inbox[m])] = <<>>
     THEN Goto(t, "idle", 0) /\ UNCHANGED body
     ELSE Goto(t, "lock", 0) /\ body' = [body EXCEPT ![t] = Head(inbox[m])]
  /\ UNCHANGED <<owner, kept, settled>>

Pop(t) == pc[t] = "pop" /\ owner[t] = NoThread /\ TakeAndRun(t, t)

PopNothing(t) ==
  /\ pc[t] = "pop" /\ owner[t] = NoThread /\ inbox[t] = <<>>
  /\ Goto(t, "idle", 0)
  /\ UNCHANGED <<inbox, owner, kept, body, settled, taken, closure>>

Steal(t, v) ==
  /\ pc[t] = "idle" /\ v # t
  /\ Shown(v) > 0 /\ owner[v] = NoThread
  /\ TakeAndRun(t, v)

Step(t) ==
  \/ LockNext(t) \/ Assign(t) \/ Assigned(t) \/ IteratorPanics(t) \/ Release(t)
  \/ Look(t) \/ Pop(t) \/ PopNothing(t) \/ \E v \in Members : Steal(t, v)

Next == \E t \in Threads : Step(t)

Spec == Init /\ [][Next]_vars

\* Every thread goes on; an iterator comes to its end.
FairSpec == Spec /\ \A t \in Threads : WF_vars(Step(t))
-----------------------------------------------------------------------------
Holding(t) == {m \in Members : owner[m] = t}

(***************************************************************************)
(* The first inbox is locked first and released last, so that batches are  *)
(* published one at a time, although every publisher has N + 1 locks: what *)
(* ThreadPool's LockInboxes relies on.                                     *)
(***************************************************************************)
OnePublisher == \A t, u \in Threads : Holding(t) # {} /\ Holding(u) # {} => t = u

(***************************************************************************)
(* run_batch's documentation: jobs are distributed round-robin across the  *)
(* caller and the background workers, and an inactive host is not assigned *)
(* work.  When the iterator is exhausted the shares of any two             *)
(* participants differ by at most one job, nobody else has a share, and    *)
(* nobody's is larger than the caller's.                                   *)
(***************************************************************************)
FairShares ==
  \A t \in Threads : (pc[t] = "release" /\ at[t] = N) =>
    LET caller == CallerIndex(t)
        who == IF caller = Host THEN Members ELSE Members \ {Host}
        share(m) == Len(inbox[m]) - kept[m]
    IN  /\ \A m \in who : share(caller) - share(m) \in {0, 1}
        /\ \A m \in Members \ who : share(m) = 0

(***************************************************************************)
(* InlineFn is used exactly once: a job that lies in an inbox still has    *)
(* what it captured (the ticket of its scope is part of it), and one that  *)
(* does not has been run or dropped, never both, and its box is freed.     *)
(***************************************************************************)
ClosuresUsedOnce ==
  \A x \in Jobs :
    LET queued == \E m \in Members : x \in Range(inbox[m])
    IN  \/ closure[x] = Unmade
        \/ queued /\ closure[x] = NewScoped(x \notin Boxed)
        \/ ~queued /\ Spent(closure[x])

\* What may be taken: a batch counts from the moment its iterator is exhausted.
Published(m) ==
  IF owner[m] # NoThread /\ pc[owner[m]] # "release"
  THEN SubSeq(inbox[m], 1, kept[m]) ELSE inbox[m]

BI == INSTANCE BatchInboxes WITH
  Inboxes <- Members,
  Batch   <- [b \in {x \in Bodies : Batch[x] # <<>>} |-> Batch[b]],
  inbox   <- [m \in Members |-> Published(m)],
  open    <- {b \in Bodies : Batch[b] # <<>>} \ settled

(***************************************************************************)
(* with_batch_inboxes publishes all or nothing: no job is taken before the *)
(* iterator is exhausted, a batch whose iterator panics is never seen, the *)
(* older jobs of every inbox survive it, and no job is taken twice.        *)
(***************************************************************************)
AllOrNothing == BI!BISpec

(***************************************************************************)
(* Nested batches published from several threads, with owners waiting for  *)
(* their inbox and thieves trying theirs, never wait for each other in a   *)
(* circle: every publication and every pop ends.                           *)
(***************************************************************************)
PublicationsEnd == \A t \in Threads : (pc[t] # "idle") ~> (pc[t] = "idle")
=============================================================================
