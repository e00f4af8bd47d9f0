# xynok_concurrency in TLA+

A verification project for the crate in `src/`: a work-stealing thread pool
with scoped tasks, the lock-free rings and the small locks it is made of, and
a public single-producer ring. TLC checks small instances of every module;
TLAPS proves every safety property the passing runs check, the three
refinements included, for every instance (of the SPMC ring, for those with fewer
values than cursors).

Paths below are relative to the crate's own `src/` unless they start with
`docs/`; `PROJECT.json` maps every definition to its lines.

## 1. Inventory

### Components

| Component | State | Operations | Module |
|---|---|---|---|
| Cursor arithmetic, slots (`utils/cursors.rs`, `fixed_ring_buffer.rs`, `bits.rs`, `packed.rs`) | u32 cursors, slots masked by `capacity - 1` | `filled_slots`, `empty_slots`, `at`, pack/unpack | `Cursors` |
| Worker deques (`thread_pool/worker_queue.rs`) | per worker: anchor (tail, in_stealing), stolen, slots | push, pop, pull from the shared queue, steal, publish, Drop | `WorkerQueue` |
| Search, sleep, wake-up (`thread_pool/worker.rs`, `shared.rs`) | shared queue, deques, inboxes, sleepers, park tokens, a stack of bodies per thread | push, spawn, `run_batch`, `wake_one`, update / `run_until`, nested scopes, `sleep_if_idle` | `ThreadPool` |
| Pool construction and shutdown (`thread_pool/mod.rs`, `worker.rs`, `utils/fixed_buffer.rs`) | slots written, `init_completed`, `is_running`, handles | `new` with a thread that cannot be spawned, warm-up loop, Drop | `ThreadPool` |
| Inbox lock order of batches (`shared.rs`) | the lock of every inbox, one guard per stack frame | `with_batch_inboxes`, rollback after a panic of the iterator, pop and `try_get` against it | `InboxLocks` |
| Jobs as values (`utils/inline_fn`) | the closure, inline or boxed | `new_scoped`, `run_once`, Drop | `InlineFn` |
| Scope, latch, panics (`thread_pool/scope.rs`, `utils/latch.rs`) | `remaining`, `canceled`, panic cell | spawn, batch with a failing iterator, cancel, `record_panic`, wait, return | `Scope` |
| Host slot and context (`thread_pool/mod.rs`, `local.rs`) | THREAD_LOCAL_CTX, `host_owner`, call stack | `scope` as member, as host, as helper; nested and across pools | `ScopeCalls` |
| QueueBatching (`utils/queue_batching.rs`, `spinlock.rs`) | elements, spin lock, cached length | push, pop, drain, clear, len | `QueueBatching` |
| SPMC ring (`collection/ring_buffer`) | head (stolen, blocked), tail, slots | push, push_batch, pop, pop_batch, pop_batch_to, Drop | `SpmcRing` |
| MutexCondition (`mutex_condition.rs`) | - | forwards to std's Mutex and Condvar | not modelled |
| CachePadded, sync shims, priority, random, slots | - | layout, OS calls, re-exports | not modelled |

### Interactions

A job enters through `push` (shared queue), `spawn` (the spawner's deque, the
shared queue when that is full) or `run_batch` (inboxes, under all inbox
locks). Workers and the host that waits in `run_until` look in their own deque,
their own inbox, the shared queue, then the inbox and the deque of each other
member. A worker that finds nothing registers in `sleepers` and parks; whoever
enqueues removes a registration and unparks. A scope's caller leaves when the
latch has no more tickets. A job may open a scope of its own: its thread then
waits in `run_until` with other jobs running on top of it, and never sleeps
there. A second external caller finds the host slot taken and helps through a
private deque of one slot that nobody steals from. Dropping the pool clears `is_running`, unparks and
joins.

### What is hard

- Three parties touch a ring without a lock: the owner at the tail, thieves that
  claim, thieves that still copy. Every slot access is `unsafe`; cursors wrap.
- Publication of `stolen` waits for other thieves.
- Check-then-sleep against enqueue-then-wake, with spurious returns of `park`
  and jobs that move between queues while a worker looks through them.
- Workers run before `new` has written the slots of the others, and `new` may
  fail half-way.
- A batch is visible to nobody until its iterator is exhausted, although it
  goes into inboxes that owners and thieves look at; every publisher holds all
  inbox locks, and the caller's iterator runs meanwhile.
- Jobs are moved by copying bytes: only the discipline of `run_once` and Drop
  keeps a closure from being used twice or leaked.
- A scope's frame may be freed as soon as the last ticket is gone.
- A panic in a job, in several jobs at once, in the closure, in the iterator of
  a batch; each leaves another set of tickets behind.
- Calls of `scope` nest on one thread through several pools, and compete for the
  one host deque of each.

`PROJECT.json` lists each of these as a hazard at its line, with the properties
that would catch it going wrong, or the reason why none does.

### What makes each component correct

- Deques: no job lost, duplicated or taken from a slot that holds none; no
  slot touched by two threads at once; LIFO for the owner and FIFO for thieves;
  every steal returns.
- Pool: no job left behind while everybody sleeps; every sleeper can be woken;
  pushes run, scopes return at every depth, a helper leaves nothing in its
  private deque, no slot is read before it is written or after it is dropped,
  the pool can be dropped.
- Inboxes: a batch appears whole or not at all, in even shares; publishers and
  consumers never wait in a circle; every closure is run or dropped once.
- Scope: nobody borrows after the return; no panic is swallowed.
- Host slot: one owner per deque; identities are given back.
- QueueBatching: a cached length of zero can be trusted.
- SPMC ring: a bounded FIFO queue.

## 2. Modules

`Cursors` — wrapping addition and subtraction modulo `Wrap` (the code's 2^32),
slots, `filled_slots` and `empty_slots`. `Wrap` is a parameter, so that a model
with a handful of operations wraps; the assumption is that the capacity divides
it at least twice, which `FixedRingBuffer::new` enforces for 2^32.

`WorkerQueue` — one action per atomic operation: load, CAS, slot copy,
`fetch_add`, store. `tail` and `blocked` are two variables and change together
where the code changes the packed anchor. Slots really hold jobs, and are
`NoJob` after `take_at` moved the job out. The shared queue appears as the place
that a full deque spills into and that pull drains.

`WorkStealing` — the abstract specification: deques are sequences, with what
a worker is moving in its `flight`. `WorkerQueueRefinement` gives the mapping:
a steal takes effect at the CAS on the victim, a pop at its CAS, and a
batch becomes visible with the thief's `fetch_add`.

`WorkerQueueInv` — the two inductive invariants: `WorkersInv`, where the workers stand on
the rings, and `JobInv`, what the slots hold. `WorkerQueueProofs` has the proofs, of
the refinement too, on the lemmas about cursors of `CursorsProofs`.

`ThreadPool` — the life of a pool over deques that are already sequences, from
`ThreadPool::new` to the join. A thread's `pc` walks through `Worker::update`,
`run_until` and `sleep_if_idle`; `at` is the index of the loop it is in. `slots`
holds the members whose `WorkerSpec` is written. What runs inside a scope is a
*body*: an external call, or a job; the constants `Spawns` and `Batch` say which
jobs each body submits, and `hand` is the stack of bodies a thread is inside of.
A body that submits jobs waits for them at the `top` of the search, with whatever
it picks up pushed on top. Batches of jobs that change queues are carried in
`flight` and are invisible between being taken out of one queue and being
published in the next, as in the code. Operations of a QueueBatching are single
steps here: `QueueBatching` shows that its cached length cannot hide an element.
A publisher's round over the inboxes starts in one step, because `InboxLocks`
shows that batches are published one at a time; the releases are single steps.
Steal::Busy is a step of `WorkerQueue`. Here `NextVictim` may pass over a victim that has
jobs: the one CAS on its anchor or the one `try_get` of its inbox may lose to another
thread (`worker.rs:83`, `worker.rs:98`), its owner included, or the thief's own ring is still full of slots
others have claimed. The model does not say who won, so it allows this more often than
the code does; the safety properties are checked and proved with it. The threads outside
the pool are one pusher, the host and one helper; `push` from inside a running job is
not modelled. Assumed of the jobs: one that is
pushed with `push` opens no scope (it is `'static`, cannot borrow the pool, and is
assumed not to share its ownership); a job opens at most one scope, by spawning or by one `run_batch`, and submits all of
its jobs; with a helper, jobs open no scopes (which identity a nested call then
has is in `ScopeCalls`). `PoolAssumption` states this, and that a job is one
closure: it is submitted by one body, in one place.

`ThreadPoolProofs` — the inductive invariant of `ThreadPool` and what follows from
it. `Subsequences` has the operator `Pick`, the part of a sequence at given
positions, which stands for `Vec::retain` and for the jobs of a batch that go to one
inbox; SelectSeq is a recursion that the provers cannot unfold. `MCThreadPool`
assumes, so that TLC evaluates it, that the two agree.

`InboxLocks` — `publish_batch` at the grain of its locks. Every publisher takes
the lock of every inbox in index order, remembers its length, appends job by
job while it holds them all, and releases from the last to the first; when its
iterator panics each frame truncates its inbox before it releases. Owners see the
cached length and then wait for the lock; thieves try it. After its publication a
thread goes on taking jobs, which may publish in turn. Iterators may panic and do
not use the pool. `BatchInboxes` is what it promises: publishing a batch is one step
and so is taking a job; `AllOrNothing` is the refinement, and the batch takes
effect when the iterator is exhausted. `InboxAssumption`: a job is one closure, so
it is in one place of one batch, and the two external calls are two.
`InboxLocksProofs` has the proofs.

`InlineFn` — operators on a closure as a value: made inline or boxed, run,
dropped. `InboxLocks` applies them where the code makes, runs and drops jobs.

`Scope`, `ScopeProofs` — one call of `scope` or `run_batch`. The jobs' own control
is there: begin (or skip, when canceled), return or panic, `try_lock` of the
panic cell, store, release of the lock, drop of the ticket.

`ScopeCalls` — who a thread is. A call pushes a frame; the context is saved, set
and restored where the code does so; the host slot is taken by a CAS.
`CallsAssumption`: a worker's own identity is in one of the pools, is not that of
a host, and is nobody else's. `ScopeCallsProofs` has the proofs.

`QueueBatching`, `QueueBatchingProofs` — the guard's two stores on drop (length,
then lock) are two steps in the order of the code. `GuardLock` is for those who use
the guard itself and do not look at the length first: `wake_one`'s pop, `retain` and `truncate`.
Elements are taken from the front; `retain` and `truncate` may take others, which the
length does not tell apart. Zero elements are taken by a `retain` that keeps all.

`FifoQueue`, `SpmcRing` — the public ring against a bounded FIFO queue. Loads of
head and tail are separate steps, `compare_exchange_weak` may fail for no
reason, slots are written and read one by one. `Queue`, `Flight` and `Hands` are the
refinement mapping: what is between the claimed and the published cursor is
queued, a push that is not published yet is in flight, and a claim belongs to its
consumer from the CAS on. `SpmcRingProofs` has the proofs.

Operators named as mutants in comments (`StealCopyOneMore`, `WakeNobodyUnlocked`,
...) are used by no specification. Each is a plausible bug of one definition; put
in its place, TLC finds the property violated that `PROJECT.json` names for it.

The model abstracts from:

- memory orderings: atomics are sequentially consistent. The repository's loom
  tests cover the orderings; here the protocols are covered at sizes loom
  cannot reach;
- what a job does, besides spawning and panicking; formatting, logging and
  padding.

## 3. Runs

Deadlock is checked in every run except `spmc_ring`, which stops when the ring is
dropped, and `inbox_locks`, which stops when every job is taken; there
`PublicationsEnd` says that nobody is waiting when it does.

| Run | Instance | Shows |
|---|---|---|
| `rings_implement_deques` | 2 workers, 4 jobs, 2 slots, Wrap 8 | `TypeOK`, `OnlyJobsTaken`, `JobsExactlyOnce`, the inductive `JobInv`, `ImplementsWorkStealing`. More jobs than a ring has slots, so that pushes spill and pulls and steals move batches; no operation is restricted, and the cursors wrap all the way round. |
| `two_thieves` | 3 workers, 2 jobs, 2 slots, Wrap 4; w1 pushes and pops, the others steal from it | `NoSlotRace`, `NextInLine`, the inductive `WorkersInv`, and `StealReturns` under weak fairness of every thread inside an operation. Two claims on one ring at a time are the case that two workers do not reach. |
| `pool` | 2 workers, 1 slot, one push, a batch of 2 of the host, construction and shutdown | `TypeOK`, `OnlyHostLeavesJobs`, `SleeperReachable`, `RegistrationsCurrent`, `AssignedWorkerWoken`, `OnlyLiveSlotsRead`. Two workers, so that one registers while the other is woken and one runs before the slot of the other is written; two publishers. 2.4 million states, the largest run. |
| `pool_progress` | 1 worker and the host, 1 slot, one push, a scope with 2 jobs, one of which runs a batch | `EveryPushRuns`, `ScopesReturn`. One slot per deque makes the second spawn spill into the shared queue; the nested scope is opened on the worker or on the host, over or under the other jobs. |
| `two_callers` | 1 worker, the host and the helper, 1 slot, a scope with one job each | `HelperLeavesNothing`, `ScopesReturn`, `ShutdownJoins`. The helper steals from the host, the host from the worker; `new` may fail. |
| `inbox_locks` | 2 workers, the host, a second caller; batches of 2 and 1, whose jobs publish batches of 3 and 1 | `OnePublisher`, `FairShares`, `ClosuresUsedOnce`, `AllOrNothing`, `PublicationsEnd`. Four publications by up to four threads contend for the locks; a batch of 3 over 2 workers goes round; every iterator may panic at every job; two of the closures are boxed. |
| `scope_panics` | 3 jobs, all may panic | `TypeOK`, `ScopeOutlivesJobs`, `ValueMeansAllFinished`, the inductive `ScopeInv`. Three: one that stores its panic, one that gives up on the lock, one that is skipped. |
| `host_slot` | 2 pools, a worker and an outsider, 3 nested calls | `OneOwnerPerDeque`, `ScopeHasWorker`, `IdentityReturned`. Three calls are enough to leave a pool, enter another and come back. |
| `queue_length` | 3 threads, batches of 1 and 2, at most 4 elements | `TypeOK`, `NothingHidden`, the inductive `LengthInv`. Two threads that change the queue or wait for it, and a third that looks at the length meanwhile. |
| `spmc_ring` | 2 consumers, 4 slots, Wrap 8, 7 values, starting at cursor 6 | `TypeOK`, `NoOverwrite`, `ClaimsHoldValues`, `ImplementsFifo`, across the wrap. |
| `stealer_has_room` | 2 workers, 1 slot | violates `StealerHasRoom` |
| `stranded_push` | 1 worker, the host, 2 pushes, a spawn | violates `NoJobStranded` |

### Findings

1. `worker_queue.rs:151` asserts `free_slots > 0` because "a stealer shouldn't
   have any tasks". A worker whose full deque has been claimed by thieves that
   still copy has no task and no free slot: the assertion fails in a debug build.
2. `shared.rs:189` argues that a publisher's work is seen or the registration is.
   Jobs that the waiting host is pulling from the shared queue are in
   nobody's view: the worker parks, the host publishes them into its own deque,
   runs one, sees its scope completed and leaves the rest there, with everybody
   asleep until the next push or scope. `OnlyHostLeavesJobs` and `EveryPushRuns`
   state what remains true: the host's own deque is the only place where a job
   can be left. The helper is not affected: its deque has one slot and it pops
   what it has just moved there (`HelperLeavesNothing`).

Two limits of the properties that hold:

- `StealReturns` needs every thread inside an operation to go on. A thief that is
  suspended between its claim and its publication holds up every later thief of
  the same deque, although `docs/concurrency_concepts.md` calls the work-stealing
  rings lock-free.
- The properties of the SPMC ring are shown while fewer than `Wrap` values are
  pushed, and `docs/ring_buffer.md:27` says without a condition that the overflow of the
  indices is handled "by wrapping the values around". Differences and slots do
  survive the wrap, but the claim compares the head and not the tail it was
  computed from: a consumer suspended between its load of the tail and its CAS
  while a multiple of 2^32 values goes through finds the head it expects and
  claims slots that hold nothing. No run covers this; `MCSpmcRing` with two slots, Wrap 4
  and 5 values shows it as a violation of `ClaimsHoldValues`. The deques are not
  affected: their anchor packs the tail with the claim cursor, and the proof
  of `NoSlotRace` holds for every `Wrap`.

### Fairness

- `WorkerQueue`: weak fairness of `Continue(w)`: a thread that is inside a push,
  pop, pull or steal is scheduled again. Starting an operation is never forced.
- `ThreadPool`, `Fairness`: weak fairness of each thread's `Step` (its search, its
  sleep protocol, its wake-up after an enqueue, the closure of a scope it is in)
  and of the shutdown's loop. No push, scope, or shutdown is forced, and neither
  is the construction.
- `InboxLocks`, `FairSpec`: weak fairness of each thread's `Step`. The owner's wait for an inbox
  lock is not assumed to be strongly fair: the instance has finitely many
  batches, so a publisher is overtaken finitely often.
- `Undisturbed`: strong fairness of popping the own deque. The code does not
  exclude that a thief empties a deque each time between the owner's publication
  and its pop, and is robbed of the batch in turn; the liveness runs assume that
  this does not go on forever. It is listed as a hazard without a property: `ScopesReturn`
  and `EveryPushRuns` hold under this assumption and do not show it.
- `RacesEnd`: from some time on a round passes over a victim only when it has nothing
  to take from it. The CAS of a steal is a strong one and `try_get` fails only when
  the lock is held, so each loss has an operation of another thread on the same deque or
  inbox behind it; with finitely many jobs these go on forever only if jobs are moved
  around forever, which is what `Undisturbed` rules out.
- `Calm`: spurious returns of `park` stop at some time. The lock of `sleepers` is a
  spin lock without a queue, and a worker that is woken again and again for no
  reason can keep a publisher away from it.

## 4. Proofs

| Theorem | Statement | Assumptions |
|---|---|---|
| `CursorsProofs!SlotInjective` | cursors less than a ring apart use different slots, also across the wrap | `CursorAssumption` |
| `WorkerQueueProofs!Invariance` | `Spec => []WorkersInv` | `CursorAssumption`, `WorkerAssumption` |
| `WorkerQueueProofs!RaceFreedom` | `Spec => []NoSlotRace` | same |
| `WorkerQueueProofs!NobodyWaitsInCircle` | `Spec => []NextInLine` | same |
| `WorkerQueueProofs!TypeCorrect` | `Spec => []TypeOK` | same |
| `WorkerQueueProofs!JobInvariance` | `Spec => [](RingInv /\ DataTypes /\ JobInv)` | same |
| `WorkerQueueProofs!TakesJobsOnly` | `Spec => []OnlyJobsTaken` | same |
| `WorkerQueueProofs!NoJobLostOrTwice` | `Spec => []JobsExactlyOnce` | same |
| `WorkerQueueProofs!RingsImplementDeques` | `Spec => ImplementsWorkStealing`, the refinement of `WorkStealing` | same |
| `ScopeProofs!Invariance`, `BorrowSafety`, `NoPanicLost`, `TypeCorrect` | `ScopeInv`, `ScopeOutlivesJobs`, `ValueMeansAllFinished`, `TypeOK` | `ScopeAssumption`: finitely many jobs |
| `QueueBatchingProofs!LengthInvariance`, `NoFalseEmpty`, `TypeCorrect` | `LengthInv`, `NothingHidden`, `TypeOK` | the assumptions of `QueueBatching` |
| `ThreadPoolProofs!NoLostWakeup` | `Spec => []OnlyHostLeavesJobs` | `PoolAssumption` |
| `ThreadPoolProofs!NoLostSleeper`, `AssignedAreWoken`, `RegistrationsOnce` | `SleeperReachable`, `AssignedWorkerWoken`, `RegistrationsCurrent` | same |
| `ThreadPoolProofs!SlotsLive`, `HelperEmpty`, `TypeCorrect`, `Invariance` | `OnlyLiveSlotsRead`, `HelperLeavesNothing`, `TypeOK`, `IInv` | same |
| `InboxLocksProofs!BatchesWhole` | `Spec => AllOrNothing`, the refinement of `BatchInboxes` | `InboxAssumption` |
| `InboxLocksProofs!OneAtATime`, `SharesAreFair`, `UsedOnce`, `Invariance` | `OnePublisher`, `FairShares`, `ClosuresUsedOnce`, `IInv` | same |
| `ScopeCallsProofs!DequeHasOneOwner`, `WaitingScopeHasWorker`, `IdentityComesBack`, `Invariance` | `OneOwnerPerDeque`, `ScopeHasWorker`, `IdentityReturned`, `IInv` | `CallsAssumption` |
| `SpmcRingProofs!RingIsFifo` | `Spec => ImplementsFifo`, the refinement of `FifoQueue` | `CursorAssumption`, `SpmcAssumption`, and `MaxPush < Wrap` |
| `SpmcRingProofs!NothingOverwritten`, `NothingReadTwice`, `TypeCorrect`, `Invariance` | `NoOverwrite`, `ClaimsHoldValues`, `TypeOK`, `IInv` | same |

**Deques.** `NoSlotRace` says nothing of where the claims of other thieves lie, so
it is not inductive. `WorkersInv` adds: `RoomInv`, claimed, queued and reserved slots of
a ring together are at most its capacity; `LocalInv`, what each worker's
local copies say of its next step; `ClaimInv`, outstanding claims lie inside
`[stolen, blocked)` and do not overlap; `CoverInv`, they leave nothing of it out.
All places are offsets from `stolen`, so that the argument is free of wrapping;
the lemmas of `CursorsProofs` translate the steps. Each action has a lemma;
those that leave the rings of others alone share `Aside`. Race freedom then
follows from disjoint offsets and `SlotInjective`; `NextInLine` from `CoverInv` at
offset 0.

**Jobs in the deques.** That no job is lost or taken twice needs what `WorkersInv` leaves
out, the contents of the slots. `Held` names the cursors of a ring whose slots hold
a job: those that are queued, those the owner has filled and not yet published, the one it
has popped and not yet read, and those a thief has claimed and not yet copied.
`ContentInv` of `JobInv`: a slot holds a job exactly while a held cursor is at it. All held
cursors, and those the owner is about to use, lie in one capacity from `stolen` on
(`Window`), so that a slot has at most one of them (`OneCursor`), and the four kinds do not
overlap (`Apart`). Most steps change the set of held cursors and no slot, or write and empty
one slot and add and remove its cursor; `WriteDoes`, `TakeDoes`, `DrainDoes`, `CopyDoes` and
`DropDoes` say so for the others, and `ContentChange` draws the conclusion once. `MoveInv`
and `EndInv` are the parts of the control it needs: a batch is published when all of it is
copied, a worker searches elsewhere only with an empty deque, and Drop runs when every
thread has stopped. `OnceInv` and `KindInv` then follow each job: it is outside, in the
shared queue, in the hands of a worker that pushes it, or in one slot. `OnlyJobsTaken` is a
conjunct; for `JobsExactlyOnce` each place of `WorkStealing` is shown to be one of these
(`PlaceIsSpot`, `SpotIsPlace`).

For the refinement every action has a lemma `Map...`: the CAS of pop is `PopNewest`, the CAS of
a steal `StealOldest` (the rest of the victim's deque begins at another cursor: `ItemShift`), the
`fetch_add` on a tail `Publish`, the drain `Pull`, and each round of the copy loop a stutter,
because it moves a job of the flight from the victim's ring to the thief's. `Bystanders` says that a
step of one worker that keeps the slots of others changes no other deque and no other flight. No
bound on `Wrap` is needed: the CAS compares the whole anchor, and what it compares is all that the
claim relies on.

**Scope.** `CountInv`: the latch is one more than the number of jobs with a ticket,
so "completed" means no job borrows. `PanicInv`: a panic is in the cell or a job is
about to put it there; a job gives up only when another one holds the lock, and
that one is about to store. This is the point of the single `try_lock`.

**QueueBatching.** The length is exact while the lock is free; the holder knows by
how much it is off in between.

**ThreadPool.** `OnlyHostLeavesJobs` speaks of a quiet pool, and has to be carried
through every interleaving that leads to one. `IInv` has these parts.
`Construction` and `Gate` say which slots are written and where the threads can
be in each phase of `new` and of `shutdown`; `OnlyLiveSlotsRead` follows.
`HandsFull` says what is at the bottom of each stack of bodies, and `DequeEmpty`
that whoever searches elsewhere has emptied its own deque: a worker that sleeps
has none. `HelperInv` counts the jobs of the helper. `Accounts` follows every job
from being fresh to an inbox or a queue to a hand, so that a job in the
host's inbox belongs to a scope the host is inside of, and a host that has left
has an empty inbox. The wake-up argument is in two parts. `QueueInv`: while the
shared queue is not empty, a publisher is before its `wake_one`, or some worker
will look at the queue before it sleeps. `ScanInv` with `AssignedWorkerWoken`: a
worker that holds the lock of sleepers and has passed its own inbox has nothing
in it, unless a publisher is before its own use of that lock. Both turn on the
lock: a scan that holds it excludes the removal of registrations. Most actions touch
few of these parts; lemmas on what an action leaves alone (`...Foot`, `...Keeps`)
dispose of the rest.

**InboxLocks.** `LockInv`: the locks a publisher holds are a prefix of the inboxes in
index order, so that of two publishers only one holds the first; `OnePublisher`
is a corollary. While a thread deals out jobs it holds every lock, so nothing
but its own steps changes an inbox. `SharesInv`: after n jobs the participants
whose turn in the round has come have q + 1 and the others q; `FairShares` is the
last round. `OnePlace` and `ClosureInv`: a job is in at most one place and its
closure is live exactly while it is; this needs `BodyInv` and `MadeInv`, that
no batch is begun twice and that a job exists only after the iterator gave it.
For the refinement `DealtInv` says that an inbox consists of what it had when it
was locked, followed by the jobs of this batch whose turn it is, in order; the end
of the iterator is the abstract publication, every other step of a publisher a
stutter, and a consumer takes the head of what is published.

**ScopeCalls.** `StackOK` relates adjacent frames of a thread: each call starts with the
identity the one around it gave. An identity that is not the thread's own comes
from a frame that holds a host slot, and `OwnerInv` says that a host slot is held
exactly by the thread with that frame; the two together give one owner per
deque, without a bound on the depth.

**SPMC ring.** A position is the number of values pushed before. As long as
fewer than `Wrap` values are pushed a cursor determines its position
(`PosFacts`), so that a CAS on the head that succeeds finds the position its
consumer read; this is where the hypothesis `MaxPush < Wrap` is used, and the
limit described in section 3 is what it excludes. `CursorInv` orders read,
claimed, shown and written positions within one capacity, `Disjoint` keeps claims
apart, and `Content` says that exactly the held positions are in the slots.
The values between the cursors are then consecutive numbers, and every step of
the ring is a step of `FifoQueue` or a stutter.

Model-checked only: liveness (`StealReturns`, `EveryPushRuns`, `ScopesReturn`,
`ShutdownJoins`, `PublicationsEnd`). Fairness and ENABLED are out of the prover's reach.

## 5. Plan

Written, in this order: `Cursors`, `WorkerQueue` with `WorkStealing`, the
proofs of the rings, `ThreadPool`, `Scope`, `ScopeCalls`, `QueueBatching`, `SpmcRing`;
then construction, nested scopes and the helper in `ThreadPool`, and `InboxLocks`
with `BatchInboxes` and `InlineFn`; then the proofs of `ScopeCalls`, `SpmcRing`,
`ThreadPool` and `InboxLocks`; last the contents of the deques' slots, with
`OnlyJobsTaken`, `JobsExactlyOnce` and the refinement `ImplementsWorkStealing`. What is
left is listed below.

### Not modelled

- Weak memory orderings: TLC has none; see the loom tests.
- `push` from inside a running job, and more than one thread outside that pushes.
  Jobs that submit jobs do so through scopes, by spawning or by a batch.
- An iterator of `run_batch` that uses the pool itself. Its thread holds every
  inbox lock and would wait for them; the documentation only asks that it does not
  wait for the jobs of its own batch. Listed as a hazard without a property.
- A pushed job that shares the ownership of the pool, and may then be the one that
  drops it: the worker would join itself. Listed as a hazard without a property.
- `MutexCondition`: every method forwards to one of std's; it has no control of
  its own, and nothing in the crate uses it.
- `CachePadded`, the sync shims and `FnBuffer`: layout. Thread priority: calls to
  the operating system. `Slots` and the random numbers: not used by the pool.
- The rounding of the configured sizes, Debug and Display.
