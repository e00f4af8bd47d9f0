----------------------------- MODULE ThreadPool -----------------------------
(***************************************************************************)
(* The pool above its deques (thread_pool/shared.rs, worker.rs, mod.rs):   *)
(* how it starts, how threads look for work, go to sleep and are woken,    *)
(* how scopes wait for their jobs, and how the pool shuts down.            *)
(*                                                                         *)
(* Threads 0..N-1 are the background workers, N is the host: the external  *)
(* thread that owns the host deque while it is inside a scope.  Two more   *)
(* threads use the pool from outside: the pusher calls ThreadPool::push,   *)
(* and the helper opens a scope while the host slot is taken.  A deque is  *)
(* the sequence of WorkStealing; a batch that left one queue and is not    *)
(* published in the next is in nobody's view but its carrier's.  A steal   *)
(* is one step: the attempt that fails (Steal::Busy) is in WorkerQueue.    *)
(*                                                                         *)
(* A body is what runs inside a scope: an external call of scope or        *)
(* run_batch, or a job.  A body that opens a scope spawns jobs one by one, *)
(* or hands one batch to run_batch, and then waits for them, running other *)
(* jobs on top of itself: each thread has a stack of bodies.               *)
(***************************************************************************)
EXTENDS Integers, Sequences, SequencesExt, FiniteSets, Subsequences

CONSTANTS
  N,            \* total_worker: the number of background threads
  Capacity,     \* slots of a deque
  Pushed,       \* jobs that the pusher hands to ThreadPool::push
  Calls,        \* the host's calls of scope and run_batch
  HelperCalls,  \* the helper's
  Spawns,       \* the jobs each body spawns in the scope it opens
  Batch,        \* the jobs each body hands to run_batch, in order
  NoThread

Bodies == DOMAIN Spawns
Jobs == Bodies \ (Calls \cup HelperCalls)
Kids(b) == Spawns[b] \cup Range(Batch[b])

\* A job is one closure: it is spawned once, or it is one job of one batch.
\* A pushed job cannot borrow the pool, and does not share its ownership; a job
\* that the helper runs and that opens a scope may take over the host slot
\* (ScopeCalls).
ASSUME PoolAssumption ==
  /\ N \in Nat \ {0} /\ Capacity \in Nat \ {0} /\ NoThread \notin Int
  /\ Calls \cup HelperCalls \subseteq Bodies /\ Pushed \subseteq Jobs
  /\ Batch \in [Bodies -> Seq(Jobs)]
  /\ \A b \in Bodies :
       /\ IsFiniteSet(Spawns[b])
       /\ \A i, j \in DOMAIN Batch[b] : Batch[b][i] = Batch[b][j] => i = j
       /\ \A c \in Bodies \ {b} : Kids(b) \cap Kids(c) = {}
  /\ \A b \in Bodies : Kids(b) \subseteq Jobs \ Pushed /\ (Spawns[b] = {} \/ Batch[b] = <<>>)
  /\ \A x \in Pushed : Kids(x) = {}
  /\ HelperCalls # {} => \A x \in Jobs : Kids(x) = {}

VARIABLES
  queue,      \* tasks: the shared queue
  deque,      \* the jobs of each deque, oldest first
  inbox,      \* the jobs of each inbox, as its cached length shows them
  flight,     \* the jobs each thread is moving into its deque
  hand,       \* the bodies each thread is inside of, the innermost last
  fresh,      \* jobs not yet submitted
  ran,        \* jobs that have run
  running,    \* is_running
  init,       \* init_completed
  slots,      \* the members whose WorkerSpec is written in `workers`
  sleepers,   \* indices of registered workers, under `lock`
  lock,       \* the holder of the lock of sleepers
  token,      \* the wake token of each worker's thread::park
  pc,         \* where each thread is
  at,         \* index of the thread's current loop, or the worker it wakes
  start       \* where each thread's round over the victims starts

work == <<queue, deque, inbox, flight, hand, fresh, ran>>
sleep == <<sleepers, lock, token>>
life == <<running, init, slots>>
vars == <<work, sleep, life, pc, at, start>>

Workers == 0..(N - 1)
Host == N
Members == 0..N              \* everybody who owns a deque and an inbox
Pusher == N + 1
Helper == N + 2
Finders == Members \cup {Helper}
Threads == 0..(N + 2)

Goto(t, p) == pc' = [pc EXCEPT ![t] = p] /\ UNCHANGED <<at, start>>
GotoAt(t, p, i) ==
  pc' = [pc EXCEPT ![t] = p] /\ at' = [at EXCEPT ![t] = i] /\ UNCHANGED start

\* A loop that starts over, or a round over the victims that begins at s.
Begin(t, p, s) ==
  /\ pc' = [pc EXCEPT ![t] = p]
  /\ at' = [at EXCEPT ![t] = 0]
  /\ start' = [start EXCEPT ![t] = s]

Init ==
  /\ queue = <<>>
  /\ deque = [t \in Finders |-> <<>>]
  /\ inbox = [t \in Finders |-> <<>>]
  /\ flight = [t \in Finders |-> <<>>]
  /\ hand = [t \in Finders |-> <<>>]
  /\ fresh = Jobs
  /\ ran = {}
  /\ running = TRUE
  /\ init = FALSE
  /\ slots = {}
  /\ sleepers = <<>>
  /\ lock = NoThread
  /\ token = [w \in Workers |-> FALSE]
  /\ pc = [t \in Threads |-> CASE t \in Workers -> "unborn"
                               [] t = Host      -> "new"
                               [] t = Pusher    -> "idle"
                               [] t = Helper    -> "outside"]
  /\ at = [t \in Threads |-> 0]
  /\ start = [t \in Finders |-> 0]
-----------------------------------------------------------------------------
(***************************************************************************)
(* ThreadPool::new: start the workers one after the other, each waiting in *)
(* its warm-up loop; write the slot of each, the host's last; then open    *)
(* the gate.  When a thread cannot be started the pool shuts down again.   *)
(***************************************************************************)
StartWorker ==
  /\ pc[Host] = "new" /\ at[Host] \in Workers
  /\ pc' = [pc EXCEPT ![Host] = "write", ![at[Host]] = "warmup"]
  /\ UNCHANGED <<work, sleep, life, at, start>>

WriteSlot ==
  /\ pc[Host] = "write"
  /\ slots' = slots \cup {at[Host]}
  /\ GotoAt(Host, "new", at[Host] + 1)
  /\ UNCHANGED <<work, sleep, running, init>>

StartFails ==
  /\ pc[Host] = "new" /\ at[Host] \in Workers
  /\ running' = FALSE
  /\ GotoAt(Host, "stopping", 0)
  /\ UNCHANGED <<work, sleep, init, slots>>

WriteHostSlot ==
  /\ pc[Host] = "new" /\ at[Host] = N
  /\ slots' = slots \cup {Host}
  /\ Goto(Host, "ready")
  /\ UNCHANGED <<work, sleep, running, init>>

InitCompleted ==
  /\ pc[Host] = "ready"
  /\ init' = TRUE
  /\ GotoAt(Host, "outside", 0)
  /\ UNCHANGED <<work, sleep, running, slots>>

WarmUpNoGate(w) ==                    \* mutant: does not wait for init_completed
  /\ pc[w] = "warmup"
  /\ Goto(w, IF running THEN "top" ELSE "exited")
  /\ UNCHANGED <<work, sleep, life>>

WarmUp(w) ==
  /\ pc[w] = "warmup" /\ (init \/ ~running)
  /\ Goto(w, IF running THEN "top" ELSE "exited")
  /\ UNCHANGED <<work, sleep, life>>

\* ThreadPool::new has returned the pool and nobody has dropped it.
Usable == running /\ pc[Host] \notin {"new", "write", "ready"}
-----------------------------------------------------------------------------
(***************************************************************************)
(* Publishing.  Whoever enqueues a job then calls wake_one: take the lock, *)
(* remove the oldest registration, release, unpark.                        *)
(***************************************************************************)
Push(x) ==
  /\ pc[Pusher] = "idle" /\ Usable
  /\ x \in fresh \cap Pushed
  /\ fresh' = fresh \ {x}
  /\ queue' = Append(queue, x)
  /\ Goto(Pusher, "wake")
  /\ UNCHANGED <<deque, inbox, flight, hand, ran, sleep, life>>

AfterWake(t) == IF t = Pusher THEN "idle" ELSE "scope"

WakeNobodyUnlocked(t) ==              \* mutant: trusts the cached length
  /\ pc[t] = "wake"
  /\ sleepers = <<>>
  /\ Goto(t, AfterWake(t))
  /\ UNCHANGED <<work, sleep, life>>

WakeNobody(t) ==
  /\ pc[t] = "wake" /\ lock = NoThread
  /\ sleepers = <<>>
  /\ Goto(t, AfterWake(t))
  /\ UNCHANGED <<work, sleep, life>>

WakeOne(t) ==
  /\ pc[t] = "wake" /\ lock = NoThread
  /\ sleepers # <<>>
  /\ sleepers' = Tail(sleepers)
  /\ GotoAt(t, "unpark", Head(sleepers))
  /\ UNCHANGED <<work, lock, token, life>>

Unpark(t) ==
  /\ pc[t] = "unpark"
  /\ token' = [token EXCEPT ![at[t]] = TRUE]
  /\ Goto(t, AfterWake(t))
  /\ UNCHANGED <<work, sleepers, lock, life>>

(***************************************************************************)
(* Scopes.  spawn pushes to the caller's deque, or to the shared queue     *)
(* when that is full or the caller is the helper; run_batch assigns its    *)
(* jobs round-robin to the inboxes, starting with the caller, while it     *)
(* holds every inbox lock, and releases them from the last to the first.   *)
(***************************************************************************)
EnterScope(c) ==
  /\ pc[Host] = "outside" /\ Usable
  /\ c \in Calls /\ Kids(c) \subseteq fresh
  /\ hand' = [hand EXCEPT ![Host] = <<c>>]
  /\ Goto(Host, "scope")
  /\ UNCHANGED <<queue, deque, inbox, flight, fresh, ran, sleep, life>>

\* host_owner.try_get fails: somebody is inside a scope with the host deque.
EnterAsHelper(c) ==
  /\ pc[Helper] = "outside" /\ Usable /\ pc[Host] # "outside"
  /\ c \in HelperCalls /\ Kids(c) \subseteq fresh
  /\ hand' = [hand EXCEPT ![Helper] = <<c>>]
  /\ Goto(Helper, "scope")
  /\ UNCHANGED <<queue, deque, inbox, flight, fresh, ran, sleep, life>>

Body(t) == Last(hand[t])

\* Thieves that have not released the slots they claimed may still fill the
\* ring of t, although its deque is empty.  Nobody steals from the helper.
SlotsHeld(t) == t # Helper /\ \E u \in Finders \ {t} : pc[u] = "publish"

Spawn(t, x) ==
  /\ pc[t] = "scope"
  /\ x \in fresh \cap Spawns[Body(t)]
  /\ fresh' = fresh \ {x}
  /\ \/ /\ t # Helper /\ Len(deque[t]) < Capacity
        /\ deque' = [deque EXCEPT ![t] = Append(@, x)] /\ UNCHANGED queue
     \/ /\ t = Helper \/ Len(deque[t]) = Capacity \/ SlotsHeld(t)
        /\ queue' = Append(queue, x) /\ UNCHANGED deque
  /\ Goto(t, "wake")
  /\ UNCHANGED <<inbox, flight, hand, ran, sleep, life>>

\* Job number i of a batch (from 0): the caller first, then the other workers;
\* the host only when it is the caller.
TargetOf(caller, i) ==
  LET participants == IF caller = Host THEN N + 1 ELSE N
      turn == i % participants
  IN  IF turn = 0 THEN caller ELSE IF turn <= caller THEN turn - 1 ELSE turn

\* The helper has no inbox: it starts with worker 0.
CallerIndex(t) == IF t = Helper THEN 0 ELSE t

Share(t, m) ==
  LET batch == Batch[Body(t)]
  IN  Pick(batch, {i \in DOMAIN batch : TargetOf(CallerIndex(t), i - 1) = m})

\* Inbox 0 is locked first and released last: one publisher at a time.
LockInboxes(t) ==
  /\ pc[t] = "scope"
  /\ Batch[Body(t)] # <<>> /\ Kids(Body(t)) \subseteq fresh
  /\ \A u \in Finders : pc[u] # "batch"
  /\ fresh' = fresh \ Kids(Body(t))
  /\ GotoAt(t, "batch", N)
  /\ UNCHANGED <<queue, deque, inbox, flight, hand, ran, sleep, life>>

InboxLocked(m) == \E u \in Finders : pc[u] = "batch" /\ m <= at[u]

ReleaseInbox(t) ==
  /\ pc[t] = "batch"
  /\ inbox' = [inbox EXCEPT ![at[t]] = @ \o Share(t, at[t])]
  /\ GotoAt(t, IF at[t] = 0 THEN "batch_wake" ELSE "batch", at[t] - 1)
  /\ UNCHANGED <<queue, deque, flight, hand, fresh, ran, sleep, life>>

WakeAssignedUnlocked(t) ==            \* mutant: does not wait for the lock
  LET told == {w \in Range(sleepers) : inbox[w] # <<>>} IN
  /\ pc[t] = "batch_wake"
  /\ sleepers' = Pick(sleepers, {i \in DOMAIN sleepers : sleepers[i] \notin told})
  /\ token' = [w \in Workers |-> token[w] \/ w \in told]
  /\ GotoAt(t, "scope", 0)
  /\ UNCHANGED <<work, lock, life>>

\* Unparks, under the lock, every registered worker whose inbox has a job.
WakeAssigned(t) ==
  LET told == {w \in Range(sleepers) : inbox[w] # <<>>} IN
  /\ pc[t] = "batch_wake" /\ lock = NoThread
  /\ sleepers' = Pick(sleepers, {i \in DOMAIN sleepers : sleepers[i] \notin told})
  /\ token' = [w \in Workers |-> token[w] \/ w \in told]
  /\ GotoAt(t, "scope", 0)
  /\ UNCHANGED <<work, lock, life>>

\* The closure of the scope returns and its thread starts run_until.
Wait(t) ==
  /\ pc[t] = "scope" /\ Kids(Body(t)) \cap fresh = {}
  /\ Goto(t, "top")
  /\ UNCHANGED <<work, sleep, life>>

\* Leaving the innermost body: a job is over, or the external call returns.
Leave(t) ==
  /\ ran' = ran \cup ({Body(t)} \cap Jobs)
  /\ hand' = [hand EXCEPT ![t] = Front(@)]
  /\ Begin(t, IF Body(t) \in Jobs THEN "top" ELSE "outside", 0)
  /\ UNCHANGED <<queue, deque, inbox, flight, fresh, sleep, life>>
-----------------------------------------------------------------------------
(***************************************************************************)
(* Looking for work: the main loop of Worker::update, and run_until.       *)
(***************************************************************************)
\* The latch of a scope counts the tickets of jobs that have not run, and one
\* for itself.
Remaining(b) == 1 + Cardinality(Kids(b) \ (fresh \cup ran))

CompletedAtZero(b) == Remaining(b) = 0     \* mutant

Completed(b) == Remaining(b) <= 1

LoopTop(w) ==
  /\ w \in Workers /\ pc[w] = "top" /\ hand[w] = <<>>
  /\ Goto(w, IF running THEN "look" ELSE "exited")
  /\ UNCHANGED <<work, sleep, life>>

\* run_until: the scope of the innermost body is what the thread waits for.
Until(t) ==
  /\ pc[t] = "top" /\ hand[t] # <<>>
  /\ ~Completed(Body(t))
  /\ Goto(t, "look")
  /\ UNCHANGED <<work, sleep, life>>

ScopeCompleted(t) ==
  /\ pc[t] = "top" /\ hand[t] # <<>>
  /\ Completed(Body(t))
  /\ Leave(t)

Take(t, x) == hand' = [hand EXCEPT ![t] = Append(@, x)] /\ Goto(t, "run")

\* pop_and_run_a_task: the own deque, newest first; then the own inbox.
PopOwn(t) ==
  /\ pc[t] \in {"look", "again"}
  /\ deque[t] # <<>>
  /\ deque' = [deque EXCEPT ![t] = Front(@)]
  /\ Take(t, Last(deque[t]))
  /\ UNCHANGED <<queue, inbox, flight, fresh, ran, sleep, life>>

PopInbox(t) ==
  /\ pc[t] \in {"look", "again"}
  /\ deque[t] = <<>> /\ inbox[t] # <<>> /\ ~InboxLocked(t)
  /\ inbox' = [inbox EXCEPT ![t] = Tail(@)]
  /\ Take(t, Head(inbox[t]))
  /\ UNCHANGED <<queue, deque, flight, fresh, ran, sleep, life>>

\* Nothing of its own: after the first look pull, after a transfer go on.
PopNothing(t) ==
  /\ pc[t] \in {"look", "again"}
  /\ deque[t] = <<>> /\ inbox[t] = <<>>
  /\ Goto(t, IF pc[t] = "look" THEN "pull" ELSE "steal")
  /\ UNCHANGED <<work, sleep, life>>

\* The length was read before the lock was taken: the batch may be shorter.
Pull(t, n, s) ==
  /\ pc[t] = "pull"
  /\ n <= Len(queue)
  /\ flight' = [flight EXCEPT ![t] = SubSeq(queue, 1, n)]
  /\ queue' = SubSeq(queue, n + 1, Len(queue))
  /\ Begin(t, "publish", s)
  /\ UNCHANGED <<deque, inbox, hand, fresh, ran, sleep, life>>

PullNothing(t, s) ==
  /\ pc[t] = "pull"
  /\ queue = <<>> \/ SlotsHeld(t)
  /\ Begin(t, "steal", s)
  /\ UNCHANGED <<work, sleep, life>>

PublishOnly(t) ==                     \* mutant: leaves the pop to the next round
  /\ pc[t] = "publish"
  /\ deque' = [deque EXCEPT ![t] = @ \o flight[t]]
  /\ flight' = [flight EXCEPT ![t] = <<>>]
  /\ Goto(t, "top")
  /\ UNCHANGED <<queue, inbox, hand, fresh, ran, sleep, life>>

Publish(t) ==
  /\ pc[t] = "publish"
  /\ deque' = [deque EXCEPT ![t] = @ \o flight[t]]
  /\ flight' = [flight EXCEPT ![t] = <<>>]
  /\ Goto(t, "again")
  /\ UNCHANGED <<queue, inbox, hand, fresh, ran, sleep, life>>

\* The round visits every member once; where it starts turns with the tick.
Victim(t) == (start[t] + at[t]) % (N + 1)
VisitsOneMore(t) == pc[t] = "steal" /\ at[t] \in 0..(N + 1)    \* mutant
Visits(t) == pc[t] = "steal" /\ at[t] \in Members

StealInbox(t) ==
  /\ Visits(t) /\ Victim(t) # t
  /\ inbox[Victim(t)] # <<>> /\ ~InboxLocked(Victim(t))
  /\ inbox' = [inbox EXCEPT ![Victim(t)] = Tail(@)]
  /\ Take(t, Head(inbox[Victim(t)]))
  /\ UNCHANGED <<queue, deque, flight, fresh, ran, sleep, life>>

StealDeque(t, n) ==
  LET v == Victim(t) IN
  /\ Visits(t) /\ v # t
  /\ n <= Len(deque[v])
  /\ flight' = [flight EXCEPT ![t] = SubSeq(deque[v], 1, n)]
  /\ deque' = [deque EXCEPT ![v] = SubSeq(@, n + 1, Len(@))]
  /\ GotoAt(t, "publish", at[t] + 1)
  /\ UNCHANGED <<queue, inbox, hand, fresh, ran, sleep, life>>

\* Nothing to run from this victim.  That is also so when the one try_get of its
\* inbox, or the one CAS on its anchor (Steal::Busy), lost to another thread:
\* then it is passed over with jobs in it.
NextVictim(t) ==
  /\ Visits(t)
  /\ GotoAt(t, "steal", at[t] + 1)
  /\ UNCHANGED <<work, sleep, life>>

GiveUpInScope(t) ==                   \* mutant: sleeps while a scope waits
  /\ pc[t] = "steal" /\ at[t] = N + 1
  /\ \/ Begin(t, "top", 0)
     \/ t \in Workers /\ Begin(t, "sleep", 0)
  /\ UNCHANGED <<work, sleep, life>>

\* Found nothing anywhere: snooze; the main loop sleeps once the backoff has
\* run its course, run_until never does.
GiveUp(t) ==
  /\ pc[t] = "steal" /\ at[t] = N + 1
  /\ \/ Begin(t, "top", 0)
     \/ t \in Workers /\ hand[t] = <<>> /\ Begin(t, "sleep", 0)
  /\ UNCHANGED <<work, sleep, life>>

\* The job runs to its end, or to the scope it opens.
Run(t) ==
  /\ pc[t] = "run" /\ Kids(Body(t)) = {}
  /\ Leave(t)

OpenScope(t) ==
  /\ pc[t] = "run" /\ Kids(Body(t)) # {}
  /\ Goto(t, "scope")
  /\ UNCHANGED <<work, sleep, life>>
-----------------------------------------------------------------------------
(***************************************************************************)
(* sleep_if_idle: under the lock of sleepers look at everything once more, *)
(* queue by queue, and register; then park without the lock.               *)
(***************************************************************************)
LockSleepers(w) ==
  /\ pc[w] = "sleep" /\ lock = NoThread
  /\ lock' = w
  /\ GotoAt(w, "check", 0)
  /\ UNCHANGED <<work, sleepers, token, life>>

WorkSeen(w) ==
  /\ \/ pc[w] = "check" /\ (~running \/ queue # <<>>)
     \/ pc[w] = "scan" /\ at[w] \in Members /\ (deque[at[w]] # <<>> \/ inbox[at[w]] # <<>>)
  /\ lock' = NoThread
  /\ GotoAt(w, "top", 0)
  /\ UNCHANGED <<work, sleepers, token, life>>

ScanDequesOnly(w) ==                  \* mutant: forgets the shared queue
  /\ \/ pc[w] = "check" /\ running /\ GotoAt(w, "scan", 0)
     \/ /\ pc[w] = "scan" /\ at[w] \in Members
        /\ deque[at[w]] = <<>> /\ inbox[at[w]] = <<>>
        /\ GotoAt(w, "scan", at[w] + 1)
  /\ UNCHANGED <<work, sleep, life>>

ScanNext(w) ==
  /\ \/ pc[w] = "check" /\ running /\ queue = <<>> /\ GotoAt(w, "scan", 0)
     \/ /\ pc[w] = "scan" /\ at[w] \in Members
        /\ deque[at[w]] = <<>> /\ inbox[at[w]] = <<>>
        /\ GotoAt(w, "scan", at[w] + 1)
  /\ UNCHANGED <<work, sleep, life>>

Register(w) ==
  /\ pc[w] = "scan" /\ at[w] = N + 1
  /\ sleepers' = Append(sleepers, w)
  /\ lock' = NoThread
  /\ GotoAt(w, "park", 0)
  /\ UNCHANGED <<work, token, life>>

Awake(w) ==
  /\ pc[w] = "park" /\ token[w]
  /\ token' = [token EXCEPT ![w] = FALSE]
  /\ Goto(w, "unregister")
  /\ UNCHANGED <<work, sleepers, lock, life>>

\* thread::park may return without a token.
SpuriousWake(w) ==
  /\ pc[w] = "park"
  /\ Goto(w, "unregister")
  /\ UNCHANGED <<work, sleep, life>>

KeepRegistration(w) ==                \* mutant: no retain after park
  /\ pc[w] = "unregister" /\ lock = NoThread
  /\ Goto(w, "top")
  /\ UNCHANGED <<work, sleep, life>>

UnregisterOthers(w) ==                \* mutant: the retain inverted
  /\ pc[w] = "unregister" /\ lock = NoThread
  /\ sleepers' = Pick(sleepers, {i \in DOMAIN sleepers : sleepers[i] = w})
  /\ Goto(w, "top")
  /\ UNCHANGED <<work, lock, token, life>>

Unregister(w) ==
  /\ pc[w] = "unregister" /\ lock = NoThread
  /\ sleepers' = Pick(sleepers, {i \in DOMAIN sleepers : sleepers[i] # w})
  /\ Goto(w, "top")
  /\ UNCHANGED <<work, lock, token, life>>
-----------------------------------------------------------------------------
\* Drop for ThreadPool: nobody borrows the pool any more.
Stop ==
  /\ pc[Host] = "outside" /\ pc[Helper] = "outside" /\ pc[Pusher] = "idle" /\ running
  /\ running' = FALSE
  /\ GotoAt(Host, "stopping", 0)
  /\ UNCHANGED <<work, sleep, init, slots>>

\* The threads ThreadPool::new has started.
Handles == {w \in Workers : pc[w] # "unborn"}

StopUnparkSleepers ==                 \* mutant: only who is registered now
  /\ pc[Host] = "stopping" /\ at[Host] \in Handles
  /\ token' = [token EXCEPT ![at[Host]] = @ \/ at[Host] \in Range(sleepers)]
  /\ GotoAt(Host, "stopping", at[Host] + 1)
  /\ UNCHANGED <<work, sleepers, lock, life>>

StopUnpark ==
  /\ pc[Host] = "stopping" /\ at[Host] \in Handles
  /\ token' = [token EXCEPT ![at[Host]] = TRUE]
  /\ GotoAt(Host, "stopping", at[Host] + 1)
  /\ UNCHANGED <<work, sleepers, lock, life>>

Join ==
  /\ pc[Host] = "stopping" /\ at[Host] = Cardinality(Handles)
  /\ \A w \in Handles : pc[w] = "exited"
  /\ slots' = {}
  /\ Goto(Host, "dropped")
  /\ UNCHANGED <<work, sleep, running, init>>

Dropped == pc[Host] = "dropped" /\ UNCHANGED vars
-----------------------------------------------------------------------------
\* The private deque of the helper has one slot.
CapacityOf(t) == IF t = Helper THEN 1 ELSE Capacity

\* What a thread does by itself once it looks for work.
Search(t) ==
  \/ LoopTop(t) \/ Until(t) \/ ScopeCompleted(t)
  \/ PopOwn(t) \/ PopInbox(t) \/ PopNothing(t)
  \/ \E n \in 1..CapacityOf(t), s \in Members : Pull(t, n, s)
  \/ \E n \in 1..CapacityOf(t) : StealDeque(t, n)
  \/ \E s \in Members : PullNothing(t, s)
  \/ Publish(t)
  \/ StealInbox(t) \/ NextVictim(t) \/ GiveUp(t) \/ Run(t)

Sleep(w) ==
  WarmUp(w) \/ LockSleepers(w) \/ WorkSeen(w) \/ ScanNext(w) \/ Register(w)
  \/ Awake(w) \/ Unregister(w)

Wake(t) == WakeNobody(t) \/ WakeOne(t) \/ Unpark(t)

\* What the closure of a scope does.
InScope(t) ==
  \/ OpenScope(t) \/ LockInboxes(t) \/ ReleaseInbox(t) \/ WakeAssigned(t) \/ Wait(t)
  \/ \E x \in Jobs : Spawn(t, x)

New == StartWorker \/ WriteSlot \/ StartFails \/ WriteHostSlot \/ InitCompleted

\* What a thread that is inside the pool goes on to do.
Step(t) ==
  \/ Wake(t)
  \/ t \in Finders /\ (Search(t) \/ InScope(t))
  \/ t \in Workers /\ Sleep(t)

Next ==
  \/ \E t \in Threads : Step(t)
  \/ \E w \in Workers : SpuriousWake(w)
  \/ \E x \in Pushed : Push(x)
  \/ \E c \in Calls : EnterScope(c)
  \/ \E c \in HelperCalls : EnterAsHelper(c)
  \/ New
  \/ Stop \/ StopUnpark \/ Join \/ Dropped

Spec == Init /\ [][Next]_vars
-----------------------------------------------------------------------------
ScopePCs == {"top", "look", "pull", "publish", "again", "steal", "run", "scope", "wake",
             "unpark", "batch", "batch_wake"}
WorkerPCs == ScopePCs \cup {"unborn", "warmup", "sleep", "check", "scan", "park",
                            "unregister", "exited"}
HostPCs == ScopePCs \cup {"new", "write", "ready", "outside", "stopping", "dropped"}

\* Every thread is at one of its own places, no loop runs past the last member,
\* and the lock of sleepers is held by the worker that checks for work.
TypeOK ==
  /\ queue \in Seq(Jobs)
  /\ deque \in [Finders -> Seq(Jobs)]
  /\ inbox \in [Finders -> Seq(Jobs)]
  /\ flight \in [Finders -> Seq(Jobs)]
  /\ hand \in [Finders -> Seq(Bodies)]
  /\ fresh \subseteq Jobs /\ ran \subseteq Jobs
  /\ running \in BOOLEAN /\ init \in BOOLEAN /\ slots \subseteq Members
  /\ sleepers \in Seq(Workers)
  /\ lock \in Workers \cup {NoThread}
  /\ token \in [Workers -> BOOLEAN]
  /\ \A w \in Workers : /\ pc[w] \in WorkerPCs
                         /\ (lock = w) <=> pc[w] \in {"check", "scan"}
  /\ pc[Host] \in HostPCs
  /\ pc[Pusher] \in {"idle", "wake", "unpark"}
  /\ pc[Helper] \in ScopePCs \cup {"outside"}
  /\ \A t \in Threads : at[t] \in -1..(N + 1)
  /\ start \in [Finders -> Members]

\* The slots that the next step of a thread reads with FixedBuffer::get_at.
Reads(t) ==
  CASE pc[t] = "steal"      -> {Victim(t)} \ {t}
    [] pc[t] = "scan"       -> {at[t]} \cap Members
    [] pc[t] = "unpark"     -> {at[t]}
    [] pc[t] = "scope"      -> {t} \ {Helper}
    [] pc[t] = "batch"      -> 0..at[t]
    [] pc[t] = "batch_wake" -> Range(sleepers)
    [] OTHER                -> {}

(***************************************************************************)
(* FixedBuffer::get_at does not look whether a slot is written: whoever    *)
(* steals from a member, scans it, unparks it or assigns jobs to it does   *)
(* so after ThreadPool::new wrote its slot and before shutdown drops it,   *)
(* also when new fails half-way.                                           *)
(***************************************************************************)
OnlyLiveSlotsRead == \A t \in Threads : Reads(t) \subseteq slots

\* A worker that nothing is about to wake.
Asleep(w) == pc[w] = "park" /\ ~token[w]

\* Everybody sleeps, and nobody outside is using the pool.
Quiet ==
  /\ \A w \in Workers : Asleep(w)
  /\ pc[Host] = "outside" /\ pc[Helper] = "outside" /\ pc[Pusher] = "idle"

\* Jobs that were submitted and that nobody is running.
Waiting == UNION {Range(s) : s \in {queue} \cup Range(deque) \cup Range(inbox) \cup Range(flight)}

(***************************************************************************)
(* wake_one and sleep_if_idle never leave a job behind: when every worker  *)
(* sleeps, nobody is publishing and nobody is in a scope, no job is        *)
(* waiting anywhere in the pool.                                           *)
(***************************************************************************)
NoJobStranded == Quiet => Waiting = {}

(***************************************************************************)
(* What sleep_if_idle does guarantee: the only jobs that can be left, with *)
(* everybody asleep and nobody publishing, are those the host pulled into  *)
(* its own deque while it waited in run_until.  No job is left in the      *)
(* shared queue, in an inbox, on its way, or in a worker's deque.          *)
(***************************************************************************)
OnlyHostLeavesJobs == Quiet => Waiting \subseteq Range(deque[Host])

(***************************************************************************)
(* ThreadPool::scope says of the private deque of a caller without the     *)
(* host slot that "it cannot leave inaccessible jobs behind": whatever the *)
(* helper pulled or stole, it has run when its scope returns.              *)
(***************************************************************************)
HelperLeavesNothing ==
  pc[Helper] = "outside" => deque[Helper] = <<>> /\ flight[Helper] = <<>>

(***************************************************************************)
(* A worker that sleeps can be woken: its registration is there for the    *)
(* next publisher, or a publisher has taken it and is about to unpark.     *)
(***************************************************************************)
SleeperReachable ==
  \A w \in Workers : Asleep(w) =>
    \/ w \in Range(sleepers)
    \/ \E t \in Threads : pc[t] = "unpark" /\ at[t] = w

(***************************************************************************)
(* A worker is registered at most once, and only between registering and   *)
(* removing itself again: no wake-up is spent on a worker that is awake    *)
(* and will go to sleep without looking.                                   *)
(***************************************************************************)
RegistrationsCurrent ==
  /\ \A i, j \in DOMAIN sleepers : sleepers[i] = sleepers[j] => i = j
  /\ \A w \in Range(sleepers) : pc[w] \in {"park", "unregister"}

(***************************************************************************)
(* publish_batch wakes the workers it assigned jobs to: a worker sleeps on *)
(* a filled inbox only while a batch is being published, or while a        *)
(* publisher that took its registration is about to unpark it.             *)
(***************************************************************************)
AssignedWorkerWoken ==
  \A w \in Workers : Asleep(w) /\ inbox[w] # <<>> =>
    \/ \E t \in Finders : pc[t] \in {"batch", "batch_wake"}
    \/ \E t \in Threads : pc[t] = "unpark" /\ at[t] = w

\* A thread that has work, or is asked to look, keeps running, and a closure
\* returns; a publisher that has enqueued goes on to wake somebody.  Nothing is
\* assumed about new pushes, new scopes, or the end of the program.
Fairness ==
  /\ \A t \in Threads : WF_vars(Step(t))
  /\ WF_vars(StopUnpark \/ Join)

\* A thread is not overtaken forever by a thief between filling its deque and
\* popping from it.
Undisturbed == \A t \in Members : SF_vars(PopOwn(t))

\* thread::park does not keep returning for no reason.  The lock of sleepers is
\* a spin lock without a queue: a worker that is woken again and again could
\* keep it from a publisher forever.
Calm == <>[][\A w \in Workers : ~SpuriousWake(w)]_vars

\* What a round would pass over also if nobody interfered.
NothingToTake(t) ==
  \/ Victim(t) = t
  \/ /\ deque[Victim(t)] = <<>> \/ SlotsHeld(t)
     /\ inbox[Victim(t)] = <<>> \/ InboxLocked(Victim(t))

\* The strong CAS of a steal and the try_get of an inbox only fail when another
\* thread has just moved a job there, which does not go on forever.
RacesEnd == <>[][\A t \in Finders : NextVictim(t) => NothingToTake(t)]_vars

FairSpec == Spec /\ Fairness /\ Undisturbed /\ Calm /\ RacesEnd

(***************************************************************************)
(* ThreadPool::push: a pushed job runs, unless the pool is dropped before, *)
(* or a host that waited in run_until pulled the job and left it behind.   *)
(***************************************************************************)
EveryPushRuns ==
  \A x \in Pushed : (x \notin fresh) ~>
    \/ x \in ran \/ ~running
    \/ pc[Host] = "outside" /\ x \in Range(deque[Host])

(***************************************************************************)
(* ThreadPool::scope and run_batch return, on every thread and at every    *)
(* depth: a thread that waits for the jobs of its scopes, with other jobs  *)
(* running on top of each other, leaves all of them in the end.            *)
(***************************************************************************)
ScopesReturn == \A t \in Finders : (hand[t] # <<>>) ~> (hand[t] = <<>>)

(***************************************************************************)
(* Drop, and a ThreadPool::new that fails, join every worker they started, *)
(* also one that is warming up or just going to sleep.                     *)
(***************************************************************************)
ShutdownJoins == (pc[Host] = "stopping") ~> (pc[Host] = "dropped")
=============================================================================
