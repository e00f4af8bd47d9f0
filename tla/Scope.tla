-------------------------------- MODULE Scope --------------------------------
(***************************************************************************)
(* One call of ThreadPool::scope (thread_pool/mod.rs, scope.rs,            *)
(* utils/latch.rs): the closure hands out jobs that borrow the caller's    *)
(* stack frame, each with a ticket of the latch; the caller waits for all  *)
(* tickets, then takes the recorded panic and returns or unwinds.          *)
(*                                                                         *)
(* Which thread runs a job, and when, is ThreadPool's matter: here any     *)
(* queued job may begin at any time.  A panic's payload is the job that    *)
(* panicked.                                                               *)
(***************************************************************************)
EXTENDS Integers, FiniteSets

CONSTANTS Jobs, NoJob

ASSUME ScopeAssumption == IsFiniteSet(Jobs) /\ NoJob \notin Jobs

VARIABLES
  remaining,   \* Latch::remaining
  canceled,    \* Latch::canceled
  cell,        \* Scope::panic: the payload kept, or NoJob
  cellLock,    \* the job that holds the spin lock of the cell, or NoJob
  job,         \* where each job is
  host,        \* where the caller of scope is
  outcome,     \* what the caller got: "value", "closure_panic", "job_panic"
  finished,    \* jobs whose function returned
  panicked     \* jobs whose function panicked

latch == <<remaining, canceled>>
panic == <<cell, cellLock>>
ends == <<finished, panicked>>
vars == <<latch, panic, job, host, outcome, ends>>

Init ==
  /\ remaining = 1
  /\ canceled = FALSE
  /\ cell = NoJob
  /\ cellLock = NoJob
  /\ job = [j \in Jobs |-> "none"]
  /\ host \in {"closure", "batch"}     \* scope, or the scope of run_batch
  /\ outcome = "value"
  /\ finished = {}
  /\ panicked = {}
-----------------------------------------------------------------------------
(***************************************************************************)
(* The closure of the scope.                                               *)
(***************************************************************************)
SpawnLateTicket(j) ==                 \* mutant: the job takes its own ticket
  /\ host = "closure" /\ job[j] = "none"
  /\ job' = [job EXCEPT ![j] = "queued"]
  /\ UNCHANGED <<latch, panic, host, outcome, ends>>

Spawn(j) ==
  /\ host = "closure" /\ job[j] = "none"
  /\ remaining' = remaining + 1
  /\ job' = [job EXCEPT ![j] = "queued"]
  /\ UNCHANGED <<canceled, panic, host, outcome, ends>>

\* run_batch: the iterator makes a job; it lies in a locked inbox.
Collect(j) ==
  /\ host = "batch" /\ job[j] = "none"
  /\ remaining' = remaining + 1
  /\ job' = [job EXCEPT ![j] = "held"]
  /\ UNCHANGED <<canceled, panic, host, outcome, ends>>

Held == {j \in Jobs : job[j] = "held"}

\* The iterator is exhausted: every inbox is released and the closure returns.
BatchPublished ==
  /\ host = "batch"
  /\ job' = [j \in Jobs |-> IF j \in Held THEN "queued" ELSE job[j]]
  /\ host' = "wait"
  /\ UNCHANGED <<latch, panic, outcome, ends>>

\* The iterator panics: the jobs of this batch are truncated, which drops their
\* tickets, and the panic goes on through the closure.
BatchFails ==
  /\ host = "batch"
  /\ job' = [j \in Jobs |-> IF j \in Held THEN "dropped" ELSE job[j]]
  /\ remaining' = remaining - Cardinality(Held)
  /\ host' = "cancel" /\ outcome' = "closure_panic"
  /\ UNCHANGED <<canceled, panic, ends>>

ClosureReturns ==
  /\ host = "closure"
  /\ host' = "wait"
  /\ UNCHANGED <<latch, panic, job, outcome, ends>>

ClosurePanics ==
  /\ host = "closure"
  /\ host' = "cancel" /\ outcome' = "closure_panic"
  /\ UNCHANGED <<latch, panic, job, ends>>

\* The CAS is tried until the flag is set; only Cancel sets it.
cas_cancel == canceled' = TRUE

Cancel ==
  /\ host = "cancel"
  /\ cas_cancel
  /\ host' = "wait"
  /\ UNCHANGED <<remaining, panic, job, outcome, ends>>

CompletedEarly == remaining <= 2      \* mutant
Completed == remaining <= 1

\* run_until is over.
Drained ==
  /\ host = "wait" /\ Completed
  /\ host' = "drained"
  /\ UNCHANGED <<latch, panic, job, outcome, ends>>

\* take_panic, then return the value or resume the panic.
TakePanic ==
  /\ host = "drained" /\ cellLock = NoJob
  /\ outcome' = IF outcome = "value" /\ cell # NoJob THEN "job_panic" ELSE outcome
  /\ cell' = NoJob
  /\ host' = "returned"
  /\ UNCHANGED <<latch, cellLock, job, ends>>
-----------------------------------------------------------------------------
(***************************************************************************)
(* A job, on whatever thread runs it.                                      *)
(***************************************************************************)
Goto(j, s) == job' = [job EXCEPT ![j] = s]

Begin(j) ==
  /\ job[j] = "queued"
  /\ Goto(j, IF canceled THEN "release" ELSE "running")
  /\ UNCHANGED <<latch, panic, host, outcome, ends>>

Finish(j) ==
  /\ job[j] = "running"
  /\ finished' = finished \cup {j}
  /\ Goto(j, "release")
  /\ UNCHANGED <<latch, panic, host, outcome, panicked>>

Panic(j) ==
  /\ job[j] = "running"
  /\ panicked' = panicked \cup {j}
  /\ Goto(j, "record")
  /\ UNCHANGED <<latch, panic, host, outcome, finished>>

\* record_panic: one attempt at the lock of the cell, the first payload stays.
LockCell(j) ==
  /\ job[j] = "record" /\ cellLock = NoJob
  /\ cellLock' = j
  /\ Goto(j, "store")
  /\ UNCHANGED <<latch, cell, host, outcome, ends>>

CellBusy(j) ==
  /\ job[j] = "record" /\ cellLock # NoJob
  /\ Goto(j, "release")
  /\ UNCHANGED <<latch, panic, host, outcome, ends>>

StoreIfSome(j) ==                     \* mutant: the test of the cell inverted
  /\ job[j] = "store"
  /\ cell' = IF cell # NoJob THEN j ELSE cell
  /\ cellLock' = NoJob
  /\ Goto(j, "release")
  /\ UNCHANGED <<latch, host, outcome, ends>>

Store(j) ==
  /\ job[j] = "store"
  /\ cell' = IF cell = NoJob THEN j ELSE cell
  /\ cellLock' = NoJob
  /\ Goto(j, "release")
  /\ UNCHANGED <<latch, host, outcome, ends>>

\* Drop for LatchTicket: the last time the job touches the scope.
Release(j) ==
  /\ job[j] = "release"
  /\ remaining' = remaining - 1
  /\ Goto(j, "done")
  /\ UNCHANGED <<canceled, panic, host, outcome, ends>>

Returned == host = "returned" /\ UNCHANGED vars

HostNext ==
  \/ \E j \in Jobs : Spawn(j) \/ Collect(j)
  \/ BatchPublished \/ BatchFails \/ ClosureReturns \/ ClosurePanics
  \/ Cancel \/ Drained \/ TakePanic \/ Returned

JobNext(j) ==
  Begin(j) \/ Finish(j) \/ Panic(j) \/ LockCell(j) \/ CellBusy(j) \/ Store(j)
  \/ Release(j)

Next == HostNext \/ \E j \in Jobs : JobNext(j)

Spec == Init /\ [][Next]_vars
-----------------------------------------------------------------------------
Borrowing == {"held", "queued", "running", "record", "store", "release"}
JobStates == Borrowing \cup {"none", "dropped", "done"}
HostStates == {"closure", "batch", "cancel", "wait", "drained", "returned"}

\* The latch never counts below its own one.
TypeOK ==
  /\ remaining \in Nat \ {0}
  /\ canceled \in BOOLEAN
  /\ cell \in Jobs \cup {NoJob}
  /\ cellLock \in Jobs \cup {NoJob}
  /\ job \in [Jobs -> JobStates]
  /\ host \in HostStates
  /\ outcome \in {"value", "closure_panic", "job_panic"}
  /\ finished \subseteq Jobs
  /\ panicked \subseteq Jobs

(***************************************************************************)
(* ThreadPool::scope borrows until every job has let go: once the caller   *)
(* is past run_until, no job is waiting, running, or still touching the    *)
(* latch or the panic cell, also when the closure or the batch's iterator  *)
(* panicked.                                                               *)
(***************************************************************************)
ScopeOutlivesJobs ==
  host \in {"drained", "returned"} => \A j \in Jobs : job[j] \notin Borrowing

(***************************************************************************)
(* scope returns its closure's value only when all went well: every job it *)
(* was given has run to its end, none was skipped, and no panic was lost   *)
(* to the single attempt at the lock of the panic cell (record_panic).     *)
(***************************************************************************)
ValueMeansAllFinished ==
  host = "returned" /\ outcome = "value" =>
    panicked = {} /\ \A j \in Jobs : job[j] = "none" \/ j \in finished
-----------------------------------------------------------------------------
Tickets == {j \in Jobs : job[j] \in Borrowing}

\* The latch counts the tickets, and one for the scope itself.
CountInv ==
  /\ remaining = 1 + Cardinality(Tickets)
  /\ host \in {"drained", "returned"} => Tickets = {}

\* How far the caller is decides what it can end with.
HostInv ==
  /\ Held # {} => host = "batch"
  /\ canceled => outcome = "closure_panic"
  /\ host \in {"closure", "batch"} => outcome = "value"
  /\ host = "cancel" => outcome = "closure_panic"
  /\ outcome = "job_panic" => host = "returned"
  /\ \A j \in Jobs : job[j] = "dropped" => outcome = "closure_panic"

\* A panic is in the cell or on its way there: a job that gives up on the lock
\* leaves one behind that holds it.
PanicInv ==
  /\ \A j \in Jobs : cellLock = j <=> job[j] = "store"
  /\ \A j \in Jobs : job[j] \in {"record", "store"} => j \in panicked
  /\ panicked # {} =>
       \/ host = "returned" /\ outcome # "value"
       \/ host # "returned" /\ cell # NoJob
       \/ \E j \in Jobs : job[j] \in {"record", "store"}
  /\ \A j \in Jobs : job[j] \in {"release", "done"} =>
                       canceled \/ j \in finished \cup panicked

(***************************************************************************)
(* The inductive invariant behind ScopeOutlivesJobs and                    *)
(* ValueMeansAllFinished.                                                  *)
(***************************************************************************)
ScopeInv == TypeOK /\ CountInv /\ HostInv /\ PanicInv
=============================================================================
