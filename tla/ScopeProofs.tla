---------------------------- MODULE ScopeProofs ----------------------------
(***************************************************************************)
(* Proofs about one scope: the borrow is safe and no panic is lost,        *)
(* whatever the number of jobs.                                            *)
(***************************************************************************)
EXTENDS Scope, FiniteSetTheorems, TLAPS

\* The tickets handed out are finitely many, so the latch can count them.
LEMMA FiniteTickets ==
  ASSUME NEW S \in SUBSET Jobs
  PROVE  IsFiniteSet(S) /\ Cardinality(S) \in Nat
BY ScopeAssumption, FS_Subset, FS_CardinalityType

\* Latch::ticket and the drop of a ticket move the count by one.
LEMMA OneTicket ==
  ASSUME NEW S \in SUBSET Jobs, NEW j \in Jobs
  PROVE  /\ j \notin S => Cardinality(S \cup {j}) = Cardinality(S) + 1
         /\ j \in S => Cardinality(S \ {j}) = Cardinality(S) - 1
BY FiniteTickets, FS_AddElement, FS_RemoveElement

\* A count of one means that no ticket is out.
LEMMA NoTickets ==
  ASSUME NEW S \in SUBSET Jobs
  PROVE  1 + Cardinality(S) <= 1 <=> S = {}
BY FiniteTickets, FS_EmptySet

\* The caller has not given out anything when scope begins.
LEMMA InitInv == Init => ScopeInv
<1> SUFFICES ASSUME Init PROVE ScopeInv
  OBVIOUS
<1>1. Tickets = {} /\ Held = {}
  BY DEF Init, Tickets, Held, Borrowing
<1>2. Cardinality(Tickets) = 0
  BY <1>1, FS_EmptySet
<1>3. TypeOK
  <2>1. canceled \in BOOLEAN
    BY Zenon DEF Init
  <2> QED
    BY <2>1 DEF Init, TypeOK, JobStates, Borrowing, HostStates
<1>4. CountInv /\ HostInv
  BY <1>1, <1>2 DEF Init, CountInv, HostInv
<1>5. PanicInv
  BY ScopeAssumption DEF Init, PanicInv
<1> QED
  BY <1>3, <1>4, <1>5 DEF ScopeInv

\* The latch keeps counting the tickets, and past run_until there are none.
LEMMA CountStep == ScopeInv /\ Next => CountInv'
<1> SUFFICES ASSUME ScopeInv, Next PROVE CountInv'
  OBVIOUS
<1> USE DEF ScopeInv
<1>0. Tickets \in SUBSET Jobs /\ Held \in SUBSET Jobs
  BY DEF Tickets, Held
<1>1. ASSUME NEW j \in Jobs, Spawn(j) \/ Collect(j) PROVE CountInv'
  <2>1. Tickets' = Tickets \cup {j} /\ j \notin Tickets
    BY <1>1 DEF Spawn, Collect, TypeOK, Tickets, Borrowing
  <2>2. remaining' = remaining + 1 /\ host' = host /\ host \in {"closure", "batch"}
    BY <1>1 DEF Spawn, Collect
  <2> QED
    BY <1>0, <2>1, <2>2, OneTicket, FiniteTickets DEF CountInv
<1>2. CASE BatchPublished
  <2>1. Tickets' = Tickets
    BY <1>2 DEF BatchPublished, Tickets, Held, Borrowing, TypeOK
  <2> QED
    BY <1>2, <2>1 DEF BatchPublished, CountInv, latch
<1>3. CASE BatchFails
  <2>1. Tickets' = Tickets \ Held /\ Held \subseteq Tickets
    BY <1>3 DEF BatchFails, Tickets, Held, Borrowing, TypeOK
  <2>2. Cardinality(Tickets \ Held) = Cardinality(Tickets) - Cardinality(Held)
    BY <1>0, <2>1, FiniteTickets, FS_Difference, Tickets \cap Held = Held
  <2> QED
    BY <1>0, <1>3, <2>1, <2>2, FiniteTickets DEF BatchFails, CountInv
<1>4. CASE ClosureReturns \/ ClosurePanics \/ Cancel
  BY <1>4 DEF ClosureReturns, ClosurePanics, Cancel, cas_cancel, CountInv, Tickets, latch
<1>5. CASE Drained
  <2>1. Tickets = {}
    BY <1>0, <1>5, NoTickets DEF Drained, Completed, CountInv
  <2> QED
    BY <1>5, <2>1 DEF Drained, CountInv, Tickets, latch
<1>6. CASE TakePanic \/ Returned
  BY <1>6 DEF TakePanic, Returned, CountInv, Tickets, latch, vars
<1>7. ASSUME NEW j \in Jobs, Begin(j) \/ Finish(j) \/ Panic(j)
                             \/ LockCell(j) \/ CellBusy(j) \/ Store(j)
      PROVE  CountInv'
  <2>1. Tickets' = Tickets
    BY <1>7 DEF Begin, Finish, Panic, LockCell, CellBusy, Store, Goto, Tickets, Borrowing, TypeOK
  <2>2. remaining' = remaining /\ host' = host
    BY <1>7 DEF Begin, Finish, Panic, LockCell, CellBusy, Store, latch
  <2> QED
    BY <2>1, <2>2 DEF CountInv
<1>8. ASSUME NEW j \in Jobs, Release(j) PROVE CountInv'
  <2>1. Tickets' = Tickets \ {j} /\ j \in Tickets
    BY <1>8 DEF Release, Goto, Tickets, Borrowing, TypeOK
  <2>2. remaining' = remaining - 1 /\ host' = host
    BY <1>8 DEF Release
  <2> QED
    BY <1>0, <2>1, <2>2, OneTicket, FiniteTickets DEF CountInv
<1> QED
  BY <1>1, <1>2, <1>3, <1>4, <1>5, <1>6, <1>7, <1>8 DEF Next, HostNext, JobNext

\* The variables keep their types; the latch stays above zero because the next
\* state counts its tickets too.
LEMMA TypeStep == ScopeInv /\ Next => TypeOK'
<1> SUFFICES ASSUME ScopeInv, Next PROVE TypeOK'
  OBVIOUS
<1> USE DEF ScopeInv
<1>1. remaining' \in Nat \ {0}
  <2>1. Tickets' \in SUBSET Jobs
    BY DEF Tickets
  <2> QED
    BY <2>1, CountStep, FiniteTickets DEF CountInv
<1>2. canceled' \in BOOLEAN
  <2>1. canceled' = canceled \/ canceled' = TRUE
    BY DEF Next, HostNext, JobNext, Spawn, Collect, BatchPublished, BatchFails,
           ClosureReturns, ClosurePanics, Cancel, cas_cancel, Drained, TakePanic, Returned, Begin,
           Finish, Panic, LockCell, CellBusy, Store, Release, latch, vars
  <2> QED
    BY <2>1, Zenon DEF TypeOK
<1>3. ASSUME NEW j \in Jobs, Spawn(j) \/ Collect(j) \/ JobNext(j)
      PROVE  TypeOK'
  BY <1>1, <1>2, <1>3
     DEF TypeOK, Spawn, Collect, JobNext, Begin, Finish, Panic, LockCell, CellBusy, Store,
         Release, Goto, JobStates, Borrowing, HostStates, latch, panic, ends
<1>4. CASE BatchPublished \/ BatchFails
  BY <1>1, <1>2, <1>4
     DEF TypeOK, BatchPublished, BatchFails, JobStates, Borrowing, HostStates, latch, panic, ends
<1>5. CASE ClosureReturns \/ ClosurePanics \/ Cancel \/ Drained \/ TakePanic \/ Returned
  BY <1>1, <1>2, <1>5
     DEF TypeOK, ClosureReturns, ClosurePanics, Cancel, cas_cancel, Drained, TakePanic, Returned,
         HostStates, latch, panic, ends, vars
<1> QED
  BY <1>3, <1>4, <1>5 DEF Next, HostNext

\* Only a batch in the making holds jobs back, and only a panic of the closure
\* cancels or drops.
LEMMA HostStep == ScopeInv /\ Next => HostInv'
<1> SUFFICES ASSUME ScopeInv, Next PROVE HostInv'
  OBVIOUS
<1> USE DEF ScopeInv
<1>1. ASSUME NEW j \in Jobs, Spawn(j) \/ Collect(j) \/ JobNext(j)
      PROVE  HostInv'
  BY <1>1
     DEF TypeOK, HostInv, Held, Spawn, Collect, JobNext, Begin, Finish, Panic, LockCell,
         CellBusy, Store, Release, Goto, latch
<1>2. CASE BatchPublished \/ BatchFails
  BY <1>2 DEF TypeOK, HostInv, Held, BatchPublished, BatchFails, latch
<1>3. CASE ClosureReturns \/ ClosurePanics \/ Cancel \/ Drained \/ Returned
  BY <1>3 DEF HostInv, Held, ClosureReturns, ClosurePanics, Cancel, cas_cancel, Drained, Returned, latch, vars
<1>4. CASE TakePanic
  BY <1>4 DEF HostInv, Held, TakePanic, latch
<1> QED
  BY <1>1, <1>2, <1>3, <1>4 DEF Next, HostNext

\* record_panic never loses the only panic: whoever gives up on the lock leaves
\* its holder behind, and the caller takes the cell only after the last ticket.
LEMMA PanicStep == ScopeInv /\ Next => PanicInv'
<1> SUFFICES ASSUME ScopeInv, Next PROVE PanicInv'
  OBVIOUS
<1> USE DEF ScopeInv
<1>1. ASSUME NEW j \in Jobs, Spawn(j) \/ Collect(j) PROVE PanicInv'
  BY <1>1 DEF TypeOK, PanicInv, Spawn, Collect, panic, ends
<1>2. CASE BatchPublished \/ BatchFails
  BY <1>2 DEF TypeOK, PanicInv, Held, BatchPublished, BatchFails, latch, panic, ends
<1>3. CASE ClosureReturns \/ ClosurePanics \/ Cancel \/ Drained \/ Returned
  BY <1>3
     DEF PanicInv, ClosureReturns, ClosurePanics, Cancel, cas_cancel, Drained, Returned, latch, panic,
         ends, vars
<1>4. CASE TakePanic
  <2>1. \A j \in Jobs : job[j] \notin {"record", "store"}
    BY <1>4 DEF TakePanic, CountInv, Tickets, Borrowing
  <2> QED
    BY <1>4, <2>1 DEF TypeOK, HostInv, PanicInv, TakePanic, latch, ends
<1>5. ASSUME NEW j \in Jobs, Begin(j) \/ Finish(j) \/ Release(j) PROVE PanicInv'
  BY <1>5 DEF TypeOK, PanicInv, Begin, Finish, Release, Goto, latch, panic, ends
<1>6. ASSUME NEW j \in Jobs, Panic(j) PROVE PanicInv'
  BY <1>6 DEF TypeOK, PanicInv, Panic, Goto, latch, panic
<1>7. ASSUME NEW j \in Jobs, LockCell(j) PROVE PanicInv'
  BY <1>7, ScopeAssumption DEF TypeOK, PanicInv, LockCell, Goto, latch, ends
<1>8. ASSUME NEW j \in Jobs, CellBusy(j) PROVE PanicInv'
  BY <1>8 DEF TypeOK, PanicInv, CellBusy, Goto, latch, panic, ends
<1>9. ASSUME NEW j \in Jobs, Store(j) PROVE PanicInv'
  <2>1. cell' # NoJob
    BY <1>9, ScopeAssumption DEF Store
  <2>2. host # "returned"
    BY <1>9 DEF Store, CountInv, Tickets, Borrowing
  <2> QED
    BY <1>9, <2>1, <2>2, ScopeAssumption DEF TypeOK, PanicInv, Store, Goto, latch, ends
<1> QED
  BY <1>1, <1>2, <1>3, <1>4, <1>5, <1>6, <1>7, <1>8, <1>9 DEF Next, HostNext, JobNext

(***************************************************************************)
(* The inductive invariant of a scope holds in every reachable state, for  *)
(* any finite set of jobs.                                                 *)
(***************************************************************************)
THEOREM Invariance == Spec => []ScopeInv
<1>1. ScopeInv /\ UNCHANGED vars => ScopeInv'
  BY DEF ScopeInv, TypeOK, CountInv, HostInv, PanicInv, Tickets, Held, vars, latch, panic, ends
<1>2. ScopeInv /\ [Next]_vars => ScopeInv'
  BY <1>1, CountStep, TypeStep, HostStep, PanicStep DEF ScopeInv
<1> QED
  BY InitInv, <1>2, PTL DEF Spec

(***************************************************************************)
(* The latch never counts below its own one, and the panic cell and its    *)
(* lock only ever name jobs of the scope.                                  *)
(***************************************************************************)
THEOREM TypeCorrect == Spec => []TypeOK
<1>1. ScopeInv => TypeOK
  BY DEF ScopeInv
<1> QED
  BY Invariance, <1>1, PTL

(***************************************************************************)
(* ThreadPool::scope never gives the borrowed frame back while a job of    *)
(* the scope can still touch it.                                           *)
(***************************************************************************)
THEOREM BorrowSafety == Spec => []ScopeOutlivesJobs
<1>1. ScopeInv => ScopeOutlivesJobs
  BY DEF ScopeInv, CountInv, Tickets, ScopeOutlivesJobs
<1> QED
  BY Invariance, <1>1, PTL

(***************************************************************************)
(* A scope that returns a value has run all its jobs to the end: a panic   *)
(* of any job reaches the caller.                                          *)
(***************************************************************************)
THEOREM NoPanicLost == Spec => []ValueMeansAllFinished
<1>1. ScopeInv => ValueMeansAllFinished
  <2> SUFFICES ASSUME ScopeInv, host = "returned", outcome = "value"
               PROVE  panicked = {} /\ \A j \in Jobs : job[j] = "none" \/ j \in finished
    BY DEF ValueMeansAllFinished
  <2>1. \A j \in Jobs : job[j] \in {"none", "dropped", "done"}
    BY DEF ScopeInv, TypeOK, CountInv, Tickets, JobStates
  <2>2. panicked = {}
    BY <2>1 DEF ScopeInv, PanicInv
  <2> QED
    BY <2>1, <2>2 DEF ScopeInv, PanicInv, HostInv
<1> QED
  BY Invariance, <1>1, PTL
=============================================================================
