------------------------ MODULE QueueBatchingProofs ------------------------
(***************************************************************************)
(* Proofs about QueueBatching, for any number of threads and any batches.  *)
(***************************************************************************)
EXTENDS QueueBatching, SequenceTheorems, TLAPS

\* An operation appends values only.
LEMMA OpItems ==
  ASSUME TypeOK, NEW t \in Threads
  PROVE  op[t].items \in Seq(Values)
<1>1. op[t].items \in Batches \cup {<<>>}
  BY DEF TypeOK
<1>2. CASE op[t].items = <<>>
  BY <1>2
<1>3. CASE op[t].items \in Batches
  BY <1>3, QueueAssumption
<1> QED
  BY <1>1, <1>2, <1>3

\* What Change leaves in the queue, and how long that is.
LEMMA ChangeLength ==
  ASSUME TypeOK, NEW t \in Threads, Change(t)
  PROVE  /\ elements' \in Seq(Values)
         /\ op[t].items # <<>> => Len(elements') = Len(elements) + Len(op[t].items)
         /\ op[t].items = <<>> => Len(elements') <= Len(elements)
<1>1. op[t].items \in Seq(Values) /\ op[t].limit \in Nat /\ elements \in Seq(Values)
  BY OpItems DEF TypeOK
<1>2. CASE op[t].items # <<>>
  BY <1>1, <1>2 DEF Change
<1>3. CASE op[t].items = <<>>
  <2>1. Moved(t) \in Nat /\ Moved(t) <= Len(elements)
    BY <1>1 DEF Moved
  <2>2. elements' = SubSeq(elements, Moved(t) + 1, Len(elements))
    BY <1>3 DEF Change
  <2>3. elements' \in Seq(Values) /\ Len(elements') <= Len(elements)
    BY <1>1, <2>1, <2>2, SubSeqProperties
  <2> QED
    BY <1>3, <2>3
<1> QED
  BY <1>2, <1>3

\* One step keeps the invariant: the cached length is off only while its
\* writer holds the lock.
LEMMA InvStep == LengthInv /\ [Next]_vars => LengthInv'
<1> SUFFICES ASSUME LengthInv, [Next]_vars PROVE LengthInv'
  OBVIOUS
<1> USE QueueAssumption DEF LengthInv, Exact
<1>1. ASSUME NEW t \in Threads, NEW b \in Batches, PushLock(t, b) PROVE LengthInv'
  BY <1>1 DEF TypeOK, PushLock, Acquire, Goto, NoOp
<1>2. ASSUME NEW t \in Threads, ClearLock(t) PROVE LengthInv'
  BY <1>2 DEF TypeOK, ClearLock, Acquire, Goto, NoOp
<1>3. ASSUME NEW t \in Threads, NEW n \in Limits, TakeLook(t, n) PROVE LengthInv'
  BY <1>3 DEF TypeOK, TakeLook, Goto, NoOp
<1>4. ASSUME NEW t \in Threads, TakeLock(t) PROVE LengthInv'
  BY <1>4 DEF TypeOK, TakeLock, Acquire, Goto
<1>5. ASSUME NEW t \in Threads, TryGetFails(t) PROVE LengthInv'
  BY <1>5 DEF TypeOK, TryGetFails, Goto, NoOp
<1>6. ASSUME NEW t \in Threads, Change(t) PROVE LengthInv'
  <2>1. /\ elements' \in Seq(Values) /\ Len(elements') \in Nat
        /\ op[t].items # <<>> => Len(elements') = Len(elements) + Len(op[t].items)
        /\ op[t].items = <<>> => Len(elements') <= Len(elements)
    BY <1>6, ChangeLength
  <2>2. /\ pc' = [pc EXCEPT ![t] = "changed"]
        /\ op' = [op EXCEPT ![t] = [op[t] EXCEPT !.counted = Len(elements')]]
        /\ len' = len /\ locked' = locked /\ pc[t] = "locked"
    BY <1>6 DEF Change, Counted, Goto
  <2>3. TypeOK'
    BY <2>1, <2>2 DEF TypeOK
  <2>4. locked = t /\ len = Len(elements)
    BY <2>2 DEF TypeOK
  <2>5. ASSUME NEW u \in Threads PROVE Exact(u)'
    <3>1. CASE u = t
      BY <2>1, <2>2, <2>4, <3>1 DEF TypeOK
    <3>2. CASE u # t
      BY <2>2, <2>4, <3>2 DEF TypeOK
    <3> QED
      BY <3>1, <3>2
  <2> QED
    BY <2>2, <2>3, <2>4, <2>5
<1>7. ASSUME NEW t \in Threads, ReleaseBegin(t) PROVE LengthInv'
  BY <1>7 DEF TypeOK, ReleaseBegin, ReleaseStep, ReleaseOrder, Goto
<1>8. ASSUME NEW t \in Threads, ReleaseEnd(t) PROVE LengthInv'
  BY <1>8 DEF TypeOK, ReleaseEnd, ReleaseStep, ReleaseOrder, Goto, NoOp
<1>9. ASSUME NEW t \in Threads, NEW n \in Limits \cup {0}, GuardLock(t, n) PROVE LengthInv'
  BY <1>9 DEF TypeOK, GuardLock, Acquire, Goto, NoOp
<1>10. CASE UNCHANGED vars
  BY <1>10 DEF TypeOK, vars
<1> QED
  BY <1>1, <1>2, <1>3, <1>4, <1>5, <1>6, <1>7, <1>8, <1>9, <1>10 DEF Next

\* The cached length is exact in every reachable state, but for the holder's
\* store that is still to come.
THEOREM LengthInvariance == Spec => []LengthInv
<1>1. Init => LengthInv
  BY QueueAssumption DEF Init, LengthInv, Exact, TypeOK, NoOp
<1> QED
  BY <1>1, InvStep, PTL DEF Spec

(***************************************************************************)
(* Exactly the thread between QueueBatching::get and the drop of its guard *)
(* holds the spin lock.                                                    *)
(***************************************************************************)
THEOREM TypeCorrect == Spec => []TypeOK
<1>1. LengthInv => TypeOK
  BY DEF LengthInv
<1> QED
  BY LengthInvariance, <1>1, PTL

(***************************************************************************)
(* A zero length never hides an element whose push has returned.           *)
(***************************************************************************)
THEOREM NoFalseEmpty == Spec => []NothingHidden
<1>1. LengthInv => NothingHidden
  <2> SUFFICES ASSUME LengthInv, len = 0, elements # <<>>
               PROVE  \E t \in Threads : pc[t] = "changed" /\ Len(op[t].items) = Len(elements)
    BY DEF NothingHidden
  <2>1. Len(elements) \in Nat \ {0}
    BY DEF LengthInv, TypeOK
  <2>2. PICK t \in Threads : locked = t
    BY <2>1 DEF LengthInv, TypeOK
  <2>3. pc[t] = "changed"
    BY <2>1, <2>2 DEF LengthInv, TypeOK, Exact
  <2>4. op[t].items \in Seq(Values)
    BY OpItems DEF LengthInv
  <2> QED
    BY <2>1, <2>3, <2>4 DEF LengthInv, Exact
<1> QED
  BY LengthInvariance, <1>1, PTL
=============================================================================
