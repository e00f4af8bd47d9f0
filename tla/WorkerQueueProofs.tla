-------------------------- MODULE WorkerQueueProofs --------------------------
(***************************************************************************)
(* The safety of the deques for any number of workers and jobs, any        *)
(* capacity and any cursor range that is a multiple of it: first where the *)
(* workers stand on the rings, which needs no slot, then what the slots    *)
(* hold, and with it that no job is lost or taken twice and that the rings *)
(* implement WorkStealing.                                                 *)
(***************************************************************************)
EXTENDS WorkerQueueInv, CursorsProofs, SequenceTheorems
-----------------------------------------------------------------------------
CursorTypes ==
  /\ tail \in [Workers -> Cursor]
  /\ blocked \in [Workers -> Cursor]
  /\ stolen \in [Workers -> Cursor]
  /\ pc \in [Workers -> PCs]
  /\ local \in [Workers -> Locals]

DataTypes ==
  /\ buffer \in [Workers -> [SlotIndex -> Jobs \cup {NoJob}]]
  /\ shared \in Seq(Jobs)
  /\ out \in SUBSET (Jobs \cup {NoJob})

RingInv == CursorTypes /\ RoomInv /\ LocalInv /\ ClaimInv /\ CoverInv

\* A step of a worker that holds no claim before and none after it, and that
\* moves no cursor but its own tail.
LEMMA Aside ==
  ASSUME RingInv, NEW w \in Workers, NEW p \in PCs, NEW l \in Locals,
         NEW t \in Cursor, ~Claims(w), p \notin {"steal_copy", "steal_publish"},
         Goto(w, p, l), tail' = [tail EXCEPT ![w] = t],
         blocked' = blocked, stolen' = stolen,
         Claimed(w) + WrappingSub(t, blocked[w]) + l.amount <= Capacity,
         LocalOK(w, p, l, t)
  PROVE  RingInv'
<1>1. CursorTypes'
  BY DEF RingInv, CursorTypes, Goto
<1>2. RoomInv'
  BY DEF RingInv, CursorTypes, RoomInv, Goto, Claimed, Filled, filled_slots
<1>3. LocalInv'
  BY DEF RingInv, CursorTypes, LocalInv, Goto, LocalOK
<1>4. \A u \in Workers : Claims(u)' => u # w /\ Claims(u)
  BY DEF RingInv, CursorTypes, Goto, Claims
<1>5. \A u \in Workers : Claims(u) => u # w /\ Claims(u)'
  BY DEF RingInv, CursorTypes, Goto, Claims
<1>6. \A u \in Workers : u # w => local'[u] = local[u]
  BY DEF RingInv, CursorTypes, Goto
<1>7. ClaimInv'
  BY <1>4, <1>6 DEF RingInv, CursorTypes, ClaimInv, Offset, Claimed
<1>8. CoverInv'
  BY <1>5, <1>6 DEF RingInv, CursorTypes, CoverInv, Offset, Claimed
<1> QED
  BY <1>1, <1>2, <1>3, <1>7, <1>8 DEF RingInv

\* The same, for a step that leaves the tail alone.
LEMMA Still ==
  ASSUME RingInv, NEW w \in Workers, NEW p \in PCs, NEW l \in Locals,
         ~Claims(w), p \notin {"steal_copy", "steal_publish"},
         Goto(w, p, l), tail' = tail, blocked' = blocked, stolen' = stolen,
         Claimed(w) + Filled(w) + l.amount <= Capacity,
         LocalOK(w, p, l, tail[w])
  PROVE  RingInv'
<1>1. tail[w] \in Cursor /\ tail' = [tail EXCEPT ![w] = tail[w]]
  BY DEF RingInv, CursorTypes
<1> QED
  BY <1>1, Aside DEF Filled, filled_slots

\* What the invariant says about the ring of one worker.
LEMMA OneRing ==
  ASSUME RingInv, NEW w \in Workers
  PROVE  /\ tail[w] \in Cursor /\ blocked[w] \in Cursor /\ stolen[w] \in Cursor
         /\ pc[w] \in PCs /\ local[w] \in Locals
         /\ Claimed(w) \in Nat /\ Filled(w) \in Nat
         /\ local[w].amount \in 0..Capacity /\ local[w].copied \in 0..Capacity
         /\ local[w].victim \in Workers
         /\ local[w].tail \in Cursor /\ local[w].blocked \in Cursor
         /\ local[w].job \in Jobs \cup {NoJob}
         /\ Claimed(w) + Filled(w) + local[w].amount <= Capacity
         /\ Free(w) = Capacity - Claimed(w) - Filled(w)
         /\ Free(w) \in 0..Capacity
         /\ LocalOK(w, pc[w], local[w], tail[w])
<1>1. /\ tail[w] \in Cursor /\ blocked[w] \in Cursor /\ stolen[w] \in Cursor
      /\ pc[w] \in PCs /\ local[w] \in Locals
  BY DEF RingInv, CursorTypes
<1>2. /\ local[w].amount \in 0..Capacity /\ local[w].copied \in 0..Capacity
      /\ local[w].victim \in Workers
      /\ local[w].tail \in Cursor /\ local[w].blocked \in Cursor
      /\ local[w].job \in Jobs \cup {NoJob}
  BY <1>1 DEF Locals
<1>3. Claimed(w) \in Nat /\ Filled(w) \in Nat
  BY <1>1, SubNat DEF Claimed, Filled, filled_slots
<1>4. /\ Claimed(w) + Filled(w) + local[w].amount <= Capacity
      /\ LocalOK(w, pc[w], local[w], tail[w])
  BY DEF RingInv, RoomInv, LocalInv
<1>5. Claimed(w) + Filled(w) <= Capacity
  BY <1>2, <1>3, <1>4, CursorFacts
<1>6. Free(w) = Capacity - Claimed(w) - Filled(w)
  BY <1>1, <1>5, EmptySlots DEF Free, Claimed, Filled, filled_slots
<1>7. Free(w) \in 0..Capacity
  BY <1>3, <1>5, <1>6, CursorFacts
<1> QED
  BY <1>1, <1>2, <1>3, <1>4, <1>6, <1>7

\* A worker outside of every operation holds well-typed locals.
LEMMA NoLocalType ==
  ASSUME NEW w \in Workers
  PROVE  NoLocal(w) \in Locals /\ NoLocal(w).amount = 0
BY WrapTypes, CursorFacts DEF NoLocal, Locals

\* An operation that ends, or has nothing to remember, reserves nothing.
LEMMA Ends ==
  ASSUME RingInv, NEW w \in Workers, NEW p \in {"ready", "dry", "exited", "dropped"},
         ~Claims(w), Return(w, p), tail' = tail, blocked' = blocked, stolen' = stolen
  PROVE  RingInv'
<1>1. p \in PCs /\ p \notin {"steal_copy", "steal_publish"}
  BY DEF PCs, Idle
<1>2. LocalOK(w, p, NoLocal(w), tail[w])
  BY DEF LocalOK, Stealing
<1>3. Claimed(w) + Filled(w) + NoLocal(w).amount <= Capacity
  BY OneRing, NoLocalType, CursorFacts
<1>4. Goto(w, p, NoLocal(w)) /\ NoLocal(w) \in Locals
  BY NoLocalType DEF Return
<1> QED
  BY <1>1, <1>2, <1>3, <1>4, Still
-----------------------------------------------------------------------------
\* push

\* push finds a free slot and reserves it, or hands the job back.
LEMMA PushLoadInv ==
  ASSUME RingInv, NEW w \in Workers, NEW x \in Jobs, PushLoad(w, x)
  PROVE  RingInv'
<1> DEFINE p == IF Free(w) < 1 THEN "spill" ELSE "push_write"
           l == [NoLocal(w) EXCEPT !.job = x, !.amount = Least(Free(w), 1)]
<1>1. p \in PCs /\ p \notin {"steal_copy", "steal_publish"} /\ ~Claims(w)
  BY DEF PushLoad, PCs, Claims
<1>2. Least(Free(w), 1) \in 0..Capacity /\ Least(Free(w), 1) <= Free(w)
  BY OneRing, CursorFacts DEF Least
<1>3. l \in Locals /\ l.amount = Least(Free(w), 1) /\ l.job = x
  BY <1>2, NoLocalType DEF Locals, NoLocal
<1>4. p = "push_write" => l.amount = 1
  BY <1>3, OneRing DEF Least
<1>5. LocalOK(w, p, l, tail[w])
  BY <1>3, <1>4 DEF LocalOK, Stealing
<1>6. Claimed(w) + Filled(w) + l.amount <= Capacity
  BY <1>2, <1>3, OneRing, CursorFacts
<1>7. Goto(w, p, l) /\ tail' = tail /\ blocked' = blocked /\ stolen' = stolen
  BY DEF PushLoad, anchors
<1> HIDE DEF p, l
<1> QED
  BY <1>1, <1>3, <1>5, <1>6, <1>7, Still

\* push writes the slot it reserved.
LEMMA PushWriteInv ==
  ASSUME RingInv, NEW w \in Workers, PushWrite(w)
  PROVE  RingInv'
<1> DEFINE l == [NoLocal(w) EXCEPT !.amount = 1, !.copied = 1]
<1>1. "push_publish" \in PCs /\ ~Claims(w)
  BY DEF PushWrite, PCs, Claims
<1>2. l \in Locals /\ l.amount = 1
  <2>1. 1 \in 0..Capacity
    BY CursorFacts
  <2> QED
    BY <2>1, NoLocalType DEF Locals, NoLocal
<1>3. LocalOK(w, "push_publish", l, tail[w])
  BY <1>2 DEF LocalOK, Stealing
<1>4. local[w].amount = 1
  BY OneRing DEF PushWrite, LocalOK
<1>5. Claimed(w) + Filled(w) + l.amount <= Capacity
  BY <1>2, <1>4, OneRing
<1>6. Goto(w, "push_publish", l) /\ tail' = tail /\ blocked' = blocked /\ stolen' = stolen
  BY DEF PushWrite, anchors
<1> HIDE DEF l
<1> QED
  BY <1>1, <1>2, <1>3, <1>5, <1>6, Still

\* push, pull and steal end alike: the reserved slots join the queued ones.
LEMMA PublishInv ==
  ASSUME RingInv, NEW w \in Workers, ~Claims(w), PublishTail(w), Return(w, "ready"),
         blocked' = blocked, stolen' = stolen
  PROVE  RingInv'
<1> DEFINE t == WrappingAdd(tail[w], local[w].amount)
<1>1. t \in Cursor
  BY OneRing, WrapTypes
<1>2. Filled(w) + local[w].amount <= Capacity
  BY OneRing, CursorFacts
<1>3. WrappingSub(t, blocked[w]) = Filled(w) + local[w].amount
  BY <1>2, OneRing, SubAdd DEF Filled, filled_slots
<1>4. Claimed(w) + WrappingSub(t, blocked[w]) + NoLocal(w).amount <= Capacity
  BY <1>3, OneRing, NoLocalType, CursorFacts
<1>5. LocalOK(w, "ready", NoLocal(w), t)
  BY DEF LocalOK, Stealing
<1>6. /\ Goto(w, "ready", NoLocal(w)) /\ NoLocal(w) \in Locals /\ "ready" \in PCs
      /\ tail' = [tail EXCEPT ![w] = t]
  BY NoLocalType DEF Return, PublishTail, PCs, Idle
<1> HIDE DEF t
<1> QED
  BY <1>1, <1>4, <1>5, <1>6, Aside
-----------------------------------------------------------------------------
\* pop

\* pop reads its own anchor.
LEMMA PopLookInv ==
  ASSUME RingInv, NEW w \in Workers, ~Claims(w), PopLook(w),
         tail' = tail, blocked' = blocked, stolen' = stolen
  PROVE  RingInv'
<1>1. CASE Filled(w) < 1
  BY <1>1, Ends DEF PopLook, Return
<1>2. CASE ~(Filled(w) < 1)
  <2> DEFINE l == [NoLocal(w) EXCEPT !.blocked = blocked[w]]
  <2>1. l \in Locals /\ l.amount = 0 /\ l.blocked = blocked[w]
    BY NoLocalType, OneRing DEF Locals, NoLocal
  <2>2. WrappingSub(tail[w], l.blocked) >= 1
    BY <1>2, <2>1, OneRing DEF Filled, filled_slots
  <2>3. LocalOK(w, "pop_cas", l, tail[w])
    BY <2>2 DEF LocalOK, Stealing
  <2>4. Claimed(w) + Filled(w) + l.amount <= Capacity
    BY <2>1, OneRing, CursorFacts
  <2>5. Goto(w, "pop_cas", l) /\ "pop_cas" \in PCs
    BY <1>2 DEF PopLook, PCs
  <2> HIDE DEF l
  <2> QED
    BY <2>1, <2>3, <2>4, <2>5, Still
<1> QED
  BY <1>1, <1>2

\* A successful pop gives the last slot up; it stays reserved until it is read.
LEMMA PopCasInv ==
  ASSUME RingInv, NEW w \in Workers, PopCas(w)
  PROVE  RingInv'
<1> DEFINE t == WrappingSub(tail[w], 1)
           l == [NoLocal(w) EXCEPT !.amount = 1]
<1>1. t \in Cursor
  BY OneRing, WrapTypes
<1>2. Filled(w) >= 1
  BY OneRing DEF PopCas, LocalOK, Filled, filled_slots
<1>3. WrappingSub(t, blocked[w]) = Filled(w) - 1
  BY <1>2, OneRing, SubDecrement DEF Filled, filled_slots
<1>4. l \in Locals /\ l.amount = 1
  BY NoLocalType, CursorFacts DEF Locals, NoLocal
<1>5. Claimed(w) + WrappingSub(t, blocked[w]) + l.amount <= Capacity
  BY <1>3, <1>4, OneRing, CursorFacts
<1>6. LocalOK(w, "pop_take", l, t)
  BY <1>4 DEF LocalOK, Stealing
<1>7. /\ Goto(w, "pop_take", l) /\ tail' = [tail EXCEPT ![w] = t]
      /\ blocked' = blocked /\ stolen' = stolen /\ "pop_take" \in PCs /\ ~Claims(w)
  BY OneRing DEF PopCas, PCs, Claims, RingInv, CursorTypes
<1> HIDE DEF t, l
<1> QED
  BY <1>1, <1>4, <1>5, <1>6, <1>7, Aside
-----------------------------------------------------------------------------
\* pull

\* The pull reserves no more than the free slots.
LEMMA PullLoadInv ==
  ASSUME RingInv, DataTypes, NEW w \in Workers, PullLoad(w)
  PROVE  RingInv'
<1> DEFINE take == Least(Least(Free(w), Capacity), Len(shared))
           l == [NoLocal(w) EXCEPT !.amount = take]
<1>1. Len(shared) \in Nat
  BY DEF DataTypes
<1>2. take \in 0..Capacity /\ take <= Free(w)
  BY <1>1, OneRing, CursorFacts DEF Least
<1>3. Goto(w, "pull_drain", l) /\ tail' = tail /\ blocked' = blocked /\ stolen' = stolen
  BY DEF PullLoad, anchors
<1> HIDE DEF take
<1>4. l \in Locals /\ l.amount = take
  BY <1>2, NoLocalType DEF Locals, NoLocal
<1>5. LocalOK(w, "pull_drain", l, tail[w])
  BY DEF LocalOK, Stealing
<1>6. Claimed(w) + Filled(w) + l.amount <= Capacity
  BY <1>2, <1>4, OneRing, CursorFacts
<1>7. "pull_drain" \in PCs /\ ~Claims(w)
  BY DEF PullLoad, PCs, Claims
<1> HIDE DEF l
<1> QED
  BY <1>3, <1>4, <1>5, <1>6, <1>7, Still

\* The drain fills part of what the pull reserved.
LEMMA PullDrainInv ==
  ASSUME RingInv, DataTypes, NEW w \in Workers, PullDrain(w)
  PROVE  RingInv'
<1> DEFINE n == Least(local[w].amount, Len(shared))
           l == [NoLocal(w) EXCEPT !.amount = n, !.copied = n]
<1>1. Len(shared) \in Nat
  BY DEF DataTypes
<1>2. n \in 0..Capacity /\ n <= local[w].amount
  BY <1>1, OneRing, CursorFacts DEF Least
<1>3. Goto(w, "pull_publish", l) /\ tail' = tail /\ blocked' = blocked /\ stolen' = stolen
  BY DEF PullDrain, anchors
<1> HIDE DEF n
<1>4. l \in Locals /\ l.amount = n
  BY <1>2, NoLocalType DEF Locals, NoLocal
<1>5. LocalOK(w, "pull_publish", l, tail[w])
  BY DEF LocalOK, Stealing
<1>6. Claimed(w) + Filled(w) + l.amount <= Capacity
  BY <1>2, <1>4, OneRing, CursorFacts
<1>7. "pull_publish" \in PCs /\ ~Claims(w)
  BY DEF PullDrain, PCs, Claims
<1> HIDE DEF l
<1> QED
  BY <1>3, <1>4, <1>5, <1>6, <1>7, Still
-----------------------------------------------------------------------------
\* steal

\* A thief reserves free slots of its own ring.
LEMMA StealBeginInv ==
  ASSUME RingInv, NEW w \in Workers, NEW v \in Workers, NEW max \in 1..Capacity,
         StealBegin(w, v, max)
  PROVE  RingInv'
<1> DEFINE a == Least(Free(w), max)
           l == [NoLocal(w) EXCEPT !.victim = v, !.amount = a]
<1>1. a \in 0..Capacity /\ a <= Free(w)
  BY OneRing, CursorFacts DEF Least
<1>2. Goto(w, "steal_load", l) /\ tail' = tail /\ blocked' = blocked /\ stolen' = stolen
  BY DEF StealBegin, anchors
<1> HIDE DEF a
<1>3. l \in Locals /\ l.amount = a /\ l.victim = v /\ l.copied = 0
  BY <1>1, NoLocalType DEF Locals, NoLocal
<1>4. LocalOK(w, "steal_load", l, tail[w])
  BY <1>3 DEF LocalOK, StealBegin
<1>5. Claimed(w) + Filled(w) + l.amount <= Capacity
  BY <1>1, <1>3, OneRing, CursorFacts
<1>6. "steal_load" \in PCs /\ ~Claims(w)
  BY DEF StealBegin, PCs, Claims, Stealing
<1> HIDE DEF l
<1> QED
  BY <1>2, <1>3, <1>4, <1>5, <1>6, Still

\* A thief keeps no more reserved than it saw in the victim.
LEMMA StealLoadInv ==
  ASSUME RingInv, NEW w \in Workers, StealLoad(w)
  PROVE  RingInv'
<1> DEFINE v == local[w].victim
           a == StealAmount(w)
           l == [local[w] EXCEPT !.tail = tail[v], !.blocked = blocked[v], !.amount = a]
<1>1. v \in Workers /\ v # w /\ local[w].copied = 0
  BY OneRing DEF StealLoad, LocalOK, Stealing
<1>2. a \in 1..Filled(v) /\ a <= local[w].amount /\ a \in 0..Capacity
  BY <1>1, OneRing, CursorFacts DEF StealLoad, StealAmount, Least
<1>3. Goto(w, "steal_cas", l) /\ tail' = tail /\ blocked' = blocked /\ stolen' = stolen
  BY DEF StealLoad, anchors
<1> HIDE DEF a
<1>4. /\ l \in Locals /\ l.amount = a /\ l.victim = v /\ l.copied = 0
      /\ l.tail = tail[v] /\ l.blocked = blocked[v]
  <2>1. local[w] \in Locals /\ tail[v] \in Cursor /\ blocked[v] \in Cursor
    BY <1>1, OneRing
  <2> QED
    BY <1>1, <1>2, <2>1 DEF Locals
<1>5. LocalOK(w, "steal_cas", l, tail[w])
  BY <1>1, <1>2, <1>4 DEF LocalOK, Filled, filled_slots
<1>6. Claimed(w) + Filled(w) + l.amount <= Capacity
  BY <1>2, <1>4, OneRing, CursorFacts
<1>7. "steal_cas" \in PCs /\ ~Claims(w)
  BY DEF StealLoad, PCs, Claims, Stealing
<1> HIDE DEF l
<1> QED
  BY <1>3, <1>4, <1>5, <1>6, <1>7, Still

\* The new claim begins where the claimed slots of the victim end.
LEMMA StealCasInv ==
  ASSUME RingInv, NEW w \in Workers, StealCas(w)
  PROVE  RingInv'
<1>0. PICK v \in Workers, a \in 0..Capacity : v = local[w].victim /\ a = local[w].amount
  BY OneRing
<1> USE <1>0
<1>1. v \in Workers /\ v # w /\ local[w].copied = 0 /\ a \in 1..Filled(v)
  BY OneRing DEF StealCas, AnchorUnchanged, LocalOK, Stealing, Filled, filled_slots
<1>2. a \in 1..Capacity /\ a \in 0..Capacity
  BY <1>1, OneRing
<1>3. /\ blocked' = [blocked EXCEPT ![v] = WrappingAdd(blocked[v], a)]
      /\ pc' = [pc EXCEPT ![w] = "steal_copy"] /\ local' = local
      /\ tail' = tail /\ stolen' = stolen /\ local[w].blocked = blocked[v]
  BY OneRing DEF StealCas, AnchorUnchanged, Goto, RingInv, CursorTypes
<1>4. CursorTypes'
  <2>1. WrappingAdd(blocked[v], a) \in Cursor
    BY <1>1, <1>2, OneRing, WrapTypes
  <2> QED
    BY <1>3, <2>1 DEF RingInv, CursorTypes, PCs, Stealing
<1>5. Claimed(v)' = Claimed(v) + a
  <2>1. Claimed(v) + a <= Capacity
    BY <1>1, OneRing, CursorFacts
  <2>2. blocked'[v] = WrappingAdd(blocked[v], a)
    BY <1>1, <1>3 DEF RingInv, CursorTypes
  <2> QED
    BY <1>1, <1>2, <1>3, <2>1, <2>2, OneRing, SubAdd DEF Claimed
<1>6. Filled(v)' = Filled(v) - a
  <2>1. blocked'[v] = WrappingAdd(blocked[v], a)
    BY <1>1, <1>3 DEF RingInv, CursorTypes
  <2>2. a <= WrappingSub(tail[v], blocked[v])
    BY <1>1 DEF Filled, filled_slots
  <2> QED
    BY <1>1, <1>2, <1>3, <2>1, <2>2, OneRing, SubAddBack DEF Filled, filled_slots
<1>7. \A u \in Workers : u # v => Claimed(u)' = Claimed(u) /\ Filled(u)' = Filled(u)
  BY <1>3 DEF RingInv, CursorTypes, Claimed, Filled, filled_slots
<1>8. RoomInv'
  <2> SUFFICES ASSUME NEW u \in Workers
               PROVE  (Claimed(u) + Filled(u) + local[u].amount <= Capacity)'
    BY DEF RoomInv
  <2>1. Claimed(u)' + Filled(u)' = Claimed(u) + Filled(u)
    <3>1. Claimed(u) \in Nat /\ Filled(u) \in Nat /\ a \in Nat
      BY <1>2, OneRing
    <3>2. CASE u = v
      BY <1>5, <1>6, <3>1, <3>2
    <3>3. CASE u # v
      BY <1>7, <3>3
    <3> QED
      BY <3>2, <3>3
  <2> QED
    BY <1>3, <2>1, OneRing
<1>9. LocalInv'
  BY <1>1, <1>2, <1>3 DEF RingInv, CursorTypes, LocalInv, LocalOK, Stealing
<1>10. \A u \in Workers : Offset(u)' = Offset(u)
  BY <1>3 DEF Offset
<1>11. Offset(w) = Claimed(v)
  BY <1>3 DEF Offset, Claimed
<1>12. \A u \in Workers : Claims(u)' <=> u = w \/ Claims(u)
  BY <1>3 DEF Claims, RingInv, CursorTypes
<1>13. \A u \in Workers : u # w /\ Claims(u) =>
         /\ local[u].amount >= 1 /\ local[u].amount \in Nat
         /\ Offset(u) + local[u].amount <= Claimed(local[u].victim)
         /\ local[u].victim \in Workers
  BY OneRing DEF RingInv, ClaimInv
<1>14. \A u \in Workers : Offset(u) \in Nat /\ Claimed(u) \in Nat
  BY OneRing, SubNat DEF Offset
<1>15. ClaimInv'
  <2>1. ASSUME NEW t \in Workers, Claims(t)'
        PROVE  (local[t].amount >= 1 /\ Offset(t) + local[t].amount <= Claimed(local[t].victim))'
    <3>1. CASE t = w
      BY <1>1, <1>2, <1>3, <1>5, <1>10, <1>11, <1>14, <3>1
    <3>2. CASE t # w /\ local[t].victim = v
      BY <1>2, <1>3, <1>5, <1>10, <1>12, <1>13, <1>14, <2>1, <3>2
    <3>3. CASE t # w /\ local[t].victim # v
      BY <1>3, <1>7, <1>10, <1>12, <1>13, <2>1, <3>3
    <3> QED
      BY <3>1, <3>2, <3>3
  <2>2. ASSUME NEW t \in Workers, NEW u \in Workers, t # u, Claims(t)', Claims(u)',
               local[t].victim = local[u].victim
        PROVE  \/ Offset(t) + local[t].amount <= Offset(u)
               \/ Offset(u) + local[u].amount <= Offset(t)
    <3>1. CASE t = w
      BY <1>11, <1>12, <1>13, <2>2, <3>1
    <3>2. CASE u = w
      BY <1>11, <1>12, <1>13, <2>2, <3>2
    <3>3. CASE t # w /\ u # w
      BY <1>12, <2>2, <3>3 DEF RingInv, ClaimInv
    <3> QED
      BY <3>1, <3>2, <3>3
  <2> QED
    BY <1>3, <1>10, <2>1, <2>2 DEF ClaimInv
<1>16. CoverInv'
  <2> SUFFICES ASSUME NEW q \in Workers, NEW k \in 0..(Claimed(q)' - 1)
               PROVE  \E t \in Workers :
                        /\ Claims(t)' /\ local[t].victim = q
                        /\ Offset(t) <= k /\ k < Offset(t) + local[t].amount
    BY <1>3, <1>10 DEF CoverInv
  <2>1. CASE k < Claimed(q)
    <3>1. k \in 0..(Claimed(q) - 1)
      BY <1>14, <2>1
    <3> QED
      BY <3>1, <1>12 DEF RingInv, CoverInv
  <2>2. CASE ~(k < Claimed(q))
    <3>1. q = v
      BY <1>7, <1>14, <2>2
    <3>2. Claimed(v) \in Nat /\ a \in Nat /\ k \in Nat
      BY <1>1, <1>2, <1>14
    <3>3. k <= Claimed(v) + a - 1
      BY <1>5, <3>1, <3>2
    <3>4. Offset(w) <= k /\ k < Offset(w) + a
      BY <1>11, <2>2, <3>1, <3>2, <3>3
    <3> QED
      BY <1>12, <3>1, <3>4
  <2> QED
    BY <2>1, <2>2
<1> QED
  BY <1>4, <1>8, <1>9, <1>15, <1>16 DEF RingInv

\* A copy moves neither the claim nor the reservation.
LEMMA StealCopyInv ==
  ASSUME RingInv, NEW w \in Workers, StealCopy(w)
  PROVE  RingInv'
<1> DEFINE n == local[w].copied
           l == [local[w] EXCEPT !.copied = n + 1]
           p == IF n + 1 = local[w].amount THEN "steal_publish" ELSE "steal_copy"
<1>1. n < local[w].amount /\ local[w].victim # w
  BY OneRing DEF StealCopy, LocalOK, Stealing
<1>2. n + 1 \in 0..Capacity /\ n + 1 <= local[w].amount
  BY <1>1, OneRing, CursorFacts
<1>3. /\ pc' = [pc EXCEPT ![w] = p] /\ local' = [local EXCEPT ![w] = l]
      /\ tail' = tail /\ blocked' = blocked /\ stolen' = stolen
  BY DEF StealCopy, Goto, anchors
<1>4. /\ l \in Locals /\ l.copied = n + 1 /\ l.amount = local[w].amount
      /\ l.victim = local[w].victim /\ l.blocked = local[w].blocked
      /\ l.tail = local[w].tail /\ l.job = local[w].job
  BY <1>2, OneRing DEF Locals
<1>5. p \in {"steal_copy", "steal_publish"} /\ p \in PCs
  BY DEF PCs, Stealing
<1>6. p = "steal_copy" => l.copied < l.amount
  BY <1>2, <1>4, OneRing
<1> HIDE DEF l, p
<1>7. CursorTypes'
  BY <1>3, <1>4, <1>5 DEF RingInv, CursorTypes
<1>8. \A u \in Workers : /\ local'[u].amount = local[u].amount
                         /\ local'[u].victim = local[u].victim
                         /\ local'[u].blocked = local[u].blocked
  BY <1>3, <1>4 DEF RingInv, CursorTypes
<1>9. \A u \in Workers : Claims(u)' <=> Claims(u)
  BY <1>3, <1>5 DEF Claims, StealCopy, RingInv, CursorTypes
<1>10. \A u \in Workers : Claimed(u)' = Claimed(u) /\ Filled(u)' = Filled(u)
  BY <1>3 DEF Claimed, Filled, filled_slots
<1>11. \A u \in Workers : Offset(u)' = Offset(u)
  BY <1>3, <1>8 DEF Offset
<1>12. RoomInv'
  BY <1>8, <1>10 DEF RingInv, RoomInv
<1>13. LocalInv'
  <2> SUFFICES ASSUME NEW u \in Workers
               PROVE  LocalOK(u, pc'[u], local'[u], tail'[u])
    BY DEF LocalInv
  <2>1. CASE u = w
    <3>1. pc'[w] = p /\ local'[w] = l
      BY <1>3 DEF RingInv, CursorTypes
    <3>2. LocalOK(w, p, l, tail[w])
      BY <1>1, <1>4, <1>5, <1>6 DEF LocalOK
    <3> QED
      BY <1>3, <2>1, <3>1, <3>2
  <2>2. CASE u # w
    BY <1>3, <2>2 DEF RingInv, CursorTypes, LocalInv
  <2> QED
    BY <2>1, <2>2
<1>14. ClaimInv'
  BY <1>8, <1>9, <1>10, <1>11, OneRing DEF RingInv, ClaimInv
<1>15. CoverInv'
  BY <1>8, <1>9, <1>10, <1>11 DEF RingInv, CoverInv
<1> QED
  BY <1>7, <1>12, <1>13, <1>14, <1>15 DEF RingInv

\* The claim that is published starts at `stolen`: every other claim of the
\* victim lies behind it and moves closer by its length.
LEMMA StealPublishInv ==
  ASSUME RingInv, NEW w \in Workers, StealPublish(w)
  PROVE  RingInv'
<1>0. PICK v \in Workers, a \in 0..Capacity : v = local[w].victim /\ a = local[w].amount
  BY OneRing
<1> USE <1>0
<1>1. v \in Workers /\ v # w /\ Claims(w) /\ a \in 0..Capacity /\ a \in Nat
  BY OneRing DEF StealPublish, Claims, LocalOK, Stealing
<1>2. /\ pc' = [pc EXCEPT ![w] = "steal_bump"] /\ local' = local
      /\ stolen' = [stolen EXCEPT ![v] = WrappingAdd(stolen[v], a)]
      /\ tail' = tail /\ blocked' = blocked /\ stolen[v] = local[w].blocked
  BY OneRing DEF StealPublish, MyTurn, Goto, anchors, RingInv, CursorTypes
<1>3. \A u \in Workers : Offset(u) \in Nat /\ Claimed(u) \in Nat
  BY OneRing, SubNat DEF Offset
<1>4. Offset(w) = 0
  BY <1>1, <1>2, OneRing, SubZero DEF Offset
<1>5. a >= 1 /\ a <= Claimed(v)
  BY <1>1, <1>3, <1>4 DEF RingInv, ClaimInv
<1>6. CursorTypes'
  <2>1. WrappingAdd(stolen[v], a) \in Cursor
    BY <1>1, OneRing, WrapTypes
  <2> QED
    BY <1>2, <2>1 DEF RingInv, CursorTypes, PCs, Stealing
<1>7. stolen'[v] = WrappingAdd(stolen[v], a)
  BY <1>1, <1>2 DEF RingInv, CursorTypes
<1>8. Claimed(v)' = Claimed(v) - a
  BY <1>1, <1>2, <1>5, <1>7, OneRing, SubAddBack DEF Claimed
<1>9. \A u \in Workers : /\ Filled(u)' = Filled(u)
                         /\ u # v => Claimed(u)' = Claimed(u)
  BY <1>2 DEF RingInv, CursorTypes, Claimed, Filled, filled_slots
<1>10. \A u \in Workers : Claims(u)' <=> u # w /\ Claims(u)
  BY <1>2 DEF Claims, RingInv, CursorTypes
<1>11. \A u \in Workers : local[u].victim # v => Offset(u)' = Offset(u)
  BY <1>2, OneRing DEF RingInv, CursorTypes, Offset
<1>12. ASSUME NEW u \in Workers, u # w, Claims(u), local[u].victim = v
       PROVE  Offset(u) >= a /\ Offset(u)' = Offset(u) - a
  <2>1. local[u].amount >= 1 /\ local[u].amount \in Nat
    BY <1>12, OneRing DEF RingInv, ClaimInv
  <2>2. \/ Offset(w) + a <= Offset(u)
        \/ Offset(u) + local[u].amount <= Offset(w)
    BY <1>1, <1>12 DEF RingInv, ClaimInv
  <2>3. Offset(u) >= a
    BY <1>1, <1>3, <1>4, <2>1, <2>2
  <2>4. local[u].blocked \in Cursor /\ stolen[v] \in Cursor
    BY <1>1, OneRing
  <2>5. WrappingSub(local[u].blocked, WrappingAdd(stolen[v], a))
        = WrappingSub(local[u].blocked, stolen[v]) - a
    BY <1>1, <1>12, <2>3, <2>4, SubAddBack DEF Offset
  <2> QED
    BY <1>2, <1>7, <1>12, <2>3, <2>5 DEF Offset
<1>13. RoomInv'
  <2> SUFFICES ASSUME NEW u \in Workers
               PROVE  (Claimed(u) + Filled(u) + local[u].amount <= Capacity)'
    BY DEF RoomInv
  <2>1. Claimed(u)' <= Claimed(u) /\ Claimed(u)' \in Nat
    BY <1>1, <1>3, <1>5, <1>8, <1>9
  <2> QED
    BY <1>2, <1>9, <2>1, OneRing, CursorFacts
<1>14. LocalInv'
  BY <1>1, <1>2 DEF RingInv, CursorTypes, LocalInv, LocalOK, Stealing
<1>15. ClaimInv'
  <2>1. ASSUME NEW t \in Workers, Claims(t)'
        PROVE  (local[t].amount >= 1 /\ Offset(t) + local[t].amount <= Claimed(local[t].victim))'
    <3>1. t # w /\ Claims(t)
      BY <1>10, <2>1
    <3>2. /\ local[t].amount >= 1 /\ local[t].amount \in Nat /\ local[t].victim \in Workers
          /\ Offset(t) + local[t].amount <= Claimed(local[t].victim)
      BY <3>1, OneRing DEF RingInv, ClaimInv
    <3>3. CASE local[t].victim = v
      BY <1>1, <1>2, <1>3, <1>8, <1>12, <3>1, <3>2, <3>3
    <3>4. CASE local[t].victim # v
      BY <1>2, <1>9, <1>11, <3>2, <3>4
    <3> QED
      BY <3>3, <3>4
  <2>2. ASSUME NEW t \in Workers, NEW u \in Workers, t # u, Claims(t)', Claims(u)',
               local[t].victim = local[u].victim
        PROVE  \/ Offset(t)' + local[t].amount <= Offset(u)'
               \/ Offset(u)' + local[u].amount <= Offset(t)'
    <3>1. t # w /\ Claims(t) /\ u # w /\ Claims(u)
      BY <1>10, <2>2
    <3>2. \/ Offset(t) + local[t].amount <= Offset(u)
          \/ Offset(u) + local[u].amount <= Offset(t)
      BY <2>2, <3>1 DEF RingInv, ClaimInv
    <3>3. CASE local[t].victim = v
      <4>1. local[t].amount \in Nat /\ local[u].amount \in Nat
        BY OneRing
      <4>2. Offset(t)' = Offset(t) - a /\ Offset(u)' = Offset(u) - a
        BY <1>12, <2>2, <3>1, <3>3
      <4> QED
        BY <1>1, <1>3, <3>2, <4>1, <4>2
    <3>4. CASE local[t].victim # v
      BY <1>11, <2>2, <3>2, <3>4
    <3> QED
      BY <3>3, <3>4
  <2> QED
    BY <1>2, <2>1, <2>2 DEF ClaimInv
<1>16. CoverInv'
  <2> SUFFICES ASSUME NEW q \in Workers, NEW k \in 0..(Claimed(q)' - 1)
               PROVE  \E t \in Workers :
                        /\ Claims(t)' /\ local[t].victim = q
                        /\ Offset(t)' <= k /\ k < Offset(t)' + local[t].amount
    BY <1>2 DEF CoverInv
  <2>1. CASE q = v
    <3>1. k + a \in 0..(Claimed(v) - 1) /\ k \in Nat
      BY <1>1, <1>3, <1>8, <2>1
    <3>2. PICK t \in Workers : /\ Claims(t) /\ local[t].victim = v
                               /\ Offset(t) <= k + a /\ k + a < Offset(t) + local[t].amount
      BY <1>1, <3>1 DEF RingInv, CoverInv
    <3>3. t # w
      BY <1>1, <1>4, <3>1, <3>2
    <3>4. Offset(t)' = Offset(t) - a /\ local[t].amount \in Nat
      BY <1>12, <3>2, <3>3, OneRing
    <3>5. Offset(t)' <= k /\ k < Offset(t)' + local[t].amount
      BY <1>1, <1>3, <3>1, <3>2, <3>4
    <3> QED
      BY <1>10, <2>1, <3>2, <3>3, <3>5
  <2>2. CASE q # v
    <3>1. PICK t \in Workers : /\ Claims(t) /\ local[t].victim = q
                               /\ Offset(t) <= k /\ k < Offset(t) + local[t].amount
      BY <1>9, <2>2 DEF RingInv, CoverInv
    <3> QED
      BY <1>10, <1>11, <2>2, <3>1
  <2> QED
    BY <2>1, <2>2
<1> QED
  BY <1>6, <1>13, <1>14, <1>15, <1>16 DEF RingInv
-----------------------------------------------------------------------------
\* What the slots, the shared queue and `out` hold.

\* FixedRingBuffer::at yields a slot of the ring.
LEMMA SlotType == \A c \in Cursor, n \in 0..Capacity : At(c, n) \in SlotIndex
<1>1. \A c \in Cursor : Slot(c) \in SlotIndex
  BY CursorFacts DEF Cursor, Slot, SlotIndex
<1> QED
  BY <1>1, WrapTypes DEF At

\* What the drain of the shared queue leaves and writes has its type.
LEMMA DrainTypes ==
  ASSUME RingInv, DataTypes, NEW w \in Workers, PullDrain(w)
  PROVE  DataTypes'
<1> DEFINE n == Least(local[w].amount, Len(shared))
<1>1. n \in 1..Len(shared) /\ Len(shared) \in Nat
  BY OneRing DEF PullDrain, Least, DataTypes
<1>2. SubSeq(shared, n + 1, Len(shared)) \in Seq(Jobs)
  <2>1. n + 1 \in 1..(Len(shared) + 1)
    BY <1>1
  <2> HIDE DEF n
  <2> QED
    BY <1>1, <2>1, SubSeqProperties DEF DataTypes
<1>3. ASSUME NEW s \in SlotIndex, \E k \in 0..(n - 1) : s = At(tail[w], k)
      PROVE  shared[1 + (CHOOSE k \in 0..(n - 1) : s = At(tail[w], k))] \in Jobs
  <2> DEFINE c == CHOOSE k \in 0..(n - 1) : s = At(tail[w], k)
  <2>1. c \in 0..(n - 1)
    BY <1>3
  <2> HIDE DEF c, n
  <2>2. 1 + c \in 1..Len(shared)
    BY <1>1, <2>1
  <2>3. shared[1 + c] \in Jobs
    BY <2>2 DEF DataTypes
  <2> QED
    BY <2>3 DEF c
<1> DEFINE ring == [s \in SlotIndex |->
             IF \E k \in 0..(n - 1) : s = At(tail[w], k)
             THEN shared[1 + (CHOOSE k \in 0..(n - 1) : s = At(tail[w], k))]
             ELSE buffer[w][s]]
<1>4. ring \in [SlotIndex -> Jobs \cup {NoJob}]
  <2> HIDE DEF n
  <2> QED
    BY <1>3 DEF DataTypes
<1>5. buffer' = [buffer EXCEPT ![w] = ring]
  BY DEF PullDrain, DataTypes
<1>6. shared' = SubSeq(shared, n + 1, Len(shared)) /\ out' = out
  BY DEF PullDrain
<1> HIDE DEF n, ring
<1> QED
  BY <1>2, <1>4, <1>5, <1>6 DEF DataTypes

\* What Drop releases are jobs, or empty slots.
LEMMA DroppedTypes ==
  ASSUME RingInv, DataTypes, NEW w \in Workers
  PROVE  Dropped(w) \subseteq Jobs \cup {NoJob}
<1>1. Filled(w) \in 0..Capacity
  BY OneRing, CursorFacts
<1>2. ASSUME NEW n \in 0..(Filled(w) - 1)
      PROVE  Item(w, blocked[w], n) \in Jobs \cup {NoJob}
  <2>1. n \in 0..Capacity
    BY <1>1, CursorFacts
  <2>2. At(blocked[w], n) \in SlotIndex
    BY <2>1, OneRing, SlotType
  <2> QED
    BY <2>2 DEF Item, DataTypes
<1> QED
  BY <1>2 DEF Dropped

\* No step of any operation breaks the types of queue, slots and jobs.
LEMMA StepTypes ==
  ASSUME RingInv, DataTypes, Next
  PROVE  DataTypes'
<1>1. ASSUME NEW w \in Workers, Operation(w)
      PROVE  DataTypes'
  <2>1. ASSUME NEW x \in Jobs, PushLoad(w, x) PROVE DataTypes'
    BY <2>1 DEF PushLoad, DataTypes
  <2>2. CASE PopLoad(w)
    BY <2>2 DEF PopLoad, DataTypes
  <2>3. CASE PullLoad(w)
    BY <2>3 DEF PullLoad, DataTypes
  <2>4. ASSUME NEW v \in Workers, NEW max \in 1..Capacity, StealBegin(w, v, max)
        PROVE  DataTypes'
    BY <2>4 DEF StealBegin, DataTypes
  <2>5. CASE Retry(w)
    BY <2>5 DEF Retry, DataTypes
  <2>6. CASE Exit(w)
    BY <2>6 DEF Exit, DataTypes
  <2>7. CASE Drop(w)
    BY <2>7, DroppedTypes DEF Drop, DataTypes
  <2> QED
    BY <1>1, <2>1, <2>2, <2>3, <2>4, <2>5, <2>6, <2>7 DEF Operation
<1>2. ASSUME NEW w \in Workers, Continue(w)
      PROVE  DataTypes'
  <2>0. tail[w] \in Cursor /\ 0 \in 0..Capacity /\ At(tail[w], 0) \in SlotIndex
    BY OneRing, SlotType, CursorFacts
  <2>1. CASE PushWrite(w)
    <3>1. local[w].job \in Jobs
      BY <2>1, OneRing DEF PushWrite, LocalOK
    <3> QED
      BY <2>0, <2>1, <3>1 DEF PushWrite, DataTypes
  <2>2. CASE PushPublish(w)
    BY <2>2 DEF PushPublish, DataTypes
  <2>3. CASE Spill(w)
    <3>1. local[w].job \in Jobs
      BY <2>3, OneRing DEF Spill, LocalOK
    <3> QED
      BY <2>3, <3>1 DEF Spill, DataTypes
  <2>4. CASE PopCas(w)
    BY <2>4 DEF PopCas, DataTypes
  <2>5. CASE PopRetry(w)
    BY <2>5 DEF PopRetry, DataTypes
  <2>6. CASE PopTake(w)
    <3>1. Item(w, tail[w], 0) \in Jobs \cup {NoJob}
      BY <2>0 DEF Item, DataTypes
    <3> QED
      BY <2>0, <2>6, <3>1 DEF PopTake, DataTypes
  <2>7. CASE PullDrain(w)
    BY <2>7, DrainTypes
  <2>8. CASE PullNothing(w)
    BY <2>8 DEF PullNothing, DataTypes
  <2>9. CASE PullPublish(w)
    BY <2>9 DEF PullPublish, DataTypes
  <2>10. CASE StealLoad(w)
    BY <2>10 DEF StealLoad, DataTypes
  <2>11. CASE StealEmpty(w)
    BY <2>11 DEF StealEmpty, DataTypes
  <2>12. CASE StealCas(w)
    BY <2>12 DEF StealCas, DataTypes
  <2>13. CASE StealBusy(w)
    BY <2>13 DEF StealBusy, DataTypes
  <2>14. CASE StealCopy(w)
    <3>1. PICK v \in Workers, n \in 0..Capacity, c \in Cursor :
            v = local[w].victim /\ n = local[w].copied /\ c = local[w].blocked
      BY OneRing
    <3>2. At(tail[w], n) \in SlotIndex /\ At(c, n) \in SlotIndex
      BY <2>0, <3>1, SlotType
    <3>3. Item(v, c, n) \in Jobs \cup {NoJob}
      BY <3>2 DEF Item, DataTypes
    <3> DEFINE emptied == [buffer EXCEPT ![v][At(c, n)] = NoJob]
    <3>4. emptied \in [Workers -> [SlotIndex -> Jobs \cup {NoJob}]]
      BY <3>2 DEF DataTypes
    <3>5. buffer' = [emptied EXCEPT ![w][At(tail[w], n)] = Item(v, c, n)]
      BY <2>14, <3>1 DEF StealCopy
    <3> HIDE DEF emptied
    <3>6. buffer' \in [Workers -> [SlotIndex -> Jobs \cup {NoJob}]]
      BY <3>2, <3>3, <3>4, <3>5
    <3> QED
      BY <2>14, <3>6 DEF StealCopy, DataTypes
  <2>15. CASE StealPublish(w)
    BY <2>15 DEF StealPublish, DataTypes
  <2>16. CASE StealBump(w)
    BY <2>16 DEF StealBump, DataTypes
  <2> QED
    BY <1>2, <2>1, <2>2, <2>3, <2>4, <2>5, <2>6, <2>7, <2>8, <2>9, <2>10, <2>11,
       <2>12, <2>13, <2>14, <2>15, <2>16 DEF Continue
<1>3. ASSUME NEW x \in Jobs, Submit(x)
      PROVE  DataTypes'
  BY <1>3 DEF Submit, DataTypes
<1>4. CASE AllDropped
  BY <1>4 DEF AllDropped, vars, DataTypes
<1> QED
  BY <1>1, <1>2, <1>3, <1>4 DEF Next
-----------------------------------------------------------------------------
\* The invariant is inductive.

\* An empty ring satisfies the invariant.
LEMMA InitRing == Init => RingInv /\ DataTypes
<1> SUFFICES ASSUME Init PROVE RingInv /\ DataTypes
  OBVIOUS
<1>1. CursorTypes
  BY WrapTypes, NoLocalType DEF Init, CursorTypes, PCs, Idle
<1>2. DataTypes
  BY DEF Init, DataTypes
<1>3. \A w \in Workers : /\ Claimed(w) = 0 /\ Filled(w) = 0
                         /\ local[w] = NoLocal(w) /\ pc[w] = "ready"
  BY WrapTypes, SubZero DEF Init, Claimed, Filled, filled_slots
<1>4. RoomInv
  BY <1>3, NoLocalType, CursorFacts DEF RoomInv
<1>5. LocalInv
  BY <1>3 DEF LocalInv, LocalOK, Stealing
<1>6. ClaimInv
  BY <1>3 DEF ClaimInv, Claims
<1>7. CoverInv
  BY <1>3 DEF CoverInv
<1> QED
  BY <1>1, <1>2, <1>4, <1>5, <1>6, <1>7 DEF RingInv

\* A step that leaves the cursors and all locals alone keeps the invariant.
LEMMA Unmoved ==
  ASSUME RingInv, UNCHANGED <<tail, blocked, stolen, pc, local>>
  PROVE  RingInv'
BY DEF RingInv, CursorTypes, RoomInv, LocalInv, LocalOK, ClaimInv, CoverInv,
       Claimed, Filled, filled_slots, Claims, Offset

\* Every step of every operation keeps the ring part of the invariant.
LEMMA StepRing ==
  ASSUME RingInv, DataTypes, Next
  PROVE  RingInv'
<1>1. ASSUME NEW w \in Workers, Operation(w)
      PROVE  RingInv'
  <2>1. ASSUME NEW x \in Jobs, PushLoad(w, x) PROVE RingInv'
    BY <2>1, PushLoadInv
  <2>2. CASE PopLoad(w)
    BY <2>2, PopLookInv DEF PopLoad, Claims, anchors
  <2>3. CASE PullLoad(w)
    BY <2>3, PullLoadInv
  <2>4. ASSUME NEW v \in Workers, NEW max \in 1..Capacity, StealBegin(w, v, max)
        PROVE  RingInv'
    BY <2>4, StealBeginInv
  <2>5. CASE Retry(w)
    BY <2>5, Ends DEF Retry, Claims, anchors
  <2>6. CASE Exit(w)
    BY <2>6, Ends DEF Exit, Claims, anchors
  <2>7. CASE Drop(w)
    BY <2>7, Ends DEF Drop, Claims, anchors
  <2> QED
    BY <1>1, <2>1, <2>2, <2>3, <2>4, <2>5, <2>6, <2>7 DEF Operation
<1>2. ASSUME NEW w \in Workers, Continue(w)
      PROVE  RingInv'
  <2>1. CASE PushWrite(w)
    BY <2>1, PushWriteInv
  <2>2. CASE PushPublish(w)
    BY <2>2, PublishInv DEF PushPublish, Claims
  <2>3. CASE Spill(w)
    BY <2>3, Ends DEF Spill, Claims, anchors
  <2>4. CASE PopCas(w)
    BY <2>4, PopCasInv
  <2>5. CASE PopRetry(w)
    BY <2>5, PopLookInv DEF PopRetry, Claims, anchors
  <2>6. CASE PopTake(w)
    BY <2>6, Ends DEF PopTake, Claims, anchors
  <2>7. CASE PullDrain(w)
    BY <2>7, PullDrainInv
  <2>8. CASE PullNothing(w)
    BY <2>8, Ends DEF PullNothing, Claims, anchors
  <2>9. CASE PullPublish(w)
    BY <2>9, PublishInv DEF PullPublish, Claims
  <2>10. CASE StealLoad(w)
    BY <2>10, StealLoadInv
  <2>11. CASE StealEmpty(w)
    BY <2>11, Ends DEF StealEmpty, Claims, anchors
  <2>12. CASE StealCas(w)
    BY <2>12, StealCasInv
  <2>13. CASE StealBusy(w)
    BY <2>13, Ends DEF StealBusy, Claims, anchors
  <2>14. CASE StealCopy(w)
    BY <2>14, StealCopyInv
  <2>15. CASE StealPublish(w)
    BY <2>15, StealPublishInv
  <2>16. CASE StealBump(w)
    BY <2>16, PublishInv DEF StealBump, Claims
  <2> QED
    BY <1>2, <2>1, <2>2, <2>3, <2>4, <2>5, <2>6, <2>7, <2>8, <2>9, <2>10, <2>11,
       <2>12, <2>13, <2>14, <2>15, <2>16 DEF Continue
<1>3. ASSUME NEW x \in Jobs, Submit(x)
      PROVE  RingInv'
  BY <1>3, Unmoved DEF Submit, anchors
<1>4. CASE AllDropped
  BY <1>4, Unmoved DEF AllDropped, vars
<1> QED
  BY <1>1, <1>2, <1>3, <1>4 DEF Next

\* The whole inductive invariant, for every instance of the deques.
THEOREM Invariance == Spec => []WorkersInv
<1>1. Init => RingInv /\ DataTypes
  BY InitRing
<1>2. RingInv /\ DataTypes /\ [Next]_vars => RingInv' /\ DataTypes'
  <2>1. CASE Next
    BY <2>1, StepRing, StepTypes
  <2>2. CASE UNCHANGED vars
    BY <2>2, Unmoved DEF vars, DataTypes
  <2> QED
    BY <2>1, <2>2
<1>3. RingInv /\ DataTypes => WorkersInv
  BY DEF RingInv, CursorTypes, DataTypes, WorkersInv, TypeOK
<1> QED
  BY <1>1, <1>2, <1>3, PTL DEF Spec

\* The ring part is implied by the invariant that the run checks.
LEMMA RingOfIInv == WorkersInv => RingInv
BY DEF WorkersInv, TypeOK, RingInv, CursorTypes

(***************************************************************************)
(* Type correctness.                                                       *)
(***************************************************************************)
THEOREM TypeCorrect == Spec => []TypeOK
<1>1. WorkersInv => TypeOK
  BY DEF WorkersInv
<1> QED
  BY <1>1, Invariance, PTL

(***************************************************************************)
(* consumer_publish_stolen always has a next thief: outstanding claims     *)
(* cover the claimed slots, so one of them starts at `stolen`.             *)
(***************************************************************************)
THEOREM NobodyWaitsInCircle == Spec => []NextInLine
<1>1. WorkersInv => NextInLine
  <2> SUFFICES ASSUME RingInv, NEW v \in Workers, stolen[v] # blocked[v]
               PROVE  \E w \in Workers :
                        /\ pc[w] \in {"steal_copy", "steal_publish"}
                        /\ local[w].victim = v /\ local[w].blocked = stolen[v]
    BY RingOfIInv DEF NextInLine
  <2>1. Claimed(v) \in Nat /\ Claimed(v) # 0
    BY OneRing, SubZero DEF Claimed
  <2>2. 0 \in 0..(Claimed(v) - 1)
    BY <2>1
  <2>3. PICK w \in Workers : Claims(w) /\ local[w].victim = v /\ Offset(w) <= 0
    BY <2>2 DEF RingInv, CoverInv
  <2>4. Offset(w) = 0
    BY <2>3, OneRing, SubNat DEF Offset
  <2>5. local[w].blocked = stolen[v]
    BY <2>3, <2>4, OneRing, SubZero DEF Offset
  <2> QED
    BY <2>3, <2>5 DEF Claims
<1> QED
  BY <1>1, Invariance, PTL
-----------------------------------------------------------------------------
\* The unsafe accesses, as places of a ring counted from `stolen`.

\* A thief reads inside the claimed slots of its victim.
LEMMA ReadPlaces ==
  ASSUME RingInv, NEW t \in Workers, pc[t] = "steal_copy", NEW c \in Reads(t)
  PROVE  \E k \in 0..(Capacity - 1) :
           /\ c = <<local[t].victim, At(stolen[local[t].victim], k)>>
           /\ Offset(t) <= k /\ k < Offset(t) + local[t].amount
           /\ k < Claimed(local[t].victim)
<1>1. PICK n \in local[t].copied..(local[t].amount - 1) :
        c = <<local[t].victim, At(local[t].blocked, n)>>
  BY DEF Reads, Span
<1>2. PICK v \in Workers : v = local[t].victim
  BY OneRing
<1>3. /\ Offset(t) \in Nat /\ n \in 0..Capacity /\ n < local[t].amount
      /\ local[t].amount \in Nat /\ n \in Nat
  <2>1. /\ local[t].copied \in 0..Capacity /\ local[t].amount \in 0..Capacity
        /\ local[t].blocked \in Cursor /\ stolen[local[t].victim] \in Cursor
    BY OneRing
  <2>2. Offset(t) \in Nat
    BY <2>1, SubNat DEF Offset
  <2> QED
    BY <1>1, <2>1, <2>2, CursorFacts
<1>4. Offset(t) + local[t].amount <= Claimed(v) /\ Claimed(v) <= Capacity
  <2>1. Offset(t) + local[t].amount <= Claimed(v)
    BY <1>2 DEF RingInv, ClaimInv, Claims
  <2>2. Claimed(v) <= Capacity
    BY OneRing, CursorFacts
  <2> QED
    BY <2>1, <2>2
<1>5. Offset(t) + n <= Capacity /\ Offset(t) + n \in 0..(Capacity - 1)
  BY <1>3, <1>4, OneRing, CursorFacts
<1>6. WrappingAdd(local[t].blocked, n) = WrappingAdd(stolen[v], Offset(t) + n)
  BY <1>2, <1>3, <1>5, OneRing, AddFrom DEF Offset
<1>7. Offset(t) + n < Offset(t) + local[t].amount /\ Offset(t) + n < Claimed(v)
  BY <1>3, <1>4, OneRing
<1>8. c = <<local[t].victim, At(stolen[local[t].victim], Offset(t) + n)>>
  BY <1>1, <1>2, <1>6 DEF At
<1>9. Offset(t) <= Offset(t) + n
  BY <1>3
<1> QED
  BY <1>2, <1>5, <1>7, <1>8, <1>9

\* An owner reads and writes behind the claimed and the queued slots.
LEMMA OwnPlaces ==
  ASSUME RingInv, NEW u \in Workers, NEW c,
         c \in Writes(u) \/ (pc[u] = "pop_take" /\ c \in Reads(u))
  PROVE  \E k \in 0..(Capacity - 1) :
           c = <<u, At(stolen[u], k)>> /\ Claimed(u) <= k
<1>1. PICK n \in 0..(local[u].amount - 1) : c = <<u, At(tail[u], n)>>
  <2>1. CASE pc[u] \in {"push_write", "pop_take"}
    <3>1. local[u].amount = 1 /\ c \in Span(u, tail[u], 0, 0)
      BY <2>1, OneRing DEF LocalOK, Reads, Writes
    <3> QED
      BY <3>1 DEF Span
  <2>2. CASE pc[u] = "pull_drain"
    BY <2>2 DEF Writes, Span
  <2>3. CASE pc[u] = "steal_copy"
    <3>1. local[u].copied \in Nat /\ local[u].amount \in Nat
      BY OneRing
    <3> QED
      BY <2>3, <3>1 DEF Writes, Span
  <2> QED
    BY <2>1, <2>2, <2>3 DEF Writes
<1> DEFINE d == Claimed(u) + Filled(u)
<1>2. Claimed(u) \in Nat /\ Filled(u) \in Nat /\ d + local[u].amount <= Capacity
  BY OneRing
<1>3. n \in 0..Capacity /\ d + n \in 0..(Capacity - 1) /\ d + n <= Capacity /\ Claimed(u) <= d + n
  BY <1>1, <1>2, OneRing, CursorFacts
<1>4. d <= Capacity
  BY <1>2, OneRing, CursorFacts
<1>5. WrappingSub(tail[u], stolen[u]) = d
  BY <1>4, OneRing, SubChain DEF Claimed, Filled, filled_slots
<1>6. WrappingAdd(tail[u], n) = WrappingAdd(stolen[u], d + n)
  <2> HIDE DEF d
  <2> QED
    BY <1>3, <1>5, OneRing, AddFrom
<1>7. c = <<u, At(stolen[u], d + n)>>
  BY <1>1, <1>6 DEF At
<1> HIDE DEF d
<1> QED
  BY <1>3, <1>7

(***************************************************************************)
(* No two workers ever touch one slot at the same time: the unsafe reads   *)
(* and writes of push, pop, pull and steal need no lock.                   *)
(***************************************************************************)
THEOREM RaceFreedom == Spec => []NoSlotRace
<1>1. WorkersInv => NoSlotRace
  <2> SUFFICES ASSUME RingInv, NEW t \in Workers, NEW u \in Workers, t # u
               PROVE  /\ Reads(t) \cap Reads(u) = {}
                      /\ (Reads(t) \cup Writes(t)) \cap Writes(u) = {}
    BY RingOfIInv DEF NoSlotRace
  <2>1. ASSUME NEW q \in Workers, NEW i \in 0..(Capacity - 1), NEW j \in 0..(Capacity - 1),
               At(stolen[q], i) = At(stolen[q], j)
        PROVE  i = j
    BY <2>1, OneRing, SlotInjective DEF At
  <2>2. ASSUME NEW a \in Workers, NEW b \in Workers, a # b, pc[a] = "steal_copy", NEW c,
               c \in Reads(a), c \in Writes(b) \/ (pc[b] = "pop_take" /\ c \in Reads(b))
        PROVE  FALSE
    <3>1. PICK i \in 0..(Capacity - 1) :
            /\ c = <<local[a].victim, At(stolen[local[a].victim], i)>>
            /\ i < Claimed(local[a].victim)
      BY <2>2, ReadPlaces
    <3>2. PICK j \in 0..(Capacity - 1) : c = <<b, At(stolen[b], j)>> /\ Claimed(b) <= j
      BY <2>2, OwnPlaces
    <3>3. local[a].victim = b /\ At(stolen[b], i) = At(stolen[b], j)
      BY <3>1, <3>2
    <3>4. i = j
      BY <2>1, <3>3
    <3> QED
      BY <3>1, <3>2, <3>3, <3>4, OneRing
  <2>3. ASSUME NEW c, c \in Reads(t), c \in Reads(u), pc[t] = "steal_copy", pc[u] = "steal_copy"
        PROVE  FALSE
    <3>1. PICK i \in 0..(Capacity - 1) :
            /\ c = <<local[t].victim, At(stolen[local[t].victim], i)>>
            /\ Offset(t) <= i /\ i < Offset(t) + local[t].amount
      BY <2>3, ReadPlaces
    <3>2. PICK j \in 0..(Capacity - 1) :
            /\ c = <<local[u].victim, At(stolen[local[u].victim], j)>>
            /\ Offset(u) <= j /\ j < Offset(u) + local[u].amount
      BY <2>3, ReadPlaces
    <3>3. PICK v \in Workers : v = local[t].victim
      BY OneRing
    <3>4. local[u].victim = v /\ At(stolen[v], i) = At(stolen[v], j)
      BY <3>1, <3>2, <3>3
    <3>5. i = j
      BY <2>1, <3>4
    <3>6. \/ Offset(t) + local[t].amount <= Offset(u)
          \/ Offset(u) + local[u].amount <= Offset(t)
      BY <2>3, <3>3, <3>4 DEF RingInv, ClaimInv, Claims
    <3>7. /\ Offset(t) \in Nat /\ Offset(u) \in Nat
          /\ local[t].amount \in Nat /\ local[u].amount \in Nat
      BY OneRing, SubNat DEF Offset
    <3> QED
      BY <3>1, <3>2, <3>5, <3>6, <3>7
  <2>4. \A w \in Workers : \A c : c \in Reads(w) => pc[w] \in {"steal_copy", "pop_take"}
    BY DEF Reads
  <2>5. ASSUME NEW c, c \in Writes(t) \/ (pc[t] = "pop_take" /\ c \in Reads(t)),
               c \in Writes(u) \/ (pc[u] = "pop_take" /\ c \in Reads(u))
        PROVE  FALSE
    <3>1. \E k : c = <<t, At(stolen[t], k)>>
      BY <2>5, OwnPlaces
    <3>2. \E k : c = <<u, At(stolen[u], k)>>
      BY <2>5, OwnPlaces
    <3> QED
      BY <3>1, <3>2
  <2>6. Reads(t) \cap Reads(u) = {}
    BY <2>2, <2>3, <2>4, <2>5
  <2>7. (Reads(t) \cup Writes(t)) \cap Writes(u) = {}
    BY <2>2, <2>4, <2>5
  <2> QED
    BY <2>6, <2>7
<1> QED
  BY <1>1, Invariance, PTL
-----------------------------------------------------------------------------
(***************************************************************************)
(* What the slots hold.                                                    *)
(***************************************************************************)

\* All that a step relies on.
Sound == RingInv /\ DataTypes /\ JobInv
-----------------------------------------------------------------------------
\* Runs of cursors.

\* Adding a distance leads to the cursor it was measured to, and back.
LEMMA RunEnds ==
  /\ \A s, c \in Cursor : WrappingAdd(s, WrappingSub(c, s)) = c
  /\ \A s \in Cursor, n \in 0..Capacity : WrappingSub(WrappingAdd(s, n), s) = n
<1>1. ASSUME NEW s \in Cursor, NEW c \in Cursor
      PROVE  WrappingAdd(s, WrappingSub(c, s)) = c
  <2>1. WrappingSub(c, s) = IF c >= s THEN c - s ELSE c - s + Wrap
    BY SubIf
  <2>2. WrappingSub(c, s) \in 0..Wrap
    BY WrapTypes
  <2>3. WrappingAdd(s, WrappingSub(c, s))
        = IF s + WrappingSub(c, s) < Wrap THEN s + WrappingSub(c, s) ELSE s + WrappingSub(c, s) - Wrap
    BY <2>2, AddIf
  <2> QED
    BY <2>1, <2>3, CursorFacts DEF Cursor
<1>2. ASSUME NEW s \in Cursor, NEW n \in 0..Capacity
      PROVE  WrappingSub(WrappingAdd(s, n), s) = n
  <2>1. WrappingSub(s, s) = 0
    BY SubZero
  <2> QED
    BY <2>1, SubAdd, CursorFacts
<1> QED
  BY <1>1, <1>2

\* A run of cursors in two parts: those up to t, and n from t on.
LEMMA RunSplit ==
  ASSUME NEW b \in Cursor, NEW t \in Cursor, NEW c \in Cursor, NEW n \in 0..Capacity,
         WrappingSub(t, b) + n <= Capacity
  PROVE  /\ InRun(c, b, WrappingSub(t, b) + n) <=> InRun(c, b, WrappingSub(t, b)) \/ InRun(c, t, n)
         /\ InRun(c, t, n) => WrappingSub(c, b) = WrappingSub(t, b) + WrappingSub(c, t)
<1>1. /\ WrappingSub(c, b) = IF c >= b THEN c - b ELSE c - b + Wrap
      /\ WrappingSub(t, b) = IF t >= b THEN t - b ELSE t - b + Wrap
      /\ WrappingSub(c, t) = IF c >= t THEN c - t ELSE c - t + Wrap
  BY SubIf
<1> QED
  BY <1>1, CursorFacts DEF Cursor, InRun

\* A run without its first n cursors.
LEMMA RunRest ==
  ASSUME NEW b \in Cursor, NEW c \in Cursor, NEW m \in 0..Capacity, NEW n \in 0..m
  PROVE  InRun(c, WrappingAdd(b, n), m - n) <=> InRun(c, b, m) /\ n <= WrappingSub(c, b)
<1> DEFINE d == WrappingAdd(b, n)
<1>1. n \in 0..Capacity /\ m - n \in 0..Capacity
  BY CursorFacts
<1>2. d \in Cursor /\ WrappingSub(d, b) = n
  BY <1>1, RunEnds, WrapTypes
<1>3. /\ WrappingSub(c, b) = IF c >= b THEN c - b ELSE c - b + Wrap
      /\ WrappingSub(d, b) = IF d >= b THEN d - b ELSE d - b + Wrap
      /\ WrappingSub(c, d) = IF c >= d THEN c - d ELSE c - d + Wrap
  BY <1>2, SubIf
<1> HIDE DEF d
<1>4. WrappingSub(c, d) < m - n <=> WrappingSub(c, b) < m /\ n <= WrappingSub(c, b)
  BY <1>1, <1>2, <1>3, CursorFacts DEF Cursor
<1> QED
  BY <1>4 DEF d, InRun

\* Two cursors in one turn of the ring are at different slots.
LEMMA SlotOnce ==
  ASSUME NEW s \in Cursor, NEW c \in Cursor, NEW d \in Cursor,
         WrappingSub(c, s) < Capacity, WrappingSub(d, s) < Capacity, Slot(c) = Slot(d)
  PROVE  c = d
<1>1. WrappingSub(c, s) \in 0..(Capacity - 1) /\ WrappingSub(d, s) \in 0..(Capacity - 1)
  BY SubNat, CursorFacts
<1>2. /\ WrappingAdd(s, WrappingSub(c, s)) = c
      /\ WrappingAdd(s, WrappingSub(d, s)) = d
  BY RunEnds
<1>3. WrappingSub(c, s) = WrappingSub(d, s)
  BY <1>1, <1>2, SlotInjective
<1> QED
  BY <1>2, <1>3
-----------------------------------------------------------------------------
\* Where the held cursors of a ring are, counted from `stolen`.

\* The cursors the owner has reserved behind its tail.
Own(q, c) == InRun(c, tail[q], local[q].amount)

\* A queued cursor lies behind the claimed ones.
LEMMA WhereQueued ==
  ASSUME RingInv, NEW q \in Workers, NEW c \in Cursor, InRun(c, blocked[q], Filled(q))
  PROVE  /\ Claimed(q) <= WrappingSub(c, stolen[q])
         /\ WrappingSub(c, stolen[q]) < Claimed(q) + Filled(q)
         /\ WrappingSub(c, stolen[q]) = Claimed(q) + WrappingSub(c, blocked[q])
<1>1. /\ blocked[q] \in Cursor /\ stolen[q] \in Cursor /\ Claimed(q) \in Nat
      /\ Filled(q) \in 0..Capacity /\ Claimed(q) + Filled(q) <= Capacity
  BY OneRing, CursorFacts
<1>2. WrappingSub(c, stolen[q]) = Claimed(q) + WrappingSub(c, blocked[q])
  BY <1>1, RunSplit DEF Claimed
<1>3. WrappingSub(c, blocked[q]) \in Nat
  BY <1>1, SubNat
<1> QED
  BY <1>1, <1>2, <1>3 DEF InRun

\* The cursors the owner uses lie behind the queued ones.
LEMMA WhereOwn ==
  ASSUME RingInv, NEW q \in Workers, NEW c \in Cursor, Own(q, c)
  PROVE  /\ Claimed(q) + Filled(q) <= WrappingSub(c, stolen[q])
         /\ WrappingSub(c, stolen[q]) < Capacity
<1>1. /\ tail[q] \in Cursor /\ blocked[q] \in Cursor /\ stolen[q] \in Cursor
      /\ Claimed(q) \in Nat /\ Filled(q) \in Nat /\ local[q].amount \in 0..Capacity
      /\ Claimed(q) + Filled(q) + local[q].amount <= Capacity
  BY OneRing
<1>2. WrappingSub(tail[q], stolen[q]) = Claimed(q) + Filled(q)
  BY <1>1, SubChain, CursorFacts DEF Claimed, Filled, filled_slots
<1>3. WrappingSub(c, stolen[q]) = Claimed(q) + Filled(q) + WrappingSub(c, tail[q])
  BY <1>1, <1>2, RunSplit DEF Own
<1>4. WrappingSub(c, tail[q]) \in Nat
  BY <1>1, SubNat
<1> QED
  BY <1>1, <1>3, <1>4, CursorFacts DEF Own, InRun

\* What a thief has yet to copy is claimed.
LEMMA WhereLeft ==
  ASSUME RingInv, NEW t \in Workers, NEW q \in Workers, NEW c \in Cursor,
         Claims(t), local[t].victim = q, InRun(c, local[t].blocked, local[t].amount)
  PROVE  /\ Offset(t) \in Nat /\ WrappingSub(c, local[t].blocked) \in Nat
         /\ WrappingSub(c, stolen[q]) = Offset(t) + WrappingSub(c, local[t].blocked)
         /\ WrappingSub(c, stolen[q]) < Offset(t) + local[t].amount
         /\ WrappingSub(c, stolen[q]) < Claimed(q)
<1>1. /\ local[t].blocked \in Cursor /\ stolen[q] \in Cursor /\ Claimed(q) \in Nat
      /\ local[t].amount \in 0..Capacity /\ Claimed(q) <= Capacity
  BY OneRing, CursorFacts
<1>2. Offset(t) + local[t].amount <= Claimed(q) /\ Offset(t) = WrappingSub(local[t].blocked, stolen[q])
  BY DEF RingInv, ClaimInv, Offset
<1>3. Offset(t) \in Nat /\ WrappingSub(c, local[t].blocked) \in Nat
  BY <1>1, <1>2, SubNat
<1>4. WrappingSub(c, stolen[q]) = Offset(t) + WrappingSub(c, local[t].blocked)
  <2>1. Offset(t) + local[t].amount <= Capacity
    BY <1>1, <1>2, <1>3, CursorFacts
  <2> QED
    BY <1>1, <1>2, <2>1, RunSplit
<1> QED
  BY <1>1, <1>2, <1>3, <1>4, CursorFacts DEF InRun

\* What is moved or popped lies in the reserved slots of the owner.
LEMMA OwnHolds ==
  ASSUME Sound, NEW q \in Workers, NEW c \in Cursor, Moved(q, c) \/ Popped(q, c)
  PROVE  Own(q, c)
<1>1. /\ tail[q] \in Cursor /\ local[q].amount \in Nat /\ local[q].copied \in Nat
      /\ LocalOK(q, pc[q], local[q], tail[q]) /\ MoveOK(pc[q], local[q])
  BY OneRing DEF Sound, JobInv, MoveInv
<1>2. CASE Moved(q, c)
  <2>1. local[q].copied <= local[q].amount
    BY <1>1, <1>2 DEF Moved, LocalOK, MoveOK, Publishing
  <2>2. WrappingSub(c, tail[q]) \in Nat
    BY <1>1, SubNat
  <2> QED
    BY <1>1, <1>2, <2>1, <2>2 DEF Moved, Own, InRun
<1>3. CASE Popped(q, c)
  <2>1. WrappingSub(c, tail[q]) = 0 /\ local[q].amount = 1
    BY <1>1, <1>3, SubZero DEF Popped, LocalOK
  <2> QED
    BY <2>1 DEF Own, InRun
<1> QED
  BY <1>2, <1>3

\* All of it fits one turn of the ring.
LEMMA Window ==
  ASSUME Sound, NEW q \in Workers, NEW c \in Cursor, Held(q, c) \/ Own(q, c)
  PROVE  WrappingSub(c, stolen[q]) < Capacity
<1>0. /\ RingInv /\ Claimed(q) \in Nat /\ Filled(q) \in Nat /\ Claimed(q) + Filled(q) <= Capacity
      /\ WrappingSub(c, stolen[q]) \in Nat
  BY OneRing, SubNat, CursorFacts DEF Sound
<1>1. CASE Queued(q, c)
  BY <1>0, <1>1, WhereQueued, CursorFacts DEF Queued
<1>2. CASE Own(q, c) \/ Moved(q, c) \/ Popped(q, c)
  BY <1>0, <1>2, OwnHolds, WhereOwn
<1>3. ASSUME NEW t \in Workers, Left(t, q, c)
      PROVE  WrappingSub(c, stolen[q]) < Capacity
  <2>1. WrappingSub(c, stolen[q]) < Claimed(q)
    BY <1>0, <1>3, WhereLeft DEF Left, Claims
  <2> QED
    BY <1>0, <2>1, CursorFacts
<1> QED
  BY <1>1, <1>2, <1>3 DEF Held

\* A slot is at one cursor of those that are held or reserved.
LEMMA OneCursor ==
  ASSUME Sound, NEW q \in Workers, NEW c \in Cursor, NEW d \in Cursor,
         Held(q, c) \/ Own(q, c), Held(q, d) \/ Own(q, d), Slot(c) = Slot(d)
  PROVE  c = d
<1>1. stolen[q] \in Cursor
  BY OneRing DEF Sound
<1>2. WrappingSub(c, stolen[q]) < Capacity /\ WrappingSub(d, stolen[q]) < Capacity
  BY Window
<1> QED
  BY <1>1, <1>2, SlotOnce

\* The parts of a ring do not overlap.
LEMMA Apart ==
  ASSUME Sound, NEW q \in Workers, NEW c \in Cursor
  PROVE  /\ Queued(q, c) => ~Own(q, c)
         /\ \A t \in Workers : Left(t, q, c) => ~Queued(q, c) /\ ~Own(q, c)
         /\ \A t, u \in Workers : Left(t, q, c) /\ Left(u, q, c) => t = u
<1>0. /\ RingInv /\ Claimed(q) \in Nat /\ Filled(q) \in Nat
      /\ stolen[q] \in Cursor /\ WrappingSub(c, stolen[q]) \in Nat
  BY OneRing, SubNat DEF Sound
<1>1. Queued(q, c) => ~Own(q, c)
  BY <1>0, WhereQueued, WhereOwn DEF Queued
<1>2. ASSUME NEW t \in Workers, Left(t, q, c)
      PROVE  ~Queued(q, c) /\ ~Own(q, c)
  <2>1. WrappingSub(c, stolen[q]) < Claimed(q)
    BY <1>0, <1>2, WhereLeft DEF Left, Claims
  <2> QED
    BY <1>0, <2>1, WhereQueued, WhereOwn DEF Queued
<1>3. ASSUME NEW t \in Workers, NEW u \in Workers, Left(t, q, c), Left(u, q, c), t # u
      PROVE  FALSE
  <2>1. /\ Claims(t) /\ Claims(u) /\ local[t].victim = q /\ local[u].victim = q
        /\ InRun(c, local[t].blocked, local[t].amount) /\ InRun(c, local[u].blocked, local[u].amount)
    BY <1>3 DEF Left, Claims
  <2>2. /\ Offset(t) \in Nat /\ WrappingSub(c, local[t].blocked) \in Nat
        /\ WrappingSub(c, stolen[q]) = Offset(t) + WrappingSub(c, local[t].blocked)
        /\ WrappingSub(c, stolen[q]) < Offset(t) + local[t].amount
    BY <1>0, <2>1, WhereLeft
  <2>3. /\ Offset(u) \in Nat /\ WrappingSub(c, local[u].blocked) \in Nat
        /\ WrappingSub(c, stolen[q]) = Offset(u) + WrappingSub(c, local[u].blocked)
        /\ WrappingSub(c, stolen[q]) < Offset(u) + local[u].amount
    BY <1>0, <2>1, WhereLeft
  <2>4. \/ Offset(t) + local[t].amount <= Offset(u)
        \/ Offset(u) + local[u].amount <= Offset(t)
    BY <1>0, <1>3, <2>1 DEF RingInv, ClaimInv
  <2>5. local[t].amount \in Nat /\ local[u].amount \in Nat
    BY <1>0, OneRing
  <2> QED
    BY <1>0, <2>2, <2>3, <2>4, <2>5
<1> QED
  BY <1>1, <1>2, <1>3
-----------------------------------------------------------------------------
\* The two small parts: batches in motion, and empty deques.

\* A step of w that leaves the rings of searching workers alone.
LEMMA MoveAside ==
  ASSUME Sound, NEW w \in Workers, NEW p \in PCs, NEW l \in Locals, Goto(w, p, l),
         MoveOK(p, l), p \in Searching => Filled(w)' = 0,
         \A u \in Workers : u # w /\ pc[u] \in Searching => Filled(u)' = Filled(u)
  PROVE  MoveInv'
<1>1. pc'[w] = p /\ local'[w] = l
  BY DEF Sound, RingInv, CursorTypes, Goto
<1>2. \A u \in Workers : u # w => pc'[u] = pc[u] /\ local'[u] = local[u]
  BY DEF Sound, RingInv, CursorTypes, Goto
<1>3. \A u \in Workers : MoveOK(pc[u], local[u]) /\ (pc[u] \in Searching => Filled(u) = 0)
  BY DEF Sound, JobInv, MoveInv
<1> SUFFICES ASSUME NEW u \in Workers
             PROVE  MoveOK(pc'[u], local'[u]) /\ (pc'[u] \in Searching => Filled(u)' = 0)
  BY DEF MoveInv
<1>4. CASE u = w
  BY <1>1, <1>4
<1>5. CASE u # w
  BY <1>2, <1>3, <1>5
<1> QED
  BY <1>4, <1>5

\* The same for a step that moves no cursor of an anchor.
LEMMA MoveStill ==
  ASSUME Sound, NEW w \in Workers, NEW p \in PCs, NEW l \in Locals, Goto(w, p, l),
         MoveOK(p, l), p \in Searching => Filled(w) = 0, tail' = tail, blocked' = blocked
  PROVE  MoveInv'
<1>1. \A u \in Workers : Filled(u)' = Filled(u)
  BY DEF Filled
<1> QED
  BY <1>1, MoveAside

\* Publishing a batch, and popping, change the own deque of a worker that is not
\* searching.
LEMMA MoveOwn ==
  ASSUME Sound, NEW w \in Workers, NEW p \in PCs \ Searching, NEW l \in Locals, Goto(w, p, l),
         MoveOK(p, l), NEW t, tail' = [tail EXCEPT ![w] = t], blocked' = blocked
  PROVE  MoveInv'
<1>1. \A u \in Workers : u # w => Filled(u)' = Filled(u)
  BY DEF Filled, Sound, RingInv, CursorTypes
<1> QED
  BY <1>1, MoveAside

\* An operation that ends without having found the own deque empty.
LEMMA MoveEnds ==
  ASSUME Sound, NEW w \in Workers, NEW p \in {"ready", "exited", "dropped"}, Return(w, p),
         tail' = tail, blocked' = blocked
  PROVE  MoveInv'
<1>1. p \in PCs /\ p \notin Searching /\ p \notin Publishing
  BY DEF PCs, Idle, Searching, Publishing
<1>2. MoveOK(p, NoLocal(w))
  BY <1>1 DEF MoveOK
<1>3. Goto(w, p, NoLocal(w)) /\ NoLocal(w) \in Locals
  BY NoLocalType DEF Return
<1> QED
  BY <1>1, <1>2, <1>3, MoveStill

\* An operation of a searching worker that ends without a job.
LEMMA MoveDry ==
  ASSUME Sound, NEW w \in Workers, Return(w, "dry"), Filled(w) = 0,
         tail' = tail, blocked' = blocked
  PROVE  MoveInv'
<1>1. "dry" \in PCs /\ MoveOK("dry", NoLocal(w))
  BY DEF PCs, Idle, Publishing, MoveOK
<1>2. Goto(w, "dry", NoLocal(w)) /\ NoLocal(w) \in Locals
  BY NoLocalType DEF Return
<1> QED
  BY <1>1, <1>2, MoveStill

\* A worker that searches has an empty deque.
LEMMA SearchEmpty ==
  ASSUME Sound, NEW w \in Workers, pc[w] \in Searching
  PROVE  Filled(w) = 0
BY DEF Sound, JobInv, MoveInv

\* pop reads its own anchor.
LEMMA MoveLook ==
  ASSUME Sound, NEW w \in Workers, PopLook(w), tail' = tail, blocked' = blocked
  PROVE  MoveInv'
<1>0. Filled(w) \in Nat /\ blocked[w] \in Cursor
  BY OneRing DEF Sound
<1>1. CASE Filled(w) < 1
  BY <1>0, <1>1, MoveDry DEF PopLook, Return
<1>2. CASE ~(Filled(w) < 1)
  <2> DEFINE l == [NoLocal(w) EXCEPT !.blocked = blocked[w]]
  <2>1. l \in Locals
    BY <1>0, NoLocalType DEF Locals, NoLocal
  <2>2. Goto(w, "pop_cas", l)
    BY <1>2 DEF PopLook
  <2>3. "pop_cas" \in PCs /\ "pop_cas" \notin Searching /\ MoveOK("pop_cas", l)
    BY DEF PCs, Searching, MoveOK, Publishing
  <2> HIDE DEF l
  <2> QED
    BY <2>1, <2>2, <2>3, MoveStill
<1> QED
  BY <1>1, <1>2

\* The claim empties no deque of a worker that searches: there was a job in it.
LEMMA MoveCas ==
  ASSUME Sound, NEW w \in Workers, StealCas(w)
  PROVE  MoveInv'
<1>1. PICK v \in Workers : v = local[w].victim
  BY OneRing DEF Sound
<1>2. local[w] \in Locals /\ LocalOK(w, pc[w], local[w], tail[w]) /\ local[w].amount \in Nat
  BY OneRing DEF Sound
<1>3. Filled(v) >= 1 /\ Filled(v) \in Nat
  <2>1. local[w].amount \in 1..WrappingSub(local[w].tail, local[w].blocked)
    BY <1>2 DEF StealCas, LocalOK
  <2>2. Filled(v) = WrappingSub(local[w].tail, local[w].blocked) /\ Filled(v) \in Nat
    BY <1>1, OneRing DEF StealCas, AnchorUnchanged, Filled, filled_slots, Sound
  <2> QED
    BY <2>1, <2>2
<1>4. \A u \in Workers : u # v => Filled(u)' = Filled(u)
  BY <1>1 DEF StealCas, Filled, Sound, RingInv, CursorTypes
<1>5. pc[v] \notin Searching
  BY <1>3, SearchEmpty
<1>6. Goto(w, "steal_copy", local[w]) /\ "steal_copy" \in PCs
  BY DEF StealCas, PCs, Stealing
<1>7. MoveOK("steal_copy", local[w]) /\ "steal_copy" \notin Searching
  BY DEF MoveOK, Searching
<1> QED
  BY <1>2, <1>4, <1>5, <1>6, <1>7, MoveAside

\* Every step of every operation.
LEMMA MoveStep ==
  ASSUME Sound, Next
  PROVE  MoveInv'
<1> DEFINE Keep(w) == tail' = tail /\ blocked' = blocked
<1>0. ASSUME NEW w \in Workers
      PROVE  /\ Free(w) \in 0..Capacity /\ local[w] \in Locals
             /\ LocalOK(w, pc[w], local[w], tail[w])
             /\ local[w].amount \in 0..Capacity /\ local[w].copied \in 0..Capacity
             /\ tail[w] \in Cursor /\ blocked[w] \in Cursor /\ local[w].victim \in Workers
             /\ MoveOK(pc[w], local[w]) /\ Len(shared) \in Nat
  BY OneRing DEF Sound, DataTypes, JobInv, MoveInv
<1>1. ASSUME NEW w \in Workers, Operation(w)
      PROVE  MoveInv'
  <2>1. ASSUME NEW x \in Jobs, PushLoad(w, x) PROVE MoveInv'
    <3> DEFINE p == IF Free(w) < 1 THEN "spill" ELSE "push_write"
               l == [NoLocal(w) EXCEPT !.job = x, !.amount = Least(Free(w), 1)]
    <3>1. l \in Locals
      <4>1. Least(Free(w), 1) \in 0..Capacity
        BY <1>0, CursorFacts DEF Least
      <4> QED
        BY <4>1, NoLocalType DEF Locals, NoLocal
    <3>2. Goto(w, p, l) /\ Keep(w)
      BY <2>1 DEF PushLoad, anchors
    <3>3. p \in PCs /\ p \notin Searching /\ MoveOK(p, l)
      BY DEF PCs, Searching, MoveOK, Publishing
    <3> HIDE DEF p, l
    <3> QED
      BY <3>1, <3>2, <3>3, MoveStill
  <2>2. CASE PopLoad(w)
    BY <2>2, MoveLook DEF PopLoad, anchors
  <2>3. CASE PullLoad(w)
    <3> DEFINE take == Least(Least(Free(w), Capacity), Len(shared))
               l == [NoLocal(w) EXCEPT !.amount = take]
    <3>1. take \in 0..Capacity
      BY <1>0, CursorFacts DEF Least
    <3>2. Goto(w, "pull_drain", l) /\ Keep(w) /\ pc[w] \in Searching
      BY <2>3 DEF PullLoad, anchors, Searching
    <3> HIDE DEF take
    <3>3. l \in Locals
      BY <3>1, NoLocalType DEF Locals, NoLocal
    <3>4. "pull_drain" \in PCs /\ MoveOK("pull_drain", l)
      BY DEF PCs, MoveOK, Publishing
    <3> HIDE DEF l
    <3> QED
      BY <3>2, <3>3, <3>4, MoveStill, SearchEmpty
  <2>4. ASSUME NEW v \in Workers, NEW max \in 1..Capacity, StealBegin(w, v, max)
        PROVE  MoveInv'
    <3> DEFINE a == Least(Free(w), max)
               l == [NoLocal(w) EXCEPT !.victim = v, !.amount = a]
    <3>1. a \in 0..Capacity
      BY <1>0, CursorFacts DEF Least
    <3>2. Goto(w, "steal_load", l) /\ Keep(w) /\ pc[w] \in Searching
      BY <2>4 DEF StealBegin, anchors, Searching
    <3> HIDE DEF a
    <3>3. l \in Locals
      BY <3>1, NoLocalType DEF Locals, NoLocal
    <3>4. "steal_load" \in PCs /\ MoveOK("steal_load", l)
      BY DEF PCs, Stealing, MoveOK, Publishing
    <3> HIDE DEF l
    <3> QED
      BY <3>2, <3>3, <3>4, MoveStill, SearchEmpty
  <2>5. CASE Retry(w)
    BY <2>5, MoveEnds DEF Retry, anchors
  <2>6. CASE Exit(w)
    BY <2>6, MoveEnds DEF Exit, anchors
  <2>7. CASE Drop(w)
    BY <2>7, MoveEnds DEF Drop, anchors
  <2> QED
    BY <1>1, <2>1, <2>2, <2>3, <2>4, <2>5, <2>6, <2>7 DEF Operation
<1>2. ASSUME NEW w \in Workers, Continue(w)
      PROVE  MoveInv'
  <2>1. CASE PushWrite(w)
    <3> DEFINE l == [NoLocal(w) EXCEPT !.amount = 1, !.copied = 1]
    <3>1. l \in Locals /\ l.amount = 1 /\ l.copied = 1
      <4>1. 1 \in 0..Capacity
        BY CursorFacts
      <4> QED
        BY <4>1, NoLocalType DEF Locals, NoLocal
    <3>2. Goto(w, "push_publish", l) /\ Keep(w)
      BY <2>1 DEF PushWrite, anchors
    <3>3. "push_publish" \in PCs /\ "push_publish" \notin Searching /\ MoveOK("push_publish", l)
      BY <3>1 DEF PCs, Searching, MoveOK
    <3> HIDE DEF l
    <3> QED
      BY <3>1, <3>2, <3>3, MoveStill
  <2>2. CASE PushPublish(w) \/ PullPublish(w) \/ StealBump(w)
    <3>1. /\ Goto(w, "ready", NoLocal(w)) /\ blocked' = blocked
          /\ tail' = [tail EXCEPT ![w] = WrappingAdd(tail[w], local[w].amount)]
      BY <2>2 DEF PushPublish, PullPublish, StealBump, Return, PublishTail
    <3>2. "ready" \in PCs \ Searching /\ MoveOK("ready", NoLocal(w)) /\ NoLocal(w) \in Locals
      BY NoLocalType DEF PCs, Idle, Searching, MoveOK, Publishing
    <3> QED
      BY <3>1, <3>2, MoveOwn
  <2>3. CASE Spill(w)
    BY <2>3, MoveEnds DEF Spill, anchors
  <2>4. CASE PopCas(w)
    <3> DEFINE l == [NoLocal(w) EXCEPT !.amount = 1]
    <3>1. l \in Locals
      BY NoLocalType, CursorFacts DEF Locals, NoLocal
    <3>2. /\ Goto(w, "pop_take", l) /\ blocked' = blocked
          /\ tail' = [tail EXCEPT ![w] = WrappingSub(tail[w], 1)]
      BY <2>4 DEF PopCas
    <3>3. "pop_take" \in PCs \ Searching /\ MoveOK("pop_take", l)
      BY DEF PCs, Searching, MoveOK, Publishing
    <3> HIDE DEF l
    <3> QED
      BY <3>1, <3>2, <3>3, MoveOwn
  <2>5. CASE PopRetry(w)
    BY <2>5, MoveLook DEF PopRetry, anchors
  <2>6. CASE PopTake(w)
    BY <2>6, MoveEnds DEF PopTake, anchors
  <2>7. CASE PullDrain(w)
    <3> DEFINE n == Least(local[w].amount, Len(shared))
               l == [NoLocal(w) EXCEPT !.amount = n, !.copied = n]
    <3>1. n \in 0..Capacity /\ n >= 1
      BY <1>0, <2>7, CursorFacts DEF Least, PullDrain
    <3>2. Goto(w, "pull_publish", l) /\ Keep(w)
      BY <2>7 DEF PullDrain, anchors
    <3> HIDE DEF n
    <3>3. l \in Locals /\ l.amount = n /\ l.copied = n
      BY <3>1, NoLocalType DEF Locals, NoLocal
    <3>4. "pull_publish" \in PCs /\ "pull_publish" \notin Searching /\ MoveOK("pull_publish", l)
      BY <3>1, <3>3 DEF PCs, Searching, MoveOK
    <3> HIDE DEF l
    <3> QED
      BY <3>2, <3>3, <3>4, MoveStill
  <2>8. CASE PullNothing(w)
    BY <2>8, MoveDry, SearchEmpty DEF PullNothing, anchors, Searching
  <2>9. CASE StealLoad(w)
    <3> DEFINE v == local[w].victim
               a == StealAmount(w)
               l == [local[w] EXCEPT !.tail = tail[v], !.blocked = blocked[v], !.amount = a]
    <3>1. a \in 0..Capacity
      <4>1. Filled(v) \in Nat
        BY <1>0, OneRing DEF Sound
      <4> QED
        BY <1>0, <4>1, CursorFacts DEF Least, StealAmount
    <3>2. Goto(w, "steal_cas", l) /\ Keep(w) /\ pc[w] \in Searching
      BY <2>9 DEF StealLoad, anchors, Searching
    <3> HIDE DEF a
    <3>3. l \in Locals
      <4>1. local[w] \in Locals /\ tail[v] \in Cursor /\ blocked[v] \in Cursor
        BY <1>0
      <4> QED
        BY <3>1, <4>1 DEF Locals
    <3>4. "steal_cas" \in PCs /\ MoveOK("steal_cas", l)
      BY DEF PCs, Stealing, MoveOK, Publishing
    <3> HIDE DEF l
    <3> QED
      BY <3>2, <3>3, <3>4, MoveStill, SearchEmpty
  <2>10. CASE StealEmpty(w)
    BY <2>10, MoveDry, SearchEmpty DEF StealEmpty, anchors, Searching
  <2>11. CASE StealCas(w)
    BY <2>11, MoveCas
  <2>12. CASE StealBusy(w)
    BY <2>12, MoveDry, SearchEmpty DEF StealBusy, anchors, Searching
  <2>13. CASE StealCopy(w)
    <3> DEFINE n == local[w].copied
               l == [local[w] EXCEPT !.copied = n + 1]
               p == IF n + 1 = local[w].amount THEN "steal_publish" ELSE "steal_copy"
    <3>1. n < local[w].amount
      BY <1>0, <2>13 DEF StealCopy, LocalOK
    <3>2. n + 1 \in 0..Capacity
      BY <1>0, <3>1, CursorFacts
    <3>3. l \in Locals /\ l.copied = n + 1 /\ l.amount = local[w].amount
      BY <1>0, <3>2 DEF Locals
    <3>4. Goto(w, p, l) /\ Keep(w)
      BY <2>13 DEF StealCopy, anchors
    <3>5. p \in PCs /\ p \notin Searching /\ MoveOK(p, l)
      BY <1>0, <3>1, <3>2, <3>3 DEF PCs, Stealing, Searching, MoveOK
    <3> HIDE DEF p, l
    <3> QED
      BY <3>3, <3>4, <3>5, MoveStill
  <2>14. CASE StealPublish(w)
    <3>1. Goto(w, "steal_bump", local[w]) /\ Keep(w)
      BY <2>14 DEF StealPublish, anchors
    <3>2. "steal_bump" \in PCs /\ "steal_bump" \notin Searching /\ MoveOK("steal_bump", local[w])
      BY <1>0, <2>14 DEF StealPublish, PCs, Stealing, Searching, MoveOK, Publishing
    <3> QED
      BY <1>0, <3>1, <3>2, MoveStill
  <2> QED
    BY <1>2, <2>1, <2>2, <2>3, <2>4, <2>5, <2>6, <2>7, <2>8, <2>9, <2>10, <2>11,
       <2>12, <2>13, <2>14 DEF Continue
<1>3. CASE UNCHANGED <<tail, blocked, pc, local>>
  BY <1>3 DEF Sound, JobInv, MoveInv, MoveOK, Filled
<1> QED
  BY <1>1, <1>2, <1>3 DEF Next, Submit, AllDropped, anchors, vars

\* Who moves is neither joined nor dropped, but for Drop itself.
LEMMA EndStep ==
  ASSUME Sound, Next
  PROVE  EndInv'
<1>1. ASSUME NEW w \in Workers, NEW p, NEW l, Goto(w, p, l), p # "dropped",
             pc[w] \notin {"exited", "dropped"}
      PROVE  EndInv'
  BY <1>1 DEF Sound, RingInv, CursorTypes, JobInv, EndInv, Goto
<1>2. CASE UNCHANGED pc
  BY <1>2 DEF Sound, JobInv, EndInv
<1>3. ASSUME NEW w \in Workers, Drop(w) PROVE EndInv'
  BY <1>3 DEF Drop, Return, Goto, EndInv, Sound, RingInv, CursorTypes
<1>4. ASSUME NEW w \in Workers, PopLook(w), pc[w] \notin {"exited", "dropped"} PROVE EndInv'
  BY <1>1, <1>4 DEF PopLook
<1>5. ASSUME NEW w \in Workers, Operation(w)
      PROVE  EndInv'
  <2>1. ASSUME NEW x \in Jobs, PushLoad(w, x) PROVE EndInv'
    BY <1>1, <2>1 DEF PushLoad
  <2>2. CASE PopLoad(w)
    BY <1>4, <2>2 DEF PopLoad
  <2>3. CASE PullLoad(w)
    BY <1>1, <2>3 DEF PullLoad
  <2>4. ASSUME NEW v \in Workers, NEW max \in 1..Capacity, StealBegin(w, v, max) PROVE EndInv'
    BY <1>1, <2>4 DEF StealBegin
  <2>5. CASE Retry(w) \/ Exit(w)
    BY <1>1, <2>5 DEF Retry, Exit, Return
  <2> QED
    BY <1>3, <1>5, <2>1, <2>2, <2>3, <2>4, <2>5 DEF Operation
<1>6. ASSUME NEW w \in Workers, Continue(w)
      PROVE  EndInv'
  <2>1. CASE PushWrite(w) \/ PushPublish(w) \/ Spill(w)
    BY <1>1, <2>1 DEF PushWrite, PushPublish, Spill, Return
  <2>2. CASE PopCas(w) \/ PopTake(w)
    BY <1>1, <2>2 DEF PopCas, PopTake, Return
  <2>3. CASE PopRetry(w)
    BY <1>4, <2>3 DEF PopRetry
  <2>4. CASE PullDrain(w) \/ PullNothing(w) \/ PullPublish(w)
    BY <1>1, <2>4 DEF PullDrain, PullNothing, PullPublish, Return
  <2>5. CASE StealLoad(w) \/ StealEmpty(w) \/ StealCas(w) \/ StealBusy(w)
    BY <1>1, <2>5 DEF StealLoad, StealEmpty, StealCas, StealBusy, Return
  <2>6. CASE StealCopy(w) \/ StealPublish(w) \/ StealBump(w)
    BY <1>1, <2>6 DEF StealCopy, StealPublish, StealBump, Return
  <2> QED
    BY <1>6, <2>1, <2>2, <2>3, <2>4, <2>5, <2>6 DEF Continue
<1> QED
  BY <1>2, <1>5, <1>6 DEF Next, Submit, AllDropped, vars
-----------------------------------------------------------------------------
\* What each step does to the held cursors.

\* Goto moves one worker.
LEMMA GotoDoes ==
  ASSUME Sound, NEW w \in Workers, NEW p, NEW l, Goto(w, p, l)
  PROVE  /\ pc'[w] = p /\ local'[w] = l
         /\ \A u \in Workers : u # w => pc'[u] = pc[u] /\ local'[u] = local[u]
BY DEF Sound, RingInv, CursorTypes, Goto

\* Most steps have nothing to do with them.
LEMMA HeldStill ==
  ASSUME Sound, NEW w \in Workers, NEW p, NEW l, Goto(w, p, l), tail' = tail, blocked' = blocked,
         pc[w] \notin Publishing \cup {"pop_take", "dropped"},
         p \notin Publishing \cup {"pop_take", "dropped"}
  PROVE  \A q \in Workers, c \in Cursor : Held(q, c)' <=> Held(q, c)
<1>1. /\ pc'[w] = p /\ local'[w] = l
      /\ \A u \in Workers : u # w => pc'[u] = pc[u] /\ local'[u] = local[u]
  BY GotoDoes
<1>2. \A q \in Workers : Filled(q)' = Filled(q)
  BY DEF Filled
<1> SUFFICES ASSUME NEW q \in Workers, NEW c \in Cursor
             PROVE  Held(q, c)' <=> Held(q, c)
  OBVIOUS
<1>3. Queued(q, c)' <=> Queued(q, c)
  BY <1>1, <1>2 DEF Queued
<1>4. Moved(q, c)' <=> Moved(q, c)
  BY <1>1 DEF Moved
<1>5. Popped(q, c)' <=> Popped(q, c)
  BY <1>1 DEF Popped
<1>6. \A t \in Workers : Left(t, q, c)' <=> Left(t, q, c)
  BY <1>1 DEF Left, Publishing
<1> QED
  BY <1>3, <1>4, <1>5, <1>6 DEF Held

\* With the fetch_add on the tail the moved jobs are queued.
LEMMA HeldPublish ==
  ASSUME Sound, NEW w \in Workers, pc[w] \in Publishing \ {"steal_copy"},
         PublishTail(w), Return(w, "ready"), blocked' = blocked
  PROVE  \A q \in Workers, c \in Cursor :
           /\ Held(q, c)' <=> Held(q, c)
           /\ Queued(q, c)' <=> Queued(q, c) \/ (q = w /\ Moved(w, c))
<1>1. /\ pc'[w] = "ready"
      /\ \A u \in Workers : u # w => pc'[u] = pc[u] /\ local'[u] = local[u]
  BY GotoDoes DEF Return
<1>2. /\ tail[w] \in Cursor /\ blocked[w] \in Cursor /\ local[w].amount \in 0..Capacity
      /\ Filled(w) \in Nat /\ Filled(w) + local[w].amount <= Capacity
  BY OneRing, CursorFacts DEF Sound
<1>3. /\ tail'[w] = WrappingAdd(tail[w], local[w].amount)
      /\ \A u \in Workers : u # w => tail'[u] = tail[u]
  BY DEF PublishTail, Sound, RingInv, CursorTypes
<1>4. Filled(w)' = Filled(w) + local[w].amount
  BY <1>2, <1>3, SubAdd DEF Filled, filled_slots
<1>5. local[w].copied = local[w].amount
  BY DEF Sound, JobInv, MoveInv, MoveOK
<1> SUFFICES ASSUME NEW q \in Workers, NEW c \in Cursor
             PROVE  /\ Held(q, c)' <=> Held(q, c)
                    /\ Queued(q, c)' <=> Queued(q, c) \/ (q = w /\ Moved(w, c))
  OBVIOUS
<1>6. \A t \in Workers : Left(t, q, c)' <=> Left(t, q, c)
  BY <1>1 DEF Left, Publishing
<1>7. CASE q = w
  <2>1. InRun(c, blocked[w], Filled(w) + local[w].amount)
        <=> InRun(c, blocked[w], Filled(w)) \/ InRun(c, tail[w], local[w].amount)
    BY <1>2, RunSplit DEF Filled, filled_slots
  <2>2. Queued(w, c)' <=> Queued(w, c) \/ Moved(w, c)
    BY <1>1, <1>4, <1>5, <2>1 DEF Queued, Moved, Publishing
  <2>3. ~Moved(w, c)' /\ ~Popped(w, c)' /\ ~Popped(w, c)
    BY <1>1 DEF Moved, Popped, Publishing
  <2> QED
    BY <1>6, <1>7, <2>2, <2>3 DEF Held
<1>8. CASE q # w
  <2>1. Queued(q, c)' <=> Queued(q, c)
    BY <1>1, <1>3, <1>8 DEF Queued, Filled
  <2>2. Moved(q, c)' <=> Moved(q, c)
    BY <1>1, <1>3, <1>8 DEF Moved
  <2>3. Popped(q, c)' <=> Popped(q, c)
    BY <1>1, <1>3, <1>8 DEF Popped
  <2> QED
    BY <1>6, <1>8, <2>1, <2>2, <2>3 DEF Held
<1> QED
  BY <1>7, <1>8

\* The CAS of pop takes the last job out of the queue; it stays in its slot.
LEMMA HeldPop ==
  ASSUME Sound, NEW w \in Workers, PopCas(w)
  PROVE  \A q \in Workers, c \in Cursor : Held(q, c)' <=> Held(q, c)
<1>1. /\ pc'[w] = "pop_take" /\ pc[w] = "pop_cas"
      /\ \A u \in Workers : u # w => pc'[u] = pc[u] /\ local'[u] = local[u]
  BY GotoDoes DEF PopCas
<1>2. PICK t \in Cursor : t = WrappingSub(tail[w], 1)
  BY OneRing, WrapTypes DEF Sound
<1>3. /\ tail[w] \in Cursor /\ blocked[w] \in Cursor /\ Filled(w) \in 1..Capacity
  BY OneRing, CursorFacts DEF Sound, PopCas, LocalOK, Filled, filled_slots
<1>4. /\ tail'[w] = t /\ \A u \in Workers : u # w => tail'[u] = tail[u]
      /\ blocked' = blocked
  BY <1>2 DEF PopCas, Sound, RingInv, CursorTypes
<1>5. WrappingSub(t, blocked[w]) = Filled(w) - 1
  BY <1>2, <1>3, SubDecrement DEF Filled, filled_slots
<1>6. Filled(w)' = Filled(w) - 1
  BY <1>4, <1>5 DEF Filled, filled_slots
<1> SUFFICES ASSUME NEW q \in Workers, NEW c \in Cursor
             PROVE  Held(q, c)' <=> Held(q, c)
  OBVIOUS
<1>7. \A u \in Workers : Left(u, q, c)' <=> Left(u, q, c)
  BY <1>1 DEF Left
<1>8. CASE q = w
  <2>1. InRun(c, t, 1) <=> c = t
    BY <1>2, SubNat, SubZero DEF InRun
  <2>2. InRun(c, blocked[w], Filled(w)) <=> InRun(c, blocked[w], Filled(w) - 1) \/ c = t
    <3>1. 1 \in 0..Capacity /\ Filled(w) - 1 + 1 = Filled(w) /\ Filled(w) <= Capacity
      BY <1>3, CursorFacts
    <3> QED
      BY <1>3, <1>5, <2>1, <3>1, RunSplit
  <2>3. Queued(w, c) <=> Queued(w, c)' \/ c = t
    BY <1>1, <1>4, <1>6, <2>2 DEF Queued
  <2>4. Popped(w, c)' <=> c = t
    BY <1>1, <1>4 DEF Popped
  <2>5. ~Moved(w, c)' /\ ~Moved(w, c) /\ ~Popped(w, c)
    BY <1>1 DEF Moved, Popped, Publishing
  <2> QED
    BY <1>7, <1>8, <2>3, <2>4, <2>5 DEF Held
<1>9. CASE q # w
  <2>1. Queued(q, c)' <=> Queued(q, c)
    BY <1>1, <1>4, <1>9 DEF Queued, Filled
  <2>2. Moved(q, c)' <=> Moved(q, c)
    BY <1>1, <1>4, <1>9 DEF Moved
  <2>3. Popped(q, c)' <=> Popped(q, c)
    BY <1>1, <1>4, <1>9 DEF Popped
  <2> QED
    BY <1>7, <1>9, <2>1, <2>2, <2>3 DEF Held
<1> QED
  BY <1>8, <1>9

\* What the CAS of a steal means for the two deques.
LEMMA CasDoes ==
  ASSUME Sound, NEW w \in Workers, StealCas(w)
  PROVE  \E v \in Workers, a \in 1..Capacity :
           /\ v = local[w].victim /\ v # w /\ a = local[w].amount /\ a <= Filled(v)
           /\ local[w].copied = 0 /\ local[w].blocked = blocked[v] /\ blocked[v] \in Cursor
           /\ Filled(v) \in 0..Capacity /\ pc[v] # "dropped" /\ pc[w] = "steal_cas"
           /\ blocked'[v] = WrappingAdd(blocked[v], a) /\ Filled(v)' = Filled(v) - a
           /\ \A u \in Workers : u # v => blocked'[u] = blocked[u] /\ Filled(u)' = Filled(u)
           /\ pc'[w] = "steal_copy" /\ local' = local /\ tail' = tail
           /\ \A u \in Workers : u # w => pc'[u] = pc[u]
<1>1. PICK v \in Workers, a \in 0..Capacity : v = local[w].victim /\ a = local[w].amount
  BY OneRing DEF Sound
<1>2. /\ blocked[v] \in Cursor /\ tail[v] \in Cursor /\ Filled(v) \in 0..Capacity
      /\ LocalOK(w, pc[w], local[w], tail[w])
  BY OneRing, CursorFacts DEF Sound
<1>3. /\ local[w].blocked = blocked[v] /\ local[w].tail = tail[v] /\ pc[w] = "steal_cas"
      /\ v # w /\ local[w].copied = 0 /\ a \in 1..Filled(v)
  BY <1>1, <1>2 DEF StealCas, AnchorUnchanged, LocalOK, Stealing, Filled, filled_slots
<1>4. pc[v] # "dropped"
  BY <1>3 DEF Sound, JobInv, EndInv
<1>5. /\ blocked' = [blocked EXCEPT ![v] = WrappingAdd(blocked[v], a)] /\ tail' = tail
      /\ pc' = [pc EXCEPT ![w] = "steal_copy"] /\ local' = local
  BY <1>1 DEF StealCas, Goto, Sound, RingInv, CursorTypes
<1>6. /\ blocked'[v] = WrappingAdd(blocked[v], a) /\ pc'[w] = "steal_copy"
      /\ \A u \in Workers : u # v => blocked'[u] = blocked[u]
      /\ \A u \in Workers : u # w => pc'[u] = pc[u]
  BY <1>5 DEF Sound, RingInv, CursorTypes
<1>7. Filled(v)' = Filled(v) - a
  BY <1>2, <1>3, <1>5, <1>6, SubAddBack DEF Filled, filled_slots
<1>8. \A u \in Workers : u # v => Filled(u)' = Filled(u)
  BY <1>5, <1>6 DEF Filled
<1>9. a \in 1..Capacity /\ a <= Filled(v)
  BY <1>2, <1>3
<1> QED
  BY <1>1, <1>2, <1>3, <1>4, <1>5, <1>6, <1>7, <1>8, <1>9

\* The CAS of a steal makes queued jobs the thief's.
LEMMA HeldCas ==
  ASSUME Sound, NEW w \in Workers, StealCas(w)
  PROVE  \A q \in Workers, c \in Cursor : Held(q, c)' <=> Held(q, c)
<1>1. PICK v \in Workers, a \in 1..Capacity :
           /\ v = local[w].victim /\ v # w /\ a = local[w].amount /\ a <= Filled(v)
           /\ local[w].copied = 0 /\ local[w].blocked = blocked[v] /\ blocked[v] \in Cursor
           /\ Filled(v) \in 0..Capacity /\ pc[v] # "dropped" /\ pc[w] = "steal_cas"
           /\ blocked'[v] = WrappingAdd(blocked[v], a) /\ Filled(v)' = Filled(v) - a
           /\ \A u \in Workers : u # v => blocked'[u] = blocked[u] /\ Filled(u)' = Filled(u)
           /\ pc'[w] = "steal_copy" /\ local' = local /\ tail' = tail
           /\ \A u \in Workers : u # w => pc'[u] = pc[u]
  BY CasDoes
<1> SUFFICES ASSUME NEW q \in Workers, NEW c \in Cursor
             PROVE  Held(q, c)' <=> Held(q, c)
  OBVIOUS
<1>2. Moved(q, c)' <=> Moved(q, c)
  <2>1. CASE q = w
    <3>1. WrappingSub(c, tail[w]) \in Nat
      BY OneRing, SubNat DEF Sound
    <3>2. ~InRun(c, tail[w], 0)
      BY <3>1 DEF InRun
    <3> QED
      BY <1>1, <2>1, <3>2 DEF Moved, Publishing
  <2>2. CASE q # w
    BY <1>1, <2>2 DEF Moved
  <2> QED
    BY <2>1, <2>2
<1>3. Popped(q, c)' <=> Popped(q, c)
  BY <1>1 DEF Popped
<1>4. \A t \in Workers : t # w => (Left(t, q, c)' <=> Left(t, q, c))
  BY <1>1 DEF Left
<1>5. ~Left(w, q, c)
  BY <1>1 DEF Left
<1>6. CASE q = v
  <2>1. InRun(c, WrappingAdd(blocked[v], a), Filled(v) - a)
        <=> InRun(c, blocked[v], Filled(v)) /\ a <= WrappingSub(c, blocked[v])
    BY <1>1, RunRest
  <2>2. WrappingSub(c, blocked[v]) \in Nat
    BY <1>1, SubNat
  <2>3. Queued(v, c)' <=> Queued(v, c) /\ ~InRun(c, blocked[v], a)
    BY <1>1, <2>1, <2>2 DEF Queued, InRun
  <2>4. Left(w, v, c)' <=> InRun(c, blocked[v], a)
    BY <1>1, <2>2 DEF Left
  <2>5. InRun(c, blocked[v], a) => Queued(v, c)
    BY <1>1, <2>2 DEF Queued, InRun
  <2> QED
    BY <1>2, <1>3, <1>4, <1>5, <1>6, <2>3, <2>4, <2>5 DEF Held
<1>7. CASE q # v
  <2>1. Queued(q, c)' <=> Queued(q, c)
    BY <1>1, <1>7 DEF Queued
  <2>2. ~Left(w, q, c)'
    BY <1>1, <1>7 DEF Left
  <2> QED
    BY <1>2, <1>3, <1>4, <1>5, <2>1, <2>2 DEF Held
<1> QED
  BY <1>6, <1>7

\* The publication of `stolen` only gives slots free.
LEMMA HeldStolen ==
  ASSUME Sound, NEW w \in Workers, StealPublish(w)
  PROVE  \A q \in Workers, c \in Cursor : Held(q, c)' <=> Held(q, c)
<1>1. /\ pc'[w] = "steal_bump" /\ pc[w] = "steal_publish" /\ local' = local
      /\ \A u \in Workers : u # w => pc'[u] = pc[u]
      /\ tail' = tail /\ blocked' = blocked
  BY DEF StealPublish, Goto, anchors, Sound, RingInv, CursorTypes
<1>2. \A q \in Workers : Filled(q)' = Filled(q)
  BY <1>1 DEF Filled
<1> SUFFICES ASSUME NEW q \in Workers, NEW c \in Cursor
             PROVE  Held(q, c)' <=> Held(q, c)
  OBVIOUS
<1>3. Queued(q, c)' <=> Queued(q, c)
  BY <1>1, <1>2 DEF Queued
<1>4. Moved(q, c)' <=> Moved(q, c)
  BY <1>1 DEF Moved, Publishing
<1>5. Popped(q, c)' <=> Popped(q, c)
  BY <1>1 DEF Popped
<1>6. \A t \in Workers : Left(t, q, c)' <=> Left(t, q, c)
  BY <1>1 DEF Left
<1> QED
  BY <1>3, <1>4, <1>5, <1>6 DEF Held
-----------------------------------------------------------------------------
\* What each step does to the slots and to the cursors that hold a job.

\* The slot at a cursor.
LEMMA AtSlot ==
  /\ \A c \in Cursor : Slot(c) \in SlotIndex /\ WrappingAdd(c, 0) = c /\ At(c, 0) = Slot(c)
  /\ \A c \in Cursor, n \in 0..Capacity :
       /\ WrappingAdd(c, n) \in Cursor /\ At(c, n) = Slot(WrappingAdd(c, n))
       /\ At(c, n) \in SlotIndex
<1>1. \A c \in Cursor : WrappingAdd(c, 0) = c
  BY AddIf, CursorFacts DEF Cursor
<1>2. \A c \in Cursor : Slot(c) \in SlotIndex
  BY CursorFacts DEF Cursor, Slot, SlotIndex
<1> QED
  BY <1>1, <1>2, WrapTypes DEF At

\* A step of worker w that moves no anchor only concerns what w itself holds.
LEMMA HeldOthers ==
  ASSUME Sound, NEW w \in Workers, NEW p, NEW l, Goto(w, p, l), tail' = tail, blocked' = blocked,
         pc[w] # "dropped", p # "dropped", NEW q \in Workers, NEW c \in Cursor
  PROVE  /\ Queued(q, c)' <=> Queued(q, c)
         /\ q # w => (Moved(q, c)' <=> Moved(q, c)) /\ (Popped(q, c)' <=> Popped(q, c))
         /\ \A t \in Workers : t # w => (Left(t, q, c)' <=> Left(t, q, c))
<1>1. /\ pc'[w] = p /\ local'[w] = l
      /\ \A u \in Workers : u # w => pc'[u] = pc[u] /\ local'[u] = local[u]
  BY GotoDoes
<1>2. Filled(q)' = Filled(q)
  BY DEF Filled
<1>3. Queued(q, c)' <=> Queued(q, c)
  BY <1>1, <1>2 DEF Queued
<1>4. q # w => (Moved(q, c)' <=> Moved(q, c)) /\ (Popped(q, c)' <=> Popped(q, c))
  BY <1>1 DEF Moved, Popped
<1>5. \A t \in Workers : t # w => (Left(t, q, c)' <=> Left(t, q, c))
  BY <1>1 DEF Left
<1> QED
  BY <1>3, <1>4, <1>5

\* A cursor that its owner has reserved holds nothing but what the owner put there.
LEMMA OwnFree ==
  ASSUME Sound, NEW q \in Workers, NEW c \in Cursor, Own(q, c), ~Moved(q, c), ~Popped(q, c)
  PROVE  ~Held(q, c)
BY Apart DEF Held

\* push writes the slot at its tail.
LEMMA WriteDoes ==
  ASSUME Sound, NEW w \in Workers, PushWrite(w)
  PROVE  /\ tail[w] \in Cursor /\ Own(w, tail[w]) /\ ~Held(w, tail[w]) /\ local[w].job \in Jobs
         /\ \A q \in Workers, s \in SlotIndex : buffer'[q][s] =
              IF q = w /\ s = Slot(tail[w]) THEN local[w].job ELSE buffer[q][s]
         /\ \A q \in Workers, c \in Cursor :
              Held(q, c)' <=> Held(q, c) \/ (q = w /\ c = tail[w])
<1> DEFINE l == [NoLocal(w) EXCEPT !.amount = 1, !.copied = 1]
<1>1. /\ tail[w] \in Cursor /\ pc[w] = "push_write" /\ local[w].amount = 1 /\ local[w].job \in Jobs
      /\ Goto(w, "push_publish", l) /\ tail' = tail /\ blocked' = blocked /\ l.copied = 1
  BY OneRing DEF Sound, PushWrite, LocalOK, anchors, NoLocal
<1>2. \A c \in Cursor : InRun(c, tail[w], 1) <=> c = tail[w]
  BY <1>1, SubNat, SubZero DEF InRun
<1>3. ~Held(w, tail[w]) /\ Own(w, tail[w])
  <2>1. Own(w, tail[w])
    BY <1>1, <1>2 DEF Own
  <2> QED
    BY <1>1, <2>1, OwnFree DEF Moved, Popped, Publishing
<1>4. \A q \in Workers, s \in SlotIndex : buffer'[q][s] =
              IF q = w /\ s = Slot(tail[w]) THEN local[w].job ELSE buffer[q][s]
  <2>1. At(tail[w], 0) = Slot(tail[w]) /\ Slot(tail[w]) \in SlotIndex
    BY <1>1, AtSlot
  <2> QED
    BY <2>1 DEF PushWrite, Sound, DataTypes
<1> HIDE DEF l
<1>5. /\ pc'[w] = "push_publish" /\ local'[w] = l
  BY <1>1, GotoDoes
<1>6. ASSUME NEW q \in Workers, NEW c \in Cursor
      PROVE  Held(q, c)' <=> Held(q, c) \/ (q = w /\ c = tail[w])
  <2>1. /\ Queued(q, c)' <=> Queued(q, c)
        /\ q # w => (Moved(q, c)' <=> Moved(q, c)) /\ (Popped(q, c)' <=> Popped(q, c))
        /\ \A t \in Workers : t # w => (Left(t, q, c)' <=> Left(t, q, c))
    BY <1>1, HeldOthers
  <2>2. ~Left(w, q, c) /\ ~Left(w, q, c)'
    BY <1>1, <1>5 DEF Left
  <2>3. /\ ~Moved(w, c) /\ ~Popped(w, c) /\ ~Popped(w, c)'
        /\ Moved(w, c)' <=> c = tail[w]
    BY <1>1, <1>2, <1>5 DEF Moved, Popped, Publishing
  <2> QED
    BY <2>1, <2>2, <2>3 DEF Held
<1> QED
  BY <1>1, <1>3, <1>4, <1>6

\* pop moves the job out of the slot at its tail.
LEMMA TakeDoes ==
  ASSUME Sound, NEW w \in Workers, PopTake(w)
  PROVE  /\ tail[w] \in Cursor /\ Held(w, tail[w]) /\ Item(w, tail[w], 0) = buffer[w][Slot(tail[w])]
         /\ \A q \in Workers, s \in SlotIndex : buffer'[q][s] =
              IF q = w /\ s = Slot(tail[w]) THEN NoJob ELSE buffer[q][s]
         /\ \A q \in Workers, c \in Cursor :
              Held(q, c)' <=> Held(q, c) /\ ~(q = w /\ c = tail[w])
<1>1. /\ tail[w] \in Cursor /\ pc[w] = "pop_take" /\ local[w].amount = 1
      /\ Goto(w, "ready", NoLocal(w)) /\ tail' = tail /\ blocked' = blocked
  BY OneRing DEF Sound, PopTake, LocalOK, anchors, Return
<1>2. \A c \in Cursor : InRun(c, tail[w], 1) <=> c = tail[w]
  BY <1>1, SubNat, SubZero DEF InRun
<1>3. Held(w, tail[w]) /\ Own(w, tail[w])
  BY <1>1, <1>2 DEF Own, Popped, Held
<1>4. Item(w, tail[w], 0) = buffer[w][Slot(tail[w])] /\ At(tail[w], 0) = Slot(tail[w])
  BY <1>1, AtSlot DEF Item
<1>5. \A q \in Workers, s \in SlotIndex : buffer'[q][s] =
              IF q = w /\ s = Slot(tail[w]) THEN NoJob ELSE buffer[q][s]
  <2>1. Slot(tail[w]) \in SlotIndex
    BY <1>1, AtSlot
  <2> QED
    BY <1>4, <2>1 DEF PopTake, Sound, DataTypes
<1>6. pc'[w] = "ready"
  BY <1>1, GotoDoes
<1>7. ASSUME NEW q \in Workers, NEW c \in Cursor
      PROVE  Held(q, c)' <=> Held(q, c) /\ ~(q = w /\ c = tail[w])
  <2>1. /\ Queued(q, c)' <=> Queued(q, c)
        /\ q # w => (Moved(q, c)' <=> Moved(q, c)) /\ (Popped(q, c)' <=> Popped(q, c))
        /\ \A t \in Workers : t # w => (Left(t, q, c)' <=> Left(t, q, c))
    BY <1>1, HeldOthers
  <2>2. ~Left(w, q, c) /\ ~Left(w, q, c)'
    BY <1>1, <1>6 DEF Left
  <2>3. /\ ~Moved(w, c) /\ ~Moved(w, c)' /\ ~Popped(w, c)'
        /\ Popped(w, c) <=> c = tail[w]
    BY <1>1, <1>6 DEF Moved, Popped, Publishing
  <2>4. q = w /\ c = tail[w] => ~Queued(q, c) /\ \A t \in Workers : ~Left(t, q, c)
    BY <1>3, Apart
  <2> QED
    BY <2>1, <2>2, <2>3, <2>4 DEF Held
<1> QED
  BY <1>1, <1>3, <1>4, <1>5, <1>7

\* Drop empties the ring of w, in which all jobs are queued ones.
LEMMA DropDoes ==
  ASSUME Sound, NEW w \in Workers, Drop(w)
  PROVE  /\ \A c \in Cursor : Held(w, c) <=> InRun(c, blocked[w], Filled(w))
         /\ \A q \in Workers, s \in SlotIndex : buffer'[q][s] = IF q = w THEN NoJob ELSE buffer[q][s]
         /\ \A q \in Workers, c \in Cursor : Held(q, c)' <=> Held(q, c) /\ q # w
<1>1. /\ pc[w] = "exited" /\ \A u \in Workers : pc[u] \in {"exited", "dropped"}
      /\ Goto(w, "dropped", NoLocal(w)) /\ tail' = tail /\ blocked' = blocked
  BY DEF Drop, anchors, Return
<1>2. pc'[w] = "dropped" /\ \A u \in Workers : u # w => pc'[u] = pc[u]
  BY <1>1, GotoDoes
<1>3. \A q \in Workers, s \in SlotIndex : buffer'[q][s] = IF q = w THEN NoJob ELSE buffer[q][s]
  BY DEF Drop, Sound, DataTypes
<1>4. \A q \in Workers, c \in Cursor : Held(q, c) <=> Queued(q, c)
  BY <1>1 DEF Held, Moved, Popped, Left, Publishing
<1>5. \A q \in Workers, c \in Cursor : Held(q, c)' <=> Queued(q, c)'
  BY <1>1, <1>2 DEF Held, Moved, Popped, Left, Publishing
<1>6. \A q \in Workers : Filled(q)' = Filled(q)
  BY <1>1 DEF Filled
<1>7. \A q \in Workers, c \in Cursor : Queued(q, c)' <=> Queued(q, c) /\ q # w
  BY <1>1, <1>2, <1>6 DEF Queued
<1>8. \A c \in Cursor : Queued(w, c) <=> InRun(c, blocked[w], Filled(w))
  BY <1>1 DEF Queued
<1> QED
  BY <1>3, <1>4, <1>5, <1>7, <1>8

\* The cursors of a run, by their places.
LEMMA RunPlaces ==
  ASSUME NEW a \in Cursor, NEW c \in Cursor, NEW n \in 0..Capacity
  PROVE  InRun(c, a, n) <=> \E k \in 0..(n - 1) : c = WrappingAdd(a, k)
<1>1. ASSUME InRun(c, a, n) PROVE \E k \in 0..(n - 1) : c = WrappingAdd(a, k)
  <2>1. WrappingSub(c, a) \in 0..(n - 1)
    BY <1>1, SubNat DEF InRun
  <2> QED
    BY <2>1, RunEnds
<1>2. ASSUME NEW k \in 0..(n - 1), c = WrappingAdd(a, k) PROVE InRun(c, a, n)
  <2>1. k \in 0..Capacity
    BY CursorFacts
  <2>2. WrappingSub(c, a) = k
    BY <1>2, <2>1, RunEnds
  <2> QED
    BY <2>2 DEF InRun
<1> QED
  BY <1>1, <1>2

\* The drain of the shared queue writes its first n jobs behind the tail.
LEMMA DrainDoes ==
  ASSUME Sound, NEW w \in Workers, PullDrain(w)
  PROVE  \E n \in 1..Capacity :
           /\ n <= Len(shared) /\ n <= local[w].amount /\ tail[w] \in Cursor
           /\ shared' = SubSeq(shared, n + 1, Len(shared)) /\ out' = out
           /\ pc[w] = "pull_drain"
           /\ Goto(w, "pull_publish", [NoLocal(w) EXCEPT !.amount = n, !.copied = n])
           /\ \A k \in 0..(n - 1) : buffer'[w][At(tail[w], k)] = shared[k + 1]
           /\ \A q \in Workers, s \in SlotIndex :
                q # w \/ (\A k \in 0..(n - 1) : s # At(tail[w], k)) => buffer'[q][s] = buffer[q][s]
           /\ \A c \in Cursor : InRun(c, tail[w], n) => Own(w, c) /\ ~Held(w, c)
           /\ \A q \in Workers, c \in Cursor :
                Held(q, c)' <=> Held(q, c) \/ (q = w /\ InRun(c, tail[w], n))
<1> DEFINE n == Least(local[w].amount, Len(shared))
           l == [NoLocal(w) EXCEPT !.amount = n, !.copied = n]
<1>1. /\ tail[w] \in Cursor /\ pc[w] = "pull_drain" /\ tail' = tail /\ blocked' = blocked
      /\ local[w].amount \in 0..Capacity /\ Len(shared) \in Nat
  BY OneRing DEF Sound, PullDrain, anchors, DataTypes
<1>2. n \in 1..Capacity /\ n <= Len(shared) /\ n <= local[w].amount
  BY <1>1, CursorFacts DEF PullDrain, Least
<1>3. shared' = SubSeq(shared, n + 1, Len(shared)) /\ out' = out /\ Goto(w, "pull_publish", l)
  BY DEF PullDrain
<1> DEFINE ring == [s \in SlotIndex |->
             IF \E k \in 0..(n - 1) : s = At(tail[w], k)
             THEN shared[1 + (CHOOSE k \in 0..(n - 1) : s = At(tail[w], k))]
             ELSE buffer[w][s]]
<1>4. buffer' = [buffer EXCEPT ![w] = ring]
  BY DEF PullDrain, Sound, DataTypes
<1> HIDE DEF n
<1>5. ASSUME NEW k \in 0..(n - 1)
      PROVE  buffer'[w][At(tail[w], k)] = shared[k + 1]
  <2> DEFINE j == CHOOSE i \in 0..(n - 1) : At(tail[w], k) = At(tail[w], i)
  <2>1. j \in 0..(n - 1) /\ At(tail[w], k) = At(tail[w], j)
    OBVIOUS
  <2> HIDE DEF j
  <2>2. j \in 0..(Capacity - 1) /\ k \in 0..(Capacity - 1) /\ k \in 0..Capacity
    BY <1>2, <2>1, CursorFacts
  <2>3. j = k
    BY <1>1, <2>1, <2>2, SlotInjective DEF At
  <2>4. At(tail[w], k) \in SlotIndex
    BY <1>1, <2>2, AtSlot
  <2>5. ring[At(tail[w], k)] = shared[1 + j]
    BY <2>1, <2>4 DEF j
  <2>6. buffer'[w] = ring
    BY <1>4 DEF Sound, DataTypes
  <2> HIDE DEF ring
  <2>7. 1 + j = k + 1
    BY <2>2, <2>3
  <2> QED
    BY <2>5, <2>6, <2>7
<1>6. ASSUME NEW q \in Workers, NEW s \in SlotIndex,
             q # w \/ (\A k \in 0..(n - 1) : s # At(tail[w], k))
      PROVE  buffer'[q][s] = buffer[q][s]
  <2>1. CASE q # w
    <3> HIDE DEF ring
    <3> QED
      BY <1>4, <2>1 DEF Sound, DataTypes
  <2>2. CASE q = w
    <3>1. ring[s] = buffer[w][s]
      BY <1>6, <2>2
    <3> HIDE DEF ring
    <3> QED
      BY <1>4, <2>2, <3>1 DEF Sound, DataTypes
  <2> QED
    BY <2>1, <2>2
<1>7. ASSUME NEW c \in Cursor, InRun(c, tail[w], n)
      PROVE  Own(w, c) /\ ~Held(w, c)
  <2>1. Own(w, c)
    BY <1>1, <1>2, <1>7, SubNat DEF Own, InRun
  <2> QED
    BY <1>1, <2>1, OwnFree DEF Moved, Popped, Publishing
<1>8. l.copied = n
  BY DEF NoLocal
<1>9. pc'[w] = "pull_publish" /\ local'[w] = l
  BY <1>3, GotoDoes
<1>10. ASSUME NEW q \in Workers, NEW c \in Cursor
       PROVE  Held(q, c)' <=> Held(q, c) \/ (q = w /\ InRun(c, tail[w], n))
  <2> HIDE DEF l
  <2>1. /\ Queued(q, c)' <=> Queued(q, c)
        /\ q # w => (Moved(q, c)' <=> Moved(q, c)) /\ (Popped(q, c)' <=> Popped(q, c))
        /\ \A t \in Workers : t # w => (Left(t, q, c)' <=> Left(t, q, c))
    BY <1>1, <1>3, HeldOthers
  <2>2. ~Left(w, q, c) /\ ~Left(w, q, c)'
    BY <1>1, <1>9 DEF Left
  <2>3. /\ ~Moved(w, c) /\ ~Popped(w, c) /\ ~Popped(w, c)'
        /\ Moved(w, c)' <=> InRun(c, tail[w], n)
    BY <1>1, <1>8, <1>9 DEF Moved, Popped, Publishing
  <2> QED
    BY <2>1, <2>2, <2>3 DEF Held
<1> HIDE DEF ring
<1> QED
  BY <1>1, <1>2, <1>3, <1>5, <1>6, <1>7, <1>10

\* One round of the copy loop moves the job at d of the victim to e of the thief.
LEMMA CopyDoes ==
  ASSUME Sound, NEW w \in Workers, StealCopy(w)
  PROVE  \E v \in Workers, b \in Cursor, a \in 1..Capacity, n \in 0..Capacity, d \in Cursor, e \in Cursor :
           /\ v = local[w].victim /\ v # w /\ b = local[w].blocked /\ a = local[w].amount
           /\ n = local[w].copied /\ n < a /\ d = WrappingAdd(b, n) /\ e = WrappingAdd(tail[w], n)
           /\ pc[w] = "steal_copy"
           /\ Goto(w, IF n + 1 = a THEN "steal_publish" ELSE "steal_copy", [local[w] EXCEPT !.copied = n + 1])
           /\ Left(w, v, d) /\ Own(w, e) /\ ~Held(w, e)
           /\ \A q \in Workers, s \in SlotIndex : buffer'[q][s] =
                IF q = w /\ s = Slot(e) THEN buffer[v][Slot(d)]
                ELSE IF q = v /\ s = Slot(d) THEN NoJob ELSE buffer[q][s]
           /\ \A q \in Workers, c \in Cursor :
                Held(q, c)' <=> (Held(q, c) /\ ~(q = v /\ c = d)) \/ (q = w /\ c = e)
<1>1. PICK v \in Workers, b \in Cursor, a \in 0..Capacity, n \in 0..Capacity :
        v = local[w].victim /\ b = local[w].blocked /\ a = local[w].amount /\ n = local[w].copied
  BY OneRing DEF Sound
<1>2. PICK d \in Cursor, e \in Cursor :
        d = WrappingAdd(b, n) /\ e = WrappingAdd(tail[w], n) /\ Slot(d) = At(b, n) /\ Slot(e) = At(tail[w], n)
  BY OneRing, AtSlot DEF Sound
<1> DEFINE p == IF n + 1 = a THEN "steal_publish" ELSE "steal_copy"
           l == [local[w] EXCEPT !.copied = n + 1]
<1>3. /\ pc[w] = "steal_copy" /\ Goto(w, p, l) /\ tail' = tail /\ blocked' = blocked
  BY <1>1 DEF StealCopy, anchors
<1>4. n < a /\ v # w /\ a \in 1..Capacity
  BY <1>1, <1>3, OneRing, CursorFacts DEF Sound, LocalOK, Stealing
<1>5. tail[w] \in Cursor /\ WrappingSub(d, b) = n /\ WrappingSub(e, tail[w]) = n
  BY <1>2, OneRing, RunEnds DEF Sound
<1>6. Left(w, v, d) /\ Own(w, e)
  BY <1>1, <1>3, <1>4, <1>5 DEF Left, Own, InRun
<1>7. ~Held(w, e)
  <2>1. ~Moved(w, e) /\ ~Popped(w, e)
    BY <1>1, <1>3, <1>5 DEF Moved, Popped, InRun
  <2> QED
    BY <1>6, <2>1, OwnFree
<1>8. \A q \in Workers, s \in SlotIndex : buffer'[q][s] =
                IF q = w /\ s = Slot(e) THEN buffer[v][Slot(d)]
                ELSE IF q = v /\ s = Slot(d) THEN NoJob ELSE buffer[q][s]
  <2>1. Slot(d) \in SlotIndex /\ Slot(e) \in SlotIndex
    BY AtSlot
  <2>2. buffer' = [buffer EXCEPT ![v][Slot(d)] = NoJob, ![w][Slot(e)] = buffer[v][Slot(d)]]
    BY <1>1, <1>2 DEF StealCopy, Item
  <2> QED
    BY <1>4, <2>1, <2>2 DEF Sound, DataTypes
<1>9. l.copied = n + 1 /\ l.victim = v /\ l.blocked = b /\ l.amount = a
  BY <1>1, OneRing DEF Sound, Locals
<1> HIDE DEF l
<1>10. pc'[w] = p /\ local'[w] = l
  BY <1>3, GotoDoes
<1>11. ASSUME NEW q \in Workers, NEW c \in Cursor
       PROVE  Held(q, c)' <=> (Held(q, c) /\ ~(q = v /\ c = d)) \/ (q = w /\ c = e)
  <2>1. /\ Queued(q, c)' <=> Queued(q, c)
        /\ q # w => (Moved(q, c)' <=> Moved(q, c)) /\ (Popped(q, c)' <=> Popped(q, c))
        /\ \A t \in Workers : t # w => (Left(t, q, c)' <=> Left(t, q, c))
    BY <1>3, HeldOthers
  <2>2. Left(w, q, c)' <=> Left(w, q, c) /\ c # d
    <3>1. WrappingSub(c, b) \in Nat /\ (c = d <=> WrappingSub(c, b) = n)
      BY <1>2, <1>5, SubNat, RunEnds
    <3>2. Left(w, q, c) <=> v = q /\ n <= WrappingSub(c, b) /\ WrappingSub(c, b) < a
      BY <1>1, <1>3 DEF Left, InRun
    <3>3. Left(w, q, c)' <=> p = "steal_copy" /\ v = q /\ n + 1 <= WrappingSub(c, b) /\ WrappingSub(c, b) < a
      BY <1>9, <1>10 DEF Left, InRun
    <3> QED
      BY <1>4, <3>1, <3>2, <3>3
  <2>3. ~Popped(w, c) /\ ~Popped(w, c)' /\ (Moved(w, c)' <=> Moved(w, c) \/ c = e)
    <3>1. Moved(w, c) <=> InRun(c, tail[w], n)
      BY <1>1, <1>3 DEF Moved, Publishing
    <3>2. Moved(w, c)' <=> InRun(c, tail[w], n + 1)
      BY <1>3, <1>9, <1>10 DEF Moved, Publishing
    <3>3. WrappingSub(c, tail[w]) \in Nat /\ (c = e <=> WrappingSub(c, tail[w]) = n)
      BY <1>2, <1>5, SubNat, RunEnds
    <3>4. ~Popped(w, c) /\ ~Popped(w, c)'
      BY <1>3, <1>10 DEF Popped
    <3> QED
      BY <3>1, <3>2, <3>3, <3>4 DEF InRun
  <2>4. q = v /\ c = d => /\ ~Queued(q, c) /\ ~Moved(q, c) /\ ~Popped(q, c)
                          /\ \A t \in Workers : t # w => ~Left(t, q, c)
    BY <1>6, Apart, OwnHolds
  <2>5. Left(w, q, c) => q = v
    BY <1>1 DEF Left
  <2> QED
    BY <1>4, <2>1, <2>2, <2>3, <2>4, <2>5 DEF Held
<1> QED
  BY <1>1, <1>2, <1>3, <1>4, <1>6, <1>7, <1>8, <1>11 DEF p, l

\* A step by which the cursors Gone lose their jobs and the cursors Added, which
\* their owners had reserved, get one.
Trades(Gone, Added) ==
  /\ \A q \in Workers, c \in Cursor :
       /\ <<q, c>> \in Gone => Held(q, c)
       /\ <<q, c>> \in Added => Own(q, c) /\ ~Held(q, c)
       /\ Held(q, c)' <=> (Held(q, c) /\ <<q, c>> \notin Gone) \/ <<q, c>> \in Added
  /\ \A q \in Workers, s \in SlotIndex :
       /\ (\E c \in Cursor : <<q, c>> \in Added /\ Slot(c) = s) => buffer'[q][s] # NoJob
       /\ (\E c \in Cursor : <<q, c>> \in Gone /\ Slot(c) = s)
            /\ ~(\E c \in Cursor : <<q, c>> \in Added /\ Slot(c) = s) => buffer'[q][s] = NoJob
       /\ ~(\E c \in Cursor : <<q, c>> \in Added \cup Gone /\ Slot(c) = s)
            => buffer'[q][s] = buffer[q][s]

\* What is written goes where nothing was, and what is taken out was there: the
\* slots with a job remain those at a held cursor.
LEMMA ContentChange ==
  ASSUME Sound, NEW Gone, NEW Added, Trades(Gone, Added)
  PROVE  ContentInv'
<1> USE DEF Trades
<1>1. ASSUME NEW q \in Workers, NEW c \in Cursor, Held(q, c)'
      PROVE  buffer'[q][Slot(c)] # NoJob
  <2>0. Slot(c) \in SlotIndex
    BY AtSlot
  <2>1. CASE <<q, c>> \in Added
    BY <2>0, <2>1
  <2>2. CASE <<q, c>> \notin Added
    <3>1. Held(q, c) /\ <<q, c>> \notin Gone
      BY <1>1, <2>2
    <3>2. \A d \in Cursor : <<q, d>> \in Added \cup Gone => Slot(d) # Slot(c)
      BY <2>2, <3>1, OneCursor
    <3>3. buffer'[q][Slot(c)] = buffer[q][Slot(c)]
      BY <2>0, <3>2
    <3> QED
      BY <3>1, <3>3 DEF Sound, JobInv, ContentInv
  <2> QED
    BY <2>1, <2>2
<1>2. ASSUME NEW q \in Workers, NEW s \in SlotIndex, buffer'[q][s] # NoJob
      PROVE  \E c \in Cursor : Held(q, c)' /\ Slot(c) = s
  <2>1. CASE \E c \in Cursor : <<q, c>> \in Added /\ Slot(c) = s
    BY <2>1
  <2>2. CASE ~\E c \in Cursor : <<q, c>> \in Added /\ Slot(c) = s
    <3>1. ~\E c \in Cursor : <<q, c>> \in Added \cup Gone /\ Slot(c) = s
      BY <1>2, <2>2
    <3>2. PICK c \in Cursor : Held(q, c) /\ Slot(c) = s
      BY <1>2, <3>1 DEF Sound, JobInv, ContentInv
    <3> QED
      BY <3>1, <3>2
  <2> QED
    BY <2>1, <2>2
<1> QED
  BY <1>1, <1>2 DEF ContentInv

\* A step that leaves the slots and the held cursors alone.
LEMMA ContentKept ==
  ASSUME Sound, buffer' = buffer, \A q \in Workers, c \in Cursor : Held(q, c)' <=> Held(q, c)
  PROVE  ContentInv'
BY DEF Sound, JobInv, ContentInv

\* Every step of every operation keeps the jobs in the slots of the held cursors.
LEMMA ContentStep ==
  ASSUME Sound, Next
  PROVE  ContentInv'
<1>1. ASSUME NEW w \in Workers, NEW p, NEW l, Goto(w, p, l), UNCHANGED <<tail, blocked, buffer>>,
             pc[w] \notin Publishing \cup {"pop_take", "dropped"},
             p \notin Publishing \cup {"pop_take", "dropped"}
      PROVE  ContentInv'
  BY <1>1, HeldStill, ContentKept
<1>2. ASSUME NEW w \in Workers, PopLook(w), UNCHANGED <<tail, blocked, buffer>>,
             pc[w] \in {"ready", "pop_cas"}
      PROVE  ContentInv'
  BY <1>1, <1>2 DEF PopLook, Publishing
<1>3. ASSUME NEW w \in Workers, Drop(w)
      PROVE  ContentInv'
  <2> DEFINE Gone == {<<w, c>> : c \in {d \in Cursor : Held(w, d)}}
             Added == {}
  <2>1. \A q \in Workers, c \in Cursor : <<q, c>> \in Gone <=> q = w /\ Held(w, c)
    OBVIOUS
  <2>4. \A q \in Workers, c \in Cursor : <<q, c>> \notin Added
    OBVIOUS
  <2>2. /\ \A q \in Workers, s \in SlotIndex : buffer'[q][s] = IF q = w THEN NoJob ELSE buffer[q][s]
        /\ \A q \in Workers, c \in Cursor : Held(q, c)' <=> Held(q, c) /\ q # w
    BY <1>3, DropDoes
  <2> HIDE DEF Gone, Added
  <2>3. ASSUME NEW q \in Workers, NEW s \in SlotIndex, ~(\E c \in Cursor : <<q, c>> \in Gone /\ Slot(c) = s)
        PROVE  buffer'[q][s] = buffer[q][s]
    <3>1. CASE q = w
      BY <2>1, <2>2, <2>3, <3>1 DEF Sound, JobInv, ContentInv
    <3>2. CASE q # w
      BY <2>2, <3>2
    <3> QED
      BY <3>1, <3>2
  <2>5. \A q \in Workers, c \in Cursor :
         /\ <<q, c>> \in Gone => Held(q, c)
         /\ <<q, c>> \in Added => Own(q, c) /\ ~Held(q, c)
         /\ Held(q, c)' <=> (Held(q, c) /\ <<q, c>> \notin Gone) \/ <<q, c>> \in Added
    BY <2>1, <2>2, <2>3, <2>4
  <2>6. \A q \in Workers, s \in SlotIndex :
         /\ (\E c \in Cursor : <<q, c>> \in Added /\ Slot(c) = s) => buffer'[q][s] # NoJob
         /\ (\E c \in Cursor : <<q, c>> \in Gone /\ Slot(c) = s)
              /\ ~(\E c \in Cursor : <<q, c>> \in Added /\ Slot(c) = s) => buffer'[q][s] = NoJob
         /\ ~(\E c \in Cursor : <<q, c>> \in Added \cup Gone /\ Slot(c) = s)
              => buffer'[q][s] = buffer[q][s]
    BY <2>1, <2>2, <2>3, <2>4
  <2>7. Trades(Gone, Added)
    BY <2>5, <2>6 DEF Trades
  <2> QED
    BY <2>7, ContentChange
<1>4. ASSUME NEW w \in Workers, Operation(w)
      PROVE  ContentInv'
  <2>1. ASSUME NEW x \in Jobs, PushLoad(w, x) PROVE ContentInv'
    <3> DEFINE p == IF Free(w) < 1 THEN "spill" ELSE "push_write"
               l == [NoLocal(w) EXCEPT !.job = x, !.amount = Least(Free(w), 1)]
    <3>1. Goto(w, p, l) /\ pc[w] = "ready" /\ UNCHANGED <<tail, blocked, buffer>>
      BY <2>1 DEF PushLoad, anchors
    <3>2. p \notin Publishing \cup {"pop_take", "dropped"}
      BY DEF Publishing
    <3> HIDE DEF p, l
    <3> QED
      BY <1>1, <3>1, <3>2 DEF Publishing
  <2>2. CASE PopLoad(w)
    BY <1>2, <2>2 DEF PopLoad, anchors
  <2>3. CASE PullLoad(w)
    BY <1>1, <2>3 DEF PullLoad, anchors, Publishing
  <2>4. ASSUME NEW v \in Workers, NEW max \in 1..Capacity, StealBegin(w, v, max)
        PROVE  ContentInv'
    BY <1>1, <2>4 DEF StealBegin, anchors, Publishing
  <2>5. CASE Retry(w)
    BY <1>1, <2>5 DEF Retry, Return, anchors, Publishing
  <2>6. CASE Exit(w)
    BY <1>1, <2>6 DEF Exit, Return, anchors, Publishing
  <2> QED
    BY <1>3, <1>4, <2>1, <2>2, <2>3, <2>4, <2>5, <2>6 DEF Operation
<1>5. ASSUME NEW w \in Workers, Continue(w)
      PROVE  ContentInv'
  <2>1. CASE PushWrite(w)
    <3> DEFINE Added == {<<w, tail[w]>>}
               Gone == {}
    <3>1. \A q \in Workers, c \in Cursor : /\ <<q, c>> \in Added <=> q = w /\ c = tail[w]
                                           /\ <<q, c>> \notin Gone
      OBVIOUS
    <3>2. /\ tail[w] \in Cursor /\ Own(w, tail[w]) /\ ~Held(w, tail[w]) /\ local[w].job \in Jobs
          /\ \A q \in Workers, s \in SlotIndex : buffer'[q][s] =
              IF q = w /\ s = Slot(tail[w]) THEN local[w].job ELSE buffer[q][s]
          /\ \A q \in Workers, c \in Cursor :
              Held(q, c)' <=> Held(q, c) \/ (q = w /\ c = tail[w])
      BY <2>1, WriteDoes
    <3>6. local[w].job # NoJob
      BY <3>2, WorkerAssumption
    <3> HIDE DEF Added, Gone
    <3>3. \A q \in Workers, c \in Cursor :
           /\ <<q, c>> \in Gone => Held(q, c)
           /\ <<q, c>> \in Added => Own(q, c) /\ ~Held(q, c)
           /\ Held(q, c)' <=> (Held(q, c) /\ <<q, c>> \notin Gone) \/ <<q, c>> \in Added
      BY <3>1, <3>2
    <3>4. \A q \in Workers, s \in SlotIndex :
           /\ (\E c \in Cursor : <<q, c>> \in Added /\ Slot(c) = s) => buffer'[q][s] # NoJob
           /\ (\E c \in Cursor : <<q, c>> \in Gone /\ Slot(c) = s)
                /\ ~(\E c \in Cursor : <<q, c>> \in Added /\ Slot(c) = s) => buffer'[q][s] = NoJob
           /\ ~(\E c \in Cursor : <<q, c>> \in Added \cup Gone /\ Slot(c) = s)
                => buffer'[q][s] = buffer[q][s]
      BY <3>1, <3>2, <3>6
    <3>5. Trades(Gone, Added)
      BY <3>3, <3>4 DEF Trades
    <3> QED
      BY <3>5, ContentChange
  <2>2. CASE PushPublish(w) \/ PullPublish(w) \/ StealBump(w)
    <3>1. /\ pc[w] \in Publishing \ {"steal_copy"} /\ PublishTail(w) /\ Return(w, "ready")
          /\ blocked' = blocked /\ buffer' = buffer
      BY <2>2 DEF PushPublish, PullPublish, StealBump, Publishing
    <3> QED
      BY <3>1, HeldPublish, ContentKept
  <2>3. CASE Spill(w)
    BY <1>1, <2>3 DEF Spill, Return, anchors, Publishing
  <2>4. CASE PopCas(w)
    BY <2>4, HeldPop, ContentKept DEF PopCas
  <2>5. CASE PopRetry(w)
    BY <1>2, <2>5 DEF PopRetry, anchors
  <2>6. CASE PopTake(w)
    <3> DEFINE Gone == {<<w, tail[w]>>}
               Added == {}
    <3>1. \A q \in Workers, c \in Cursor : /\ <<q, c>> \in Gone <=> q = w /\ c = tail[w]
                                           /\ <<q, c>> \notin Added
      OBVIOUS
    <3>2. /\ tail[w] \in Cursor /\ Held(w, tail[w])
          /\ \A q \in Workers, s \in SlotIndex : buffer'[q][s] =
              IF q = w /\ s = Slot(tail[w]) THEN NoJob ELSE buffer[q][s]
          /\ \A q \in Workers, c \in Cursor :
              Held(q, c)' <=> Held(q, c) /\ ~(q = w /\ c = tail[w])
      BY <2>6, TakeDoes
    <3> HIDE DEF Gone, Added
    <3>3. \A q \in Workers, c \in Cursor :
           /\ <<q, c>> \in Gone => Held(q, c)
           /\ <<q, c>> \in Added => Own(q, c) /\ ~Held(q, c)
           /\ Held(q, c)' <=> (Held(q, c) /\ <<q, c>> \notin Gone) \/ <<q, c>> \in Added
      BY <3>1, <3>2
    <3>4. \A q \in Workers, s \in SlotIndex :
           /\ (\E c \in Cursor : <<q, c>> \in Added /\ Slot(c) = s) => buffer'[q][s] # NoJob
           /\ (\E c \in Cursor : <<q, c>> \in Gone /\ Slot(c) = s)
                /\ ~(\E c \in Cursor : <<q, c>> \in Added /\ Slot(c) = s) => buffer'[q][s] = NoJob
           /\ ~(\E c \in Cursor : <<q, c>> \in Added \cup Gone /\ Slot(c) = s)
                => buffer'[q][s] = buffer[q][s]
      BY <3>1, <3>2
    <3>5. Trades(Gone, Added)
      BY <3>3, <3>4 DEF Trades
    <3> QED
      BY <3>5, ContentChange
  <2>7. CASE PullDrain(w)
    <3>1. PICK n \in 1..Capacity :
           /\ n <= Len(shared) /\ tail[w] \in Cursor
           /\ \A k \in 0..(n - 1) : buffer'[w][At(tail[w], k)] = shared[k + 1]
           /\ \A q \in Workers, s \in SlotIndex :
                q # w \/ (\A k \in 0..(n - 1) : s # At(tail[w], k)) => buffer'[q][s] = buffer[q][s]
           /\ \A c \in Cursor : InRun(c, tail[w], n) => Own(w, c) /\ ~Held(w, c)
           /\ \A q \in Workers, c \in Cursor :
                Held(q, c)' <=> Held(q, c) \/ (q = w /\ InRun(c, tail[w], n))
      BY <2>7, DrainDoes
    <3> DEFINE Added == {<<w, c>> : c \in {d \in Cursor : InRun(d, tail[w], n)}}
               Gone == {}
    <3>2. \A q \in Workers, c \in Cursor : <<q, c>> \in Added <=> q = w /\ InRun(c, tail[w], n)
      OBVIOUS
    <3> HIDE DEF Added
    <3>3. \A k \in 0..(n - 1) : /\ WrappingAdd(tail[w], k) \in Cursor /\ InRun(WrappingAdd(tail[w], k), tail[w], n)
                                /\ Slot(WrappingAdd(tail[w], k)) = At(tail[w], k)
      <4> SUFFICES ASSUME NEW k \in 0..(n - 1)
                   PROVE  /\ WrappingAdd(tail[w], k) \in Cursor /\ InRun(WrappingAdd(tail[w], k), tail[w], n)
                          /\ Slot(WrappingAdd(tail[w], k)) = At(tail[w], k)
        OBVIOUS
      <4>1. k \in 0..Capacity /\ n \in 0..Capacity
        BY CursorFacts
      <4> QED
        BY <3>1, <4>1, AtSlot, RunPlaces
    <3>4. ASSUME NEW c \in Cursor, InRun(c, tail[w], n)
          PROVE  \E k \in 0..(n - 1) : Slot(c) = At(tail[w], k)
      <4>1. n \in 0..Capacity
        BY CursorFacts
      <4>2. PICK k \in 0..(n - 1) : c = WrappingAdd(tail[w], k)
        BY <3>1, <3>4, <4>1, RunPlaces
      <4> QED
        BY <3>3, <4>2
    <3>5. ASSUME NEW q \in Workers, NEW s \in SlotIndex, NEW c \in Cursor, <<q, c>> \in Added, Slot(c) = s
          PROVE  buffer'[q][s] # NoJob
      <4>1. PICK k \in 0..(n - 1) : Slot(c) = At(tail[w], k)
        BY <3>2, <3>4, <3>5
      <4>2. buffer'[q][s] = shared[k + 1]
        BY <3>1, <3>2, <3>5, <4>1
      <4>3. k + 1 \in 1..Len(shared)
        BY <3>1 DEF Sound, DataTypes
      <4> QED
        BY <4>2, <4>3, WorkerAssumption DEF Sound, DataTypes
    <3>6. ASSUME NEW q \in Workers, NEW s \in SlotIndex,
                 ~(\E c \in Cursor : <<q, c>> \in Added /\ Slot(c) = s)
          PROVE  buffer'[q][s] = buffer[q][s]
      BY <3>1, <3>2, <3>3, <3>6
    <3>7. \A q \in Workers, c \in Cursor : <<q, c>> \notin Gone
      OBVIOUS
    <3> HIDE DEF Gone
    <3>8. \A q \in Workers, c \in Cursor :
           /\ <<q, c>> \in Gone => Held(q, c)
           /\ <<q, c>> \in Added => Own(q, c) /\ ~Held(q, c)
           /\ Held(q, c)' <=> (Held(q, c) /\ <<q, c>> \notin Gone) \/ <<q, c>> \in Added
      BY <3>1, <3>2, <3>5, <3>6, <3>7
    <3>9. \A q \in Workers, s \in SlotIndex :
           /\ (\E c \in Cursor : <<q, c>> \in Added /\ Slot(c) = s) => buffer'[q][s] # NoJob
           /\ (\E c \in Cursor : <<q, c>> \in Gone /\ Slot(c) = s)
                /\ ~(\E c \in Cursor : <<q, c>> \in Added /\ Slot(c) = s) => buffer'[q][s] = NoJob
           /\ ~(\E c \in Cursor : <<q, c>> \in Added \cup Gone /\ Slot(c) = s)
                => buffer'[q][s] = buffer[q][s]
      BY <3>1, <3>2, <3>5, <3>6, <3>7
    <3>10. Trades(Gone, Added)
      BY <3>8, <3>9 DEF Trades
    <3> QED
      BY <3>10, ContentChange
  <2>8. CASE PullNothing(w)
    BY <1>1, <2>8 DEF PullNothing, Return, anchors, Publishing
  <2>9. CASE StealLoad(w)
    BY <1>1, <2>9 DEF StealLoad, anchors, Publishing
  <2>10. CASE StealEmpty(w)
    BY <1>1, <2>10 DEF StealEmpty, Return, anchors, Publishing
  <2>11. CASE StealCas(w)
    BY <2>11, HeldCas, ContentKept DEF StealCas
  <2>12. CASE StealBusy(w)
    BY <1>1, <2>12 DEF StealBusy, Return, anchors, Publishing
  <2>13. CASE StealCopy(w)
    <3>1. PICK v \in Workers, b \in Cursor, a \in 1..Capacity, n \in 0..Capacity, d \in Cursor, e \in Cursor :
           /\ v = local[w].victim /\ v # w /\ b = local[w].blocked /\ a = local[w].amount
           /\ n = local[w].copied /\ n < a /\ d = WrappingAdd(b, n) /\ e = WrappingAdd(tail[w], n)
           /\ pc[w] = "steal_copy"
           /\ Goto(w, IF n + 1 = a THEN "steal_publish" ELSE "steal_copy", [local[w] EXCEPT !.copied = n + 1])
           /\ Left(w, v, d) /\ Own(w, e) /\ ~Held(w, e)
           /\ \A q \in Workers, s \in SlotIndex : buffer'[q][s] =
                IF q = w /\ s = Slot(e) THEN buffer[v][Slot(d)]
                ELSE IF q = v /\ s = Slot(d) THEN NoJob ELSE buffer[q][s]
           /\ \A q \in Workers, c \in Cursor :
                Held(q, c)' <=> (Held(q, c) /\ ~(q = v /\ c = d)) \/ (q = w /\ c = e)
      BY <2>13, CopyDoes
    <3>0. /\ v # w /\ Own(w, e) /\ ~Held(w, e)
          /\ \A q \in Workers, s \in SlotIndex : buffer'[q][s] =
               IF q = w /\ s = Slot(e) THEN buffer[v][Slot(d)]
               ELSE IF q = v /\ s = Slot(d) THEN NoJob ELSE buffer[q][s]
          /\ \A q \in Workers, c \in Cursor :
               Held(q, c)' <=> (Held(q, c) /\ ~(q = v /\ c = d)) \/ (q = w /\ c = e)
      BY <3>1
    <3> DEFINE Gone == {<<v, d>>}
               Added == {<<w, e>>}
    <3>2. \A q \in Workers, c \in Cursor : /\ <<q, c>> \in Gone <=> q = v /\ c = d
                                           /\ <<q, c>> \in Added <=> q = w /\ c = e
      OBVIOUS
    <3>3. Held(v, d) /\ buffer[v][Slot(d)] # NoJob
      BY <3>1 DEF Held, Sound, JobInv, ContentInv
    <3> HIDE DEF Gone, Added
    <3>4. \A q \in Workers, c \in Cursor :
           /\ <<q, c>> \in Gone => Held(q, c)
           /\ <<q, c>> \in Added => Own(q, c) /\ ~Held(q, c)
           /\ Held(q, c)' <=> (Held(q, c) /\ <<q, c>> \notin Gone) \/ <<q, c>> \in Added
      BY <3>0, <3>2, <3>3
    <3>5. \A q \in Workers, s \in SlotIndex :
           /\ (\E c \in Cursor : <<q, c>> \in Added /\ Slot(c) = s) => buffer'[q][s] # NoJob
           /\ (\E c \in Cursor : <<q, c>> \in Gone /\ Slot(c) = s)
                /\ ~(\E c \in Cursor : <<q, c>> \in Added /\ Slot(c) = s) => buffer'[q][s] = NoJob
           /\ ~(\E c \in Cursor : <<q, c>> \in Added \cup Gone /\ Slot(c) = s)
                => buffer'[q][s] = buffer[q][s]
      BY <3>0, <3>2, <3>3
    <3>6. Trades(Gone, Added)
      BY <3>4, <3>5 DEF Trades
    <3> QED
      BY <3>6, ContentChange
  <2>14. CASE StealPublish(w)
    BY <2>14, HeldStolen, ContentKept DEF StealPublish
  <2> QED
    BY <1>5, <2>1, <2>2, <2>3, <2>4, <2>5, <2>6, <2>7, <2>8, <2>9, <2>10, <2>11,
       <2>12, <2>13, <2>14 DEF Continue
<1>6. CASE UNCHANGED <<tail, blocked, buffer, pc, local>>
  BY <1>6 DEF Sound, JobInv, ContentInv, Held, Queued, Moved, Popped, Left, Filled
<1> QED
  BY <1>4, <1>5, <1>6 DEF Next, Submit, AllDropped, anchors, vars
-----------------------------------------------------------------------------
\* What each step does to the places of the jobs.

\* A worker that carries no job before a step and none after it.
LEMMA CarryKept ==
  ASSUME Sound, NEW w \in Workers, NEW p, NEW l, Goto(w, p, l), ~Carries(w),
         p \notin {"push_write", "spill"}
  PROVE  /\ \A y \in Jobs : InCarry(y)' <=> InCarry(y)
         /\ CarriesOnce'
<1>1. /\ pc'[w] = p /\ \A u \in Workers : u # w => pc'[u] = pc[u] /\ local'[u] = local[u]
  BY GotoDoes
<1>2. \A u \in Workers : /\ Carries(u)' <=> Carries(u)
                         /\ Carries(u) => local'[u] = local[u]
  BY <1>1 DEF Carries
<1>3. \A y \in Jobs : InCarry(y)' <=> InCarry(y)
  BY <1>2 DEF InCarry
<1>4. CarriesOnce'
  BY <1>2 DEF Sound, JobInv, OnceInv, CarriesOnce
<1> QED
  BY <1>3, <1>4

\* A worker that begins to carry x.
LEMMA CarryNew ==
  ASSUME Sound, NEW w \in Workers, NEW p \in {"push_write", "spill"}, NEW l, Goto(w, p, l),
         ~Carries(w), NEW x \in Jobs, ~InCarry(x), l.job = x
  PROVE  /\ \A y \in Jobs : InCarry(y)' <=> InCarry(y) \/ y = x
         /\ CarriesOnce'
<1>1. /\ pc'[w] = p /\ local'[w] = l
      /\ \A u \in Workers : u # w => pc'[u] = pc[u] /\ local'[u] = local[u]
  BY GotoDoes
<1>2. /\ Carries(w)' /\ local'[w].job = x
      /\ \A u \in Workers : u # w => (Carries(u)' <=> Carries(u)) /\ local'[u] = local[u]
  BY <1>1 DEF Carries
<1>3. \A y \in Jobs : InCarry(y)' <=> InCarry(y) \/ y = x
  BY <1>2 DEF InCarry
<1>4. CarriesOnce'
  BY <1>2 DEF Sound, JobInv, OnceInv, CarriesOnce, InCarry
<1> QED
  BY <1>3, <1>4

\* A worker that hands on the job it carries.
LEMMA CarryGone ==
  ASSUME Sound, NEW w \in Workers, NEW p, NEW l, Goto(w, p, l), Carries(w),
         p \notin {"push_write", "spill"}
  PROVE  /\ local[w].job \in Jobs /\ InCarry(local[w].job)
         /\ \A y \in Jobs : InCarry(y)' <=> InCarry(y) /\ y # local[w].job
         /\ CarriesOnce'
<1>1. /\ pc'[w] = p /\ \A u \in Workers : u # w => pc'[u] = pc[u] /\ local'[u] = local[u]
  BY GotoDoes
<1>2. /\ ~Carries(w)' /\ \A u \in Workers : u # w => (Carries(u)' <=> Carries(u)) /\ local'[u] = local[u]
  BY <1>1 DEF Carries
<1>3. \A y \in Jobs : InCarry(y)' <=> InCarry(y) /\ y # local[w].job
  <2>1. \A u \in Workers : Carries(u) /\ local[u].job = local[w].job => u = w
    BY DEF Sound, JobInv, OnceInv, CarriesOnce
  <2> QED
    BY <1>2, <2>1 DEF InCarry
<1>4. CarriesOnce'
  BY <1>2 DEF Sound, JobInv, OnceInv, CarriesOnce
<1>5. local[w].job \in Jobs
  BY OneRing DEF Sound, Carries, LocalOK
<1> QED
  BY <1>3, <1>4, <1>5 DEF InCarry

\* A job that is added to the shared queue.
LEMMA SharedAdd ==
  ASSUME Sound, NEW x \in Jobs, ~InShared(x), shared' = Append(shared, x)
  PROVE  /\ \A y \in Jobs : InShared(y)' <=> InShared(y) \/ y = x
         /\ SharedOnce'
<1>1. PICK n \in Nat : n = Len(shared) /\ DOMAIN shared = 1..n
  BY DEF Sound, DataTypes
<1>2. /\ DOMAIN shared' = 1..(n + 1) /\ shared'[n + 1] = x
      /\ \A i \in 1..n : shared'[i] = shared[i]
  BY <1>1, AppendProperties DEF Sound, DataTypes
<1>3. \A i \in 1..(n + 1) : i = n + 1 \/ i \in 1..n
  BY <1>1
<1>4. \A i \in 1..n : shared[i] # x /\ i \in 1..(n + 1)
  BY <1>1 DEF InShared
<1>5. \A y \in Jobs : InShared(y)' <=> InShared(y) \/ y = x
  BY <1>1, <1>2, <1>3, <1>4 DEF InShared
<1>6. SharedOnce'
  BY <1>1, <1>2, <1>3, <1>4 DEF Sound, JobInv, OnceInv, SharedOnce
<1> QED
  BY <1>5, <1>6

\* The first n jobs leave the shared queue.
LEMMA SharedDrained ==
  ASSUME Sound, NEW n \in Nat, n <= Len(shared), shared' = SubSeq(shared, n + 1, Len(shared))
  PROVE  /\ \A y \in Jobs : InShared(y)' <=> InShared(y) /\ ~(\E k \in 1..n : shared[k] = y)
         /\ SharedOnce'
<1>1. PICK m \in Nat : m = Len(shared) /\ DOMAIN shared = 1..m
  BY DEF Sound, DataTypes
<1>2. DOMAIN shared' = 1..(m - n) /\ \A i \in 1..(m - n) : shared'[i] = shared[n + i]
  <2>1. n + 1 \in 1..(m + 1) /\ m \in n..m
    BY <1>1
  <2>2. /\ Len(shared') = m - n
        /\ \A i \in 1..(m - n) : shared'[i] = shared[n + i]
        /\ shared' \in Seq(Jobs)
    BY <1>1, <2>1, SubSeqProperties DEF Sound, DataTypes
  <2> QED
    BY <2>2
<1>3. \A i \in 1..(m - n) : n + i \in 1..m /\ n + i \notin 1..n
  BY <1>1
<1>4. \A j \in 1..m : j \in 1..n \/ (j - n \in 1..(m - n) /\ n + (j - n) = j)
  BY <1>1
<1>5. 1..n \subseteq 1..m
  BY <1>1
<1>6. \A i, j \in 1..m : shared[i] = shared[j] => i = j
  BY <1>1 DEF Sound, JobInv, OnceInv, SharedOnce
<1>7. ASSUME NEW y \in Jobs
      PROVE  InShared(y)' <=> InShared(y) /\ ~(\E k \in 1..n : shared[k] = y)
  <2>1. ASSUME InShared(y)' PROVE InShared(y) /\ ~(\E k \in 1..n : shared[k] = y)
    <3>1. PICK i \in 1..(m - n) : shared'[i] = y
      BY <1>2, <2>1 DEF InShared
    <3>2. n + i \in 1..m /\ n + i \notin 1..n /\ shared[n + i] = y
      BY <1>2, <1>3, <3>1
    <3> QED
      BY <1>1, <1>5, <1>6, <3>2 DEF InShared
  <2>2. ASSUME InShared(y), ~(\E k \in 1..n : shared[k] = y) PROVE InShared(y)'
    <3>1. PICK j \in 1..m : shared[j] = y
      BY <1>1, <2>2 DEF InShared
    <3>2. j - n \in 1..(m - n) /\ n + (j - n) = j
      BY <1>4, <2>2, <3>1
    <3>3. shared'[j - n] = y
      BY <1>2, <3>1, <3>2
    <3> QED
      BY <1>2, <3>2, <3>3 DEF InShared
  <2> QED
    BY <2>1, <2>2
<1>8. SharedOnce'
  <2> SUFFICES ASSUME NEW i \in 1..(m - n), NEW j \in 1..(m - n), shared'[i] = shared'[j]
               PROVE  i = j
    BY <1>2 DEF SharedOnce
  <2>1. n + i = n + j
    BY <1>2, <1>3, <1>6
  <2> QED
    BY <1>1, <2>1
<1> QED
  BY <1>7, <1>8

\* The slot of a cursor that nobody holds, and that its owner has reserved, is empty.
LEMMA OwnEmpty ==
  ASSUME Sound, NEW q \in Workers, NEW c \in Cursor, Own(q, c), ~Held(q, c)
  PROVE  buffer[q][Slot(c)] = NoJob
<1>1. SUFFICES ASSUME buffer[q][Slot(c)] # NoJob PROVE FALSE
  OBVIOUS
<1>2. PICK d \in Cursor : Held(q, d) /\ Slot(d) = Slot(c)
  BY <1>1, AtSlot DEF Sound, JobInv, ContentInv
<1> QED
  BY <1>2, OneCursor

\* A job in a cell is no other job's.
LEMMA CellWrite ==
  ASSUME Sound, NEW w \in Workers, NEW z \in SlotIndex, NEW x \in Jobs, ~InCell(x),
         buffer[w][z] = NoJob,
         \A q \in Workers, s \in SlotIndex : buffer'[q][s] =
              IF q = w /\ s = z THEN x ELSE buffer[q][s]
  PROVE  /\ \A y \in Jobs : InCell(y)' <=> InCell(y) \/ y = x
         /\ CellsOnce'
<1>1. \A y \in Jobs : InCell(y)' <=> InCell(y) \/ y = x
  BY WorkerAssumption DEF InCell
<1>2. CellsOnce'
  BY WorkerAssumption DEF Sound, JobInv, OnceInv, CellsOnce, InCell
<1> QED
  BY <1>1, <1>2

\* A job is moved out of a cell.
LEMMA CellTake ==
  ASSUME Sound, NEW w \in Workers, NEW z \in SlotIndex, buffer[w][z] # NoJob,
         \A q \in Workers, s \in SlotIndex : buffer'[q][s] =
              IF q = w /\ s = z THEN NoJob ELSE buffer[q][s]
  PROVE  /\ buffer[w][z] \in Jobs /\ InCell(buffer[w][z])
         /\ \A y \in Jobs : InCell(y)' <=> InCell(y) /\ y # buffer[w][z]
         /\ CellsOnce'
<1>1. buffer[w][z] \in Jobs /\ InCell(buffer[w][z])
  BY DEF Sound, DataTypes, InCell
<1>2. \A q \in Workers, s \in SlotIndex : buffer[q][s] = buffer[w][z] => q = w /\ s = z
  BY DEF Sound, JobInv, OnceInv, CellsOnce
<1>3. \A y \in Jobs : InCell(y)' <=> InCell(y) /\ y # buffer[w][z]
  BY <1>2, WorkerAssumption DEF InCell
<1>4. CellsOnce'
  BY DEF Sound, JobInv, OnceInv, CellsOnce
<1> QED
  BY <1>1, <1>3, <1>4

\* A job is moved from one cell to an empty one.
LEMMA CellMove ==
  ASSUME Sound, NEW w \in Workers, NEW z \in SlotIndex, NEW v \in Workers, NEW s0 \in SlotIndex,
         v # w, buffer[v][s0] # NoJob, buffer[w][z] = NoJob,
         \A q \in Workers, s \in SlotIndex : buffer'[q][s] =
                IF q = w /\ s = z THEN buffer[v][s0]
                ELSE IF q = v /\ s = s0 THEN NoJob ELSE buffer[q][s]
  PROVE  /\ \A y \in Jobs : InCell(y)' <=> InCell(y)
         /\ CellsOnce'
<1>1. \A q, r \in Workers, s, u \in SlotIndex :
         buffer[q][s] = buffer[r][u] /\ buffer[q][s] # NoJob => q = r /\ s = u
  BY DEF Sound, JobInv, OnceInv, CellsOnce
<1>2. ASSUME NEW y \in Jobs
      PROVE  InCell(y)' <=> InCell(y)
  <2>1. y # NoJob
    BY WorkerAssumption
  <2>2. ASSUME InCell(y) PROVE InCell(y)'
    <3>1. PICK q \in Workers, s \in SlotIndex : buffer[q][s] = y
      BY <2>2 DEF InCell
    <3>2. CASE q = v /\ s = s0
      BY <3>1, <3>2 DEF InCell
    <3>3. CASE ~(q = v /\ s = s0)
      <4>1. buffer'[q][s] = y
        BY <2>1, <3>1, <3>3
      <4> QED
        BY <4>1 DEF InCell
    <3> QED
      BY <3>2, <3>3
  <2>3. ASSUME InCell(y)' PROVE InCell(y)
    BY <2>1, <2>3 DEF InCell
  <2> QED
    BY <2>2, <2>3
<1>3. CellsOnce'
  <2> SUFFICES ASSUME NEW q \in Workers, NEW r \in Workers, NEW s \in SlotIndex, NEW u \in SlotIndex,
                      buffer'[q][s] = buffer'[r][u], buffer'[q][s] # NoJob
               PROVE  q = r /\ s = u
    BY DEF CellsOnce
  <2> QED
    BY <1>1
<1> QED
  BY <1>2, <1>3

\* The drain moves the first n jobs of the shared queue into empty cells.
LEMMA CellsFilled ==
  ASSUME Sound, NEW w \in Workers, PullDrain(w)
  PROVE  /\ \A y \in Jobs : /\ InShared(y) /\ ~InShared(y)' <=> InCell(y)' /\ ~InCell(y)
                            /\ InShared(y)' => InShared(y)
                            /\ InCell(y) => InCell(y)'
         /\ CellsOnce' /\ SharedOnce'
<1>1. PICK n \in 1..Capacity :
           /\ n <= Len(shared) /\ n <= local[w].amount /\ tail[w] \in Cursor
           /\ shared' = SubSeq(shared, n + 1, Len(shared)) /\ out' = out
           /\ pc[w] = "pull_drain"
           /\ Goto(w, "pull_publish", [NoLocal(w) EXCEPT !.amount = n, !.copied = n])
           /\ \A k \in 0..(n - 1) : buffer'[w][At(tail[w], k)] = shared[k + 1]
           /\ \A q \in Workers, s \in SlotIndex :
                q # w \/ (\A k \in 0..(n - 1) : s # At(tail[w], k)) => buffer'[q][s] = buffer[q][s]
           /\ \A c \in Cursor : InRun(c, tail[w], n) => Own(w, c) /\ ~Held(w, c)
           /\ \A q \in Workers, c \in Cursor :
                Held(q, c)' <=> Held(q, c) \/ (q = w /\ InRun(c, tail[w], n))
  BY DrainDoes
<1>2. n \in 0..Capacity /\ n \in Nat /\ Len(shared) \in Nat /\ DOMAIN shared = 1..Len(shared)
  BY CursorFacts DEF Sound, DataTypes
<1>3. /\ \A y \in Jobs : InShared(y)' <=> InShared(y) /\ ~(\E k \in 1..n : shared[k] = y)
      /\ SharedOnce'
  BY <1>1, <1>2, SharedDrained
<1>4. \A k \in 0..(n - 1) : /\ buffer'[w][At(tail[w], k)] = shared[k + 1]
                            /\ At(tail[w], k) \in SlotIndex /\ buffer[w][At(tail[w], k)] = NoJob
                            /\ shared[k + 1] \in Jobs /\ k + 1 \in 1..n /\ k + 1 \in DOMAIN shared
  <2> SUFFICES ASSUME NEW k \in 0..(n - 1)
               PROVE  /\ buffer'[w][At(tail[w], k)] = shared[k + 1]
                      /\ At(tail[w], k) \in SlotIndex /\ buffer[w][At(tail[w], k)] = NoJob
                      /\ shared[k + 1] \in Jobs /\ k + 1 \in 1..n /\ k + 1 \in DOMAIN shared
    OBVIOUS
  <2>1. k \in 0..Capacity /\ k + 1 \in 1..n /\ k + 1 \in 1..Len(shared)
    BY <1>1, <1>2, CursorFacts
  <2>2. PICK c \in Cursor : c = WrappingAdd(tail[w], k) /\ Slot(c) = At(tail[w], k) /\ Slot(c) \in SlotIndex
    BY <1>1, <2>1, AtSlot
  <2>3. Own(w, c) /\ ~Held(w, c)
    BY <1>1, <1>2, <2>2, RunPlaces
  <2>4. buffer[w][At(tail[w], k)] = NoJob
    BY <2>2, <2>3, OwnEmpty
  <2> QED
    BY <1>1, <1>2, <2>1, <2>2, <2>4 DEF Sound, DataTypes
<1>5. \A q \in Workers, s \in SlotIndex :
         \/ q = w /\ \E k \in 0..(n - 1) : s = At(tail[w], k)
         \/ buffer'[q][s] = buffer[q][s]
  BY <1>1
<1>6. \A k \in 1..n : k - 1 \in 0..(n - 1) /\ (k - 1) + 1 = k
  BY <1>2
<1>7. \A k \in 0..(n - 1) : InShared(shared[k + 1]) /\ ~InCell(shared[k + 1])
  BY <1>4 DEF InShared, Sound, JobInv, KindInv
<1>8. ASSUME NEW y \in Jobs
      PROVE  InCell(y)' <=> InCell(y) \/ \E k \in 1..n : shared[k] = y
  <2>0. y # NoJob
    BY WorkerAssumption
  <2>1. ASSUME InCell(y) PROVE InCell(y)'
    <3>1. PICK q \in Workers, s \in SlotIndex : buffer[q][s] = y
      BY <2>1 DEF InCell
    <3>2. buffer'[q][s] = y
      BY <1>4, <1>5, <2>0, <3>1
    <3> QED
      BY <3>2 DEF InCell
  <2>2. ASSUME NEW k \in 1..n, shared[k] = y PROVE InCell(y)'
    <3>1. PICK j \in 0..(n - 1) : j + 1 = k
      BY <1>6
    <3> QED
      BY <1>4, <2>2, <3>1 DEF InCell
  <2>3. ASSUME InCell(y)' PROVE InCell(y) \/ \E k \in 1..n : shared[k] = y
    <3>1. PICK q \in Workers, s \in SlotIndex : buffer'[q][s] = y
      BY <2>3 DEF InCell
    <3> QED
      BY <1>4, <1>5, <3>1 DEF InCell
  <2> QED
    BY <2>1, <2>2, <2>3
<1>9. CellsOnce'
  <2> SUFFICES ASSUME NEW q \in Workers, NEW r \in Workers, NEW s \in SlotIndex, NEW u \in SlotIndex,
                      buffer'[q][s] = buffer'[r][u], buffer'[q][s] # NoJob
               PROVE  q = r /\ s = u
    BY DEF CellsOnce
  <2>1. CASE buffer'[q][s] = buffer[q][s] /\ buffer'[r][u] = buffer[r][u]
    <3>1. CellsOnce
      BY DEF Sound, JobInv, OnceInv
    <3>2. buffer[q][s] = buffer[r][u] /\ buffer[q][s] # NoJob
      BY <2>1
    <3> QED
      BY <3>1, <3>2 DEF CellsOnce
  <2>2. ASSUME NEW k \in 0..(n - 1), q = w, s = At(tail[w], k), buffer'[r][u] = buffer[r][u]
        PROVE  FALSE
    <3>1. buffer[r][u] = shared[k + 1]
      BY <1>4, <2>2
    <3> QED
      BY <1>7, <3>1 DEF InCell
  <2>3. ASSUME NEW k \in 0..(n - 1), r = w, u = At(tail[w], k), buffer'[q][s] = buffer[q][s]
        PROVE  FALSE
    <3>1. buffer[q][s] = shared[k + 1]
      BY <1>4, <2>3
    <3> QED
      BY <1>7, <3>1 DEF InCell
  <2>4. ASSUME NEW k \in 0..(n - 1), q = w, s = At(tail[w], k), NEW j \in 0..(n - 1), r = w, u = At(tail[w], j)
        PROVE  q = r /\ s = u
    <3>1. k + 1 = j + 1
      BY <1>4, <2>4 DEF Sound, JobInv, OnceInv, SharedOnce
    <3>2. k = j
      BY <1>2, <3>1
    <3> QED
      BY <2>4, <3>2
  <2> QED
    BY <1>5, <2>1, <2>2, <2>3, <2>4
<1>10. \A y \in Jobs : (\E k \in 1..n : shared[k] = y) => InShared(y) /\ ~InCell(y)
  BY <1>6, <1>7
<1> QED
  BY <1>3, <1>8, <1>9, <1>10

\* What Drop releases are the jobs in the ring.
LEMMA DropsJobs ==
  ASSUME Sound, NEW w \in Workers, Drop(w)
  PROVE  /\ NoJob \notin Dropped(w)
         /\ \A y \in Jobs : y \in Dropped(w) <=> \E s \in SlotIndex : buffer[w][s] = y
<1>1. /\ blocked[w] \in Cursor /\ Filled(w) \in 0..Capacity
  BY OneRing, CursorFacts DEF Sound
<1>2. \A c \in Cursor : Held(w, c) <=> \E k \in 0..(Filled(w) - 1) : c = WrappingAdd(blocked[w], k)
  BY <1>1, DropDoes, RunPlaces
<1>3. \A k \in 0..(Filled(w) - 1) :
         /\ WrappingAdd(blocked[w], k) \in Cursor /\ Slot(WrappingAdd(blocked[w], k)) \in SlotIndex
         /\ Item(w, blocked[w], k) = buffer[w][Slot(WrappingAdd(blocked[w], k))]
  <2>1. \A k \in 0..(Filled(w) - 1) : k \in 0..Capacity
    BY <1>1, CursorFacts
  <2> QED
    BY <1>1, <2>1, AtSlot DEF Item
<1>4. \A k \in 0..(Filled(w) - 1) : Item(w, blocked[w], k) # NoJob
  BY <1>2, <1>3 DEF Sound, JobInv, ContentInv
<1>5. ASSUME NEW y \in Jobs, y \in Dropped(w)
      PROVE  \E s \in SlotIndex : buffer[w][s] = y
  BY <1>3, <1>5 DEF Dropped
<1>6. ASSUME NEW y \in Jobs, NEW s \in SlotIndex, buffer[w][s] = y
      PROVE  y \in Dropped(w)
  <2>1. PICK c \in Cursor : Held(w, c) /\ Slot(c) = s
    BY <1>6, WorkerAssumption DEF Sound, JobInv, ContentInv
  <2>2. PICK k \in 0..(Filled(w) - 1) : c = WrappingAdd(blocked[w], k)
    BY <1>2, <2>1
  <2> QED
    BY <1>3, <1>6, <2>1, <2>2 DEF Dropped
<1> QED
  BY <1>4, <1>5, <1>6 DEF Dropped

\* A step that leaves the queues alone.
LEMMA PlacesKept ==
  ASSUME Sound, buffer' = buffer, shared' = shared
  PROVE  /\ \A y \in Jobs : (InShared(y)' <=> InShared(y)) /\ (InCell(y)' <=> InCell(y))
         /\ CellsOnce' /\ SharedOnce'
BY DEF Sound, JobInv, OnceInv, CellsOnce, SharedOnce, InShared, InCell

\* No step duplicates or loses a job.
LEMMA PlaceStep ==
  ASSUME Sound, Next
  PROVE  OnceInv' /\ KindInv'
<1>0. /\ NoJob \notin out
      /\ \A x \in Jobs :
           /\ x \in out \/ InShared(x) \/ InCarry(x) \/ InCell(x)
           /\ x \in out => ~InShared(x) /\ ~InCarry(x) /\ ~InCell(x)
           /\ InShared(x) => ~InCarry(x) /\ ~InCell(x)
           /\ InCarry(x) => ~InCell(x)
      /\ CellsOnce /\ SharedOnce /\ CarriesOnce
  BY DEF Sound, JobInv, KindInv, OnceInv
<1>1. ASSUME NEW w \in Workers, NEW p, NEW l, Goto(w, p, l), UNCHANGED <<buffer, shared, out>>,
             pc[w] \notin {"push_write", "spill"}, p \notin {"push_write", "spill"}
      PROVE  OnceInv' /\ KindInv'
  <2>1. ~Carries(w)
    BY <1>1 DEF Carries
  <2>2. /\ \A y \in Jobs : InCarry(y)' <=> InCarry(y)
        /\ CarriesOnce'
    BY <1>1, <2>1, CarryKept
  <2>3. /\ \A y \in Jobs : (InShared(y)' <=> InShared(y)) /\ (InCell(y)' <=> InCell(y))
        /\ CellsOnce' /\ SharedOnce'
    BY <1>1, PlacesKept
  <2> QED
    BY <1>0, <1>1, <2>2, <2>3 DEF OnceInv, KindInv
<1>2. ASSUME NEW w \in Workers, PopLook(w), UNCHANGED <<buffer, shared, out>>,
             pc[w] \in {"ready", "pop_cas"}
      PROVE  OnceInv' /\ KindInv'
  BY <1>1, <1>2 DEF PopLook
<1>3. ASSUME NEW w \in Workers, NEW x \in Jobs, PushLoad(w, x)
      PROVE  OnceInv' /\ KindInv'
  <2> DEFINE p == IF Free(w) < 1 THEN "spill" ELSE "push_write"
             l == [NoLocal(w) EXCEPT !.job = x, !.amount = Least(Free(w), 1)]
  <2>1. /\ x \in out /\ Goto(w, p, l) /\ ~Carries(w) /\ l.job = x /\ p \in {"push_write", "spill"}
        /\ out' = out \ {x} /\ buffer' = buffer /\ shared' = shared
    BY <1>3 DEF PushLoad, Carries, NoLocal
  <2> HIDE DEF p, l
  <2>2. ~InCarry(x)
    BY <1>0, <2>1
  <2>3. /\ \A y \in Jobs : InCarry(y)' <=> InCarry(y) \/ y = x
        /\ CarriesOnce'
    BY <2>1, <2>2, CarryNew
  <2>4. /\ \A y \in Jobs : (InShared(y)' <=> InShared(y)) /\ (InCell(y)' <=> InCell(y))
        /\ CellsOnce' /\ SharedOnce'
    BY <2>1, PlacesKept
  <2> QED
    BY <1>0, <2>1, <2>3, <2>4 DEF OnceInv, KindInv
<1>4. ASSUME NEW w \in Workers, Drop(w)
      PROVE  OnceInv' /\ KindInv'
  <2>1. /\ out' = out \cup Dropped(w) /\ shared' = shared /\ Goto(w, "dropped", NoLocal(w)) /\ ~Carries(w)
    BY <1>4 DEF Drop, Return, Carries
  <2>2. \A q \in Workers, s \in SlotIndex : buffer'[q][s] = IF q = w THEN NoJob ELSE buffer[q][s]
    BY <1>4, DropDoes
  <2>3. /\ NoJob \notin Dropped(w)
        /\ \A y \in Jobs : y \in Dropped(w) <=> \E s \in SlotIndex : buffer[w][s] = y
    BY <1>4, DropsJobs
  <2>4. \A y \in Jobs : y \in Dropped(w) => InCell(y)
    BY <2>3 DEF InCell
  <2>5. \A y \in Jobs : InCell(y)' <=> InCell(y) /\ y \notin Dropped(w)
    <3> SUFFICES ASSUME NEW y \in Jobs
                 PROVE  InCell(y)' <=> InCell(y) /\ y \notin Dropped(w)
      OBVIOUS
    <3>1. ASSUME InCell(y)' PROVE InCell(y) /\ y \notin Dropped(w)
      <4>1. PICK q \in Workers, s \in SlotIndex : buffer'[q][s] = y
        BY <3>1 DEF InCell
      <4>2. q # w /\ buffer[q][s] = y
        BY <2>2, <4>1, WorkerAssumption
      <4> QED
        BY <1>0, <2>3, <4>2, WorkerAssumption DEF InCell, CellsOnce
    <3>2. ASSUME InCell(y), y \notin Dropped(w) PROVE InCell(y)'
      BY <2>2, <2>3, <3>2 DEF InCell
    <3> QED
      BY <3>1, <3>2
  <2>6. CellsOnce'
    BY <1>0, <2>2 DEF CellsOnce
  <2>7. /\ \A y \in Jobs : InCarry(y)' <=> InCarry(y)
        /\ CarriesOnce'
    BY <2>1, CarryKept
  <2>8. (\A y \in Jobs : InShared(y)' <=> InShared(y)) /\ SharedOnce'
    BY <1>0, <2>1 DEF InShared, SharedOnce
  <2>9. OnceInv'
    BY <2>6, <2>7, <2>8 DEF OnceInv
  <2>10. KindInv'
    BY <1>0, <2>1, <2>3, <2>4, <2>5, <2>7, <2>8 DEF KindInv
  <2> QED
    BY <2>9, <2>10
<1>5. ASSUME NEW w \in Workers, Operation(w)
      PROVE  OnceInv' /\ KindInv'
  <2>1. CASE PopLoad(w)
    BY <1>2, <2>1 DEF PopLoad
  <2>2. CASE PullLoad(w)
    BY <1>1, <2>2 DEF PullLoad
  <2>3. ASSUME NEW v \in Workers, NEW max \in 1..Capacity, StealBegin(w, v, max)
        PROVE  OnceInv' /\ KindInv'
    BY <1>1, <2>3 DEF StealBegin
  <2>4. CASE Retry(w)
    BY <1>1, <2>4 DEF Retry, Return
  <2>5. CASE Exit(w)
    BY <1>1, <2>5 DEF Exit, Return
  <2> QED
    BY <1>3, <1>4, <1>5, <2>1, <2>2, <2>3, <2>4, <2>5 DEF Operation
<1>6. ASSUME NEW w \in Workers, Continue(w)
      PROVE  OnceInv' /\ KindInv'
  <2>1. CASE PushWrite(w)
    <3> DEFINE l == [NoLocal(w) EXCEPT !.amount = 1, !.copied = 1]
               x == local[w].job
    <3>1. /\ Goto(w, "push_publish", l) /\ Carries(w) /\ shared' = shared /\ out' = out
      BY <2>1 DEF PushWrite, Carries
    <3>2. /\ tail[w] \in Cursor /\ Own(w, tail[w]) /\ ~Held(w, tail[w])
          /\ \A q \in Workers, s \in SlotIndex : buffer'[q][s] =
               IF q = w /\ s = Slot(tail[w]) THEN x ELSE buffer[q][s]
      BY <2>1, WriteDoes
    <3>3. buffer[w][Slot(tail[w])] = NoJob /\ Slot(tail[w]) \in SlotIndex
      BY <3>2, OwnEmpty, AtSlot
    <3> HIDE DEF l
    <3>4. /\ x \in Jobs /\ InCarry(x) /\ CarriesOnce'
          /\ \A y \in Jobs : InCarry(y)' <=> InCarry(y) /\ y # x
      BY <3>1, CarryGone
    <3> HIDE DEF x
    <3>5. ~InCell(x)
      BY <1>0, <3>4
    <3>6. (\A y \in Jobs : InCell(y)' <=> InCell(y) \/ y = x) /\ CellsOnce'
      BY <3>2, <3>3, <3>4, <3>5, CellWrite
    <3>7. (\A y \in Jobs : InShared(y)' <=> InShared(y)) /\ SharedOnce'
      BY <1>0, <3>1 DEF InShared, SharedOnce
    <3> QED
      BY <1>0, <3>1, <3>4, <3>6, <3>7 DEF OnceInv, KindInv
  <2>2. CASE PushPublish(w) \/ PullPublish(w) \/ StealBump(w)
    BY <1>1, <2>2 DEF PushPublish, PullPublish, StealBump, Return
  <2>3. CASE Spill(w)
    <3> DEFINE x == local[w].job
    <3>1. /\ Goto(w, "ready", NoLocal(w)) /\ Carries(w) /\ shared' = Append(shared, x) /\ out' = out
          /\ buffer' = buffer
      BY <2>3 DEF Spill, Carries, Return
    <3>2. /\ x \in Jobs /\ InCarry(x) /\ CarriesOnce'
          /\ \A y \in Jobs : InCarry(y)' <=> InCarry(y) /\ y # x
      BY <3>1, CarryGone
    <3> HIDE DEF x
    <3>3. ~InShared(x)
      BY <1>0, <3>2
    <3>4. (\A y \in Jobs : InShared(y)' <=> InShared(y) \/ y = x) /\ SharedOnce'
      BY <3>1, <3>2, <3>3, SharedAdd
    <3>5. (\A y \in Jobs : InCell(y)' <=> InCell(y)) /\ CellsOnce'
      BY <1>0, <3>1 DEF InCell, CellsOnce
    <3> QED
      BY <1>0, <3>1, <3>2, <3>4, <3>5 DEF OnceInv, KindInv
  <2>4. CASE PopCas(w)
    BY <1>1, <2>4 DEF PopCas
  <2>5. CASE PopRetry(w)
    BY <1>2, <2>5 DEF PopRetry
  <2>6. CASE PopTake(w)
    <3> DEFINE x == buffer[w][Slot(tail[w])]
    <3>1. /\ tail[w] \in Cursor /\ Held(w, tail[w]) /\ Item(w, tail[w], 0) = x
          /\ \A q \in Workers, s \in SlotIndex : buffer'[q][s] =
               IF q = w /\ s = Slot(tail[w]) THEN NoJob ELSE buffer[q][s]
      BY <2>6, TakeDoes
    <3>2. /\ out' = out \cup {x} /\ shared' = shared /\ Goto(w, "ready", NoLocal(w)) /\ ~Carries(w)
      BY <2>6, <3>1 DEF PopTake, Return, Carries
    <3>3. x # NoJob /\ Slot(tail[w]) \in SlotIndex
      BY <3>1, AtSlot DEF Sound, JobInv, ContentInv
    <3>4. /\ x \in Jobs /\ InCell(x) /\ CellsOnce'
          /\ \A y \in Jobs : InCell(y)' <=> InCell(y) /\ y # x
      BY <3>1, <3>3, CellTake
    <3> HIDE DEF x
    <3>5. (\A y \in Jobs : InCarry(y)' <=> InCarry(y)) /\ CarriesOnce'
      BY <3>2, CarryKept
    <3>6. (\A y \in Jobs : InShared(y)' <=> InShared(y)) /\ SharedOnce'
      BY <1>0, <3>2 DEF InShared, SharedOnce
    <3> QED
      BY <1>0, <3>2, <3>3, <3>4, <3>5, <3>6 DEF OnceInv, KindInv
  <2>7. CASE PullDrain(w)
    <3> DEFINE n == Least(local[w].amount, Len(shared))
               l == [NoLocal(w) EXCEPT !.amount = n, !.copied = n]
    <3>1. out' = out /\ Goto(w, "pull_publish", l) /\ ~Carries(w)
      BY <2>7 DEF PullDrain, Carries
    <3> HIDE DEF n, l
    <3>2. /\ \A y \in Jobs : /\ InShared(y) /\ ~InShared(y)' <=> InCell(y)' /\ ~InCell(y)
                             /\ InShared(y)' => InShared(y)
                             /\ InCell(y) => InCell(y)'
          /\ CellsOnce' /\ SharedOnce'
      BY <2>7, CellsFilled
    <3>3. (\A y \in Jobs : InCarry(y)' <=> InCarry(y)) /\ CarriesOnce'
      BY <3>1, CarryKept
    <3> QED
      BY <1>0, <3>1, <3>2, <3>3 DEF OnceInv, KindInv
  <2>8. CASE PullNothing(w)
    BY <1>1, <2>8 DEF PullNothing, Return
  <2>9. CASE StealLoad(w)
    BY <1>1, <2>9 DEF StealLoad
  <2>10. CASE StealEmpty(w)
    BY <1>1, <2>10 DEF StealEmpty, Return
  <2>11. CASE StealCas(w)
    BY <1>1, <2>11 DEF StealCas
  <2>12. CASE StealBusy(w)
    BY <1>1, <2>12 DEF StealBusy, Return
  <2>13. CASE StealCopy(w)
    <3>1. PICK v \in Workers, b \in Cursor, a \in 1..Capacity, n \in 0..Capacity, d \in Cursor, e \in Cursor :
           /\ v = local[w].victim /\ v # w /\ b = local[w].blocked /\ a = local[w].amount
           /\ n = local[w].copied /\ n < a /\ d = WrappingAdd(b, n) /\ e = WrappingAdd(tail[w], n)
           /\ pc[w] = "steal_copy"
           /\ Goto(w, IF n + 1 = a THEN "steal_publish" ELSE "steal_copy", [local[w] EXCEPT !.copied = n + 1])
           /\ Left(w, v, d) /\ Own(w, e) /\ ~Held(w, e)
           /\ \A q \in Workers, s \in SlotIndex : buffer'[q][s] =
                IF q = w /\ s = Slot(e) THEN buffer[v][Slot(d)]
                ELSE IF q = v /\ s = Slot(d) THEN NoJob ELSE buffer[q][s]
           /\ \A q \in Workers, c \in Cursor :
                Held(q, c)' <=> (Held(q, c) /\ ~(q = v /\ c = d)) \/ (q = w /\ c = e)
      BY <2>13, CopyDoes
    <3>2. /\ buffer[v][Slot(d)] # NoJob /\ Slot(d) \in SlotIndex /\ Slot(e) \in SlotIndex
          /\ buffer[w][Slot(e)] = NoJob
      BY <3>1, AtSlot, OwnEmpty DEF Held, Sound, JobInv, ContentInv
    <3>3. (\A y \in Jobs : InCell(y)' <=> InCell(y)) /\ CellsOnce'
      BY <3>1, <3>2, CellMove
    <3> DEFINE p == IF n + 1 = a THEN "steal_publish" ELSE "steal_copy"
               l == [local[w] EXCEPT !.copied = n + 1]
    <3>4. Goto(w, p, l) /\ ~Carries(w) /\ p \notin {"push_write", "spill"}
      BY <3>1 DEF Carries
    <3> HIDE DEF p, l
    <3>5. (\A y \in Jobs : InCarry(y)' <=> InCarry(y)) /\ CarriesOnce'
      BY <3>4, CarryKept
    <3>6. (\A y \in Jobs : InShared(y)' <=> InShared(y)) /\ SharedOnce' /\ out' = out
      BY <1>0, <2>13 DEF StealCopy, InShared, SharedOnce
    <3> QED
      BY <1>0, <3>3, <3>5, <3>6 DEF OnceInv, KindInv
  <2>14. CASE StealPublish(w)
    BY <1>1, <2>14 DEF StealPublish
  <2> QED
    BY <1>6, <2>1, <2>2, <2>3, <2>4, <2>5, <2>6, <2>7, <2>8, <2>9, <2>10, <2>11,
       <2>12, <2>13, <2>14 DEF Continue
<1>7. ASSUME NEW x \in Jobs, Submit(x)
      PROVE  OnceInv' /\ KindInv'
  <2>1. /\ x \in out /\ out' = out \ {x} /\ shared' = Append(shared, x)
        /\ buffer' = buffer /\ pc' = pc /\ local' = local
    BY <1>7 DEF Submit
  <2>2. ~InShared(x)
    BY <1>0, <2>1
  <2>3. (\A y \in Jobs : InShared(y)' <=> InShared(y) \/ y = x) /\ SharedOnce'
    BY <2>1, <2>2, SharedAdd
  <2>4. (\A y \in Jobs : (InCell(y)' <=> InCell(y)) /\ (InCarry(y)' <=> InCarry(y))) /\ CellsOnce' /\ CarriesOnce'
    BY <1>0, <2>1 DEF InCell, InCarry, CellsOnce, CarriesOnce, Carries
  <2> QED
    BY <1>0, <2>1, <2>3, <2>4 DEF OnceInv, KindInv
<1>8. CASE UNCHANGED vars
  BY <1>0, <1>8 DEF vars, OnceInv, KindInv, InCell, InCarry, InShared, CellsOnce, CarriesOnce, SharedOnce, Carries
<1> QED
  BY <1>5, <1>6, <1>7, <1>8 DEF Next, AllDropped
-----------------------------------------------------------------------------
\* The invariant of the jobs is inductive.

\* In the beginning every job is outside and every slot is empty.
LEMMA InitJobs == Init => JobInv
<1> SUFFICES ASSUME Init PROVE JobInv
  OBVIOUS
<1>1. \A w \in Workers : /\ Filled(w) = 0 /\ pc[w] = "ready" /\ blocked[w] \in Cursor
                         /\ \A s \in SlotIndex : buffer[w][s] = NoJob
  BY WrapTypes, SubZero DEF Init, Filled, filled_slots
<1>2. \A q \in Workers, c \in Cursor : ~Held(q, c)
  <2> SUFFICES ASSUME NEW q \in Workers, NEW c \in Cursor PROVE ~Held(q, c)
    OBVIOUS
  <2>1. WrappingSub(c, blocked[q]) \in Nat
    BY <1>1, SubNat
  <2>2. ~Queued(q, c)
    BY <1>1, <2>1 DEF Queued, InRun
  <2> QED
    BY <1>1, <2>2 DEF Held, Moved, Popped, Left, Publishing
<1>3. ContentInv
  BY <1>1, <1>2 DEF ContentInv
<1>4. MoveInv /\ EndInv
  BY <1>1 DEF MoveInv, MoveOK, EndInv, Publishing
<1>5. DOMAIN shared = {} /\ out = Jobs
  BY DEF Init
<1>6. \A x \in Jobs : ~InShared(x) /\ ~InCarry(x) /\ ~InCell(x)
  BY <1>1, <1>5, WorkerAssumption DEF InShared, InCarry, InCell, Carries
<1>7. OnceInv
  BY <1>1, <1>5 DEF OnceInv, CellsOnce, SharedOnce, CarriesOnce, Carries
<1>8. KindInv
  BY <1>5, <1>6, WorkerAssumption DEF KindInv
<1> QED
  BY <1>3, <1>4, <1>7, <1>8 DEF JobInv

\* Every step keeps it.
LEMMA StepJobs ==
  ASSUME Sound, [Next]_vars
  PROVE  Sound'
<1>1. CASE Next
  <2>1. RingInv' /\ DataTypes'
    BY <1>1, StepRing, StepTypes DEF Sound
  <2>2. ContentInv' /\ MoveInv' /\ EndInv' /\ OnceInv' /\ KindInv'
    BY <1>1, ContentStep, MoveStep, EndStep, PlaceStep
  <2> QED
    BY <2>1, <2>2 DEF Sound, JobInv
<1>2. CASE UNCHANGED vars
  <2>1. RingInv' /\ DataTypes'
    BY <1>2, Unmoved DEF Sound, vars, DataTypes
  <2>2. ContentInv'
    BY <1>2 DEF Sound, JobInv, vars, ContentInv, Held, Queued, Moved, Popped, Left, Filled
  <2>3. MoveInv' /\ EndInv'
    BY <1>2 DEF Sound, JobInv, vars, MoveInv, MoveOK, EndInv, Filled
  <2>4. OnceInv'
    BY <1>2 DEF Sound, JobInv, vars, OnceInv, CellsOnce, CarriesOnce, SharedOnce, Carries
  <2>5. KindInv'
    BY <1>2 DEF Sound, JobInv, vars, KindInv, InCell, InCarry, InShared, Carries
  <2> QED
    BY <2>1, <2>2, <2>3, <2>4, <2>5 DEF Sound, JobInv
<1> QED
  BY <1>1, <1>2

(***************************************************************************)
(* A slot holds a job exactly while the job is queued, moved, popped or    *)
(* claimed there, and every job is in one place.                           *)
(***************************************************************************)
THEOREM JobInvariance == Spec => [](RingInv /\ DataTypes /\ JobInv)
<1>1. Init => Sound
  BY InitRing, InitJobs DEF Sound
<1>2. Sound /\ [Next]_vars => Sound'
  BY StepJobs
<1>3. Sound => RingInv /\ DataTypes /\ JobInv
  BY DEF Sound
<1> QED
  BY <1>1, <1>2, <1>3, PTL DEF Spec

(***************************************************************************)
(* OnlyJobsTaken: take_at and drop_at never meet an empty slot.            *)
(***************************************************************************)
THEOREM TakesJobsOnly == Spec => []OnlyJobsTaken
<1>1. JobInv => OnlyJobsTaken
  BY DEF JobInv, KindInv, OnlyJobsTaken
<1> QED
  BY <1>1, JobInvariance, PTL
-----------------------------------------------------------------------------
\* The places of a job in the deques of WorkStealing.

\* The jobs of a deque are those at its queued cursors.
LEMMA DequeIs ==
  ASSUME Sound, NEW w \in Workers
  PROVE  /\ pc[w] = "dropped" => DequeOf(w) = <<>> /\ DOMAIN DequeOf(w) = {}
         /\ pc[w] # "dropped" =>
              /\ DOMAIN DequeOf(w) = 1..Filled(w)
              /\ \A i \in 1..Filled(w) :
                   /\ WrappingAdd(blocked[w], i - 1) \in Cursor
                   /\ DequeOf(w)[i] = buffer[w][Slot(WrappingAdd(blocked[w], i - 1))]
<1>1. blocked[w] \in Cursor /\ Filled(w) \in 0..Capacity
  BY OneRing, CursorFacts DEF Sound
<1>2. \A i \in 1..Filled(w) : i - 1 \in 0..Capacity
  BY <1>1, CursorFacts
<1>3. \A i \in 1..Filled(w) : /\ WrappingAdd(blocked[w], i - 1) \in Cursor
                              /\ Item(w, blocked[w], i - 1) = buffer[w][Slot(WrappingAdd(blocked[w], i - 1))]
  BY <1>1, <1>2, AtSlot DEF Item
<1> QED
  BY <1>3 DEF DequeOf

\* The jobs in flight: the one that is carried, or those at the moved cursors
\* followed by those that are left with the victim.
LEMMA FlightIs ==
  ASSUME Sound, NEW w \in Workers
  PROVE  /\ Carries(w) => FlightOf(w) = <<local[w].job>>
         /\ ~Carries(w) /\ pc[w] \notin Publishing => FlightOf(w) = <<>>
         /\ pc[w] \in Publishing =>
              /\ DOMAIN FlightOf(w) = 1..local[w].amount
              /\ local[w].copied \in 0..local[w].amount /\ local[w].amount \in 1..Capacity
              /\ pc[w] # "steal_copy" => local[w].copied = local[w].amount
              /\ \A i \in 1..local[w].amount :
                   /\ WrappingAdd(tail[w], i - 1) \in Cursor /\ WrappingAdd(local[w].blocked, i - 1) \in Cursor
                   /\ i <= local[w].copied => FlightOf(w)[i] = buffer[w][Slot(WrappingAdd(tail[w], i - 1))]
                   /\ ~(i <= local[w].copied) =>
                        FlightOf(w)[i] = buffer[local[w].victim][Slot(WrappingAdd(local[w].blocked, i - 1))]
<1>1. /\ tail[w] \in Cursor /\ local[w].blocked \in Cursor /\ local[w].amount \in 0..Capacity
      /\ local[w].copied \in Nat /\ LocalOK(w, pc[w], local[w], tail[w]) /\ MoveOK(pc[w], local[w])
  BY OneRing DEF Sound, JobInv, MoveInv
<1>2. \A i \in 1..local[w].amount : i - 1 \in 0..Capacity
  BY <1>1, CursorFacts
<1>3. \A i \in 1..local[w].amount :
        /\ WrappingAdd(tail[w], i - 1) \in Cursor /\ WrappingAdd(local[w].blocked, i - 1) \in Cursor
        /\ Item(w, tail[w], i - 1) = buffer[w][Slot(WrappingAdd(tail[w], i - 1))]
        /\ Item(local[w].victim, local[w].blocked, i - 1)
             = buffer[local[w].victim][Slot(WrappingAdd(local[w].blocked, i - 1))]
  BY <1>1, <1>2, AtSlot DEF Item
<1>4. Carries(w) => FlightOf(w) = <<local[w].job>>
  BY DEF FlightOf, Carries, Publishing
<1>5. ~Carries(w) /\ pc[w] \notin Publishing => FlightOf(w) = <<>>
  BY DEF FlightOf, Carries
<1>6. ASSUME pc[w] \in Publishing
      PROVE  /\ local[w].copied \in 0..local[w].amount /\ local[w].amount \in 1..Capacity
             /\ pc[w] # "steal_copy" => local[w].copied = local[w].amount
  <2>1. CASE pc[w] = "steal_copy"
    BY <1>1, <2>1, CursorFacts DEF LocalOK
  <2>2. CASE pc[w] # "steal_copy"
    <3>1. local[w].copied = local[w].amount /\ local[w].amount >= 1
      BY <1>1, <1>6, <2>2 DEF MoveOK
    <3> QED
      BY <1>1, <3>1, CursorFacts
  <2> QED
    BY <2>1, <2>2
<1>7. ASSUME pc[w] \in Publishing
      PROVE  FlightOf(w) = [i \in 1..local[w].amount |->
                              IF i <= local[w].copied THEN Item(w, tail[w], i - 1)
                              ELSE Item(local[w].victim, local[w].blocked, i - 1)]
  BY <1>7 DEF FlightOf, Publishing
<1> QED
  BY <1>3, <1>4, <1>5, <1>6, <1>7

\* Where x is, in the terms of the deques and of the rings.
QueueSpot(x, p) == \E i \in DOMAIN shared : shared[i] = x /\ p = <<"queue", i>>
CarrySpot(x, p) == \E w \in Workers : Carries(w) /\ local[w].job = x /\ p = <<"flight", w, 1>>
CellSpot(q, c, p) ==
  \/ Queued(q, c) /\ p = <<"deque", q, WrappingSub(c, blocked[q]) + 1>>
  \/ Moved(q, c) /\ p = <<"flight", q, WrappingSub(c, tail[q]) + 1>>
  \/ \E t \in Workers : Left(t, q, c) /\ p = <<"flight", t, WrappingSub(c, local[t].blocked) + 1>>
RingSpot(x, p) == \E q \in Workers, c \in Cursor : buffer[q][Slot(c)] = x /\ CellSpot(q, c, p)

\* A run and the places in it.
LEMMA RunIndex ==
  ASSUME NEW a \in Cursor, NEW n \in 0..Capacity
  PROVE  /\ \A i \in 1..n : /\ InRun(WrappingAdd(a, i - 1), a, n) /\ WrappingAdd(a, i - 1) \in Cursor
                            /\ WrappingSub(WrappingAdd(a, i - 1), a) + 1 = i
                            /\ WrappingSub(WrappingAdd(a, i - 1), a) = i - 1
         /\ \A c \in Cursor : InRun(c, a, n) =>
              /\ WrappingSub(c, a) + 1 \in 1..n /\ WrappingSub(c, a) \in Nat
              /\ WrappingAdd(a, (WrappingSub(c, a) + 1) - 1) = c
<1>1. ASSUME NEW i \in 1..n
      PROVE  /\ InRun(WrappingAdd(a, i - 1), a, n) /\ WrappingAdd(a, i - 1) \in Cursor
             /\ WrappingSub(WrappingAdd(a, i - 1), a) + 1 = i
             /\ WrappingSub(WrappingAdd(a, i - 1), a) = i - 1
  <2>1. i - 1 \in 0..Capacity /\ i - 1 < n /\ (i - 1) + 1 = i
    BY CursorFacts
  <2>2. WrappingSub(WrappingAdd(a, i - 1), a) = i - 1 /\ WrappingAdd(a, i - 1) \in Cursor
    BY <2>1, RunEnds, WrapTypes
  <2> QED
    BY <2>1, <2>2 DEF InRun
<1>2. ASSUME NEW c \in Cursor, InRun(c, a, n)
      PROVE  /\ WrappingSub(c, a) + 1 \in 1..n /\ WrappingSub(c, a) \in Nat
             /\ WrappingAdd(a, (WrappingSub(c, a) + 1) - 1) = c
  <2>1. WrappingSub(c, a) \in Nat
    BY SubNat
  <2>2. (WrappingSub(c, a) + 1) - 1 = WrappingSub(c, a)
    BY <2>1
  <2>3. WrappingSub(c, a) + 1 \in 1..n
    BY <1>2, <2>1 DEF InRun
  <2> QED
    BY <2>1, <2>2, <2>3, RunEnds
<1> QED
  BY <1>1, <1>2

\* The places of x are positions in the shared queue, in a deque or in a flight.
LEMMA PlacesAre ==
  ASSUME NEW x, NEW p
  PROVE  p \in WS!Places(x) <=>
           \/ \E i \in DOMAIN shared : shared[i] = x /\ p = <<"queue", i>>
           \/ \E w \in Workers : \E i \in DOMAIN DequeOf(w) : DequeOf(w)[i] = x /\ p = <<"deque", w, i>>
           \/ \E w \in Workers : \E i \in DOMAIN FlightOf(w) : FlightOf(w)[i] = x /\ p = <<"flight", w, i>>
<1> DEFINE D(w) == {<<"deque", w, i>> : i \in WS!Positions(DequeOf(w), x)}
           F(w) == {<<"flight", w, i>> : i \in WS!Positions(FlightOf(w), x)}
           Q == {<<"queue", i>> : i \in WS!Positions(shared, x)}
<1>1. WS!Places(x) = Q \cup (UNION {D(w) : w \in Workers}) \cup (UNION {F(w) : w \in Workers})
  BY DEF WS!Places
<1>2. \A s, i : i \in WS!Positions(s, x) <=> i \in DOMAIN s /\ s[i] = x
  BY DEF WS!Positions
<1>3. p \in Q <=> \E i \in DOMAIN shared : shared[i] = x /\ p = <<"queue", i>>
  BY <1>2
<1>4. \A w \in Workers : p \in D(w) <=> \E i \in DOMAIN DequeOf(w) : DequeOf(w)[i] = x /\ p = <<"deque", w, i>>
  BY <1>2
<1>5. \A w \in Workers : p \in F(w) <=> \E i \in DOMAIN FlightOf(w) : FlightOf(w)[i] = x /\ p = <<"flight", w, i>>
  BY <1>2
<1>6. p \in UNION {D(w) : w \in Workers} <=> \E w \in Workers : p \in D(w)
  OBVIOUS
<1>7. p \in UNION {F(w) : w \in Workers} <=> \E w \in Workers : p \in F(w)
  OBVIOUS
<1> HIDE DEF D, F, Q
<1>8. p \in WS!Places(x) <=> p \in Q \/ (\E w \in Workers : p \in D(w)) \/ (\E w \in Workers : p \in F(w))
  BY <1>1, <1>6, <1>7
<1>9. (\E w \in Workers : p \in D(w))
      <=> \E w \in Workers : \E i \in DOMAIN DequeOf(w) : DequeOf(w)[i] = x /\ p = <<"deque", w, i>>
  BY <1>4
<1>10. (\E w \in Workers : p \in F(w))
       <=> \E w \in Workers : \E i \in DOMAIN FlightOf(w) : FlightOf(w)[i] = x /\ p = <<"flight", w, i>>
  BY <1>5
<1> QED
  BY <1>3, <1>8, <1>9, <1>10

\* Every place of x is one of these.
LEMMA PlaceIsSpot ==
  ASSUME Sound, NEW x \in Jobs, NEW p \in WS!Places(x)
  PROVE  QueueSpot(x, p) \/ CarrySpot(x, p) \/ RingSpot(x, p)
<1>1. CASE \E i \in DOMAIN shared : shared[i] = x /\ p = <<"queue", i>>
  BY <1>1 DEF QueueSpot
<1>2. ASSUME NEW w \in Workers, NEW i \in DOMAIN DequeOf(w), DequeOf(w)[i] = x, p = <<"deque", w, i>>
      PROVE  RingSpot(x, p)
  <2>1. /\ pc[w] # "dropped" /\ i \in 1..Filled(w)
        /\ x = buffer[w][Slot(WrappingAdd(blocked[w], i - 1))]
    BY <1>2, DequeIs
  <2>2. blocked[w] \in Cursor /\ Filled(w) \in 0..Capacity
    BY OneRing, CursorFacts DEF Sound
  <2>3. /\ InRun(WrappingAdd(blocked[w], i - 1), blocked[w], Filled(w))
        /\ WrappingAdd(blocked[w], i - 1) \in Cursor
        /\ WrappingSub(WrappingAdd(blocked[w], i - 1), blocked[w]) + 1 = i
    BY <2>1, <2>2, RunIndex
  <2> QED
    BY <1>2, <2>1, <2>3 DEF RingSpot, CellSpot, Queued
<1>3. ASSUME NEW w \in Workers, NEW i \in DOMAIN FlightOf(w), FlightOf(w)[i] = x, p = <<"flight", w, i>>
      PROVE  CarrySpot(x, p) \/ RingSpot(x, p)
  <2>1. CASE Carries(w)
    <3>1. FlightOf(w) = <<local[w].job>>
      BY <2>1, FlightIs
    <3>2. i = 1 /\ local[w].job = x
      BY <1>3, <3>1
    <3> QED
      BY <1>3, <2>1, <3>2 DEF CarrySpot
  <2>2. CASE pc[w] \in Publishing
    <3>1. /\ i \in 1..local[w].amount /\ local[w].amount \in 0..Capacity
          /\ local[w].copied \in 0..local[w].amount
          /\ pc[w] # "steal_copy" => local[w].copied = local[w].amount
          /\ i <= local[w].copied => x = buffer[w][Slot(WrappingAdd(tail[w], i - 1))]
          /\ ~(i <= local[w].copied) =>
                  x = buffer[local[w].victim][Slot(WrappingAdd(local[w].blocked, i - 1))]
      BY <1>3, <2>2, FlightIs
    <3>2. tail[w] \in Cursor /\ local[w].blocked \in Cursor /\ local[w].victim \in Workers
      BY OneRing DEF Sound
    <3>3. CASE i <= local[w].copied
      <4>1. i \in 1..local[w].copied /\ local[w].copied \in 0..Capacity
        BY <3>1, <3>3, CursorFacts
      <4>2. /\ InRun(WrappingAdd(tail[w], i - 1), tail[w], local[w].copied)
            /\ WrappingAdd(tail[w], i - 1) \in Cursor
            /\ WrappingSub(WrappingAdd(tail[w], i - 1), tail[w]) + 1 = i
        BY <3>2, <4>1, RunIndex
      <4> QED
        BY <1>3, <2>2, <3>1, <3>3, <4>2 DEF RingSpot, CellSpot, Moved
    <3>4. CASE ~(i <= local[w].copied)
      <4>1. /\ InRun(WrappingAdd(local[w].blocked, i - 1), local[w].blocked, local[w].amount)
            /\ WrappingAdd(local[w].blocked, i - 1) \in Cursor
            /\ WrappingSub(WrappingAdd(local[w].blocked, i - 1), local[w].blocked) + 1 = i
            /\ WrappingSub(WrappingAdd(local[w].blocked, i - 1), local[w].blocked) = i - 1
        BY <3>1, <3>2, RunIndex
      <4>2. pc[w] = "steal_copy" /\ local[w].copied <= i - 1
        BY <3>1, <3>4
      <4>3. Left(w, local[w].victim, WrappingAdd(local[w].blocked, i - 1))
        BY <4>1, <4>2 DEF Left
      <4> QED
        BY <1>3, <3>1, <3>2, <3>4, <4>1, <4>3 DEF RingSpot, CellSpot
    <3> QED
      BY <3>3, <3>4
  <2>3. CASE ~Carries(w) /\ pc[w] \notin Publishing
    <3>1. FlightOf(w) = <<>>
      BY <2>3, FlightIs
    <3> QED
      BY <1>3, <3>1
  <2> QED
    BY <2>1, <2>2, <2>3
<1> QED
  BY <1>1, <1>2, <1>3, PlacesAre

\* Every one of these is a place of x.
LEMMA SpotIsPlace ==
  ASSUME Sound, NEW x \in Jobs, NEW p, QueueSpot(x, p) \/ CarrySpot(x, p) \/ RingSpot(x, p)
  PROVE  p \in WS!Places(x)
<1>1. CASE QueueSpot(x, p)
  BY <1>1, PlacesAre DEF QueueSpot
<1>2. ASSUME NEW w \in Workers, NEW i \in DOMAIN FlightOf(w), FlightOf(w)[i] = x, p = <<"flight", w, i>>
      PROVE  p \in WS!Places(x)
  BY <1>2, PlacesAre
<1>3. CASE CarrySpot(x, p)
  <2>1. PICK w \in Workers : Carries(w) /\ local[w].job = x /\ p = <<"flight", w, 1>>
    BY <1>3 DEF CarrySpot
  <2>2. FlightOf(w) = <<x>>
    BY <2>1, FlightIs
  <2> QED
    BY <1>2, <2>1, <2>2
<1>4. ASSUME NEW q \in Workers, NEW c \in Cursor, buffer[q][Slot(c)] = x,
             Queued(q, c), p = <<"deque", q, WrappingSub(c, blocked[q]) + 1>>
      PROVE  p \in WS!Places(x)
  <2>1. blocked[q] \in Cursor /\ Filled(q) \in 0..Capacity
    BY OneRing, CursorFacts DEF Sound
  <2>2. PICK i \in 1..Filled(q) : i = WrappingSub(c, blocked[q]) + 1 /\ WrappingAdd(blocked[q], i - 1) = c
    BY <1>4, <2>1, RunIndex DEF Queued
  <2>3. i \in DOMAIN DequeOf(q) /\ DequeOf(q)[i] = x
    BY <1>4, <2>2, DequeIs DEF Queued
  <2> QED
    BY <1>4, <2>2, <2>3, PlacesAre
<1>5. ASSUME NEW q \in Workers, NEW c \in Cursor, buffer[q][Slot(c)] = x,
             Moved(q, c), p = <<"flight", q, WrappingSub(c, tail[q]) + 1>>
      PROVE  p \in WS!Places(x)
  <2>1. tail[q] \in Cursor /\ local[q].copied \in 0..Capacity
    BY OneRing DEF Sound
  <2>2. PICK i \in 1..local[q].copied : i = WrappingSub(c, tail[q]) + 1 /\ WrappingAdd(tail[q], i - 1) = c
    BY <1>5, <2>1, RunIndex DEF Moved
  <2>3. i \in 1..local[q].amount /\ i <= local[q].copied
    BY <1>5, <2>2, FlightIs DEF Moved
  <2>4. i \in DOMAIN FlightOf(q) /\ FlightOf(q)[i] = x
    BY <1>5, <2>2, <2>3, FlightIs DEF Moved
  <2> QED
    BY <1>2, <1>5, <2>2, <2>4
<1>6. ASSUME NEW q \in Workers, NEW c \in Cursor, buffer[q][Slot(c)] = x, NEW t \in Workers,
             Left(t, q, c), p = <<"flight", t, WrappingSub(c, local[t].blocked) + 1>>
      PROVE  p \in WS!Places(x)
  <2>1. local[t].blocked \in Cursor /\ local[t].copied \in Nat /\ local[t].amount \in 0..Capacity
    BY OneRing DEF Sound
  <2>2. PICK i \in 1..local[t].amount : /\ i = WrappingSub(c, local[t].blocked) + 1
                                        /\ WrappingSub(c, local[t].blocked) \in Nat
                                        /\ WrappingAdd(local[t].blocked, i - 1) = c
    BY <1>6, <2>1, RunIndex DEF Left
  <2>3. ~(i <= local[t].copied)
    BY <1>6, <2>1, <2>2 DEF Left
  <2>4. i \in DOMAIN FlightOf(t) /\ FlightOf(t)[i] = x
    BY <1>6, <2>2, <2>3, FlightIs DEF Left, Publishing
  <2> QED
    BY <1>2, <1>6, <2>2, <2>4
<1> QED
  BY <1>1, <1>3, <1>4, <1>5, <1>6 DEF RingSpot, CellSpot

\* A place in a ring is that of a held cursor, and it is the only one of the cursor.
LEMMA SpotOfCursor ==
  ASSUME Sound, NEW q \in Workers, NEW c \in Cursor
  PROVE  /\ \A p : CellSpot(q, c, p) => Held(q, c) /\ ~Popped(q, c)
         /\ \A p, r : CellSpot(q, c, p) /\ CellSpot(q, c, r) => p = r
         /\ Held(q, c) /\ ~Popped(q, c) => \E p : CellSpot(q, c, p)
<1>1. Queued(q, c) => ~Moved(q, c) /\ ~Popped(q, c)
  BY Apart, OwnHolds
<1>2. \A t \in Workers : Left(t, q, c) => ~Queued(q, c) /\ ~Moved(q, c) /\ ~Popped(q, c)
  BY Apart, OwnHolds
<1>3. \A t, u \in Workers : Left(t, q, c) /\ Left(u, q, c) => t = u
  BY Apart
<1>4. Moved(q, c) => ~Popped(q, c)
  BY DEF Moved, Popped, Publishing
<1>5. \A p : CellSpot(q, c, p) => Held(q, c) /\ ~Popped(q, c)
  BY <1>1, <1>2, <1>4 DEF CellSpot, Held
<1>6. \A p, r : CellSpot(q, c, p) /\ CellSpot(q, c, r) => p = r
  BY <1>1, <1>2, <1>3 DEF CellSpot
<1>7. Held(q, c) /\ ~Popped(q, c) => \E p : CellSpot(q, c, p)
  BY DEF CellSpot, Held
<1> QED
  BY <1>5, <1>6, <1>7

\* The places of a job tell what kind of place it is in.
LEMMA SpotKinds ==
  ASSUME Sound, NEW x \in Jobs
  PROVE  /\ \A p : QueueSpot(x, p) => InShared(x)
         /\ \A p : CarrySpot(x, p) => InCarry(x)
         /\ \A p : RingSpot(x, p) => InCell(x)
<1>1. \A c \in Cursor : Slot(c) \in SlotIndex
  BY AtSlot
<1> QED
  BY <1>1 DEF QueueSpot, CarrySpot, RingSpot, InShared, InCarry, InCell

\* A job is in at most one place.
LEMMA SpotOnce ==
  ASSUME Sound, NEW x \in Jobs, NEW p, NEW r,
         QueueSpot(x, p) \/ CarrySpot(x, p) \/ RingSpot(x, p),
         QueueSpot(x, r) \/ CarrySpot(x, r) \/ RingSpot(x, r)
  PROVE  p = r
<1>0. /\ InShared(x) => ~InCarry(x) /\ ~InCell(x)
      /\ InCarry(x) => ~InCell(x)
  BY DEF Sound, JobInv, KindInv
<1>1. CASE QueueSpot(x, p) /\ QueueSpot(x, r)
  BY <1>1 DEF QueueSpot, Sound, JobInv, OnceInv, SharedOnce
<1>2. CASE CarrySpot(x, p) /\ CarrySpot(x, r)
  BY <1>2 DEF CarrySpot, Sound, JobInv, OnceInv, CarriesOnce
<1>3. CASE RingSpot(x, p) /\ RingSpot(x, r)
  <2>1. PICK q \in Workers, c \in Cursor : buffer[q][Slot(c)] = x /\ CellSpot(q, c, p)
    BY <1>3 DEF RingSpot
  <2>2. PICK v \in Workers, d \in Cursor : buffer[v][Slot(d)] = x /\ CellSpot(v, d, r)
    BY <1>3 DEF RingSpot
  <2>3. Slot(c) \in SlotIndex /\ Slot(d) \in SlotIndex /\ x # NoJob /\ CellsOnce
    BY AtSlot, WorkerAssumption DEF Sound, JobInv, OnceInv
  <2>4. q = v /\ Slot(c) = Slot(d)
    BY <2>1, <2>2, <2>3 DEF CellsOnce
  <2>5. Held(q, c) /\ Held(q, d)
    BY <2>1, <2>2, <2>4, SpotOfCursor
  <2>6. c = d
    BY <2>4, <2>5, OneCursor
  <2> QED
    BY <2>1, <2>2, <2>4, <2>6, SpotOfCursor
<1> QED
  BY <1>0, <1>1, <1>2, <1>3, SpotKinds

\* A job that was popped and not yet read is in its slot.
LEMMA TakenIs ==
  ASSUME Sound, NEW x \in Jobs
  PROVE  x \in Taken <=> \E q \in Workers, c \in Cursor : Popped(q, c) /\ buffer[q][Slot(c)] = x
<1>1. \A q \in Workers : tail[q] \in Cursor /\ Item(q, tail[q], 0) = buffer[q][Slot(tail[q])]
  BY OneRing, AtSlot DEF Sound, Item
<1>2. x \in Taken <=> \E q \in Workers : pc[q] = "pop_take" /\ Item(q, tail[q], 0) = x
  BY DEF Taken
<1> QED
  BY <1>1, <1>2 DEF Popped

\* A job that is outside, or taken, is in no place.
LEMMA OutsideNowhere ==
  ASSUME Sound, NEW x \in Jobs, x \in out \cup Taken, NEW p
  PROVE  ~QueueSpot(x, p) /\ ~CarrySpot(x, p) /\ ~RingSpot(x, p)
<1>1. /\ x \in out => ~InShared(x) /\ ~InCarry(x) /\ ~InCell(x)
      /\ InShared(x) => ~InCarry(x) /\ ~InCell(x)
      /\ InCarry(x) => ~InCell(x)
  BY DEF Sound, JobInv, KindInv
<1>2. CASE x \in out
  BY <1>1, <1>2, SpotKinds
<1>3. CASE x \in Taken
  <2>1. PICK q \in Workers, c \in Cursor : Popped(q, c) /\ buffer[q][Slot(c)] = x
    BY <1>3, TakenIs
  <2>2. Slot(c) \in SlotIndex /\ x # NoJob /\ CellsOnce /\ Held(q, c)
    BY <2>1, AtSlot, WorkerAssumption DEF Sound, JobInv, OnceInv, Held
  <2>3. InCell(x)
    BY <2>1, <2>2 DEF InCell
  <2>4. ASSUME RingSpot(x, p) PROVE FALSE
    <3>1. PICK v \in Workers, d \in Cursor : buffer[v][Slot(d)] = x /\ CellSpot(v, d, p)
      BY <2>4 DEF RingSpot
    <3>2. Slot(d) \in SlotIndex /\ Held(v, d) /\ ~Popped(v, d)
      BY <3>1, AtSlot, SpotOfCursor
    <3>3. q = v /\ Slot(c) = Slot(d)
      BY <2>1, <2>2, <3>1, <3>2 DEF CellsOnce
    <3>4. c = d
      BY <2>2, <3>2, <3>3, OneCursor
    <3> QED
      BY <2>1, <3>2, <3>3, <3>4
  <2> QED
    BY <1>1, <2>3, <2>4, SpotKinds
<1> QED
  BY <1>2, <1>3

\* Any other job is in a place.
LEMMA InsideSomewhere ==
  ASSUME Sound, NEW x \in Jobs, x \notin out \cup Taken
  PROVE  \E p : QueueSpot(x, p) \/ CarrySpot(x, p) \/ RingSpot(x, p)
<1>1. InShared(x) \/ InCarry(x) \/ InCell(x)
  BY DEF Sound, JobInv, KindInv
<1>2. CASE InShared(x)
  <2>1. PICK i \in DOMAIN shared : shared[i] = x
    BY <1>2 DEF InShared
  <2>2. QueueSpot(x, <<"queue", i>>)
    BY <2>1 DEF QueueSpot
  <2> QED
    BY <2>2
<1>3. CASE InCarry(x)
  <2>1. PICK w \in Workers : Carries(w) /\ local[w].job = x
    BY <1>3 DEF InCarry
  <2>2. CarrySpot(x, <<"flight", w, 1>>)
    BY <2>1 DEF CarrySpot
  <2> QED
    BY <2>2
<1>4. CASE InCell(x)
  <2>1. PICK q \in Workers, s \in SlotIndex : buffer[q][s] = x
    BY <1>4 DEF InCell
  <2>2. PICK c \in Cursor : Held(q, c) /\ Slot(c) = s
    BY <2>1, WorkerAssumption DEF Sound, JobInv, ContentInv
  <2>3. ~Popped(q, c)
    BY <2>1, <2>2, TakenIs
  <2>4. PICK p : CellSpot(q, c, p)
    BY <2>2, <2>3, SpotOfCursor
  <2> QED
    BY <2>1, <2>2, <2>4 DEF RingSpot
<1> QED
  BY <1>1, <1>2, <1>3, <1>4

\* The invariant says that every job is in one place, or outside and in none.
LEMMA SoundOnce == Sound => JobsExactlyOnce
<1> SUFFICES ASSUME Sound, NEW x \in Jobs
             PROVE  IF x \in out \cup Taken THEN WS!Places(x) = {}
                                            ELSE \E p \in WS!Places(x) : WS!Places(x) = {p}
  BY DEF JobsExactlyOnce, WS!ExactlyOnce
<1>1. CASE x \in out \cup Taken
  BY <1>1, PlaceIsSpot, OutsideNowhere
<1>2. CASE x \notin out \cup Taken
  <2>1. PICK p : QueueSpot(x, p) \/ CarrySpot(x, p) \/ RingSpot(x, p)
    BY <1>2, InsideSomewhere
  <2>2. p \in WS!Places(x)
    BY <2>1, SpotIsPlace
  <2>3. \A r \in WS!Places(x) : r = p
    BY <2>1, PlaceIsSpot, SpotOnce
  <2>4. WS!Places(x) = {p}
    BY <2>2, <2>3
  <2> QED
    BY <1>2, <2>2, <2>4
<1> QED
  BY <1>1, <1>2

(***************************************************************************)
(* JobsExactlyOnce: through any interleaving of push, pop, pull, steal and *)
(* Drop no job is lost and none is in two places.                          *)
(***************************************************************************)
THEOREM NoJobLostOrTwice == Spec => []JobsExactlyOnce
<1>1. RingInv /\ DataTypes /\ JobInv => JobsExactlyOnce
  BY SoundOnce DEF Sound
<1> QED
  BY <1>1, JobInvariance, PTL
-----------------------------------------------------------------------------
\* The deques and flights of WorkStealing, as sequences of jobs.

\* The queued cursors of a ring hold the jobs of its deque, oldest first.
LEMMA DequeSeq ==
  ASSUME Sound, NEW w \in Workers
  PROVE  /\ DequeOf(w) \in Seq(Jobs)
         /\ pc[w] = "dropped" => DequeOf(w) = <<>>
         /\ pc[w] # "dropped" => Len(DequeOf(w)) = Filled(w)
         /\ Filled(w) \in 0..Capacity
<1>1. Filled(w) \in 0..Capacity /\ blocked[w] \in Cursor
  BY OneRing, CursorFacts DEF Sound
<1>2. CASE pc[w] = "dropped"
  BY <1>1, <1>2, DequeIs, EmptySeq
<1>3. CASE pc[w] # "dropped"
  <2>1. DOMAIN DequeOf(w) = 1..Filled(w)
    BY <1>3, DequeIs
  <2>2. ASSUME NEW i \in 1..Filled(w) PROVE DequeOf(w)[i] \in Jobs
    <3>1. PICK c \in Cursor : c = WrappingAdd(blocked[w], i - 1) /\ InRun(c, blocked[w], Filled(w))
      BY <1>1, RunIndex
    <3>2. Held(w, c) /\ DequeOf(w)[i] = buffer[w][Slot(c)] /\ Slot(c) \in SlotIndex
      BY <1>3, <3>1, DequeIs, AtSlot DEF Held, Queued
    <3> QED
      BY <3>2 DEF Sound, DataTypes, JobInv, ContentInv
  <2>3. DequeOf(w) \in [1..Filled(w) -> Jobs]
    <3>1. DequeOf(w) = [i \in 1..Filled(w) |-> Item(w, blocked[w], i - 1)]
      BY <1>3 DEF DequeOf
    <3> QED
      BY <2>2, <3>1
  <2> QED
    BY <1>1, <1>3, <2>3
<1> QED
  BY <1>2, <1>3

\* A batch that is being moved.
LEMMA FlightSeq ==
  ASSUME Sound, NEW w \in Workers, pc[w] \in Publishing
  PROVE  FlightOf(w) \in Seq(Jobs) /\ Len(FlightOf(w)) = local[w].amount /\ local[w].amount \in 1..Capacity
<1>1. /\ local[w].amount \in 1..Capacity /\ DOMAIN FlightOf(w) = 1..local[w].amount
  BY FlightIs
<1>2. ASSUME NEW i \in 1..local[w].amount PROVE FlightOf(w)[i] \in Jobs
  <2>0. /\ tail[w] \in Cursor /\ local[w].blocked \in Cursor /\ local[w].victim \in Workers
        /\ local[w].copied \in 0..local[w].amount /\ local[w].amount \in 0..Capacity
        /\ pc[w] # "steal_copy" => local[w].copied = local[w].amount
    BY OneRing, FlightIs DEF Sound
  <2>1. \A q \in Workers, c \in Cursor : Held(q, c) => buffer[q][Slot(c)] \in Jobs
    BY AtSlot DEF Sound, DataTypes, JobInv, ContentInv
  <2>2. CASE i <= local[w].copied
    <3>1. i \in 1..local[w].copied /\ local[w].copied \in 0..Capacity
      BY <2>0, <2>2, CursorFacts
    <3>2. PICK c \in Cursor : c = WrappingAdd(tail[w], i - 1) /\ InRun(c, tail[w], local[w].copied)
      BY <2>0, <3>1, RunIndex
    <3>3. Held(w, c)
      BY <3>2 DEF Held, Moved
    <3>4. FlightOf(w)[i] = buffer[w][Slot(c)]
      BY <2>2, <3>2, FlightIs
    <3> QED
      BY <2>1, <3>3, <3>4
  <2>3. CASE ~(i <= local[w].copied)
    <3>1. PICK c \in Cursor : /\ c = WrappingAdd(local[w].blocked, i - 1)
                              /\ InRun(c, local[w].blocked, local[w].amount)
                              /\ WrappingSub(c, local[w].blocked) = i - 1
      BY <2>0, RunIndex
    <3>2. pc[w] = "steal_copy" /\ local[w].copied <= i - 1
      BY <2>0, <2>3
    <3>3. Held(local[w].victim, c)
      BY <3>1, <3>2 DEF Held, Left
    <3>4. FlightOf(w)[i] = buffer[local[w].victim][Slot(c)]
      BY <2>3, <3>1, FlightIs
    <3> QED
      BY <2>0, <2>1, <3>3, <3>4
  <2> QED
    BY <2>2, <2>3
<1>3. FlightOf(w) \in [1..local[w].amount -> Jobs]
  <2>1. FlightOf(w) = [i \in 1..local[w].amount |->
                         IF i <= local[w].copied THEN Item(w, tail[w], i - 1)
                         ELSE Item(local[w].victim, local[w].blocked, i - 1)]
    BY DEF FlightOf, Publishing
  <2> QED
    BY <1>2, <2>1
<1> QED
  BY <1>1, <1>3

\* A deque changes only with its anchor and with the slots of its queued cursors.
LEMMA DequeSame ==
  ASSUME Sound, Sound', NEW q \in Workers, pc[q] # "dropped", pc'[q] # "dropped",
         blocked'[q] = blocked[q], Filled(q)' = Filled(q),
         \A c \in Cursor : Queued(q, c) => buffer'[q][Slot(c)] = buffer[q][Slot(c)]
  PROVE  DequeOf(q)' = DequeOf(q)
<1>1. Filled(q) \in 0..Capacity /\ blocked[q] \in Cursor
  BY OneRing, CursorFacts DEF Sound
<1>2. ASSUME NEW i \in 1..Filled(q)
      PROVE  Item(q, blocked[q], i - 1)' = Item(q, blocked[q], i - 1)
  <2>1. PICK c \in Cursor : c = WrappingAdd(blocked[q], i - 1) /\ InRun(c, blocked[q], Filled(q))
    BY <1>1, RunIndex
  <2>2. buffer'[q][Slot(c)] = buffer[q][Slot(c)]
    BY <2>1 DEF Queued
  <2> QED
    BY <2>1, <2>2 DEF Item, At
<1> QED
  BY <1>2 DEF DequeOf

\* A dropped deque stays empty.
LEMMA DequeGone ==
  ASSUME NEW q \in Workers, pc[q] = "dropped", pc'[q] = "dropped"
  PROVE  DequeOf(q)' = DequeOf(q)
BY DEF DequeOf

\* A flight changes only with the locals of its worker and with its slots.
LEMMA FlightSame ==
  ASSUME Sound, NEW u \in Workers, pc'[u] = pc[u], local'[u] = local[u], tail'[u] = tail[u],
         \A c \in Cursor : Moved(u, c) => buffer'[u][Slot(c)] = buffer[u][Slot(c)],
         \A q \in Workers, c \in Cursor : Left(u, q, c) => buffer'[q][Slot(c)] = buffer[q][Slot(c)]
  PROVE  FlightOf(u)' = FlightOf(u)
<1>1. CASE pc[u] \notin Publishing
  BY <1>1 DEF FlightOf
<1>2. CASE pc[u] \in Publishing
  <2>0. /\ tail[u] \in Cursor /\ local[u].blocked \in Cursor /\ local[u].victim \in Workers
        /\ local[u].copied \in 0..local[u].amount /\ local[u].amount \in 0..Capacity
        /\ pc[u] # "steal_copy" => local[u].copied = local[u].amount
    BY <1>2, OneRing, FlightIs DEF Sound
  <2>1. ASSUME NEW i \in 1..local[u].amount, i <= local[u].copied
        PROVE  Item(u, tail[u], i - 1)' = Item(u, tail[u], i - 1)
    <3>1. i \in 1..local[u].copied /\ local[u].copied \in 0..Capacity
      BY <2>0, <2>1, CursorFacts
    <3>2. PICK c \in Cursor : c = WrappingAdd(tail[u], i - 1) /\ InRun(c, tail[u], local[u].copied)
      BY <2>0, <3>1, RunIndex
    <3>3. buffer'[u][Slot(c)] = buffer[u][Slot(c)]
      BY <1>2, <3>2 DEF Moved
    <3> QED
      BY <3>2, <3>3 DEF Item, At
  <2>2. ASSUME NEW i \in 1..local[u].amount, ~(i <= local[u].copied)
        PROVE  Item(local[u].victim, local[u].blocked, i - 1)' = Item(local[u].victim, local[u].blocked, i - 1)
    <3>1. PICK c \in Cursor : /\ c = WrappingAdd(local[u].blocked, i - 1)
                              /\ InRun(c, local[u].blocked, local[u].amount)
                              /\ WrappingSub(c, local[u].blocked) = i - 1
      BY <2>0, RunIndex
    <3>2. pc[u] = "steal_copy" /\ local[u].copied <= i - 1
      BY <2>0, <2>2
    <3>3. buffer'[local[u].victim][Slot(c)] = buffer[local[u].victim][Slot(c)]
      BY <2>0, <3>1, <3>2 DEF Left
    <3> QED
      BY <3>1, <3>3 DEF Item, At
  <2>3. FlightOf(u) = [i \in 1..local[u].amount |->
                         IF i <= local[u].copied THEN Item(u, tail[u], i - 1)
                         ELSE Item(local[u].victim, local[u].blocked, i - 1)]
    BY <1>2 DEF FlightOf, Publishing
  <2>4. FlightOf(u)' = [i \in 1..local[u].amount |->
                         IF i <= local[u].copied THEN Item(u, tail[u], i - 1)'
                         ELSE Item(local[u].victim, local[u].blocked, i - 1)']
    BY <1>2 DEF FlightOf, Publishing
  <2> QED
    BY <2>1, <2>2, <2>3, <2>4
<1> QED
  BY <1>1, <1>2

\* The workers without a batch have an empty flight.
LEMMA FlightNone ==
  ASSUME NEW w \in Workers, pc[w] \notin Publishing \cup {"push_write", "spill"}
  PROVE  FlightOf(w) = <<>>
BY DEF FlightOf
-----------------------------------------------------------------------------
\* Every step of the rings is a step of the deques, or changes nothing there.

\* What w itself is moving or has popped.
Mine(w, q, c) == Left(w, q, c) \/ (q = w /\ (Moved(w, c) \/ Popped(w, c)))

\* What has been popped by the others.
TakenBut(w) == {Item(u, tail[u], 0) : u \in {v \in Workers \ {w} : pc[v] = "pop_take"}}

\* The jobs taken, seen from one worker.
LEMMA TakenSplit ==
  ASSUME NEW w \in Workers
  PROVE  Taken = TakenBut(w) \cup (IF pc[w] = "pop_take" THEN {Item(w, tail[w], 0)} ELSE {})
BY DEF Taken, TakenBut

\* A step of w that keeps the slots of all others, seen from the others.
LEMMA Bystanders ==
  ASSUME Sound, Sound', NEW w \in Workers, NEW p, NEW l, Goto(w, p, l),
         \A u \in Workers : u # w => tail'[u] = tail[u],
         \A q \in Workers, c \in Cursor :
           Held(q, c) /\ ~Mine(w, q, c) => buffer'[q][Slot(c)] = buffer[q][Slot(c)]
  PROVE  /\ \A u \in Workers : u # w => FlightOf(u)' = FlightOf(u)
         /\ TakenBut(w)' = TakenBut(w)
         /\ \A q \in Workers :
              /\ pc[q] = "dropped" <=> pc'[q] = "dropped"
              /\ blocked'[q] = blocked[q] /\ Filled(q)' = Filled(q)
              => DequeOf(q)' = DequeOf(q)
<1>1. \A u \in Workers : u # w => pc'[u] = pc[u] /\ local'[u] = local[u]
  BY GotoDoes
<1>2. ASSUME NEW u \in Workers, u # w
      PROVE  FlightOf(u)' = FlightOf(u)
  <2>1. \A c \in Cursor : Moved(u, c) => Held(u, c) /\ ~Mine(w, u, c)
    BY <1>2, Apart, OwnHolds DEF Held, Mine
  <2>2. \A q \in Workers, c \in Cursor : Left(u, q, c) => Held(q, c) /\ ~Mine(w, q, c)
    BY <1>2, Apart, OwnHolds DEF Held, Mine
  <2> QED
    BY <1>1, <1>2, <2>1, <2>2, FlightSame
<1>3. ASSUME NEW u \in Workers, u # w, pc[u] = "pop_take"
      PROVE  Item(u, tail[u], 0)' = Item(u, tail[u], 0)
  <2>1. tail[u] \in Cursor /\ At(tail[u], 0) = Slot(tail[u]) /\ tail'[u] = tail[u]
    BY <1>3, OneRing, AtSlot DEF Sound
  <2>2. Popped(u, tail[u])
    BY <1>3 DEF Popped
  <2>3. Held(u, tail[u]) /\ ~Mine(w, u, tail[u])
    BY <1>3, <2>1, <2>2, Apart, OwnHolds DEF Held, Mine
  <2>4. buffer'[u][Slot(tail[u])] = buffer[u][Slot(tail[u])]
    BY <2>1, <2>3
  <2> QED
    BY <2>1, <2>4 DEF Item
<1>4. TakenBut(w)' = TakenBut(w)
  BY <1>1, <1>3 DEF TakenBut
<1>5. ASSUME NEW q \in Workers, pc[q] = "dropped" <=> pc'[q] = "dropped",
             blocked'[q] = blocked[q], Filled(q)' = Filled(q)
      PROVE  DequeOf(q)' = DequeOf(q)
  <2>1. CASE pc[q] = "dropped"
    BY <1>5, <2>1, DequeGone
  <2>2. CASE pc[q] # "dropped"
    <3>1. \A c \in Cursor : Queued(q, c) => Held(q, c) /\ ~Mine(w, q, c)
      BY Apart, OwnHolds DEF Held, Mine
    <3> QED
      BY <1>5, <2>2, <3>1, DequeSame
  <2> QED
    BY <2>1, <2>2
<1> QED
  BY <1>2, <1>4, <1>5

\* A step that leaves the cursors, the jobs in flight and those taken alone.
LEMMA MapStill ==
  ASSUME Sound, Sound', NEW w \in Workers, NEW p, NEW l, Goto(w, p, l),
         UNCHANGED <<tail, blocked, shared, out>>, pc[w] # "dropped", p # "dropped",
         pc[w] # "pop_take", p # "pop_take", FlightOf(w)' = FlightOf(w),
         \A q \in Workers, c \in Cursor :
           Held(q, c) /\ ~Mine(w, q, c) => buffer'[q][Slot(c)] = buffer[q][Slot(c)]
  PROVE  UNCHANGED WS!wsVars
<1>1. pc'[w] = p /\ \A u \in Workers : u # w => pc'[u] = pc[u]
  BY GotoDoes
<1>2. \A q \in Workers : Filled(q)' = Filled(q) /\ blocked'[q] = blocked[q] /\ tail'[q] = tail[q]
  BY DEF Filled
<1>3. \A q \in Workers : pc[q] = "dropped" <=> pc'[q] = "dropped"
  BY <1>1
<1>4. /\ \A u \in Workers : u # w => FlightOf(u)' = FlightOf(u)
      /\ TakenBut(w)' = TakenBut(w)
      /\ \A q \in Workers :
           /\ pc[q] = "dropped" <=> pc'[q] = "dropped"
           /\ blocked'[q] = blocked[q] /\ Filled(q)' = Filled(q)
           => DequeOf(q)' = DequeOf(q)
  BY <1>2, Bystanders
<1>5. \A q \in Workers : DequeOf(q)' = DequeOf(q) /\ FlightOf(q)' = FlightOf(q)
  BY <1>2, <1>3, <1>4
<1>6. Taken' = Taken
  <2>1. Taken = TakenBut(w)
    BY TakenSplit
  <2>2. Taken' = TakenBut(w)'
    BY <1>1, TakenSplit DEF Taken, TakenBut
  <2> QED
    BY <1>4, <2>1, <2>2
<1> QED
  BY <1>5, <1>6 DEF WS!wsVars

\* A step that leaves the slots alone keeps those of the others.
LEMMA SlotsKept ==
  ASSUME buffer' = buffer, NEW w
  PROVE  \A q \in Workers, c \in Cursor :
           Held(q, c) /\ ~Mine(w, q, c) => buffer'[q][Slot(c)] = buffer[q][Slot(c)]
OBVIOUS

\* A step of an operation that moves nothing yet, or nothing any more.
LEMMA MapAside ==
  ASSUME Sound, Sound', NEW w \in Workers, NEW p, NEW l, Goto(w, p, l),
         UNCHANGED <<tail, blocked, buffer, shared, out>>,
         pc[w] \notin Publishing \cup {"push_write", "spill", "pop_take", "dropped"},
         p \notin Publishing \cup {"push_write", "spill", "pop_take", "dropped"}
  PROVE  UNCHANGED WS!wsVars
<1>1. pc'[w] = p
  BY GotoDoes
<1>2. FlightOf(w) = <<>>
  BY FlightNone
<1>3. FlightOf(w)' = <<>>
  BY <1>1 DEF FlightOf
<1> QED
  BY <1>2, <1>3, SlotsKept, MapStill

\* push takes the job out of the hands of the one who spawns it.
LEMMA MapPushLoad ==
  ASSUME Sound, Sound', NEW w \in Workers, NEW x \in Jobs, PushLoad(w, x)
  PROVE  WS!Spawn(w, x)
<1> DEFINE p == IF Free(w) < 1 THEN "spill" ELSE "push_write"
           l == [NoLocal(w) EXCEPT !.job = x, !.amount = Least(Free(w), 1)]
<1>1. /\ x \in out /\ out' = out \ {x} /\ Goto(w, p, l) /\ pc[w] = "ready" /\ l.job = x
      /\ UNCHANGED <<tail, blocked, buffer, shared>> /\ p \in {"spill", "push_write"}
  BY DEF PushLoad, anchors, NoLocal
<1> HIDE DEF p, l
<1>2. /\ pc'[w] = p /\ local'[w] = l /\ \A u \in Workers : u # w => pc'[u] = pc[u]
  BY <1>1, GotoDoes
<1>3. FlightOf(w) = <<>>
  BY <1>1, FlightNone DEF Publishing
<1>4. FlightOf(w)' = <<x>>
  BY <1>1, <1>2 DEF FlightOf, Publishing
<1>5. \A q \in Workers : Filled(q)' = Filled(q) /\ blocked'[q] = blocked[q] /\ tail'[q] = tail[q]
  BY <1>1 DEF Filled
<1>6. /\ \A u \in Workers : u # w => FlightOf(u)' = FlightOf(u)
      /\ TakenBut(w)' = TakenBut(w)
      /\ \A q \in Workers :
           /\ pc[q] = "dropped" <=> pc'[q] = "dropped"
           /\ blocked'[q] = blocked[q] /\ Filled(q)' = Filled(q)
           => DequeOf(q)' = DequeOf(q)
  BY <1>1, <1>5, SlotsKept, Bystanders
<1>7. \A q \in Workers : DequeOf(q)' = DequeOf(q)
  BY <1>1, <1>2, <1>5, <1>6
<1>8. Taken' = Taken
  <2>1. Taken = TakenBut(w)
    BY <1>1, TakenSplit
  <2>2. Taken' = TakenBut(w)'
    BY <1>1, <1>2 DEF Taken, TakenBut
  <2> QED
    BY <1>6, <2>1, <2>2
<1>9. x \notin Taken
  <2>1. ~InCell(x)
    BY <1>1 DEF Sound, JobInv, KindInv
  <2> QED
    BY <2>1, TakenIs, AtSlot DEF InCell
<1>10. [u \in Workers |-> FlightOf(u)]' = [[u \in Workers |-> FlightOf(u)] EXCEPT ![w] = <<x>>]
  BY <1>4, <1>6
<1>11. (out \cup Taken)' = (out \cup Taken) \ {x}
  BY <1>1, <1>8, <1>9
<1> QED
  BY <1>1, <1>3, <1>7, <1>10, <1>11 DEF WS!Spawn

\* Writing the slot moves the job from the hands of the worker into its ring.
LEMMA MapPushWrite ==
  ASSUME Sound, Sound', NEW w \in Workers, PushWrite(w)
  PROVE  UNCHANGED WS!wsVars
<1> DEFINE l == [NoLocal(w) EXCEPT !.amount = 1, !.copied = 1]
<1>1. /\ Goto(w, "push_publish", l) /\ pc[w] = "push_write" /\ l.amount = 1 /\ l.copied = 1
      /\ UNCHANGED <<tail, blocked, shared, out>>
  BY DEF PushWrite, anchors, NoLocal
<1> HIDE DEF l
<1>2. pc'[w] = "push_publish" /\ local'[w] = l
  BY <1>1, GotoDoes
<1>3. /\ tail[w] \in Cursor /\ Own(w, tail[w]) /\ ~Held(w, tail[w])
      /\ \A q \in Workers, s \in SlotIndex : buffer'[q][s] =
           IF q = w /\ s = Slot(tail[w]) THEN local[w].job ELSE buffer[q][s]
  BY WriteDoes
<1>4. \A q \in Workers, c \in Cursor : Held(q, c) => buffer'[q][Slot(c)] = buffer[q][Slot(c)]
  BY <1>3, OneCursor, AtSlot
<1>5. FlightOf(w)' = FlightOf(w)
  <2>1. FlightOf(w) = <<local[w].job>>
    BY <1>1 DEF FlightOf, Publishing
  <2>2. Item(w, tail[w], 0)' = local[w].job
    BY <1>1, <1>3, AtSlot DEF Item
  <2>3. FlightOf(w)' = [i \in 1..1 |-> IF i <= 1 THEN Item(w, tail[w], i - 1)'
                                       ELSE Item(local[w].victim, local[w].blocked, i - 1)']
    BY <1>1, <1>2 DEF FlightOf, Publishing
  <2>4. \A i \in 1..1 : i = 1 /\ i <= 1 /\ i - 1 = 0
    OBVIOUS
  <2>5. FlightOf(w)' = [i \in 1..1 |-> local[w].job]
    BY <2>2, <2>3, <2>4
  <2> QED
    BY <2>1, <2>5
<1> QED
  BY <1>1, <1>4, <1>5, MapStill

\* A full ring hands the job back and it goes to the shared queue.
LEMMA MapSpill ==
  ASSUME Sound, Sound', NEW w \in Workers, Spill(w)
  PROVE  WS!SpillOver(w)
<1>1. /\ Goto(w, "ready", NoLocal(w)) /\ pc[w] = "spill" /\ shared' = Append(shared, local[w].job)
      /\ UNCHANGED <<tail, blocked, buffer, out>> /\ local[w].job \in Jobs
  BY OneRing DEF Spill, anchors, Return, Sound, LocalOK
<1>2. /\ pc'[w] = "ready" /\ \A u \in Workers : u # w => pc'[u] = pc[u]
  BY <1>1, GotoDoes
<1>3. FlightOf(w) = <<local[w].job>>
  BY <1>1 DEF FlightOf, Publishing
<1>4. FlightOf(w)' = <<>>
  BY <1>2 DEF FlightOf, Publishing
<1>5. \A q \in Workers : Filled(q)' = Filled(q) /\ blocked'[q] = blocked[q] /\ tail'[q] = tail[q]
  BY <1>1 DEF Filled
<1>6. /\ \A u \in Workers : u # w => FlightOf(u)' = FlightOf(u)
      /\ TakenBut(w)' = TakenBut(w)
      /\ \A q \in Workers :
           /\ pc[q] = "dropped" <=> pc'[q] = "dropped"
           /\ blocked'[q] = blocked[q] /\ Filled(q)' = Filled(q)
           => DequeOf(q)' = DequeOf(q)
  BY <1>1, <1>5, SlotsKept, Bystanders
<1>7. \A q \in Workers : DequeOf(q)' = DequeOf(q)
  BY <1>1, <1>2, <1>5, <1>6
<1>8. Taken' = Taken
  <2>1. Taken = TakenBut(w)
    BY <1>1, TakenSplit
  <2>2. Taken' = TakenBut(w)'
    BY <1>1, <1>2 DEF Taken, TakenBut
  <2> QED
    BY <1>6, <2>1, <2>2
<1>9. [u \in Workers |-> FlightOf(u)]' = [[u \in Workers |-> FlightOf(u)] EXCEPT ![w] = <<>>]
  BY <1>4, <1>6
<1>10. shared' = shared \o FlightOf(w) /\ Len(FlightOf(w)) = 1
  BY <1>1, <1>3, AppendIsConcat DEF Sound, DataTypes
<1> QED
  BY <1>1, <1>7, <1>8, <1>9, <1>10 DEF WS!SpillOver

\* A batch reaches the deque with the fetch_add on the tail.
LEMMA MapPublish ==
  ASSUME Sound, Sound', NEW w \in Workers, pc[w] \in Publishing \ {"steal_copy"},
         PublishTail(w), Return(w, "ready"), UNCHANGED <<blocked, buffer, shared, out>>
  PROVE  WS!Publish(w)
<1> DEFINE a == local[w].amount
           n == Filled(w)
<1>1. /\ pc'[w] = "ready" /\ \A u \in Workers : u # w => pc'[u] = pc[u] /\ local'[u] = local[u]
      /\ Goto(w, "ready", NoLocal(w)) /\ pc[w] # "dropped" /\ pc[w] # "pop_take"
  BY GotoDoes DEF Return, Publishing
<1>2. /\ tail[w] \in Cursor /\ blocked[w] \in Cursor /\ a \in 0..Capacity
      /\ n \in 0..Capacity /\ n + a <= Capacity /\ local[w].copied = a
  BY OneRing, CursorFacts DEF Sound, JobInv, MoveInv, MoveOK
<1>3. /\ tail'[w] = WrappingAdd(tail[w], a)
      /\ \A u \in Workers : u # w => tail'[u] = tail[u]
  BY DEF PublishTail, Sound, RingInv, CursorTypes
<1>4. Filled(w)' = n + a /\ \A q \in Workers : q # w => Filled(q)' = Filled(q)
  BY <1>2, <1>3, SubAdd DEF Filled, filled_slots
<1>5. /\ \A u \in Workers : u # w => FlightOf(u)' = FlightOf(u)
      /\ TakenBut(w)' = TakenBut(w)
      /\ \A q \in Workers :
           /\ pc[q] = "dropped" <=> pc'[q] = "dropped"
           /\ blocked'[q] = blocked[q] /\ Filled(q)' = Filled(q)
           => DequeOf(q)' = DequeOf(q)
  BY <1>1, <1>3, SlotsKept, Bystanders
<1>6. \A q \in Workers : q # w => DequeOf(q)' = DequeOf(q)
  BY <1>1, <1>4, <1>5
<1>7. FlightOf(w)' = <<>>
  BY <1>1 DEF FlightOf, Publishing
<1>8. Taken' = Taken
  <2>1. Taken = TakenBut(w)
    BY <1>1, TakenSplit
  <2>2. Taken' = TakenBut(w)'
    BY <1>1 DEF Taken, TakenBut
  <2> QED
    BY <1>5, <2>1, <2>2
<1>9. /\ DequeOf(w) \in Seq(Jobs) /\ Len(DequeOf(w)) = n
      /\ FlightOf(w) \in Seq(Jobs) /\ Len(FlightOf(w)) = a /\ a \in 1..Capacity
  BY <1>1, DequeSeq, FlightSeq
<1>10. DequeOf(w)' = DequeOf(w) \o FlightOf(w)
  <2> DEFINE d == DequeOf(w)
             f == FlightOf(w)
             s == d \o f
  <2>1. /\ s \in Seq(Jobs) /\ Len(s) = n + a
        /\ \A i \in 1..(n + a) : s[i] = IF i <= n THEN d[i] ELSE f[i - n]
    <3>1. d \in Seq(Jobs) /\ f \in Seq(Jobs) /\ Len(d) = n /\ Len(f) = a
      BY <1>9
    <3> HIDE DEF d, f, n, a
    <3>2. /\ d \o f \in Seq(Jobs) /\ Len(d \o f) = Len(d) + Len(f)
          /\ \A i \in 1..(Len(d) + Len(f)) : (d \o f)[i] = IF i <= Len(d) THEN d[i] ELSE f[i - Len(d)]
      BY <3>1, ConcatProperties
    <3> QED
      BY <3>1, <3>2
  <2> HIDE DEF s
  <2>2. ASSUME NEW i \in 1..(n + a)
        PROVE  DequeOf(w)'[i] = s[i]
    <3>1. DequeOf(w)'[i] = buffer[w][At(blocked[w], i - 1)]
      BY <1>1, <1>4 DEF DequeOf, Item
    <3>2. CASE i <= n
      <4>1. i \in 1..n
        BY <1>2, <3>2
      <4>2. DequeOf(w)[i] = buffer[w][At(blocked[w], i - 1)]
        BY <1>1, <4>1 DEF DequeOf, Item
      <4> QED
        BY <2>1, <3>1, <3>2, <4>2
    <3>3. CASE ~(i <= n)
      <4>1. i - n \in 1..a /\ i - n - 1 \in 0..Capacity /\ n + (i - n - 1) <= Capacity /\ n + (i - n - 1) = i - 1
        BY <1>2, <3>3, CursorFacts
      <4>2. FlightOf(w)[i - n] = buffer[w][Slot(WrappingAdd(tail[w], i - n - 1))]
        BY <1>2, <4>1, FlightIs
      <4>3. WrappingAdd(tail[w], i - n - 1) = WrappingAdd(blocked[w], n + (i - n - 1))
        BY <1>2, <4>1, AddFrom DEF Filled, filled_slots
      <4>4. FlightOf(w)[i - n] = buffer[w][At(blocked[w], i - 1)]
        BY <4>1, <4>2, <4>3 DEF At
      <4> QED
        BY <2>1, <3>1, <3>3, <4>4
    <3> QED
      BY <3>2, <3>3
  <2>3. s = [i \in 1..(n + a) |-> s[i]]
    BY <2>1, LenProperties
  <2>4. DequeOf(w)' = [i \in 1..(n + a) |-> DequeOf(w)'[i]]
    BY <1>1, <1>4 DEF DequeOf
  <2> QED
    BY <2>2, <2>3, <2>4 DEF s
<1>11. [u \in Workers |-> FlightOf(u)]' = [[u \in Workers |-> FlightOf(u)] EXCEPT ![w] = <<>>]
  BY <1>5, <1>7
<1>12. [u \in Workers |-> DequeOf(u)]'
       = [[u \in Workers |-> DequeOf(u)] EXCEPT ![w] = DequeOf(w) \o FlightOf(w)]
  BY <1>6, <1>10
<1>13. FlightOf(w) # <<>> /\ Len(DequeOf(w)) + Len(FlightOf(w)) <= Capacity
  BY <1>2, <1>9
<1> QED
  BY <1>8, <1>11, <1>12, <1>13 DEF WS!Publish

\* The CAS of pop takes the newest job.
LEMMA MapPopCas ==
  ASSUME Sound, Sound', NEW w \in Workers, PopCas(w)
  PROVE  WS!PopNewest(w)
<1> DEFINE l == [NoLocal(w) EXCEPT !.amount = 1]
           n == Filled(w)
<1>1. /\ Goto(w, "pop_take", l) /\ pc[w] = "pop_cas" /\ UNCHANGED <<blocked, buffer, shared, out>>
      /\ tail' = [tail EXCEPT ![w] = WrappingSub(tail[w], 1)]
  BY DEF PopCas
<1> HIDE DEF l
<1>2. /\ pc'[w] = "pop_take" /\ \A u \in Workers : u # w => pc'[u] = pc[u]
  BY <1>1, GotoDoes
<1>3. /\ tail[w] \in Cursor /\ blocked[w] \in Cursor /\ n \in 1..Capacity
  BY OneRing, CursorFacts DEF Sound, PopCas, LocalOK, Filled, filled_slots
<1>4. /\ tail'[w] = WrappingSub(tail[w], 1) /\ \A u \in Workers : u # w => tail'[u] = tail[u]
  BY <1>1 DEF Sound, RingInv, CursorTypes
<1>5. Filled(w)' = n - 1 /\ \A q \in Workers : q # w => Filled(q)' = Filled(q)
  BY <1>1, <1>3, <1>4, SubDecrement DEF Filled, filled_slots
<1>6. /\ \A u \in Workers : u # w => FlightOf(u)' = FlightOf(u)
      /\ TakenBut(w)' = TakenBut(w)
      /\ \A q \in Workers :
           /\ pc[q] = "dropped" <=> pc'[q] = "dropped"
           /\ blocked'[q] = blocked[q] /\ Filled(q)' = Filled(q)
           => DequeOf(q)' = DequeOf(q)
  BY <1>1, <1>4, SlotsKept, Bystanders
<1>7. \A q \in Workers : q # w => DequeOf(q)' = DequeOf(q)
  BY <1>1, <1>2, <1>5, <1>6
<1>8. FlightOf(w) = <<>> /\ FlightOf(w)' = <<>>
  BY <1>1, <1>2 DEF FlightOf, Publishing
<1>9. /\ DequeOf(w) \in Seq(Jobs) /\ Len(DequeOf(w)) = n /\ DequeOf(w) # <<>>
  BY <1>1, <1>3, DequeSeq
<1>10. DequeOf(w)[n] = Item(w, tail[w], 0)'
  <2>1. DequeOf(w)[n] = buffer[w][At(blocked[w], n - 1)]
    BY <1>1, <1>3 DEF DequeOf, Item
  <2>2. PICK t \in Cursor : t = WrappingSub(tail[w], 1)
    BY <1>3, WrapTypes
  <2>3. WrappingSub(t, blocked[w]) = n - 1
    BY <1>3, <2>2, SubDecrement DEF Filled, filled_slots
  <2>4. WrappingAdd(blocked[w], n - 1) = t
    BY <1>3, <2>3, RunEnds
  <2>5. Item(w, tail[w], 0)' = buffer[w][Slot(t)]
    BY <1>1, <1>4, <2>2, AtSlot DEF Item
  <2> QED
    BY <2>1, <2>4, <2>5 DEF At
<1>11. DequeOf(w)' = SubSeq(DequeOf(w), 1, n - 1)
  <2> DEFINE d == DequeOf(w)
             s == SubSeq(d, 1, n - 1)
  <2>1. /\ s \in Seq(Jobs) /\ Len(s) = n - 1
        /\ \A i \in 1..(n - 1) : s[i] = d[i]
    <3>1. d \in Seq(Jobs) /\ Len(d) = n /\ n \in Nat /\ n >= 1
      BY <1>3, <1>9
    <3> HIDE DEF d, n
    <3>2. \A i \in 1..(n - 1) : d[i] \in Jobs
      BY <3>1, ElementOfSeq
    <3>3. /\ s \in Seq(Jobs) /\ Len(s) = (IF 1 <= n - 1 THEN (n - 1) - 1 + 1 ELSE 0)
          /\ \A i \in 1..((n - 1) - 1 + 1) : s[i] = d[1 + i - 1]
      BY <3>1, <3>2, SubSeqProperties
    <3>4. \A i \in 1..(n - 1) : i \in 1..((n - 1) - 1 + 1) /\ 1 + i - 1 = i
      BY <3>1
    <3> QED
      BY <3>1, <3>3, <3>4
  <2>2. DequeOf(w)' = [i \in 1..(n - 1) |-> buffer[w][At(blocked[w], i - 1)]]
    BY <1>1, <1>2, <1>5 DEF DequeOf, Item
  <2>3. \A i \in 1..(n - 1) : d[i] = buffer[w][At(blocked[w], i - 1)]
    BY <1>1, <1>3 DEF DequeOf, Item
  <2> HIDE DEF s, d
  <2>4. s = [i \in 1..(n - 1) |-> s[i]]
    BY <2>1, LenProperties
  <2> QED
    BY <2>1, <2>2, <2>3, <2>4 DEF s, d
<1>12. Taken' = Taken \cup {DequeOf(w)[n]}
  <2>1. Taken = TakenBut(w)
    BY <1>1, TakenSplit
  <2>2. Taken' = TakenBut(w)' \cup {Item(w, tail[w], 0)'}
    BY <1>2 DEF Taken, TakenBut
  <2> QED
    BY <1>6, <1>10, <2>1, <2>2
<1>13. [u \in Workers |-> FlightOf(u)]' = [u \in Workers |-> FlightOf(u)]
  BY <1>6, <1>8
<1>14. [u \in Workers |-> DequeOf(u)]'
       = [[u \in Workers |-> DequeOf(u)] EXCEPT ![w] = SubSeq(DequeOf(w), 1, Len(DequeOf(w)) - 1)]
  BY <1>7, <1>9, <1>11
<1>15. (out \cup Taken)' = (out \cup Taken) \cup {DequeOf(w)[Len(DequeOf(w))]}
  BY <1>1, <1>9, <1>12
<1> QED
  BY <1>1, <1>8, <1>9, <1>13, <1>14, <1>15 DEF WS!PopNewest, WS!Last, WS!Front

\* Reading a popped job out of its slot: it was taken before.
LEMMA MapPopTake ==
  ASSUME Sound, Sound', NEW w \in Workers, PopTake(w)
  PROVE  UNCHANGED WS!wsVars
<1>1. /\ Goto(w, "ready", NoLocal(w)) /\ pc[w] = "pop_take" /\ UNCHANGED <<tail, blocked, shared>>
      /\ out' = out \cup {Item(w, tail[w], 0)}
  BY DEF PopTake, anchors, Return
<1>2. /\ pc'[w] = "ready" /\ \A u \in Workers : u # w => pc'[u] = pc[u]
  BY <1>1, GotoDoes
<1>3. /\ tail[w] \in Cursor /\ Held(w, tail[w])
      /\ \A q \in Workers, s \in SlotIndex : buffer'[q][s] =
           IF q = w /\ s = Slot(tail[w]) THEN NoJob ELSE buffer[q][s]
  BY TakeDoes
<1>4. Popped(w, tail[w])
  BY <1>1 DEF Popped
<1>5. \A q \in Workers, c \in Cursor :
        Held(q, c) /\ ~Mine(w, q, c) => buffer'[q][Slot(c)] = buffer[q][Slot(c)]
  BY <1>3, <1>4, OneCursor, AtSlot DEF Mine
<1>6. \A q \in Workers : Filled(q)' = Filled(q) /\ blocked'[q] = blocked[q] /\ tail'[q] = tail[q]
  BY <1>1 DEF Filled
<1>7. /\ \A u \in Workers : u # w => FlightOf(u)' = FlightOf(u)
      /\ TakenBut(w)' = TakenBut(w)
      /\ \A q \in Workers :
           /\ pc[q] = "dropped" <=> pc'[q] = "dropped"
           /\ blocked'[q] = blocked[q] /\ Filled(q)' = Filled(q)
           => DequeOf(q)' = DequeOf(q)
  BY <1>1, <1>5, <1>6, Bystanders
<1>8. \A q \in Workers : DequeOf(q)' = DequeOf(q)
  BY <1>1, <1>2, <1>6, <1>7
<1>9. FlightOf(w) = <<>> /\ FlightOf(w)' = <<>>
  BY <1>1, <1>2 DEF FlightOf, Publishing
<1>10. (out \cup Taken)' = out \cup Taken
  <2>1. Taken = TakenBut(w) \cup {Item(w, tail[w], 0)}
    BY <1>1, TakenSplit
  <2>2. Taken' = TakenBut(w)'
    BY <1>1, <1>2 DEF Taken, TakenBut
  <2> QED
    BY <1>1, <1>7, <2>1, <2>2
<1>11. \A q \in Workers : FlightOf(q)' = FlightOf(q)
  BY <1>7, <1>9
<1> QED
  BY <1>1, <1>8, <1>10, <1>11 DEF WS!wsVars

\* The drain moves the front of the shared queue into the worker's flight.
LEMMA MapPullDrain ==
  ASSUME Sound, Sound', NEW w \in Workers, PullDrain(w)
  PROVE  \E n \in 1..Capacity : WS!Pull(w, n)
<1>1. PICK n \in 1..Capacity :
           /\ n <= Len(shared) /\ n <= local[w].amount /\ tail[w] \in Cursor
           /\ shared' = SubSeq(shared, n + 1, Len(shared)) /\ out' = out
           /\ pc[w] = "pull_drain"
           /\ Goto(w, "pull_publish", [NoLocal(w) EXCEPT !.amount = n, !.copied = n])
           /\ \A k \in 0..(n - 1) : buffer'[w][At(tail[w], k)] = shared[k + 1]
           /\ \A q \in Workers, s \in SlotIndex :
                q # w \/ (\A k \in 0..(n - 1) : s # At(tail[w], k)) => buffer'[q][s] = buffer[q][s]
           /\ \A c \in Cursor : InRun(c, tail[w], n) => Own(w, c) /\ ~Held(w, c)
           /\ \A q \in Workers, c \in Cursor :
                Held(q, c)' <=> Held(q, c) \/ (q = w /\ InRun(c, tail[w], n))
  BY DrainDoes
<1> DEFINE l == [NoLocal(w) EXCEPT !.amount = n, !.copied = n]
<1>2. l.amount = n /\ l.copied = n /\ Goto(w, "pull_publish", l) /\ UNCHANGED <<tail, blocked>>
  BY <1>1 DEF NoLocal, PullDrain, anchors
<1> HIDE DEF l
<1>3. /\ pc'[w] = "pull_publish" /\ local'[w] = l /\ \A u \in Workers : u # w => pc'[u] = pc[u]
  BY <1>2, GotoDoes
<1>4. \A q \in Workers, c \in Cursor : Held(q, c) => buffer'[q][Slot(c)] = buffer[q][Slot(c)]
  <2> SUFFICES ASSUME NEW q \in Workers, NEW c \in Cursor, Held(q, c)
               PROVE  buffer'[q][Slot(c)] = buffer[q][Slot(c)]
    OBVIOUS
  <2>1. ASSUME q = w, NEW k \in 0..(n - 1), Slot(c) = At(tail[w], k) PROVE FALSE
    <3>1. k \in 0..Capacity /\ n \in 0..Capacity
      BY CursorFacts
    <3>2. PICK d \in Cursor : d = WrappingAdd(tail[w], k) /\ Slot(d) = At(tail[w], k)
      BY <1>1, <3>1, AtSlot
    <3>3. Own(w, d) /\ ~Held(w, d)
      BY <1>1, <3>1, <3>2, RunPlaces
    <3>4. c = d
      BY <2>1, <3>2, <3>3, OneCursor
    <3> QED
      BY <2>1, <3>3, <3>4
  <2>2. Slot(c) \in SlotIndex
    BY AtSlot
  <2> QED
    BY <1>1, <2>1, <2>2
<1>5. \A q \in Workers : Filled(q)' = Filled(q) /\ blocked'[q] = blocked[q] /\ tail'[q] = tail[q]
  BY <1>2 DEF Filled
<1>6. /\ \A u \in Workers : u # w => FlightOf(u)' = FlightOf(u)
      /\ TakenBut(w)' = TakenBut(w)
      /\ \A q \in Workers :
           /\ pc[q] = "dropped" <=> pc'[q] = "dropped"
           /\ blocked'[q] = blocked[q] /\ Filled(q)' = Filled(q)
           => DequeOf(q)' = DequeOf(q)
  BY <1>2, <1>4, <1>5, Bystanders
<1>7. \A q \in Workers : DequeOf(q)' = DequeOf(q)
  <2>1. \A q \in Workers : pc[q] = "dropped" <=> pc'[q] = "dropped"
    BY <1>1, <1>3
  <2> QED
    BY <1>5, <1>6, <2>1
<1>8. FlightOf(w) = <<>> /\ pc[w] # "pop_take"
  <2>1. pc[w] = "pull_drain"
    BY <1>1
  <2> QED
    BY <2>1 DEF FlightOf, Publishing
<1>9. DequeOf(w) = <<>>
  <2>1. Filled(w) = 0 /\ pc[w] # "dropped"
    BY <1>1, SearchEmpty DEF Searching
  <2> QED
    BY <2>1, DequeSeq, EmptySeq
<1>10. FlightOf(w)' = SubSeq(shared, 1, n)
  <2> DEFINE s == SubSeq(shared, 1, n)
  <2>0. n \in Nat /\ shared \in Seq(Jobs) /\ Len(shared) \in Nat /\ n <= Len(shared) /\ n >= 1
    BY <1>1, CursorFacts DEF Sound, DataTypes
  <2>1. /\ s \in Seq(Jobs) /\ Len(s) = n /\ \A i \in 1..n : s[i] = shared[i]
    <3>1. \A i \in 1..n : shared[i] \in Jobs
      BY <2>0, ElementOfSeq
    <3>2. /\ s \in Seq(Jobs) /\ Len(s) = (IF 1 <= n THEN n - 1 + 1 ELSE 0)
          /\ \A i \in 1..(n - 1 + 1) : s[i] = shared[1 + i - 1]
      BY <2>0, <3>1, SubSeqProperties
    <3>3. \A i \in 1..n : i \in 1..(n - 1 + 1) /\ 1 + i - 1 = i
      BY <2>0
    <3> QED
      BY <2>0, <3>2, <3>3
  <2>2. FlightOf(w)' = [i \in 1..n |-> IF i <= n THEN Item(w, tail[w], i - 1)'
                                       ELSE Item(local[w].victim, local[w].blocked, i - 1)']
    BY <1>2, <1>3 DEF FlightOf, Publishing
  <2>3. ASSUME NEW i \in 1..n PROVE i <= n /\ Item(w, tail[w], i - 1)' = shared[i]
    <3>1. i <= n /\ i - 1 \in 0..(n - 1) /\ (i - 1) + 1 = i
      BY <2>0
    <3>2. buffer'[w][At(tail[w], i - 1)] = shared[(i - 1) + 1]
      BY <1>1, <3>1
    <3> QED
      BY <1>2, <3>1, <3>2 DEF Item, At
  <2> HIDE DEF s
  <2>4. s = [i \in 1..n |-> s[i]]
    BY <2>1, LenProperties
  <2> QED
    BY <2>1, <2>2, <2>3, <2>4 DEF s
<1>11. Taken' = Taken
  <2>1. Taken = TakenBut(w)
    BY <1>8, TakenSplit
  <2>2. Taken' = TakenBut(w)'
    BY <1>3 DEF Taken, TakenBut
  <2> QED
    BY <1>6, <2>1, <2>2
<1>12. [u \in Workers |-> FlightOf(u)]' = [[u \in Workers |-> FlightOf(u)] EXCEPT ![w] = SubSeq(shared, 1, n)]
  BY <1>6, <1>10
<1>13. n \in 1..Len(shared) /\ shared' = SubSeq(shared, n + 1, Len(shared)) /\ out' = out
  BY <1>1 DEF Sound, DataTypes
<1>14. WS!Pull(w, n)
  BY <1>7, <1>8, <1>9, <1>11, <1>12, <1>13 DEF WS!Pull
<1> QED
  BY <1>14

\* A piece of a deque that starts at another cursor.
LEMMA ItemShift ==
  ASSUME NEW b \in Cursor, NEW a \in 0..Capacity, NEW i \in Nat, i >= 1, a + i <= Capacity
  PROVE  At(WrappingAdd(b, a), i - 1) = At(b, a + i - 1)
<1>1. PICK c \in Cursor : c = WrappingAdd(b, a) /\ WrappingSub(c, b) = a
  BY AtSlot, RunEnds
<1>2. i - 1 \in 0..Capacity /\ a + (i - 1) <= Capacity /\ a + (i - 1) = a + i - 1
  BY CursorFacts
<1>3. WrappingAdd(c, i - 1) = WrappingAdd(b, a + (i - 1))
  BY <1>1, <1>2, AddFrom
<1> QED
  BY <1>1, <1>2, <1>3 DEF At

\* The CAS of a steal moves the oldest jobs of the victim into the thief's flight.
LEMMA MapStealCas ==
  ASSUME Sound, Sound', NEW w \in Workers, StealCas(w)
  PROVE  \E v \in Workers, n \in 1..Capacity : WS!StealOldest(w, v, n)
<1>1. PICK v \in Workers, a \in 1..Capacity :
           /\ v = local[w].victim /\ v # w /\ a = local[w].amount /\ a <= Filled(v)
           /\ local[w].copied = 0 /\ local[w].blocked = blocked[v] /\ blocked[v] \in Cursor
           /\ Filled(v) \in 0..Capacity /\ pc[v] # "dropped" /\ pc[w] = "steal_cas"
           /\ blocked'[v] = WrappingAdd(blocked[v], a) /\ Filled(v)' = Filled(v) - a
           /\ \A u \in Workers : u # v => blocked'[u] = blocked[u] /\ Filled(u)' = Filled(u)
           /\ pc'[w] = "steal_copy" /\ local' = local /\ tail' = tail
           /\ \A u \in Workers : u # w => pc'[u] = pc[u]
  BY CasDoes
<1> DEFINE b == blocked[v]
           n == Filled(v)
           d == DequeOf(v)
<1>2. /\ Goto(w, "steal_copy", local[w]) /\ UNCHANGED <<tail, buffer, shared, out>>
  BY DEF StealCas
<1>3. n \in Nat /\ a \in Nat /\ a >= 1 /\ a <= n /\ n <= Capacity /\ Capacity \in Nat /\ a \in 0..Capacity
  BY <1>1, CursorFacts
<1>4. \A u \in Workers : tail'[u] = tail[u]
  BY <1>2
<1>5. /\ \A u \in Workers : u # w => FlightOf(u)' = FlightOf(u)
      /\ TakenBut(w)' = TakenBut(w)
      /\ \A q \in Workers :
           /\ pc[q] = "dropped" <=> pc'[q] = "dropped"
           /\ blocked'[q] = blocked[q] /\ Filled(q)' = Filled(q)
           => DequeOf(q)' = DequeOf(q)
  BY <1>2, <1>4, SlotsKept, Bystanders
<1>6. \A q \in Workers : q # v => DequeOf(q)' = DequeOf(q)
  BY <1>1, <1>5
<1>7. FlightOf(w) = <<>> /\ pc[w] # "pop_take"
  <2>1. pc[w] = "steal_cas"
    BY <1>1
  <2> QED
    BY <2>1 DEF FlightOf, Publishing
<1>8. DequeOf(w) = <<>>
  <2>1. Filled(w) = 0 /\ pc[w] # "dropped"
    BY <1>1, SearchEmpty DEF Searching
  <2> QED
    BY <2>1, DequeSeq, EmptySeq
<1>9. d \in Seq(Jobs) /\ Len(d) = n /\ \A i \in 1..n : d[i] = buffer[v][At(b, i - 1)]
  <2>1. d \in Seq(Jobs) /\ Len(d) = n
    BY <1>1, DequeSeq
  <2>2. d = [i \in 1..n |-> Item(v, b, i - 1)]
    BY <1>1 DEF DequeOf
  <2> HIDE DEF d, n
  <2> QED
    BY <2>1, <2>2 DEF Item
<1>10. FlightOf(w)' = SubSeq(d, 1, a)
  <2> DEFINE s == SubSeq(d, 1, a)
  <2>1. FlightOf(w)' = [i \in 1..a |-> IF i <= 0 THEN buffer[w][At(tail[w], i - 1)]
                                       ELSE buffer[v][At(b, i - 1)]]
    <3>1. /\ pc'[w] = "steal_copy" /\ local'[w].amount = a /\ local'[w].copied = 0
          /\ local'[w].victim = v /\ local'[w].blocked = b /\ tail' = tail /\ buffer' = buffer
      BY <1>1, <1>2
    <3> HIDE DEF b
    <3> QED
      BY <3>1 DEF FlightOf, Publishing, Item
  <2>2. \A i \in 1..a : ~(i <= 0) /\ i \in 1..n
    BY <1>3
  <2> HIDE DEF d, n, b
  <2>3. /\ s \in Seq(Jobs) /\ Len(s) = a /\ \A i \in 1..a : s[i] = d[i]
    <3>1. \A i \in 1..a : d[i] \in Jobs
      BY <1>3, <1>9, ElementOfSeq
    <3>2. /\ s \in Seq(Jobs) /\ Len(s) = (IF 1 <= a THEN a - 1 + 1 ELSE 0)
          /\ \A i \in 1..(a - 1 + 1) : s[i] = d[1 + i - 1]
      BY <1>3, <3>1, SubSeqProperties
    <3>3. \A i \in 1..a : i \in 1..(a - 1 + 1) /\ 1 + i - 1 = i
      BY <1>3
    <3> QED
      BY <1>3, <3>2, <3>3
  <2> HIDE DEF s
  <2>4. s = [i \in 1..a |-> s[i]]
    BY <2>3, LenProperties
  <2>5. FlightOf(w)' = [i \in 1..a |-> d[i]]
    BY <1>9, <2>1, <2>2
  <2>6. FlightOf(w)' = s
    BY <2>3, <2>4, <2>5
  <2> QED
    BY <2>6 DEF s
<1>11. DequeOf(v)' = SubSeq(d, a + 1, n)
  <2> DEFINE s == SubSeq(d, a + 1, n)
             m == n - a
  <2>0. m \in Nat /\ n = a + m
    BY <1>3
  <2>1. DequeOf(v)' = [i \in 1..m |-> buffer[v][At(WrappingAdd(b, a), i - 1)]]
    BY <1>1, <1>2 DEF DequeOf, Item
  <2>2. ASSUME NEW i \in 1..m
        PROVE  buffer[v][At(WrappingAdd(b, a), i - 1)] = d[a + i]
    <3>1. i \in Nat /\ i >= 1 /\ a + i <= Capacity /\ a + i \in 1..n
      BY <1>3, <2>0
    <3>2. At(WrappingAdd(b, a), i - 1) = At(b, a + i - 1)
      BY <1>1, <1>3, <3>1, ItemShift
    <3> QED
      BY <1>9, <3>1, <3>2
  <2> HIDE DEF d, n, b, m
  <2>3. /\ s \in Seq(Jobs) /\ Len(s) = m /\ \A i \in 1..m : s[i] = d[a + i]
    <3>1. \A i \in (a + 1)..n : d[i] \in Jobs
      BY <1>3, <1>9, ElementOfSeq
    <3>2. /\ s \in Seq(Jobs) /\ Len(s) = (IF a + 1 <= n THEN n - (a + 1) + 1 ELSE 0)
          /\ \A i \in 1..(n - (a + 1) + 1) : s[i] = d[(a + 1) + i - 1]
      BY <1>3, <3>1, SubSeqProperties
    <3>3. \A i \in 1..m : i \in 1..(n - (a + 1) + 1) /\ (a + 1) + i - 1 = a + i
      BY <1>3, <2>0
    <3>4. (IF a + 1 <= n THEN n - (a + 1) + 1 ELSE 0) = m
      BY <1>3, <2>0
    <3> QED
      BY <3>2, <3>3, <3>4
  <2> HIDE DEF s
  <2>4. s = [i \in 1..m |-> s[i]]
    BY <2>3, LenProperties
  <2>5. DequeOf(v)' = [i \in 1..m |-> d[a + i]]
    BY <2>1, <2>2
  <2>6. DequeOf(v)' = s
    BY <2>3, <2>4, <2>5
  <2> QED
    BY <2>6 DEF s
<1>12. Taken' = Taken
  <2>1. Taken = TakenBut(w)
    BY <1>7, TakenSplit
  <2>2. Taken' = TakenBut(w)'
    BY <1>1 DEF Taken, TakenBut
  <2> QED
    BY <1>5, <2>1, <2>2
<1>13. [u \in Workers |-> FlightOf(u)]' = [[u \in Workers |-> FlightOf(u)] EXCEPT ![w] = SubSeq(DequeOf(v), 1, a)]
  BY <1>5, <1>10
<1>14. [u \in Workers |-> DequeOf(u)]'
       = [[u \in Workers |-> DequeOf(u)] EXCEPT ![v] = SubSeq(DequeOf(v), a + 1, Len(DequeOf(v)))]
  BY <1>6, <1>9, <1>11
<1>15. a \in 1..Len(DequeOf(v)) /\ w # v
  BY <1>1, <1>3, <1>9
<1>16. WS!StealOldest(w, v, a)
  BY <1>2, <1>7, <1>8, <1>12, <1>13, <1>14, <1>15 DEF WS!StealOldest
<1> QED
  BY <1>16

\* One round of the copy loop moves a job of the flight from ring to ring.
LEMMA MapStealCopy ==
  ASSUME Sound, Sound', NEW w \in Workers, StealCopy(w)
  PROVE  UNCHANGED WS!wsVars
<1>1. PICK v \in Workers, b \in Cursor, a \in 1..Capacity, n \in 0..Capacity, d \in Cursor, e \in Cursor :
           /\ v = local[w].victim /\ v # w /\ b = local[w].blocked /\ a = local[w].amount
           /\ n = local[w].copied /\ n < a /\ d = WrappingAdd(b, n) /\ e = WrappingAdd(tail[w], n)
           /\ pc[w] = "steal_copy"
           /\ Goto(w, IF n + 1 = a THEN "steal_publish" ELSE "steal_copy", [local[w] EXCEPT !.copied = n + 1])
           /\ Left(w, v, d) /\ Own(w, e) /\ ~Held(w, e)
           /\ \A q \in Workers, s \in SlotIndex : buffer'[q][s] =
                IF q = w /\ s = Slot(e) THEN buffer[v][Slot(d)]
                ELSE IF q = v /\ s = Slot(d) THEN NoJob ELSE buffer[q][s]
           /\ \A q \in Workers, c \in Cursor :
                Held(q, c)' <=> (Held(q, c) /\ ~(q = v /\ c = d)) \/ (q = w /\ c = e)
  BY CopyDoes
<1> DEFINE p == IF n + 1 = a THEN "steal_publish" ELSE "steal_copy"
           l == [local[w] EXCEPT !.copied = n + 1]
<1>2. /\ Goto(w, p, l) /\ p \in {"steal_publish", "steal_copy"}
      /\ UNCHANGED <<tail, blocked, shared, out>>
  BY <1>1 DEF StealCopy, anchors
<1>3. l.copied = n + 1 /\ l.amount = a /\ l.blocked = b /\ l.victim = v
  <2>1. local[w] \in Locals
    BY OneRing DEF Sound, RingInv, CursorTypes
  <2> QED
    BY <1>1, <2>1 DEF Locals
<1> HIDE DEF p, l
<1>4. pc'[w] = p /\ local'[w] = l
  BY <1>2, GotoDoes
<1>5. tail[w] \in Cursor /\ n \in Nat /\ a \in Nat /\ n + 1 <= a /\ a <= Capacity /\ Capacity \in Nat
  BY <1>1, OneRing, CursorFacts DEF Sound
<1>6. \A q \in Workers, c \in Cursor :
        Held(q, c) /\ ~(q = v /\ c = d) => buffer'[q][Slot(c)] = buffer[q][Slot(c)]
  <2> SUFFICES ASSUME NEW q \in Workers, NEW c \in Cursor, Held(q, c), ~(q = v /\ c = d)
               PROVE  buffer'[q][Slot(c)] = buffer[q][Slot(c)]
    OBVIOUS
  <2>1. ~(q = w /\ Slot(c) = Slot(e))
    BY <1>1, OneCursor
  <2>2. ~(q = v /\ Slot(c) = Slot(d))
    <3>1. Held(v, d)
      BY <1>1 DEF Held
    <3> QED
      BY <3>1, OneCursor
  <2> QED
    BY <1>1, <2>1, <2>2, AtSlot
<1>7. \A q \in Workers, c \in Cursor :
        Held(q, c) /\ ~Mine(w, q, c) => buffer'[q][Slot(c)] = buffer[q][Slot(c)]
  BY <1>1, <1>6 DEF Mine
<1>8. ASSUME NEW i \in 1..a
      PROVE  (IF i <= n + 1 THEN Item(w, tail[w], i - 1)' ELSE Item(v, b, i - 1)')
             = (IF i <= n THEN Item(w, tail[w], i - 1) ELSE Item(v, b, i - 1))
  <2>0. i \in Nat /\ i - 1 \in 0..Capacity
    BY <1>5
  <2>1. /\ Item(w, tail[w], i - 1)' = buffer'[w][Slot(WrappingAdd(tail[w], i - 1))]
        /\ Item(w, tail[w], i - 1) = buffer[w][Slot(WrappingAdd(tail[w], i - 1))]
        /\ Item(v, b, i - 1)' = buffer'[v][Slot(WrappingAdd(b, i - 1))]
        /\ Item(v, b, i - 1) = buffer[v][Slot(WrappingAdd(b, i - 1))]
    BY <1>2 DEF Item, At
  <2>2. CASE i <= n
    <3>1. i \in 1..n
      BY <1>5, <2>0, <2>2
    <3>2. PICK c \in Cursor : c = WrappingAdd(tail[w], i - 1) /\ InRun(c, tail[w], n)
      BY <1>5, <3>1, RunIndex
    <3>3. Held(w, c)
      BY <1>1, <3>2 DEF Held, Moved, Publishing
    <3>4. buffer'[w][Slot(c)] = buffer[w][Slot(c)]
      BY <1>1, <1>6, <3>3
    <3>5. i <= n + 1
      BY <1>5, <2>0, <2>2
    <3> QED
      BY <2>1, <2>2, <3>2, <3>4, <3>5
  <2>3. CASE i = n + 1
    <3>1. i - 1 = n /\ i <= n + 1 /\ ~(i <= n)
      BY <1>5, <2>3
    <3>2. buffer'[w][Slot(e)] = buffer[v][Slot(d)]
      BY <1>1, AtSlot
    <3> QED
      BY <1>1, <2>1, <3>1, <3>2
  <2>4. CASE ~(i <= n + 1)
    <3>0. ~(i <= n) /\ i - 1 > n /\ n <= i - 1
      BY <1>5, <2>0, <2>4
    <3>1. a \in 0..Capacity
      BY <1>5
    <3>2. PICK c \in Cursor : c = WrappingAdd(b, i - 1) /\ InRun(c, b, a) /\ WrappingSub(c, b) = i - 1
      BY <3>1, RunIndex
    <3>3. Held(v, c)
      BY <1>1, <3>0, <3>2 DEF Held, Left
    <3>4. WrappingSub(d, b) = n
      BY <1>1, RunEnds
    <3>5. c # d
      BY <3>0, <3>2, <3>4, <2>0, <1>5
    <3>6. buffer'[v][Slot(c)] = buffer[v][Slot(c)]
      BY <1>6, <3>3, <3>5
    <3> QED
      BY <2>1, <2>4, <3>0, <3>2, <3>6
  <2> QED
    BY <1>5, <2>0, <2>2, <2>3, <2>4
<1>9. FlightOf(w)' = FlightOf(w)
  <2>1. FlightOf(w) = [i \in 1..a |-> IF i <= n THEN Item(w, tail[w], i - 1) ELSE Item(v, b, i - 1)]
    BY <1>1 DEF FlightOf, Publishing
  <2>2. FlightOf(w)' = [i \in 1..a |-> IF i <= n + 1 THEN Item(w, tail[w], i - 1)' ELSE Item(v, b, i - 1)']
    BY <1>2, <1>3, <1>4 DEF FlightOf, Publishing
  <2> QED
    BY <1>8, <2>1, <2>2
<1>10. pc[w] # "dropped" /\ p # "dropped" /\ pc[w] # "pop_take" /\ p # "pop_take"
  BY <1>1, <1>2
<1> QED
  BY <1>2, <1>7, <1>9, <1>10, MapStill

\* Publishing `stolen` moves nothing.
LEMMA MapStealPublish ==
  ASSUME Sound, Sound', NEW w \in Workers, StealPublish(w)
  PROVE  UNCHANGED WS!wsVars
<1>1. /\ Goto(w, "steal_bump", local[w]) /\ pc[w] = "steal_publish"
      /\ UNCHANGED <<tail, blocked, buffer, shared, out>>
  BY DEF StealPublish, anchors
<1>2. pc'[w] = "steal_bump" /\ local'[w] = local[w]
  BY <1>1, GotoDoes
<1>3. FlightOf(w)' = FlightOf(w)
  BY <1>1, <1>2 DEF FlightOf, Publishing, Item, At
<1> QED
  BY <1>1, <1>3, SlotsKept, MapStill

\* The queues as they are when no worker is moving a job.
LEMMA MapAtRest ==
  ASSUME \A u \in Workers : pc[u] \notin Publishing \cup {"push_write", "spill", "pop_take"}
  PROVE  (\A u \in Workers : FlightOf(u) = <<>>) /\ Taken = {}
BY DEF FlightOf, Taken

\* Drop empties a deque.
LEMMA MapDrop ==
  ASSUME Sound, NEW w \in Workers, Drop(w)
  PROVE  WS!Discard(w) \/ UNCHANGED WS!wsVars
<1>1. /\ pc[w] = "exited" /\ \A u \in Workers : pc[u] \in {"exited", "dropped"}
      /\ Goto(w, "dropped", NoLocal(w)) /\ out' = out \cup Dropped(w)
      /\ UNCHANGED <<tail, blocked, shared>>
  BY DEF Drop, anchors, Return
<1>2. pc'[w] = "dropped" /\ \A u \in Workers : u # w => pc'[u] = pc[u]
  BY <1>1, GotoDoes
<1>3. (\A u \in Workers : FlightOf(u) = <<>>) /\ Taken = {}
  BY <1>1, MapAtRest DEF Publishing
<1>4. (\A u \in Workers : FlightOf(u)' = <<>>) /\ Taken' = {}
  BY <1>1, <1>2 DEF FlightOf, Taken, Publishing
<1>5. DequeOf(w)' = <<>>
  BY <1>2 DEF DequeOf
<1>6. \A q \in Workers : q # w => DequeOf(q)' = DequeOf(q)
  <2>1. \A q \in Workers : q # w => buffer'[q] = buffer[q]
    BY DEF Drop, Sound, DataTypes
  <2> QED
    BY <1>1, <1>2, <2>1 DEF DequeOf, Filled, Item
<1>7. /\ DequeOf(w) \in Seq(Jobs) /\ Len(DequeOf(w)) = Filled(w) /\ Filled(w) \in 0..Capacity
      /\ DequeOf(w) = [i \in 1..Filled(w) |-> Item(w, blocked[w], i - 1)]
  BY <1>1, DequeSeq DEF DequeOf
<1>8. Dropped(w) = WS!Range(DequeOf(w))
  <2> DEFINE d == DequeOf(w)
             n == Filled(w)
  <2>1. DOMAIN d = 1..n /\ \A i \in 1..n : d[i] = Item(w, blocked[w], i - 1)
    BY <1>7
  <2>2. n \in Nat
    BY <1>7, CursorFacts
  <2> HIDE DEF d, n
  <2>3. ASSUME NEW k \in 0..(n - 1)
        PROVE  k + 1 \in DOMAIN d /\ d[k + 1] = Item(w, blocked[w], k)
    <3>1. k + 1 \in 1..n /\ (k + 1) - 1 = k
      BY <2>2
    <3> QED
      BY <2>1, <3>1
  <2>4. ASSUME NEW i \in DOMAIN d
        PROVE  i - 1 \in 0..(n - 1) /\ d[i] = Item(w, blocked[w], i - 1)
    BY <2>1, <2>2
  <2>5. {Item(w, blocked[w], k) : k \in 0..(n - 1)} = {d[i] : i \in DOMAIN d}
    BY <2>3, <2>4
  <2> QED
    BY <2>5 DEF d, n, Dropped, WS!Range
<1>9. CASE Filled(w) = 0
  <2>1. DequeOf(w) = <<>>
    BY <1>7, <1>9, EmptySeq
  <2>2. Dropped(w) = {}
    BY <1>9 DEF Dropped
  <2>3. \A q \in Workers : DequeOf(q)' = DequeOf(q) /\ FlightOf(q)' = FlightOf(q)
    BY <1>3, <1>4, <1>5, <1>6, <2>1
  <2>4. (out \cup Taken)' = out \cup Taken
    BY <1>1, <1>3, <1>4, <2>2
  <2> QED
    BY <1>1, <2>3, <2>4 DEF WS!wsVars
<1>10. CASE Filled(w) # 0
  <2>1. DequeOf(w) # <<>>
    BY <1>7, <1>10
  <2>2. [u \in Workers |-> FlightOf(u)]' = [u \in Workers |-> FlightOf(u)]
    BY <1>3, <1>4
  <2>3. [u \in Workers |-> DequeOf(u)]' = [[u \in Workers |-> DequeOf(u)] EXCEPT ![w] = <<>>]
    BY <1>5, <1>6
  <2>4. (out \cup Taken)' = (out \cup Taken) \cup WS!Range(DequeOf(w))
    BY <1>1, <1>3, <1>4, <1>8
  <2> QED
    BY <1>1, <1>3, <2>1, <2>2, <2>3, <2>4 DEF WS!Discard
<1> QED
  BY <1>9, <1>10

\* Another thread submits a job.
LEMMA MapSubmit ==
  ASSUME Sound, NEW x \in Jobs, Submit(x)
  PROVE  WS!Enqueue(x)
<1>1. /\ x \in out /\ out' = out \ {x} /\ shared' = Append(shared, x)
      /\ UNCHANGED <<tail, blocked, buffer, pc, local>>
  BY DEF Submit, anchors
<1>2. x \notin Taken
  <2>1. ~InCell(x)
    BY <1>1 DEF Sound, JobInv, KindInv
  <2> QED
    BY <2>1, TakenIs, AtSlot DEF InCell
<1>3. \A q \in Workers : DequeOf(q)' = DequeOf(q) /\ FlightOf(q)' = FlightOf(q)
  BY <1>1 DEF DequeOf, FlightOf, Filled, Item
<1>4. Taken' = Taken
  BY <1>1 DEF Taken, Item
<1>5. (out \cup Taken)' = (out \cup Taken) \ {x}
  BY <1>1, <1>2, <1>4
<1> QED
  BY <1>1, <1>3, <1>5 DEF WS!Enqueue

\* The steps in which an operation begins.
LEMMA MapOperation ==
  ASSUME Sound, Sound', NEW w \in Workers, Operation(w)
  PROVE  WS!WSNext \/ UNCHANGED WS!wsVars
<1>1. ASSUME NEW x \in Jobs, PushLoad(w, x) PROVE WS!WSNext
  <2>1. WS!Spawn(w, x)
    BY <1>1, MapPushLoad
  <2> QED
    BY <2>1 DEF WS!WSNext
<1>2. CASE PopLoad(w)
  <2>1. PICK p, l : Goto(w, p, l) /\ p \in {"dry", "pop_cas"}
    BY <1>2 DEF PopLoad, PopLook
  <2> QED
    BY <1>2, <2>1, MapAside DEF PopLoad, anchors, Publishing
<1>3. CASE PullLoad(w)
  <2>1. PICK l : Goto(w, "pull_drain", l)
    BY <1>3 DEF PullLoad
  <2> QED
    BY <1>3, <2>1, MapAside DEF PullLoad, anchors, Publishing
<1>4. ASSUME NEW v \in Workers, NEW max \in 1..Capacity, StealBegin(w, v, max)
      PROVE  UNCHANGED WS!wsVars
  <2>1. PICK l : Goto(w, "steal_load", l)
    BY <1>4 DEF StealBegin
  <2> QED
    BY <1>4, <2>1, MapAside DEF StealBegin, anchors, Publishing
<1>5. CASE Retry(w)
  BY <1>5, MapAside DEF Retry, Return, anchors, Publishing
<1>6. CASE Exit(w)
  BY <1>6, MapAside DEF Exit, Return, anchors, Publishing
<1>7. CASE Drop(w)
  <2>1. WS!Discard(w) \/ UNCHANGED WS!wsVars
    BY <1>7, MapDrop
  <2> QED
    BY <2>1 DEF WS!WSNext
<1> QED
  BY <1>1, <1>2, <1>3, <1>4, <1>5, <1>6, <1>7 DEF Operation

\* The steps that continue an operation.
LEMMA MapContinue ==
  ASSUME Sound, Sound', NEW w \in Workers, Continue(w)
  PROVE  WS!WSNext \/ UNCHANGED WS!wsVars
<1>1. CASE PushWrite(w)
  BY <1>1, MapPushWrite
<1>2. ASSUME PushPublish(w) \/ PullPublish(w) \/ StealBump(w)
      PROVE  WS!WSNext
  <2>1. /\ pc[w] \in Publishing \ {"steal_copy"} /\ PublishTail(w) /\ Return(w, "ready")
        /\ UNCHANGED <<blocked, buffer, shared, out>>
    BY <1>2 DEF PushPublish, PullPublish, StealBump, Publishing
  <2>2. WS!Publish(w)
    BY <2>1, MapPublish
  <2> QED
    BY <2>2 DEF WS!WSNext
<1>3. CASE Spill(w)
  <2>1. WS!SpillOver(w)
    BY <1>3, MapSpill
  <2> QED
    BY <2>1 DEF WS!WSNext
<1>4. CASE PopCas(w)
  <2>1. WS!PopNewest(w)
    BY <1>4, MapPopCas
  <2> QED
    BY <2>1 DEF WS!WSNext
<1>5. CASE PopRetry(w)
  <2>1. PICK p, l : Goto(w, p, l) /\ p \in {"dry", "pop_cas"}
    BY <1>5 DEF PopRetry, PopLook
  <2> QED
    BY <1>5, <2>1, MapAside DEF PopRetry, anchors, Publishing
<1>6. CASE PopTake(w)
  BY <1>6, MapPopTake
<1>7. CASE PullDrain(w)
  <2>1. \E n \in 1..Capacity : WS!Pull(w, n)
    BY <1>7, MapPullDrain
  <2> QED
    BY <2>1 DEF WS!WSNext
<1>8. CASE PullNothing(w)
  BY <1>8, MapAside DEF PullNothing, Return, anchors, Publishing
<1>9. CASE StealLoad(w)
  <2>1. PICK l : Goto(w, "steal_cas", l)
    BY <1>9 DEF StealLoad
  <2> QED
    BY <1>9, <2>1, MapAside DEF StealLoad, anchors, Publishing
<1>10. CASE StealEmpty(w)
  BY <1>10, MapAside DEF StealEmpty, Return, anchors, Publishing
<1>11. CASE StealCas(w)
  <2>1. \E v \in Workers, n \in 1..Capacity : WS!StealOldest(w, v, n)
    BY <1>11, MapStealCas
  <2> QED
    BY <2>1 DEF WS!WSNext
<1>12. CASE StealBusy(w)
  BY <1>12, MapAside DEF StealBusy, Return, anchors, Publishing
<1>13. CASE StealCopy(w)
  BY <1>13, MapStealCopy
<1>14. CASE StealPublish(w)
  BY <1>14, MapStealPublish
<1> QED
  BY <1>1, <1>2, <1>3, <1>4, <1>5, <1>6, <1>7, <1>8, <1>9, <1>10, <1>11, <1>12, <1>13, <1>14 DEF Continue

\* Every step of the rings is one of the deques.
LEMMA StepMaps ==
  ASSUME Sound, Sound', [Next]_vars
  PROVE  [WS!WSNext]_(WS!wsVars)
<1>1. ASSUME UNCHANGED vars PROVE UNCHANGED WS!wsVars
  <2>1. UNCHANGED <<tail, blocked, buffer, shared, out, pc, local>>
    BY <1>1 DEF vars
  <2>2. \A q \in Workers : DequeOf(q)' = DequeOf(q) /\ FlightOf(q)' = FlightOf(q)
    BY <2>1 DEF DequeOf, FlightOf, Filled, Item
  <2>3. Taken' = Taken
    BY <2>1 DEF Taken, Item
  <2> QED
    BY <2>1, <2>2, <2>3 DEF WS!wsVars
<1>2. ASSUME NEW x \in Jobs, Submit(x) PROVE WS!WSNext
  <2>1. WS!Enqueue(x)
    BY <1>2, MapSubmit
  <2> QED
    BY <2>1 DEF WS!WSNext
<1> QED
  BY <1>1, <1>2, MapOperation, MapContinue DEF Next, AllDropped

\* The rings begin empty.
LEMMA InitMaps == Init => WS!WSInit
<1> SUFFICES ASSUME Init PROVE WS!WSInit
  OBVIOUS
<1>1. \A w \in Workers : Filled(w) = 0 /\ pc[w] = "ready"
  BY WrapTypes, SubZero DEF Init, Filled, filled_slots
<1>2. (\A u \in Workers : FlightOf(u) = <<>>) /\ Taken = {}
  BY <1>1, MapAtRest DEF Publishing
<1>3. \A w \in Workers : DequeOf(w) = <<>>
  <2> SUFFICES ASSUME NEW w \in Workers PROVE DequeOf(w) = <<>>
    OBVIOUS
  <2>1. DequeOf(w) = [i \in 1..0 |-> Item(w, blocked[w], i - 1)]
    BY <1>1 DEF DequeOf
  <2> QED
    BY <2>1
<1> QED
  BY <1>2, <1>3 DEF Init, WS!WSInit

(***************************************************************************)
(* ImplementsWorkStealing: the rings, with their wrapping cursors, their   *)
(* CAS on the anchor and their copies between rings, are the deques of     *)
(* WorkStealing.                                                           *)
(***************************************************************************)
THEOREM RingsImplementDeques == Spec => ImplementsWorkStealing
<1>1. Init => WS!WSInit
  BY InitMaps
<1>2. Sound /\ Sound' /\ [Next]_vars => [WS!WSNext]_(WS!wsVars)
  BY StepMaps
<1>3. Sound <=> RingInv /\ DataTypes /\ JobInv
  BY DEF Sound
<1> QED
  BY <1>1, <1>2, <1>3, JobInvariance, PTL DEF Spec, ImplementsWorkStealing, WS!WSSpec
=============================================================================
