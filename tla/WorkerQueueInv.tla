--------------------------- MODULE WorkerQueueInv ---------------------------
(***************************************************************************)
(* The inductive invariants behind the safety of WorkerQueue: WorkersInv   *)
(* says where, on the ring that starts at `stolen`, every worker stands,   *)
(* JobInv where the jobs are.                                              *)
(***************************************************************************)
EXTENDS WorkerQueueRefinement

\* Slots of q that thieves have claimed and not yet released.
Claimed(q) == WrappingSub(blocked[q], stolen[q])

\* A thief between its CAS and the publication of `stolen`.
Claims(t) == pc[t] \in {"steal_copy", "steal_publish"}

\* How far behind `stolen` of its victim the claim of t begins.
Offset(t) == WrappingSub(local[t].blocked, stolen[local[t].victim])

\* Claimed, queued and reserved slots share one ring.
RoomInv == \A w \in Workers : Claimed(w) + Filled(w) + local[w].amount <= Capacity

\* What worker w, at p with locals l and tail t, relies on in its next step.
LocalOK(w, p, l, t) ==
  /\ p \in {"push_write", "push_publish", "pop_take"} => l.amount = 1
  /\ p \in {"push_write", "spill"} => l.job \in Jobs
  /\ p = "pop_cas" => WrappingSub(t, l.blocked) >= 1
  /\ p \in Stealing => l.victim # w
  /\ p = "steal_cas" => l.amount \in 1..WrappingSub(l.tail, l.blocked)
  /\ p \in {"steal_load", "steal_cas"} => l.copied = 0
  /\ p = "steal_copy" => l.copied < l.amount

LocalInv == \A w \in Workers : LocalOK(w, pc[w], local[w], tail[w])

\* The claims lie within the claimed slots and do not overlap ...
ClaimInv ==
  /\ \A t \in Workers : Claims(t) =>
       /\ local[t].amount >= 1
       /\ Offset(t) + local[t].amount <= Claimed(local[t].victim)
  /\ \A t, u \in Workers :
       t # u /\ Claims(t) /\ Claims(u) /\ local[t].victim = local[u].victim =>
         \/ Offset(t) + local[t].amount <= Offset(u)
         \/ Offset(u) + local[u].amount <= Offset(t)

\* ... and leave none of them out.
CoverInv ==
  \A v \in Workers : \A k \in 0..(Claimed(v) - 1) :
    \E t \in Workers : /\ Claims(t) /\ local[t].victim = v
                       /\ Offset(t) <= k /\ k < Offset(t) + local[t].amount

WorkersInv == TypeOK /\ RoomInv /\ LocalInv /\ ClaimInv /\ CoverInv
-----------------------------------------------------------------------------

\* The cursor c is one of the n cursors from a on.
InRun(c, a, n) == WrappingSub(c, a) < n

\* The cursors of ring q whose slots hold a job: those that are queued, those the
\* owner has filled and not yet published, the one it has popped and not yet
\* read, and those a thief has claimed and not yet copied.
Queued(q, c) == pc[q] # "dropped" /\ InRun(c, blocked[q], Filled(q))
Moved(q, c) == pc[q] \in Publishing /\ InRun(c, tail[q], local[q].copied)
Popped(q, c) == pc[q] = "pop_take" /\ c = tail[q]
Left(t, q, c) ==
  /\ pc[t] = "steal_copy" /\ local[t].victim = q
  /\ local[t].copied <= WrappingSub(c, local[t].blocked)
  /\ InRun(c, local[t].blocked, local[t].amount)

Held(q, c) == Queued(q, c) \/ Moved(q, c) \/ Popped(q, c) \/ \E t \in Workers : Left(t, q, c)

\* A slot holds a job exactly while one of those cursors is at it.
ContentInv ==
  /\ \A q \in Workers, c \in Cursor : Held(q, c) => buffer[q][Slot(c)] # NoJob
  /\ \A q \in Workers, s \in SlotIndex : buffer[q][s] # NoJob =>
       \E c \in Cursor : Held(q, c) /\ Slot(c) = s

\* A batch that is about to be published has been copied; a worker that looks
\* for jobs elsewhere has emptied its deque.
MoveOK(p, l) ==
  p \in Publishing \ {"steal_copy"} => l.copied = l.amount /\ l.amount >= 1

Searching == {"dry", "pull_drain", "steal_load", "steal_cas"}

MoveInv ==
  \A w \in Workers : MoveOK(pc[w], local[w]) /\ (pc[w] \in Searching => Filled(w) = 0)

\* Drop runs when every thread has been joined.
EndInv == \A w, u \in Workers : pc[w] = "dropped" => pc[u] \in {"exited", "dropped"}

\* The jobs by where they are; a worker that pushes carries one.
Carries(w) == pc[w] \in {"push_write", "spill"}
InShared(x) == \E i \in DOMAIN shared : shared[i] = x
InCarry(x) == \E w \in Workers : Carries(w) /\ local[w].job = x
InCell(x) == \E q \in Workers, s \in SlotIndex : buffer[q][s] = x

\* No two places have the same job ...
CellsOnce ==
  \A q, r \in Workers, s, u \in SlotIndex :
    buffer[q][s] = buffer[r][u] /\ buffer[q][s] # NoJob => q = r /\ s = u
SharedOnce == \A i, j \in DOMAIN shared : shared[i] = shared[j] => i = j
CarriesOnce ==
  \A w, u \in Workers : Carries(w) /\ Carries(u) /\ local[w].job = local[u].job => w = u

OnceInv == CellsOnce /\ SharedOnce /\ CarriesOnce

\* ... and every job is somewhere, in one of the four kinds of places.
KindInv ==
  /\ NoJob \notin out
  /\ \A x \in Jobs :
       /\ x \in out \/ InShared(x) \/ InCarry(x) \/ InCell(x)
       /\ x \in out => ~InShared(x) /\ ~InCarry(x) /\ ~InCell(x)
       /\ InShared(x) => ~InCarry(x) /\ ~InCell(x)
       /\ InCarry(x) => ~InCell(x)

(***************************************************************************)
(* A slot holds a job exactly while the job is queued, moved, popped or    *)
(* claimed there, and every job is in one place: what take_at and drop_at  *)
(* rely on when they read a slot without looking at it.                    *)
(***************************************************************************)
JobInv == ContentInv /\ MoveInv /\ EndInv /\ OnceInv /\ KindInv
=============================================================================
