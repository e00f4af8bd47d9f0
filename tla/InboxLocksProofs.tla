-------------------------- MODULE InboxLocksProofs --------------------------
(***************************************************************************)
(* Proofs about InboxLocks, for every number of workers and every program  *)
(* of nested batches: one publisher at a time, fair shares, closures used  *)
(* once, and the refinement of BatchInboxes.                               *)
(***************************************************************************)
EXTENDS InboxLocks, Subsequences, FiniteSetTheorems, SequenceTheorems, TLAPS

PCs == {"idle", "pop", "lock", "assign", "release", "rollback"}

Types ==
  /\ inbox \in [Members -> Seq(Jobs)]
  /\ owner \in [Members -> Threads \cup {NoThread}]
  /\ kept \in [Members -> Nat]
  /\ body \in [Threads -> Bodies]
  /\ pc \in [Threads -> PCs] /\ at \in [Threads -> Nat]
  /\ settled \subseteq Bodies
  /\ DOMAIN closure = Jobs

\* Where the loop over the inboxes is, and where the iterator is.
Loops ==
  \A t \in Threads :
    /\ pc[t] \in {"lock", "release", "rollback"} => at[t] \in Members
    /\ pc[t] = "assign" => at[t] <= Len(Batch[body[t]])
    /\ pc[t] = "pop" => t \in Members

\* The inboxes a thread has locked: a prefix of them, in index order.
Held(t, m) ==
  \/ pc[t] = "lock" /\ m < at[t]
  \/ pc[t] = "assign"
  \/ pc[t] \in {"release", "rollback"} /\ m <= at[t]

LockInv == \A t \in Threads, m \in Members : owner[m] = t <=> Held(t, m)

\* The jobs an inbox had when it was locked are still there.
KeptInv ==
  /\ \A m \in Members : owner[m] # NoThread => kept[m] <= Len(inbox[m])
  /\ \A t \in Threads, m \in Members :
       pc[t] = "lock" /\ owner[m] = t => kept[m] = Len(inbox[m])

Publishing(t) == pc[t] \in {"lock", "assign"}

\* A body publishes its batch once; when it is a job, it has been started.
BodyInv ==
  /\ \A t \in Threads : Publishing(t) =>
       body[t] \notin settled /\ (body[t] \in Jobs => Spent(closure[body[t]]))
  /\ \A t, u \in Threads : Publishing(t) /\ Publishing(u) /\ body[t] = body[u] => t = u
  /\ \A b \in settled : b \in Jobs => Spent(closure[b])

\* Only what the iterator of a batch has given exists.
MadeInv ==
  \A b \in Bodies : \A i \in DOMAIN Batch[b] :
    \/ closure[Batch[b][i]] = Unmade
    \/ b \in settled
    \/ \E t \in Threads : pc[t] = "assign" /\ body[t] = b /\ i <= at[t]

\* A job lies in one place of one inbox.
OnePlace ==
  \A m, n \in Members : \A i \in DOMAIN inbox[m], j \in DOMAIN inbox[n] :
    inbox[m][i] = inbox[n][j] => m = n /\ i = j

Queued(x) == \E m \in Members : x \in Range(inbox[m])

ClosureInv ==
  \A x \in Jobs :
    \/ Queued(x) /\ closure[x] = NewScoped(x \notin Boxed)
    \/ ~Queued(x) /\ (closure[x] = Unmade \/ Spent(closure[x]))

\* The turn in which the caller c assigns to inbox m.
Turn(c, m) == IF m = c THEN 0 ELSE IF m < c THEN m + 1 ELSE m

\* Who has had its turn in this round is one job ahead.
Share(c, m, n, q) ==
  IF c # Host /\ m = Host THEN 0
  ELSE IF Turn(c, m) < n % Participants(c) THEN q + 1 ELSE q

SharesInv ==
  \A t \in Threads : pc[t] = "assign" =>
    \E q \in Nat : \A m \in Members :
      Len(inbox[m]) - kept[m] = Share(CallerIndex(t), m, at[t], q)

\* The numbers of the jobs, of the first n of a batch, that t assigns to m.
Dealing(t, m, n) == {i \in 1..n : TargetOf(CallerIndex(t), i - 1) = m}

\* Behind the jobs that an inbox had lie those of this batch, in their order.
DealtInv ==
  \A t \in Threads : pc[t] = "assign" => \A m \in Members :
    inbox[m] = SubSeq(inbox[m], 1, kept[m]) \o Pick(Batch[body[t]], Dealing(t, m, at[t]))

IInv ==
  /\ Types /\ Loops /\ LockInv /\ KeptInv /\ BodyInv /\ MadeInv /\ OnePlace
  /\ ClosureInv /\ SharesInv /\ FairShares /\ DealtInv
-----------------------------------------------------------------------------
(***************************************************************************)
(* The constants.                                                          *)
(***************************************************************************)
LEMMA Ids ==
  /\ N \in Nat \ {0} /\ Members = 0..N /\ Threads = 0..(N + 1)
  /\ Members \subseteq Threads /\ Threads \subseteq Int /\ NoThread \notin Threads
  /\ 0 \in Members /\ N \in Members
  /\ \A t \in Threads : CallerIndex(t) \in Members
  BY InboxAssumption DEF Members, Threads, CallerIndex, Helper

\* The jobs of a batch are bodies, and every job is a job of some batch.
LEMMA Data ==
  /\ Jobs \subseteq Bodies
  /\ \A b \in Bodies : Batch[b] \in Seq(Jobs)
  /\ \A x \in Jobs : \E b \in Bodies : \E i \in DOMAIN Batch[b] : x = Batch[b][i]
  <1>1. \A b \in Bodies : Batch[b] \in Seq(Bodies)
    BY InboxAssumption
  <1>2. ASSUME NEW b \in Bodies, NEW i \in DOMAIN Batch[b] PROVE Batch[b][i] \in Jobs \cap Bodies
    <2>1. Batch[b][i] \in Range(Batch[b])
      BY DEF Range
    <2>2. Batch[b][i] \in Bodies
      BY <1>1
    <2> QED
      BY <2>1, <2>2 DEF Jobs
  <1>3. ASSUME NEW x \in Jobs PROVE \E b \in Bodies : \E i \in DOMAIN Batch[b] : x = Batch[b][i]
    BY DEF Jobs, Range
  <1>4. ASSUME NEW b \in Bodies PROVE Batch[b] \in Seq(Jobs)
    <2>1. Batch[b] \in Seq(Bodies) /\ \A i \in DOMAIN Batch[b] : Batch[b][i] \in Jobs
      BY <1>1, <1>2
    <2> QED
      BY <2>1
  <1> QED
    BY <1>2, <1>3, <1>4

\* A job is one closure: it is one job of one batch.
LEMMA Apart ==
  ASSUME NEW b \in Bodies, NEW c \in Bodies, NEW i \in DOMAIN Batch[b], NEW j \in DOMAIN Batch[c],
         Batch[b][i] = Batch[c][j]
  PROVE  b = c /\ i = j
  BY InboxAssumption
-----------------------------------------------------------------------------
(***************************************************************************)
(* The round of turns.                                                     *)
(***************************************************************************)
\* One more job, and it is the next one's turn.
LEMMA NextTurn ==
  ASSUME NEW a \in Nat, NEW p \in Nat \ {0}
  PROVE  /\ a % p \in 0..(p - 1)
         /\ (a + 1) % p = IF (a % p) + 1 = p THEN 0 ELSE (a % p) + 1
  <1> DEFINE r == a % p
             s == (a + 1) % p
             x == a \div p
             y == (a + 1) \div p
  <1>1. a = p * x + r /\ x \in Int /\ r \in 0..(p - 1)
    OBVIOUS
  <1>2. a + 1 = p * y + s /\ y \in Int /\ s \in 0..(p - 1)
    <2> DEFINE b == a + 1
    <2>1. b \in Nat
      OBVIOUS
    <2> HIDE DEF b
    <2>2. b = p * (b \div p) + (b % p) /\ (b \div p) \in Int /\ (b % p) \in 0..(p - 1)
      BY <2>1
    <2> QED
      BY <2>2 DEF b
  <1> HIDE DEF r, s, x, y
  <1>3. p * (y - x) = r + 1 - s
    <2>1. p * (y - x) = p * y - p * x
      BY <1>1, <1>2
    <2>2. p * y \in Int /\ p * x \in Int
      BY <1>1, <1>2
    <2> QED
      BY <1>1, <1>2, <2>1, <2>2
  <1> DEFINE d == y - x
  <1>4. d \in Int /\ p * d = r + 1 - s
    BY <1>1, <1>2, <1>3
  <1> HIDE DEF d
  <1>5. d \in {0, 1}
    <2>1. CASE d >= 2
      <3>1. p * d >= p * 2
        BY <1>4, <2>1
      <3> QED
        BY <3>1, <1>1, <1>2, <1>4
    <2>2. CASE d <= -1
      <3>1. p * d <= -p
        BY <1>4, <2>2
      <3> QED
        BY <3>1, <1>1, <1>2, <1>4
    <2> QED
      BY <1>4, <2>1, <2>2
  <1>6. p * d = IF d = 0 THEN 0 ELSE p
    BY <1>5
  <1>7. s = IF r + 1 = p THEN 0 ELSE r + 1
    BY <1>1, <1>2, <1>4, <1>5, <1>6
  <1> QED
    BY <1>1, <1>7 DEF r, s

\* TargetOf gives inbox m exactly in its turn, and the inactive host never.
LEMMA Target ==
  ASSUME NEW c \in Members, NEW i \in Nat
  PROVE  /\ TargetOf(c, i) \in Members
         /\ Participants(c) \in Nat \ {0}
         /\ c # Host => TargetOf(c, i) # Host
         /\ \A m \in Members : m = TargetOf(c, i) <=>
              Turn(c, m) = i % Participants(c) /\ (c # Host => m # Host)
         /\ \A m \in Members : (c # Host => m # Host) => Turn(c, m) \in 0..(Participants(c) - 1)
  <1> DEFINE p == Participants(c)
             r == i % p
  <1>1. p \in Nat \ {0} /\ p = IF c = N THEN N + 1 ELSE N
    BY Ids DEF Participants, Host
  <1>2. r \in 0..(p - 1)
    <2> HIDE DEF p
    <2> QED
      BY <1>1, NextTurn
  <1>3. TargetOf(c, i) = IF r = 0 THEN c ELSE IF r <= c THEN r - 1 ELSE r
    BY DEF TargetOf
  <1> HIDE DEF p, r
  <1>4. c \in 0..N
    BY Ids
  <1>5. \A m \in Members : m \in 0..N
    BY Ids
  <1>0. N \in Nat \ {0} /\ Members = 0..N
    BY Ids
  <1>6. TargetOf(c, i) \in Members /\ (c # Host => TargetOf(c, i) # Host)
    BY <1>0, <1>1, <1>2, <1>3, <1>4 DEF Host
  <1>7. ASSUME NEW m \in Members
        PROVE  /\ m = TargetOf(c, i) <=> Turn(c, m) = r /\ (c # Host => m # Host)
               /\ (c # Host => m # Host) => Turn(c, m) \in 0..(p - 1)
    BY <1>1, <1>2, <1>3, <1>4, <1>5 DEF Turn, Host
  <1> QED
    BY <1>1, <1>6, <1>7 DEF p, r
-----------------------------------------------------------------------------
(***************************************************************************)
(* What the operations on an inbox keep.                                   *)
(***************************************************************************)
LEMMA TailKeeps ==
  ASSUME NEW S, NEW s \in Seq(S), s # <<>>
  PROVE  /\ Tail(s) \in Seq(S) /\ Head(s) \in S /\ Head(s) = s[1]
         /\ Len(s) \in Nat \ {0} /\ Len(Tail(s)) = Len(s) - 1
         /\ \A i \in 1..(Len(s) - 1) : Tail(s)[i] = s[i + 1]
  <1>1. Len(s) \in Nat \ {0}
    OBVIOUS
  <1> QED
    BY <1>1

\* push puts its job behind the others.
LEMMA AppendKeeps ==
  ASSUME NEW S, NEW s \in Seq(S), NEW x \in S
  PROVE  /\ Append(s, x) \in Seq(S)
         /\ Len(Append(s, x)) = Len(s) + 1 /\ Len(s) \in Nat
         /\ \A i \in 1..Len(s) : Append(s, x)[i] = s[i]
         /\ Append(s, x)[Len(s) + 1] = x
  OBVIOUS

\* Vec::truncate.
LEMMA PrefixKeeps ==
  ASSUME NEW S, NEW s \in Seq(S), NEW n \in Nat, n <= Len(s)
  PROVE  /\ SubSeq(s, 1, n) \in Seq(S) /\ Len(SubSeq(s, 1, n)) = n
         /\ \A i \in 1..n : SubSeq(s, 1, n)[i] = s[i]
         /\ n = Len(s) => SubSeq(s, 1, n) = s
  <1> DEFINE l == Len(s)
             a == SubSeq(s, 1, n)
  <1>1. l \in Nat /\ DOMAIN s = 1..l /\ n <= l
    OBVIOUS
  <1>2. /\ a \in Seq(S) /\ Len(a) = n
        /\ \A i \in 1..n : a[i] = s[i]
    BY <1>1
  <1>3. n = l => a = s
    <2> HIDE DEF a, l
    <2> SUFFICES ASSUME n = l PROVE a = s
      OBVIOUS
    <2>1. Len(a) = Len(s) /\ \A i \in 1..Len(a) : a[i] = s[i]
      BY <1>2 DEF l
    <2> QED
      BY <1>2, <2>1, SeqEqual
  <1> QED
    BY <1>2, <1>3

\* A sequence is its elements.
LEMMA SameSeq ==
  ASSUME NEW S, NEW s \in Seq(S), NEW r \in Seq(S), Len(s) = Len(r),
         \A i \in 1..Len(s) : s[i] = r[i]
  PROVE  s = r
  BY SeqEqual

\* What is pushed does not touch the jobs that were there.
LEMMA PrefixOfAppend ==
  ASSUME NEW S, NEW s \in Seq(S), NEW x \in S, NEW n \in Nat, n <= Len(s)
  PROVE  SubSeq(Append(s, x), 1, n) = SubSeq(s, 1, n)
  <1> DEFINE r == Append(s, x)
             a == SubSeq(s, 1, n)
             b == SubSeq(r, 1, n)
  <1>1. /\ r \in Seq(S) /\ Len(r) = Len(s) + 1 /\ Len(s) \in Nat
        /\ \A i \in 1..Len(s) : r[i] = s[i]
    BY AppendKeeps
  <1> HIDE DEF r
  <1>2. n <= Len(r) /\ \A i \in 1..n : i \in 1..Len(s)
    BY <1>1
  <1>3. a \in Seq(S) /\ Len(a) = n /\ \A i \in 1..n : a[i] = s[i]
    BY PrefixKeeps
  <1>4. b \in Seq(S) /\ Len(b) = n /\ \A i \in 1..n : b[i] = r[i]
    BY <1>1, <1>2, PrefixKeeps
  <1> HIDE DEF a, b
  <1>5. \A i \in 1..n : b[i] = a[i]
    BY <1>1, <1>2, <1>3, <1>4
  <1>6. a = b
    BY <1>3, <1>4, <1>5, SameSeq
  <1> QED
    BY <1>6 DEF a, b, r
-----------------------------------------------------------------------------
(***************************************************************************)
(* The steps of a thread that does not publish.                            *)
(***************************************************************************)
Takes(t, m) == pc[t] \in {"idle", "pop"} /\ owner[m] = NoThread /\ TakeAndRun(t, m)

Rests(t) ==
  /\ pc[t] \in {"idle", "pop"}
  /\ Goto(t, "idle", 0) \/ (t \in Members /\ Goto(t, "pop", 0))
  /\ UNCHANGED <<inbox, owner, kept, body, settled, taken, closure>>

\* The steps of a thread, those that take a job as one kind.
LEMMA Kinds ==
  ASSUME Loops, NEW t \in Threads, Step(t)
  PROVE  \/ LockNext(t) \/ Assign(t) \/ Assigned(t) \/ IteratorPanics(t) \/ Release(t)
         \/ Rests(t) \/ \E m \in Members : Takes(t, m)
  <1>1. CASE Look(t)
    BY <1>1 DEF Look, Rests
  <1>2. CASE PopNothing(t)
    BY <1>2 DEF PopNothing, Rests
  <1>3. CASE Pop(t)
    <2>1. t \in Members /\ Takes(t, t)
      BY <1>3 DEF Pop, Takes, Loops
    <2> QED
      BY <2>1
  <1>4. CASE \E v \in Members : Steal(t, v)
    <2>1. PICK v \in Members : Steal(t, v)
      BY <1>4
    <2>2. Takes(t, v)
      BY <2>1 DEF Steal, Takes
    <2> QED
      BY <2>2
  <1> QED
    BY <1>1, <1>2, <1>3, <1>4 DEF Step

\* Only t moves.
Foot(t) ==
  /\ DOMAIN pc' = Threads /\ DOMAIN at' = Threads
  /\ \A u \in Threads \ {t} : pc'[u] = pc[u] /\ at'[u] = at[u] /\ body'[u] = body[u]

\* A step of one thread leaves the others where they are.
LEMMA Moves ==
  ASSUME Types, NEW t \in Threads, Step(t)
  PROVE  Foot(t)
  <1>1. pc \in [Threads -> PCs] /\ at \in [Threads -> Nat] /\ body \in [Threads -> Bodies]
    BY DEF Types
  <1>2. \A p, i : Goto(t, p, i) /\ body' = body => Foot(t)
    BY <1>1 DEF Goto, Foot
  <1>3. ASSUME NEW m \in Members, TakeAndRun(t, m) PROVE Foot(t)
    BY <1>1, <1>3 DEF TakeAndRun, Goto, Foot
  <1>4. CASE LockNext(t)
    BY <1>2, <1>4 DEF LockNext
  <1>5. CASE Assign(t)
    BY <1>2, <1>5 DEF Assign
  <1>6. CASE Assigned(t) \/ IteratorPanics(t)
    BY <1>2, <1>6 DEF Assigned, IteratorPanics
  <1>7. CASE Release(t)
    BY <1>2, <1>7 DEF Release
  <1>8. CASE Look(t) \/ PopNothing(t)
    BY <1>2, <1>8 DEF Look, PopNothing
  <1>9. CASE Pop(t)
    <2>1. TakeAndRun(t, t)
      BY <1>9 DEF Pop
    <2> QED
      BY <1>1, <2>1 DEF TakeAndRun, Goto, Foot
  <1>10. CASE \E v \in Members : Steal(t, v)
    BY <1>3, <1>10 DEF Steal
  <1> QED
    BY <1>4, <1>5, <1>6, <1>7, <1>8, <1>9, <1>10 DEF Step
-----------------------------------------------------------------------------
(***************************************************************************)
(* Types and locks.                                                        *)
(***************************************************************************)
LEMMA Goes ==
  ASSUME Types, NEW t \in Threads, NEW p \in PCs, NEW i \in Nat, Goto(t, p, i)
  PROVE  /\ pc' \in [Threads -> PCs] /\ at' \in [Threads -> Nat]
         /\ pc'[t] = p /\ at'[t] = i
  BY DEF Types, Goto

\* What the iterator gives next.
LEMMA NextJob ==
  ASSUME Types, Loops, NEW t \in Threads, Assign(t)
  PROVE  /\ at[t] \in Nat /\ at[t] + 1 \in DOMAIN Batch[body[t]] /\ body[t] \in Bodies
         /\ Batch[body[t]] \in Seq(Jobs)
         /\ Batch[body[t]][at[t] + 1] \in Jobs
         /\ TargetOf(CallerIndex(t), at[t]) \in Members
  <1>1. at[t] \in Nat /\ body[t] \in Bodies /\ at[t] < Len(Batch[body[t]])
    BY DEF Types, Assign
  <1>2. Batch[body[t]] \in Seq(Jobs)
    BY <1>1, Data
  <1> DEFINE s == Batch[body[t]]
             k == at[t] + 1
  <1>3. k \in DOMAIN s /\ s[k] \in Jobs
    <2>1. Len(s) \in Nat /\ DOMAIN s = 1..Len(s)
      BY <1>2
    <2>2. k \in 1..Len(s)
      BY <1>1, <2>1
    <2> QED
      BY <1>2, <2>1, <2>2
  <1>4. CallerIndex(t) \in Members
    BY Ids
  <1>5. TargetOf(CallerIndex(t), at[t]) \in Members
    BY <1>1, <1>4, Target
  <1> QED
    BY <1>1, <1>2, <1>3, <1>5

\* What a frame leaves in its inbox.
Left(t) == IF pc[t] = "release" THEN inbox[at[t]] ELSE SubSeq(inbox[at[t]], 1, kept[at[t]])

\* A frame leaves the front of its inbox, at least the jobs it found there.
LEMMA LeftKeeps ==
  ASSUME Types, Loops, LockInv, KeptInv, NEW t \in Threads, Release(t)
  PROVE  /\ at[t] \in Members /\ at[t] \in 0..N /\ owner[at[t]] = t
         /\ inbox[at[t]] \in Seq(Jobs) /\ kept[at[t]] \in Nat /\ kept[at[t]] <= Len(inbox[at[t]])
         /\ Left(t) \in Seq(Jobs) /\ Len(Left(t)) <= Len(inbox[at[t]]) /\ Len(Left(t)) \in Nat
         /\ \A i \in 1..Len(Left(t)) : Left(t)[i] = inbox[at[t]][i]
         /\ inbox' = [inbox EXCEPT ![at[t]] = Left(t)]
         /\ closure' = [x \in Jobs |-> IF x \in Range(inbox[at[t]]) \ Range(Left(t))
                                      THEN DropUnrun(closure[x]) ELSE closure[x]]
  <1> DEFINE m == at[t]
             s == inbox[m]
             k == kept[m]
  <1>1. pc[t] \in {"release", "rollback"} /\ m \in Members
    BY DEF Release, Loops
  <1>2. m \in 0..N
    BY <1>1, Ids
  <1>3. Held(t, m)
    BY <1>1, <1>2 DEF Held
  <1>4. owner[m] = t /\ t # NoThread
    BY <1>1, <1>3, Ids DEF LockInv
  <1>5. s \in Seq(Jobs) /\ k \in Nat /\ k <= Len(s) /\ Len(s) \in Nat
    BY <1>1, <1>4 DEF Types, KeptInv
  <1>6. /\ SubSeq(s, 1, k) \in Seq(Jobs) /\ Len(SubSeq(s, 1, k)) = k
        /\ \A i \in 1..k : SubSeq(s, 1, k)[i] = s[i]
    BY <1>5, PrefixKeeps
  <1>7. Left(t) = IF pc[t] = "release" THEN s ELSE SubSeq(s, 1, k)
    BY DEF Left
  <1>8. /\ Left(t) \in Seq(Jobs) /\ Len(Left(t)) <= Len(s) /\ Len(Left(t)) \in Nat
        /\ \A i \in 1..Len(Left(t)) : Left(t)[i] = s[i]
    <2>1. CASE pc[t] = "release"
      BY <1>5, <1>7, <2>1
    <2>2. CASE pc[t] # "release"
      <3>1. Left(t) = SubSeq(s, 1, k)
        BY <1>7, <2>2
      <3> QED
        BY <1>5, <1>6, <3>1
    <2> QED
      BY <2>1, <2>2
  <1>9. /\ inbox' = [inbox EXCEPT ![m] = Left(t)]
        /\ closure' = [x \in Jobs |-> IF x \in Range(s) \ Range(Left(t))
                                     THEN DropUnrun(closure[x]) ELSE closure[x]]
    BY DEF Release, Releases, Truncated, Left
  <1> QED
    BY <1>1, <1>2, <1>4, <1>5, <1>8, <1>9

\* Every step keeps the types.
LEMMA TypesStep ==
  ASSUME Types, Loops, LockInv, KeptInv, NEW t \in Threads, Step(t)
  PROVE  Types'
  <1>0. N \in Nat \ {0} /\ Members = 0..N
    BY Ids
  <1>1. CASE LockNext(t)
    <2>1. at[t] \in Members /\ at[t] \in Nat
      BY <1>0, <1>1 DEF LockNext, Loops
    <2>2. Len(inbox[at[t]]) \in Nat
      BY <2>1 DEF Types
    <2>3. pc' \in [Threads -> PCs] /\ at' \in [Threads -> Nat]
      <3>1. CASE at[t] = N
        BY <1>1, <3>1, Goes DEF LockNext, PCs
      <3>2. CASE at[t] # N
        BY <1>1, <2>1, <3>2, Goes DEF LockNext, PCs
      <3> QED
        BY <3>1, <3>2
    <2>4. owner' \in [Members -> Threads \cup {NoThread}] /\ kept' \in [Members -> Nat]
      BY <1>1, <2>1, <2>2 DEF LockNext, LockOrder, Types
    <2> QED
      BY <1>1, <2>3, <2>4 DEF LockNext, Types
  <1>2. CASE Assign(t)
    <2> DEFINE x == Batch[body[t]][at[t] + 1]
               m == TargetOf(CallerIndex(t), at[t])
    <2>1. x \in Jobs /\ m \in Members /\ at[t] \in Nat
      BY <1>2, NextJob
    <2>2. Append(inbox[m], x) \in Seq(Jobs)
      BY <2>1, AppendKeeps DEF Types
    <2>3. /\ inbox' = [inbox EXCEPT ![m] = Append(inbox[m], x)]
          /\ closure' = [closure EXCEPT ![x] = NewScoped(x \notin Boxed)]
          /\ Goto(t, "assign", at[t] + 1) /\ UNCHANGED <<owner, kept, body, settled, taken>>
      BY <1>2 DEF Assign
    <2> HIDE DEF x, m
    <2> QED
      BY <2>1, <2>2, <2>3 DEF Goto, Types, PCs
  <1>3. CASE Assigned(t) \/ IteratorPanics(t)
    BY <1>0, <1>3 DEF Assigned, IteratorPanics, Goto, Types, PCs
  <1>4. CASE Release(t)
    <2>1. /\ at[t] \in 0..N /\ Left(t) \in Seq(Jobs) /\ at[t] \in Members
          /\ inbox' = [inbox EXCEPT ![at[t]] = Left(t)]
      BY <1>4, LeftKeeps
    <2>2. at[t] = 0 \/ at[t] - 1 \in Nat
      BY <1>0, <2>1
    <2>3. inbox' \in [Members -> Seq(Jobs)]
      BY <2>1 DEF Types
    <2>4. DOMAIN closure' = Jobs
      BY <1>4 DEF Release
    <2>5. pc' \in [Threads -> PCs] /\ at' \in [Threads -> Nat]
      BY <1>4, <2>2 DEF Release, Goto, Types, PCs
    <2>6. owner' \in [Members -> Threads \cup {NoThread}]
      BY <1>4 DEF Release, Types
    <2> QED
      BY <1>4, <2>3, <2>4, <2>5, <2>6 DEF Types, Release
  <1>5. CASE Rests(t)
    <2>1. pc' \in [Threads -> PCs] /\ at' \in [Threads -> Nat]
      BY <1>5, Goes DEF Rests, PCs
    <2> QED
      BY <1>5, <2>1 DEF Rests, Types
  <1>6. ASSUME NEW m \in Members, Takes(t, m) PROVE Types'
    <2>1. inbox[m] \in Seq(Jobs) /\ inbox[m] # <<>>
      BY <1>6 DEF Types, Takes, TakeAndRun
    <2>2. Tail(inbox[m]) \in Seq(Jobs) /\ Head(inbox[m]) \in Jobs /\ Head(inbox[m]) \in Bodies
      BY <2>1, TailKeeps, Data
    <2>3. body' \in [Threads -> Bodies]
      BY <1>6, <2>2 DEF Types, Takes, TakeAndRun
    <2>4. inbox' \in [Members -> Seq(Jobs)] /\ DOMAIN closure' = Jobs
      BY <1>6, <2>2 DEF Types, Takes, TakeAndRun
    <2>5. pc' \in [Threads -> PCs] /\ at' \in [Threads -> Nat]
      BY <1>6, Goes DEF Takes, TakeAndRun, PCs
    <2> QED
      BY <1>6, <2>3, <2>4, <2>5 DEF Types, Takes, TakeAndRun
  <1> QED
    BY <1>1, <1>2, <1>3, <1>4, <1>5, <1>6, Kinds

\* The index of with_batch_inboxes stays within the inboxes.
LEMMA LoopsStep ==
  ASSUME Types, Loops, NEW t \in Threads, Step(t)
  PROVE  Loops'
  <1>0. N \in Nat \ {0} /\ Members = 0..N
    BY Ids
  <1>1. Foot(t)
    BY Moves
  <1>2. pc \in [Threads -> PCs] /\ at \in [Threads -> Nat] /\ body \in [Threads -> Bodies]
    BY DEF Types
  <1> DEFINE Here == /\ pc'[t] \in {"lock", "release", "rollback"} => at'[t] \in Members
                     /\ pc'[t] = "assign" => at'[t] <= Len(Batch[body'[t]])
                     /\ pc'[t] = "pop" => t \in Members
  <1>3. ASSUME LockNext(t) PROVE Here
    <2>1. at[t] \in Members
      BY <1>3 DEF LockNext, Loops
    <2>2. at[t] # N => at[t] + 1 \in Members
      BY <1>0, <2>1
    <2>3. 0 <= Len(Batch[body[t]])
      <3>1. Batch[body[t]] \in Seq(Jobs)
        BY <1>2, Data
      <3> QED
        BY <3>1
    <2> QED
      BY <1>2, <1>3, <2>2, <2>3 DEF LockNext, Goto
  <1>4. ASSUME Assign(t) PROVE Here
    <2>1. at[t] + 1 \in DOMAIN Batch[body[t]] /\ Batch[body[t]] \in Seq(Jobs)
      BY <1>4, NextJob
    <2>2. at[t] + 1 <= Len(Batch[body[t]])
      BY <2>1
    <2> QED
      BY <1>2, <1>4, <2>2 DEF Assign, Goto
  <1>5. ASSUME Assigned(t) \/ IteratorPanics(t) PROVE Here
    BY <1>0, <1>2, <1>5 DEF Assigned, IteratorPanics, Goto
  <1>6. ASSUME Release(t) PROVE Here
    <2>1. at[t] \in Members /\ pc[t] \in {"release", "rollback"}
      BY <1>6 DEF Release, Loops
    <2>2. at[t] # 0 => at[t] - 1 \in Members
      BY <1>0, <2>1
    <2> QED
      BY <1>2, <1>6, <2>1, <2>2 DEF Release, Goto
  <1>7. ASSUME Rests(t) PROVE Here
    BY <1>2, <1>7 DEF Rests, Goto
  <1>8. ASSUME NEW m \in Members, Takes(t, m) PROVE Here
    BY <1>0, <1>2, <1>8 DEF Takes, TakeAndRun, Goto
  <1>9. Here
    BY <1>3, <1>4, <1>5, <1>6, <1>7, <1>8, Kinds
  <1> QED
    BY <1>1, <1>9 DEF Foot, Loops

\* Locks are taken upwards and released downwards, one at a time.
LEMMA LockStep ==
  ASSUME Types, Loops, LockInv, NEW t \in Threads, Step(t)
  PROVE  LockInv'
  <1>0. N \in Nat \ {0} /\ Members = 0..N /\ NoThread \notin Threads
    BY Ids
  <1>1. \A u \in Threads \ {t} : pc'[u] = pc[u] /\ at'[u] = at[u]
    BY Moves DEF Foot
  <1>2. \A u \in Threads \ {t}, m \in Members : Held(u, m)' <=> Held(u, m)
    BY <1>1 DEF Held
  <1>3. pc \in [Threads -> PCs] /\ at \in [Threads -> Nat] /\ owner \in [Members -> Threads \cup {NoThread}]
    BY DEF Types
  <1>4. \A u \in Threads, m \in Members : owner[m] = u <=> Held(u, m)
    BY DEF LockInv
  <1>5. CASE LockNext(t)
    <2>1. /\ pc[t] = "lock" /\ at[t] \in 0..N /\ owner[at[t]] = NoThread
          /\ owner' = [owner EXCEPT ![at[t]] = t]
          /\ pc'[t] = IF at[t] = N THEN "assign" ELSE "lock"
          /\ at'[t] = IF at[t] = N THEN 0 ELSE at[t] + 1
      BY <1>0, <1>3, <1>5 DEF LockNext, LockOrder, Goto, Loops
    <2>2. \A m \in Members : owner'[m] = IF m = at[t] THEN t ELSE owner[m]
      BY <1>3, <2>1
    <2>3. ASSUME NEW m \in Members PROVE Held(t, m)' <=> m = at[t] \/ Held(t, m)
      <3>1. Held(t, m) <=> m < at[t]
        BY <2>1 DEF Held
      <3>2. CASE at[t] = N
        <4>1. Held(t, m)'
          BY <2>1, <3>2 DEF Held
        <4>2. m = at[t] \/ m < at[t]
          BY <1>0, <2>1, <3>2
        <4> QED
          BY <3>1, <4>1, <4>2
      <3>3. CASE at[t] # N
        <4>1. Held(t, m)' <=> m < at[t] + 1
          BY <2>1, <3>3 DEF Held
        <4>2. m < at[t] + 1 <=> m = at[t] \/ m < at[t]
          BY <1>0, <2>1
        <4> QED
          BY <3>1, <4>1, <4>2
      <3> QED
        BY <3>2, <3>3
    <2>4. ASSUME NEW u \in Threads, NEW m \in Members PROVE owner'[m] = u <=> Held(u, m)'
      <3>1. CASE u = t
        BY <1>4, <2>2, <2>3, <3>1
      <3>2. CASE u # t
        <4>1. m = at[t] => ~Held(u, m)
          BY <1>0, <1>4, <2>1
        <4> QED
          BY <1>2, <1>4, <2>2, <3>2, <4>1
      <3> QED
        BY <3>1, <3>2
    <2> QED
      BY <2>4 DEF LockInv
  <1>6. CASE Assign(t) \/ Assigned(t) \/ IteratorPanics(t)
    <2>1. owner' = owner /\ pc[t] = "assign"
      BY <1>6 DEF Assign, Assigned, IteratorPanics
    <2>2. pc'[t] = "assign" \/ (pc'[t] \in {"release", "rollback"} /\ at'[t] = N)
      BY <1>3, <1>6 DEF Assign, Assigned, IteratorPanics, Goto
    <2>3. \A m \in Members : m <= N
      BY <1>0
    <2>4. \A m \in Members : Held(t, m) /\ Held(t, m)'
      BY <2>1, <2>2, <2>3 DEF Held
    <2>5. \A u \in Threads, m \in Members : Held(u, m)' <=> Held(u, m)
      BY <1>2, <2>4
    <2> QED
      BY <1>4, <2>1, <2>5 DEF LockInv
  <1>7. CASE Release(t)
    <2>1. /\ pc[t] \in {"release", "rollback"} /\ at[t] \in 0..N
          /\ owner' = [owner EXCEPT ![at[t]] = NoThread]
          /\ pc'[t] = IF at[t] = 0 THEN "idle" ELSE pc[t]
          /\ at'[t] = IF at[t] = 0 THEN 0 ELSE at[t] - 1
      BY <1>0, <1>3, <1>7 DEF Release, Releases, Goto, Loops
    <2>2. \A m \in Members : owner'[m] = IF m = at[t] THEN NoThread ELSE owner[m]
      BY <1>3, <2>1
    <2>3. ASSUME NEW m \in Members PROVE Held(t, m)' <=> m # at[t] /\ Held(t, m)
      <3>1. Held(t, m) <=> m <= at[t]
        BY <2>1 DEF Held
      <3>2. CASE at[t] = 0
        <4>1. ~Held(t, m)'
          BY <2>1, <3>2 DEF Held
        <4>2. m <= at[t] => m = at[t]
          BY <1>0, <3>2
        <4> QED
          BY <3>1, <4>1, <4>2
      <3>3. CASE at[t] # 0
        <4>1. Held(t, m)' <=> m <= at[t] - 1
          BY <2>1, <3>3 DEF Held
        <4>2. m <= at[t] - 1 <=> m # at[t] /\ m <= at[t]
          BY <1>0, <2>1
        <4> QED
          BY <3>1, <4>1, <4>2
      <3> QED
        BY <3>2, <3>3
    <2>4. owner[at[t]] = t
      <3>1. at[t] \in Members /\ Held(t, at[t])
        BY <1>0, <2>1 DEF Held
      <3> QED
        BY <1>4, <3>1
    <2>5. ASSUME NEW u \in Threads, NEW m \in Members PROVE owner'[m] = u <=> Held(u, m)'
      <3>1. CASE u = t
        BY <1>0, <1>4, <2>2, <2>3, <3>1
      <3>2. CASE u # t
        <4>1. m = at[t] => ~Held(u, m)
          BY <1>4, <2>4, <3>2
        <4> QED
          BY <1>0, <1>2, <1>4, <2>2, <3>2, <4>1
      <3> QED
        BY <3>1, <3>2
    <2> QED
      BY <2>5 DEF LockInv
  <1>8. ASSUME owner' = owner, pc[t] \in {"idle", "pop"},
               pc'[t] \in {"idle", "pop"} \/ (pc'[t] = "lock" /\ at'[t] = 0)
        PROVE  LockInv'
    <2>1. \A m \in Members : ~(m < 0)
      BY <1>0
    <2>2. \A m \in Members : ~Held(t, m) /\ ~Held(t, m)'
      BY <1>8, <2>1 DEF Held
    <2>3. \A u \in Threads, m \in Members : Held(u, m)' <=> Held(u, m)
      BY <1>2, <2>2
    <2> QED
      BY <1>4, <1>8, <2>3 DEF LockInv
  <1>9. CASE Rests(t)
    BY <1>3, <1>8, <1>9 DEF Rests, Goto
  <1>10. ASSUME NEW m \in Members, Takes(t, m) PROVE LockInv'
    BY <1>3, <1>8, <1>10 DEF Takes, TakeAndRun, Goto
  <1> QED
    BY <1>5, <1>6, <1>7, <1>9, <1>10, Kinds

\* Whoever holds an inbox holds the first one.
LEMMA HolderHoldsFirst ==
  ASSUME Types, Loops, LockInv, NEW t \in Threads, NEW m \in Members, owner[m] = t
  PROVE  owner[0] = t
  <1>1. 0 \in Members /\ m \in 0..N /\ N \in Nat
    BY Ids
  <1>2. Held(t, m) /\ at[t] \in Nat
    BY DEF LockInv, Types
  <1>3. Held(t, 0)
    BY <1>1, <1>2 DEF Held
  <1> QED
    BY <1>1, <1>3 DEF LockInv
-----------------------------------------------------------------------------
(***************************************************************************)
(* The effect of each step on the inboxes and the closures.                *)
(***************************************************************************)
LEMMA Life ==
  /\ \A fits \in BOOLEAN :
       /\ NewScoped(fits) # Unmade /\ ~Spent(NewScoped(fits))
       /\ Spent(RunOnce(NewScoped(fits))) /\ Spent(DropUnrun(NewScoped(fits)))
  /\ ~Spent(Unmade)
  <1>1. ASSUME NEW fits \in BOOLEAN PROVE NewScoped(fits).consumed = 0 /\ NewScoped(fits).boxes \in {0, 1}
    BY DEF NewScoped
  <1>2. Unmade.consumed = 0 /\ Unmade.boxes = -1
    BY DEF Unmade
  <1>3. ASSUME NEW f, f.consumed = 0, f.boxes \in {0, 1} PROVE Spent(Runner(f)) /\ Spent(Dropper(f))
    BY <1>3 DEF Runner, Dropper, Spent
  <1>4. ASSUME NEW f, f.consumed = 0, f.boxes \in {0, 1} PROVE Spent(RunOnce(f)) /\ Spent(DropUnrun(f))
    BY <1>3, <1>4 DEF RunOnce, DropUnrun
  <1>5. ASSUME NEW fits \in BOOLEAN PROVE NewScoped(fits) # Unmade /\ ~Spent(NewScoped(fits))
    <2>1. NewScoped(fits).boxes # Unmade.boxes
      BY <1>1, <1>2
    <2> QED
      BY <1>1, <2>1 DEF Spent
  <1> QED
    BY <1>1, <1>2, <1>4, <1>5 DEF Spent

\* A job is one closure, and a body publishes once: what the iterator gives is new.
LEMMA IsNew ==
  ASSUME Types, Loops, BodyInv, MadeInv, ClosureInv, NEW t \in Threads, Assign(t)
  PROVE  closure[Batch[body[t]][at[t] + 1]] = Unmade /\ ~Queued(Batch[body[t]][at[t] + 1])
  <1> DEFINE b == body[t]
             k == at[t] + 1
             x == Batch[b][k]
  <1>1. at[t] \in Nat /\ k \in DOMAIN Batch[b] /\ b \in Bodies /\ x \in Jobs
    BY NextJob
  <1>2. Publishing(t) /\ pc[t] = "assign"
    BY DEF Publishing, Assign
  <1>3. b \notin settled
    BY <1>2 DEF BodyInv
  <1>4. ~(k <= at[t])
    BY <1>1
  <1>5. ASSUME NEW u \in Threads, pc[u] = "assign", body[u] = b, k <= at[u] PROVE FALSE
    <2>1. u = t
      BY <1>2, <1>5 DEF BodyInv, Publishing
    <2> QED
      BY <1>4, <1>5, <2>1
  <1>6. closure[x] = Unmade
    BY <1>1, <1>3, <1>5 DEF MadeInv
  <1>7. (x \notin Boxed) \in BOOLEAN
    OBVIOUS
  <1>8. ~Queued(x)
    BY <1>1, <1>6, <1>7, Life DEF ClosureInv
  <1> QED
    BY <1>6, <1>8

\* The iterator gives a job, while its thread holds every inbox.
LEMMA AssignEffect ==
  ASSUME Types, Loops, LockInv, NEW t \in Threads, Assign(t),
         NEW x, x = Batch[body[t]][at[t] + 1], NEW m, m = TargetOf(CallerIndex(t), at[t])
  PROVE  /\ x \in Jobs /\ m \in Members /\ at[t] \in Nat
         /\ pc[t] = "assign" /\ pc'[t] = "assign" /\ at'[t] = at[t] + 1
         /\ \A n \in Members : owner[n] = t
         /\ \A n \in Members : inbox'[n] = IF n = m THEN Append(inbox[n], x) ELSE inbox[n]
         /\ \A y \in Jobs : closure'[y] = IF y = x THEN NewScoped(x \notin Boxed) ELSE closure[y]
         /\ owner' = owner /\ kept' = kept /\ body' = body /\ settled' = settled /\ taken' = taken
  <1>1. x \in Jobs /\ m \in Members /\ at[t] \in Nat
    BY NextJob
  <1>2. /\ pc[t] = "assign" /\ Goto(t, "assign", at[t] + 1)
        /\ inbox' = [inbox EXCEPT ![m] = Append(inbox[m], x)]
        /\ closure' = [closure EXCEPT ![x] = NewScoped(x \notin Boxed)]
        /\ owner' = owner /\ kept' = kept /\ body' = body /\ settled' = settled /\ taken' = taken
    BY DEF Assign
  <1>3. pc'[t] = "assign" /\ at'[t] = at[t] + 1
    BY <1>1, <1>2, Goes DEF PCs
  <1>4. \A n \in Members : owner[n] = t
    BY <1>2 DEF LockInv, Held
  <1>5. \A n \in Members : inbox'[n] = IF n = m THEN Append(inbox[n], x) ELSE inbox[n]
    BY <1>1, <1>2 DEF Types
  <1>6. \A y \in Jobs : closure'[y] = IF y = x THEN NewScoped(x \notin Boxed) ELSE closure[y]
    BY <1>1, <1>2 DEF Types
  <1> QED
    BY <1>1, <1>2, <1>3, <1>4, <1>5, <1>6

\* A job is taken from the front of an unlocked inbox, by a thread without locks.
LEMMA TakeEffect ==
  ASSUME Types, LockInv, NEW t \in Threads, NEW m \in Members, Takes(t, m),
         NEW x, x = Head(inbox[m])
  PROVE  /\ x \in Jobs /\ x \in Bodies /\ inbox[m] # <<>> /\ inbox[m] \in Seq(Jobs)
         /\ owner[m] = NoThread /\ \A n \in Members : owner[n] # t
         /\ pc[t] \in {"idle", "pop"}
         /\ \/ pc'[t] = "idle" /\ body' = body
            \/ pc'[t] = "lock" /\ at'[t] = 0 /\ body'[t] = x
         /\ \A n \in Members : inbox'[n] = IF n = m THEN Tail(inbox[n]) ELSE inbox[n]
         /\ \A y \in Jobs : closure'[y] = IF y = x THEN RunOnce(closure[x]) ELSE closure[y]
         /\ owner' = owner /\ kept' = kept /\ settled' = settled
  <1>1. inbox[m] \in Seq(Jobs) /\ inbox[m] # <<>> /\ owner[m] = NoThread /\ pc[t] \in {"idle", "pop"}
    BY DEF Types, Takes, TakeAndRun
  <1>2. x \in Jobs /\ x \in Bodies
    BY <1>1, TailKeeps, Data
  <1>3. /\ inbox' = [inbox EXCEPT ![m] = Tail(inbox[m])]
        /\ closure' = [closure EXCEPT ![x] = RunOnce(closure[x])]
        /\ owner' = owner /\ kept' = kept /\ settled' = settled
        /\ \/ Goto(t, "idle", 0) /\ body' = body
           \/ Goto(t, "lock", 0) /\ body' = [body EXCEPT ![t] = x]
    BY DEF Takes, TakeAndRun
  <1>4. \/ pc'[t] = "idle" /\ body' = body
        \/ pc'[t] = "lock" /\ at'[t] = 0 /\ body'[t] = x
    <2>1. "idle" \in PCs /\ "lock" \in PCs /\ 0 \in Nat /\ body \in [Threads -> Bodies]
      BY DEF PCs, Types
    <2> QED
      BY <1>3, <2>1, Goes
  <1>5. \A n \in Members : owner[n] # t
    BY <1>1 DEF LockInv, Held
  <1>6. \A n \in Members : inbox'[n] = IF n = m THEN Tail(inbox[n]) ELSE inbox[n]
    BY <1>3 DEF Types
  <1>7. \A y \in Jobs : closure'[y] = IF y = x THEN RunOnce(closure[x]) ELSE closure[y]
    BY <1>2, <1>3 DEF Types
  <1> QED
    BY <1>1, <1>2, <1>3, <1>4, <1>5, <1>6, <1>7

\* The jobs that a frame drops.
Dropped(t) == Range(inbox[at[t]]) \ Range(Left(t))

\* A frame truncates its inbox after a failure, and unlocks it.
LEMMA ReleaseEffect ==
  ASSUME Types, Loops, LockInv, KeptInv, NEW t \in Threads, Release(t)
  PROVE  /\ pc[t] \in {"release", "rollback"}
         /\ \/ at[t] = 0 /\ pc'[t] = "idle"
            \/ at[t] # 0 /\ pc'[t] = pc[t] /\ at'[t] = at[t] - 1
         /\ \A n \in Members : inbox'[n] = IF n = at[t] THEN Left(t) ELSE inbox[n]
         /\ \A n \in Members : owner'[n] = IF n = at[t] THEN NoThread ELSE owner[n]
         /\ \A y \in Jobs : closure'[y] = IF y \in Dropped(t) THEN DropUnrun(closure[y]) ELSE closure[y]
         /\ kept' = kept /\ body' = body /\ settled' = settled /\ taken' = taken
  <1>1. /\ at[t] \in Members /\ at[t] \in 0..N /\ inbox' = [inbox EXCEPT ![at[t]] = Left(t)]
        /\ closure' = [x \in Jobs |-> IF x \in Range(inbox[at[t]]) \ Range(Left(t))
                                      THEN DropUnrun(closure[x]) ELSE closure[x]]
    BY LeftKeeps
  <1>2. /\ pc[t] \in {"release", "rollback"} /\ owner' = [owner EXCEPT ![at[t]] = NoThread]
        /\ IF at[t] = 0 THEN Goto(t, "idle", 0) ELSE Goto(t, pc[t], at[t] - 1)
        /\ kept' = kept /\ body' = body /\ settled' = settled /\ taken' = taken
    BY DEF Release, Releases
  <1>3. \/ at[t] = 0 /\ pc'[t] = "idle"
        \/ at[t] # 0 /\ pc'[t] = pc[t] /\ at'[t] = at[t] - 1
    <2>1. at[t] # 0 => at[t] - 1 \in Nat
      <3>1. N \in Nat
        BY Ids
      <3> QED
        BY <1>1, <3>1
    <2>2. "idle" \in PCs /\ pc[t] \in PCs /\ 0 \in Nat
      BY DEF PCs, Types
    <2> QED
      BY <1>2, <2>1, <2>2, Goes
  <1>4. \A n \in Members : inbox'[n] = IF n = at[t] THEN Left(t) ELSE inbox[n]
    BY <1>1 DEF Types
  <1>5. \A n \in Members : owner'[n] = IF n = at[t] THEN NoThread ELSE owner[n]
    BY <1>1, <1>2 DEF Types
  <1> QED
    BY <1>1, <1>2, <1>3, <1>4, <1>5 DEF Dropped

\* original_len stays within the inbox while it is locked.
LEMMA KeptStep ==
  ASSUME Types, Loops, LockInv, KeptInv, NEW t \in Threads, Step(t)
  PROVE  KeptInv'
  <1>0. NoThread \notin Threads
    BY Ids
  <1>1. \A u \in Threads \ {t} : pc'[u] = pc[u]
    BY Moves DEF Foot
  <1>2. \A m \in Members : kept[m] \in Nat /\ inbox[m] \in Seq(Jobs) /\ Len(inbox[m]) \in Nat
    BY DEF Types
  <1>3. CASE LockNext(t)
    <2>1. at[t] \in Members /\ pc[t] = "lock"
      BY <1>3 DEF LockNext, Loops
    <2>2. \A m \in Members : /\ owner'[m] = IF m = at[t] THEN t ELSE owner[m]
                             /\ kept'[m] = IF m = at[t] THEN Len(inbox[m]) ELSE kept[m]
                             /\ inbox'[m] = inbox[m]
      BY <1>3, <2>1 DEF LockNext, LockOrder, Types
    <2>3. \A m \in Members : owner'[m] # NoThread => kept'[m] <= Len(inbox'[m])
      BY <1>2, <2>2 DEF KeptInv
    <2>4. ASSUME NEW u \in Threads, NEW m \in Members, pc'[u] = "lock", owner'[m] = u
          PROVE  kept'[m] = Len(inbox'[m])
      <3>1. CASE m = at[t]
        BY <2>2, <3>1
      <3>2. CASE m # at[t]
        BY <1>1, <2>1, <2>2, <2>4, <3>2 DEF KeptInv
      <3> QED
        BY <3>1, <3>2
    <2> QED
      BY <2>3, <2>4 DEF KeptInv
  <1>4. CASE Assign(t)
    <2> DEFINE x == Batch[body[t]][at[t] + 1]
               n == TargetOf(CallerIndex(t), at[t])
    <2>1. /\ x \in Jobs /\ pc'[t] = "assign" /\ owner' = owner /\ kept' = kept
          /\ \A m \in Members : owner[m] = t
          /\ \A m \in Members : inbox'[m] = IF m = n THEN Append(inbox[m], x) ELSE inbox[m]
      BY <1>4, AssignEffect
    <2> HIDE DEF x, n
    <2>2. \A m \in Members : Len(inbox'[m]) \in {Len(inbox[m]), Len(inbox[m]) + 1}
      <3>1. ASSUME NEW m \in Members PROVE Len(Append(inbox[m], x)) = Len(inbox[m]) + 1
        BY <1>2, <2>1, AppendKeeps
      <3> QED
        BY <2>1, <3>1
    <2>3. \A m \in Members : owner'[m] # NoThread => kept'[m] <= Len(inbox'[m])
      BY <1>2, <2>1, <2>2 DEF KeptInv
    <2> QED
      BY <2>1, <2>3 DEF KeptInv
  <1>5. CASE Assigned(t) \/ IteratorPanics(t)
    <2>1. /\ pc'[t] \in {"release", "rollback"} /\ owner' = owner /\ kept' = kept /\ inbox' = inbox
      BY <1>5 DEF Assigned, IteratorPanics, Goto, Types
    <2> QED
      BY <1>1, <2>1 DEF KeptInv
  <1>6. CASE Release(t)
    <2>1. /\ pc[t] \in {"release", "rollback"} /\ pc'[t] \in {"idle", pc[t]} /\ kept' = kept
          /\ \A n \in Members : inbox'[n] = IF n = at[t] THEN Left(t) ELSE inbox[n]
          /\ \A n \in Members : owner'[n] = IF n = at[t] THEN NoThread ELSE owner[n]
      BY <1>6, ReleaseEffect
    <2>2. pc'[t] # "lock"
      BY <2>1
    <2>3. ASSUME NEW u \in Threads, pc'[u] = "lock" PROVE pc[u] = "lock"
      BY <1>1, <2>2, <2>3
    <2>4. \A n \in Members : owner'[n] # NoThread => owner[n] = owner'[n] /\ inbox'[n] = inbox[n]
      BY <2>1
    <2> QED
      BY <1>0, <2>1, <2>3, <2>4 DEF KeptInv
  <1>7. CASE Rests(t)
    <2>0. pc \in [Threads -> PCs]
      BY DEF Types
    <2>1. pc'[t] \in {"idle", "pop"} /\ owner' = owner /\ kept' = kept /\ inbox' = inbox
      BY <1>7, <2>0 DEF Rests, Goto
    <2> QED
      BY <1>1, <2>1 DEF KeptInv
  <1>8. ASSUME NEW m \in Members, Takes(t, m) PROVE KeptInv'
    <2>1. /\ owner[m] = NoThread /\ owner' = owner /\ kept' = kept
          /\ \A n \in Members : owner[n] # t
          /\ \A n \in Members : inbox'[n] = IF n = m THEN Tail(inbox[n]) ELSE inbox[n]
      BY <1>8, TakeEffect
    <2>2. \A n \in Members : owner[n] # NoThread => inbox'[n] = inbox[n]
      BY <2>1
    <2>3. ASSUME NEW u \in Threads, NEW n \in Members, pc'[u] = "lock", owner'[n] = u
          PROVE  kept'[n] = Len(inbox'[n])
      <3>1. u # t /\ owner[n] = u /\ pc[u] = "lock"
        BY <1>1, <2>1, <2>3
      <3> QED
        BY <1>0, <2>1, <2>2, <3>1 DEF KeptInv
    <2> QED
      BY <2>1, <2>2, <2>3 DEF KeptInv
  <1> QED
    BY <1>3, <1>4, <1>5, <1>6, <1>7, <1>8, Kinds
-----------------------------------------------------------------------------
(***************************************************************************)
(* Every job in one place, and every closure used once.                    *)
(***************************************************************************)
Apiece(f) ==
  \A m, n \in Members : \A i \in DOMAIN f[m], j \in DOMAIN f[n] :
    f[m][i] = f[n][j] => m = n /\ i = j

\* What leaves inboxes at their ends leaves the others apart.
LEMMA StillApart ==
  ASSUME NEW f, NEW g, NEW d \in [Members -> Nat], Apiece(f),
         \A m \in Members : \A i \in DOMAIN g[m] :
           i \in Nat /\ i + d[m] \in DOMAIN f[m] /\ g[m][i] = f[m][i + d[m]]
  PROVE  Apiece(g)
  <1> SUFFICES ASSUME NEW m \in Members, NEW n \in Members, NEW i \in DOMAIN g[m], NEW j \in DOMAIN g[n],
                      g[m][i] = g[n][j]
               PROVE  m = n /\ i = j
    BY DEF Apiece
  <1>1. i + d[m] \in DOMAIN f[m] /\ j + d[n] \in DOMAIN f[n] /\ f[m][i + d[m]] = f[n][j + d[n]]
    OBVIOUS
  <1>2. m = n /\ i + d[m] = j + d[n]
    BY <1>1 DEF Apiece
  <1>3. i \in Nat /\ j \in Nat /\ d[m] \in Nat
    OBVIOUS
  <1> QED
    BY <1>2, <1>3

\* No step puts a job into a second place.
LEMMA PlaceStep ==
  ASSUME Types, Loops, LockInv, KeptInv, BodyInv, MadeInv, ClosureInv, OnePlace,
         NEW t \in Threads, Step(t)
  PROVE  OnePlace'
  <1>0. Apiece(inbox)
    BY DEF OnePlace, Apiece
  <1> SUFFICES Apiece(inbox')
    BY DEF OnePlace, Apiece
  <1>1. \A m \in Members : /\ inbox[m] \in Seq(Jobs) /\ Len(inbox[m]) \in Nat
                           /\ DOMAIN inbox[m] = 1..Len(inbox[m])
    BY DEF Types
  <1>2. CASE inbox' = inbox
    BY <1>0, <1>2
  <1>3. CASE Assign(t)
    <2> DEFINE x == Batch[body[t]][at[t] + 1]
               n == TargetOf(CallerIndex(t), at[t])
    <2>1. /\ x \in Jobs /\ n \in Members
          /\ \A m \in Members : inbox'[m] = IF m = n THEN Append(inbox[m], x) ELSE inbox[m]
      BY <1>3, AssignEffect
    <2>2. ~Queued(x)
      BY <1>3, IsNew
    <2> HIDE DEF x, n
    <2>3. ASSUME NEW m \in Members, NEW i \in DOMAIN inbox[m] PROVE inbox[m][i] # x
      BY <2>2 DEF Queued, Range
    <2>4. ASSUME NEW m \in Members, NEW i \in DOMAIN inbox'[m]
          PROVE  \/ i \in DOMAIN inbox[m] /\ inbox'[m][i] = inbox[m][i]
                 \/ m = n /\ i = Len(inbox[n]) + 1 /\ inbox'[m][i] = x
      <3>1. CASE m # n
        BY <2>1, <3>1
      <3>2. CASE m = n
        <4>1. /\ inbox'[m] = Append(inbox[n], x) /\ inbox[n] \in Seq(Jobs)
          BY <1>1, <2>1, <3>2
        <4>2. /\ Append(inbox[n], x) \in Seq(Jobs) /\ Len(Append(inbox[n], x)) = Len(inbox[n]) + 1
              /\ Len(inbox[n]) \in Nat
              /\ \A k \in 1..Len(inbox[n]) : Append(inbox[n], x)[k] = inbox[n][k]
              /\ Append(inbox[n], x)[Len(inbox[n]) + 1] = x
          BY <2>1, <4>1, AppendKeeps
        <4>3. i \in 1..(Len(inbox[n]) + 1)
          BY <4>1, <4>2
        <4>4. i \in 1..Len(inbox[n]) \/ i = Len(inbox[n]) + 1
          BY <4>2, <4>3
        <4> QED
          BY <1>1, <3>2, <4>1, <4>2, <4>4
      <3> QED
        BY <3>1, <3>2
    <2>5. ASSUME NEW m \in Members, NEW l \in Members, NEW i \in DOMAIN inbox'[m], NEW j \in DOMAIN inbox'[l],
                 inbox'[m][i] = inbox'[l][j]
          PROVE  m = l /\ i = j
      <3>1. \/ i \in DOMAIN inbox[m] /\ inbox'[m][i] = inbox[m][i]
            \/ m = n /\ i = Len(inbox[n]) + 1 /\ inbox'[m][i] = x
        BY <2>4
      <3>2. \/ j \in DOMAIN inbox[l] /\ inbox'[l][j] = inbox[l][j]
            \/ l = n /\ j = Len(inbox[n]) + 1 /\ inbox'[l][j] = x
        BY <2>4
      <3> QED
        BY <1>0, <2>3, <2>5, <3>1, <3>2 DEF Apiece
    <2> QED
      BY <2>5 DEF Apiece
  <1>4. CASE Release(t)
    <2> DEFINE d == [m \in Members |-> 0]
    <2>1. /\ at[t] \in Members /\ Left(t) \in Seq(Jobs) /\ Len(Left(t)) <= Len(inbox[at[t]]) /\ Len(Left(t)) \in Nat
          /\ \A i \in 1..Len(Left(t)) : Left(t)[i] = inbox[at[t]][i]
      BY <1>4, LeftKeeps
    <2>2. \A n \in Members : inbox'[n] = IF n = at[t] THEN Left(t) ELSE inbox[n]
      BY <1>4, ReleaseEffect
    <2>3. ASSUME NEW m \in Members, NEW i \in DOMAIN inbox'[m]
          PROVE  i \in Nat /\ i + d[m] \in DOMAIN inbox[m] /\ inbox'[m][i] = inbox[m][i + d[m]]
      <3>1. i \in Nat /\ i \in DOMAIN inbox[m] /\ inbox'[m][i] = inbox[m][i]
        <4>1. CASE m = at[t]
          <5>1. inbox'[m] = Left(t)
            BY <2>2, <4>1
          <5>2. i \in 1..Len(Left(t))
            BY <2>1, <5>1
          <5>3. i \in 1..Len(inbox[m]) /\ i \in Nat
            BY <1>1, <2>1, <4>1, <5>2
          <5> QED
            BY <1>1, <2>1, <4>1, <5>1, <5>2, <5>3
        <4>2. CASE m # at[t]
          BY <1>1, <2>2, <4>2
        <4> QED
          BY <4>1, <4>2
      <3>2. i + d[m] = i
        BY <3>1
      <3> QED
        BY <3>1, <3>2
    <2>4. d \in [Members -> Nat]
      OBVIOUS
    <2> HIDE DEF d
    <2> QED
      BY <1>0, <2>3, <2>4, StillApart
  <1>5. ASSUME NEW m \in Members, Takes(t, m) PROVE Apiece(inbox')
    <2> DEFINE d == [n \in Members |-> IF n = m THEN 1 ELSE 0]
    <2>1. /\ inbox[m] # <<>> /\ inbox[m] \in Seq(Jobs)
          /\ \A n \in Members : inbox'[n] = IF n = m THEN Tail(inbox[n]) ELSE inbox[n]
      BY <1>5, TakeEffect
    <2>2. /\ Tail(inbox[m]) \in Seq(Jobs) /\ Len(inbox[m]) \in Nat \ {0}
          /\ Len(Tail(inbox[m])) = Len(inbox[m]) - 1
          /\ \A i \in 1..(Len(inbox[m]) - 1) : Tail(inbox[m])[i] = inbox[m][i + 1]
      BY <2>1, TailKeeps
    <2>3. ASSUME NEW n \in Members, NEW i \in DOMAIN inbox'[n]
          PROVE  i \in Nat /\ i + d[n] \in DOMAIN inbox[n] /\ inbox'[n][i] = inbox[n][i + d[n]]
      <3>1. CASE n = m
        <4>1. inbox'[n] = Tail(inbox[m]) /\ d[n] = 1
          BY <2>1, <3>1
        <4>2. i \in 1..(Len(inbox[m]) - 1)
          BY <2>2, <4>1
        <4>3. i \in Nat /\ i + 1 \in 1..Len(inbox[m])
          BY <2>2, <4>2
        <4> QED
          BY <1>1, <2>2, <3>1, <4>1, <4>2, <4>3
      <3>2. CASE n # m
        <4>1. inbox'[n] = inbox[n] /\ d[n] = 0
          BY <2>1, <3>2
        <4>2. i \in Nat
          BY <1>1, <4>1
        <4>3. i + d[n] = i
          BY <4>1, <4>2
        <4> QED
          BY <4>1, <4>2, <4>3
      <3> QED
        BY <3>1, <3>2
    <2>4. d \in [Members -> Nat]
      OBVIOUS
    <2> HIDE DEF d
    <2> QED
      BY <1>0, <2>3, <2>4, StillApart
  <1>6. LockNext(t) \/ Assigned(t) \/ IteratorPanics(t) \/ Rests(t) => inbox' = inbox
    BY DEF LockNext, Assigned, IteratorPanics, Rests
  <1> QED
    BY <1>2, <1>3, <1>4, <1>5, <1>6, Kinds

\* What lies in the inboxes after each step that changes them.
LEMMA QueuedAssign ==
  ASSUME Types, Loops, LockInv, NEW t \in Threads, Assign(t), NEW x, x = Batch[body[t]][at[t] + 1]
  PROVE  \A y \in Jobs : Queued(y)' <=> Queued(y) \/ y = x
  <1> DEFINE n == TargetOf(CallerIndex(t), at[t])
  <1>1. /\ x \in Jobs /\ n \in Members
        /\ \A m \in Members : inbox'[m] = IF m = n THEN Append(inbox[m], x) ELSE inbox[m]
    BY AssignEffect
  <1> HIDE DEF n
  <1>2. Range(Append(inbox[n], x)) = Range(inbox[n]) \cup {x}
    <2> DEFINE s == inbox[n]
    <2>1. s \in Seq(Jobs)
      BY <1>1 DEF Types
    <2> HIDE DEF s
    <2>2. /\ Append(s, x) \in Seq(Jobs) /\ Len(Append(s, x)) = Len(s) + 1 /\ Len(s) \in Nat
          /\ \A i \in 1..Len(s) : Append(s, x)[i] = s[i]
          /\ Append(s, x)[Len(s) + 1] = x
      BY <1>1, <2>1, AppendKeeps
    <2>3. DOMAIN Append(s, x) = 1..(Len(s) + 1) /\ DOMAIN s = 1..Len(s)
      BY <2>1, <2>2
    <2>4. Range(Append(s, x)) = Range(s) \cup {x}
      BY <2>2, <2>3 DEF Range
    <2> QED
      BY <2>4 DEF s
  <1>3. \A m \in Members : Range(inbox'[m]) = IF m = n THEN Range(inbox[m]) \cup {x} ELSE Range(inbox[m])
    BY <1>1, <1>2
  <1>4. \A y : Queued(y)' <=> \E m \in Members : y \in Range(inbox'[m])
    BY DEF Queued, Range
  <1> QED
    BY <1>1, <1>3, <1>4 DEF Queued

\* A job that is taken is in no inbox any more.
LEMMA QueuedTake ==
  ASSUME Types, LockInv, OnePlace, NEW t \in Threads, NEW m \in Members, Takes(t, m),
         NEW x, x = Head(inbox[m])
  PROVE  Queued(x) /\ \A y \in Jobs : Queued(y)' <=> Queued(y) /\ y # x
  <1>1. /\ inbox[m] # <<>> /\ inbox[m] \in Seq(Jobs)
        /\ \A n \in Members : inbox'[n] = IF n = m THEN Tail(inbox[n]) ELSE inbox[n]
    BY TakeEffect
  <1>2. /\ Tail(inbox[m]) \in Seq(Jobs) /\ x = inbox[m][1] /\ Len(inbox[m]) \in Nat \ {0}
        /\ Len(Tail(inbox[m])) = Len(inbox[m]) - 1
        /\ \A i \in 1..(Len(inbox[m]) - 1) : Tail(inbox[m])[i] = inbox[m][i + 1]
    BY <1>1, TailKeeps
  <1>3. DOMAIN inbox[m] = 1..Len(inbox[m]) /\ 1 \in DOMAIN inbox[m]
    BY <1>1, <1>2
  <1>4. DOMAIN Tail(inbox[m]) = 1..(Len(inbox[m]) - 1)
    BY <1>2
  <1>5. ASSUME NEW n \in Members, NEW i \in DOMAIN inbox[n], inbox[n][i] = x PROVE n = m /\ i = 1
    BY <1>2, <1>3, <1>5 DEF OnePlace
  <1>6. Range(Tail(inbox[m])) = Range(inbox[m]) \ {x}
    <2>1. ASSUME NEW i \in 1..(Len(inbox[m]) - 1) PROVE Tail(inbox[m])[i] \in Range(inbox[m]) \ {x}
      <3>1. i + 1 \in 1..Len(inbox[m]) /\ i + 1 # 1
        BY <1>2
      <3>2. i + 1 \in DOMAIN inbox[m] /\ inbox[m][i + 1] # x
        BY <1>3, <1>5, <3>1
      <3> QED
        BY <1>2, <3>2 DEF Range
    <2>2. ASSUME NEW i \in 1..Len(inbox[m]), inbox[m][i] # x PROVE inbox[m][i] \in Range(Tail(inbox[m]))
      <3>1. i # 1
        BY <1>2, <2>2
      <3>2. i - 1 \in 1..(Len(inbox[m]) - 1) /\ (i - 1) + 1 = i
        BY <1>2, <3>1
      <3>3. Tail(inbox[m])[i - 1] = inbox[m][i]
        BY <1>2, <3>2
      <3> QED
        BY <1>4, <3>2, <3>3 DEF Range
    <2> QED
      BY <1>3, <1>4, <2>1, <2>2 DEF Range
  <1>7. \A n \in Members \ {m} : x \notin Range(inbox[n])
    BY <1>5 DEF Range
  <1>8. \A n \in Members : Range(inbox'[n]) = Range(inbox[n]) \ {x}
    <2>1. ASSUME NEW n \in Members PROVE Range(inbox'[n]) = Range(inbox[n]) \ {x}
      <3>1. CASE n = m
        BY <1>1, <1>6, <3>1
      <3>2. CASE n # m
        BY <1>1, <1>7, <3>2
      <3> QED
        BY <3>1, <3>2
    <2> QED
      BY <2>1
  <1>9. \A y : Queued(y)' <=> \E n \in Members : y \in Range(inbox'[n])
    BY DEF Queued, Range
  <1>10. x \in Range(inbox[m])
    BY <1>2, <1>3 DEF Range
  <1> QED
    BY <1>8, <1>9, <1>10 DEF Queued

\* A job that is dropped is in no inbox any more.
LEMMA QueuedRelease ==
  ASSUME Types, Loops, LockInv, KeptInv, OnePlace, NEW t \in Threads, Release(t)
  PROVE  /\ \A y \in Dropped(t) : Queued(y)
         /\ \A y \in Jobs : Queued(y)' <=> Queued(y) /\ y \notin Dropped(t)
  <1> DEFINE m == at[t]
  <1>1. /\ m \in Members /\ Left(t) \in Seq(Jobs) /\ Len(Left(t)) <= Len(inbox[m]) /\ Len(Left(t)) \in Nat
        /\ inbox[m] \in Seq(Jobs) /\ \A i \in 1..Len(Left(t)) : Left(t)[i] = inbox[m][i]
    BY LeftKeeps
  <1>2. \A n \in Members : inbox'[n] = IF n = m THEN Left(t) ELSE inbox[n]
    BY ReleaseEffect
  <1>3. Range(Left(t)) \subseteq Range(inbox[m])
    <2>1. DOMAIN Left(t) = 1..Len(Left(t)) /\ DOMAIN inbox[m] = 1..Len(inbox[m]) /\ Len(inbox[m]) \in Nat
      BY <1>1
    <2>2. \A i \in 1..Len(Left(t)) : i \in 1..Len(inbox[m])
      BY <1>1, <2>1
    <2> QED
      BY <1>1, <2>1, <2>2 DEF Range
  <1>4. Dropped(t) = Range(inbox[m]) \ Range(Left(t))
    BY DEF Dropped
  <1>5. ASSUME NEW n \in Members, n # m, NEW y \in Range(inbox[n]) PROVE y \notin Range(inbox[m])
    BY <1>1, <1>5 DEF OnePlace, Range
  <1> HIDE DEF m
  <1>6. ASSUME NEW n \in Members PROVE Range(inbox'[n]) = Range(inbox[n]) \ Dropped(t)
    <2>1. CASE n = m
      BY <1>2, <1>3, <1>4, <2>1
    <2>2. CASE n # m
      BY <1>2, <1>4, <1>5, <2>2
    <2> QED
      BY <2>1, <2>2
  <1>7. \A y : Queued(y)' <=> \E n \in Members : y \in Range(inbox'[n])
    BY DEF Queued, Range
  <1> QED
    BY <1>1, <1>4, <1>6, <1>7 DEF Queued

\* What may become of a closure in a step.
LEMMA ClosureMoves ==
  ASSUME Types, Loops, LockInv, KeptInv, BodyInv, MadeInv, OnePlace, ClosureInv,
         NEW t \in Threads, Step(t), NEW y \in Jobs
  PROVE  \/ closure'[y] = closure[y] /\ (Queued(y)' <=> Queued(y))
         \/ /\ Assign(t) /\ y = Batch[body[t]][at[t] + 1]
            /\ closure[y] = Unmade /\ closure'[y] = NewScoped(y \notin Boxed) /\ Queued(y)'
         \/ Queued(y) /\ ~Queued(y)' /\ Spent(closure'[y])
  <1>0. (y \notin Boxed) \in BOOLEAN
    OBVIOUS
  <1>1. CASE Assign(t)
    BY <1>1, AssignEffect, QueuedAssign, IsNew
  <1>2. CASE Release(t)
    <2>1. /\ closure'[y] = IF y \in Dropped(t) THEN DropUnrun(closure[y]) ELSE closure[y]
          /\ Queued(y)' <=> Queued(y) /\ y \notin Dropped(t)
          /\ y \in Dropped(t) => Queued(y)
      BY <1>2, ReleaseEffect, QueuedRelease
    <2>2. CASE y \in Dropped(t)
      <3>1. closure[y] = NewScoped(y \notin Boxed)
        BY <2>1, <2>2 DEF ClosureInv
      <3> QED
        BY <1>0, <2>1, <2>2, <3>1, Life
    <2>3. CASE y \notin Dropped(t)
      BY <2>1, <2>3
    <2> QED
      BY <2>2, <2>3
  <1>3. ASSUME NEW m \in Members, Takes(t, m)
        PROVE  \/ closure'[y] = closure[y] /\ (Queued(y)' <=> Queued(y))
               \/ Queued(y) /\ ~Queued(y)' /\ Spent(closure'[y])
    <2> DEFINE x == Head(inbox[m])
    <2>1. /\ Queued(x) /\ (Queued(y)' <=> Queued(y) /\ y # x)
          /\ closure'[y] = IF y = x THEN RunOnce(closure[x]) ELSE closure[y]
      BY <1>3, TakeEffect, QueuedTake
    <2> HIDE DEF x
    <2>2. CASE y = x
      <3>1. closure[y] = NewScoped(y \notin Boxed)
        BY <2>1, <2>2 DEF ClosureInv
      <3> QED
        BY <1>0, <2>1, <2>2, <3>1, Life
    <2> QED
      BY <2>1, <2>2
  <1>4. ASSUME inbox' = inbox, closure' = closure
        PROVE  closure'[y] = closure[y] /\ (Queued(y)' <=> Queued(y))
    <2>1. Queued(y)' <=> \E n \in Members : y \in Range(inbox'[n])
      BY DEF Queued, Range
    <2> QED
      BY <1>4, <2>1 DEF Queued
  <1>5. LockNext(t) \/ Assigned(t) \/ IteratorPanics(t) \/ Rests(t) => inbox' = inbox /\ closure' = closure
    BY DEF LockNext, Assigned, IteratorPanics, Rests
  <1> QED
    BY <1>1, <1>2, <1>3, <1>4, <1>5, Kinds

\* A queued closure is unused, another one unmade or used up.
LEMMA ClosureStep ==
  ASSUME Types, Loops, LockInv, KeptInv, BodyInv, MadeInv, OnePlace, ClosureInv,
         NEW t \in Threads, Step(t)
  PROVE  ClosureInv'
  <1>1. ASSUME NEW y \in Jobs
        PROVE  \/ Queued(y)' /\ closure'[y] = NewScoped(y \notin Boxed)
               \/ ~Queued(y)' /\ (closure'[y] = Unmade \/ Spent(closure'[y]))
    BY ClosureMoves DEF ClosureInv
  <1> QED
    BY <1>1 DEF ClosureInv
\* A body publishes its batch once.
LEMMA BodyStep ==
  ASSUME Types, Loops, LockInv, KeptInv, BodyInv, MadeInv, OnePlace, ClosureInv,
         NEW t \in Threads, Step(t)
  PROVE  BodyInv'
  <1>1. \A u \in Threads \ {t} : pc'[u] = pc[u] /\ body'[u] = body[u]
    BY Moves DEF Foot
  <1>2. ASSUME NEW y \in Jobs, Spent(closure[y]) PROVE Spent(closure'[y])
    <2>1. ~Spent(Unmade) /\ ~Spent(NewScoped(y \notin Boxed))
      BY Life
    <2>2. ~Queued(y) /\ closure[y] # Unmade
      BY <1>2, <2>1 DEF ClosureInv
    <2> QED
      BY <1>2, <2>2, ClosureMoves
  <1>3. /\ \A u \in Threads : Publishing(u) =>
             body[u] \notin settled /\ (body[u] \in Jobs => Spent(closure[body[u]]))
        /\ \A u, v \in Threads : Publishing(u) /\ Publishing(v) /\ body[u] = body[v] => u = v
        /\ \A b \in settled : b \in Jobs => Spent(closure[b])
    BY DEF BodyInv
  <1>4. \A u \in Threads : Publishing(u)' <=> pc'[u] \in {"lock", "assign"}
    BY DEF Publishing
  <1>5. \A u \in Threads : Publishing(u) <=> pc[u] \in {"lock", "assign"}
    BY DEF Publishing
  <1>6. pc \in [Threads -> PCs]
    BY DEF Types
  <1>7. ASSUME settled' = settled, body' = body, Publishing(t)' => Publishing(t) PROVE BodyInv'
    <2>1. \A u \in Threads : Publishing(u)' => Publishing(u)
      BY <1>1, <1>4, <1>5, <1>7
    <2> QED
      BY <1>2, <1>3, <1>7, <2>1 DEF BodyInv
  <1>8. CASE LockNext(t)
    BY <1>5, <1>7, <1>8 DEF LockNext
  <1>9. CASE Assign(t)
    BY <1>5, <1>7, <1>9 DEF Assign
  <1>10. CASE Assigned(t) \/ IteratorPanics(t)
    <2>1. /\ settled' = settled \cup {body[t]} /\ body' = body
          /\ pc[t] = "assign" /\ pc'[t] \in {"release", "rollback"}
      BY <1>6, <1>10 DEF Assigned, IteratorPanics, Goto
    <2>2. \A u \in Threads : Publishing(u)' => Publishing(u) /\ u # t
      BY <1>1, <1>4, <1>5, <2>1
    <2>3. Publishing(t)
      BY <1>5, <2>1
    <2>4. \A b \in settled' : b \in Jobs => Spent(closure[b])
      BY <1>3, <2>1, <2>3
    <2>5. ASSUME NEW u \in Threads, Publishing(u)'
          PROVE  body'[u] \notin settled' /\ (body'[u] \in Jobs => Spent(closure[body'[u]]))
      BY <1>3, <2>1, <2>2, <2>3, <2>5
    <2> QED
      BY <1>2, <1>3, <2>1, <2>2, <2>4, <2>5 DEF BodyInv
  <1>11. CASE Release(t)
    <2>1. pc[t] \in {"release", "rollback"} /\ pc'[t] \in {"idle", pc[t]} /\ body' = body /\ settled' = settled
      BY <1>11, ReleaseEffect
    <2>2. ~Publishing(t)'
      BY <1>4, <2>1
    <2> QED
      BY <1>7, <2>1, <2>2
  <1>12. CASE Rests(t)
    <2>1. pc'[t] \in {"idle", "pop"}
      BY <1>6, <1>12 DEF Rests, Goto
    <2>2. ~Publishing(t)' /\ settled' = settled /\ body' = body
      BY <1>4, <1>12, <2>1 DEF Rests
    <2> QED
      BY <1>7, <2>2
  <1>13. ASSUME NEW m \in Members, Takes(t, m) PROVE BodyInv'
    <2> DEFINE x == Head(inbox[m])
    <2>1. /\ x \in Jobs /\ settled' = settled /\ pc[t] \in {"idle", "pop"}
          /\ \/ pc'[t] = "idle" /\ body' = body
             \/ pc'[t] = "lock" /\ body'[t] = x
          /\ closure'[x] = RunOnce(closure[x])
      BY <1>13, TakeEffect
    <2>2. closure[x] = NewScoped(x \notin Boxed)
      BY <1>13, <2>1, QueuedTake DEF ClosureInv
    <2> HIDE DEF x
    <2>3. ~Spent(closure[x]) /\ Spent(closure'[x])
      <3>1. (x \notin Boxed) \in BOOLEAN
        OBVIOUS
      <3> QED
        BY <2>1, <2>2, <3>1, Life
    <2>4. CASE pc'[t] = "idle" /\ body' = body
      <3>1. ~Publishing(t)'
        BY <1>4, <2>4
      <3> QED
        BY <1>7, <2>1, <2>4, <3>1
    <2>5. CASE pc'[t] = "lock" /\ body'[t] = x
      <3>1. ASSUME NEW u \in Threads, u # t, Publishing(u)' PROVE Publishing(u) /\ body'[u] = body[u] /\ body[u] # x
        <4>1. Publishing(u) /\ body'[u] = body[u]
          BY <1>1, <1>4, <1>5, <3>1
        <4> QED
          BY <1>3, <2>1, <2>3, <4>1
      <3>2. x \notin settled
        BY <1>3, <2>1, <2>3
      <3>3. ASSUME NEW u \in Threads, Publishing(u)'
            PROVE  body'[u] \notin settled /\ (body'[u] \in Jobs => Spent(closure'[body'[u]]))
        <4>1. CASE u = t
          BY <2>3, <2>5, <3>2, <4>1
        <4>2. CASE u # t
          BY <1>2, <1>3, <3>1, <3>3, <4>2
        <4> QED
          BY <4>1, <4>2
      <3>4. ASSUME NEW u \in Threads, NEW v \in Threads, Publishing(u)', Publishing(v)', body'[u] = body'[v]
            PROVE  u = v
        BY <1>3, <2>5, <3>1, <3>4
      <3> QED
        BY <1>2, <1>3, <2>1, <3>3, <3>4 DEF BodyInv
    <2> QED
      BY <2>1, <2>4, <2>5
  <1> QED
    BY <1>8, <1>9, <1>10, <1>11, <1>12, <1>13, Kinds

\* A job exists only after the iterator of its batch gave it.
LEMMA MadeStep ==
  ASSUME Types, Loops, LockInv, KeptInv, BodyInv, MadeInv, OnePlace, ClosureInv,
         NEW t \in Threads, Step(t)
  PROVE  MadeInv'
  <1>1. \A u \in Threads \ {t} : pc'[u] = pc[u] /\ at'[u] = at[u] /\ body'[u] = body[u]
    BY Moves DEF Foot
  <1>2. at \in [Threads -> Nat] /\ pc \in [Threads -> PCs]
    BY DEF Types
  <1> DEFINE Given(b, i) == \E u \in Threads : pc[u] = "assign" /\ body[u] = b /\ i <= at[u]
             GivenNext(b, i) == \E u \in Threads : pc'[u] = "assign" /\ body'[u] = b /\ i <= at'[u]
  <1> SUFFICES ASSUME NEW b \in Bodies, NEW i \in DOMAIN Batch[b], closure'[Batch[b][i]] # Unmade
               PROVE  b \in settled' \/ GivenNext(b, i)
    BY DEF MadeInv
  <1> DEFINE y == Batch[b][i]
  <1>3. y \in Jobs /\ i \in Nat
    <2>1. Batch[b] \in Seq(Jobs)
      BY Data
    <2> QED
      BY <2>1
  <1>4. /\ settled \subseteq settled'
        /\ pc[t] = "assign" =>
             \/ pc'[t] = "assign" /\ body'[t] = body[t] /\ at'[t] = at[t] + 1
             \/ body[t] \in settled'
    <2>1. CASE Assign(t)
      BY <1>2, <2>1 DEF Assign, Goto
    <2>2. CASE Assigned(t) \/ IteratorPanics(t)
      BY <2>2 DEF Assigned, IteratorPanics
    <2>3. CASE LockNext(t)
      BY <2>3 DEF LockNext
    <2>4. CASE Release(t)
      BY <2>4 DEF Release
    <2>5. CASE Rests(t)
      BY <2>5 DEF Rests
    <2>6. CASE \E m \in Members : Takes(t, m)
      BY <2>6 DEF Takes, TakeAndRun
    <2> QED
      BY <2>1, <2>2, <2>3, <2>4, <2>5, <2>6, Kinds
  <1>5. CASE closure[y] # Unmade
    <2>1. b \in settled \/ Given(b, i)
      BY <1>5 DEF MadeInv
    <2>2. ASSUME NEW u \in Threads, pc[u] = "assign", body[u] = b, i <= at[u]
          PROVE  b \in settled' \/ GivenNext(b, i)
      <3>1. CASE u # t
        BY <1>1, <2>2, <3>1
      <3>2. CASE u = t
        <4>1. i <= at[t] + 1
          BY <1>2, <1>3, <2>2, <3>2
        <4> QED
          BY <1>4, <2>2, <3>2, <4>1
      <3> QED
        BY <3>1, <3>2
    <2> QED
      BY <1>4, <2>1, <2>2
  <1>6. CASE closure[y] = Unmade
    <2>1. ~Queued(y)
      <3>1. NewScoped(y \notin Boxed) # Unmade
        BY Life
      <3> QED
        BY <1>3, <1>6, <3>1 DEF ClosureInv
    <2>2. Assign(t) /\ y = Batch[body[t]][at[t] + 1]
      BY <1>3, <1>6, <2>1, ClosureMoves
    <2>3. body[t] \in Bodies /\ at[t] + 1 \in DOMAIN Batch[body[t]] /\ at[t] \in Nat
      BY <2>2, NextJob
    <2>4. b = body[t] /\ i = at[t] + 1
      BY <2>2, <2>3, Apart
    <2>5. pc'[t] = "assign" /\ body'[t] = body[t] /\ at'[t] = at[t] + 1
      BY <1>2, <2>2 DEF Assign, Goto
    <2>6. i <= at'[t]
      BY <2>3, <2>4, <2>5
    <2> QED
      BY <2>4, <2>5, <2>6
  <1> QED
    BY <1>5, <1>6
-----------------------------------------------------------------------------
(***************************************************************************)
(* The shares of a batch.                                                  *)
(***************************************************************************)
\* Nobody else touches the inboxes while one thread holds all of them.
LEMMA Undisturbed ==
  ASSUME Types, Loops, LockInv, KeptInv, NEW t \in Threads, \A m \in Members : owner[m] = t,
         NEW u \in Threads, u # t, Step(u)
  PROVE  /\ inbox' = inbox /\ kept' = kept
         /\ pc'[t] = pc[t] /\ at'[t] = at[t] /\ body'[t] = body[t]
  <1>0. t # NoThread /\ 0 \in Members
    BY Ids
  <1>1. pc'[t] = pc[t] /\ at'[t] = at[t] /\ body'[t] = body[t]
    BY Moves DEF Foot
  <1>2. ~LockNext(u)
    BY <1>0 DEF LockNext, LockOrder, Loops
  <1>3. ~Assign(u)
    BY <1>0 DEF Assign, LockInv, Held
  <1>4. ~Release(u)
    BY LeftKeeps
  <1>5. \A m \in Members : ~Takes(u, m)
    BY <1>0 DEF Takes
  <1>6. Assigned(u) \/ IteratorPanics(u) \/ Rests(u)
    BY <1>2, <1>3, <1>4, <1>5, Kinds
  <1>7. inbox' = inbox /\ kept' = kept
    BY <1>6 DEF Assigned, IteratorPanics, Rests
  <1> QED
    BY <1>1, <1>7

\* The publisher that assigns, or is about to release, holds all inboxes.
LEMMA HoldsAll ==
  ASSUME LockInv, NEW t \in Threads, pc[t] = "assign" \/ (pc[t] = "release" /\ at[t] = N)
  PROVE  \A m \in Members : owner[m] = t
  <1>1. \A m \in Members : m <= N
    BY Ids
  <1> QED
    BY <1>1 DEF LockInv, Held

\* The last lock: no inbox has a share yet.
LEMMA LastLock ==
  ASSUME Types, Loops, LockInv, KeptInv, NEW t \in Threads, LockNext(t), pc'[t] = "assign"
  PROVE  /\ at'[t] = 0 /\ body' = body /\ inbox' = inbox
         /\ \A m \in Members : kept'[m] = Len(inbox[m])
  <1>0. N \in Nat \ {0} /\ Members = 0..N
    BY Ids
  <1>1. pc[t] = "lock" /\ at[t] \in Members /\ body' = body /\ inbox' = inbox
    BY DEF LockNext, Loops
  <1>2. at[t] = N /\ at'[t] = 0
    BY <1>1 DEF LockNext, Goto, Types
  <1>3. kept' = [kept EXCEPT ![N] = Len(inbox[N])]
    BY <1>2 DEF LockNext, LockOrder
  <1>4. ASSUME NEW m \in Members PROVE kept'[m] = Len(inbox[m])
    <2>1. CASE m = N
      BY <1>3, <2>1 DEF Types
    <2>2. CASE m # N
      <3>1. m < at[t]
        BY <1>0, <1>2, <2>2
      <3>2. owner[m] = t
        BY <1>1, <3>1 DEF LockInv, Held
      <3>3. kept[m] = Len(inbox[m])
        BY <1>1, <3>2 DEF KeptInv
      <3> QED
        BY <1>3, <2>2, <3>3 DEF Types
    <2> QED
      BY <2>1, <2>2
  <1> QED
    BY <1>1, <1>2, <1>4

\* One more job keeps the shares even.
LEMMA OneMore ==
  ASSUME NEW c \in Members, NEW a \in Nat, NEW q \in Nat
  PROVE  \E r \in Nat : \A m \in Members :
           Share(c, m, a + 1, r) =
             IF m = TargetOf(c, a) THEN Share(c, m, a, q) + 1 ELSE Share(c, m, a, q)
  <1> DEFINE p == Participants(c)
             k == a % p
             l == (a + 1) % p
             x == TargetOf(c, a)
  <1>1. /\ p \in Nat \ {0} /\ x \in Members /\ (c # Host => x # Host)
        /\ \A m \in Members : m = x <=> Turn(c, m) = k /\ (c # Host => m # Host)
        /\ \A m \in Members : (c # Host => m # Host) => Turn(c, m) \in 0..(p - 1)
    BY Target
  <1>2. k \in 0..(p - 1) /\ l = IF k + 1 = p THEN 0 ELSE k + 1
    <2> HIDE DEF p
    <2> QED
      BY <1>1, NextTurn
  <1>3. \A m \in Members, r \in Nat :
          /\ Share(c, m, a + 1, r) = IF c # Host /\ m = Host THEN 0 ELSE IF Turn(c, m) < l THEN r + 1 ELSE r
          /\ Share(c, m, a, r) = IF c # Host /\ m = Host THEN 0 ELSE IF Turn(c, m) < k THEN r + 1 ELSE r
    BY DEF Share
  <1> HIDE DEF p, k, l, x
  <1>4. CASE k + 1 = p
    <2>1. l = 0
      BY <1>2, <1>4
    <2>2. ASSUME NEW m \in Members
          PROVE  Share(c, m, a + 1, q + 1) = IF m = x THEN Share(c, m, a, q) + 1 ELSE Share(c, m, a, q)
      <3>0. q + 1 \in Nat
        OBVIOUS
      <3>1. /\ Share(c, m, a + 1, q + 1) = IF c # Host /\ m = Host THEN 0
                                                ELSE IF Turn(c, m) < l THEN q + 1 + 1 ELSE q + 1
            /\ Share(c, m, a, q) = IF c # Host /\ m = Host THEN 0 ELSE IF Turn(c, m) < k THEN q + 1 ELSE q
        BY <1>3, <3>0, Zenon
      <3>2. CASE c # Host /\ m = Host
        BY <1>1, <3>1, <3>2
      <3>3. CASE ~(c # Host /\ m = Host)
        <4>1. Turn(c, m) \in 0..(p - 1) /\ (m = x <=> Turn(c, m) = k)
          BY <1>1, <3>3
        <4>2. ~(Turn(c, m) < l) /\ (Turn(c, m) < k <=> m # x)
          BY <1>1, <1>2, <1>4, <2>1, <4>1
        <4> QED
          BY <3>1, <3>3, <4>2
      <3> QED
        BY <3>2, <3>3
    <2>3. q + 1 \in Nat
      OBVIOUS
    <2> QED
      BY <2>2, <2>3, Zenon DEF x
  <1>5. CASE k + 1 # p
    <2>1. l = k + 1
      BY <1>2, <1>5
    <2>2. ASSUME NEW m \in Members
          PROVE  Share(c, m, a + 1, q) = IF m = x THEN Share(c, m, a, q) + 1 ELSE Share(c, m, a, q)
      <3>1. /\ Share(c, m, a + 1, q) = IF c # Host /\ m = Host THEN 0 ELSE IF Turn(c, m) < l THEN q + 1 ELSE q
            /\ Share(c, m, a, q) = IF c # Host /\ m = Host THEN 0 ELSE IF Turn(c, m) < k THEN q + 1 ELSE q
        BY <1>3, Zenon
      <3>2. CASE c # Host /\ m = Host
        BY <1>1, <3>1, <3>2
      <3>3. CASE ~(c # Host /\ m = Host)
        <4>1. Turn(c, m) \in 0..(p - 1) /\ (m = x <=> Turn(c, m) = k)
          BY <1>1, <3>3
        <4>2. /\ m = x => Turn(c, m) < l /\ ~(Turn(c, m) < k)
              /\ m # x => (Turn(c, m) < l <=> Turn(c, m) < k)
          BY <1>1, <1>2, <2>1, <4>1
        <4> QED
          BY <3>1, <3>3, <4>2
      <3> QED
        BY <3>2, <3>3
    <2> QED
      BY <2>2, Zenon DEF x
  <1> QED
    BY <1>4, <1>5

\* The shares stay even while the jobs are dealt.
LEMMA SharesStep ==
  ASSUME Types, Loops, LockInv, KeptInv, SharesInv, NEW t \in Threads, Step(t)
  PROVE  SharesInv'
  <1> SUFFICES ASSUME NEW u \in Threads, pc'[u] = "assign"
               PROVE  \E q \in Nat : \A m \in Members :
                        Len(inbox'[m]) - kept'[m] = Share(CallerIndex(u), m, at'[u], q)
    BY DEF SharesInv
  <1>1. CASE u # t
    <2>1. pc[u] = "assign"
      BY <1>1, Moves DEF Foot
    <2>2. inbox' = inbox /\ kept' = kept /\ at'[u] = at[u]
      BY <1>1, <2>1, HoldsAll, Undisturbed
    <2>3. PICK q \in Nat : \A m \in Members : Len(inbox[m]) - kept[m] = Share(CallerIndex(u), m, at[u], q)
      BY <2>1 DEF SharesInv
    <2> QED
      BY <2>2, <2>3
  <1>2. CASE u = t /\ LockNext(t)
    <2>1. at'[t] = 0 /\ inbox' = inbox /\ \A m \in Members : kept'[m] = Len(inbox[m])
      BY <1>2, LastLock
    <2>2. \A m \in Members : Len(inbox[m]) \in Nat
      BY DEF Types
    <2>3. ASSUME NEW m \in Members PROVE Share(CallerIndex(t), m, 0, 0) = 0
      <3> DEFINE c == CallerIndex(t)
                 p == Participants(c)
      <3>1. c \in Members
        BY Ids
      <3>2. p \in Nat \ {0} /\ ((c # Host => m # Host) => Turn(c, m) \in 0..(p - 1))
        <4> HIDE DEF c
        <4> QED
          BY <3>1, Target
      <3>3. 0 % p = 0
        <4> HIDE DEF p
        <4> QED
          BY <3>2
      <3>4. Share(c, m, 0, 0) = IF c # Host /\ m = Host THEN 0 ELSE IF Turn(c, m) < 0 % p THEN 0 + 1 ELSE 0
        BY DEF Share
      <3>5. ~(c # Host /\ m = Host) => ~(Turn(c, m) < 0)
        <4> HIDE DEF c, p
        <4> QED
          BY <3>2
      <3> HIDE DEF c, p
      <3>6. Share(c, m, 0, 0) = 0
        BY <3>3, <3>4, <3>5
      <3> QED
        BY <3>6 DEF c
    <2>4. ASSUME NEW m \in Members PROVE Len(inbox'[m]) - kept'[m] = 0
      <3>1. Len(inbox'[m]) = Len(inbox[m]) /\ kept'[m] = Len(inbox[m]) /\ Len(inbox[m]) \in Nat
        BY <2>1, <2>2
      <3> QED
        BY <3>1
    <2>5. \A m \in Members : Len(inbox'[m]) - kept'[m] = Share(CallerIndex(t), m, at'[t], 0)
      BY <2>1, <2>3, <2>4
    <2> QED
      BY <1>2, <2>5
  <1>3. CASE u = t /\ Assign(t)
    <2> DEFINE x == Batch[body[t]][at[t] + 1]
               n == TargetOf(CallerIndex(t), at[t])
               c == CallerIndex(t)
    <2>1. /\ x \in Jobs /\ pc[t] = "assign" /\ at'[t] = at[t] + 1 /\ at[t] \in Nat /\ kept' = kept
          /\ \A m \in Members : inbox'[m] = IF m = n THEN Append(inbox[m], x) ELSE inbox[m]
      BY <1>3, AssignEffect
    <2>2. PICK q \in Nat : \A m \in Members : Len(inbox[m]) - kept[m] = Share(c, m, at[t], q)
      BY <2>1 DEF SharesInv
    <2>3. c \in Members
      BY Ids
    <2>4. PICK r \in Nat : \A m \in Members :
            Share(c, m, at[t] + 1, r) = IF m = n THEN Share(c, m, at[t], q) + 1 ELSE Share(c, m, at[t], q)
      BY <2>1, <2>3, OneMore
    <2> HIDE DEF x, n, c
    <2>5. ASSUME NEW m \in Members PROVE Len(inbox'[m]) - kept'[m] = Share(c, m, at'[t], r)
      <3>1. inbox[m] \in Seq(Jobs) /\ kept[m] \in Nat
        BY DEF Types
      <3>2. Len(Append(inbox[m], x)) = Len(inbox[m]) + 1 /\ Len(inbox[m]) \in Nat
        BY <2>1, <3>1, AppendKeeps
      <3>3. Len(inbox'[m]) = IF m = n THEN Len(inbox[m]) + 1 ELSE Len(inbox[m])
        BY <2>1, <3>2
      <3>4. Len(inbox'[m]) - kept'[m] = IF m = n THEN (Len(inbox[m]) - kept[m]) + 1 ELSE Len(inbox[m]) - kept[m]
        BY <2>1, <3>1, <3>2, <3>3
      <3> QED
        BY <2>1, <2>2, <2>4, <3>4
    <2> QED
      BY <1>3, <2>5 DEF c
  <1>4. ~(u = t) \/ LockNext(t) \/ Assign(t)
    <2>1. ASSUME Assigned(t) \/ IteratorPanics(t) PROVE pc'[t] # "assign"
      BY <2>1 DEF Assigned, IteratorPanics, Goto, Types
    <2>2. ASSUME Release(t) PROVE pc'[t] # "assign"
      BY <2>2, ReleaseEffect
    <2>3. ASSUME Rests(t) PROVE pc'[t] # "assign"
      <3>1. pc \in [Threads -> PCs]
        BY DEF Types
      <3> QED
        BY <2>3, <3>1 DEF Rests, Goto
    <2>4. ASSUME NEW m \in Members, Takes(t, m) PROVE pc'[t] # "assign"
      <3>1. pc'[t] = "idle" \/ pc'[t] = "lock"
        BY <2>4, TakeEffect
      <3> QED
        BY <3>1
    <2> QED
      BY <2>1, <2>2, <2>3, <2>4, Kinds
  <1> QED
    BY <1>1, <1>2, <1>3, <1>4

\* FairShares, one publisher at a time.
Fair(t) ==
  LET caller == CallerIndex(t)
      who == IF caller = Host THEN Members ELSE Members \ {Host}
      share(m) == Len(inbox[m]) - kept[m]
  IN  /\ \A m \in who : share(caller) - share(m) \in {0, 1}
      /\ \A m \in Members \ who : share(m) = 0

\* Even shares stay until the first lock is released.
LEMMA FairStep ==
  ASSUME Types, Loops, LockInv, KeptInv, SharesInv, FairShares, NEW t \in Threads, Step(t)
  PROVE  FairShares'
  <1>0. N \in Nat \ {0} /\ Members = 0..N
    BY Ids
  <1> SUFFICES ASSUME NEW u \in Threads, pc'[u] = "release", at'[u] = N
               PROVE  Fair(u)'
    BY DEF FairShares, Fair
  <1>1. CASE u # t
    <2>1. pc[u] = "release" /\ at[u] = N
      BY <1>1, Moves DEF Foot
    <2>2. inbox' = inbox /\ kept' = kept
      BY <1>1, <2>1, HoldsAll, Undisturbed
    <2>3. Fair(u)
      BY <2>1 DEF FairShares, Fair
    <2> QED
      BY <2>2, <2>3 DEF Fair
  <1>2. CASE u = t /\ Assigned(t)
    <2>1. pc[t] = "assign" /\ inbox' = inbox /\ kept' = kept
      BY <1>2 DEF Assigned
    <2> DEFINE c == CallerIndex(t)
               k == at[t] % Participants(c)
    <2>2. PICK q \in Nat : \A m \in Members : Len(inbox[m]) - kept[m] = Share(c, m, at[t], q)
      BY <2>1 DEF SharesInv
    <2>3. \A m \in Members : Share(c, m, at[t], q) =
            IF c # Host /\ m = Host THEN 0 ELSE IF Turn(c, m) < k THEN q + 1 ELSE q
      BY DEF Share
    <2>4. c \in Members /\ Participants(c) \in Nat \ {0} /\ at[t] \in Nat
      <3>1. c \in Members /\ at[t] \in Nat
        BY Ids DEF Types
      <3> QED
        BY <3>1, Target
    <2>5. k \in Nat
      <3>1. k \in 0..(Participants(c) - 1)
        <4> HIDE DEF c
        <4> QED
          BY <2>4, NextTurn
      <3> HIDE DEF k
      <3> QED
        BY <2>4, <3>1
    <2>6. \A m \in Members : (c # Host => m # Host) => Turn(c, m) \in Nat
      BY <1>0, <2>4 DEF Turn
    <2>7. Turn(c, c) = 0
      BY DEF Turn
    <2> HIDE DEF c, k
    <2>8. Len(inbox[c]) - kept[c] = IF 0 < k THEN q + 1 ELSE q
      BY <2>2, <2>3, <2>4, <2>7
    <2>9. ASSUME NEW m \in Members, c # Host => m # Host
          PROVE  (Len(inbox[c]) - kept[c]) - (Len(inbox[m]) - kept[m]) \in {0, 1}
      <3>1. Len(inbox[m]) - kept[m] = IF Turn(c, m) < k THEN q + 1 ELSE q
        BY <2>2, <2>3, <2>9
      <3>2. Turn(c, m) \in Nat
        BY <2>6, <2>9
      <3> QED
        BY <2>5, <2>8, <3>1, <3>2
    <2>10. c # Host => Len(inbox[Host]) - kept[Host] = 0
      <3>1. Host \in Members
        BY <1>0 DEF Host
      <3> QED
        BY <2>2, <2>3, <3>1
    <2>11. Fair(t)
      BY <2>9, <2>10 DEF Fair, c
    <2> QED
      BY <1>2, <2>1, <2>11 DEF Fair
  <1>3. ~(u = t) \/ Assigned(t)
    <2>1. ASSUME LockNext(t) \/ Assign(t) PROVE pc'[t] # "release"
      BY <2>1 DEF LockNext, Assign, Goto, Types
    <2>2. ASSUME Release(t) PROVE ~(pc'[t] = "release" /\ at'[t] = N)
      <3>1. /\ at[t] \in 0..N
            /\ \/ at[t] = 0 /\ pc'[t] = "idle"
               \/ at[t] # 0 /\ pc'[t] = pc[t] /\ at'[t] = at[t] - 1
        BY <2>2, ReleaseEffect, LeftKeeps
      <3>2. at[t] - 1 # N
        BY <1>0, <3>1
      <3> QED
        BY <3>1, <3>2
    <2>3. ASSUME Rests(t) PROVE pc'[t] # "release"
      <3>1. pc \in [Threads -> PCs]
        BY DEF Types
      <3> QED
        BY <2>3, <3>1 DEF Rests, Goto
    <2>4. ASSUME NEW m \in Members, Takes(t, m) PROVE pc'[t] # "release"
      <3>1. pc'[t] = "idle" \/ pc'[t] = "lock"
        BY <2>4, TakeEffect
      <3> QED
        BY <3>1
    <2>5. ASSUME IteratorPanics(t) PROVE pc'[t] # "release"
      BY <2>5 DEF IteratorPanics, Goto, Types
    <2> QED
      BY <2>1, <2>2, <2>3, <2>4, <2>5, Kinds
  <1> QED
    BY <1>1, <1>2, <1>3
-----------------------------------------------------------------------------
(***************************************************************************)
(* The jobs of a batch in the inboxes.  The rank of a position of I is the *)
(* number of positions of I up to it; it is a bijection of I onto          *)
(* 1..Cardinality(I), and Place is its inverse.                            *)
(***************************************************************************)
Rank(I, i) == Cardinality({j \in I : j <= i})

\* Place is the inverse of Rank.
LEMMA Ranks ==
  ASSUME NEW n \in Nat, NEW I \in SUBSET (1..n)
  PROVE  /\ IsFiniteSet(I) /\ Cardinality(I) \in Nat
         /\ \A i, j \in I : Rank(I, i) = Rank(I, j) => i = j
         /\ \A k \in 1..Cardinality(I) : Place(I, k) \in I /\ Rank(I, Place(I, k)) = k
  <1> DEFINE c == Cardinality(I)
             upTo(i) == {j \in I : j <= i}
             rank == [i \in I |-> Rank(I, i)]
  <1>1. IsFiniteSet(I) /\ c \in Nat
    <2>1. IsFiniteSet(1..n)
      BY FS_Interval
    <2> QED
      BY <2>1, FS_Subset, FS_CardinalityType
  <1>2. ASSUME NEW i \in I PROVE IsFiniteSet(upTo(i)) /\ Rank(I, i) \in 1..c
    <2>1. upTo(i) \in SUBSET I /\ i \in upTo(i)
      OBVIOUS
    <2>2. IsFiniteSet(upTo(i)) /\ Cardinality(upTo(i)) <= c
      BY <1>1, <2>1, FS_Subset
    <2>3. Cardinality(upTo(i)) \in Nat /\ Cardinality(upTo(i)) # 0
      BY <2>1, <2>2, FS_CardinalityType, FS_EmptySet
    <2> QED
      BY <1>1, <2>2, <2>3 DEF Rank
  <1>3. ASSUME NEW i \in I, NEW j \in I, i < j PROVE Rank(I, i) # Rank(I, j)
    <2>1. upTo(i) \in SUBSET upTo(j) /\ j \in upTo(j) /\ j \notin upTo(i)
      <3>1. I \subseteq Int
        OBVIOUS
      <3>2. (\A k \in I : k <= i => k <= j) /\ j <= j /\ ~(j <= i)
        BY <1>3, <3>1
      <3> QED
        BY <3>2, Zenon
    <2>2. upTo(i) # upTo(j) /\ IsFiniteSet(upTo(j))
      BY <1>2, <2>1
    <2>3. Cardinality(upTo(i)) # Cardinality(upTo(j))
      BY <1>2, <2>1, <2>2, FS_Subset
    <2> QED
      BY <2>3 DEF Rank
  <1>4. \A i, j \in I : Rank(I, i) = Rank(I, j) => i = j
    <2>1. \A i \in I : i \in Int
      OBVIOUS
    <2>2. \A i, j \in I : i = j \/ i < j \/ j < i
      BY <2>1
    <2> QED
      BY <1>3, <2>2
  <1>5. rank \in Injection(I, 1..c)
    BY <1>2, <1>4, Zenon DEF Injection, IsInjective
  <1>6. IsFiniteSet(1..c) /\ Cardinality(1..c) = c
    BY <1>1, FS_Interval
  <1>7. rank \in Surjection(I, 1..c)
    BY <1>5, <1>6, FS_Injection
  <1>8. \A k \in 1..c : \E i \in I : Rank(I, i) = k
    BY <1>7 DEF Surjection
  <1>9. ASSUME NEW k \in 1..c PROVE Place(I, k) \in I /\ Rank(I, Place(I, k)) = k
    <2>1. \E i \in I : Cardinality({j \in I : j <= i}) = k
      BY <1>8 DEF Rank
    <2> QED
      BY <2>1 DEF Place, Rank
  <1> QED
    BY <1>1, <1>4, <1>9

\* A position above all others comes last.
LEMMA PickMore ==
  ASSUME NEW S, NEW s \in Seq(S), NEW n \in Nat, n + 1 <= Len(s), NEW I \in SUBSET (1..n)
  PROVE  /\ Pick(s, I) \in Seq(S)
         /\ Pick(s, I \cup {n + 1}) = Append(Pick(s, I), s[n + 1])
  <1> DEFINE k == n + 1
             J == I \cup {k}
             c == Cardinality(I)
  <1>1. k \in Nat /\ J \in SUBSET (1..k) /\ k \notin I
    <2>1. k \in Nat /\ k \in 1..k /\ (\A i \in 1..n : i \in 1..k) /\ k \notin 1..n
      OBVIOUS
    <2> HIDE DEF k
    <2> QED
      BY <2>1
  <1>2. /\ IsFiniteSet(I) /\ c \in Nat
        /\ \A i, j \in I : Rank(I, i) = Rank(I, j) => i = j
        /\ \A l \in 1..c : Place(I, l) \in I /\ Rank(I, Place(I, l)) = l
    BY Ranks
  <1>3. /\ \A i, j \in J : Rank(J, i) = Rank(J, j) => i = j
        /\ \A l \in 1..Cardinality(J) : Place(J, l) \in J /\ Rank(J, Place(J, l)) = l
    <2> HIDE DEF J, k
    <2> QED
      BY <1>1, Ranks
  <1>4. Cardinality(J) = c + 1
    BY <1>1, <1>2, FS_AddElement
  <1>5. \A i \in I : Rank(J, i) = Rank(I, i)
    <2>1. ASSUME NEW i \in I PROVE {j \in J : j <= i} = {j \in I : j <= i}
      <3>1. ~(k <= i)
        <4>1. i \in 1..n
          OBVIOUS
        <4> QED
          BY <4>1
      <3> HIDE DEF k
      <3> QED
        BY <3>1
    <2> QED
      BY <2>1 DEF Rank
  <1>6. Rank(J, k) = c + 1
    <2>1. \A j \in J : j <= k
      <3>1. \A j \in 1..k : j <= k
        BY <1>1
      <3> HIDE DEF J, k
      <3> QED
        BY <1>1, <3>1
    <2>2. {j \in J : j <= k} = J
      <3> HIDE DEF J, k
      <3> QED
        BY <2>1
    <2> QED
      BY <1>4, <2>2 DEF Rank
  <1>7. k \in J /\ \A i \in I : i \in J
    OBVIOUS
  <1> HIDE DEF J, c
  <1>8. \A l \in 1..c : Place(J, l) = Place(I, l)
    <2>1. ASSUME NEW l \in 1..c PROVE Place(J, l) = Place(I, l)
      <3>1. l \in 1..Cardinality(J)
        BY <1>2, <1>4
      <3>2. Place(J, l) \in J /\ Rank(J, Place(J, l)) = l
        BY <1>3, <3>1
      <3>3. Place(I, l) \in I /\ Rank(J, Place(I, l)) = l
        BY <1>2, <1>5
      <3> QED
        BY <1>3, <1>7, <3>2, <3>3
    <2> QED
      BY <2>1
  <1>9. Place(J, c + 1) = k
    <2>1. c + 1 \in 1..Cardinality(J)
      BY <1>2, <1>4
    <2>2. Place(J, c + 1) \in J /\ Rank(J, Place(J, c + 1)) = c + 1
      BY <1>3, <2>1
    <2> QED
      BY <1>3, <1>6, <1>7, <2>2
  <1>10. DOMAIN s = 1..Len(s) /\ Len(s) \in Nat
    OBVIOUS
  <1>11. (\A i \in I : s[i] \in S) /\ s[k] \in S
    <2>1. \A i \in 1..n : i \in 1..Len(s)
      BY <1>10
    <2>2. k \in 1..Len(s)
      BY <1>10
    <2> HIDE DEF k
    <2> QED
      BY <1>10, <2>1, <2>2
  <1>12. Pick(s, I) = [l \in 1..c |-> s[Place(I, l)]] /\ Pick(s, J) = [l \in 1..(c + 1) |-> s[Place(J, l)]]
    BY <1>4 DEF Pick, c
  <1> DEFINE a == Pick(s, I)
             b == Pick(s, J)
  <1>13. a \in Seq(S) /\ Len(a) = c /\ \A l \in 1..c : a[l] = s[Place(I, l)]
    <2>1. \A l \in 1..c : s[Place(I, l)] \in S
      BY <1>2, <1>11
    <2>2. c \in Nat
      BY <1>2
    <2> QED
      BY <1>12, <2>1, <2>2
  <1>14. b \in Seq(S) /\ Len(b) = c + 1 /\ \A l \in 1..(c + 1) : b[l] = s[Place(J, l)]
    <2>1. ASSUME NEW l \in 1..(c + 1) PROVE s[Place(J, l)] \in S
      <3>1. l \in 1..c \/ l = c + 1
        BY <1>2
      <3> QED
        BY <1>2, <1>8, <1>9, <1>11, <3>1
    <2>2. c + 1 \in Nat
      BY <1>2
    <2> QED
      BY <1>12, <2>1, <2>2
  <1> HIDE DEF a, b, k
  <1>15. /\ Append(a, s[k]) \in Seq(S) /\ Len(Append(a, s[k])) = Len(a) + 1 /\ Len(a) \in Nat
         /\ \A l \in 1..Len(a) : Append(a, s[k])[l] = a[l]
         /\ Append(a, s[k])[Len(a) + 1] = s[k]
    BY <1>11, <1>13, AppendKeeps
  <1>16. \A l \in 1..(c + 1) : b[l] = Append(a, s[k])[l]
    <2>1. ASSUME NEW l \in 1..(c + 1) PROVE b[l] = Append(a, s[k])[l]
      <3>1. CASE l \in 1..c
        BY <1>8, <1>13, <1>14, <1>15, <3>1
      <3>2. CASE l = c + 1
        BY <1>9, <1>13, <1>14, <1>15, <3>2
      <3>3. c \in Nat
        BY <1>2
      <3>4. l \in 1..c \/ l = c + 1
        BY <3>3
      <3> QED
        BY <3>1, <3>2, <3>4
    <2> QED
      BY <2>1
  <1>17. Len(b) = Len(Append(a, s[k]))
    BY <1>13, <1>14, <1>15
  <1>18. b = Append(a, s[k])
    BY <1>14, <1>15, <1>16, <1>17, SameSeq
  <1> QED
    BY <1>13, <1>18 DEF a, b, J, k

\* Append goes to the end of what is behind.
LEMMA AppendBehind ==
  ASSUME NEW S, NEW a \in Seq(S), NEW b \in Seq(S), NEW x \in S
  PROVE  Append(a \o b, x) = a \o Append(b, x)
  OBVIOUS

\* What is dealt of the first n + 1 jobs.
LEMMA DealingMore ==
  ASSUME NEW t \in Threads, NEW m, NEW n \in Nat
  PROVE  /\ Dealing(t, m, n) \in SUBSET (1..n)
         /\ Dealing(t, m, n + 1) =
              IF TargetOf(CallerIndex(t), n) = m THEN Dealing(t, m, n) \cup {n + 1} ELSE Dealing(t, m, n)
  <1>1. Dealing(t, m, n) \in SUBSET (1..n)
    BY DEF Dealing
  <1>2. \A i \in 1..(n + 1) : i \in 1..n \/ i = n + 1
    OBVIOUS
  <1>3. (\A i \in 1..n : i \in 1..(n + 1)) /\ n + 1 \in 1..(n + 1) /\ (n + 1) - 1 = n
    OBVIOUS
  <1>4. \A i : i \in Dealing(t, m, n + 1) <=>
                \/ i \in Dealing(t, m, n)
                \/ i = n + 1 /\ TargetOf(CallerIndex(t), n) = m
    <2>1. ASSUME NEW i PROVE i \in Dealing(t, m, n + 1) <=> i \in 1..(n + 1) /\ TargetOf(CallerIndex(t), i - 1) = m
      BY DEF Dealing
    <2>2. ASSUME NEW i PROVE i \in Dealing(t, m, n) <=> i \in 1..n /\ TargetOf(CallerIndex(t), i - 1) = m
      BY DEF Dealing
    <2>3. ASSUME NEW i PROVE i \in 1..(n + 1) <=> i \in 1..n \/ i = n + 1
      BY <1>2, <1>3
    <2> QED
      BY <1>3, <2>1, <2>2, <2>3
  <1> QED
    BY <1>1, <1>4

\* Nothing is dealt before the first job.
LEMMA NothingPicked ==
  ASSUME NEW S, NEW s \in Seq(S), NEW t, NEW m
  PROVE  Dealing(t, m, 0) = {} /\ Pick(s, {}) = <<>>
  <1>1. Dealing(t, m, 0) = {}
    BY DEF Dealing
  <1>2. Cardinality({}) = 0
    BY FS_EmptySet
  <1>3. Pick(s, {}) = [k \in 1..0 |-> s[Place({}, k)]]
    BY <1>2 DEF Pick
  <1>4. Pick(s, {}) = <<>>
    BY <1>3
  <1> QED
    BY <1>1, <1>4

\* The jobs of the batch lie behind the others, in their order.
LEMMA DealtStep ==
  ASSUME Types, Loops, LockInv, KeptInv, DealtInv, NEW t \in Threads, Step(t)
  PROVE  DealtInv'
  <1> SUFFICES ASSUME NEW u \in Threads, pc'[u] = "assign", NEW m \in Members
               PROVE  inbox'[m] = SubSeq(inbox'[m], 1, kept'[m]) \o Pick(Batch[body'[u]], Dealing(u, m, at'[u]))
    BY DEF DealtInv, Dealing
  <1>0. inbox[m] \in Seq(Jobs) /\ kept[m] \in Nat /\ Len(inbox[m]) \in Nat
    BY DEF Types
  <1>1. CASE u # t
    <2>1. pc[u] = "assign"
      BY <1>1, Moves DEF Foot
    <2>2. inbox' = inbox /\ kept' = kept /\ at'[u] = at[u] /\ body'[u] = body[u]
      BY <1>1, <2>1, HoldsAll, Undisturbed
    <2>3. inbox[m] = SubSeq(inbox[m], 1, kept[m]) \o Pick(Batch[body[u]], Dealing(u, m, at[u]))
      BY <2>1 DEF DealtInv
    <2> QED
      BY <2>2, <2>3
  <1>2. CASE u = t /\ LockNext(t)
    <2>1. at'[t] = 0 /\ inbox' = inbox /\ kept'[m] = Len(inbox[m]) /\ body' = body
      BY <1>2, LastLock
    <2>2. SubSeq(inbox[m], 1, Len(inbox[m])) = inbox[m]
      BY <1>0, PrefixKeeps
    <2>3. Batch[body[t]] \in Seq(Jobs)
      BY Data DEF Types
    <2>4. Pick(Batch[body[t]], Dealing(t, m, 0)) = <<>>
      BY <2>3, NothingPicked
    <2>5. inbox[m] \o <<>> = inbox[m]
      BY <1>0
    <2> QED
      BY <1>2, <2>1, <2>2, <2>4, <2>5
  <1>3. CASE u = t /\ Assign(t)
    <2> DEFINE k == at[t] + 1
               s == Batch[body[t]]
               x == s[k]
               n == TargetOf(CallerIndex(t), at[t])
               front == SubSeq(inbox[m], 1, kept[m])
               I == Dealing(t, m, at[t])
    <2>1. /\ x \in Jobs /\ pc[t] = "assign" /\ at'[t] = k /\ at[t] \in Nat /\ kept' = kept /\ body' = body
          /\ owner[m] = t
          /\ inbox'[m] = IF m = n THEN Append(inbox[m], x) ELSE inbox[m]
      BY <1>3, AssignEffect
    <2>2. s \in Seq(Jobs) /\ at[t] + 1 <= Len(s)
      <3>1. s \in Seq(Jobs) /\ at[t] + 1 \in DOMAIN s
        BY <1>3, NextJob
      <3> QED
        BY <3>1
    <2>3. inbox[m] = front \o Pick(s, I)
      BY <2>1 DEF DealtInv
    <2>4. kept[m] <= Len(inbox[m])
      BY <2>1, Ids DEF KeptInv
    <2>5. front \in Seq(Jobs)
      BY <1>0, <2>4, PrefixKeeps
    <2>6. I \in SUBSET (1..at[t]) /\ Dealing(t, m, at[t] + 1) = IF n = m THEN I \cup {at[t] + 1} ELSE I
      <3>1. at[t] \in Nat
        BY <2>1
      <3> QED
        <4>1. PICK l \in Nat : l = at[t]
          BY <3>1
        <4>2. /\ Dealing(t, m, l) \in SUBSET (1..l)
              /\ Dealing(t, m, l + 1) =
                   IF TargetOf(CallerIndex(t), l) = m THEN Dealing(t, m, l) \cup {l + 1} ELSE Dealing(t, m, l)
          BY DealingMore
        <4> QED
          BY <4>1, <4>2
    <2>7. Pick(s, I) \in Seq(Jobs) /\ Pick(s, I \cup {at[t] + 1}) = Append(Pick(s, I), s[at[t] + 1])
      <3> HIDE DEF s, I
      <3> QED
        BY <2>1, <2>2, <2>6, PickMore
    <2>8. CASE m = n
      <3>1. inbox'[m] = Append(inbox[m], x)
        BY <2>1, <2>8
      <3>2. SubSeq(inbox'[m], 1, kept[m]) = front
        BY <1>0, <2>1, <2>4, <3>1, PrefixOfAppend
      <3>3. Pick(s, Dealing(t, m, k)) = Append(Pick(s, I), x)
        BY <2>6, <2>7, <2>8
      <3> HIDE DEF x, s, I, front, n, k
      <3>4. Append(front \o Pick(s, I), x) = front \o Append(Pick(s, I), x)
        <4>1. x \in Jobs
          BY <2>1
        <4>2. Pick(s, I) \in Seq(Jobs)
          BY <2>7
        <4> QED
          <5>1. \A a, b \in Seq(Jobs), y \in Jobs : Append(a \o b, y) = a \o Append(b, y)
            BY AppendBehind
          <5> QED
            BY <2>5, <4>1, <4>2, <5>1, Zenon
      <3>5. inbox'[m] = front \o Pick(s, Dealing(t, m, k))
        BY <2>3, <3>1, <3>3, <3>4
      <3> QED
        BY <1>3, <2>1, <3>2, <3>5 DEF s
    <2>9. CASE m # n
      <3>1. inbox'[m] = inbox[m]
        BY <2>1, <2>9
      <3>2. Dealing(t, m, k) = I
        BY <2>6, <2>9
      <3> QED
        BY <1>3, <2>1, <2>3, <3>1, <3>2
    <2> QED
      BY <2>8, <2>9
  <1>4. ~(u = t) \/ LockNext(t) \/ Assign(t)
    <2>1. ASSUME Assigned(t) \/ IteratorPanics(t) PROVE pc'[t] # "assign"
      BY <2>1 DEF Assigned, IteratorPanics, Goto, Types
    <2>2. ASSUME Release(t) PROVE pc'[t] # "assign"
      BY <2>2, ReleaseEffect
    <2>3. ASSUME Rests(t) PROVE pc'[t] # "assign"
      <3>1. pc \in [Threads -> PCs]
        BY DEF Types
      <3> QED
        BY <2>3, <3>1 DEF Rests, Goto
    <2>4. ASSUME NEW l \in Members, Takes(t, l) PROVE pc'[t] # "assign"
      <3>1. pc'[t] = "idle" \/ pc'[t] = "lock"
        BY <2>4, TakeEffect
      <3> QED
        BY <3>1
    <2> QED
      BY <2>1, <2>2, <2>3, <2>4, Kinds
  <1> QED
    BY <1>1, <1>2, <1>3, <1>4
-----------------------------------------------------------------------------
(***************************************************************************)
(* The invariant.                                                          *)
(***************************************************************************)
LEMMA Start == Init => IInv
  <1> SUFFICES ASSUME Init PROVE IInv
    OBVIOUS
  <1>0. N \in Nat \ {0} /\ Members = 0..N /\ 0 \in Members /\ Threads = 0..(N + 1) /\ NoThread \notin Threads
    BY Ids
  <1>1. /\ Call \in [{Host, Helper} -> Bodies \ Jobs] /\ Call[Host] # Call[Helper]
        /\ DOMAIN Call = {Host, Helper}
    BY InboxAssumption
  <1>2. \A t \in Threads : pc[t] = IF t \in {Host, Helper} THEN "lock" ELSE "idle"
    BY <1>1 DEF Init
  <1>3. \A t \in Threads : body[t] = IF t \in {Host, Helper} THEN Call[t] ELSE Call[Host]
    BY <1>1 DEF Init
  <1>4. \A t \in Threads : at[t] = 0
    BY DEF Init
  <1>5. \A m \in Members : inbox[m] = <<>> /\ owner[m] = NoThread /\ kept[m] = 0
    BY DEF Init
  <1>6. Types
    <2>1. pc \in [Threads -> PCs] /\ at \in [Threads -> Nat]
      BY DEF Init, PCs
    <2>2. body \in [Threads -> Bodies]
      BY <1>1 DEF Init
    <2> QED
      BY <2>1, <2>2 DEF Init, Types
  <1>7. Loops
    BY <1>0, <1>2, <1>4 DEF Loops
  <1>8. LockInv
    <2>1. \A m \in Members : ~(m < 0)
      BY <1>0
    <2> QED
      BY <1>0, <1>2, <1>4, <1>5, <2>1 DEF LockInv, Held
  <1>9. KeptInv
    BY <1>0, <1>5 DEF KeptInv
  <1>10. BodyInv
    <2>1. \A t \in Threads : Publishing(t) => t \in {Host, Helper} /\ body[t] = Call[t]
      BY <1>2, <1>3 DEF Publishing
    <2>2. settled = {}
      BY DEF Init
    <2> QED
      BY <1>1, <2>1, <2>2 DEF BodyInv
  <1>11. \A x \in Jobs : closure[x] = Unmade
    BY DEF Init
  <1>12. MadeInv
    <2>1. ASSUME NEW b \in Bodies, NEW i \in DOMAIN Batch[b] PROVE Batch[b][i] \in Jobs
      BY Data
    <2> QED
      BY <1>11, <2>1 DEF MadeInv
  <1>13. \A m \in Members : DOMAIN inbox[m] = {}
    BY <1>5
  <1>14. OnePlace /\ ClosureInv
    <2>1. \A x : ~Queued(x)
      BY <1>13 DEF Queued, Range
    <2> QED
      BY <1>11, <1>13, <2>1 DEF OnePlace, ClosureInv
  <1>15. SharesInv /\ FairShares /\ DealtInv
    BY <1>2 DEF SharesInv, FairShares, DealtInv
  <1> QED
    BY <1>6, <1>7, <1>8, <1>9, <1>10, <1>12, <1>14, <1>15 DEF IInv

\* The invariant is inductive.
LEMMA Stays == IInv /\ [Next]_vars => IInv'
  <1>1. ASSUME IInv, NEW t \in Threads, Step(t) PROVE IInv'
    <2>1. Types /\ Loops /\ LockInv /\ KeptInv /\ BodyInv /\ MadeInv /\ OnePlace /\ ClosureInv
      BY <1>1 DEF IInv
    <2>2. SharesInv /\ FairShares /\ DealtInv
      BY <1>1 DEF IInv
    <2>3. Types' /\ Loops' /\ LockInv' /\ KeptInv'
      BY <1>1, <2>1, TypesStep, LoopsStep, LockStep, KeptStep
    <2>4. BodyInv' /\ MadeInv' /\ OnePlace' /\ ClosureInv'
      BY <1>1, <2>1, BodyStep, MadeStep, PlaceStep, ClosureStep
    <2>5. SharesInv' /\ FairShares' /\ DealtInv'
      BY <1>1, <2>1, <2>2, SharesStep, FairStep, DealtStep
    <2> QED
      BY <2>3, <2>4, <2>5 DEF IInv
  <1>2. ASSUME IInv, vars' = vars PROVE IInv'
    <2> USE <1>2 DEF vars
    <2>1. Types' /\ Loops' /\ LockInv' /\ KeptInv'
      BY DEF IInv, Types, Loops, LockInv, Held, KeptInv
    <2>2. BodyInv' /\ MadeInv'
      BY DEF IInv, BodyInv, Publishing, MadeInv
    <2>3. OnePlace' /\ ClosureInv'
      BY DEF IInv, OnePlace, ClosureInv, Queued
    <2>4. SharesInv' /\ FairShares' /\ DealtInv'
      BY DEF IInv, SharesInv, FairShares, DealtInv
    <2> QED
      BY <2>1, <2>2, <2>3, <2>4 DEF IInv
  <1> QED
    BY <1>1, <1>2 DEF Next

\* The inductive invariant of batch publication: locks are held as a prefix in
\* index order, shares are dealt in turns, every closure is in one place.
THEOREM Invariance == Spec => []IInv
  BY Start, Stays, PTL DEF Spec

\* Batches are published one at a time although each publisher takes N + 1
\* locks, for every number of workers: whoever holds a lock holds the first one.
THEOREM OneAtATime == Spec => []OnePublisher
  <1>1. IInv => OnePublisher
    <2> SUFFICES ASSUME Types, Loops, LockInv, NEW t \in Threads, NEW u \in Threads,
                        Holding(t) # {}, Holding(u) # {}
                 PROVE  t = u
      BY DEF IInv, OnePublisher
    <2>1. PICK m \in Members : owner[m] = t
      BY DEF Holding
    <2>2. PICK n \in Members : owner[n] = u
      BY DEF Holding
    <2>3. owner[0] = t /\ owner[0] = u
      BY <2>1, <2>2, HolderHoldsFirst
    <2> QED
      BY <2>3
  <1> QED
    BY <1>1, Invariance, PTL

\* Round-robin: for every batch and every number of workers, when the iterator
\* is exhausted no participant has more than one job less than the caller, none
\* has more, and a host that is not in a call has none.
THEOREM SharesAreFair == Spec => []FairShares
  <1>1. IInv => FairShares
    BY DEF IInv
  <1> QED
    BY <1>1, Invariance, PTL

\* No closure is run twice, dropped after it ran, or lost with what it captured,
\* through nested batches, panicking iterators and thieves.
THEOREM UsedOnce == Spec => []ClosuresUsedOnce
  <1>1. IInv => ClosuresUsedOnce
    BY DEF IInv, ClosureInv, Queued, ClosuresUsedOnce
  <1> QED
    BY <1>1, Invariance, PTL
-----------------------------------------------------------------------------
(***************************************************************************)
(* The refinement.                                                         *)
(***************************************************************************)
Visible == [m \in Members |-> Published(m)]

\* A step of t shows nothing of an inbox that t does not hold or touch.
LEMMA SeenSame ==
  ASSUME Types, NEW t \in Threads, Step(t), NEW m \in Members,
         owner[m] # t, owner'[m] = owner[m], inbox'[m] = inbox[m], kept'[m] = kept[m]
  PROVE  Published(m)' = Published(m)
  <1>1. \A u \in Threads \ {t} : pc'[u] = pc[u]
    BY Moves DEF Foot
  <1>2. owner[m] \in Threads \cup {NoThread}
    BY DEF Types
  <1>3. owner[m] # NoThread => pc'[owner[m]] = pc[owner[m]]
    BY <1>1, <1>2
  <1> QED
    BY <1>3 DEF Published

\* Nothing is seen of locking, assigning and releasing.
LEMMA Unseen ==
  ASSUME Types, Loops, LockInv, KeptInv, NEW t \in Threads, Step(t),
         LockNext(t) \/ Assign(t) \/ IteratorPanics(t) \/ Release(t) \/ Rests(t)
  PROVE  Visible' = Visible
  <1>0. t # NoThread /\ N \in Nat /\ Members = 0..N
    BY Ids
  <1> SUFFICES ASSUME NEW m \in Members PROVE Published(m)' = Published(m)
    BY DEF Visible
  <1>1. inbox[m] \in Seq(Jobs) /\ kept[m] \in Nat /\ Len(inbox[m]) \in Nat
    BY DEF Types
  <1>2. pc \in [Threads -> PCs] /\ at \in [Threads -> Nat]
    BY DEF Types
  <1>3. CASE LockNext(t)
    <2>1. at[t] \in Members /\ pc[t] = "lock" /\ pc'[t] \in {"lock", "assign"} /\ owner[at[t]] = NoThread
      BY <1>2, <1>3 DEF LockNext, LockOrder, Loops, Goto
    <2>2. /\ owner'[m] = IF m = at[t] THEN t ELSE owner[m]
          /\ kept'[m] = IF m = at[t] THEN Len(inbox[m]) ELSE kept[m]
          /\ inbox'[m] = inbox[m]
      BY <1>3, <2>1 DEF LockNext, LockOrder, Types
    <2>3. CASE m = at[t]
      <3>1. SubSeq(inbox[m], 1, Len(inbox[m])) = inbox[m]
        BY <1>1, PrefixKeeps
      <3>2. Published(m)' = SubSeq(inbox'[m], 1, kept'[m])
        BY <1>0, <2>1, <2>2, <2>3 DEF Published
      <3>3. Published(m) = inbox[m]
        BY <2>1, <2>3 DEF Published
      <3> QED
        BY <2>2, <2>3, <3>1, <3>2, <3>3
    <2>4. CASE m # at[t] /\ owner[m] = t
      BY <1>0, <2>1, <2>2, <2>4 DEF Published
    <2>5. CASE m # at[t] /\ owner[m] # t
      BY <2>2, <2>5, SeenSame
    <2> QED
      BY <2>3, <2>4, <2>5
  <1>4. CASE Assign(t)
    <2> DEFINE x == Batch[body[t]][at[t] + 1]
               n == TargetOf(CallerIndex(t), at[t])
    <2>1. /\ x \in Jobs /\ pc[t] = "assign" /\ pc'[t] = "assign" /\ kept' = kept /\ owner' = owner
          /\ owner[m] = t
          /\ inbox'[m] = IF m = n THEN Append(inbox[m], x) ELSE inbox[m]
      BY <1>4, AssignEffect
    <2> HIDE DEF x, n
    <2>2. kept[m] <= Len(inbox[m])
      BY <1>0, <2>1 DEF KeptInv
    <2>3. SubSeq(Append(inbox[m], x), 1, kept[m]) = SubSeq(inbox[m], 1, kept[m])
      BY <1>1, <2>1, <2>2, PrefixOfAppend
    <2>4. SubSeq(inbox'[m], 1, kept'[m]) = SubSeq(inbox[m], 1, kept[m])
      BY <2>1, <2>3
    <2>5. Published(m)' = SubSeq(inbox'[m], 1, kept'[m]) /\ Published(m) = SubSeq(inbox[m], 1, kept[m])
      BY <1>0, <2>1 DEF Published
    <2> QED
      BY <2>4, <2>5
  <1>5. CASE IteratorPanics(t)
    <2>1. /\ pc[t] = "assign" /\ pc'[t] = "rollback" /\ kept' = kept /\ owner' = owner /\ inbox' = inbox
      BY <1>2, <1>5 DEF IteratorPanics, Goto
    <2>2. owner[m] = t
      BY <2>1, HoldsAll
    <2> QED
      BY <1>0, <2>1, <2>2 DEF Published
  <1>6. CASE Release(t)
    <2>1. /\ at[t] \in Members /\ at[t] \in 0..N /\ owner[at[t]] = t
      BY <1>6, LeftKeeps
    <2>2. /\ pc[t] \in {"release", "rollback"} /\ kept' = kept
          /\ \/ at[t] = 0 /\ pc'[t] = "idle"
             \/ at[t] # 0 /\ pc'[t] = pc[t] /\ at'[t] = at[t] - 1
          /\ inbox'[m] = IF m = at[t] THEN Left(t) ELSE inbox[m]
          /\ owner'[m] = IF m = at[t] THEN NoThread ELSE owner[m]
      BY <1>6, ReleaseEffect
    <2>3. CASE m = at[t]
      <3>1. Published(m)' = Left(t)
        BY <2>2, <2>3 DEF Published
      <3>2. Published(m) = Left(t)
        BY <1>0, <2>1, <2>2, <2>3 DEF Published, Left
      <3> QED
        BY <3>1, <3>2
    <2>4. CASE m # at[t] /\ owner[m] = t
      <3>1. m <= at[t]
        BY <2>2, <2>4 DEF LockInv, Held
      <3>2. at[t] # 0
        BY <1>0, <2>4, <3>1
      <3> QED
        BY <1>0, <2>2, <2>4, <3>2 DEF Published
    <2>5. CASE m # at[t] /\ owner[m] # t
      BY <2>2, <2>5, SeenSame
    <2> QED
      BY <2>3, <2>4, <2>5
  <1>7. CASE Rests(t)
    <2>1. inbox' = inbox /\ owner' = owner /\ kept' = kept /\ pc[t] \in {"idle", "pop"}
      BY <1>7 DEF Rests
    <2>2. owner[m] # t
      BY <2>1 DEF LockInv, Held
    <2> QED
      BY <2>1, <2>2, SeenSame
  <1> QED
    BY <1>3, <1>4, <1>5, <1>6, <1>7

\* Pick in the instance is Pick.
LEMMA SamePick == ASSUME NEW s, NEW I PROVE BI!Pick(s, I) = Pick(s, I)
  <1>1. ASSUME NEW T PROVE BI!Cardinality(T) = Cardinality(T)
    BY Zenon DEF BI!Cardinality, Cardinality
  <1>2. ASSUME NEW k PROVE BI!Place(I, k) = Place(I, k)
    BY <1>1, Zenon DEF BI!Place, Place
  <1> QED
    BY <1>1, <1>2, Zenon DEF BI!Pick, Pick

\* The steps of BatchInboxes.
LEMMA StepMapped ==
  ASSUME IInv, NEW t \in Threads, Step(t)
  PROVE  BI!BINext \/ UNCHANGED BI!biVars
  <1>0. Types /\ Loops /\ LockInv /\ KeptInv /\ OnePlace /\ DealtInv
    BY DEF IInv
  <1> DEFINE full == {b \in Bodies : Batch[b] # <<>>}
             some == [b \in {x \in Bodies : Batch[x] # <<>>} |-> Batch[b]]
  <1>1. DOMAIN some = full /\ \A b \in full : some[b] = Batch[b]
    OBVIOUS
  <1>2. t # NoThread /\ CallerIndex(t) \in Members
    BY Ids
  <1>3. ASSUME Visible' = Visible, settled' = settled, taken' = taken PROVE UNCHANGED BI!biVars
    BY <1>3 DEF BI!biVars, Visible
  <1>4. CASE LockNext(t)
    <2>1. Visible' = Visible /\ settled' = settled /\ taken' = taken
      BY <1>0, <1>4, Unseen DEF LockNext
    <2> QED
      BY <1>3, <2>1
  <1>5. CASE Assign(t)
    <2>1. Visible' = Visible /\ settled' = settled /\ taken' = taken
      BY <1>0, <1>5, Unseen DEF Assign
    <2> QED
      BY <1>3, <2>1
  <1>6. CASE Release(t)
    <2>1. Visible' = Visible /\ settled' = settled /\ taken' = taken
      BY <1>0, <1>6, Unseen DEF Release
    <2> QED
      BY <1>3, <2>1
  <1>7. CASE Rests(t)
    <2>1. Visible' = Visible /\ settled' = settled /\ taken' = taken
      BY <1>0, <1>7, Unseen DEF Rests
    <2> QED
      BY <1>3, <2>1
  <1>8. ASSUME Publishing(t), settled' = settled \cup {body[t]}
        PROVE  /\ body[t] \in full =>
                    body[t] \in full \ settled /\ full \ settled' = (full \ settled) \ {body[t]}
               /\ body[t] \notin full => full \ settled' = full \ settled
    <2>1. body[t] \notin settled
      BY <1>8 DEF IInv, BodyInv
    <2> HIDE DEF full
    <2> QED
      BY <1>8, <2>1
  <1>9. CASE IteratorPanics(t)
    <2>1. Visible' = Visible /\ settled' = settled \cup {body[t]} /\ taken' = taken /\ Publishing(t)
      BY <1>0, <1>9, Unseen DEF IteratorPanics, Publishing
    <2>2. CASE body[t] \in full
      <3>1. body[t] \in full \ settled /\ full \ settled' = (full \ settled) \ {body[t]}
        BY <1>8, <2>1, <2>2
      <3>2. PICK b \in full : b = body[t]
        BY <2>2
      <3>3. b \in full \ settled /\ full \ settled' = (full \ settled) \ {b}
        BY <3>1, <3>2
      <3>4. BI!GiveUpBatch(b)
        BY <2>1, <3>3 DEF BI!GiveUpBatch, Visible
      <3>5. b \in DOMAIN some
        BY <1>1
      <3> QED
        BY <3>4, <3>5 DEF BI!BINext
    <2>3. CASE body[t] \notin full
      <3>1. full \ settled' = full \ settled
        BY <1>8, <2>1, <2>3
      <3> QED
        BY <2>1, <3>1 DEF BI!biVars, Visible
    <2> QED
      BY <2>2, <2>3
  <1>10. CASE Assigned(t)
    <2>1. /\ pc[t] = "assign" /\ pc'[t] = "release"
          /\ at[t] = Len(Batch[body[t]]) /\ settled' = settled \cup {body[t]}
          /\ inbox' = inbox /\ owner' = owner /\ kept' = kept /\ taken' = taken /\ Publishing(t)
      BY <1>0, <1>10 DEF Assigned, Goto, Types, Publishing
    <2> DEFINE s == Batch[body[t]]
               target == [i \in DOMAIN s |-> TargetOf(CallerIndex(t), i - 1)]
    <2>2. s \in Seq(Jobs) /\ DOMAIN s = 1..at[t] /\ at[t] \in Nat
      <3>1. s \in Seq(Jobs) /\ at[t] \in Nat
        BY <1>0, Data DEF Types
      <3> QED
        BY <2>1, <3>1
    <2>3. target \in [DOMAIN s -> Members]
      <3>1. ASSUME NEW i \in DOMAIN s PROVE TargetOf(CallerIndex(t), i - 1) \in Members
        <4>1. i - 1 \in Nat
          BY <2>2
        <4> QED
          BY <1>2, <4>1, Target
      <3> QED
        BY <3>1
    <2>4. ASSUME NEW m \in Members
          PROVE  /\ Published(m) = SubSeq(inbox[m], 1, kept[m]) /\ Published(m)' = inbox[m]
                 /\ inbox[m] = Published(m) \o Pick(s, Dealing(t, m, at[t]))
      <3>1. owner[m] = t
        BY <1>0, <2>1, HoldsAll
      <3>2. Published(m) = SubSeq(inbox[m], 1, kept[m])
        BY <1>2, <2>1, <3>1 DEF Published
      <3>3. Published(m)' = inbox[m]
        BY <2>1, <3>1 DEF Published
      <3>4. inbox[m] = SubSeq(inbox[m], 1, kept[m]) \o Pick(s, Dealing(t, m, at[t]))
        BY <1>0, <2>1 DEF DealtInv
      <3> QED
        BY <3>2, <3>3, <3>4
    <2>5. CASE body[t] \in full
      <3>1. body[t] \in full \ settled /\ full \ settled' = (full \ settled) \ {body[t]}
        BY <1>8, <2>1, <2>5
      <3>2. PICK b \in full : b = body[t]
        BY <2>5
      <3>3. some[b] = s /\ b \in DOMAIN some
        BY <1>1, <3>2
      <3>4. ASSUME NEW m \in Members PROVE BI!Dealt(b, target, m) = Pick(s, Dealing(t, m, at[t]))
        <4>1. {i \in DOMAIN s : target[i] = m} = Dealing(t, m, at[t])
          BY <2>2 DEF Dealing
        <4> HIDE DEF s, target
        <4>2. BI!Dealt(b, target, m) = BI!Pick(some[b], {i \in DOMAIN some[b] : target[i] = m})
          BY DEF BI!Dealt
        <4> HIDE DEF some
        <4>3. BI!Dealt(b, target, m) = BI!Pick(s, Dealing(t, m, at[t]))
          BY <3>3, <4>1, <4>2
        <4> QED
          BY <4>3, SamePick
      <3>5. ASSUME NEW m \in Members PROVE Published(m)' = Visible[m] \o BI!Dealt(b, target, m)
        BY <2>4, <3>4 DEF Visible
      <3>6. Visible' = [m \in Members |-> Visible[m] \o BI!Dealt(b, target, m)]
        <4>1. Visible' = [m \in Members |-> Published(m)']
          BY DEF Visible
        <4> QED
          BY <3>5, <4>1
      <3> HIDE DEF target
      <3>7. \E f \in [DOMAIN some[b] -> Members] :
              Visible' = [m \in Members |-> Visible[m] \o BI!Dealt(b, f, m)]
        BY <2>3, <3>3, <3>6
      <3>8. b \in full \ settled /\ full \ settled' = (full \ settled) \ {b}
        BY <3>1, <3>2
      <3>9. BI!PublishWhole(b)
        BY <2>1, <3>7, <3>8 DEF BI!PublishWhole, Visible
      <3> QED
        BY <3>3, <3>9 DEF BI!BINext
    <2>6. CASE body[t] \notin full
      <3>1. s = <<>> /\ at[t] = 0
        <4>1. body[t] \in Bodies
          BY <1>0 DEF Types
        <4>2. s = <<>>
          BY <2>6, <4>1
        <4> QED
          BY <2>1, <4>2
      <3>2. ASSUME NEW m \in Members PROVE Published(m)' = Published(m)
        <4>1. Dealing(t, m, 0) = {} /\ Pick(s, {}) = <<>>
          BY <2>2, NothingPicked
        <4>2. inbox[m] \in Seq(Jobs) /\ kept[m] <= Len(inbox[m]) /\ kept[m] \in Nat
          <5>1. owner[m] = t
            BY <1>0, <2>1, HoldsAll
          <5> QED
            BY <1>0, <1>2, <5>1 DEF Types, KeptInv
        <4>3. SubSeq(inbox[m], 1, kept[m]) \in Seq(Jobs)
          BY <4>2, PrefixKeeps
        <4>4. SubSeq(inbox[m], 1, kept[m]) \o <<>> = SubSeq(inbox[m], 1, kept[m])
          BY <4>3
        <4> QED
          BY <2>4, <3>1, <4>1, <4>4
      <3>3. Visible' = Visible
        BY <3>2 DEF Visible
      <3>4. full \ settled' = full \ settled
        BY <1>8, <2>1, <2>6
      <3> QED
        BY <2>1, <3>3, <3>4 DEF BI!biVars, Visible
    <2> QED
      BY <2>5, <2>6
  <1>11. ASSUME NEW m \in Members, Takes(t, m) PROVE BI!BINext
    <2> DEFINE x == Head(inbox[m])
    <2>1. /\ inbox[m] # <<>> /\ owner[m] = NoThread /\ \A n \in Members : owner[n] # t
          /\ \A n \in Members : inbox'[n] = IF n = m THEN Tail(inbox[n]) ELSE inbox[n]
          /\ owner' = owner /\ kept' = kept /\ settled' = settled
      BY <1>0, <1>11, TakeEffect
    <2>2. taken' = taken \cup {Head(inbox[m])}
      BY <1>11 DEF Takes, TakeAndRun
    <2>3. Published(m) = inbox[m] /\ Published(m)' = Tail(inbox[m])
      BY <2>1 DEF Published
    <2>4. ASSUME NEW n \in Members, n # m PROVE Published(n)' = Published(n)
      BY <1>0, <2>1, <2>4, SeenSame
    <2>5. Visible[m] = inbox[m]
      BY <2>3 DEF Visible
    <2>6. Visible' = [Visible EXCEPT ![m] = Tail(Visible[m])]
      <3>1. Visible' = [n \in Members |-> Published(n)']
        BY DEF Visible
      <3>2. \A n \in Members : Published(n)' = IF n = m THEN Tail(Visible[m]) ELSE Visible[n]
        BY <2>3, <2>4, <2>5 DEF Visible
      <3>3. Visible = [n \in Members |-> Visible[n]]
        BY DEF Visible
      <3> QED
        BY <3>1, <3>2, <3>3
    <2>7. BI!TakeOldest(m)
      BY <2>1, <2>2, <2>5, <2>6 DEF BI!TakeOldest, Visible
    <2> QED
      BY <2>7 DEF BI!BINext
  <1> QED
    BY <1>0, <1>4, <1>5, <1>6, <1>7, <1>9, <1>10, <1>11, Kinds

\* with_batch_inboxes publishes all or nothing, for every number of workers and
\* every program of nested batches: InboxLocks implements BatchInboxes.
THEOREM BatchesWhole == Spec => AllOrNothing
  <1>1. Init => BI!BIInit
    <2> SUFFICES ASSUME Init PROVE BI!BIInit
      OBVIOUS
    <2>1. \A m \in Members : Published(m) = <<>>
      BY DEF Init, Published
    <2>2. [m \in Members |-> Published(m)] = [m \in Members |-> <<>>]
      BY <2>1
    <2>3. settled = {} /\ taken = {}
      BY DEF Init
    <2> QED
      BY <2>2, <2>3 DEF BI!BIInit
  <1>2. IInv /\ [Next]_vars => [BI!BINext]_(BI!biVars)
    <2>1. ASSUME IInv, Next PROVE BI!BINext \/ UNCHANGED BI!biVars
      BY <2>1, StepMapped DEF Next
    <2>2. ASSUME vars' = vars PROVE UNCHANGED BI!biVars
      BY <2>2 DEF vars, BI!biVars, Published
    <2> QED
      BY <2>1, <2>2
  <1> QED
    BY <1>1, <1>2, Invariance, PTL DEF Spec, AllOrNothing, BI!BISpec
=============================================================================
