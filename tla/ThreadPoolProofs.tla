-------------------------- MODULE ThreadPoolProofs --------------------------
(***************************************************************************)
(* Proofs about ThreadPool, for every number of workers, every capacity    *)
(* and every program of pushes, scopes and batches: the inductive          *)
(* invariant IInv, and from it every invariant that the runs check.        *)
(***************************************************************************)
EXTENDS ThreadPool, FiniteSetTheorems, SequenceTheorems, TLAPS

\* Where each thread may be, and the conjuncts of TypeOK in groups.
Home(t) ==
  IF t \in Workers THEN WorkerPCs ELSE IF t = Host THEN HostPCs
  ELSE IF t = Pusher THEN {"idle", "wake", "unpark"} ELSE ScopePCs \cup {"outside"}

Placed == DOMAIN pc = Threads /\ DOMAIN at = Threads

PlaceTypes ==
  /\ Placed
  /\ \A t \in Threads : pc[t] \in Home(t) /\ at[t] \in -1..(N + 1)
  /\ start \in [Finders -> Members]

SleepTypes == sleepers \in Seq(Workers) /\ token \in [Workers -> BOOLEAN]

WorkTypes ==
  /\ queue \in Seq(Jobs)
  /\ deque \in [Finders -> Seq(Jobs)] /\ inbox \in [Finders -> Seq(Jobs)]
  /\ flight \in [Finders -> Seq(Jobs)] /\ hand \in [Finders -> Seq(Bodies)]
  /\ fresh \subseteq Jobs /\ ran \subseteq Jobs

FlagTypes == running \in BOOLEAN /\ init \in BOOLEAN /\ slots \subseteq Members

\* The lock of sleepers is held by the worker that checks for work.
LockInv ==
  /\ lock \in Workers \cup {NoThread}
  /\ \A w \in Workers : (lock = w) <=> pc[w] \in {"check", "scan"}

\* Indices of loops that TypeOK does not bound.
Loops ==
  /\ \A t \in Finders : pc[t] = "batch" => at[t] \in Members
  /\ \A t \in Threads : pc[t] = "unpark" => at[t] \in Workers

\* While ThreadPool::new runs: which workers are started, which slots written.
Construction ==
  /\ pc[Host] \in {"new", "write"} =>
       /\ at[Host] \in Members /\ slots = 0..(at[Host] - 1)
       /\ \A w \in Workers :
            pc[w] = IF w < at[Host] \/ (w = at[Host] /\ pc[Host] = "write")
                    THEN "warmup" ELSE "unborn"
  /\ pc[Host] = "write" => at[Host] \in Workers
  /\ pc[Host] = "ready" => \A w \in Workers : pc[w] = "warmup"

\* Nobody uses the pool before init_completed, or after shutdown.
Gate ==
  /\ init => /\ pc[Host] \notin {"new", "write", "ready"}
             /\ \A w \in Workers : pc[w] # "unborn"
  /\ ~init => /\ pc[Host] \in {"new", "write", "ready", "stopping", "dropped"}
              /\ pc[Helper] = "outside" /\ pc[Pusher] = "idle"
              /\ \A w \in Workers : pc[w] \in {"unborn", "warmup", "exited"}
  /\ running <=> pc[Host] \notin {"stopping", "dropped"}
  /\ ~running => pc[Helper] = "outside" /\ pc[Pusher] = "idle"
  /\ running => \A w \in Workers : pc[w] # "exited"
  /\ pc[Host] = "ready" \/ (init /\ pc[Host] # "dropped") => slots = Members
  /\ pc[Host] = "dropped" => \A w \in Workers : pc[w] \in {"unborn", "exited"}

\* A thread that waits in run_until is inside a body; below the jobs that the
\* host or the helper runs is its external call.
HandsFull ==
  /\ \A w \in Workers : hand[w] \in Seq(Jobs)
  /\ \A t \in Finders :
       pc[t] \in {"run", "scope", "batch", "batch_wake", "wake", "unpark"} => hand[t] # <<>>
  /\ \A t \in {Host, Helper} :
       /\ hand[t] = <<>> <=> pc[t] \notin ScopePCs
       /\ \A i \in DOMAIN hand[t] : hand[t][i] \in Jobs <=> i > 1

\* Who searches elsewhere has emptied its own deque.
DequeEmpty ==
  /\ \A t \in Finders : flight[t] # <<>> => pc[t] = "publish"
  /\ \A t \in Finders :
       pc[t] \in {"pull", "publish", "steal", "sleep", "check", "scan", "park"} => deque[t] = <<>>

\* The helper takes one job at a time, and runs it before it looks elsewhere.
HelperInv ==
  /\ Len(flight[Helper]) <= 1 /\ Len(deque[Helper]) <= 1 /\ inbox[Helper] = <<>>
  /\ deque[Helper] # <<>> => pc[Helper] = "again"

\* One batch is published at a time.
OneBatch == \A t, u \in Finders : pc[t] = "batch" /\ pc[u] = "batch" => t = u

BatchJobs == UNION {Range(Batch[b]) : b \in Bodies}

\* What the publisher t has not yet put into an inbox.
Pending(t) ==
  {x \in Jobs : \E i \in DOMAIN Batch[Body(t)] :
     x = Batch[Body(t)][i] /\ TargetOf(CallerIndex(t), i - 1) <= at[t]}

\* A job that was submitted is not fresh any more.
FreshInv ==
  /\ fresh \cap ran = {}
  /\ fresh \cap Range(queue) = {}
  /\ \A t \in Finders : /\ fresh \cap Range(deque[t]) = {} /\ fresh \cap Range(inbox[t]) = {}
                        /\ fresh \cap Range(flight[t]) = {} /\ fresh \cap Range(hand[t]) = {}

\* Jobs of a batch go through the inboxes only.
Routes ==
  /\ BatchJobs \cap Range(queue) = {}
  /\ \A t \in Finders : /\ BatchJobs \cap Range(deque[t]) = {} /\ BatchJobs \cap Range(flight[t]) = {}
                        /\ Range(inbox[t]) \subseteq BatchJobs

Unstarted(x) == x \notin fresh \cup ran /\ \A t \in Finders : x \notin Range(hand[t])

\* A job in an inbox is there once, and was not started.
InboxInv ==
  /\ \A m, n \in Members : \A i \in DOMAIN inbox[m], j \in DOMAIN inbox[n] :
       inbox[m][i] = inbox[n][j] => m = n /\ i = j
  /\ \A m \in Members : \A x \in Range(inbox[m]) : Unstarted(x)
  /\ \A t \in Finders : pc[t] = "batch" =>
       \A x \in Pending(t) : Unstarted(x) /\ \A m \in Members : x \notin Range(inbox[m])

\* The jobs in the host's inbox belong to a scope the host is inside of.
HostInbox ==
  \A x \in Range(inbox[Host]) : \E i \in DOMAIN hand[Host] : x \in Kids(hand[Host][i])

Batching(t) == pc[t] \in {"batch", "batch_wake"}

\* A worker that has scanned its own inbox and holds the lock of sleepers.
ScanInv ==
  \A w \in Workers : pc[w] = "scan" /\ at[w] > w /\ inbox[w] # <<>> =>
    \E t \in Finders : Batching(t)

\* A worker that will look at the shared queue before it sleeps.
Alert(w) ==
  /\ pc[w] \notin {"unborn", "scan", "exited"}
  /\ Asleep(w) => \E t \in Threads : pc[t] = "unpark" /\ at[t] = w

\* Who has enqueued a job wakes somebody up, or everybody is awake.
QueueInv ==
  queue # <<>> /\ running =>
    (\E t \in Threads : pc[t] = "wake") \/ (\E w \in Workers : Alert(w))

\* Where jobs are, and what the sleepers with jobs are owed.
Accounts == FreshInv /\ Routes /\ InboxInv /\ HostInbox
Assigned == ScanInv /\ AssignedWorkerWoken

IInv ==
  /\ PlaceTypes /\ SleepTypes /\ WorkTypes /\ FlagTypes /\ LockInv /\ Loops
  /\ Construction /\ Gate /\ HandsFull /\ DequeEmpty /\ HelperInv /\ OneBatch
  /\ Accounts /\ RegistrationsCurrent /\ SleeperReachable /\ Assigned /\ QueueInv
-----------------------------------------------------------------------------
(***************************************************************************)
(* What Pick does: the positions up to each position of I are counted by   *)
(* an injection of I into 1..Cardinality(I), which is therefore onto.      *)
(***************************************************************************)
LEMMA Places ==
  ASSUME NEW n \in Nat, NEW I \in SUBSET (1..n)
  PROVE  /\ Cardinality(I) \in Nat
         /\ \A k \in 1..Cardinality(I) : Place(I, k) \in I
         /\ \A i \in I : \E k \in 1..Cardinality(I) : Place(I, k) = i
         /\ \A k, l \in 1..Cardinality(I) : Place(I, k) = Place(I, l) => k = l
  <1> DEFINE c == Cardinality(I)
             upTo(i) == {j \in I : j <= i}
             rank == [i \in I |-> Cardinality(upTo(i))]
  <1>1. IsFiniteSet(I) /\ c \in Nat
    <2>1. IsFiniteSet(1..n)
      BY FS_Interval
    <2> QED
      BY <2>1, FS_Subset, FS_CardinalityType
  <1>2. ASSUME NEW i \in I
        PROVE  /\ IsFiniteSet(upTo(i))
               /\ Cardinality(upTo(i)) \in 1..c
    <2>1. upTo(i) \in SUBSET I /\ i \in upTo(i)
      OBVIOUS
    <2>2. IsFiniteSet(upTo(i)) /\ Cardinality(upTo(i)) <= c
      BY <1>1, <2>1, FS_Subset
    <2>3. Cardinality(upTo(i)) \in Nat /\ Cardinality(upTo(i)) # 0
      BY <2>1, <2>2, FS_CardinalityType, FS_EmptySet
    <2> QED
      BY <1>1, <2>2, <2>3
  <1>3. ASSUME NEW i \in I, NEW j \in I, i < j
        PROVE  Cardinality(upTo(i)) # Cardinality(upTo(j))
    <2>1. upTo(i) \in SUBSET upTo(j) /\ j \in upTo(j) /\ j \notin upTo(i)
      <3>1. I \subseteq Int
        OBVIOUS
      <3>2. (\A k \in I : k <= i => k <= j) /\ j <= j /\ ~(j <= i)
        BY <1>3, <3>1
      <3> QED
        BY <3>2, Zenon
    <2>2. upTo(i) # upTo(j)
      BY <2>1
    <2> QED
      BY <1>2, <2>1, <2>2, FS_Subset
  <1>4. rank \in [I -> 1..c]
    BY <1>2
  <1>5. ASSUME NEW i \in I, NEW j \in I, rank[i] = rank[j]
        PROVE  i = j
    <2>1. i \in Int /\ j \in Int
      OBVIOUS
    <2> QED
      BY <1>3, <1>5, <2>1
  <1>6. rank \in Injection(I, 1..c)
    BY <1>4, <1>5, Zenon DEF Injection, IsInjective
  <1>7. IsFiniteSet(1..c) /\ Cardinality(1..c) = c
    BY <1>1, FS_Interval
  <1>8. rank \in Surjection(I, 1..c)
    BY <1>6, <1>7, FS_Injection
  <1>9. \A k \in 1..c : \E i \in I : rank[i] = k
    BY <1>8 DEF Surjection
  <1>10. ASSUME NEW k \in 1..c PROVE Place(I, k) \in I /\ rank[Place(I, k)] = k
    <2>1. \E i \in I : Cardinality({j \in I : j <= i}) = k
      BY <1>9
    <2> QED
      BY <2>1 DEF Place
  <1> QED
    BY <1>1, <1>4, <1>5, <1>10

\* Pick takes the elements at the given positions, each once.
LEMMA Picked ==
  ASSUME NEW S, NEW s \in Seq(S), NEW I \in SUBSET DOMAIN s
  PROVE  /\ Pick(s, I) \in Seq(S)
         /\ \A k \in DOMAIN Pick(s, I) : \E i \in I : Pick(s, I)[k] = s[i]
         /\ \A i \in I : \E k \in DOMAIN Pick(s, I) : Pick(s, I)[k] = s[i]
         /\ (\A i, j \in I : s[i] = s[j] => i = j) =>
              \A k, l \in DOMAIN Pick(s, I) : Pick(s, I)[k] = Pick(s, I)[l] => k = l
  <1>1. DOMAIN s = 1..Len(s) /\ Len(s) \in Nat
    OBVIOUS
  <1> DEFINE c == Cardinality(I)
  <1>2. /\ c \in Nat
        /\ \A k \in 1..c : Place(I, k) \in I
        /\ \A i \in I : \E k \in 1..c : Place(I, k) = i
        /\ \A k, l \in 1..c : Place(I, k) = Place(I, l) => k = l
    BY <1>1, Places
  <1>3. Pick(s, I) = [k \in 1..c |-> s[Place(I, k)]]
    BY DEF Pick
  <1> HIDE DEF c
  <1>4. \A i \in I : s[i] \in S
    BY <1>1
  <1>5. Pick(s, I) \in Seq(S)
    BY <1>2, <1>3, <1>4
  <1> QED
    BY <1>2, <1>3, <1>5
-----------------------------------------------------------------------------
(***************************************************************************)
(* The threads, and what a step of each leaves alone.                      *)
(***************************************************************************)
LEMMA Who ==
  /\ Threads = Workers \cup {Host, Pusher, Helper}
  /\ Finders = Workers \cup {Host, Helper}
  /\ Members = Workers \cup {Host}
  /\ Host \notin Workers /\ Pusher \notin Workers /\ Helper \notin Workers
  /\ Host # Pusher /\ Host # Helper /\ Pusher # Helper
  /\ Threads \subseteq Int /\ NoThread \notin Int
  BY PoolAssumption DEF Threads, Workers, Host, Pusher, Helper, Finders, Members

\* Only t moves, from a place of A to one of B.
Foot(t, A, B) ==
  /\ t \in Threads /\ pc[t] \in A /\ pc'[t] \in B
  /\ \A u \in Threads \ {t} : pc'[u] = pc[u] /\ at'[u] = at[u]
  /\ DOMAIN pc' = Threads /\ DOMAIN at' = Threads

SearchFrom == {"top", "look", "again", "pull", "publish", "steal", "run"}
SearchTo == {"top", "look", "again", "pull", "publish", "steal", "run", "exited", "sleep", "outside"}

\* A thread that looks for work touches neither the sleepers nor the life of the pool.
LEMMA SearchFoot ==
  ASSUME Placed, NEW t \in Finders, Search(t)
  PROVE  Foot(t, SearchFrom, SearchTo) /\ UNCHANGED <<sleep, life, fresh>>
  <1> USE Who DEF Foot, Placed, SearchFrom, SearchTo, Goto, GotoAt, Begin, sleep, life, work
  <1>1. CASE LoopTop(t)
    BY <1>1 DEF LoopTop
  <1>2. CASE Until(t)
    BY <1>2 DEF Until
  <1>3. CASE ScopeCompleted(t)
    BY <1>3 DEF ScopeCompleted, Leave
  <1>4. CASE PopOwn(t) \/ PopInbox(t)
    BY <1>4 DEF PopOwn, PopInbox, Take
  <1>5. CASE PopNothing(t)
    BY <1>5 DEF PopNothing
  <1>6. CASE \E n \in 1..CapacityOf(t), s \in Members : Pull(t, n, s)
    BY <1>6 DEF Pull
  <1>7. CASE \E n \in 1..CapacityOf(t) : StealDeque(t, n)
    BY <1>7 DEF StealDeque, Visits
  <1>8. CASE \E s \in Members : PullNothing(t, s)
    BY <1>8 DEF PullNothing
  <1>9. CASE Publish(t)
    BY <1>9 DEF Publish
  <1>10. CASE StealInbox(t)
    BY <1>10 DEF StealInbox, Take, Visits
  <1>11. CASE NextVictim(t)
    BY <1>11 DEF NextVictim, Visits
  <1>12. CASE GiveUp(t)
    BY <1>12 DEF GiveUp
  <1>13. CASE Run(t)
    BY <1>13 DEF Run, Leave
  <1> QED
    BY <1>1, <1>2, <1>3, <1>4, <1>5, <1>6, <1>7, <1>8, <1>9, <1>10, <1>11, <1>12, <1>13 DEF Search
-----------------------------------------------------------------------------
(***************************************************************************)
(* What the operations on queues keep and bring.                           *)
(***************************************************************************)
LEMMA FrontKeeps ==
  ASSUME NEW S, NEW s \in Seq(S)
  PROVE  /\ Front(s) \in Seq(S) /\ Range(Front(s)) \subseteq Range(s)
         /\ s # <<>> => /\ Last(s) \in S /\ Last(s) \in Range(s)
                        /\ Len(Front(s)) = Len(s) - 1
                        /\ \A i \in 1..(Len(s) - 1) : Front(s)[i] = s[i]
                        /\ Last(s) = s[Len(s)] /\ Len(s) \in Nat \ {0}
  <1>1. CASE s = <<>>
    <2>1. Len(s) = 0 /\ Front(s) = SubSeq(s, 1, -1)
      BY <1>1 DEF Front
    <2>2. Front(s) = <<>>
      BY <2>1
    <2> QED
      BY <1>1, <2>2 DEF Range
  <1>2. CASE s # <<>>
    <2>1. Len(s) \in Nat \ {0}
      BY <1>2
    <2> DEFINE n == Len(s)
    <2>2. n \in Nat /\ n - 1 \in 0..n /\ n \in 1..n
      BY <2>1
    <2>3. DOMAIN s = 1..n
      OBVIOUS
    <2>4. Front(s) = SubSeq(s, 1, n - 1)
      BY DEF Front
    <2> HIDE DEF n
    <2>5. /\ Front(s) \in Seq(S) /\ Len(Front(s)) = n - 1
          /\ \A i \in 1..(n - 1) : Front(s)[i] = s[i]
      BY <2>2, <2>3, <2>4
    <2>6. DOMAIN Front(s) = 1..(n - 1)
      BY <2>5
    <2>7. Last(s) = s[n]
      BY DEF Last, n
    <2>8. Range(Front(s)) \subseteq Range(s)
      BY <2>2, <2>3, <2>5, <2>6 DEF Range
    <2>9. Last(s) \in S /\ Last(s) \in Range(s)
      BY <2>2, <2>3, <2>7 DEF Range
    <2> QED
      BY <2>1, <2>5, <2>7, <2>8, <2>9 DEF n
  <1> QED
    BY <1>1, <1>2

\* The oldest element leaves, the others stay.
LEMMA TailKeeps ==
  ASSUME NEW S, NEW s \in Seq(S), s # <<>>
  PROVE  /\ Tail(s) \in Seq(S) /\ Range(Tail(s)) \subseteq Range(s)
         /\ Head(s) \in S /\ Head(s) \in Range(s) /\ Head(s) = s[1]
         /\ Len(s) \in Nat \ {0} /\ Len(Tail(s)) = Len(s) - 1
         /\ \A i \in 1..(Len(s) - 1) : Tail(s)[i] = s[i + 1]
  <1>1. Len(s) \in Nat \ {0}
    OBVIOUS
  <1>2. /\ Tail(s) \in Seq(S) /\ Head(s) = s[1] /\ Len(Tail(s)) = Len(s) - 1
        /\ \A i \in 1..(Len(s) - 1) : Tail(s)[i] = s[i + 1]
    BY <1>1
  <1>3. DOMAIN s = 1..Len(s) /\ DOMAIN Tail(s) = 1..(Len(s) - 1)
    BY <1>1, <1>2
  <1>4. Range(Tail(s)) \subseteq Range(s) /\ Head(s) \in S /\ Head(s) \in Range(s)
    BY <1>1, <1>2, <1>3 DEF Range
  <1> QED
    BY <1>1, <1>2, <1>4

\* An element goes to the end.
LEMMA AppendKeeps ==
  ASSUME NEW S, NEW s \in Seq(S), NEW x \in S
  PROVE  /\ Append(s, x) \in Seq(S) /\ Append(s, x) # <<>>
         /\ Range(Append(s, x)) = Range(s) \cup {x}
         /\ Len(Append(s, x)) = Len(s) + 1 /\ Last(Append(s, x)) = x
         /\ Len(s) \in Nat /\ \A i \in 1..Len(s) : Append(s, x)[i] = s[i]
         /\ Append(s, x)[Len(s) + 1] = x
  <1>1. /\ Append(s, x) \in Seq(S) /\ Len(Append(s, x)) = Len(s) + 1 /\ Len(s) \in Nat
        /\ \A i \in 1..Len(s) : Append(s, x)[i] = s[i]
        /\ Append(s, x)[Len(s) + 1] = x
    OBVIOUS
  <1>2. DOMAIN Append(s, x) = 1..(Len(s) + 1) /\ DOMAIN s = 1..Len(s)
    BY <1>1
  <1>3. Range(Append(s, x)) = Range(s) \cup {x}
    BY <1>1, <1>2 DEF Range
  <1>4. Append(s, x) # <<>> /\ Last(Append(s, x)) = x
    BY <1>1 DEF Last
  <1> QED
    BY <1>1, <1>3, <1>4

\* A batch is taken from the front of a queue.
LEMMA SplitKeeps ==
  ASSUME NEW S, NEW s \in Seq(S), NEW n \in Nat, n <= Len(s)
  PROVE  /\ SubSeq(s, 1, n) \in Seq(S) /\ SubSeq(s, n + 1, Len(s)) \in Seq(S)
         /\ Len(SubSeq(s, 1, n)) = n
         /\ Range(SubSeq(s, 1, n)) \subseteq Range(s)
         /\ Range(SubSeq(s, n + 1, Len(s))) \subseteq Range(s)
         /\ s = <<>> => SubSeq(s, n + 1, Len(s)) = <<>>
  <1> DEFINE l == Len(s)
             a == SubSeq(s, 1, n)
             m == n + 1
             b == SubSeq(s, m, l)
  <1>1. l \in Nat /\ DOMAIN s = 1..l /\ n <= l
    OBVIOUS
  <1>2. /\ a \in Seq(S) /\ Len(a) = n
        /\ \A i \in 1..n : a[i] = s[i]
    BY <1>1
  <1>3. /\ b \in Seq(S) /\ Len(b) = l - n
        /\ \A i \in 1..(l - n) : b[i] = s[n + i]
    <2>1. m \in Int /\ l \in Int /\ \A i \in m..l : s[i] \in S
      <3>1. \A i \in 1..l : s[i] \in S
        OBVIOUS
      <3> HIDE DEF l
      <3>2. \A i \in m..l : i \in 1..l
        BY <1>1
      <3> QED
        BY <1>1, <3>1, <3>2
    <2>2. /\ b \in Seq(S) /\ Len(b) = IF m <= l THEN l - m + 1 ELSE 0
          /\ \A i \in 1..(l - m + 1) : b[i] = s[m + i - 1]
      <3> HIDE DEF m, l
      <3> QED
        BY <2>1, SubSeqProperties
    <2>3. /\ l - m + 1 = l - n /\ (l - n) = IF m <= l THEN l - m + 1 ELSE 0
          /\ \A i \in 1..(l - n) : m + i - 1 = n + i
      <3> HIDE DEF l
      <3>1. l - m + 1 = l - n /\ \A i \in 1..(l - n) : m + i - 1 = n + i
        BY <1>1
      <3>2. CASE m <= l
        BY <3>1, <3>2
      <3>3. CASE ~(m <= l)
        BY <1>1, <3>3
      <3> QED
        BY <3>1, <3>2, <3>3
    <2> HIDE DEF b, m, l
    <2> QED
      BY <2>2, <2>3
  <1> HIDE DEF a, b
  <1>4. DOMAIN a = 1..n /\ DOMAIN b = 1..(l - n)
    BY <1>1, <1>2, <1>3
  <1>5. s = <<>> => l = 0 /\ n = 0
    <2>1. s = <<>> => l = 0
      BY EmptySeq
    <2> HIDE DEF l
    <2> QED
      BY <1>1, <2>1
  <1>6. Range(a) \subseteq Range(s) /\ Range(b) \subseteq Range(s)
    <2>1. (\A i \in 1..n : i \in 1..l) /\ (\A i \in 1..(l - n) : n + i \in 1..l)
      <3> HIDE DEF l
      <3> QED
        BY <1>1
    <2> HIDE DEF l
    <2>2. \A i \in 1..l : s[i] \in Range(s)
      BY <1>1 DEF Range
    <2>3. \A i \in 1..n : a[i] \in Range(s)
      BY <1>2, <2>1, <2>2, Zenon
    <2>4. \A i \in 1..(l - n) : b[i] \in Range(s)
      BY <1>3, <2>1, <2>2, Zenon
    <2> QED
      BY <1>4, <2>3, <2>4, Zenon DEF Range
  <1>7. s = <<>> => Len(b) = 0
    BY <1>3, <1>5
  <1>8. s = <<>> => b = <<>>
    BY <1>3, <1>7
  <1> QED
    BY <1>2, <1>3, <1>6, <1>8 DEF a, b, m

\* A batch goes to the end of a queue.
LEMMA ConcatKeeps ==
  ASSUME NEW S, NEW s \in Seq(S), NEW r \in Seq(S)
  PROVE  /\ s \o r \in Seq(S) /\ Range(s \o r) = Range(s) \cup Range(r)
         /\ Len(s \o r) = Len(s) + Len(r) /\ Len(s) \in Nat /\ Len(r) \in Nat
         /\ \A i \in 1..Len(s) : (s \o r)[i] = s[i]
         /\ \A i \in 1..Len(r) : (s \o r)[Len(s) + i] = r[i]
         /\ r = <<>> => s \o r = s
         /\ s = <<>> => s \o r = r
  <1> DEFINE c == s \o r
             k == Len(s)
             l == Len(r)
  <1>1. /\ c \in Seq(S) /\ Len(c) = k + l /\ k \in Nat /\ l \in Nat
        /\ \A i \in 1..k : c[i] = s[i]
        /\ \A i \in 1..l : c[k + i] = r[i]
        /\ DOMAIN s = 1..k /\ DOMAIN r = 1..l
    OBVIOUS
  <1>2. (r = <<>> => s \o r = s) /\ (s = <<>> => s \o r = r)
    OBVIOUS
  <1>3. DOMAIN c = 1..(k + l)
    BY <1>1
  <1> HIDE DEF c, k, l
  <1>4. Range(c) \subseteq Range(s) \cup Range(r)
    <2> SUFFICES ASSUME NEW i \in 1..(k + l) PROVE c[i] \in Range(s) \cup Range(r)
      BY <1>3 DEF Range
    <2>1. CASE i <= k
      BY <1>1, <2>1 DEF Range
    <2>2. CASE i > k
      <3>1. i - k \in 1..l /\ k + (i - k) = i
        BY <1>1, <2>2
      <3>2. c[i] = r[i - k]
        BY <1>1, <3>1
      <3> QED
        BY <1>1, <3>1, <3>2 DEF Range
    <2> QED
      BY <1>1, <2>1, <2>2
  <1>5. Range(s) \cup Range(r) \subseteq Range(c)
    <2>1. \A i \in 1..k : i \in 1..(k + l)
      BY <1>1
    <2>2. \A i \in 1..l : k + i \in 1..(k + l)
      BY <1>1
    <2> QED
      BY <1>1, <1>3, <2>1, <2>2 DEF Range
  <1> QED
    BY <1>1, <1>2, <1>4, <1>5, Zenon DEF c, k, l
-----------------------------------------------------------------------------
\* What the closure of a scope does, but for wake_assigned.
Submit(t) == OpenScope(t) \/ LockInboxes(t) \/ ReleaseInbox(t) \/ Wait(t) \/ \E x \in Jobs : Spawn(t, x)

SubmitFrom == {"run", "scope", "batch"}
SubmitTo == {"scope", "batch", "batch_wake", "top", "wake"}

\* A closure that submits jobs does not touch the sleepers.
LEMMA SubmitFoot ==
  ASSUME Placed, NEW t \in Finders, Submit(t)
  PROVE  Foot(t, SubmitFrom, SubmitTo) /\ UNCHANGED <<sleep, life, ran, hand, flight>>
  <1> USE Who DEF Foot, Placed, SubmitFrom, SubmitTo, Goto, GotoAt, sleep, life, work
  <1>1. CASE OpenScope(t)
    BY <1>1 DEF OpenScope
  <1>2. CASE LockInboxes(t)
    BY <1>2 DEF LockInboxes
  <1>3. CASE ReleaseInbox(t)
    BY <1>3 DEF ReleaseInbox
  <1>4. CASE Wait(t)
    BY <1>4 DEF Wait
  <1>5. CASE \E x \in Jobs : Spawn(t, x)
    BY <1>5 DEF Spawn
  <1> QED
    BY <1>1, <1>2, <1>3, <1>4, <1>5 DEF Submit

\* sleep_if_idle up to the registration, and the warm-up loop.
Doze(w) == WarmUp(w) \/ LockSleepers(w) \/ WorkSeen(w) \/ ScanNext(w)

DozeFrom == {"warmup", "sleep", "check", "scan"}
DozeTo == {"top", "exited", "check", "scan"}

\* A worker that falls asleep takes no job.
LEMMA DozeFoot ==
  ASSUME Placed, NEW w \in Workers, Doze(w)
  PROVE  Foot(w, DozeFrom, DozeTo) /\ UNCHANGED <<work, sleepers, token, life>>
  <1> USE Who DEF Foot, Placed, DozeFrom, DozeTo, Goto, GotoAt, sleep, life, work
  <1>1. CASE WarmUp(w)
    BY <1>1 DEF WarmUp
  <1>2. CASE LockSleepers(w)
    BY <1>2 DEF LockSleepers
  <1>3. CASE WorkSeen(w)
    BY <1>3 DEF WorkSeen
  <1>4. CASE ScanNext(w)
    BY <1>4 DEF ScanNext
  <1> QED
    BY <1>1, <1>2, <1>3, <1>4 DEF Doze

\* ThreadPool::new after a thread is started, and Drop.
HostLife ==
  \/ WriteSlot \/ StartFails \/ WriteHostSlot \/ InitCompleted
  \/ Stop \/ StopUnpark \/ Join \/ Dropped

HostFrom == {"new", "write", "ready", "outside", "stopping", "dropped"}

\* Construction and shutdown take no job.
LEMMA HostFoot ==
  ASSUME Placed, HostLife
  PROVE  Foot(Host, HostFrom, HostFrom) /\ UNCHANGED <<work, sleepers, lock>>
  <1> USE Who DEF Foot, Placed, HostFrom, Goto, GotoAt, sleep, life, work
  <1>1. CASE WriteSlot \/ StartFails
    BY <1>1 DEF WriteSlot, StartFails
  <1>2. CASE WriteHostSlot \/ InitCompleted
    BY <1>2 DEF WriteHostSlot, InitCompleted
  <1>3. CASE Stop \/ StopUnpark
    BY <1>3 DEF Stop, StopUnpark
  <1>4. CASE Join
    BY <1>4 DEF Join
  <1>5. CASE Dropped
    BY <1>5 DEF Dropped, vars
  <1> QED
    BY <1>1, <1>2, <1>3, <1>4, <1>5 DEF HostLife

\* A started worker waits in its warm-up.
LEMMA StartFoot ==
  ASSUME Placed, StartWorker
  PROVE  /\ pc[Host] = "new" /\ pc'[Host] = "write"
         /\ at[Host] \in Workers /\ pc'[at[Host]] = "warmup"
         /\ \A u \in Threads \ {Host, at[Host]} : pc'[u] = pc[u]
         /\ DOMAIN pc' = Threads /\ UNCHANGED <<work, sleep, life, at, start>>
  BY Who DEF StartWorker, Placed

\* push goes on to wake a worker.
LEMMA PushFoot ==
  ASSUME Placed, NEW x, Push(x)
  PROVE  Foot(Pusher, {"idle"}, {"wake"}) /\ UNCHANGED <<sleep, life>>
  BY Who DEF Push, Foot, Placed, Goto

Enter(t) == \/ t = Host /\ \E c \in Calls : EnterScope(c)
            \/ t = Helper /\ \E c \in HelperCalls : EnterAsHelper(c)

\* An external call begins inside its closure.
LEMMA EnterFoot ==
  ASSUME Placed, NEW t, Enter(t)
  PROVE  /\ t \in {Host, Helper} /\ Foot(t, {"outside"}, {"scope"})
         /\ UNCHANGED <<queue, deque, inbox, flight, fresh, ran, sleep, life>>
  BY Who DEF Enter, EnterScope, EnterAsHelper, Foot, Placed, Goto

\* Nobody sleeps: wake_one changes nothing.
LEMMA WakeNobodyFoot ==
  ASSUME Placed, NEW t \in Threads, WakeNobody(t)
  PROVE  /\ Foot(t, {"wake"}, {AfterWake(t)}) /\ lock = NoThread /\ sleepers = <<>>
         /\ UNCHANGED <<work, sleep, life>>
  BY DEF WakeNobody, Foot, Placed, Goto

\* wake_one takes a sleeper out of the list and goes on to unpark it.
LEMMA WakeOneFoot ==
  ASSUME Placed, NEW t \in Threads, WakeOne(t)
  PROVE  /\ Foot(t, {"wake"}, {"unpark"}) /\ at'[t] = Head(sleepers)
         /\ lock = NoThread /\ sleepers # <<>> /\ sleepers' = Tail(sleepers)
         /\ UNCHANGED <<work, lock, token, life>>
  BY DEF WakeOne, Foot, Placed, GotoAt

\* unpark leaves a token.
LEMMA UnparkFoot ==
  ASSUME Placed, NEW t \in Threads, Unpark(t)
  PROVE  /\ Foot(t, {"unpark"}, {AfterWake(t)})
         /\ token' = [token EXCEPT ![at[t]] = TRUE]
         /\ UNCHANGED <<work, sleepers, lock, life>>
  BY DEF Unpark, Foot, Placed, Goto

\* wake_assigned takes the sleepers with an inbox that is not empty.
LEMMA AssignedFoot ==
  ASSUME Placed, NEW t \in Finders, WakeAssigned(t)
  PROVE  /\ Foot(t, {"batch_wake"}, {"scope"}) /\ lock = NoThread
         /\ UNCHANGED <<work, lock, life>>
  BY Who DEF WakeAssigned, Foot, Placed, GotoAt

\* A worker that found nothing registers and parks.
LEMMA RegisterFoot ==
  ASSUME Placed, NEW w \in Workers, Register(w)
  PROVE  /\ Foot(w, {"scan"}, {"park"}) /\ at[w] = N + 1
         /\ sleepers' = Append(sleepers, w) /\ lock' = NoThread
         /\ UNCHANGED <<work, token, life>>
  BY Who DEF Register, Foot, Placed, GotoAt

\* A worker that is back from park takes itself off the list.
LEMMA UnregisterFoot ==
  ASSUME Placed, NEW w \in Workers, Unregister(w)
  PROVE  Foot(w, {"unregister"}, {"top"}) /\ UNCHANGED <<work, lock, token, life>>
  BY Who DEF Unregister, Foot, Placed, Goto

\* thread::park returns.
Unparked(w) == Awake(w) \/ SpuriousWake(w)

\* A parked worker goes on when it has a token.
LEMMA UnparkedFoot ==
  ASSUME Placed, NEW w \in Workers, Unparked(w)
  PROVE  /\ Foot(w, {"park"}, {"unregister"})
         /\ \/ UNCHANGED token
            \/ token[w] /\ token' = [token EXCEPT ![w] = FALSE]
         /\ UNCHANGED <<work, sleepers, lock, life>>
  BY Who DEF Unparked, Awake, SpuriousWake, Foot, Placed, Goto, sleep

(***************************************************************************)
(* The kinds of steps, for the case distinctions below.                    *)
(***************************************************************************)
LEMMA Kinds ==
  ASSUME [Next]_vars
  PROVE  \/ \E t \in Threads : WakeNobody(t) \/ WakeOne(t) \/ Unpark(t)
         \/ \E t \in Finders : Search(t) \/ Submit(t) \/ WakeAssigned(t)
         \/ \E w \in Workers : Doze(w) \/ Register(w) \/ Unregister(w) \/ Unparked(w)
         \/ \E x \in Pushed : Push(x)
         \/ Enter(Host) \/ Enter(Helper)
         \/ StartWorker \/ HostLife
         \/ UNCHANGED vars
  BY DEF Next, Step, Wake, InScope, Submit, Sleep, Doze, Unparked, Enter, New, HostLife
-----------------------------------------------------------------------------
(***************************************************************************)
(* Registrations.                                                          *)
(***************************************************************************)
\* The two properties of the registrations, and what they need.
Registered == Placed /\ SleepTypes /\ RegistrationsCurrent /\ SleeperReachable

\* A step that neither parks nor unparks anybody.
LEMMA CalmStep ==
  ASSUME Registered, NEW A, NEW B, NEW t, Foot(t, A, B),
         A \cap {"park", "unregister", "unpark"} = {}, "park" \notin B,
         UNCHANGED sleepers, \A w \in Workers : token[w] => token'[w]
  PROVE  RegistrationsCurrent' /\ SleeperReachable'
  <1>1. RegistrationsCurrent'
    <2>1. \A w \in Range(sleepers) : w \in Threads
      BY Who DEF Registered, SleepTypes, Range
    <2> QED
      BY <2>1 DEF Registered, RegistrationsCurrent, Foot, Range
  <1>2. SleeperReachable'
    <2> SUFFICES ASSUME NEW w \in Workers, Asleep(w)'
                 PROVE  \/ w \in Range(sleepers)
                        \/ \E u \in Threads : pc'[u] = "unpark" /\ at'[u] = w
      BY DEF SleeperReachable
    <2>1. w # t /\ Asleep(w)
      BY Who DEF Foot, Asleep
    <2>2. CASE w \in Range(sleepers)
      BY <2>2
    <2>3. ASSUME NEW u \in Threads, pc[u] = "unpark", at[u] = w
          PROVE  pc'[u] = "unpark" /\ at'[u] = w
      BY <2>3 DEF Foot
    <2> QED
      BY <2>1, <2>2, <2>3 DEF Registered, SleeperReachable
  <1> QED
    BY <1>1, <1>2

\* wake_one leaves the others registered, once each.
LEMMA WakeOneRegistered ==
  ASSUME Registered, NEW t \in Threads, WakeOne(t)
  PROVE  RegistrationsCurrent' /\ SleeperReachable'
  <1>1. /\ Foot(t, {"wake"}, {"unpark"}) /\ at'[t] = Head(sleepers)
        /\ sleepers # <<>> /\ sleepers' = Tail(sleepers) /\ UNCHANGED token
    BY WakeOneFoot DEF Registered
  <1> DEFINE n == Len(sleepers)
  <1>2. /\ n \in Nat \ {0} /\ Len(sleepers') = n - 1 /\ Head(sleepers) = sleepers[1]
        /\ \A i \in 1..(n - 1) : sleepers'[i] = sleepers[i + 1]
        /\ sleepers' \in Seq(Workers)
    BY <1>1, TailKeeps, Zenon DEF Registered, SleepTypes
  <1>3. DOMAIN sleepers = 1..n /\ DOMAIN sleepers' = 1..(n - 1)
    BY <1>2 DEF Registered, SleepTypes
  <1> HIDE DEF n
  <1>4. \A i \in 1..(n - 1) : i + 1 \in 1..n
    BY <1>2
  <1>5. RegistrationsCurrent'
    <2>1. ASSUME NEW i \in DOMAIN sleepers', NEW j \in DOMAIN sleepers', sleepers'[i] = sleepers'[j]
          PROVE  i = j
      <3>1. i + 1 \in DOMAIN sleepers /\ j + 1 \in DOMAIN sleepers
        BY <1>3, <1>4
      <3>2. sleepers[i + 1] = sleepers[j + 1]
        BY <1>2, <1>3, <2>1
      <3>3. i + 1 = j + 1
        BY <3>1, <3>2 DEF Registered, RegistrationsCurrent
      <3> QED
        BY <1>2, <1>3, <3>3
    <2>2. ASSUME NEW w \in Range(sleepers')
          PROVE  pc'[w] \in {"park", "unregister"}
      <3>1. w \in Range(sleepers)
        BY <1>2, <1>3, <1>4 DEF Range
      <3>2. w \in Threads
        BY <3>1, Who DEF Registered, SleepTypes, Range
      <3>3. pc[w] \in {"park", "unregister"}
        BY <3>1 DEF Registered, RegistrationsCurrent
      <3> QED
        BY <1>1, <3>2, <3>3 DEF Foot
    <2> QED
      BY <2>1, <2>2 DEF RegistrationsCurrent
  <1>6. SleeperReachable'
    <2> SUFFICES ASSUME NEW w \in Workers, Asleep(w)'
                 PROVE  \/ w \in Range(sleepers')
                        \/ \E u \in Threads : pc'[u] = "unpark" /\ at'[u] = w
      BY DEF SleeperReachable
    <2>1. w # t /\ Asleep(w)
      BY <1>1, Who DEF Foot, Asleep
    <2>2. ASSUME w \in Range(sleepers), w # Head(sleepers)
          PROVE  w \in Range(sleepers')
      <3>1. PICK i \in 1..n : sleepers[i] = w
        BY <1>3, <2>2 DEF Range
      <3>2. i - 1 \in 1..(n - 1) /\ (i - 1) + 1 = i
        BY <1>2, <2>2, <3>1
      <3>3. sleepers'[i - 1] = w
        BY <1>2, <3>1, <3>2
      <3> QED
        BY <1>3, <3>2, <3>3 DEF Range
    <2>3. w = Head(sleepers) => pc'[t] = "unpark" /\ at'[t] = w
      BY <1>1 DEF Foot
    <2>4. ASSUME NEW u \in Threads, pc[u] = "unpark", at[u] = w
          PROVE  pc'[u] = "unpark" /\ at'[u] = w
      BY <1>1, <2>4 DEF Foot
    <2> QED
      BY <2>1, <2>2, <2>3, <2>4 DEF Registered, SleeperReachable
  <1> QED
    BY <1>5, <1>6

\* The worker that is unparked is not registered any more.
LEMMA UnparkRegistered ==
  ASSUME Registered, NEW t \in Threads, Unpark(t)
  PROVE  RegistrationsCurrent' /\ SleeperReachable'
  <1>1. /\ Foot(t, {"unpark"}, {AfterWake(t)}) /\ UNCHANGED sleepers
        /\ token' = [token EXCEPT ![at[t]] = TRUE]
    BY UnparkFoot DEF Registered
  <1>2. AfterWake(t) \in {"idle", "scope"}
    BY DEF AfterWake
  <1>3. RegistrationsCurrent'
    <2>1. \A w \in Range(sleepers) : w \in Threads
      BY Who DEF Registered, SleepTypes, Range
    <2> QED
      BY <1>1, <2>1 DEF Registered, RegistrationsCurrent, Foot, Range
  <1>4. SleeperReachable'
    <2> SUFFICES ASSUME NEW w \in Workers, Asleep(w)'
                 PROVE  \/ w \in Range(sleepers)
                        \/ \E u \in Threads : pc'[u] = "unpark" /\ at'[u] = w
      BY <1>1 DEF SleeperReachable
    <2>1. w # t /\ Asleep(w) /\ w # at[t]
      BY <1>1, <1>2, Who DEF Foot, Asleep, Registered, SleepTypes
    <2>2. ASSUME NEW u \in Threads, pc[u] = "unpark", at[u] = w
          PROVE  pc'[u] = "unpark" /\ at'[u] = w
      BY <1>1, <2>1, <2>2 DEF Foot
    <2> QED
      BY <2>1, <2>2 DEF Registered, SleeperReachable
  <1> QED
    BY <1>3, <1>4

\* Some registrations are removed: of workers that are told, or that move on.
LEMMA Removed ==
  ASSUME Registered, NEW I \in SUBSET DOMAIN sleepers, sleepers' = Pick(sleepers, I)
  PROVE  /\ sleepers' \in Seq(Workers)
         /\ \A i, j \in DOMAIN sleepers' : sleepers'[i] = sleepers'[j] => i = j
         /\ Range(sleepers') = {sleepers[i] : i \in I}
  <1>1. sleepers \in Seq(Workers)
    BY DEF Registered, SleepTypes
  <1>2. \A i, j \in I : sleepers[i] = sleepers[j] => i = j
    BY DEF Registered, RegistrationsCurrent
  <1> DEFINE p == Pick(sleepers, I)
  <1>3. /\ p \in Seq(Workers)
        /\ \A k \in DOMAIN p : \E i \in I : p[k] = sleepers[i]
        /\ \A i \in I : \E k \in DOMAIN p : p[k] = sleepers[i]
        /\ \A i, j \in DOMAIN p : p[i] = p[j] => i = j
    BY <1>1, <1>2, Picked
  <1>4. sleepers' = p
    OBVIOUS
  <1> HIDE DEF p
  <1>5. Range(p) = {sleepers[i] : i \in I}
    BY <1>3 DEF Range
  <1> QED
    BY <1>3, <1>4, <1>5

\* wake_assigned unregisters exactly those it wakes.
LEMMA AssignedRegistered ==
  ASSUME Registered, NEW t \in Finders, WakeAssigned(t)
  PROVE  RegistrationsCurrent' /\ SleeperReachable'
  <1> DEFINE told == {w \in Range(sleepers) : inbox[w] # <<>>}
             I == {i \in DOMAIN sleepers : sleepers[i] \notin told}
  <1>1. Foot(t, {"batch_wake"}, {"scope"})
    BY AssignedFoot DEF Registered
  <1>2. sleepers' = Pick(sleepers, I) /\ token' = [w \in Workers |-> token[w] \/ w \in told]
    BY DEF WakeAssigned
  <1>3. /\ \A i, j \in DOMAIN sleepers' : sleepers'[i] = sleepers'[j] => i = j
        /\ Range(sleepers') = {sleepers[i] : i \in I}
    BY <1>2, Removed
  <1>4. Range(sleepers') = Range(sleepers) \ told
    BY <1>3 DEF Range
  <1> HIDE DEF told, I
  <1>5. RegistrationsCurrent'
    <2>1. \A w \in Range(sleepers) : w \in Threads /\ pc[w] \in {"park", "unregister"}
      BY Who DEF Registered, SleepTypes, RegistrationsCurrent, Range
    <2>2. \A w \in Range(sleepers') : pc'[w] \in {"park", "unregister"}
      BY <1>1, <1>4, <2>1 DEF Foot
    <2> QED
      BY <1>3, <2>2 DEF RegistrationsCurrent
  <1>6. SleeperReachable'
    <2> SUFFICES ASSUME NEW w \in Workers, Asleep(w)'
                 PROVE  \/ w \in Range(sleepers')
                        \/ \E u \in Threads : pc'[u] = "unpark" /\ at'[u] = w
      BY DEF SleeperReachable
    <2>1. w # t /\ Asleep(w) /\ w \notin told
      BY <1>1, <1>2, Who DEF Foot, Asleep
    <2>2. ASSUME NEW u \in Threads, pc[u] = "unpark", at[u] = w
          PROVE  pc'[u] = "unpark" /\ at'[u] = w
      BY <1>1, <2>2 DEF Foot
    <2> QED
      BY <1>4, <2>1, <2>2 DEF Registered, SleeperReachable
  <1> QED
    BY <1>5, <1>6

\* Who takes itself off the list leaves the others on it.
LEMMA UnregisterRegistered ==
  ASSUME Registered, NEW w \in Workers, Unregister(w)
  PROVE  RegistrationsCurrent' /\ SleeperReachable'
  <1> DEFINE I == {i \in DOMAIN sleepers : sleepers[i] # w}
  <1>1. Foot(w, {"unregister"}, {"top"}) /\ UNCHANGED token
    BY UnregisterFoot DEF Registered
  <1>2. sleepers' = Pick(sleepers, I)
    BY DEF Unregister
  <1>3. /\ \A i, j \in DOMAIN sleepers' : sleepers'[i] = sleepers'[j] => i = j
        /\ Range(sleepers') = {sleepers[i] : i \in I}
    BY <1>2, Removed
  <1>4. Range(sleepers') = Range(sleepers) \ {w}
    BY <1>3 DEF Range
  <1> HIDE DEF I
  <1>5. RegistrationsCurrent'
    <2>1. \A v \in Range(sleepers) : v \in Threads /\ pc[v] \in {"park", "unregister"}
      BY Who DEF Registered, SleepTypes, RegistrationsCurrent, Range
    <2>2. \A v \in Range(sleepers') : pc'[v] \in {"park", "unregister"}
      BY <1>1, <1>4, <2>1 DEF Foot
    <2> QED
      BY <1>3, <2>2 DEF RegistrationsCurrent
  <1>6. SleeperReachable'
    <2> SUFFICES ASSUME NEW v \in Workers, Asleep(v)'
                 PROVE  \/ v \in Range(sleepers')
                        \/ \E u \in Threads : pc'[u] = "unpark" /\ at'[u] = v
      BY DEF SleeperReachable
    <2>1. v # w /\ Asleep(v)
      BY <1>1, Who DEF Foot, Asleep
    <2>2. ASSUME NEW u \in Threads, pc[u] = "unpark", at[u] = v
          PROVE  pc'[u] = "unpark" /\ at'[u] = v
      BY <1>1, <2>2 DEF Foot
    <2> QED
      BY <1>4, <2>1, <2>2 DEF Registered, SleeperReachable
  <1> QED
    BY <1>5, <1>6

\* A worker registers once.
LEMMA RegisterRegistered ==
  ASSUME Registered, NEW w \in Workers, Register(w)
  PROVE  RegistrationsCurrent' /\ SleeperReachable'
  <1> DEFINE n == Len(sleepers)
  <1>1. /\ Foot(w, {"scan"}, {"park"}) /\ UNCHANGED token /\ sleepers' = Append(sleepers, w)
    BY RegisterFoot DEF Registered
  <1>2. /\ sleepers' \in Seq(Workers) /\ Len(sleepers') = n + 1 /\ n \in Nat
        /\ \A i \in 1..n : sleepers'[i] = sleepers[i]
        /\ sleepers'[n + 1] = w /\ Range(sleepers') = Range(sleepers) \cup {w}
    <2>1. sleepers \in Seq(Workers)
      BY DEF Registered, SleepTypes
    <2> QED
      BY <1>1, <2>1, AppendKeeps
  <1>3. DOMAIN sleepers = 1..n /\ DOMAIN sleepers' = 1..(n + 1)
    BY <1>2 DEF Registered, SleepTypes
  <1> HIDE DEF n
  <1>4. \A v \in Range(sleepers) : v \in Threads /\ pc[v] \in {"park", "unregister"} /\ v # w
    BY <1>1, Who DEF Registered, SleepTypes, RegistrationsCurrent, Range, Foot
  <1>5. \A i \in 1..n : sleepers[i] # w
    BY <1>3, <1>4 DEF Range
  <1>6. \A i, j \in DOMAIN sleepers' : sleepers'[i] = sleepers'[j] => i = j
    <2> SUFFICES ASSUME NEW i \in 1..(n + 1), NEW j \in 1..(n + 1), sleepers'[i] = sleepers'[j]
                 PROVE  i = j
      BY <1>3
    <2>1. CASE i \in 1..n /\ j \in 1..n
      <3>1. sleepers[i] = sleepers[j]
        BY <1>2, <2>1
      <3> QED
        BY <1>3, <2>1, <3>1 DEF Registered, RegistrationsCurrent
    <2>2. CASE i = n + 1 \/ j = n + 1
      BY <1>2, <1>5, <2>2
    <2> QED
      BY <1>2, <2>1, <2>2
  <1>7. \A v \in Range(sleepers') : pc'[v] \in {"park", "unregister"}
    BY <1>1, <1>2, <1>4 DEF Foot
  <1>8. SleeperReachable'
    <2> SUFFICES ASSUME NEW v \in Workers, Asleep(v)', v # w
                 PROVE  \/ v \in Range(sleepers')
                        \/ \E u \in Threads : pc'[u] = "unpark" /\ at'[u] = v
      BY <1>2 DEF SleeperReachable
    <2>1. Asleep(v)
      BY <1>1, Who DEF Foot, Asleep
    <2>2. ASSUME NEW u \in Threads, pc[u] = "unpark", at[u] = v
          PROVE  pc'[u] = "unpark" /\ at'[u] = v
      BY <1>1, <2>2 DEF Foot
    <2> QED
      BY <1>2, <2>1, <2>2 DEF Registered, SleeperReachable
  <1> QED
    BY <1>6, <1>7, <1>8 DEF RegistrationsCurrent

\* Returning from park changes no registration.
LEMMA UnparkedRegistered ==
  ASSUME Registered, NEW w \in Workers, Unparked(w)
  PROVE  RegistrationsCurrent' /\ SleeperReachable'
  <1>1. /\ Foot(w, {"park"}, {"unregister"}) /\ UNCHANGED sleepers
        /\ \/ UNCHANGED token
           \/ token' = [token EXCEPT ![w] = FALSE]
    BY UnparkedFoot DEF Registered
  <1>2. RegistrationsCurrent'
    <2>1. \A v \in Range(sleepers) : v \in Threads
      BY Who DEF Registered, SleepTypes, Range
    <2> QED
      BY <1>1, <2>1 DEF Registered, RegistrationsCurrent, Foot, Range
  <1>3. SleeperReachable'
    <2> SUFFICES ASSUME NEW v \in Workers, Asleep(v)'
                 PROVE  \/ v \in Range(sleepers)
                        \/ \E u \in Threads : pc'[u] = "unpark" /\ at'[u] = v
      BY <1>1 DEF SleeperReachable
    <2>1. v # w /\ Asleep(v)
      BY <1>1, Who DEF Foot, Asleep, Registered, SleepTypes
    <2>2. ASSUME NEW u \in Threads, pc[u] = "unpark", at[u] = v
          PROVE  pc'[u] = "unpark" /\ at'[u] = v
      BY <1>1, <2>2 DEF Foot
    <2> QED
      BY <2>1, <2>2 DEF Registered, SleeperReachable
  <1> QED
    BY <1>2, <1>3

\* Registrations are current, and no sleeper is lost, in every step.
LEMMA RegisteredStep ==
  ASSUME Registered, Construction, [Next]_vars
  PROVE  RegistrationsCurrent' /\ SleeperReachable'
  <1>0. Placed
    BY DEF Registered
  <1>1. ASSUME NEW t \in Threads, WakeNobody(t)
        PROVE  RegistrationsCurrent' /\ SleeperReachable'
    <2>1. Foot(t, {"wake"}, {AfterWake(t)}) /\ UNCHANGED sleep
      BY <1>0, <1>1, WakeNobodyFoot
    <2>2. AfterWake(t) # "park"
      BY DEF AfterWake
    <2> QED
      BY <2>1, <2>2, CalmStep DEF sleep
  <1>2. ASSUME NEW t \in Finders, Search(t) \/ Submit(t)
        PROVE  RegistrationsCurrent' /\ SleeperReachable'
    <2>1. CASE Search(t)
      <3>1. Foot(t, SearchFrom, SearchTo) /\ UNCHANGED sleep
        BY <1>0, <2>1, SearchFoot
      <3>2. SearchFrom \cap {"park", "unregister", "unpark"} = {} /\ "park" \notin SearchTo
        BY DEF SearchFrom, SearchTo
      <3> QED
        BY <3>1, <3>2, CalmStep DEF sleep
    <2>2. CASE Submit(t)
      <3>1. Foot(t, SubmitFrom, SubmitTo) /\ UNCHANGED sleep
        BY <1>0, <2>2, SubmitFoot
      <3>2. SubmitFrom \cap {"park", "unregister", "unpark"} = {} /\ "park" \notin SubmitTo
        BY DEF SubmitFrom, SubmitTo
      <3> QED
        BY <3>1, <3>2, CalmStep DEF sleep
    <2> QED
      BY <1>2, <2>1, <2>2
  <1>3. ASSUME NEW w \in Workers, Doze(w)
        PROVE  RegistrationsCurrent' /\ SleeperReachable'
    <2>1. Foot(w, DozeFrom, DozeTo) /\ UNCHANGED <<sleepers, token>>
      BY <1>0, <1>3, DozeFoot
    <2>2. DozeFrom \cap {"park", "unregister", "unpark"} = {} /\ "park" \notin DozeTo
      BY DEF DozeFrom, DozeTo
    <2> QED
      BY <2>1, <2>2, CalmStep
  <1>4. ASSUME NEW x \in Pushed, Push(x)
        PROVE  RegistrationsCurrent' /\ SleeperReachable'
    <2>1. Foot(Pusher, {"idle"}, {"wake"}) /\ UNCHANGED sleep
      BY <1>0, <1>4, PushFoot
    <2> QED
      BY <2>1, CalmStep DEF sleep
  <1>5. ASSUME NEW t, Enter(t)
        PROVE  RegistrationsCurrent' /\ SleeperReachable'
    <2>1. Foot(t, {"outside"}, {"scope"}) /\ UNCHANGED sleep
      BY <1>0, <1>5, EnterFoot
    <2> QED
      BY <2>1, CalmStep DEF sleep
  <1>6. CASE HostLife
    <2>1. Foot(Host, HostFrom, HostFrom) /\ UNCHANGED sleepers
      BY <1>0, <1>6, HostFoot
    <2>2. \A w \in Workers : token[w] => token'[w]
      <3>1. CASE StopUnpark
        BY <3>1 DEF StopUnpark, Registered, SleepTypes
      <3>2. CASE ~StopUnpark
        <4>1. UNCHANGED token
          BY <1>6, <3>2 DEF HostLife, WriteSlot, StartFails, WriteHostSlot, InitCompleted, Stop,
                            Join, Dropped, sleep, vars
        <4> QED
          BY <4>1
      <3> QED
        BY <3>1, <3>2
    <2>3. HostFrom \cap {"park", "unregister", "unpark"} = {} /\ "park" \notin HostFrom
      BY DEF HostFrom
    <2> QED
      BY <2>1, <2>2, <2>3, CalmStep
  <1>7. CASE StartWorker
    <2>1. /\ pc[Host] = "new" /\ pc'[Host] = "write"
          /\ at[Host] \in Workers /\ pc'[at[Host]] = "warmup"
          /\ \A u \in Threads \ {Host, at[Host]} : pc'[u] = pc[u]
          /\ UNCHANGED <<sleepers, token, at>>
      BY <1>0, <1>7, StartFoot DEF sleep
    <2>2. pc[at[Host]] = "unborn"
      BY <2>1, PoolAssumption DEF Construction, Workers
    <2>3. RegistrationsCurrent'
      <3>1. \A w \in Range(sleepers) : w \in Workers
        BY DEF Registered, SleepTypes, Range
      <3>2. \A w \in Range(sleepers) : pc'[w] = pc[w]
        BY <2>1, <2>2, <3>1, Who DEF Registered, RegistrationsCurrent
      <3> QED
        BY <2>1, <3>2 DEF Registered, RegistrationsCurrent
    <2>4. SleeperReachable'
      <3> SUFFICES ASSUME NEW w \in Workers, Asleep(w)'
                   PROVE  \/ w \in Range(sleepers)
                          \/ \E u \in Threads : pc'[u] = "unpark" /\ at'[u] = w
        BY <2>1 DEF SleeperReachable
      <3>1. Asleep(w)
        BY <2>1, Who DEF Asleep
      <3>2. ASSUME NEW u \in Threads, pc[u] = "unpark", at[u] = w
            PROVE  pc'[u] = "unpark" /\ at'[u] = w
        BY <2>1, <2>2, <3>2
      <3> QED
        BY <3>1, <3>2 DEF Registered, SleeperReachable
    <2> QED
      BY <2>3, <2>4
  <1>8. CASE UNCHANGED vars
    BY <1>8 DEF vars, sleep, Registered, RegistrationsCurrent, SleeperReachable, Asleep
  <1> QED
    BY <1>1, <1>2, <1>3, <1>4, <1>5, <1>6, <1>7, <1>8, Kinds, WakeOneRegistered,
       UnparkRegistered, AssignedRegistered, RegisterRegistered, UnregisterRegistered,
       UnparkedRegistered
-----------------------------------------------------------------------------
(***************************************************************************)
(* Where each thread may be.                                               *)
(***************************************************************************)
LEMMA PlacesFoot ==
  ASSUME PlaceTypes, NEW A, NEW B, NEW t, Foot(t, A, B),
         pc'[t] \in Home(t), at'[t] \in -1..(N + 1), start' \in [Finders -> Members]
  PROVE  PlaceTypes'
  BY DEF PlaceTypes, Foot, Placed

\* A search stays within the places and indices of its thread.
LEMMA SearchPlaces ==
  ASSUME PlaceTypes, HandsFull, NEW t \in Finders, Search(t)
  PROVE  pc'[t] \in Home(t) /\ at'[t] \in -1..(N + 1) /\ start' \in [Finders -> Members]
  <1>1. /\ DOMAIN pc = Threads /\ DOMAIN at = Threads /\ t \in Threads /\ t # Pusher
        /\ at[t] \in -1..(N + 1) /\ start \in [Finders -> Members]
    BY Who DEF PlaceTypes, Placed
  <1>2. N \in Nat /\ 0 \in -1..(N + 1)
    BY PoolAssumption
  <1>3. ScopePCs \subseteq Home(t)
    BY <1>1 DEF Home, WorkerPCs, HostPCs
  <1>4. ASSUME t \in Workers PROVE Home(t) = WorkerPCs
    BY <1>4 DEF Home
  <1>5. ASSUME t \notin Workers PROVE "outside" \in Home(t)
    BY <1>1, <1>5, Who DEF Home, HostPCs
  <1> USE <1>1, <1>2, <1>3 DEF Goto, GotoAt, Begin, ScopePCs
  <1>6. CASE LoopTop(t)
    BY <1>4, <1>6 DEF LoopTop, WorkerPCs
  <1>7. CASE Until(t)
    BY <1>7 DEF Until
  <1>8. ASSUME Leave(t), hand[t] # <<>>
        PROVE  pc'[t] \in Home(t) /\ at'[t] \in -1..(N + 1) /\ start' \in [Finders -> Members]
    <2>1. t \in Workers => Body(t) \in Jobs
      BY <1>8, FrontKeeps DEF HandsFull, Body
    <2>2. 0 \in Members
      BY <1>2 DEF Members
    <2> QED
      BY <1>5, <1>8, <2>1, <2>2 DEF Leave
  <1>9. CASE ScopeCompleted(t)
    BY <1>8, <1>9 DEF ScopeCompleted
  <1>10. CASE PopOwn(t) \/ PopInbox(t)
    BY <1>10 DEF PopOwn, PopInbox, Take
  <1>11. CASE PopNothing(t)
    BY <1>11 DEF PopNothing
  <1>12. CASE \E n \in 1..CapacityOf(t), s \in Members : Pull(t, n, s)
    BY <1>12 DEF Pull
  <1>13. CASE \E n \in 1..CapacityOf(t) : StealDeque(t, n)
    <2>1. at[t] \in Members => at[t] + 1 \in -1..(N + 1)
      BY DEF Members
    <2> QED
      BY <1>13, <2>1 DEF StealDeque, Visits
  <1>14. CASE \E s \in Members : PullNothing(t, s)
    BY <1>14 DEF PullNothing
  <1>15. CASE Publish(t)
    BY <1>15 DEF Publish
  <1>16. CASE StealInbox(t)
    BY <1>16 DEF StealInbox, Take, Visits
  <1>17. CASE NextVictim(t)
    <2>1. at[t] \in Members => at[t] + 1 \in -1..(N + 1)
      BY DEF Members
    <2> QED
      BY <1>17, <2>1 DEF NextVictim, Visits
  <1>18. CASE GiveUp(t)
    <2>1. 0 \in Members
      BY DEF Members
    <2> QED
      BY <1>4, <1>18, <2>1 DEF GiveUp, WorkerPCs
  <1>19. CASE Run(t)
    BY <1>8, <1>19 DEF Run, HandsFull
  <1> QED
    BY <1>6, <1>7, <1>9, <1>10, <1>11, <1>12, <1>13, <1>14, <1>15, <1>16, <1>17, <1>18, <1>19
       DEF Search

\* Every step keeps the places of the threads.
LEMMA PlacesStep ==
  ASSUME PlaceTypes, SleepTypes, HandsFull, Loops, Construction, [Next]_vars
  PROVE  PlaceTypes'
  <1>0. /\ Placed /\ \A t \in Threads : at[t] \in -1..(N + 1)
        /\ start \in [Finders -> Members]
    BY DEF PlaceTypes
  <1>1. /\ N \in Nat /\ 0 \in -1..(N + 1) /\ N \in -1..(N + 1) /\ 0 \in Members
        /\ \A w \in Workers : w \in -1..(N + 1) /\ w + 1 \in -1..(N + 1)
        /\ \A m \in Members : m - 1 \in -1..(N + 1) /\ m + 1 \in -1..(N + 1)
    BY PoolAssumption DEF Workers, Members
  <1>2. \A t \in Finders : t \in Threads /\ t # Pusher /\ ScopePCs \subseteq Home(t)
    BY Who DEF Home, WorkerPCs, HostPCs
  <1>3. \A w \in Workers : w \in Threads /\ Home(w) = WorkerPCs
    BY Who DEF Home
  <1>4. /\ Home(Host) = HostPCs /\ Home(Pusher) = {"idle", "wake", "unpark"}
        /\ Home(Helper) = ScopePCs \cup {"outside"}
    BY Who DEF Home
  <1>5. ASSUME NEW t \in Threads, WakeNobody(t) \/ Unpark(t) PROVE PlaceTypes'
    <2>1. Foot(t, {"wake", "unpark"}, {AfterWake(t)})
      BY <1>0, <1>5, WakeNobodyFoot, UnparkFoot DEF Foot
    <2>2. at'[t] = at[t] /\ start' = start
      BY <1>5 DEF WakeNobody, Unpark, Goto
    <2>3. AfterWake(t) \in Home(t)
      BY <1>2, <1>4, Who DEF AfterWake, ScopePCs
    <2>8. pc'[t] \in Home(t) /\ at'[t] \in -1..(N + 1) /\ start' \in [Finders -> Members]
      BY <1>0, <2>1, <2>2, <2>3 DEF Foot
    <2> QED
      BY <2>1, <2>8, PlacesFoot
  <1>6. ASSUME NEW t \in Threads, WakeOne(t) PROVE PlaceTypes'
    <2>1. /\ Foot(t, {"wake"}, {"unpark"}) /\ at'[t] = Head(sleepers) /\ sleepers # <<>>
      BY <1>0, <1>6, WakeOneFoot
    <2>2. Head(sleepers) \in Workers /\ start' = start
      BY <1>6, <2>1, TailKeeps DEF SleepTypes, WakeOne, GotoAt
    <2>3. "unpark" \in Home(t)
      BY <1>2, <1>4, Who DEF ScopePCs
    <2>8. pc'[t] \in Home(t) /\ at'[t] \in -1..(N + 1) /\ start' \in [Finders -> Members]
      BY <1>0, <1>1, <2>1, <2>2, <2>3 DEF Foot
    <2> QED
      BY <2>1, <2>8, PlacesFoot
  <1>7. ASSUME NEW t \in Finders, Search(t) PROVE PlaceTypes'
    BY <1>0, <1>7, SearchFoot, SearchPlaces, PlacesFoot
  <1>8. ASSUME NEW t \in Finders, Submit(t) PROVE PlaceTypes'
    <2>1. Foot(t, SubmitFrom, SubmitTo) /\ SubmitTo \subseteq ScopePCs
      BY <1>0, <1>8, SubmitFoot DEF SubmitTo, ScopePCs
    <2>2. start' = start
      BY <1>8 DEF Submit, OpenScope, LockInboxes, ReleaseInbox, Wait, Spawn, Goto, GotoAt
    <2>3. at'[t] \in {at[t], N} \/ (pc[t] = "batch" /\ at'[t] = at[t] - 1)
      BY <1>0, <1>2, <1>8 DEF Submit, OpenScope, LockInboxes, ReleaseInbox, Wait, Spawn, Goto,
                                   GotoAt, Placed
    <2>4. at'[t] \in -1..(N + 1)
      <3>1. t \in Threads /\ at[t] \in -1..(N + 1) /\ (pc[t] = "batch" => at[t] \in Members)
        BY <1>0, <1>2 DEF Loops
      <3>2. CASE at'[t] \in {at[t], N}
        BY <1>1, <3>1, <3>2
      <3>3. CASE pc[t] = "batch" /\ at'[t] = at[t] - 1
        BY <1>1, <3>1, <3>3
      <3> QED
        BY <2>3, <3>2, <3>3
    <2>8. pc'[t] \in Home(t) /\ at'[t] \in -1..(N + 1) /\ start' \in [Finders -> Members]
      BY <1>0, <1>2, <2>1, <2>2, <2>4 DEF Foot
    <2> QED
      BY <2>1, <2>8, PlacesFoot
  <1>9. ASSUME NEW t \in Finders, WakeAssigned(t) PROVE PlaceTypes'
    <2>1. Foot(t, {"batch_wake"}, {"scope"})
      BY <1>0, <1>9, AssignedFoot
    <2>2. start' = start /\ at'[t] = 0 /\ "scope" \in Home(t)
      BY <1>0, <1>2, <1>9 DEF WakeAssigned, GotoAt, Placed, ScopePCs
    <2>8. pc'[t] \in Home(t) /\ at'[t] \in -1..(N + 1) /\ start' \in [Finders -> Members]
      BY <1>0, <1>1, <2>1, <2>2 DEF Foot
    <2> QED
      BY <2>1, <2>8, PlacesFoot
  <1>10. ASSUME NEW w \in Workers, Doze(w) PROVE PlaceTypes'
    <2>1. Foot(w, DozeFrom, DozeTo) /\ DozeTo \subseteq WorkerPCs
      BY <1>0, <1>10, DozeFoot DEF DozeTo, WorkerPCs, ScopePCs
    <2>2. start' = start
      BY <1>10 DEF Doze, WarmUp, LockSleepers, WorkSeen, ScanNext, Goto, GotoAt
    <2>3. at'[w] \in {at[w], 0} \/ (at[w] \in Members /\ at'[w] = at[w] + 1)
      BY <1>0, <1>3, <1>10 DEF Doze, WarmUp, LockSleepers, WorkSeen, ScanNext, Goto,
                                    GotoAt, Placed
    <2>4. at'[w] \in -1..(N + 1)
      BY <1>0, <1>1, <1>3, <2>3
    <2>8. pc'[w] \in Home(w) /\ at'[w] \in -1..(N + 1) /\ start' \in [Finders -> Members]
      BY <1>0, <1>3, <2>1, <2>2, <2>4 DEF Foot
    <2> QED
      BY <2>1, <2>8, PlacesFoot
  <1>11. ASSUME NEW w \in Workers, Register(w) PROVE PlaceTypes'
    <2>1. Foot(w, {"scan"}, {"park"}) /\ "park" \in WorkerPCs
      BY <1>0, <1>11, RegisterFoot DEF WorkerPCs
    <2>2. start' = start /\ at'[w] = 0
      BY <1>0, <1>3, <1>11 DEF Register, GotoAt, Placed
    <2>8. pc'[w] \in Home(w) /\ at'[w] \in -1..(N + 1) /\ start' \in [Finders -> Members]
      BY <1>0, <1>1, <1>3, <2>1, <2>2 DEF Foot
    <2> QED
      BY <2>1, <2>8, PlacesFoot
  <1>12. ASSUME NEW w \in Workers, Unregister(w) \/ Unparked(w) PROVE PlaceTypes'
    <2>1. Foot(w, {"unregister", "park"}, {"top", "unregister"})
      BY <1>0, <1>12, UnregisterFoot, UnparkedFoot DEF Foot
    <2>2. start' = start /\ at'[w] = at[w]
      BY <1>12 DEF Unregister, Unparked, Awake, SpuriousWake, Goto
    <2>3. {"top", "unregister"} \subseteq WorkerPCs
      BY DEF WorkerPCs, ScopePCs
    <2>8. pc'[w] \in Home(w) /\ at'[w] \in -1..(N + 1) /\ start' \in [Finders -> Members]
      BY <1>0, <1>3, <2>1, <2>2, <2>3 DEF Foot
    <2> QED
      BY <2>1, <2>8, PlacesFoot
  <1>13. ASSUME NEW x \in Pushed, Push(x) PROVE PlaceTypes'
    <2>1. Foot(Pusher, {"idle"}, {"wake"})
      BY <1>0, <1>13, PushFoot
    <2>2. start' = start /\ at'[Pusher] = at[Pusher]
      BY <1>13 DEF Push, Goto
    <2>8. pc'[Pusher] \in Home(Pusher) /\ at'[Pusher] \in -1..(N + 1) /\ start' \in [Finders -> Members]
      BY <1>0, <1>4, <2>1, <2>2, Who DEF Foot
    <2> QED
      BY <2>1, <2>8, PlacesFoot
  <1>14. ASSUME NEW t \in {Host, Helper}, Enter(t) PROVE PlaceTypes'
    <2>1. Foot(t, {"outside"}, {"scope"})
      BY <1>0, <1>14, EnterFoot
    <2>2. start' = start /\ at'[t] = at[t] /\ "scope" \in Home(t)
      BY <1>4, <1>14 DEF Enter, EnterScope, EnterAsHelper, Goto, HostPCs, ScopePCs
    <2>8. pc'[t] \in Home(t) /\ at'[t] \in -1..(N + 1) /\ start' \in [Finders -> Members]
      BY <1>0, <2>1, <2>2, Who DEF Foot
    <2> QED
      BY <2>1, <2>8, PlacesFoot
  <1>15. CASE HostLife
    <2>1. Foot(Host, HostFrom, HostFrom) /\ HostFrom \subseteq HostPCs
      BY <1>0, <1>15, HostFoot DEF HostFrom, HostPCs
    <2>2. start' = start
      BY <1>15 DEF HostLife, WriteSlot, StartFails, WriteHostSlot, InitCompleted, Stop, StopUnpark,
                   Join, Dropped, Goto, GotoAt, vars
    <2>3. \/ at'[Host] \in {at[Host], 0}
          \/ at[Host] \in Workers /\ at'[Host] = at[Host] + 1
      <3>1. CASE WriteSlot
        BY <1>0, <3>1, Who DEF WriteSlot, Construction, GotoAt, Placed
      <3>2. CASE ~WriteSlot
        BY <1>0, <1>15, <3>2, Who DEF HostLife, StartFails, WriteHostSlot, InitCompleted, Stop,
                      StopUnpark, Handles, Join, Dropped, Goto, GotoAt, vars, Placed
      <3> QED
        BY <3>1, <3>2
    <2>4. at'[Host] \in -1..(N + 1)
      BY <1>0, <1>1, <2>3, Who
    <2>8. pc'[Host] \in Home(Host) /\ at'[Host] \in -1..(N + 1) /\ start' \in [Finders -> Members]
      BY <1>0, <1>4, <2>1, <2>2, <2>4 DEF Foot
    <2> QED
      BY <2>1, <2>8, PlacesFoot
  <1>16. CASE StartWorker
    <2>1. /\ pc'[Host] = "write" /\ at[Host] \in Workers /\ pc'[at[Host]] = "warmup"
          /\ \A u \in Threads \ {Host, at[Host]} : pc'[u] = pc[u]
          /\ DOMAIN pc' = Threads /\ UNCHANGED <<at, start>>
      BY <1>0, <1>16, StartFoot
    <2>2. "write" \in HostPCs /\ "warmup" \in WorkerPCs
      BY DEF HostPCs, WorkerPCs
    <2>3. \A t \in Threads : pc'[t] \in Home(t)
      BY <1>3, <1>4, <2>1, <2>2 DEF PlaceTypes
    <2> QED
      BY <1>0, <2>1, <2>3 DEF PlaceTypes, Placed
  <1>17. CASE UNCHANGED vars
    BY <1>17 DEF vars, PlaceTypes, Placed
  <1> QED
    BY <1>5, <1>6, <1>7, <1>8, <1>9, <1>10, <1>11, <1>12, <1>13, <1>14, <1>15, <1>16, <1>17, Kinds
-----------------------------------------------------------------------------
(***************************************************************************)
(* The lock of sleepers.                                                   *)
(***************************************************************************)
LEMMA LockFoot ==
  ASSUME LockInv, NEW A, NEW B, NEW t, Foot(t, A, B), UNCHANGED lock,
         A \cap {"check", "scan"} = {}, B \cap {"check", "scan"} = {}
  PROVE  LockInv'
  BY Who DEF LockInv, Foot

\* The lock of sleepers goes with the check for work.
LEMMA LockStep ==
  ASSUME Placed, LockInv, Construction, [Next]_vars
  PROVE  LockInv'
  <1>0. NoThread \notin Workers
    BY Who
  <1>1. ASSUME NEW t \in Threads, WakeNobody(t) \/ WakeOne(t) \/ Unpark(t) PROVE LockInv'
    <2>1. Foot(t, {"wake", "unpark"}, {AfterWake(t), "unpark"}) /\ UNCHANGED lock
      BY <1>1, WakeNobodyFoot, WakeOneFoot, UnparkFoot DEF Foot, sleep
    <2>2. AfterWake(t) \notin {"check", "scan"}
      BY DEF AfterWake
    <2> QED
      BY <2>1, <2>2, LockFoot
  <1>2. ASSUME NEW t \in Finders, Search(t) PROVE LockInv'
    BY <1>2, SearchFoot, LockFoot DEF SearchFrom, SearchTo, sleep
  <1>3. ASSUME NEW t \in Finders, Submit(t) PROVE LockInv'
    BY <1>3, SubmitFoot, LockFoot DEF SubmitFrom, SubmitTo, sleep
  <1>4. ASSUME NEW t \in Finders, WakeAssigned(t) PROVE LockInv'
    BY <1>4, AssignedFoot, LockFoot
  <1>5. ASSUME NEW w \in Workers, Doze(w) PROVE LockInv'
    <2>1. /\ w \in Threads /\ pc[w] \in DozeFrom
          /\ \A u \in Workers \ {w} : pc'[u] = pc[u]
      BY <1>5, DozeFoot, Who DEF Foot
    <2>2. CASE WarmUp(w)
      BY <2>1, <2>2 DEF WarmUp, Goto, LockInv, Placed, sleep
    <2>3. CASE LockSleepers(w)
      BY <1>0, <2>1, <2>3 DEF LockSleepers, GotoAt, LockInv, Placed
    <2>4. CASE WorkSeen(w)
      BY <1>0, <2>1, <2>4 DEF WorkSeen, GotoAt, LockInv, Placed
    <2>5. CASE ScanNext(w)
      BY <2>1, <2>5 DEF ScanNext, GotoAt, LockInv, Placed, sleep
    <2> QED
      BY <1>5, <2>2, <2>3, <2>4, <2>5 DEF Doze
  <1>6. ASSUME NEW w \in Workers, Register(w) PROVE LockInv'
    BY <1>0, <1>6, RegisterFoot, Who DEF Foot, LockInv
  <1>7. ASSUME NEW w \in Workers, Unregister(w) PROVE LockInv'
    BY <1>7, UnregisterFoot, LockFoot
  <1>8. ASSUME NEW w \in Workers, Unparked(w) PROVE LockInv'
    BY <1>8, UnparkedFoot, LockFoot
  <1>9. ASSUME NEW x \in Pushed, Push(x) PROVE LockInv'
    BY <1>9, PushFoot, LockFoot DEF sleep
  <1>10. ASSUME NEW t \in {Host, Helper}, Enter(t) PROVE LockInv'
    BY <1>10, EnterFoot, LockFoot DEF sleep
  <1>11. CASE HostLife
    BY <1>11, HostFoot, LockFoot DEF HostFrom
  <1>12. CASE StartWorker
    <2>1. pc[at[Host]] = "unborn"
      BY <1>12, PoolAssumption DEF StartWorker, Construction, Workers
    <2> QED
      BY <1>12, <2>1, StartFoot, Who DEF LockInv, sleep
  <1>13. CASE UNCHANGED vars
    BY <1>13 DEF vars, sleep, LockInv
  <1> QED
    BY <1>1, <1>2, <1>3, <1>4, <1>5, <1>6, <1>7, <1>8, <1>9, <1>10, <1>11, <1>12, <1>13, Kinds
-----------------------------------------------------------------------------
(***************************************************************************)
(* The indices of the loops that publish a batch and wake a worker.        *)
(***************************************************************************)
LEMMA LoopsFoot ==
  ASSUME Loops, NEW A, NEW B, NEW t, Foot(t, A, B), B \cap {"batch", "unpark"} = {}
  PROVE  Loops'
  BY Who DEF Loops, Foot

\* Loops over inboxes and sleepers stay within their bounds.
LEMMA LoopsStep ==
  ASSUME PlaceTypes, SleepTypes, Loops, [Next]_vars
  PROVE  Loops'
  <1>0. Placed
    BY DEF PlaceTypes
  <1>1. ASSUME NEW t \in Threads, WakeNobody(t) \/ Unpark(t) PROVE Loops'
    <2>1. Foot(t, {"wake", "unpark"}, {AfterWake(t)})
      BY <1>0, <1>1, WakeNobodyFoot, UnparkFoot DEF Foot
    <2>2. {AfterWake(t)} \cap {"batch", "unpark"} = {}
      BY DEF AfterWake
    <2> QED
      BY <2>1, <2>2, LoopsFoot
  <1>2. ASSUME NEW t \in Threads, WakeOne(t) PROVE Loops'
    <2>1. Foot(t, {"wake"}, {"unpark"}) /\ at'[t] = Head(sleepers) /\ sleepers # <<>>
      BY <1>0, <1>2, WakeOneFoot
    <2>2. at'[t] \in Workers
      BY <2>1, TailKeeps DEF SleepTypes
    <2> QED
      BY <2>1, <2>2, Who DEF Loops, Foot
  <1>3. ASSUME NEW t \in Finders, Search(t) PROVE Loops'
    <2>1. Foot(t, SearchFrom, SearchTo) /\ SearchTo \cap {"batch", "unpark"} = {}
      BY <1>0, <1>3, SearchFoot DEF SearchTo
    <2> QED
      BY <2>1, LoopsFoot
  <1>4. ASSUME NEW t \in Finders, Submit(t) PROVE Loops'
    <2>1. Foot(t, SubmitFrom, SubmitTo)
      BY <1>0, <1>4, SubmitFoot
    <2>2. pc'[t] = "batch" => at'[t] \in Members
      <3>1. N \in Members /\ \A m \in Members : m # 0 => m - 1 \in Members
        BY PoolAssumption DEF Members
      <3>2. t \in Threads /\ (pc[t] = "batch" => at[t] \in Members)
        BY Who DEF Loops
      <3>3. CASE ReleaseInbox(t)
        BY <1>0, <3>1, <3>2, <3>3 DEF ReleaseInbox, GotoAt, Placed
      <3>4. CASE ~ReleaseInbox(t)
        BY <1>0, <1>4, <3>1, <3>2, <3>4 DEF Submit, OpenScope, LockInboxes, Wait, Spawn, Goto, GotoAt, Placed
      <3> QED
        BY <3>3, <3>4
    <2>3. pc'[t] # "unpark"
      BY <2>1 DEF Foot, SubmitTo
    <2> QED
      BY <2>1, <2>2, <2>3, Who DEF Loops, Foot
  <1>5. ASSUME NEW t \in Finders, WakeAssigned(t) PROVE Loops'
    BY <1>0, <1>5, AssignedFoot, LoopsFoot
  <1>6. ASSUME NEW w \in Workers, Doze(w) PROVE Loops'
    <2>1. Foot(w, DozeFrom, DozeTo) /\ DozeTo \cap {"batch", "unpark"} = {}
      BY <1>0, <1>6, DozeFoot DEF DozeTo
    <2> QED
      BY <2>1, LoopsFoot
  <1>7. ASSUME NEW w \in Workers, Register(w) PROVE Loops'
    BY <1>0, <1>7, RegisterFoot, LoopsFoot
  <1>8. ASSUME NEW w \in Workers, Unregister(w) PROVE Loops'
    BY <1>0, <1>8, UnregisterFoot, LoopsFoot
  <1>9. ASSUME NEW w \in Workers, Unparked(w) PROVE Loops'
    BY <1>0, <1>9, UnparkedFoot, LoopsFoot
  <1>10. ASSUME NEW x \in Pushed, Push(x) PROVE Loops'
    BY <1>0, <1>10, PushFoot, LoopsFoot
  <1>11. ASSUME NEW t \in {Host, Helper}, Enter(t) PROVE Loops'
    BY <1>0, <1>11, EnterFoot, LoopsFoot
  <1>12. CASE HostLife
    <2>1. Foot(Host, HostFrom, HostFrom) /\ HostFrom \cap {"batch", "unpark"} = {}
      BY <1>0, <1>12, HostFoot DEF HostFrom
    <2> QED
      BY <2>1, LoopsFoot
  <1>13. CASE StartWorker
    BY <1>0, <1>13, StartFoot, Who DEF Loops
  <1>14. CASE UNCHANGED vars
    BY <1>14 DEF vars, Loops
  <1> QED
    BY <1>1, <1>2, <1>3, <1>4, <1>5, <1>6, <1>7, <1>8, <1>9, <1>10, <1>11, <1>12, <1>13, <1>14, Kinds
-----------------------------------------------------------------------------
(***************************************************************************)
(* Construction and shutdown.                                              *)
(***************************************************************************)
Resting == {"unborn", "warmup", "exited", "idle", "outside", "new", "write", "ready", "stopping",
            "dropped"}

\* Work changes nothing in the life of the pool.
LEMMA ActiveStep ==
  ASSUME Construction, Gate, NEW A, NEW B, NEW t, Foot(t, A, B), A \cap Resting = {},
         UNCHANGED life, B \cap {"unborn", "warmup", "new", "write", "ready", "stopping", "dropped"} = {},
         pc'[t] = "exited" => ~running
  PROVE  Construction' /\ Gate'
  <1>1. /\ t \in Threads /\ pc[t] \notin Resting
        /\ pc'[t] \notin {"unborn", "warmup", "new", "write", "ready", "stopping", "dropped"}
        /\ \A u \in Threads \ {t} : pc'[u] = pc[u]
        /\ running' = running /\ init' = init /\ slots' = slots
    BY DEF Foot, life
  <1>2. init /\ pc[Host] # "dropped" /\ pc[Host] \notin {"new", "write", "ready"}
    BY <1>1, Who DEF Gate, Resting
  <1>3. t \notin Workers => running
    BY <1>1, Who DEF Gate, Resting
  <1>4. pc'[Host] = "stopping" <=> pc[Host] = "stopping"
    BY <1>1, Who DEF Resting
  <1>5. pc'[Host] \notin {"new", "write", "ready", "dropped"}
    BY <1>1, <1>2, Who
  <1>6. Construction'
    BY <1>5 DEF Construction
  <1>7. Gate'
    <2>1. \A w \in Workers : pc'[w] # "unborn" /\ (running => pc'[w] # "exited")
      BY <1>1, <1>2, Who DEF Gate
    <2>2. ~running => pc'[Helper] = "outside" /\ pc'[Pusher] = "idle"
      BY <1>1, <1>3, Who DEF Gate
    <2> QED
      BY <1>1, <1>2, <1>4, <1>5, <2>1, <2>2 DEF Gate
  <1> QED
    BY <1>6, <1>7

\* Construction, the gate and shutdown in every step.
LEMMA LifeStep ==
  ASSUME PlaceTypes, Construction, Gate, [Next]_vars
  PROVE  Construction' /\ Gate'
  <1>0. Placed
    BY DEF PlaceTypes
  <1>1. ASSUME NEW t \in Threads, WakeNobody(t) \/ WakeOne(t) \/ Unpark(t)
        PROVE  Construction' /\ Gate'
    <2>1. Foot(t, {"wake", "unpark"}, {"idle", "scope", "unpark"}) /\ UNCHANGED life
      BY <1>0, <1>1, WakeNobodyFoot, WakeOneFoot, UnparkFoot DEF Foot, AfterWake
    <2>2. pc'[t] # "exited"
      BY <2>1 DEF Foot
    <2> QED
      BY <2>1, <2>2, ActiveStep DEF Resting
  <1>2. ASSUME NEW t \in Finders, Search(t)
        PROVE  Construction' /\ Gate'
    <2>1. Foot(t, SearchFrom, SearchTo) /\ UNCHANGED life
      BY <1>0, <1>2, SearchFoot
    <2>2. /\ SearchFrom \cap Resting = {}
          /\ SearchTo \cap {"unborn", "warmup", "new", "write", "ready", "stopping", "dropped"} = {}
      BY DEF SearchFrom, SearchTo, Resting
    <2>3. pc'[t] = "exited" => ~running
      <3>1. t \in DOMAIN pc
        BY Who DEF PlaceTypes, Placed
      <3> QED
        BY <1>2, <3>1 DEF Search, LoopTop, Until, ScopeCompleted, PopOwn, PopInbox, PopNothing, Pull,
             StealDeque, PullNothing, Publish, StealInbox, NextVictim, GiveUp, Run, Leave, Take, Goto,
             GotoAt, Begin
    <2> QED
      BY <2>1, <2>2, <2>3, ActiveStep
  <1>3. ASSUME NEW t \in Finders, Submit(t) \/ WakeAssigned(t)
        PROVE  Construction' /\ Gate'
    <2>1. Foot(t, SubmitFrom \cup {"batch_wake"}, SubmitTo) /\ UNCHANGED life
      BY <1>0, <1>3, SubmitFoot, AssignedFoot DEF Foot, SubmitTo
    <2>2. /\ (SubmitFrom \cup {"batch_wake"}) \cap Resting = {}
          /\ SubmitTo \cap {"unborn", "warmup", "new", "write", "ready", "stopping", "dropped"} = {}
          /\ "exited" \notin SubmitTo
      BY DEF SubmitFrom, SubmitTo, Resting
    <2>3. pc'[t] # "exited"
      BY <2>1, <2>2 DEF Foot
    <2> QED
      BY <2>1, <2>2, <2>3, ActiveStep
  <1>4. ASSUME NEW w \in Workers, Doze(w)
        PROVE  Construction' /\ Gate'
    <2>1. Foot(w, DozeFrom, DozeTo) /\ UNCHANGED life
      BY <1>0, <1>4, DozeFoot
    <2>2. CASE WarmUp(w)
      <3>1. /\ pc[w] = "warmup" /\ (init \/ ~running)
            /\ pc'[w] = (IF running THEN "top" ELSE "exited")
            /\ \A u \in Threads \ {w} : pc'[u] = pc[u]
            /\ running' = running /\ init' = init /\ slots' = slots /\ at' = at
        BY <1>0, <2>2, Who DEF WarmUp, Goto, life, Placed
      <3>2. pc'[Host] = pc[Host] /\ pc'[Helper] = pc[Helper] /\ pc'[Pusher] = pc[Pusher]
        BY <3>1, Who
      <3>3. pc[Host] \notin {"new", "write", "ready", "dropped"}
        BY <3>1 DEF Gate
      <3>4. Construction'
        BY <3>2, <3>3 DEF Construction
      <3>5. \A u \in Workers : u = w \/ pc'[u] = pc[u]
        BY <3>1, Who
      <3>6. Gate'
        BY <3>1, <3>2, <3>3, <3>5 DEF Gate
      <3> QED
        BY <3>4, <3>6
    <2>3. CASE ~WarmUp(w)
      <3>1. Foot(w, {"sleep", "check", "scan"}, {"top", "check", "scan"})
        BY <1>4, <2>1, <2>3, Who DEF Foot, Doze, LockSleepers, WorkSeen, ScanNext, GotoAt, DozeFrom, Placed, PlaceTypes
      <3>2. pc'[w] # "exited"
        BY <3>1 DEF Foot
      <3> QED
        BY <2>1, <3>1, <3>2, ActiveStep DEF Resting
    <2> QED
      BY <2>2, <2>3
  <1>5. ASSUME NEW w \in Workers, Register(w) \/ Unregister(w) \/ Unparked(w)
        PROVE  Construction' /\ Gate'
    <2>1. Foot(w, {"scan", "unregister", "park"}, {"park", "top", "unregister"}) /\ UNCHANGED life
      BY <1>0, <1>5, RegisterFoot, UnregisterFoot, UnparkedFoot DEF Foot
    <2>2. pc'[w] # "exited"
      BY <2>1 DEF Foot
    <2> QED
      BY <2>1, <2>2, ActiveStep DEF Resting
  <1>6. ASSUME NEW t, NEW p \in {"wake", "scope"}, t \in {Host, Pusher, Helper}, Usable,
               Foot(t, {"idle", "outside"}, {p}), UNCHANGED life
        PROVE  Construction' /\ Gate'
    <2>1. /\ running /\ init /\ pc[Host] \notin {"new", "write", "ready", "stopping", "dropped"}
      BY <1>6 DEF Usable, Gate
    <2>2. /\ pc'[Host] \notin {"new", "write", "ready", "stopping", "dropped"}
          /\ \A w \in Workers : pc'[w] = pc[w]
          /\ running' = running /\ init' = init /\ slots' = slots
      BY <1>6, <2>1, Who DEF Foot, life
    <2>3. Construction'
      BY <2>2 DEF Construction
    <2>4. Gate'
      BY <2>1, <2>2 DEF Gate
    <2> QED
      BY <2>3, <2>4
  <1>7. ASSUME NEW x \in Pushed, Push(x)
        PROVE  Construction' /\ Gate'
    <2>1. Foot(Pusher, {"idle", "outside"}, {"wake"}) /\ UNCHANGED life /\ Usable
      BY <1>0, <1>7, PushFoot DEF Foot, Push
    <2> QED
      BY <1>6, <2>1
  <1>8. ASSUME NEW t \in {Host, Helper}, Enter(t)
        PROVE  Construction' /\ Gate'
    <2>1. Foot(t, {"idle", "outside"}, {"scope"}) /\ UNCHANGED life /\ Usable
      BY <1>0, <1>8, EnterFoot DEF Foot, Enter, EnterScope, EnterAsHelper
    <2> QED
      BY <1>6, <2>1
  <1>9. CASE StartWorker
    <2>1. /\ pc[Host] = "new" /\ pc'[Host] = "write"
          /\ at[Host] \in Workers /\ pc'[at[Host]] = "warmup"
          /\ \A u \in Threads \ {Host, at[Host]} : pc'[u] = pc[u]
          /\ running' = running /\ init' = init /\ slots' = slots /\ at' = at
      BY <1>0, <1>9, StartFoot DEF life
    <2>2. \A w \in Workers : w # at[Host] => pc'[w] = pc[w]
      BY <2>1, Who
    <2>3. /\ slots = 0..(at[Host] - 1) /\ at[Host] \in Members
          /\ \A w \in Workers : pc[w] = IF w < at[Host] THEN "warmup" ELSE "unborn"
      BY <2>1 DEF Construction
    <2>4. Construction'
      BY <2>1, <2>2, <2>3, PoolAssumption DEF Construction, Workers
    <2>5. pc'[Helper] = pc[Helper] /\ pc'[Pusher] = pc[Pusher]
      BY <2>1, Who
    <2>6. ~init /\ running
      BY <2>1 DEF Gate
    <2>7. \A w \in Workers : pc'[w] \in {"unborn", "warmup"}
      BY <2>1, <2>2, <2>3
    <2>8. Gate'
      BY <2>1, <2>5, <2>6, <2>7 DEF Gate
    <2> QED
      BY <2>4, <2>8
  <1>10. CASE HostLife
    <2>1. /\ \A u \in Threads \ {Host} : pc'[u] = pc[u]
          /\ Host \in DOMAIN pc /\ Host \in DOMAIN at
      BY <1>0, <1>10, HostFoot, Who DEF Foot, Placed
    <2>2. /\ \A w \in Workers : pc'[w] = pc[w]
          /\ pc'[Helper] = pc[Helper] /\ pc'[Pusher] = pc[Pusher]
      BY <2>1, Who
    <2>3. N \in Nat /\ Workers = 0..(N - 1) /\ Host = N /\ Members = 0..N
      BY PoolAssumption DEF Workers, Host, Members
    <2>4. CASE WriteSlot
      <3>1. /\ pc[Host] = "write" /\ pc'[Host] = "new" /\ at'[Host] = at[Host] + 1
            /\ slots' = slots \cup {at[Host]} /\ running' = running /\ init' = init
        BY <2>1, <2>4 DEF WriteSlot, GotoAt
      <3>2. /\ at[Host] \in Workers /\ slots = 0..(at[Host] - 1)
            /\ \A w \in Workers : pc[w] = IF w < at[Host] \/ w = at[Host] THEN "warmup" ELSE "unborn"
        BY <3>1 DEF Construction
      <3>3. slots' = 0..(at'[Host] - 1) /\ at'[Host] \in Members
        BY <2>3, <3>1, <3>2
      <3>4. \A w \in Workers : pc'[w] = IF w < at'[Host] THEN "warmup" ELSE "unborn"
        BY <2>2, <2>3, <3>1, <3>2
      <3>5. Construction'
        BY <3>1, <3>3, <3>4 DEF Construction
      <3>6. Gate'
        BY <2>2, <3>1 DEF Gate
      <3> QED
        BY <3>5, <3>6
    <2>5. CASE StartFails
      <3>1. pc[Host] = "new" /\ pc'[Host] = "stopping" /\ ~running' /\ init' = init /\ slots' = slots
        BY <2>1, <2>5 DEF StartFails, GotoAt
      <3>2. Construction' /\ ~init
        BY <3>1 DEF Construction, Gate
      <3>3. Gate'
        BY <2>2, <3>1, <3>2 DEF Gate
      <3> QED
        BY <3>2, <3>3
    <2>6. CASE WriteHostSlot
      <3>1. /\ pc[Host] = "new" /\ at[Host] = N /\ pc'[Host] = "ready"
            /\ slots' = slots \cup {Host} /\ running' = running /\ init' = init
        BY <2>1, <2>6 DEF WriteHostSlot, Goto
      <3>2. slots = 0..(N - 1) /\ \A w \in Workers : pc[w] = "warmup"
        BY <2>3, <3>1 DEF Construction
      <3>3. slots' = Members
        BY <2>3, <3>1, <3>2
      <3>4. Construction'
        BY <2>2, <3>1, <3>2 DEF Construction
      <3>5. Gate'
        BY <2>2, <3>1, <3>3 DEF Gate
      <3> QED
        BY <3>4, <3>5
    <2>7. CASE InitCompleted
      <3>1. pc[Host] = "ready" /\ pc'[Host] = "outside" /\ init' /\ running' = running /\ slots' = slots
        BY <2>1, <2>7 DEF InitCompleted, GotoAt
      <3>2. /\ running /\ slots = Members /\ \A w \in Workers : pc[w] = "warmup"
        BY <3>1 DEF Construction, Gate
      <3> QED
        BY <2>2, <3>1, <3>2 DEF Construction, Gate
    <2>8. CASE Stop
      <3>1. /\ pc[Host] = "outside" /\ pc[Helper] = "outside" /\ pc[Pusher] = "idle"
            /\ pc'[Host] = "stopping" /\ ~running' /\ init' = init /\ slots' = slots
        BY <2>1, <2>8 DEF Stop, GotoAt
      <3> QED
        BY <2>2, <3>1 DEF Construction, Gate
    <2>9. CASE StopUnpark
      <3>1. pc[Host] = "stopping" /\ pc'[Host] = "stopping"
            /\ running' = running /\ init' = init /\ slots' = slots
        BY <2>1, <2>9 DEF StopUnpark, GotoAt, life
      <3> QED
        BY <2>2, <3>1 DEF Construction, Gate
    <2>10. CASE Join
      <3>1. /\ pc[Host] = "stopping" /\ pc'[Host] = "dropped" /\ running' = running /\ init' = init
            /\ \A w \in Workers : pc[w] \in {"unborn", "exited"}
        BY <2>1, <2>10 DEF Join, Goto, Handles
      <3> QED
        BY <2>2, <3>1 DEF Construction, Gate
    <2>11. CASE Dropped
      BY <2>11 DEF Dropped, vars, life, Construction, Gate
    <2> QED
      BY <1>10, <2>4, <2>5, <2>6, <2>7, <2>8, <2>9, <2>10, <2>11 DEF HostLife
  <1>11. CASE UNCHANGED vars
    BY <1>11 DEF vars, life, Construction, Gate
  <1> QED
    BY <1>1, <1>2, <1>3, <1>4, <1>5, <1>7, <1>8, <1>9, <1>10, <1>11, Kinds
-----------------------------------------------------------------------------
(***************************************************************************)
(* The queues.                                                             *)
(***************************************************************************)
LEMMA VictimIsMember ==
  ASSUME PlaceTypes, NEW t \in Finders
  PROVE  Victim(t) \in Members /\ Victim(t) \in Finders
  <1>1. N \in Nat /\ start[t] \in Int /\ at[t] \in Int
    BY Who, PoolAssumption DEF PlaceTypes, Members
  <1>2. \A a \in Int, m \in Nat \ {0} : a % m \in 0..(m - 1)
    OBVIOUS
  <1>3. start[t] + at[t] \in Int /\ N + 1 \in Nat \ {0} /\ (N + 1) - 1 = N
    BY <1>1
  <1>4. (start[t] + at[t]) % (N + 1) \in 0..((N + 1) - 1)
    BY <1>2, <1>3, Zenon
  <1> QED
    BY <1>3, <1>4, Who DEF Victim, Members

\* A step of Search that takes a job out of the inbox of m.
TakesInbox(t, m) ==
  /\ m \in Finders /\ inbox[m] # <<>>
  /\ \/ pc[t] \in {"look", "again"} /\ deque[t] = <<>>
     \/ pc[t] = "steal"
  /\ inbox' = [inbox EXCEPT ![m] = Tail(@)]
  /\ hand' = [hand EXCEPT ![t] = Append(@, Head(inbox[m]))]
  /\ pc' = [pc EXCEPT ![t] = "run"]
  /\ UNCHANGED <<queue, deque, flight, fresh, ran>>

\* One that takes n jobs out of the deque of v.
TakesDeque(t, v, n) ==
  /\ v \in Members /\ v # t /\ n \in Nat \ {0} /\ n <= Len(deque[v])
  /\ t = Helper => n = 1
  /\ flight' = [flight EXCEPT ![t] = SubSeq(deque[v], 1, n)]
  /\ deque' = [deque EXCEPT ![v] = SubSeq(deque[v], n + 1, Len(deque[v]))]
  /\ pc[t] = "steal" /\ pc' = [pc EXCEPT ![t] = "publish"]
  /\ UNCHANGED <<queue, inbox, hand, fresh, ran>>

\* One that takes n jobs out of the shared queue.
TakesQueue(t, n) ==
  /\ n \in Nat \ {0} /\ n <= Len(queue)
  /\ t = Helper => n = 1
  /\ flight' = [flight EXCEPT ![t] = SubSeq(queue, 1, n)]
  /\ queue' = SubSeq(queue, n + 1, Len(queue))
  /\ pc[t] = "pull" /\ pc' = [pc EXCEPT ![t] = "publish"]
  /\ UNCHANGED <<deque, inbox, hand, fresh, ran>>

\* One that leaves the innermost body, whose jobs have all run.
Leaves(t) ==
  /\ hand[t] # <<>> /\ (Kids(Body(t)) = {} \/ Completed(Body(t)))
  /\ ran' = ran \cup ({Body(t)} \cap Jobs)
  /\ hand' = [hand EXCEPT ![t] = Front(hand[t])]
  /\ pc[t] \in {"top", "run"}
  /\ pc' = [pc EXCEPT ![t] = IF Body(t) \in Jobs THEN "top" ELSE "outside"]
  /\ UNCHANGED <<queue, deque, inbox, flight, fresh>>

\* One that moves nothing: it goes on to the next place to look.
LooksOn(t) ==
  /\ UNCHANGED work
  /\ \/ pc[t] = "top" /\ pc'[t] = "look"
     \/ pc[t] = "top" /\ pc'[t] = "exited" /\ t \in Workers
     \/ pc[t] \in {"look", "again"} /\ pc'[t] \in {"pull", "steal"} /\ deque[t] = <<>>
     \/ pc[t] \in {"pull", "steal"} /\ pc'[t] = "steal"
     \/ pc[t] = "steal" /\ pc'[t] = "top"
     \/ pc[t] = "steal" /\ pc'[t] = "sleep" /\ t \in Workers

\* The steps of a search, by what they move.
LEMMA SearchKinds ==
  ASSUME PlaceTypes, HandsFull, NEW t \in Finders, Search(t)
  PROVE  \/ LooksOn(t) \/ Leaves(t) \/ PopOwn(t) \/ Publish(t)
         \/ \E m \in Finders : TakesInbox(t, m)
         \/ \E v \in Members, n \in Nat : TakesDeque(t, v, n)
         \/ \E n \in Nat : TakesQueue(t, n)
  <1>1. t \in DOMAIN pc /\ t \in Threads
    BY Who DEF PlaceTypes, Placed
  <1>2. CapacityOf(t) \in Nat /\ (t = Helper => CapacityOf(t) = 1)
    BY PoolAssumption DEF CapacityOf
  <1>3. Victim(t) \in Members /\ Victim(t) \in Finders
    BY VictimIsMember
  <1>4. CASE LoopTop(t) \/ Until(t) \/ PopNothing(t) \/ GiveUp(t) \/ NextVictim(t)
             \/ \E s \in Members : PullNothing(t, s)
    BY <1>1, <1>4 DEF LooksOn, LoopTop, Until, PopNothing, GiveUp, NextVictim, PullNothing, Visits,
                      Goto, GotoAt, Begin
  <1>5. CASE ScopeCompleted(t)
    BY <1>5 DEF Leaves, ScopeCompleted, Leave, Begin
  <1>6. CASE Run(t)
    BY <1>6 DEF Leaves, Run, Leave, Begin, HandsFull
  <1>7. CASE PopInbox(t)
    BY <1>7 DEF PopInbox, TakesInbox, Take, Goto
  <1>8. CASE StealInbox(t)
    BY <1>3, <1>8 DEF StealInbox, Visits, TakesInbox, Take, Goto
  <1>9. CASE \E n \in 1..CapacityOf(t) : StealDeque(t, n)
    <2>1. PICK n \in 1..CapacityOf(t) : StealDeque(t, n)
      BY <1>9
    <2>2. n \in Nat \ {0} /\ (t = Helper => n = 1)
      BY <1>2
    <2> QED
      BY <1>3, <2>1, <2>2 DEF StealDeque, TakesDeque, GotoAt, Visits
  <1>10. CASE \E n \in 1..CapacityOf(t), s \in Members : Pull(t, n, s)
    <2>1. PICK n \in 1..CapacityOf(t), s \in Members : Pull(t, n, s)
      BY <1>10
    <2>2. n \in Nat \ {0} /\ (t = Helper => n = 1)
      BY <1>2
    <2> QED
      BY <2>1, <2>2 DEF Pull, TakesQueue, Begin
  <1> QED
    BY <1>4, <1>5, <1>6, <1>7, <1>8, <1>9, <1>10 DEF Search

\* Batches consist of jobs; pushed jobs and calls are of their kinds.
LEMMA BatchTypes ==
  /\ \A b \in Bodies : Batch[b] \in Seq(Jobs) /\ Kids(b) \subseteq Jobs
  /\ Jobs \subseteq Bodies /\ Pushed \subseteq Jobs
  /\ Calls \subseteq Bodies \ Jobs /\ HelperCalls \subseteq Bodies \ Jobs
  BY PoolAssumption DEF Jobs

\* The share of an inbox: the jobs of the batch whose turn it is, each once.
LEMMA ShareKeeps ==
  ASSUME WorkTypes, NEW t \in Finders, hand[t] # <<>>, NEW m
  PROVE  /\ Body(t) \in Bodies /\ Share(t, m) \in Seq(Jobs)
         /\ \A x : x \in Range(Share(t, m)) <=>
              \E i \in DOMAIN Batch[Body(t)] :
                x = Batch[Body(t)][i] /\ TargetOf(CallerIndex(t), i - 1) = m
         /\ \A k, l \in DOMAIN Share(t, m) : Share(t, m)[k] = Share(t, m)[l] => k = l
  <1>1. Body(t) \in Bodies
    BY FrontKeeps DEF WorkTypes, Body
  <1> DEFINE batch == Batch[Body(t)]
             I == {i \in DOMAIN batch : TargetOf(CallerIndex(t), i - 1) = m}
             p == Pick(batch, I)
  <1>2. batch \in Seq(Jobs)
    BY <1>1, BatchTypes
  <1>3. I \in SUBSET DOMAIN batch /\ \A i, j \in I : batch[i] = batch[j] => i = j
    BY <1>1, PoolAssumption
  <1>4. Share(t, m) = p
    BY DEF Share
  <1> HIDE DEF batch
  <1>5. /\ p \in Seq(Jobs)
        /\ \A k \in DOMAIN p : \E i \in I : p[k] = batch[i]
        /\ \A i \in I : \E k \in DOMAIN p : p[k] = batch[i]
        /\ \A k, l \in DOMAIN p : p[k] = p[l] => k = l
    <2> HIDE DEF I
    <2> QED
      BY <1>2, <1>3, Picked
  <1> HIDE DEF p
  <1>6. \A x : x \in Range(p) <=> \E i \in I : x = batch[i]
    BY <1>5 DEF Range
  <1>7. \A x : x \in Range(p) <=>
              \E i \in DOMAIN batch : x = batch[i] /\ TargetOf(CallerIndex(t), i - 1) = m
    BY <1>6
  <1> QED
    BY <1>1, <1>4, <1>5, <1>7 DEF batch

\* The steps that touch the queues.
LEMMA WorkKinds ==
  ASSUME [Next]_vars
  PROVE  \/ \E t \in Finders : Search(t) \/ Submit(t)
         \/ \E x \in Pushed : Push(x)
         \/ Enter(Host) \/ Enter(Helper)
         \/ UNCHANGED work
  <1>1. ASSUME NEW t, WakeNobody(t) \/ WakeOne(t) \/ Unpark(t) \/ WakeAssigned(t) PROVE UNCHANGED work
    BY <1>1 DEF WakeNobody, WakeOne, Unpark, WakeAssigned
  <1>2. ASSUME NEW w, Doze(w) \/ Register(w) \/ Unregister(w) \/ Unparked(w) PROVE UNCHANGED work
    BY <1>2 DEF Doze, WarmUp, LockSleepers, WorkSeen, ScanNext, Register, Unregister, Unparked, Awake,
                SpuriousWake
  <1>3. CASE StartWorker \/ HostLife
    BY <1>3 DEF StartWorker, HostLife, WriteSlot, StartFails, WriteHostSlot, InitCompleted, Stop,
                StopUnpark, Join, Dropped, vars
  <1>4. CASE UNCHANGED vars
    BY <1>4 DEF vars
  <1> QED
    BY <1>1, <1>2, <1>3, <1>4, Kinds

\* Jobs stay jobs wherever they go.
LEMMA WorkTypesStep ==
  ASSUME WorkTypes, PlaceTypes, HandsFull, Loops, [Next]_vars
  PROVE  WorkTypes'
  <1> USE BatchTypes
  <1>1. ASSUME NEW t \in Finders, Search(t) PROVE WorkTypes'
    <2>1. CASE LooksOn(t)
      BY <2>1 DEF LooksOn, work, WorkTypes
    <2>2. CASE Leaves(t)
      <3>1. Front(hand[t]) \in Seq(Bodies)
        BY FrontKeeps DEF WorkTypes
      <3> QED
        BY <2>2, <3>1 DEF Leaves, WorkTypes
    <2>3. CASE PopOwn(t)
      <3>1. Front(deque[t]) \in Seq(Jobs) /\ Last(deque[t]) \in Jobs
        BY <2>3, FrontKeeps DEF PopOwn, WorkTypes
      <3>2. Append(hand[t], Last(deque[t])) \in Seq(Bodies)
        BY <3>1, AppendKeeps DEF WorkTypes
      <3> QED
        BY <2>3, <3>1, <3>2 DEF PopOwn, Take, WorkTypes
    <2>4. CASE Publish(t)
      <3>1. deque[t] \o flight[t] \in Seq(Jobs) /\ <<>> \in Seq(Jobs)
        BY ConcatKeeps DEF WorkTypes
      <3> QED
        BY <2>4, <3>1 DEF Publish, WorkTypes
    <2>5. ASSUME NEW m \in Finders, TakesInbox(t, m) PROVE WorkTypes'
      <3>1. Tail(inbox[m]) \in Seq(Jobs) /\ Head(inbox[m]) \in Jobs
        BY <2>5, TailKeeps DEF TakesInbox, WorkTypes
      <3>2. Append(hand[t], Head(inbox[m])) \in Seq(Bodies)
        BY <3>1, AppendKeeps DEF WorkTypes
      <3> QED
        BY <2>5, <3>1, <3>2 DEF TakesInbox, WorkTypes
    <2>6. ASSUME NEW v \in Members, NEW n \in Nat, TakesDeque(t, v, n) PROVE WorkTypes'
      <3>1. v \in Finders /\ deque[v] \in Seq(Jobs)
        BY Who DEF WorkTypes
      <3>2. SubSeq(deque[v], 1, n) \in Seq(Jobs) /\ SubSeq(deque[v], n + 1, Len(deque[v])) \in Seq(Jobs)
        BY <2>6, <3>1, SplitKeeps DEF TakesDeque
      <3> QED
        BY <2>6, <3>2 DEF TakesDeque, WorkTypes
    <2>7. ASSUME NEW n \in Nat, TakesQueue(t, n) PROVE WorkTypes'
      <3>1. SubSeq(queue, 1, n) \in Seq(Jobs) /\ SubSeq(queue, n + 1, Len(queue)) \in Seq(Jobs)
        BY <2>7, SplitKeeps DEF TakesQueue, WorkTypes
      <3> QED
        BY <2>7, <3>1 DEF TakesQueue, WorkTypes
    <2> QED
      BY <1>1, <2>1, <2>2, <2>3, <2>4, <2>5, <2>6, <2>7, SearchKinds
  <1>2. ASSUME NEW t \in Finders, Submit(t) PROVE WorkTypes'
    <2>1. CASE OpenScope(t) \/ Wait(t)
      BY <2>1 DEF OpenScope, Wait, work, WorkTypes
    <2>2. CASE LockInboxes(t)
      BY <2>2 DEF LockInboxes, WorkTypes
    <2>3. CASE ReleaseInbox(t)
      <3>1. hand[t] # <<>> /\ at[t] \in Finders
        BY <2>3, Who DEF ReleaseInbox, HandsFull, Loops
      <3>2. Share(t, at[t]) \in Seq(Jobs)
        BY <3>1, ShareKeeps
      <3>3. inbox[at[t]] \o Share(t, at[t]) \in Seq(Jobs)
        BY <3>1, <3>2, ConcatKeeps DEF WorkTypes
      <3> QED
        BY <2>3, <3>1, <3>3 DEF ReleaseInbox, WorkTypes
    <2>4. ASSUME NEW x \in Jobs, Spawn(t, x) PROVE WorkTypes'
      <3>1. Append(deque[t], x) \in Seq(Jobs) /\ Append(queue, x) \in Seq(Jobs)
        BY AppendKeeps DEF WorkTypes
      <3> QED
        BY <2>4, <3>1 DEF Spawn, WorkTypes
    <2> QED
      BY <1>2, <2>1, <2>2, <2>3, <2>4 DEF Submit
  <1>3. ASSUME NEW x \in Pushed, Push(x) PROVE WorkTypes'
    <2>1. Append(queue, x) \in Seq(Jobs)
      BY AppendKeeps DEF WorkTypes
    <2> QED
      BY <1>3, <2>1 DEF Push, WorkTypes
  <1>4. ASSUME NEW t \in {Host, Helper}, Enter(t) PROVE WorkTypes'
    <2>1. PICK c \in Bodies : hand' = [hand EXCEPT ![t] = <<c>>]
      BY <1>4, Who DEF Enter, EnterScope, EnterAsHelper
    <2>2. <<c>> \in Seq(Bodies)
      OBVIOUS
    <2> QED
      BY <1>4, <2>1, <2>2 DEF Enter, EnterScope, EnterAsHelper, WorkTypes
  <1>5. CASE UNCHANGED work
    BY <1>5 DEF work, WorkTypes
  <1> QED
    BY <1>1, <1>2, <1>3, <1>4, <1>5, WorkKinds
-----------------------------------------------------------------------------
(***************************************************************************)
(* The stacks of bodies.                                                   *)
(***************************************************************************)
InBody == {"run", "scope", "batch", "batch_wake", "wake", "unpark"}

\* Who keeps its frames keeps what is said of them.
LEMMA HandsFoot ==
  ASSUME HandsFull, UNCHANGED hand, NEW A, NEW B, NEW t, Foot(t, A, B),
         t \in Finders /\ pc'[t] \in InBody => pc[t] \in InBody,
         t \in {Host, Helper} => (pc[t] \in ScopePCs <=> pc'[t] \in ScopePCs)
  PROVE  HandsFull'
  <1>1. \A u \in Finders : pc'[u] \in InBody => hand[u] # <<>>
    BY Who DEF HandsFull, Foot, InBody
  <1>2. \A u \in {Host, Helper} : hand[u] = <<>> <=> pc'[u] \notin ScopePCs
    BY Who DEF HandsFull, Foot
  <1> QED
    BY <1>1, <1>2 DEF HandsFull, InBody

\* A job that begins to run lies on top of the frames.
LEMMA HandsAppend ==
  ASSUME HandsFull, WorkTypes, Placed, NEW t \in Finders, NEW x \in Jobs,
         hand' = [hand EXCEPT ![t] = Append(@, x)], pc' = [pc EXCEPT ![t] = "run"],
         pc[t] \in ScopePCs
  PROVE  HandsFull'
  <1>1. /\ hand'[t] = Append(hand[t], x) /\ pc'[t] = "run"
        /\ \A u \in Finders \ {t} : hand'[u] = hand[u] /\ pc'[u] = pc[u]
    BY Who DEF WorkTypes, Placed
  <1>2. hand'[t] # <<>> /\ "run" \in ScopePCs
    <2>1. hand[t] \in Seq(Bodies) /\ x \in Bodies
      BY BatchTypes DEF WorkTypes
    <2>2. Append(hand[t], x) # <<>>
      BY <2>1, AppendKeeps
    <2> QED
      BY <1>1, <2>2 DEF ScopePCs
  <1>3. t \in Workers => hand'[t] \in Seq(Jobs)
    BY <1>1, AppendKeeps DEF HandsFull
  <1>4. t \in {Host, Helper} => \A i \in DOMAIN hand'[t] : hand'[t][i] \in Jobs <=> i > 1
    <2> SUFFICES ASSUME t \in {Host, Helper}, NEW i \in DOMAIN hand'[t]
                 PROVE  hand'[t][i] \in Jobs <=> i > 1
      OBVIOUS
    <2> DEFINE s == hand[t]
               n == Len(s)
    <2>1. /\ s \in Seq(Bodies) /\ x \in Bodies
      BY BatchTypes DEF WorkTypes
    <2>2. s # <<>> /\ \A j \in DOMAIN s : s[j] \in Jobs <=> j > 1
      BY DEF HandsFull
    <2>3. /\ Append(s, x) \in Seq(Bodies) /\ Len(Append(s, x)) = n + 1
          /\ n \in Nat /\ (\A j \in 1..n : Append(s, x)[j] = s[j]) /\ Append(s, x)[n + 1] = x
      BY <2>1, AppendKeeps
    <2>4. n > 0 /\ DOMAIN s = 1..n /\ DOMAIN Append(s, x) = 1..(n + 1)
      BY <2>1, <2>2, <2>3
    <2>5. i \in 1..(n + 1)
      BY <1>1, <2>4
    <2> HIDE DEF s, n
    <2>6. CASE i \in 1..n
      BY <1>1, <2>2, <2>3, <2>4, <2>6 DEF s
    <2>7. CASE i = n + 1
      BY <1>1, <2>3, <2>4, <2>7 DEF s
    <2> QED
      BY <2>3, <2>5, <2>6, <2>7
  <1>5. \A w \in Workers : hand'[w] \in Seq(Jobs)
    BY <1>1, <1>3, Who DEF HandsFull
  <1>6. \A u \in Finders : pc'[u] \in InBody => hand'[u] # <<>>
    BY <1>1, <1>2 DEF HandsFull, InBody
  <1>7. \A u \in {Host, Helper} : /\ hand'[u] = <<>> <=> pc'[u] \notin ScopePCs
                                  /\ \A i \in DOMAIN hand'[u] : hand'[u][i] \in Jobs <=> i > 1
    BY <1>1, <1>2, <1>4, Who DEF HandsFull
  <1> QED
    BY <1>5, <1>6, <1>7 DEF HandsFull, InBody

\* A body that ends leaves the frames below it.
LEMMA HandsLeave ==
  ASSUME HandsFull, WorkTypes, Placed, NEW t \in Finders, Leaves(t)
  PROVE  HandsFull'
  <1> DEFINE s == hand[t]
             n == Len(s)
  <1>1. /\ hand'[t] = Front(s) /\ pc'[t] = (IF Body(t) \in Jobs THEN "top" ELSE "outside")
        /\ \A u \in Finders \ {t} : hand'[u] = hand[u] /\ pc'[u] = pc[u]
        /\ s # <<>> /\ s \in Seq(Bodies)
    BY Who DEF WorkTypes, Placed, Leaves
  <1>2. /\ Front(s) \in Seq(Bodies) /\ Body(t) = s[n] /\ n \in Nat \ {0}
        /\ Len(Front(s)) = n - 1 /\ \A i \in 1..(n - 1) : Front(s)[i] = s[i]
    BY <1>1, FrontKeeps DEF Body
  <1>3. DOMAIN s = 1..n /\ DOMAIN Front(s) = 1..(n - 1)
    BY <1>1, <1>2
  <1>4. t \in Workers => hand'[t] \in Seq(Jobs)
    BY <1>1, FrontKeeps DEF HandsFull
  <1>5. /\ "top" \notin InBody /\ "outside" \notin InBody
        /\ "top" \in ScopePCs /\ "outside" \notin ScopePCs
    BY DEF InBody, ScopePCs
  <1> HIDE DEF n
  <1>6. ASSUME t \in {Host, Helper}
        PROVE  /\ hand'[t] = <<>> <=> pc'[t] \notin ScopePCs
               /\ \A i \in DOMAIN hand'[t] : hand'[t][i] \in Jobs <=> i > 1
    <2>1. \A j \in 1..n : s[j] \in Jobs <=> j > 1
      BY <1>3, <1>6 DEF HandsFull
    <2>2. n \in 1..n
      BY <1>2
    <2>3. Body(t) \in Jobs <=> n > 1
      BY <1>2, <2>1, <2>2
    <2>4. Front(s) = <<>> <=> n = 1
      BY <1>2
    <2>5. hand'[t] = <<>> <=> pc'[t] \notin ScopePCs
      BY <1>1, <1>2, <1>5, <2>3, <2>4
    <2>6. \A i \in 1..(n - 1) : i \in 1..n
      BY <1>2
    <2> QED
      BY <1>1, <1>2, <1>3, <2>1, <2>5, <2>6
  <1> HIDE DEF s
  <1>7. \A w \in Workers : hand'[w] \in Seq(Jobs)
    BY <1>1, <1>4, Who DEF HandsFull
  <1>8. \A u \in Finders : pc'[u] \in InBody => hand'[u] # <<>>
    BY <1>1, <1>5 DEF HandsFull, InBody
  <1>9. \A u \in {Host, Helper} : /\ hand'[u] = <<>> <=> pc'[u] \notin ScopePCs
                                  /\ \A i \in DOMAIN hand'[u] : hand'[u][i] \in Jobs <=> i > 1
    BY <1>1, <1>6, Who DEF HandsFull
  <1> QED
    BY <1>7, <1>8, <1>9 DEF HandsFull, InBody

\* A waiting thread is inside a body, in every step.
LEMMA HandsStep ==
  ASSUME HandsFull, WorkTypes, PlaceTypes, [Next]_vars
  PROVE  HandsFull'
  <1>0. Placed
    BY DEF PlaceTypes
  <1>1. ASSUME NEW t \in Threads, WakeNobody(t) \/ WakeOne(t) \/ Unpark(t) PROVE HandsFull'
    <2>1. Foot(t, {"wake", "unpark"}, {AfterWake(t), "unpark"}) /\ UNCHANGED hand
      BY <1>0, <1>1, WakeNobodyFoot, WakeOneFoot, UnparkFoot DEF Foot, work
    <2>2. pc[t] \in InBody /\ pc[t] \in ScopePCs /\ (t # Pusher => pc'[t] \in ScopePCs)
      BY <2>1 DEF Foot, InBody, ScopePCs, AfterWake
    <2> QED
      BY <2>1, <2>2, HandsFoot, Who
  <1>2. ASSUME NEW t \in Finders, Search(t) PROVE HandsFull'
    <2>1. Foot(t, SearchFrom, SearchTo)
      BY <1>0, <1>2, SearchFoot
    <2>2. CASE LooksOn(t)
      <3>1. /\ UNCHANGED hand /\ pc'[t] \notin InBody /\ pc[t] \in ScopePCs
            /\ t \notin Workers => pc'[t] \in ScopePCs
        BY <2>2 DEF LooksOn, work, InBody, ScopePCs
      <3> QED
        BY <2>1, <3>1, HandsFoot, Who
    <2>3. CASE PopOwn(t)
      <3>1. Last(deque[t]) \in Jobs
        BY <2>3, FrontKeeps DEF PopOwn, WorkTypes
      <3> QED
        BY <1>0, <2>3, <3>1, HandsAppend DEF PopOwn, Take, Goto, ScopePCs
    <2>4. CASE Publish(t)
      <3>1. UNCHANGED hand /\ pc'[t] = "again" /\ pc[t] = "publish"
        BY <1>0, <2>4, Who DEF Publish, Goto, Placed
      <3> QED
        BY <2>1, <3>1, HandsFoot DEF InBody, ScopePCs
    <2>5. ASSUME NEW m \in Finders, TakesInbox(t, m) PROVE HandsFull'
      <3>1. Head(inbox[m]) \in Jobs
        BY <2>5, TailKeeps DEF TakesInbox, WorkTypes
      <3> QED
        BY <1>0, <2>5, <3>1, HandsAppend DEF TakesInbox, ScopePCs
    <2>6. ASSUME (\E v \in Members, n \in Nat : TakesDeque(t, v, n)) \/ \E n \in Nat : TakesQueue(t, n)
          PROVE  HandsFull'
      <3>1. UNCHANGED hand /\ pc'[t] = "publish" /\ pc[t] \in {"steal", "pull"}
        BY <1>0, <2>6, Who DEF TakesDeque, TakesQueue, Placed
      <3> QED
        BY <2>1, <3>1, HandsFoot DEF InBody, ScopePCs
    <2> QED
      BY <1>0, <1>2, <2>2, <2>3, <2>4, <2>5, <2>6, SearchKinds, HandsLeave
  <1>3. ASSUME NEW t \in Finders, Submit(t) PROVE HandsFull'
    <2>1. Foot(t, SubmitFrom, SubmitTo) /\ UNCHANGED hand
      BY <1>0, <1>3, SubmitFoot
    <2>2. pc[t] \in InBody /\ pc[t] \in ScopePCs /\ pc'[t] \in ScopePCs
      BY <2>1 DEF Foot, SubmitFrom, SubmitTo, InBody, ScopePCs
    <2> QED
      BY <2>1, <2>2, HandsFoot
  <1>4. ASSUME NEW t \in Finders, WakeAssigned(t) PROVE HandsFull'
    <2>1. Foot(t, {"batch_wake"}, {"scope"}) /\ UNCHANGED hand
      BY <1>0, <1>4, AssignedFoot DEF work
    <2>2. pc[t] \in InBody /\ pc[t] \in ScopePCs /\ pc'[t] \in ScopePCs
      BY <2>1 DEF Foot, InBody, ScopePCs
    <2> QED
      BY <2>1, <2>2, HandsFoot
  <1>5. ASSUME NEW w \in Workers, Doze(w) PROVE HandsFull'
    <2>1. Foot(w, DozeFrom, DozeTo) /\ UNCHANGED hand
      BY <1>0, <1>5, DozeFoot DEF work
    <2>2. pc'[w] \notin InBody
      BY <2>1 DEF Foot, DozeTo, InBody
    <2> QED
      BY <2>1, <2>2, HandsFoot, Who
  <1>6. ASSUME NEW w \in Workers, Register(w) \/ Unregister(w) \/ Unparked(w) PROVE HandsFull'
    <2>1. Foot(w, {"scan", "unregister", "park"}, {"park", "top", "unregister"}) /\ UNCHANGED hand
      BY <1>0, <1>6, RegisterFoot, UnregisterFoot, UnparkedFoot DEF Foot, work
    <2>2. pc'[w] \notin InBody
      BY <2>1 DEF Foot, InBody
    <2> QED
      BY <2>1, <2>2, HandsFoot, Who
  <1>7. ASSUME NEW x \in Pushed, Push(x) PROVE HandsFull'
    <2>1. Foot(Pusher, {"idle"}, {"wake"}) /\ UNCHANGED hand
      BY <1>0, <1>7, PushFoot DEF Push
    <2> QED
      BY <2>1, HandsFoot, Who
  <1>8. ASSUME NEW t \in {Host, Helper}, Enter(t) PROVE HandsFull'
    <2>1. t \in Finders /\ Foot(t, {"outside"}, {"scope"})
      BY <1>0, <1>8, EnterFoot, Who
    <2>2. PICK c \in Bodies \ Jobs : hand' = [hand EXCEPT ![t] = <<c>>]
      BY <1>8, BatchTypes, Who DEF Enter, EnterScope, EnterAsHelper
    <2>3. /\ hand'[t] = <<c>> /\ \A u \in Finders \ {t} : hand'[u] = hand[u] /\ pc'[u] = pc[u]
          /\ pc'[t] = "scope" /\ "scope" \in ScopePCs
      BY <2>1, <2>2, Who DEF WorkTypes, Foot, ScopePCs
    <2>4. hand'[t] # <<>> /\ \A i \in DOMAIN hand'[t] : hand'[t][i] \in Jobs <=> i > 1
      BY <2>3
    <2>5. \A w \in Workers : hand'[w] \in Seq(Jobs)
      BY <2>3, Who DEF HandsFull
    <2>6. \A u \in Finders : pc'[u] \in InBody => hand'[u] # <<>>
      BY <2>3, <2>4 DEF HandsFull, InBody
    <2>7. \A u \in {Host, Helper} : /\ hand'[u] = <<>> <=> pc'[u] \notin ScopePCs
                                    /\ \A i \in DOMAIN hand'[u] : hand'[u][i] \in Jobs <=> i > 1
      BY <2>3, <2>4, Who DEF HandsFull
    <2> QED
      BY <2>5, <2>6, <2>7 DEF HandsFull, InBody
  <1>9. CASE HostLife
    <2>1. Foot(Host, HostFrom, HostFrom) /\ UNCHANGED hand
      BY <1>0, <1>9, HostFoot DEF work
    <2>2. pc'[Host] \notin InBody /\ pc[Host] \notin ScopePCs /\ pc'[Host] \notin ScopePCs
      BY <2>1 DEF Foot, HostFrom, InBody, ScopePCs
    <2> QED
      BY <2>1, <2>2, HandsFoot, Who
  <1>10. CASE StartWorker
    <2>1. /\ pc[Host] = "new" /\ pc'[Host] = "write"
          /\ at[Host] \in Workers /\ pc'[at[Host]] = "warmup"
          /\ \A u \in Threads \ {Host, at[Host]} : pc'[u] = pc[u]
          /\ UNCHANGED hand
      BY <1>0, <1>10, StartFoot DEF work
    <2>2. \A u \in Finders : pc'[u] \in InBody => hand[u] # <<>>
      BY <2>1, Who DEF HandsFull, InBody
    <2>3. \A u \in {Host, Helper} : pc[u] \notin ScopePCs <=> pc'[u] \notin ScopePCs
      BY <2>1, Who DEF ScopePCs
    <2> QED
      BY <2>1, <2>2, <2>3 DEF HandsFull, InBody
  <1>11. CASE UNCHANGED vars
    BY <1>11 DEF vars, work, HandsFull
  <1> QED
    BY <1>1, <1>2, <1>3, <1>4, <1>5, <1>6, <1>7, <1>8, <1>9, <1>10, <1>11, Kinds
-----------------------------------------------------------------------------
(***************************************************************************)
(* The deques and the batches on their way into them.                      *)
(***************************************************************************)
Elsewhere == {"pull", "publish", "steal", "sleep", "check", "scan", "park"}

\* Who keeps its deque and its flight keeps what is said of them.
LEMMA DequeFoot ==
  ASSUME DequeEmpty, UNCHANGED <<deque, flight>>, NEW A, NEW B, NEW t, Foot(t, A, B),
         t \in Finders => pc[t] # "publish",
         t \in Finders /\ pc'[t] \in Elsewhere => pc[t] \in Elsewhere \/ deque[t] = <<>>
  PROVE  DequeEmpty'
  <1>1. \A u \in Finders : flight[u] # <<>> => pc'[u] = "publish"
    BY Who DEF DequeEmpty, Foot
  <1>2. \A u \in Finders : pc'[u] \in Elsewhere => deque[u] = <<>>
    BY Who DEF DequeEmpty, Foot, Elsewhere
  <1> QED
    BY <1>1, <1>2 DEF DequeEmpty, Elsewhere

\* Who searches elsewhere has emptied its own deque, in every step.
LEMMA DequeStep ==
  ASSUME DequeEmpty, HandsFull, WorkTypes, PlaceTypes, Construction, [Next]_vars
  PROVE  DequeEmpty'
  <1>0. Placed
    BY DEF PlaceTypes
  <1>1. ASSUME NEW t \in Threads, WakeNobody(t) \/ WakeOne(t) \/ Unpark(t) PROVE DequeEmpty'
    <2>1. Foot(t, {"wake", "unpark"}, {"idle", "scope", "unpark"}) /\ UNCHANGED <<deque, flight>>
      BY <1>0, <1>1, WakeNobodyFoot, WakeOneFoot, UnparkFoot DEF Foot, work, AfterWake
    <2>2. pc[t] # "publish" /\ pc'[t] \notin Elsewhere
      BY <2>1 DEF Foot, Elsewhere
    <2> QED
      BY <2>1, <2>2, DequeFoot
  <1>2. ASSUME NEW t \in Finders, Search(t) PROVE DequeEmpty'
    <2>1. Foot(t, SearchFrom, SearchTo)
      BY <1>0, <1>2, SearchFoot
    <2>2. CASE LooksOn(t)
      <3>1. /\ UNCHANGED <<deque, flight>> /\ pc[t] # "publish"
            /\ pc'[t] \in Elsewhere => pc[t] \in Elsewhere \/ deque[t] = <<>>
        BY <2>2 DEF LooksOn, work, Elsewhere
      <3> QED
        BY <2>1, <3>1, DequeFoot
    <2>3. CASE Leaves(t)
      <3>1. /\ UNCHANGED <<deque, flight>> /\ pc[t] # "publish" /\ pc'[t] \notin Elsewhere
        BY <1>0, <2>3, Who DEF Leaves, Elsewhere, Placed
      <3> QED
        BY <2>1, <3>1, DequeFoot
    <2>4. CASE PopOwn(t)
      <3>1. /\ UNCHANGED flight /\ pc[t] \in {"look", "again"} /\ pc'[t] = "run"
            /\ \A u \in Finders \ {t} : deque'[u] = deque[u] /\ pc'[u] = pc[u]
        BY <1>0, <2>4, Who DEF PopOwn, Take, Goto, Placed, WorkTypes
      <3> QED
        BY <3>1 DEF DequeEmpty
    <2>5. CASE Publish(t)
      <3>1. /\ pc'[t] = "again" /\ flight'[t] = <<>>
            /\ \A u \in Finders \ {t} : deque'[u] = deque[u] /\ flight'[u] = flight[u] /\ pc'[u] = pc[u]
        BY <1>0, <2>5, Who DEF Publish, Goto, Placed, WorkTypes
      <3> QED
        BY <3>1 DEF DequeEmpty
    <2>6. ASSUME NEW m \in Finders, TakesInbox(t, m) PROVE DequeEmpty'
      <3>1. /\ UNCHANGED <<deque, flight>> /\ pc[t] # "publish" /\ pc'[t] \notin Elsewhere
        BY <1>0, <2>6, Who DEF TakesInbox, Elsewhere, Placed
      <3> QED
        BY <2>1, <3>1, DequeFoot
    <2>7. ASSUME NEW v \in Members, NEW n \in Nat, TakesDeque(t, v, n) PROVE DequeEmpty'
      <3>1. /\ v # t /\ v \in Finders /\ pc[t] = "steal" /\ pc'[t] = "publish"
            /\ deque'[v] = SubSeq(deque[v], n + 1, Len(deque[v]))
            /\ \A u \in Finders \ {t} : flight'[u] = flight[u] /\ pc'[u] = pc[u]
            /\ \A u \in Finders \ {v} : deque'[u] = deque[u]
        BY <1>0, <2>7, Who DEF TakesDeque, Placed, WorkTypes
      <3>2. deque[v] = <<>> => deque'[v] = <<>>
        BY <2>7, <3>1, SplitKeeps DEF TakesDeque, WorkTypes
      <3>3. deque'[t] = <<>>
        BY <3>1 DEF DequeEmpty
      <3> QED
        BY <3>1, <3>2, <3>3 DEF DequeEmpty
    <2>8. ASSUME NEW n \in Nat, TakesQueue(t, n) PROVE DequeEmpty'
      <3>1. /\ pc[t] = "pull" /\ pc'[t] = "publish" /\ UNCHANGED deque
            /\ \A u \in Finders \ {t} : flight'[u] = flight[u] /\ pc'[u] = pc[u]
        BY <1>0, <2>8, Who DEF TakesQueue, Placed, WorkTypes
      <3> QED
        BY <3>1 DEF DequeEmpty
    <2> QED
      BY <1>2, <2>2, <2>3, <2>4, <2>5, <2>6, <2>7, <2>8, SearchKinds
  <1>3. ASSUME NEW t \in Finders, Submit(t) PROVE DequeEmpty'
    <2>1. Foot(t, SubmitFrom, SubmitTo) /\ UNCHANGED flight
      BY <1>0, <1>3, SubmitFoot
    <2>2. /\ pc[t] # "publish" /\ pc'[t] \notin Elsewhere
          /\ \A u \in Finders \ {t} : pc'[u] = pc[u]
      BY <2>1, Who DEF Foot, SubmitFrom, SubmitTo, Elsewhere
    <2>3. \A u \in Finders \ {t} : deque'[u] = deque[u]
      BY <1>3 DEF Submit, OpenScope, LockInboxes, ReleaseInbox, Wait, Spawn, work, WorkTypes
    <2> QED
      BY <2>1, <2>2, <2>3 DEF DequeEmpty, Elsewhere
  <1>4. ASSUME NEW t \in Finders, WakeAssigned(t) PROVE DequeEmpty'
    <2>1. Foot(t, {"batch_wake"}, {"scope"}) /\ UNCHANGED <<deque, flight>>
      BY <1>0, <1>4, AssignedFoot DEF work
    <2>2. pc[t] # "publish" /\ pc'[t] \notin Elsewhere
      BY <2>1 DEF Foot, Elsewhere
    <2> QED
      BY <2>1, <2>2, DequeFoot
  <1>5. ASSUME NEW w \in Workers, Doze(w) PROVE DequeEmpty'
    <2>1. Foot(w, DozeFrom, DozeTo) /\ UNCHANGED <<deque, flight>>
      BY <1>0, <1>5, DozeFoot DEF work
    <2>2. pc[w] # "publish" /\ (pc'[w] \in Elsewhere => pc[w] \in Elsewhere)
      BY <1>0, <1>5, Who DEF Doze, WarmUp, LockSleepers, WorkSeen, ScanNext, Goto, GotoAt, Elsewhere, Placed
    <2> QED
      BY <2>1, <2>2, DequeFoot
  <1>6. ASSUME NEW w \in Workers, Register(w) PROVE DequeEmpty'
    <2>1. Foot(w, {"scan"}, {"park"}) /\ UNCHANGED <<deque, flight>>
      BY <1>0, <1>6, RegisterFoot DEF work
    <2>2. pc[w] # "publish" /\ pc[w] \in Elsewhere
      BY <2>1 DEF Foot, Elsewhere
    <2> QED
      BY <2>1, <2>2, DequeFoot
  <1>7. ASSUME NEW w \in Workers, Unregister(w) \/ Unparked(w) PROVE DequeEmpty'
    <2>1. Foot(w, {"unregister", "park"}, {"top", "unregister"}) /\ UNCHANGED <<deque, flight>>
      BY <1>0, <1>7, UnregisterFoot, UnparkedFoot DEF Foot, work
    <2>2. pc[w] # "publish" /\ pc'[w] \notin Elsewhere
      BY <2>1 DEF Foot, Elsewhere
    <2> QED
      BY <2>1, <2>2, DequeFoot
  <1>8. ASSUME NEW x \in Pushed, Push(x) PROVE DequeEmpty'
    <2>1. Foot(Pusher, {"idle"}, {"wake"}) /\ UNCHANGED <<deque, flight>>
      BY <1>0, <1>8, PushFoot DEF Push
    <2> QED
      BY <2>1, DequeFoot, Who
  <1>9. ASSUME NEW t \in {Host, Helper}, Enter(t) PROVE DequeEmpty'
    <2>1. Foot(t, {"outside"}, {"scope"}) /\ UNCHANGED <<deque, flight>>
      BY <1>0, <1>9, EnterFoot
    <2>2. pc[t] # "publish" /\ pc'[t] \notin Elsewhere
      BY <2>1 DEF Foot, Elsewhere
    <2> QED
      BY <2>1, <2>2, DequeFoot
  <1>10. CASE HostLife
    <2>1. Foot(Host, HostFrom, HostFrom) /\ UNCHANGED <<deque, flight>>
      BY <1>0, <1>10, HostFoot DEF work
    <2>2. pc[Host] # "publish" /\ pc'[Host] \notin Elsewhere
      BY <2>1 DEF Foot, HostFrom, Elsewhere
    <2> QED
      BY <2>1, <2>2, DequeFoot
  <1>11. CASE StartWorker
    <2>1. /\ pc[Host] = "new" /\ pc'[Host] = "write"
          /\ at[Host] \in Workers /\ pc'[at[Host]] = "warmup"
          /\ \A u \in Threads \ {Host, at[Host]} : pc'[u] = pc[u]
          /\ UNCHANGED <<deque, flight>>
      BY <1>0, <1>11, StartFoot DEF work
    <2>2. pc[at[Host]] = "unborn"
      BY <2>1, PoolAssumption DEF Construction, Workers
    <2> QED
      BY <2>1, <2>2, Who DEF DequeEmpty
  <1>12. CASE UNCHANGED vars
    BY <1>12 DEF vars, work, DequeEmpty
  <1> QED
    BY <1>1, <1>2, <1>3, <1>4, <1>5, <1>6, <1>7, <1>8, <1>9, <1>10, <1>11, <1>12, Kinds

\* A step that leaves the helper's queues alone and does not take it out of
\* "again" with a job in its deque.
LEMMA HelperStays ==
  ASSUME HelperInv, UNCHANGED <<deque, flight, inbox>>,
         deque[Helper] = <<>> \/ pc'[Helper] = pc[Helper]
  PROVE  HelperInv'
  BY DEF HelperInv

\* The helper takes one job at a time, in every step.
LEMMA HelperStep ==
  ASSUME HelperInv, DequeEmpty, HandsFull, WorkTypes, PlaceTypes, Loops, [Next]_vars
  PROVE  HelperInv'
  <1>0. Placed
    BY DEF PlaceTypes
  <1>a. /\ Helper \in Finders /\ Helper \notin Members /\ Helper \in DOMAIN pc /\ Finders \subseteq DOMAIN pc
        /\ deque[Helper] \in Seq(Jobs) /\ flight[Helper] \in Seq(Jobs)
    BY <1>0, Who DEF WorkTypes, Placed
  <1>1. ASSUME NEW t \in Finders, Search(t) PROVE HelperInv'
    <2>1. \A u \in Threads \ {t} : pc'[u] = pc[u]
      BY <1>0, <1>1, SearchFoot DEF Foot
    <2>2. t # Helper => pc'[Helper] = pc[Helper]
      BY <2>1, Who
    <2>3. CASE LooksOn(t)
      <3>1. UNCHANGED <<deque, flight, inbox>> /\ (pc[t] = "again" => deque[t] = <<>>)
        BY <2>3 DEF LooksOn, work
      <3>2. t = Helper => deque[Helper] = <<>>
        BY <3>1 DEF HelperInv
      <3> QED
        BY <2>2, <3>1, <3>2, HelperStays
    <2>4. CASE Leaves(t)
      <3>1. UNCHANGED <<deque, flight, inbox>> /\ pc[t] # "again"
        BY <2>4 DEF Leaves
      <3>2. t = Helper => deque[Helper] = <<>>
        BY <3>1 DEF HelperInv
      <3> QED
        BY <2>2, <3>1, <3>2, HelperStays
    <2>5. CASE PopOwn(t)
      <3>1. /\ UNCHANGED <<flight, inbox>> /\ deque[t] # <<>>
            /\ deque' = [deque EXCEPT ![t] = Front(@)]
        BY <2>5 DEF PopOwn
      <3>2. CASE t = Helper
        <4>1. Len(deque[Helper]) = 1 /\ deque'[Helper] = Front(deque[Helper])
          <5>1. Len(deque[Helper]) \in Nat \ {0}
            BY <1>a, <3>1, <3>2, FrontKeeps
          <5>2. Len(deque[Helper]) <= 1
            BY DEF HelperInv
          <5>3. deque'[Helper] = Front(deque[Helper])
            BY <1>a, <3>1, <3>2 DEF WorkTypes
          <5>4. \A n \in Nat \ {0} : n <= 1 => n = 1
            OBVIOUS
          <5> QED
            BY <5>1, <5>2, <5>3, <5>4, Zenon
        <4>2. Len(Front(deque[Helper])) = 0 /\ Front(deque[Helper]) \in Seq(Jobs)
          BY <1>a, <3>1, <3>2, <4>1, FrontKeeps
        <4>3. deque'[Helper] = <<>> /\ Len(deque'[Helper]) <= 1
          BY <4>1, <4>2
        <4> QED
          BY <3>1, <4>3 DEF HelperInv
      <3>3. CASE t # Helper
        BY <1>a, <2>2, <3>1, <3>3 DEF HelperInv, WorkTypes
      <3> QED
        BY <3>2, <3>3
    <2>6. CASE Publish(t)
      <3>1. /\ pc[t] = "publish" /\ UNCHANGED inbox /\ pc' = [pc EXCEPT ![t] = "again"]
            /\ deque' = [deque EXCEPT ![t] = @ \o flight[t]]
            /\ flight' = [flight EXCEPT ![t] = <<>>]
        BY <2>6 DEF Publish, Goto
      <3>2. CASE t = Helper
        <4>1. deque[Helper] = <<>>
          BY <1>a, <3>1, <3>2 DEF DequeEmpty
        <4>2. deque[Helper] \o flight[Helper] = flight[Helper]
          BY <1>a, <4>1, ConcatKeeps
        <4>3. deque'[Helper] = flight[Helper] /\ flight'[Helper] = <<>> /\ pc'[Helper] = "again"
          BY <1>a, <3>1, <3>2, <4>2 DEF WorkTypes
        <4>4. Len(flight'[Helper]) <= 1
          BY <4>3
        <4> QED
          BY <3>1, <4>3, <4>4 DEF HelperInv
      <3>3. CASE t # Helper
        BY <1>a, <2>2, <3>1, <3>3 DEF HelperInv, WorkTypes
      <3> QED
        BY <3>2, <3>3
    <2>7. ASSUME NEW m \in Finders, TakesInbox(t, m) PROVE HelperInv'
      <3>1. /\ UNCHANGED <<deque, flight>> /\ inbox'[Helper] = inbox[Helper]
            /\ pc[t] = "again" => deque[t] = <<>>
        BY <1>a, <2>7 DEF TakesInbox, HelperInv, WorkTypes
      <3>2. t = Helper => deque[Helper] = <<>>
        BY <3>1 DEF HelperInv
      <3> QED
        BY <2>2, <3>1, <3>2 DEF HelperInv
    <2>8. ASSUME NEW v \in Members, NEW n \in Nat, TakesDeque(t, v, n) PROVE HelperInv'
      <3>1. /\ v # Helper /\ deque'[Helper] = deque[Helper] /\ UNCHANGED inbox /\ pc[t] = "steal"
        BY <1>a, <2>8 DEF TakesDeque, WorkTypes
      <3>2. CASE t = Helper
        <4>1. flight'[Helper] = SubSeq(deque[v], 1, 1) /\ 1 <= Len(deque[v])
          BY <1>a, <2>8, <3>2 DEF TakesDeque, WorkTypes
        <4>2. Len(flight'[Helper]) = 1
          BY <4>1, SplitKeeps, Who DEF WorkTypes
        <4> QED
          BY <3>1, <3>2, <4>2 DEF HelperInv
      <3>3. CASE t # Helper
        BY <1>a, <2>2, <2>8, <3>1, <3>3 DEF TakesDeque, HelperInv, WorkTypes
      <3> QED
        BY <3>2, <3>3
    <2>9. ASSUME NEW n \in Nat, TakesQueue(t, n) PROVE HelperInv'
      <3>1. UNCHANGED <<deque, inbox>> /\ pc[t] = "pull"
        BY <2>9 DEF TakesQueue
      <3>2. CASE t = Helper
        <4>1. flight'[Helper] = SubSeq(queue, 1, 1) /\ 1 <= Len(queue)
          BY <1>a, <2>9, <3>2 DEF TakesQueue, WorkTypes
        <4>2. Len(flight'[Helper]) = 1
          BY <4>1, SplitKeeps DEF WorkTypes
        <4> QED
          BY <3>1, <3>2, <4>2 DEF HelperInv
      <3>3. CASE t # Helper
        BY <1>a, <2>2, <2>9, <3>1, <3>3 DEF TakesQueue, HelperInv, WorkTypes
      <3> QED
        BY <3>2, <3>3
    <2> QED
      BY <1>1, <2>3, <2>4, <2>5, <2>6, <2>7, <2>8, <2>9, SearchKinds
  <1>2. ASSUME NEW t \in Finders, Submit(t) PROVE HelperInv'
    <2>1. Foot(t, SubmitFrom, SubmitTo) /\ UNCHANGED flight
      BY <1>0, <1>2, SubmitFoot
    <2>2. t = Helper => pc[Helper] # "again"
      BY <2>1 DEF Foot, SubmitFrom
    <2>3. t # Helper => pc'[Helper] = pc[Helper]
      BY <2>1, Who DEF Foot
    <2>4. deque'[Helper] = deque[Helper]
      BY <1>2, <1>a DEF Submit, OpenScope, LockInboxes, ReleaseInbox, Wait, Spawn, work, WorkTypes
    <2>5. inbox'[Helper] = inbox[Helper]
      <3>1. CASE ReleaseInbox(t)
        <4>1. at[t] \in Members
          BY <3>1 DEF ReleaseInbox, Loops
        <4> QED
          BY <1>a, <3>1, <4>1 DEF ReleaseInbox, WorkTypes
      <3>2. CASE ~ReleaseInbox(t)
        BY <1>2, <3>2 DEF Submit, OpenScope, LockInboxes, Wait, Spawn, work
      <3> QED
        BY <3>1, <3>2
    <2> QED
      BY <2>1, <2>2, <2>3, <2>4, <2>5 DEF HelperInv
  <1>3. CASE UNCHANGED <<deque, flight, inbox>> /\ pc'[Helper] = pc[Helper]
    BY <1>3, HelperStays
  <1>4. CASE UNCHANGED <<deque, flight, inbox>> /\ pc[Helper] # "again"
    BY <1>4 DEF HelperInv
  <1>5. ASSUME ~\E t \in Finders : Search(t) \/ Submit(t)
        PROVE  UNCHANGED <<deque, flight, inbox>> /\ (pc'[Helper] = pc[Helper] \/ pc[Helper] # "again")
    <2>1. UNCHANGED <<deque, flight, inbox>>
      BY <1>0, <1>5, WorkKinds, EnterFoot DEF Push, work
    <2>2. ASSUME NEW A, NEW B, NEW t, Foot(t, A, B), "again" \notin A
          PROVE  pc'[Helper] = pc[Helper] \/ pc[Helper] # "again"
      BY <2>2, Who DEF Foot
    <2>3. ASSUME NEW t \in Threads, WakeNobody(t) \/ WakeOne(t) \/ Unpark(t)
          PROVE  pc'[Helper] = pc[Helper] \/ pc[Helper] # "again"
      BY <1>0, <2>2, <2>3, WakeNobodyFoot, WakeOneFoot, UnparkFoot
    <2>4. ASSUME NEW t \in Finders, WakeAssigned(t)
          PROVE  pc'[Helper] = pc[Helper] \/ pc[Helper] # "again"
      BY <1>0, <2>2, <2>4, AssignedFoot
    <2>5. ASSUME NEW w \in Workers, Doze(w) \/ Register(w) \/ Unregister(w) \/ Unparked(w)
          PROVE  pc'[Helper] = pc[Helper]
      BY <1>0, <2>5, DozeFoot, RegisterFoot, UnregisterFoot, UnparkedFoot, Who DEF Foot
    <2>6. ASSUME NEW x \in Pushed, Push(x) PROVE pc'[Helper] = pc[Helper]
      BY <1>0, <2>6, PushFoot, Who DEF Foot
    <2>7. ASSUME Enter(Host) \/ Enter(Helper) PROVE pc'[Helper] = pc[Helper] \/ pc[Helper] # "again"
      BY <1>0, <2>2, <2>7, EnterFoot
    <2>8. ASSUME StartWorker \/ HostLife PROVE pc'[Helper] = pc[Helper]
      BY <1>0, <2>8, StartFoot, HostFoot, Who DEF Foot
    <2>9. UNCHANGED vars => pc'[Helper] = pc[Helper]
      BY DEF vars
    <2> QED
      BY <1>5, <2>1, <2>3, <2>4, <2>5, <2>6, <2>7, <2>8, <2>9, Kinds
  <1> QED
    BY <1>1, <1>2, <1>3, <1>4, <1>5
-----------------------------------------------------------------------------
\* Nobody begins to publish.
LEMMA OneBatchFoot ==
  ASSUME OneBatch, NEW A, NEW B, NEW t, Foot(t, A, B), "batch" \notin B
  PROVE  OneBatch'
  BY Who DEF OneBatch, Foot

\* One batch is published at a time, in every step.
LEMMA OneBatchStep ==
  ASSUME OneBatch, PlaceTypes, [Next]_vars
  PROVE  OneBatch'
  <1>0. Placed
    BY DEF PlaceTypes
  <1>1. ASSUME NEW t \in Threads, WakeNobody(t) \/ WakeOne(t) \/ Unpark(t) PROVE OneBatch'
    <2>1. Foot(t, {"wake", "unpark"}, {"idle", "scope", "unpark"})
      BY <1>0, <1>1, WakeNobodyFoot, WakeOneFoot, UnparkFoot DEF Foot, AfterWake
    <2> QED
      BY <2>1, OneBatchFoot
  <1>2. ASSUME NEW t \in Finders, Search(t) PROVE OneBatch'
    <2>1. Foot(t, SearchFrom, SearchTo) /\ "batch" \notin SearchTo
      BY <1>0, <1>2, SearchFoot DEF SearchTo
    <2> QED
      BY <2>1, OneBatchFoot
  <1>3. ASSUME NEW t \in Finders, Submit(t) PROVE OneBatch'
    <2>1. \A u \in Finders \ {t} : pc'[u] = pc[u]
      BY <1>0, <1>3, SubmitFoot, Who DEF Foot
    <2>2. pc'[t] = "batch" => pc[t] = "batch" \/ \A u \in Finders : pc[u] # "batch"
      BY <1>0, <1>3, Who DEF Submit, OpenScope, LockInboxes, ReleaseInbox, Wait, Spawn, Goto, GotoAt, Placed
    <2> QED
      BY <2>1, <2>2 DEF OneBatch
  <1>4. ASSUME NEW t \in Finders, WakeAssigned(t) PROVE OneBatch'
    BY <1>0, <1>4, AssignedFoot, OneBatchFoot
  <1>5. ASSUME NEW w \in Workers, Doze(w) PROVE OneBatch'
    <2>1. Foot(w, DozeFrom, DozeTo) /\ "batch" \notin DozeTo
      BY <1>0, <1>5, DozeFoot DEF DozeTo
    <2> QED
      BY <2>1, OneBatchFoot
  <1>6. ASSUME NEW w \in Workers, Register(w) \/ Unregister(w) \/ Unparked(w) PROVE OneBatch'
    BY <1>0, <1>6, RegisterFoot, UnregisterFoot, UnparkedFoot, OneBatchFoot
  <1>7. ASSUME NEW x \in Pushed, Push(x) PROVE OneBatch'
    BY <1>0, <1>7, PushFoot, OneBatchFoot
  <1>8. ASSUME NEW t \in {Host, Helper}, Enter(t) PROVE OneBatch'
    BY <1>0, <1>8, EnterFoot, OneBatchFoot
  <1>9. CASE HostLife
    <2>1. Foot(Host, HostFrom, HostFrom) /\ "batch" \notin HostFrom
      BY <1>0, <1>9, HostFoot DEF HostFrom
    <2> QED
      BY <2>1, OneBatchFoot
  <1>10. CASE StartWorker
    BY <1>0, <1>10, StartFoot, Who DEF OneBatch
  <1>11. CASE UNCHANGED vars
    BY <1>11 DEF vars, OneBatch
  <1> QED
    BY <1>1, <1>2, <1>3, <1>4, <1>5, <1>6, <1>7, <1>8, <1>9, <1>10, <1>11, Kinds
-----------------------------------------------------------------------------
(***************************************************************************)
(* Where a job can be.                                                     *)
(***************************************************************************)
LEMMA BatchJobsApart ==
  /\ BatchJobs \subseteq Jobs /\ BatchJobs \cap Pushed = {}
  /\ \A b \in Bodies : /\ Spawns[b] \cap BatchJobs = {}
                       /\ Range(Batch[b]) \subseteq BatchJobs /\ Range(Batch[b]) \subseteq Kids(b)
  <1>1. ASSUME NEW b \in Bodies
        PROVE  Range(Batch[b]) \subseteq Jobs \ Pushed /\ Spawns[b] \cap BatchJobs = {}
    <2>1. Range(Batch[b]) \subseteq Jobs \ Pushed
      BY PoolAssumption DEF Kids
    <2>2. ASSUME NEW c \in Bodies PROVE Spawns[b] \cap Range(Batch[c]) = {}
      <3>1. CASE b = c
        <4>1. Spawns[b] = {} \/ Batch[b] = <<>>
          BY PoolAssumption
        <4>2. Range(<<>>) = {}
          BY DEF Range
        <4> QED
          BY <3>1, <4>1, <4>2
      <3>2. CASE b # c
        <4>1. Kids(b) \cap Kids(c) = {}
          BY <3>2, PoolAssumption
        <4> QED
          BY <4>1 DEF Kids
      <3> QED
        BY <3>1, <3>2
    <2> QED
      BY <2>1, <2>2 DEF BatchJobs
  <1>2. \A b \in Bodies : Range(Batch[b]) \subseteq BatchJobs /\ Range(Batch[b]) \subseteq Kids(b)
    BY DEF BatchJobs, Kids
  <1>3. BatchJobs \subseteq Jobs /\ BatchJobs \cap Pushed = {}
    BY <1>1 DEF BatchJobs
  <1> QED
    BY <1>1, <1>2, <1>3

\* The latch of a scope is down to its own ticket only when its jobs have run.
LEMMA CompletedMeans ==
  ASSUME NEW b \in Bodies, Completed(b)
  PROVE  Kids(b) \subseteq fresh \cup ran
  <1> DEFINE s == Batch[b]
             left == Kids(b) \ (fresh \cup ran)
  <1>1. s \in Seq(Jobs)
    BY BatchTypes
  <1>2. IsFiniteSet(Range(s))
    <2>1. s \in Surjection(DOMAIN s, Range(s))
      BY <1>1 DEF Surjection, Range
    <2>2. IsFiniteSet(DOMAIN s)
      <3>1. DOMAIN s = 1..Len(s) /\ Len(s) \in Nat
        BY <1>1
      <3> QED
        BY <3>1, FS_Interval
    <2> QED
      BY <2>1, <2>2, FS_Surjection
  <1>3. IsFiniteSet(Spawns[b])
    BY PoolAssumption
  <1>4. IsFiniteSet(Kids(b))
    BY <1>2, <1>3, FS_Union DEF Kids
  <1>5. IsFiniteSet(left)
    BY <1>4, FS_Subset
  <1>6. Cardinality(left) \in Nat /\ 1 + Cardinality(left) <= 1
    BY <1>5, FS_CardinalityType DEF Completed, Remaining
  <1>7. Cardinality(left) = 0
    BY <1>6
  <1>8. left = {}
    BY <1>5, <1>7, FS_EmptySet
  <1> QED
    BY <1>8

\* Only the host assigns jobs to the host.
LEMMA HostAssigns ==
  ASSUME NEW t \in Finders, NEW i \in Nat, TargetOf(CallerIndex(t), i) = Host
  PROVE  t = Host
  <1>1. N \in Nat \ {0} /\ Host = N /\ Helper = N + 2 /\ t \in 0..(N + 2)
    BY PoolAssumption DEF Finders, Members, Host, Helper
  <1> SUFFICES ASSUME t # Host PROVE FALSE
    OBVIOUS
  <1> DEFINE c == CallerIndex(t)
             turn == i % N
  <1>2. c # N /\ c \in Nat
    BY <1>1 DEF CallerIndex
  <1>3. turn \in 0..(N - 1)
    BY <1>1
  <1>4. TargetOf(c, i) = IF turn = 0 THEN c ELSE IF turn <= c THEN turn - 1 ELSE turn
    BY <1>1, <1>2 DEF TargetOf
  <1> HIDE DEF c, turn
  <1>5. TargetOf(c, i) # N
    BY <1>1, <1>2, <1>3, <1>4
  <1> QED
    BY <1>1, <1>5 DEF c

\* Jobs are dealt to members only.
LEMMA TargetIsMember ==
  ASSUME NEW t \in Finders, NEW i \in Nat
  PROVE  TargetOf(CallerIndex(t), i) \in Members
  <1>1. N \in Nat \ {0} /\ Host = N /\ Helper = N + 2 /\ t \in 0..(N + 2) /\ Members = 0..N
        /\ (t \in 0..N \/ t = Helper)
    BY PoolAssumption DEF Finders, Members, Host, Helper
  <1> DEFINE c == CallerIndex(t)
             p == IF c = Host THEN N + 1 ELSE N
             turn == i % p
  <1>2. c \in 0..N
    BY <1>1 DEF CallerIndex
  <1>3. p \in Nat \ {0} /\ p <= N + 1
    BY <1>1
  <1>4. turn \in 0..(p - 1)
    <2> HIDE DEF p
    <2> QED
      BY <1>3
  <1>5. TargetOf(c, i) = IF turn = 0 THEN c ELSE IF turn <= c THEN turn - 1 ELSE turn
    BY DEF TargetOf
  <1> HIDE DEF c, turn, p
  <1>6. TargetOf(c, i) \in 0..N
    BY <1>1, <1>2, <1>3, <1>4, <1>5
  <1> QED
    BY <1>1, <1>6 DEF c

\* The publisher that is at work, if any, goes on with the same jobs.
SamePending ==
  \A u \in Finders : pc'[u] = "batch" => pc[u] = "batch" /\ Pending(u)' = Pending(u)

\* Nobody's publication moves.
LEMMA PendingFoot ==
  ASSUME NEW A, NEW B, NEW t, Foot(t, A, B), "batch" \notin B,
         \A u \in Finders \ {t} : hand'[u] = hand[u]
  PROVE  SamePending
  <1> SUFFICES ASSUME NEW u \in Finders, pc'[u] = "batch"
               PROVE  pc[u] = "batch" /\ Pending(u)' = Pending(u)
    BY DEF SamePending
  <1>1. u # t /\ u \in Threads
    BY Who DEF Foot
  <1>2. hand'[u] = hand[u] /\ pc'[u] = pc[u] /\ at'[u] = at[u]
    BY <1>1 DEF Foot
  <1> QED
    BY <1>2 DEF Pending, Body

\* What is to be published belongs to a batch.
LEMMA PendingJobs ==
  ASSUME WorkTypes, HandsFull, NEW t \in Finders, pc[t] = "batch"
  PROVE  Body(t) \in Bodies /\ Pending(t) \subseteq BatchJobs
  <1>1. hand[t] # <<>>
    BY DEF HandsFull
  <1>2. Body(t) \in Bodies
    BY <1>1, FrontKeeps DEF WorkTypes, Body
  <1>3. Pending(t) \subseteq Range(Batch[Body(t)])
    BY DEF Pending, Range
  <1> QED
    BY <1>2, <1>3, BatchJobsApart

\* A step that leaves the inboxes alone and starts none of the jobs in them.
LEMMA InboxKeeps ==
  ASSUME WorkTypes, HandsFull, Routes, InboxInv, SamePending, UNCHANGED inbox,
         \A x \in BatchJobs : Unstarted(x) => Unstarted(x)'
  PROVE  InboxInv'
  <1>1. \A m \in Members : \A x \in Range(inbox[m]) : x \in BatchJobs
    BY Who DEF Routes
  <1>2. \A m \in Members : \A x \in Range(inbox[m]) : Unstarted(x)'
    BY <1>1 DEF InboxInv
  <1>3. ASSUME NEW u \in Finders, pc'[u] = "batch", NEW x \in Pending(u)'
        PROVE  Unstarted(x)' /\ \A m \in Members : x \notin Range(inbox[m])
    <2>1. pc[u] = "batch" /\ x \in Pending(u)
      BY <1>3 DEF SamePending
    <2>2. x \in BatchJobs
      BY <2>1, PendingJobs
    <2> QED
      BY <2>1, <2>2 DEF InboxInv
  <1> QED
    BY <1>2, <1>3 DEF InboxInv

\* A job that waits in the shared queue, in a deque, or on its way into one.
Queued(x) == x \in Range(queue) \/ \E t \in Finders : x \in Range(deque[t]) \cup Range(flight[t])

\* Jobs that change queues stay off the batches and stay submitted.
LEMMA QueuesKeep ==
  ASSUME FreshInv, Routes, NEW X, fresh' \cap X = {}, BatchJobs \cap X = {},
         fresh' \subseteq fresh, fresh' \cap ran' = {},
         \A x : Queued(x)' => Queued(x) \/ x \in X,
         \A u \in Finders : /\ fresh' \cap Range(inbox'[u]) = {} /\ fresh' \cap Range(hand'[u]) = {}
                            /\ Range(inbox'[u]) \subseteq BatchJobs
  PROVE  FreshInv' /\ Routes'
  <1>1. \A x : Queued(x) => x \notin fresh /\ x \notin BatchJobs
    BY DEF Queued, FreshInv, Routes
  <1>2. \A x : Queued(x)' => x \notin fresh' /\ x \notin BatchJobs
    BY <1>1
  <1>3. FreshInv'
    BY <1>2 DEF FreshInv, Queued
  <1>4. Routes'
    BY <1>2 DEF Routes, Queued, BatchJobs
  <1> QED
    BY <1>3, <1>4

\* A step that moves jobs between the queues, or adds some to them.
LEMMA MoveAccounts ==
  ASSUME Accounts, WorkTypes, HandsFull, SamePending, UNCHANGED <<inbox, hand, ran>>,
         fresh' \subseteq fresh, NEW X, fresh' \cap X = {}, BatchJobs \cap X = {},
         \A x : Queued(x)' => Queued(x) \/ x \in X
  PROVE  Accounts'
  <1>1. FreshInv /\ Routes /\ InboxInv /\ HostInbox
    BY DEF Accounts
  <1>2. fresh' \cap ran' = {}
    BY <1>1 DEF FreshInv
  <1>3. \A u \in Finders : /\ fresh' \cap Range(inbox'[u]) = {} /\ fresh' \cap Range(hand'[u]) = {}
                           /\ Range(inbox'[u]) \subseteq BatchJobs
    BY <1>1 DEF FreshInv, Routes
  <1>4. FreshInv' /\ Routes'
    BY <1>1, <1>2, <1>3, QueuesKeep
  <1>5. \A x \in BatchJobs : Unstarted(x) => Unstarted(x)'
    BY DEF Unstarted
  <1>6. InboxInv'
    BY <1>1, <1>5, InboxKeeps
  <1>7. HostInbox'
    BY <1>1 DEF HostInbox
  <1> QED
    BY <1>4, <1>6, <1>7 DEF Accounts

\* The accounts when a body ends.
LEMMA LeaveAccounts ==
  ASSUME Accounts, WorkTypes, HandsFull, SamePending, NEW t \in Finders, Leaves(t)
  PROVE  Accounts'
  <1>1. FreshInv /\ Routes /\ InboxInv /\ HostInbox
    BY DEF Accounts
  <1> DEFINE s == hand[t]
             n == Len(s)
             b == Body(t)
  <1>2. /\ hand'[t] = Front(s) /\ \A u \in Finders \ {t} : hand'[u] = hand[u]
        /\ ran' = ran \cup ({b} \cap Jobs) /\ UNCHANGED <<queue, deque, inbox, flight, fresh>>
        /\ s # <<>> /\ s \in Seq(Bodies) /\ (Kids(b) = {} \/ Completed(b))
    BY DEF Leaves, WorkTypes
  <1>3. /\ Front(s) \in Seq(Bodies) /\ Range(Front(s)) \subseteq Range(s) /\ b \in Range(s)
        /\ n \in Nat \ {0} /\ b = s[n] /\ b \in Bodies
        /\ Len(Front(s)) = n - 1 /\ \A i \in 1..(n - 1) : Front(s)[i] = s[i]
    BY <1>2, FrontKeeps DEF Body
  <1>4. DOMAIN s = 1..n /\ DOMAIN Front(s) = 1..(n - 1)
    BY <1>2, <1>3
  <1>5. \A u \in Finders : Range(hand'[u]) \subseteq Range(hand[u])
    BY <1>2, <1>3
  <1>6. b \notin fresh /\ \A x : Unstarted(x) => x # b
    BY <1>1, <1>3 DEF FreshInv, Unstarted
  <1> HIDE DEF s, n, b
  <1>7. \A x : Unstarted(x) => Unstarted(x)'
    BY <1>2, <1>5, <1>6 DEF Unstarted
  <1>8. FreshInv' /\ Routes'
    <2>1. \A x : Queued(x)' => Queued(x) \/ x \in {}
      BY <1>2 DEF Queued
    <2>2. fresh' \cap ran' = {}
      BY <1>1, <1>2, <1>6 DEF FreshInv
    <2>3. \A u \in Finders : /\ fresh' \cap Range(inbox'[u]) = {} /\ fresh' \cap Range(hand'[u]) = {}
                             /\ Range(inbox'[u]) \subseteq BatchJobs
      BY <1>1, <1>2, <1>5 DEF FreshInv, Routes
    <2> QED
      BY <1>1, <1>2, <2>1, <2>2, <2>3, QueuesKeep
  <1>9. InboxInv'
    BY <1>1, <1>2, <1>7, InboxKeeps
  <1>10. HostInbox'
    <2>1. CASE t # Host
      BY <1>1, <1>2, <2>1, Who DEF HostInbox
    <2>2. CASE t = Host
      <3> SUFFICES ASSUME NEW x \in Range(inbox[Host])
                   PROVE  \E i \in DOMAIN hand'[Host] : x \in Kids(hand'[Host][i])
        BY <1>2 DEF HostInbox
      <3>1. PICK i \in DOMAIN s : x \in Kids(s[i])
        BY <1>1, <2>2 DEF HostInbox, s
      <3>2. Unstarted(x)
        BY <1>1, Who DEF InboxInv
      <3>3. x \notin fresh \cup ran
        BY <3>2 DEF Unstarted
      <3>4. x \notin Kids(b)
        BY <1>2, <1>3, <3>3, CompletedMeans
      <3>5. i # n
        BY <1>3, <3>1, <3>4
      <3>6. i \in 1..(n - 1)
        BY <1>3, <1>4, <3>1, <3>5
      <3> QED
        BY <1>2, <1>3, <1>4, <2>2, <3>1, <3>6
    <2> QED
      BY <2>1, <2>2
  <1> QED
    BY <1>8, <1>9, <1>10 DEF Accounts

\* The accounts when a worker pops from its deque.
LEMMA PopAccounts ==
  ASSUME Accounts, WorkTypes, HandsFull, SamePending, NEW t \in Finders, PopOwn(t)
  PROVE  Accounts'
  <1>1. FreshInv /\ Routes /\ InboxInv /\ HostInbox
    BY DEF Accounts
  <1> DEFINE s == hand[t]
             y == Last(deque[t])
  <1>2. /\ hand'[t] = Append(s, y) /\ \A u \in Finders \ {t} : hand'[u] = hand[u]
        /\ deque'[t] = Front(deque[t]) /\ \A u \in Finders \ {t} : deque'[u] = deque[u]
        /\ UNCHANGED <<queue, inbox, flight, fresh, ran>> /\ deque[t] # <<>>
        /\ s \in Seq(Bodies) /\ deque[t] \in Seq(Jobs)
    BY DEF PopOwn, Take, WorkTypes
  <1>3. y \in Range(deque[t]) /\ y \in Jobs /\ Range(Front(deque[t])) \subseteq Range(deque[t])
    BY <1>2, FrontKeeps
  <1>4. y \in Bodies /\ y \notin fresh /\ y \notin BatchJobs
    BY <1>1, <1>3, BatchTypes DEF FreshInv, Routes
  <1> HIDE DEF y
  <1>5. /\ Append(s, y) \in Seq(Bodies) /\ Range(Append(s, y)) = Range(s) \cup {y}
        /\ Len(Append(s, y)) = Len(s) + 1 /\ Len(s) \in Nat /\ \A i \in 1..Len(s) : Append(s, y)[i] = s[i]
    BY <1>2, <1>4, AppendKeeps
  <1>6. \A u \in Finders : Range(hand'[u]) \subseteq Range(hand[u]) \cup {y}
    BY <1>2, <1>5
  <1>7. \A x \in BatchJobs : Unstarted(x) => Unstarted(x)'
    BY <1>2, <1>4, <1>6 DEF Unstarted
  <1>8. FreshInv' /\ Routes'
    <2>1. \A x : Queued(x)' => Queued(x) \/ x \in {}
      BY <1>2, <1>3 DEF Queued
    <2>2. \A u \in Finders : /\ fresh' \cap Range(inbox'[u]) = {} /\ fresh' \cap Range(hand'[u]) = {}
                             /\ Range(inbox'[u]) \subseteq BatchJobs
      BY <1>1, <1>2, <1>4, <1>6 DEF FreshInv, Routes
    <2>3. fresh' \cap ran' = {}
      BY <1>1, <1>2 DEF FreshInv
    <2> QED
      BY <1>1, <1>2, <2>1, <2>2, <2>3, QueuesKeep
  <1>9. InboxInv'
    BY <1>1, <1>2, <1>7, InboxKeeps
  <1>10. HostInbox'
    <2>1. DOMAIN s = 1..Len(s) /\ DOMAIN Append(s, y) = 1..(Len(s) + 1)
      BY <1>2, <1>5
    <2>2. \A i \in DOMAIN s : i \in DOMAIN Append(s, y) /\ Append(s, y)[i] = s[i]
      BY <1>5, <2>1
    <2> SUFFICES ASSUME NEW x \in Range(inbox'[Host])
                 PROVE  \E i \in DOMAIN hand'[Host] : x \in Kids(hand'[Host][i])
      BY DEF HostInbox
    <2>3. x \in Range(inbox[Host])
      BY <1>2, Who
    <2>4. PICK i \in DOMAIN hand[Host] : x \in Kids(hand[Host][i])
      BY <1>1, <2>3 DEF HostInbox
    <2>5. i \in DOMAIN hand'[Host] /\ hand'[Host][i] = hand[Host][i]
      BY <1>2, <2>2, <2>4, Who
    <2> QED
      BY <2>4, <2>5
  <1> QED
    BY <1>8, <1>9, <1>10 DEF Accounts

\* The accounts when a job is taken from an inbox.
LEMMA TakeAccounts ==
  ASSUME Accounts, WorkTypes, HandsFull, HelperInv, SamePending,
         NEW t \in Finders, NEW m \in Finders, TakesInbox(t, m)
  PROVE  Accounts'
  <1>1. FreshInv /\ Routes /\ InboxInv /\ HostInbox
    BY DEF Accounts
  <1> DEFINE s == hand[t]
             q == inbox[m]
             y == Head(q)
             n == Len(q)
  <1>2. /\ hand'[t] = Append(s, y) /\ \A u \in Finders \ {t} : hand'[u] = hand[u]
        /\ inbox'[m] = Tail(q) /\ \A u \in Finders \ {m} : inbox'[u] = inbox[u]
        /\ UNCHANGED <<queue, deque, flight, fresh, ran>> /\ q # <<>>
        /\ s \in Seq(Bodies) /\ q \in Seq(Jobs)
    BY DEF TakesInbox, WorkTypes
  <1>3. m \in Members
    BY <1>2, Who DEF HelperInv
  <1>4. /\ Tail(q) \in Seq(Jobs) /\ Range(Tail(q)) \subseteq Range(q)
        /\ y \in Jobs /\ y \in Range(q) /\ y = q[1]
        /\ n \in Nat \ {0} /\ Len(Tail(q)) = n - 1
        /\ \A i \in 1..(n - 1) : Tail(q)[i] = q[i + 1]
    BY <1>2, TailKeeps
  <1>5. DOMAIN q = 1..n /\ DOMAIN Tail(q) = 1..(n - 1)
    BY <1>2, <1>4
  <1>6. y \in Bodies /\ y \notin fresh
    BY <1>1, <1>4, BatchTypes DEF FreshInv
  <1>7. /\ Append(s, y) \in Seq(Bodies) /\ Range(Append(s, y)) = Range(s) \cup {y}
        /\ Len(Append(s, y)) = Len(s) + 1 /\ Len(s) \in Nat /\ \A i \in 1..Len(s) : Append(s, y)[i] = s[i]
    BY <1>2, <1>6, AppendKeeps
  <1>8. \A u \in Finders : Range(hand'[u]) \subseteq Range(hand[u]) \cup {y}
    BY <1>2, <1>7
  <1>9. \A u \in Finders : Range(inbox'[u]) \subseteq Range(inbox[u])
    BY <1>2, <1>4
  <1>10. \A x : Unstarted(x) /\ x # y => Unstarted(x)'
    BY <1>2, <1>8 DEF Unstarted
  <1> HIDE DEF y, n
  <1>11. FreshInv' /\ Routes'
    <2>1. \A x : Queued(x)' => Queued(x) \/ x \in {}
      BY <1>2 DEF Queued
    <2>2. \A u \in Finders : /\ fresh' \cap Range(inbox'[u]) = {} /\ fresh' \cap Range(hand'[u]) = {}
                             /\ Range(inbox'[u]) \subseteq BatchJobs
      <3>1. fresh' = fresh
        BY <1>2
      <3>2. \A u \in Finders : /\ fresh \cap Range(inbox[u]) = {} /\ fresh \cap Range(hand[u]) = {}
                               /\ Range(inbox[u]) \subseteq BatchJobs
        BY <1>1 DEF FreshInv, Routes
      <3> QED
        BY <1>6, <1>8, <1>9, <3>1, <3>2
    <2>3. fresh' \cap ran' = {}
      BY <1>1, <1>2 DEF FreshInv
    <2> QED
      BY <1>1, <1>2, <2>1, <2>2, <2>3, QueuesKeep
  \* Where a job of inbox'[k] was before the step.
  <1>12. ASSUME NEW k \in Members, NEW i \in DOMAIN inbox'[k]
         PROVE  \E j \in DOMAIN inbox[k] : /\ inbox[k][j] = inbox'[k][i]
                                           /\ j = (IF k = m THEN i + 1 ELSE i)
    <2>1. CASE k = m
      <3>1. i \in 1..(n - 1)
        BY <1>2, <1>5, <2>1
      <3>2. i + 1 \in 1..n
        BY <1>4, <3>1
      <3> QED
        BY <1>2, <1>4, <1>5, <2>1, <3>1, <3>2
    <2>2. CASE k # m
      BY <1>2, <2>2, Who
    <2> QED
      BY <2>1, <2>2
  <1>13. ASSUME NEW k \in Members, NEW x \in Range(inbox'[k])
         PROVE  x # y
    <2>1. PICK i \in DOMAIN inbox'[k] : x = inbox'[k][i]
      BY DEF Range
    <2>2. PICK j \in DOMAIN inbox[k] : inbox[k][j] = x /\ j = (IF k = m THEN i + 1 ELSE i)
      BY <1>12, <2>1
    <2>3. k = m => i \in 1..(n - 1)
      BY <1>2, <1>5, <2>1
    <2>4. k = m => j # 1
      BY <1>4, <2>2, <2>3
    <2>5. 1 \in DOMAIN inbox[m] /\ y = inbox[m][1]
      BY <1>4, <1>5
    <2> QED
      BY <1>1, <1>3, <2>2, <2>4, <2>5 DEF InboxInv
  <1>14. InboxInv'
    <2>1. ASSUME NEW k \in Members, NEW l \in Members, NEW i \in DOMAIN inbox'[k],
                 NEW j \in DOMAIN inbox'[l], inbox'[k][i] = inbox'[l][j]
          PROVE  k = l /\ i = j
      <3>1. PICK a \in DOMAIN inbox[k] : inbox[k][a] = inbox'[k][i] /\ a = (IF k = m THEN i + 1 ELSE i)
        BY <1>12
      <3>2. PICK b \in DOMAIN inbox[l] : inbox[l][b] = inbox'[l][j] /\ b = (IF l = m THEN j + 1 ELSE j)
        BY <1>12
      <3>3. k = l /\ a = b
        BY <1>1, <2>1, <3>1, <3>2 DEF InboxInv
      <3>4. CASE k = m
        <4>1. i \in 1..(n - 1) /\ j \in 1..(n - 1) /\ i + 1 = j + 1
          BY <1>2, <1>5, <3>1, <3>2, <3>3, <3>4
        <4> QED
          BY <1>4, <3>3, <4>1
      <3> QED
        BY <3>1, <3>2, <3>3, <3>4
    <2>2. ASSUME NEW k \in Members, NEW x \in Range(inbox'[k])
          PROVE  Unstarted(x)'
      <3>1. Unstarted(x)
        BY <1>1, <1>9, Who DEF InboxInv
      <3> QED
        BY <1>10, <1>13, <3>1
    <2>3. ASSUME NEW u \in Finders, pc'[u] = "batch", NEW x \in Pending(u)'
          PROVE  Unstarted(x)' /\ \A k \in Members : x \notin Range(inbox'[k])
      <3>1. pc[u] = "batch" /\ x \in Pending(u)
        BY <2>3 DEF SamePending
      <3>2. Unstarted(x) /\ \A k \in Members : x \notin Range(inbox[k])
        BY <1>1, <3>1 DEF InboxInv
      <3>3. x # y
        BY <1>3, <1>4, <3>2
      <3> QED
        BY <1>9, <1>10, <3>2, <3>3, Who
    <2> QED
      BY <2>1, <2>2, <2>3 DEF InboxInv
  <1>15. HostInbox'
    <2>1. DOMAIN s = 1..Len(s) /\ DOMAIN Append(s, y) = 1..(Len(s) + 1)
      BY <1>2, <1>7
    <2>2. \A i \in DOMAIN s : i \in DOMAIN Append(s, y) /\ Append(s, y)[i] = s[i]
      BY <1>7, <2>1
    <2> SUFFICES ASSUME NEW x \in Range(inbox'[Host])
                 PROVE  \E i \in DOMAIN hand'[Host] : x \in Kids(hand'[Host][i])
      BY DEF HostInbox
    <2>3. x \in Range(inbox[Host])
      BY <1>2, <1>9, Who
    <2>4. PICK i \in DOMAIN hand[Host] : x \in Kids(hand[Host][i])
      BY <1>1, <2>3 DEF HostInbox
    <2>5. i \in DOMAIN hand'[Host] /\ hand'[Host][i] = hand[Host][i]
      BY <1>2, <2>2, <2>4, Who
    <2> QED
      BY <2>4, <2>5
  <1> QED
    BY <1>11, <1>14, <1>15 DEF Accounts

\* The accounts when an external call begins.
LEMMA EnterAccounts ==
  ASSUME Accounts, WorkTypes, HandsFull, SamePending, Placed, NEW t, Enter(t)
  PROVE  Accounts'
  <1>1. FreshInv /\ Routes /\ InboxInv /\ HostInbox
    BY DEF Accounts
  <1>2. /\ t \in {Host, Helper} /\ t \in Finders /\ pc[t] = "outside"
        /\ UNCHANGED <<queue, deque, inbox, flight, fresh, ran>>
    BY EnterFoot, Who DEF Foot
  <1>3. PICK c \in Bodies \ Jobs : hand' = [hand EXCEPT ![t] = <<c>>]
    BY BatchTypes DEF Enter, EnterScope, EnterAsHelper
  <1>4. hand[t] = <<>>
    BY <1>2 DEF HandsFull, ScopePCs
  <1>5. /\ hand'[t] = <<c>> /\ \A u \in Finders \ {t} : hand'[u] = hand[u]
    BY <1>2, <1>3 DEF WorkTypes
  <1>6. \A u \in Finders : Range(hand'[u]) \subseteq Range(hand[u]) \cup {c}
    <2>1. Range(<<c>>) = {c}
      BY DEF Range
    <2> QED
      BY <1>5, <2>1
  <1>7. c \notin fresh /\ c \notin BatchJobs
    BY BatchJobsApart DEF WorkTypes
  <1>8. \A x \in BatchJobs : Unstarted(x) => Unstarted(x)'
    BY <1>2, <1>6, <1>7 DEF Unstarted
  <1>9. FreshInv' /\ Routes'
    <2>1. \A x : Queued(x)' => Queued(x) \/ x \in {}
      BY <1>2 DEF Queued
    <2>2. \A u \in Finders : /\ fresh' \cap Range(inbox'[u]) = {} /\ fresh' \cap Range(hand'[u]) = {}
                             /\ Range(inbox'[u]) \subseteq BatchJobs
      BY <1>1, <1>2, <1>6, <1>7 DEF FreshInv, Routes
    <2>3. fresh' \cap ran' = {}
      BY <1>1, <1>2 DEF FreshInv
    <2> QED
      BY <1>1, <1>2, <2>1, <2>2, <2>3, QueuesKeep
  <1>10. InboxInv'
    BY <1>1, <1>2, <1>8, InboxKeeps
  <1>11. HostInbox'
    <2>1. CASE t = Host
      <3>1. DOMAIN hand[Host] = {}
        BY <1>4, <2>1
      <3> QED
        BY <1>1, <1>2, <3>1 DEF HostInbox
    <2>2. CASE t # Host
      BY <1>1, <1>2, <1>5, <2>2, Who DEF HostInbox
    <2> QED
      BY <2>1, <2>2
  <1> QED
    BY <1>9, <1>10, <1>11 DEF Accounts

\* The accounts when a batch takes the inboxes.
LEMMA LockAccounts ==
  ASSUME Accounts, WorkTypes, HandsFull, Placed, NEW t \in Finders, LockInboxes(t)
  PROVE  Accounts'
  <1>1. FreshInv /\ Routes /\ InboxInv /\ HostInbox
    BY DEF Accounts
  <1> DEFINE b == Body(t)
  <1>2. /\ Kids(b) \subseteq fresh /\ fresh' = fresh \ Kids(b)
        /\ UNCHANGED <<queue, deque, inbox, flight, hand, ran>>
        /\ \A u \in Finders : pc'[u] = "batch" => u = t
    BY Who DEF LockInboxes, GotoAt, Placed
  <1>3. b \in Bodies
    <2>1. hand[t] # <<>>
      BY DEF LockInboxes, HandsFull
    <2> QED
      BY <2>1, FrontKeeps DEF WorkTypes, Body
  <1>4. Body(t)' = b
    BY <1>2 DEF Body
  <1>5. Pending(t)' \subseteq Kids(b)
    BY <1>4 DEF Pending, Range, Kids
  <1> HIDE DEF b
  <1>6. FreshInv' /\ Routes'
    <2>1. \A x : Queued(x)' => Queued(x) \/ x \in {}
      BY <1>2 DEF Queued
    <2>2. \A u \in Finders : /\ fresh' \cap Range(inbox'[u]) = {} /\ fresh' \cap Range(hand'[u]) = {}
                             /\ Range(inbox'[u]) \subseteq BatchJobs
      BY <1>1, <1>2 DEF FreshInv, Routes
    <2>3. fresh' \cap ran' = {}
      BY <1>1, <1>2 DEF FreshInv
    <2> QED
      BY <1>1, <1>2, <2>1, <2>2, <2>3, QueuesKeep
  <1>7. \A x : Unstarted(x) => Unstarted(x)'
    BY <1>2 DEF Unstarted
  <1>8. \A x \in Kids(b) : Unstarted(x)' /\ \A m \in Members : x \notin Range(inbox'[m])
    BY <1>1, <1>2, Who DEF FreshInv, Unstarted
  <1>9. InboxInv'
    BY <1>1, <1>2, <1>5, <1>7, <1>8 DEF InboxInv
  <1>10. HostInbox'
    BY <1>1, <1>2 DEF HostInbox
  <1> QED
    BY <1>6, <1>9, <1>10 DEF Accounts

\* The accounts when the share of one inbox is published.
LEMMA ReleaseAccounts ==
  ASSUME Accounts, WorkTypes, HandsFull, Placed, Loops, OneBatch, NEW t \in Finders, ReleaseInbox(t)
  PROVE  Accounts'
  <1>1. FreshInv /\ Routes /\ InboxInv /\ HostInbox
    BY DEF Accounts
  <1> DEFINE b == Body(t)
             a == at[t]
             q == inbox[a]
             r == Share(t, a)
             target(i) == TargetOf(CallerIndex(t), i - 1)
  <1>2. a \in Members /\ a \in Finders /\ a \in Int
    <2>1. a \in Members
      BY DEF ReleaseInbox, Loops
    <2> QED
      BY <2>1, Who
  <1>3. /\ pc[t] = "batch" /\ at'[t] = a - 1 /\ UNCHANGED <<queue, deque, flight, hand, fresh, ran>>
        /\ inbox'[a] = q \o r /\ \A u \in Finders \ {a} : inbox'[u] = inbox[u]
        /\ \A u \in Finders \ {t} : pc'[u] = pc[u]
    BY <1>2, Who DEF ReleaseInbox, GotoAt, Placed, WorkTypes
  <1>4. \A u \in Finders : pc'[u] = "batch" => u = t
    BY <1>3 DEF OneBatch
  <1>5. hand[t] # <<>>
    BY <1>3 DEF HandsFull
  <1>6. /\ b \in Bodies /\ r \in Seq(Jobs)
        /\ \A x : x \in Range(r) <=> \E i \in DOMAIN Batch[b] : x = Batch[b][i] /\ target(i) = a
        /\ \A k, l \in DOMAIN r : r[k] = r[l] => k = l
    BY <1>5, ShareKeeps
  <1>7. /\ Batch[b] \in Seq(Jobs) /\ Range(Batch[b]) \subseteq BatchJobs /\ Range(Batch[b]) \subseteq Kids(b)
        /\ \A i, j \in DOMAIN Batch[b] : Batch[b][i] = Batch[b][j] => i = j
    BY <1>6, BatchTypes, BatchJobsApart, PoolAssumption
  <1>8. ASSUME NEW i \in DOMAIN Batch[b]
        PROVE  /\ target(i) \in Int /\ i - 1 \in Nat
               /\ Batch[b][i] \in Jobs /\ Batch[b][i] \in Range(Batch[b])
    <2>1. i - 1 \in Nat
      BY <1>7
    <2>2. target(i) \in Members
      BY <2>1, TargetIsMember
    <2> QED
      BY <1>7, <2>1, <2>2, Who DEF Range
  <1>9. Pending(t) = {x \in Jobs : \E i \in DOMAIN Batch[b] : x = Batch[b][i] /\ target(i) <= a}
    BY DEF Pending
  <1>10. Pending(t)' = {x \in Jobs : \E i \in DOMAIN Batch[b] : x = Batch[b][i] /\ target(i) <= a - 1}
    BY <1>3 DEF Pending, Body
  <1> HIDE DEF b, a, target, r
  <1>11. Range(r) \subseteq Pending(t) /\ Range(r) \subseteq Range(Batch[b])
    <2>1. a <= a
      BY <1>2
    <2> QED
      BY <1>6, <1>8, <1>9, <2>1
  <1>12. ASSUME NEW x \in Pending(t)' PROVE x \in Pending(t) /\ x \notin Range(r)
    <2>1. PICK i \in DOMAIN Batch[b] : x = Batch[b][i] /\ target(i) <= a - 1
      BY <1>10
    <2>2. target(i) <= a /\ target(i) # a
      BY <1>2, <1>8, <2>1
    <2>3. \A j \in DOMAIN Batch[b] : x = Batch[b][j] => target(j) # a
      BY <1>7, <2>1, <2>2
    <2> QED
      BY <1>6, <1>8, <1>9, <2>1, <2>2, <2>3
  <1>13. \A x \in Range(r) : Unstarted(x) /\ \A m \in Members : x \notin Range(inbox[m])
    BY <1>1, <1>3, <1>11 DEF InboxInv
  <1>14. \A x : Unstarted(x)' <=> Unstarted(x)
    BY <1>3 DEF Unstarted
  <1>15. /\ Range(q \o r) = Range(q) \cup Range(r) /\ Len(q) \in Nat /\ Len(r) \in Nat
         /\ q \o r \in Seq(Jobs) /\ Len(q \o r) = Len(q) + Len(r)
         /\ \A i \in 1..Len(q) : (q \o r)[i] = q[i]
         /\ \A i \in 1..Len(r) : (q \o r)[Len(q) + i] = r[i]
         /\ DOMAIN q = 1..Len(q) /\ DOMAIN r = 1..Len(r)
    <2>1. q \in Seq(Jobs)
      BY <1>2 DEF WorkTypes
    <2> HIDE DEF q
    <2> QED
      BY <1>6, <2>1, ConcatKeeps
  <1>16. \A u \in Finders : Range(inbox'[u]) \subseteq Range(inbox[u]) \cup (IF u = a THEN Range(r) ELSE {})
    BY <1>3, <1>15
  <1>17. FreshInv' /\ Routes'
    <2>1. \A x : Queued(x)' => Queued(x) \/ x \in {}
      BY <1>3 DEF Queued
    <2>2. \A x \in Range(r) : x \notin fresh /\ x \in BatchJobs
      BY <1>7, <1>11, <1>13 DEF Unstarted
    <2>3. \A u \in Finders : /\ fresh \cap Range(inbox[u]) = {} /\ fresh \cap Range(hand[u]) = {}
                             /\ Range(inbox[u]) \subseteq BatchJobs
      BY <1>1 DEF FreshInv, Routes
    <2>4. \A u \in Finders : /\ fresh' \cap Range(inbox'[u]) = {} /\ fresh' \cap Range(hand'[u]) = {}
                             /\ Range(inbox'[u]) \subseteq BatchJobs
      BY <1>3, <1>16, <2>2, <2>3
    <2>5. fresh' \cap ran' = {}
      BY <1>1, <1>3 DEF FreshInv
    <2> QED
      BY <1>1, <1>3, <2>1, <2>4, <2>5, QueuesKeep
  \* A position of inbox'[k] is one of inbox[k], or one of the share.
  <1>18. ASSUME NEW k \in Members, NEW i \in DOMAIN inbox'[k]
         PROVE  \/ i \in DOMAIN inbox[k] /\ inbox'[k][i] = inbox[k][i]
                \/ k = a /\ i - Len(q) \in DOMAIN r /\ inbox'[k][i] = r[i - Len(q)] /\ i \in Int
    <2>1. CASE k # a
      BY <1>3, <2>1, Who
    <2>2. CASE k = a
      <3>1. i \in 1..(Len(q) + Len(r))
        BY <1>3, <1>15, <2>2
      <3>2. CASE i <= Len(q)
        BY <1>3, <1>15, <2>2, <3>1, <3>2
      <3>3. CASE i > Len(q)
        <4>1. i - Len(q) \in 1..Len(r) /\ Len(q) + (i - Len(q)) = i
          BY <1>15, <3>1, <3>3
        <4> QED
          BY <1>3, <1>15, <2>2, <4>1, <3>1
      <3> QED
        BY <1>15, <3>1, <3>2, <3>3
    <2> QED
      BY <2>1, <2>2
  <1>19. InboxInv'
    <2>1. ASSUME NEW k \in Members, NEW l \in Members, NEW i \in DOMAIN inbox'[k],
                 NEW j \in DOMAIN inbox'[l], inbox'[k][i] = inbox'[l][j]
          PROVE  k = l /\ i = j
      <3>1. ASSUME NEW m \in Members, NEW p \in DOMAIN inbox[m], NEW o \in DOMAIN r
            PROVE  inbox[m][p] # r[o]
        BY <1>13 DEF Range
      <3>2. CASE i \in DOMAIN inbox[k] /\ inbox'[k][i] = inbox[k][i]
        <4>1. ~(l = a /\ j - Len(q) \in DOMAIN r /\ inbox'[l][j] = r[j - Len(q)])
          BY <2>1, <3>1, <3>2
        <4>2. j \in DOMAIN inbox[l] /\ inbox'[l][j] = inbox[l][j]
          BY <1>18, <4>1, Zenon
        <4>3. inbox[k][i] = inbox[l][j]
          BY <2>1, <3>2, <4>2
        <4>4. i \in DOMAIN inbox[k]
          BY <3>2
        <4> QED
          BY <1>1, <4>2, <4>3, <4>4, Zenon DEF InboxInv
      <3>3. CASE k = a /\ i - Len(q) \in DOMAIN r /\ inbox'[k][i] = r[i - Len(q)] /\ i \in Int
        <4>1. l = a /\ j - Len(q) \in DOMAIN r /\ inbox'[l][j] = r[j - Len(q)] /\ j \in Int
          BY <1>18, <2>1, <3>1, <3>3
        <4>2. i - Len(q) = j - Len(q)
          BY <1>6, <2>1, <3>3, <4>1
        <4> QED
          BY <1>15, <3>3, <4>1, <4>2
      <3> QED
        BY <1>18, <3>2, <3>3
    <2>2. ASSUME NEW k \in Members, NEW x \in Range(inbox'[k])
          PROVE  Unstarted(x)'
      <3>1. x \in Range(inbox[k]) \/ x \in Range(r)
        BY <1>16, Who
      <3>2. Unstarted(x)
        BY <1>1, <1>13, <3>1 DEF InboxInv
      <3> QED
        BY <1>14, <3>2
    <2>3. ASSUME NEW u \in Finders, pc'[u] = "batch", NEW x \in Pending(u)'
          PROVE  Unstarted(x)' /\ \A k \in Members : x \notin Range(inbox'[k])
      <3>1. x \in Pending(t) /\ x \notin Range(r)
        BY <1>4, <1>12, <2>3
      <3>2. Unstarted(x) /\ \A k \in Members : x \notin Range(inbox[k])
        BY <1>1, <1>3, <3>1 DEF InboxInv
      <3> QED
        BY <1>14, <1>16, <3>1, <3>2, Who
    <2> QED
      BY <2>1, <2>2, <2>3 DEF InboxInv
  <1>20. HostInbox'
    <2> SUFFICES ASSUME NEW x \in Range(inbox'[Host])
                 PROVE  \E i \in DOMAIN hand[Host] : x \in Kids(hand[Host][i])
      BY <1>3 DEF HostInbox
    <2>1. CASE x \in Range(inbox[Host])
      BY <1>1, <2>1 DEF HostInbox
    <2>2. CASE x \notin Range(inbox[Host])
      <3>1. Host = a /\ x \in Range(r)
        BY <1>16, <2>2, Who
      <3>2. PICK i \in DOMAIN Batch[b] : x = Batch[b][i] /\ target(i) = Host
        BY <1>6, <3>1
      <3>3. t = Host
        BY <1>8, <3>2, HostAssigns DEF target
      <3>4. x \in Kids(b)
        BY <1>7, <1>11, <3>1
      <3>5. b = hand[Host][Len(hand[Host])] /\ Len(hand[Host]) \in Nat \ {0} /\ hand[Host] \in Seq(Bodies)
        BY <1>5, <3>3, FrontKeeps DEF WorkTypes, b, Body
      <3>6. Len(hand[Host]) \in DOMAIN hand[Host]
        BY <3>5
      <3> QED
        BY <3>4, <3>5, <3>6
    <2> QED
      BY <2>1, <2>2
  <1> QED
    BY <1>17, <1>19, <1>20 DEF Accounts

\* The accounts in every step of a search.
LEMMA SearchAccounts ==
  ASSUME Accounts, WorkTypes, HandsFull, PlaceTypes, HelperInv, NEW t \in Finders, Search(t)
  PROVE  Accounts'
  <1>1. Foot(t, SearchFrom, SearchTo) /\ UNCHANGED fresh
    BY SearchFoot DEF PlaceTypes
  <1>2. \A u \in Finders \ {t} : hand'[u] = hand[u]
    <2>1. CASE UNCHANGED hand
      BY <2>1
    <2>2. CASE Leaves(t) \/ PopOwn(t) \/ \E m \in Finders : TakesInbox(t, m)
      BY <2>2 DEF Leaves, PopOwn, Take, TakesInbox, WorkTypes
    <2> QED
      BY <2>1, <2>2, SearchKinds DEF LooksOn, work, Publish, TakesDeque, TakesQueue
  <1>3. SamePending
    <2>1. "batch" \notin SearchTo
      BY DEF SearchTo
    <2> QED
      BY <1>1, <1>2, <2>1, PendingFoot
  \* The steps that only move jobs to a deque or out of one.
  <1>4. ASSUME UNCHANGED <<inbox, hand, ran>>, \A x : Queued(x)' => Queued(x) PROVE Accounts'
    <2>1. (\A x : Queued(x)' => Queued(x) \/ x \in {}) /\ fresh' \cap {} = {} /\ BatchJobs \cap {} = {}
      BY <1>4
    <2> QED
      BY <1>1, <1>3, <1>4, <2>1, MoveAccounts
  <1>5. CASE LooksOn(t)
    <2>1. UNCHANGED <<inbox, hand, ran>> /\ \A x : Queued(x)' => Queued(x)
      BY <1>5 DEF LooksOn, work, Queued
    <2> QED
      BY <1>4, <2>1
  <1>6. CASE Publish(t)
    <2>1. /\ deque'[t] = deque[t] \o flight[t] /\ flight'[t] = <<>> /\ UNCHANGED <<queue, inbox, hand, ran>>
          /\ \A u \in Finders \ {t} : deque'[u] = deque[u] /\ flight'[u] = flight[u]
      BY <1>6 DEF Publish, WorkTypes
    <2>2. Range(deque'[t]) = Range(deque[t]) \cup Range(flight[t]) /\ Range(flight'[t]) = {}
      <3>1. Range(deque[t] \o flight[t]) = Range(deque[t]) \cup Range(flight[t])
        BY ConcatKeeps DEF WorkTypes
      <3>2. Range(<<>>) = {}
        BY DEF Range
      <3> QED
        BY <2>1, <3>1, <3>2
    <2>3. \A x : Queued(x)' => Queued(x)
      BY <2>1, <2>2 DEF Queued
    <2> QED
      BY <1>4, <2>1, <2>3
  <1>7. ASSUME NEW v \in Members, NEW n \in Nat, TakesDeque(t, v, n) PROVE Accounts'
    <2>1. /\ v # t /\ v \in Finders /\ deque[v] \in Seq(Jobs) /\ n <= Len(deque[v])
          /\ flight'[t] = SubSeq(deque[v], 1, n) /\ deque'[v] = SubSeq(deque[v], n + 1, Len(deque[v]))
          /\ UNCHANGED <<queue, inbox, hand, ran>>
          /\ \A u \in Finders \ {t} : flight'[u] = flight[u]
          /\ \A u \in Finders \ {v} : deque'[u] = deque[u]
      BY <1>7, Who DEF TakesDeque, WorkTypes
    <2>2. Range(flight'[t]) \subseteq Range(deque[v]) /\ Range(deque'[v]) \subseteq Range(deque[v])
      BY <2>1, SplitKeeps
    <2>3. \A x : Queued(x)' => Queued(x)
      BY <2>1, <2>2 DEF Queued
    <2> QED
      BY <1>4, <2>1, <2>3
  <1>8. ASSUME NEW n \in Nat, TakesQueue(t, n) PROVE Accounts'
    <2>1. /\ n <= Len(queue) /\ queue \in Seq(Jobs)
          /\ flight'[t] = SubSeq(queue, 1, n) /\ queue' = SubSeq(queue, n + 1, Len(queue))
          /\ UNCHANGED <<deque, inbox, hand, ran>>
          /\ \A u \in Finders \ {t} : flight'[u] = flight[u]
      BY <1>8 DEF TakesQueue, WorkTypes
    <2>2. Range(flight'[t]) \subseteq Range(queue) /\ Range(queue') \subseteq Range(queue)
      BY <2>1, SplitKeeps
    <2>3. \A x : Queued(x)' => Queued(x)
      BY <2>1, <2>2 DEF Queued
    <2> QED
      BY <1>4, <2>1, <2>3
  <1> QED
    BY <1>3, <1>5, <1>6, <1>7, <1>8, SearchKinds, LeaveAccounts, PopAccounts, TakeAccounts

\* The accounts in every step that submits jobs.
LEMMA SubmitAccounts ==
  ASSUME Accounts, WorkTypes, HandsFull, Placed, Loops, OneBatch, NEW t \in Finders, Submit(t)
  PROVE  Accounts'
  <1>1. UNCHANGED <<ran, hand, flight>>
    BY SubmitFoot
  <1>2. ASSUME OpenScope(t) \/ Wait(t) \/ \E x \in Jobs : Spawn(t, x) PROVE SamePending
    <2>1. Foot(t, {"run", "scope"}, {"scope", "top", "wake"})
      BY <1>2, Who DEF OpenScope, Wait, Spawn, Foot, Goto, Placed
    <2> QED
      BY <1>1, <2>1, PendingFoot
  <1>3. CASE OpenScope(t) \/ Wait(t)
    <2>1. UNCHANGED work
      BY <1>3 DEF OpenScope, Wait
    <2>2. (\A x : Queued(x)' => Queued(x) \/ x \in {}) /\ fresh' \cap {} = {} /\ BatchJobs \cap {} = {}
          /\ UNCHANGED <<inbox, hand, ran, fresh>>
      BY <2>1 DEF work, Queued
    <2> QED
      BY <1>2, <1>3, <2>2, MoveAccounts
  <1>4. ASSUME NEW x \in Jobs, Spawn(t, x) PROVE Accounts'
    <2>1. x \in Spawns[Body(t)] /\ fresh' = fresh \ {x} /\ UNCHANGED inbox
      BY <1>4 DEF Spawn
    <2>2. Body(t) \in Bodies
      <3>1. hand[t] # <<>>
        BY <1>4 DEF Spawn, HandsFull
      <3> QED
        BY <3>1, FrontKeeps DEF WorkTypes, Body
    <2>3. BatchJobs \cap {x} = {}
      BY <2>1, <2>2, BatchJobsApart
    <2>4. \A y : Queued(y)' => Queued(y) \/ y \in {x}
      <3>1. Range(Append(deque[t], x)) = Range(deque[t]) \cup {x} /\ Range(Append(queue, x)) = Range(queue) \cup {x}
        BY AppendKeeps DEF WorkTypes
      <3>2. CASE queue' = Append(queue, x) /\ UNCHANGED deque
        BY <1>1, <3>1, <3>2 DEF Queued
      <3>3. CASE deque' = [deque EXCEPT ![t] = Append(@, x)] /\ UNCHANGED queue
        <4>1. deque'[t] = Append(deque[t], x) /\ \A u \in Finders \ {t} : deque'[u] = deque[u]
          BY <3>3 DEF WorkTypes
        <4> QED
          BY <1>1, <3>1, <3>3, <4>1 DEF Queued
      <3> QED
        BY <1>4, <3>2, <3>3 DEF Spawn
    <2>5. fresh' \subseteq fresh /\ fresh' \cap {x} = {}
      BY <2>1
    <2> QED
      BY <1>1, <1>2, <1>4, <2>1, <2>3, <2>4, <2>5, MoveAccounts
  <1> QED
    BY <1>3, <1>4, LockAccounts, ReleaseAccounts DEF Submit

\* Every job is where it is accounted for, in every step.
LEMMA AccountsStep ==
  ASSUME Accounts, WorkTypes, HandsFull, PlaceTypes, Loops, HelperInv, OneBatch, [Next]_vars
  PROVE  Accounts'
  <1>0. Placed
    BY DEF PlaceTypes
  \* A step that leaves the queues alone.
  <1>1. ASSUME UNCHANGED work, SamePending PROVE Accounts'
    <2>1. (\A x : Queued(x)' => Queued(x) \/ x \in {}) /\ fresh' \cap {} = {} /\ BatchJobs \cap {} = {}
          /\ UNCHANGED <<inbox, hand, ran, fresh>>
      BY <1>1 DEF work, Queued
    <2> QED
      BY <1>1, <2>1, MoveAccounts
  <1>2. ASSUME UNCHANGED work, NEW A, NEW B, NEW t, Foot(t, A, B), "batch" \notin B PROVE Accounts'
    <2>1. \A u \in Finders \ {t} : hand'[u] = hand[u]
      BY <1>2 DEF work
    <2>2. SamePending
      BY <1>2, <2>1, PendingFoot
    <2> QED
      BY <1>1, <1>2, <2>2
  <1>3. ASSUME NEW t \in Threads, WakeNobody(t) \/ WakeOne(t) \/ Unpark(t) PROVE Accounts'
    <2>1. Foot(t, {"wake", "unpark"}, {"idle", "scope", "unpark"}) /\ UNCHANGED work
      BY <1>0, <1>3, WakeNobodyFoot, WakeOneFoot, UnparkFoot DEF Foot, AfterWake
    <2> QED
      BY <1>2, <2>1
  <1>4. ASSUME NEW t \in Finders, WakeAssigned(t) PROVE Accounts'
    <2>1. Foot(t, {"batch_wake"}, {"scope"}) /\ UNCHANGED work
      BY <1>0, <1>4, AssignedFoot
    <2> QED
      BY <1>2, <2>1
  <1>5. ASSUME NEW w \in Workers, Doze(w) PROVE Accounts'
    <2>1. Foot(w, DozeFrom, DozeTo) /\ UNCHANGED work /\ "batch" \notin DozeTo
      BY <1>0, <1>5, DozeFoot DEF DozeTo
    <2> QED
      BY <1>2, <2>1
  <1>6. ASSUME NEW w \in Workers, Register(w) \/ Unregister(w) \/ Unparked(w) PROVE Accounts'
    <2>1. Foot(w, {"scan", "unregister", "park"}, {"park", "top", "unregister"}) /\ UNCHANGED work
      BY <1>0, <1>6, RegisterFoot, UnregisterFoot, UnparkedFoot DEF Foot
    <2> QED
      BY <1>2, <2>1
  <1>7. CASE HostLife
    <2>1. Foot(Host, HostFrom, HostFrom) /\ UNCHANGED work /\ "batch" \notin HostFrom
      BY <1>0, <1>7, HostFoot DEF HostFrom
    <2> QED
      BY <1>2, <2>1
  <1>8. CASE StartWorker
    <2>1. UNCHANGED work /\ UNCHANGED at /\ \A u \in Threads : pc'[u] = "batch" => pc[u] = "batch"
      BY <1>0, <1>8, StartFoot
    <2>2. SamePending
      BY <2>1, Who DEF SamePending, Pending, Body, work
    <2> QED
      BY <1>1, <2>1, <2>2
  <1>9. CASE UNCHANGED vars
    <2>1. UNCHANGED work /\ SamePending
      BY <1>9 DEF vars, work, SamePending, Pending, Body
    <2> QED
      BY <1>1, <2>1
  <1>10. ASSUME NEW x \in Pushed, Push(x) PROVE Accounts'
    <2>1. /\ Foot(Pusher, {"idle"}, {"wake"}) /\ UNCHANGED <<deque, inbox, flight, hand, ran>>
          /\ fresh' = fresh \ {x} /\ queue' = Append(queue, x)
      BY <1>0, <1>10, PushFoot DEF Push
    <2>2. SamePending
      BY <2>1, PendingFoot
    <2>3. BatchJobs \cap {x} = {} /\ x \in Jobs
      BY BatchJobsApart, BatchTypes
    <2>4. \A y : Queued(y)' => Queued(y) \/ y \in {x}
      <3>1. Range(Append(queue, x)) = Range(queue) \cup {x}
        BY <2>3, AppendKeeps DEF WorkTypes
      <3> QED
        BY <2>1, <3>1 DEF Queued
    <2>5. fresh' \subseteq fresh /\ fresh' \cap {x} = {}
      BY <2>1
    <2> QED
      BY <2>1, <2>2, <2>3, <2>4, <2>5, MoveAccounts
  <1>11. ASSUME NEW t \in {Host, Helper}, Enter(t) PROVE Accounts'
    <2>1. Foot(t, {"outside"}, {"scope"})
      BY <1>0, <1>11, EnterFoot
    <2>2. \A u \in Finders \ {t} : hand'[u] = hand[u]
      BY <1>11 DEF Enter, EnterScope, EnterAsHelper, WorkTypes
    <2>3. SamePending
      BY <2>1, <2>2, PendingFoot
    <2> QED
      BY <1>0, <1>11, <2>3, EnterAccounts
  <1> QED
    BY <1>0, <1>3, <1>4, <1>5, <1>6, <1>7, <1>8, <1>9, <1>10, <1>11, Kinds, SearchAccounts, SubmitAccounts
-----------------------------------------------------------------------------
(***************************************************************************)
(* Workers that were assigned jobs.                                        *)
(***************************************************************************)
\* A step that fills no inbox, and neither publishes, nor parks, nor unparks.
LEMMA WokenKeeps ==
  ASSUME Assigned, NEW A, NEW B, NEW t, Foot(t, A, B),
         A \cap {"batch", "batch_wake", "unpark"} = {}, B \cap {"scan", "park"} = {},
         \A w \in Workers : inbox'[w] # <<>> => inbox[w] # <<>>,
         \A w \in Workers \ {t} : token[w] => token'[w]
  PROVE  Assigned'
  <1>1. /\ \A w \in Workers : pc'[w] \in {"scan", "park"} => w # t /\ pc'[w] = pc[w] /\ at'[w] = at[w]
        /\ \A u \in Threads : pc[u] = "unpark" => pc'[u] = "unpark" /\ at'[u] = at[u]
        /\ \A u \in Finders : Batching(u) => Batching(u)'
    BY Who DEF Foot, Batching
  <1>2. ScanInv'
    BY <1>1 DEF Assigned, ScanInv
  <1>3. AssignedWorkerWoken'
    <2> SUFFICES ASSUME NEW w \in Workers, Asleep(w)', inbox'[w] # <<>>
                 PROVE  \/ \E u \in Finders : Batching(u)'
                        \/ \E u \in Threads : pc'[u] = "unpark" /\ at'[u] = w
      BY DEF AssignedWorkerWoken, Batching
    <2>1. Asleep(w) /\ inbox[w] # <<>>
      BY <1>1 DEF Asleep
    <2>2. \/ \E u \in Finders : Batching(u)
          \/ \E u \in Threads : pc[u] = "unpark" /\ at[u] = w
      BY <2>1 DEF Assigned, AssignedWorkerWoken, Batching
    <2> QED
      BY <1>1, <2>2
  <1> QED
    BY <1>2, <1>3 DEF Assigned

\* Who publishes will wake the assigned workers.
LEMMA PublisherBusy ==
  ASSUME NEW t \in Finders, Batching(t)'
  PROVE  Assigned'
  BY DEF Assigned, ScanInv, AssignedWorkerWoken, Batching

\* An unparked worker looks into its inbox.
LEMMA UnparkWakes ==
  ASSUME Assigned, Placed, SleepTypes, NEW t \in Threads, Unpark(t)
  PROVE  Assigned'
  <1>1. /\ Foot(t, {"unpark"}, {"idle", "scope"}) /\ token' = [token EXCEPT ![at[t]] = TRUE]
        /\ UNCHANGED inbox
    BY UnparkFoot DEF Foot, AfterWake, work
  <1>2. /\ \A w \in Workers : pc'[w] \in {"scan", "park"} => w # t /\ pc'[w] = pc[w] /\ at'[w] = at[w]
        /\ \A u \in Threads \ {t} : pc[u] = "unpark" => pc'[u] = "unpark" /\ at'[u] = at[u]
        /\ \A u \in Finders : Batching(u) => Batching(u)'
    BY <1>1, Who DEF Foot, Batching
  <1>3. ScanInv'
    BY <1>1, <1>2 DEF Assigned, ScanInv
  <1>4. AssignedWorkerWoken'
    <2> SUFFICES ASSUME NEW w \in Workers, Asleep(w)', inbox'[w] # <<>>
                 PROVE  \/ \E u \in Finders : Batching(u)'
                        \/ \E u \in Threads : pc'[u] = "unpark" /\ at'[u] = w
      BY DEF AssignedWorkerWoken, Batching
    <2>1. Asleep(w) /\ inbox[w] # <<>> /\ w # at[t]
      BY <1>1, <1>2 DEF Asleep, SleepTypes
    <2>2. \/ \E u \in Finders : Batching(u)
          \/ \E u \in Threads : pc[u] = "unpark" /\ at[u] = w
      BY <2>1 DEF Assigned, AssignedWorkerWoken, Batching
    <2> QED
      BY <1>2, <2>1, <2>2
  <1> QED
    BY <1>3, <1>4 DEF Assigned

\* A publisher unparks everybody who is registered and has jobs; who sleeps
\* without a registration is about to be unparked by somebody else.
LEMMA AssignedWakes ==
  ASSUME Assigned, Placed, SleepTypes, LockInv, SleeperReachable, NEW t \in Finders, WakeAssigned(t)
  PROVE  Assigned'
  <1>1. Foot(t, {"batch_wake"}, {"scope"}) /\ lock = NoThread /\ UNCHANGED inbox
    BY AssignedFoot DEF work
  <1>2. \A w \in Workers : pc[w] # "scan"
    BY <1>1, Who DEF LockInv
  <1>3. ScanInv'
    BY <1>1, <1>2, Who DEF ScanInv, Foot
  <1>4. AssignedWorkerWoken'
    <2> SUFFICES ASSUME NEW w \in Workers, Asleep(w)', inbox'[w] # <<>>
                 PROVE  \E u \in Threads : pc'[u] = "unpark" /\ at'[u] = w
      BY DEF AssignedWorkerWoken
    <2>1. token'[w] = (token[w] \/ w \in {v \in Range(sleepers) : inbox[v] # <<>>})
      BY DEF WakeAssigned
    <2>2. pc[w] = "park" /\ ~token'[w]
      BY <1>1, Who DEF Foot, Asleep
    <2>3. Asleep(w) /\ w \notin Range(sleepers)
      BY <1>1, <2>1, <2>2, Zenon DEF Asleep
    <2>4. PICK u \in Threads : pc[u] = "unpark" /\ at[u] = w
      BY <2>3 DEF SleeperReachable
    <2> QED
      BY <1>1, <2>4 DEF Foot
  <1> QED
    BY <1>3, <1>4 DEF Assigned

\* The scan goes past the own inbox only when it is empty.
LEMMA ScanLooks ==
  ASSUME Assigned, PlaceTypes, NEW w \in Workers, ScanNext(w)
  PROVE  Assigned'
  <1>1. /\ \A u \in Threads \ {w} : pc'[u] = pc[u] /\ at'[u] = at[u]
        /\ pc[w] \in {"check", "scan"} /\ pc'[w] = "scan" /\ UNCHANGED <<inbox, token>>
        /\ \/ at'[w] = 0
           \/ pc[w] = "scan" /\ inbox[at[w]] = <<>> /\ at'[w] = at[w] + 1
    BY Who DEF PlaceTypes, Placed, ScanNext, GotoAt, work, sleep
  <1>2. at[w] \in Int /\ w \in Nat
    BY Who DEF PlaceTypes, Workers
  <1>3. /\ \A u \in Threads : pc[u] = "unpark" => pc'[u] = "unpark" /\ at'[u] = at[u]
        /\ \A u \in Finders : Batching(u) => Batching(u)'
    BY <1>1, Who DEF Batching
  <1>4. ScanInv'
    <2> SUFFICES ASSUME NEW v \in Workers, pc'[v] = "scan", at'[v] > v, inbox'[v] # <<>>
                 PROVE  \E u \in Finders : Batching(u)'
      BY DEF ScanInv
    <2>1. CASE v = w
      <3>1. at[w] # w => at[w] > w
        BY <1>1, <1>2, <2>1
      <3>2. pc[w] = "scan" /\ at[w] > w /\ inbox[w] # <<>>
        BY <1>1, <1>2, <2>1, <3>1
      <3> QED
        BY <1>3, <3>2 DEF Assigned, ScanInv
    <2>2. CASE v # w
      BY <1>1, <1>3, <2>2, Who DEF Assigned, ScanInv
    <2> QED
      BY <2>1, <2>2
  <1>5. AssignedWorkerWoken'
    <2> SUFFICES ASSUME NEW v \in Workers, Asleep(v)', inbox'[v] # <<>>
                 PROVE  \/ \E u \in Finders : Batching(u)'
                        \/ \E u \in Threads : pc'[u] = "unpark" /\ at'[u] = v
      BY DEF AssignedWorkerWoken, Batching
    <2>1. Asleep(v) /\ inbox[v] # <<>>
      BY <1>1, Who DEF Asleep
    <2>2. \/ \E u \in Finders : Batching(u)
          \/ \E u \in Threads : pc[u] = "unpark" /\ at[u] = v
      BY <2>1 DEF Assigned, AssignedWorkerWoken, Batching
    <2> QED
      BY <1>3, <2>2
  <1> QED
    BY <1>4, <1>5 DEF Assigned

\* A worker registers after it has looked into its inbox.
LEMMA RegisterLooked ==
  ASSUME Assigned, Placed, NEW w \in Workers, Register(w)
  PROVE  Assigned'
  <1>1. Foot(w, {"scan"}, {"park"}) /\ at[w] = N + 1 /\ UNCHANGED <<inbox, token>>
    BY RegisterFoot DEF work
  <1>2. N + 1 > w
    BY PoolAssumption DEF Workers
  <1>3. /\ \A v \in Workers \ {w} : pc'[v] = pc[v] /\ at'[v] = at[v]
        /\ \A u \in Threads : pc[u] = "unpark" => pc'[u] = "unpark" /\ at'[u] = at[u]
        /\ \A u \in Finders : Batching(u) => Batching(u)'
        /\ pc[w] = "scan" /\ pc'[w] = "park"
    BY <1>1, Who DEF Foot, Batching
  <1>4. inbox[w] # <<>> => \E u \in Finders : Batching(u)
    BY <1>1, <1>2, <1>3 DEF Assigned, ScanInv
  <1>5. ScanInv'
    BY <1>1, <1>3 DEF Assigned, ScanInv
  <1>6. AssignedWorkerWoken'
    <2> SUFFICES ASSUME NEW v \in Workers, Asleep(v)', inbox'[v] # <<>>
                 PROVE  \/ \E u \in Finders : Batching(u)'
                        \/ \E u \in Threads : pc'[u] = "unpark" /\ at'[u] = v
      BY DEF AssignedWorkerWoken, Batching
    <2>1. CASE v = w
      BY <1>1, <1>3, <1>4, <2>1
    <2>2. CASE v # w
      <3>1. Asleep(v) /\ inbox[v] # <<>>
        BY <1>1, <1>3, <2>2 DEF Asleep
      <3>2. \/ \E u \in Finders : Batching(u)
            \/ \E u \in Threads : pc[u] = "unpark" /\ at[u] = v
        BY <3>1 DEF Assigned, AssignedWorkerWoken, Batching
      <3> QED
        BY <1>3, <3>2
    <2> QED
      BY <2>1, <2>2
  <1> QED
    BY <1>5, <1>6 DEF Assigned

\* A sleeper with assigned jobs is woken, in every step.
LEMMA AssignedStep ==
  ASSUME Assigned, PlaceTypes, SleepTypes, WorkTypes, HandsFull, LockInv, SleeperReachable, Construction,
         [Next]_vars
  PROVE  Assigned'
  <1>0. Placed
    BY DEF PlaceTypes
  <1>1. ASSUME NEW t \in Threads, WakeNobody(t) \/ WakeOne(t) PROVE Assigned'
    <2>1. Foot(t, {"wake"}, {"idle", "scope", "unpark"}) /\ UNCHANGED <<inbox, token>>
      BY <1>0, <1>1, WakeNobodyFoot, WakeOneFoot DEF Foot, AfterWake, work, sleep
    <2> QED
      BY <2>1, WokenKeeps
  <1>2. ASSUME NEW t \in Finders, Search(t) PROVE Assigned'
    <2>1. /\ Foot(t, SearchFrom, SearchTo) /\ UNCHANGED token
          /\ SearchFrom \cap {"batch", "batch_wake", "unpark"} = {} /\ SearchTo \cap {"scan", "park"} = {}
      BY <1>0, <1>2, SearchFoot DEF SearchFrom, SearchTo, sleep
    <2>2. \A w \in Workers : inbox'[w] # <<>> => inbox[w] # <<>>
      <3>1. CASE UNCHANGED inbox
        BY <3>1
      <3>2. ASSUME NEW m \in Finders, TakesInbox(t, m)
            PROVE  inbox[m] # <<>> /\ \A w \in Workers \ {m} : inbox'[w] = inbox[w]
        BY <3>2, Who DEF TakesInbox, WorkTypes
      <3> QED
        BY <1>2, <3>1, <3>2, SearchKinds
           DEF LooksOn, work, Leaves, PopOwn, Publish, TakesDeque, TakesQueue
    <2> QED
      BY <2>1, <2>2, WokenKeeps
  <1>3. ASSUME NEW t \in Finders, Submit(t) PROVE Assigned'
    <2>1. CASE LockInboxes(t) \/ ReleaseInbox(t)
      <3>1. Batching(t)'
        BY <1>0, <2>1, Who DEF LockInboxes, ReleaseInbox, GotoAt, Batching, Placed
      <3> QED
        BY <3>1, PublisherBusy
    <2>2. CASE OpenScope(t) \/ Wait(t) \/ \E x \in Jobs : Spawn(t, x)
      <3>1. Foot(t, {"run", "scope"}, {"scope", "top", "wake"}) /\ UNCHANGED <<inbox, token>>
        BY <1>0, <2>2, Who DEF OpenScope, Wait, Spawn, Foot, Goto, Placed, work, sleep
      <3> QED
        BY <3>1, WokenKeeps
    <2> QED
      BY <1>3, <2>1, <2>2 DEF Submit
  <1>4. ASSUME NEW w \in Workers, Doze(w) PROVE Assigned'
    <2>1. CASE ScanNext(w)
      BY <2>1, ScanLooks
    <2>2. CASE WarmUp(w) \/ LockSleepers(w) \/ WorkSeen(w)
      <3>1. Foot(w, DozeFrom, {"top", "exited", "check"}) /\ UNCHANGED <<inbox, token>>
        <4>1. pc'[w] \in {"top", "exited", "check"}
          BY <1>0, <2>2, Who DEF WarmUp, LockSleepers, WorkSeen, Goto, GotoAt, Placed
        <4> QED
          BY <1>0, <1>4, <4>1, DozeFoot DEF Foot, work
      <3>2. DozeFrom \cap {"batch", "batch_wake", "unpark"} = {}
        BY DEF DozeFrom
      <3> QED
        BY <3>1, <3>2, WokenKeeps
    <2> QED
      BY <1>4, <2>1, <2>2 DEF Doze
  <1>5. ASSUME NEW w \in Workers, Unregister(w) \/ Unparked(w) PROVE Assigned'
    <2>1. /\ Foot(w, {"unregister", "park"}, {"top", "unregister"}) /\ UNCHANGED inbox
          /\ \A v \in Workers \ {w} : token'[v] = token[v]
      BY <1>0, <1>5, UnregisterFoot, UnparkedFoot DEF Foot, work, SleepTypes
    <2> QED
      BY <2>1, WokenKeeps
  <1>6. ASSUME NEW x \in Pushed, Push(x) PROVE Assigned'
    <2>1. Foot(Pusher, {"idle"}, {"wake"}) /\ UNCHANGED <<inbox, token>>
      BY <1>0, <1>6, PushFoot DEF Push, sleep
    <2> QED
      BY <2>1, WokenKeeps
  <1>7. ASSUME NEW t \in {Host, Helper}, Enter(t) PROVE Assigned'
    <2>1. Foot(t, {"outside"}, {"scope"}) /\ UNCHANGED <<inbox, token>>
      BY <1>0, <1>7, EnterFoot DEF sleep
    <2> QED
      BY <2>1, WokenKeeps
  <1>8. CASE HostLife
    <2>1. /\ Foot(Host, HostFrom, HostFrom) /\ UNCHANGED inbox
          /\ HostFrom \cap {"batch", "batch_wake", "unpark", "scan", "park"} = {}
      BY <1>0, <1>8, HostFoot DEF work, HostFrom
    <2>2. \A w \in Workers : token[w] => token'[w]
      BY <1>8 DEF HostLife, WriteSlot, StartFails, WriteHostSlot, InitCompleted, Stop, StopUnpark, Join,
                  Dropped, vars, sleep, SleepTypes
    <2> QED
      BY <2>1, <2>2, WokenKeeps
  <1>9. CASE StartWorker
    <2>1. /\ pc[Host] = "new" /\ pc'[Host] = "write"
          /\ at[Host] \in Workers /\ pc'[at[Host]] = "warmup"
          /\ \A u \in Threads \ {Host, at[Host]} : pc'[u] = pc[u]
          /\ UNCHANGED <<inbox, token, at>>
      BY <1>0, <1>9, StartFoot DEF work, sleep
    <2>2. pc[at[Host]] = "unborn"
      BY <2>1, PoolAssumption DEF Construction, Workers
    <2>3. /\ \A w \in Workers : pc'[w] \in {"scan", "park"} => pc'[w] = pc[w]
          /\ \A u \in Threads : pc[u] = "unpark" => pc'[u] = "unpark"
          /\ \A u \in Finders : Batching(u) => Batching(u)'
      BY <2>1, <2>2, Who DEF Batching
    <2>4. ScanInv'
      BY <2>1, <2>3 DEF Assigned, ScanInv
    <2>5. AssignedWorkerWoken'
      BY <2>1, <2>3 DEF Assigned, AssignedWorkerWoken, Asleep, Batching
    <2> QED
      BY <2>4, <2>5 DEF Assigned
  <1>10. CASE UNCHANGED vars
    BY <1>10 DEF vars, work, sleep, Assigned, ScanInv, AssignedWorkerWoken, Asleep, Batching
  <1> QED
    BY <1>0, <1>1, <1>2, <1>3, <1>4, <1>5, <1>6, <1>7, <1>8, <1>9, <1>10, Kinds,
       UnparkWakes, AssignedWakes, RegisterLooked
-----------------------------------------------------------------------------
(***************************************************************************)
(* The shared queue.                                                       *)
(***************************************************************************)
Blind == {"unborn", "scan", "exited"}

\* A step that enqueues nothing, wakes nobody, and lets nobody who is alert go
\* to sleep.
LEMMA QueueKeeps ==
  ASSUME QueueInv, NEW A, NEW B, NEW t, Foot(t, A, B), A \cap {"wake", "unpark"} = {},
         queue' # <<>> => queue # <<>>, running' => running,
         t \in Workers /\ Alert(t) => pc'[t] \notin Blind \cup {"park"},
         \A w \in Workers \ {t} : token[w] => token'[w]
  PROVE  QueueInv'
  <1> SUFFICES ASSUME queue' # <<>>, running'
               PROVE  (\E u \in Threads : pc'[u] = "wake") \/ (\E w \in Workers : Alert(w)')
    BY DEF QueueInv
  <1>1. \A u \in Threads : pc[u] \in {"wake", "unpark"} => pc'[u] = pc[u] /\ at'[u] = at[u]
    BY DEF Foot
  <1>2. ASSUME NEW w \in Workers, Alert(w) PROVE Alert(w)'
    <2>1. CASE w = t
      BY <1>2, <2>1 DEF Alert, Asleep, Blind
    <2>2. CASE w # t
      <3>1. pc'[w] = pc[w] /\ (Asleep(w)' => Asleep(w))
        BY <2>2, Who DEF Foot, Asleep
      <3> QED
        BY <1>1, <1>2, <3>1 DEF Alert
    <2> QED
      BY <2>1, <2>2
  <1>3. (\E u \in Threads : pc[u] = "wake") \/ (\E w \in Workers : Alert(w))
    BY DEF QueueInv
  <1> QED
    BY <1>1, <1>2, <1>3

\* Nobody is registered: everybody is awake, or about to be.
LEMMA NobodySleeps ==
  ASSUME Placed, Gate, LockInv, SleeperReachable, NEW t \in Threads, WakeNobody(t)
  PROVE  QueueInv'
  <1>1. /\ Foot(t, {"wake"}, {AfterWake(t)}) /\ lock = NoThread /\ sleepers = <<>>
        /\ UNCHANGED <<token, running, init>>
    BY WakeNobodyFoot DEF sleep, life
  <1> SUFFICES ASSUME running PROVE \E w \in Workers : Alert(w)'
    BY <1>1 DEF QueueInv
  <1>2. 0 \in Workers
    BY PoolAssumption DEF Workers
  <1>3. pc[t] = "wake" /\ \A u \in Threads \ {t} : pc'[u] = pc[u] /\ at'[u] = at[u]
    BY <1>1 DEF Foot
  <1>4. init
    BY <1>3, Who DEF Gate
  <1>5. \A w \in Workers : pc[w] \notin Blind
    BY <1>1, <1>4, Who DEF Gate, LockInv, Blind
  <1>6. \A w \in Workers : pc'[w] \notin Blind
    BY <1>1, <1>5, Who DEF Foot, AfterWake, Blind
  <1>7. ASSUME Asleep(0)' PROVE \E u \in Threads : pc'[u] = "unpark" /\ at'[u] = 0
    <2>1. t # 0 /\ 0 \in Threads
      BY <1>1, <1>2, <1>7, Who DEF Foot, Asleep, AfterWake
    <2>2. Asleep(0)
      BY <1>1, <1>3, <1>7, <2>1 DEF Asleep
    <2>3. Range(sleepers) = {}
      BY <1>1 DEF Range
    <2>4. PICK u \in Threads : pc[u] = "unpark" /\ at[u] = 0
      BY <1>2, <2>2, <2>3 DEF SleeperReachable
    <2> QED
      BY <1>3, <2>4
  <1>8. Alert(0)'
    BY <1>2, <1>6, <1>7 DEF Alert, Blind
  <1> QED
    BY <1>2, <1>8

\* The oldest registration is taken: its worker will look at the queue.
LEMMA OldestWakes ==
  ASSUME Placed, SleepTypes, RegistrationsCurrent, NEW t \in Threads, WakeOne(t)
  PROVE  QueueInv'
  <1>1. Foot(t, {"wake"}, {"unpark"}) /\ at'[t] = Head(sleepers) /\ sleepers # <<>>
    BY WakeOneFoot
  <1>2. PICK h \in Workers : h = Head(sleepers) /\ h \in Range(sleepers)
    BY <1>1, TailKeeps DEF SleepTypes
  <1>3. pc[h] \in {"park", "unregister"} /\ h \in Threads
    BY <1>2, Who DEF RegistrationsCurrent
  <1>4. pc'[h] \in {"park", "unregister"} /\ pc'[t] = "unpark" /\ at'[t] = h
    BY <1>1, <1>2, <1>3 DEF Foot
  <1>5. Alert(h)'
    BY <1>4 DEF Alert
  <1> QED
    BY <1>2, <1>5 DEF QueueInv

\* An unparked worker looks at the shared queue.
LEMMA UnparkAlerts ==
  ASSUME QueueInv, Placed, SleepTypes, NEW t \in Threads, Unpark(t)
  PROVE  QueueInv'
  <1>1. /\ Foot(t, {"unpark"}, {"idle", "scope"}) /\ token' = [token EXCEPT ![at[t]] = TRUE]
        /\ UNCHANGED <<queue, running>>
    BY UnparkFoot DEF Foot, AfterWake, work, life
  <1>2. \A u \in Threads \ {t} : pc'[u] = pc[u] /\ at'[u] = at[u]
    BY <1>1 DEF Foot
  <1>3. ASSUME NEW w \in Workers, Alert(w) PROVE Alert(w)'
    <2>1. pc'[w] \notin Blind /\ (Asleep(w)' => Asleep(w) /\ w # at[t])
      <3>1. CASE w = t
        BY <1>1, <3>1 DEF Foot, Blind, Asleep
      <3>2. CASE w # t
        BY <1>1, <1>2, <1>3, <3>2, Who DEF Alert, Blind, Asleep, SleepTypes
      <3> QED
        BY <3>1, <3>2
    <2>2. Asleep(w)' => \E u \in Threads : pc'[u] = "unpark" /\ at'[u] = w
      BY <1>2, <1>3, <2>1 DEF Alert
    <2> QED
      BY <2>1, <2>2 DEF Alert, Blind
  <1>4. \A u \in Threads : pc[u] = "wake" => pc'[u] = "wake"
    BY <1>1, <1>2 DEF Foot
  <1> QED
    BY <1>1, <1>3, <1>4 DEF QueueInv

\* Somebody looks at the shared queue while it has jobs, in every step.
LEMMA QueueStep ==
  ASSUME QueueInv, PlaceTypes, SleepTypes, WorkTypes, HandsFull, LockInv, Gate, Construction,
         RegistrationsCurrent, SleeperReachable, [Next]_vars
  PROVE  QueueInv'
  <1>0. Placed
    BY DEF PlaceTypes
  <1>1. ASSUME NEW t \in Finders, Search(t) PROVE QueueInv'
    <2>1. Foot(t, SearchFrom, SearchTo) /\ UNCHANGED <<token, running>>
      BY <1>0, <1>1, SearchFoot DEF sleep, life
    <2>2. pc'[t] = "exited" => ~running
      <3>1. t \in DOMAIN pc
        BY <1>0, Who DEF Placed
      <3>2. CASE LoopTop(t)
        BY <3>1, <3>2 DEF LoopTop, Goto
      <3>3. CASE ~LoopTop(t)
        BY <1>1, <3>1, <3>3
           DEF Search, Until, ScopeCompleted, Leave, PopOwn, PopInbox, PopNothing, Pull, StealDeque, PullNothing,
               Publish, StealInbox, NextVictim, GiveUp, Run, Take, Goto, GotoAt, Begin
      <3> QED
        BY <3>2, <3>3
    <2>3. queue' # <<>> => queue # <<>>
      <3>1. CASE UNCHANGED queue
        BY <3>1
      <3>2. ASSUME NEW n \in Nat, TakesQueue(t, n) PROVE queue # <<>>
        BY <3>2 DEF TakesQueue
      <3> QED
        BY <1>1, <3>1, <3>2, SearchKinds DEF LooksOn, work, Leaves, PopOwn, Publish, TakesInbox, TakesDeque
    <2>4. CASE running
      <3>1. /\ SearchFrom \cap {"wake", "unpark"} = {} /\ pc'[t] \notin Blind \cup {"park"}
        BY <2>1, <2>2, <2>4 DEF SearchFrom, SearchTo, Blind, Foot
      <3> QED
        BY <2>1, <2>3, <3>1, QueueKeeps
    <2>5. CASE ~running
      BY <2>1, <2>5 DEF QueueInv
    <2> QED
      BY <2>4, <2>5
  <1>2. ASSUME NEW t \in Finders, Submit(t) PROVE QueueInv'
    <2>1. CASE \E x \in Jobs : Spawn(t, x)
      <3>1. t \in Threads /\ pc'[t] = "wake"
        BY <1>0, <2>1, Who DEF Spawn, Goto, Placed
      <3> QED
        BY <3>1 DEF QueueInv
    <2>2. CASE OpenScope(t) \/ Wait(t) \/ LockInboxes(t) \/ ReleaseInbox(t)
      <3>1. Foot(t, SubmitFrom, SubmitTo) /\ UNCHANGED <<token, running>>
        BY <1>0, <1>2, SubmitFoot DEF sleep, life
      <3>2. UNCHANGED queue
        BY <2>2 DEF OpenScope, Wait, LockInboxes, ReleaseInbox, work
      <3>3. SubmitFrom \cap {"wake", "unpark"} = {} /\ pc'[t] \notin Blind \cup {"park"}
        BY <3>1 DEF SubmitFrom, SubmitTo, Blind, Foot
      <3> QED
        BY <3>1, <3>2, <3>3, QueueKeeps
    <2> QED
      BY <1>2, <2>1, <2>2 DEF Submit
  <1>3. ASSUME NEW t \in Finders, WakeAssigned(t) PROVE QueueInv'
    <2>1. Foot(t, {"batch_wake"}, {"scope"}) /\ UNCHANGED <<queue, running>>
      BY <1>0, <1>3, AssignedFoot DEF work, life
    <2>2. \A w \in Workers : token[w] => token'[w]
      BY <1>3 DEF WakeAssigned
    <2>3. pc'[t] \notin Blind \cup {"park"}
      BY <2>1 DEF Foot, Blind
    <2> QED
      BY <2>1, <2>2, <2>3, QueueKeeps
  <1>4. ASSUME NEW w \in Workers, Doze(w) PROVE QueueInv'
    <2>1. Foot(w, DozeFrom, DozeTo) /\ UNCHANGED <<queue, token, running>>
      BY <1>0, <1>4, DozeFoot DEF work, life
    <2>2. CASE queue # <<>> /\ running
      <3>1. w \in DOMAIN pc
        BY <1>0, Who DEF Placed
      <3>2. Alert(w) => pc'[w] \notin Blind \cup {"park"}
        BY <1>4, <2>2, <3>1 DEF Doze, WarmUp, LockSleepers, WorkSeen, ScanNext, Goto, GotoAt, Alert, Blind
      <3>3. DozeFrom \cap {"wake", "unpark"} = {}
        BY DEF DozeFrom
      <3> QED
        BY <2>1, <3>2, <3>3, QueueKeeps
    <2>3. CASE ~(queue # <<>> /\ running)
      BY <2>1, <2>3 DEF QueueInv
    <2> QED
      BY <2>2, <2>3
  <1>5. ASSUME NEW w \in Workers, Register(w) PROVE QueueInv'
    <2>1. Foot(w, {"scan"}, {"park"}) /\ UNCHANGED <<queue, token, running>>
      BY <1>0, <1>5, RegisterFoot DEF work, life
    <2>2. ~Alert(w)
      BY <2>1 DEF Foot, Alert
    <2> QED
      BY <2>1, <2>2, QueueKeeps
  <1>6. ASSUME NEW w \in Workers, Unregister(w) \/ Unparked(w) PROVE QueueInv'
    <2>1. /\ Foot(w, {"unregister", "park"}, {"top", "unregister"}) /\ UNCHANGED <<queue, running>>
          /\ \A v \in Workers \ {w} : token'[v] = token[v]
      BY <1>0, <1>6, UnregisterFoot, UnparkedFoot DEF Foot, work, life, SleepTypes
    <2>2. pc'[w] \notin Blind \cup {"park"}
      BY <2>1 DEF Foot, Blind
    <2> QED
      BY <2>1, <2>2, QueueKeeps
  <1>7. ASSUME NEW x \in Pushed, Push(x) PROVE QueueInv'
    <2>1. Pusher \in Threads /\ pc'[Pusher] = "wake"
      BY <1>0, <1>7, PushFoot DEF Foot
    <2> QED
      BY <2>1 DEF QueueInv
  <1>8. ASSUME NEW t \in {Host, Helper}, Enter(t) PROVE QueueInv'
    <2>1. Foot(t, {"outside"}, {"scope"}) /\ UNCHANGED <<queue, token, running>> /\ t \notin Workers
      BY <1>0, <1>8, EnterFoot, Who DEF sleep, life
    <2> QED
      BY <2>1, QueueKeeps
  <1>9. CASE HostLife
    <2>1. /\ Foot(Host, HostFrom, HostFrom) /\ UNCHANGED queue /\ Host \notin Workers
          /\ HostFrom \cap {"wake", "unpark"} = {}
      BY <1>0, <1>9, HostFoot, Who DEF work, HostFrom
    <2>2. \A w \in Workers : token[w] => token'[w]
      BY <1>9 DEF HostLife, WriteSlot, StartFails, WriteHostSlot, InitCompleted, Stop, StopUnpark, Join,
                  Dropped, vars, sleep, SleepTypes
    <2>3. running' => running
      BY <1>9 DEF HostLife, WriteSlot, StartFails, WriteHostSlot, InitCompleted, Stop, StopUnpark, Join,
                  Dropped, vars, life
    <2> QED
      BY <2>1, <2>2, <2>3, QueueKeeps
  <1>10. CASE StartWorker
    <2>1. /\ pc[Host] = "new" /\ pc'[Host] = "write"
          /\ at[Host] \in Workers /\ pc'[at[Host]] = "warmup"
          /\ \A u \in Threads \ {Host, at[Host]} : pc'[u] = pc[u]
          /\ UNCHANGED <<queue, token, running, at>>
      BY <1>0, <1>10, StartFoot DEF work, sleep, life
    <2>2. pc[at[Host]] = "unborn"
      BY <2>1, PoolAssumption DEF Construction, Workers
    <2>3. \A u \in Threads : pc[u] \in {"wake", "unpark"} => pc'[u] = pc[u]
      BY <2>1, <2>2
    <2>4. ASSUME NEW w \in Workers, Alert(w) PROVE Alert(w)'
      <3>1. w # at[Host] /\ pc'[w] = pc[w] /\ (Asleep(w)' => Asleep(w))
        BY <2>1, <2>2, <2>4, Who DEF Alert, Asleep
      <3> QED
        BY <2>1, <2>3, <2>4, <3>1 DEF Alert
    <2> QED
      BY <2>1, <2>3, <2>4 DEF QueueInv
  <1>11. CASE UNCHANGED vars
    BY <1>11 DEF vars, work, sleep, life, QueueInv, Alert, Asleep
  <1> QED
    BY <1>0, <1>1, <1>2, <1>3, <1>4, <1>5, <1>6, <1>7, <1>8, <1>9, <1>10, <1>11, Kinds,
       NobodySleeps, OldestWakes, UnparkAlerts
-----------------------------------------------------------------------------
(***************************************************************************)
(* The flags, the slots, and the types of what sleep_if_idle uses.         *)
(***************************************************************************)
LEMMA SleepTypesStep ==
  ASSUME Registered, Loops, [Next]_vars
  PROVE  SleepTypes'
  <1>0. Placed /\ SleepTypes
    BY DEF Registered
  <1> USE <1>0
  <1>1. ASSUME NEW t \in Threads, WakeNobody(t) \/ Unpark(t) PROVE SleepTypes'
    BY <1>1, WakeNobodyFoot, UnparkFoot DEF SleepTypes, sleep
  <1>2. ASSUME NEW t \in Threads, WakeOne(t) PROVE SleepTypes'
    <2>1. sleepers # <<>> /\ sleepers' = Tail(sleepers) /\ UNCHANGED token
      BY <1>2, WakeOneFoot
    <2> QED
      BY <2>1, TailKeeps DEF SleepTypes
  <1>3. ASSUME NEW t \in Finders, Search(t) \/ Submit(t) PROVE SleepTypes'
    BY <1>3, SearchFoot, SubmitFoot DEF SleepTypes, sleep
  <1>4. ASSUME NEW t \in Finders, WakeAssigned(t) PROVE SleepTypes'
    <2> DEFINE told == {w \in Range(sleepers) : inbox[w] # <<>>}
               I == {i \in DOMAIN sleepers : sleepers[i] \notin told}
    <2>1. I \in SUBSET DOMAIN sleepers /\ sleepers' = Pick(sleepers, I)
      BY <1>4 DEF WakeAssigned
    <2>2. sleepers' \in Seq(Workers)
      BY <2>1, Removed
    <2>3. token' \in [Workers -> BOOLEAN]
      BY <1>4 DEF WakeAssigned
    <2> QED
      BY <2>2, <2>3 DEF SleepTypes
  <1>5. ASSUME NEW w \in Workers, Doze(w) \/ Unparked(w) PROVE SleepTypes'
    BY <1>5, DozeFoot, UnparkedFoot DEF SleepTypes
  <1>6. ASSUME NEW w \in Workers, Register(w) PROVE SleepTypes'
    <2>1. sleepers' = Append(sleepers, w) /\ UNCHANGED token
      BY <1>6, RegisterFoot
    <2> QED
      BY <2>1, AppendKeeps DEF SleepTypes
  <1>7. ASSUME NEW w \in Workers, Unregister(w) PROVE SleepTypes'
    <2> DEFINE I == {i \in DOMAIN sleepers : sleepers[i] # w}
    <2>1. I \in SUBSET DOMAIN sleepers /\ sleepers' = Pick(sleepers, I) /\ UNCHANGED token
      BY <1>7 DEF Unregister
    <2>2. sleepers' \in Seq(Workers)
      BY <2>1, Removed
    <2> QED
      BY <2>1, <2>2 DEF SleepTypes
  <1>8. ASSUME NEW x \in Pushed, Push(x) PROVE SleepTypes'
    BY <1>8, PushFoot DEF SleepTypes, sleep
  <1>9. ASSUME NEW t \in {Host, Helper}, Enter(t) PROVE SleepTypes'
    BY <1>9, EnterFoot DEF SleepTypes, sleep
  <1>10. CASE StartWorker \/ HostLife
    BY <1>10 DEF StartWorker, HostLife, WriteSlot, StartFails, WriteHostSlot, InitCompleted, Stop,
                 StopUnpark, Join, Dropped, vars, sleep, SleepTypes
  <1>11. CASE UNCHANGED vars
    BY <1>11 DEF vars, sleep, SleepTypes
  <1> QED
    BY <1>1, <1>2, <1>3, <1>4, <1>5, <1>6, <1>7, <1>8, <1>9, <1>10, <1>11, Kinds

\* Flags stay flags, and slots belong to members.
LEMMA FlagTypesStep ==
  ASSUME FlagTypes, PlaceTypes, Construction, [Next]_vars
  PROVE  FlagTypes'
  <1>0. Placed
    BY DEF PlaceTypes
  <1>1. CASE UNCHANGED life
    BY <1>1 DEF life, FlagTypes
  <1>2. CASE HostLife
    <2>1. CASE WriteSlot
      BY <2>1, Who DEF WriteSlot, Construction, FlagTypes
    <2>2. CASE StartFails \/ WriteHostSlot \/ InitCompleted
      BY <2>2, Who DEF StartFails, WriteHostSlot, InitCompleted, FlagTypes
    <2>3. CASE Stop \/ StopUnpark
      BY <2>3 DEF Stop, StopUnpark, FlagTypes, life
    <2>4. CASE Join
      BY <2>4 DEF Join, FlagTypes
    <2>5. CASE Dropped
      BY <2>5 DEF Dropped, vars, life, FlagTypes
    <2> QED
      BY <1>2, <2>1, <2>2, <2>3, <2>4, <2>5 DEF HostLife
  <1>3. ASSUME NEW t \in Threads, WakeNobody(t) \/ WakeOne(t) \/ Unpark(t) PROVE UNCHANGED life
    BY <1>3 DEF WakeNobody, WakeOne, Unpark
  <1>4. ASSUME NEW t \in Finders, Search(t) \/ Submit(t) \/ WakeAssigned(t) PROVE UNCHANGED life
    BY <1>0, <1>4, SearchFoot, SubmitFoot, AssignedFoot
  <1>5. ASSUME NEW w \in Workers, Doze(w) \/ Register(w) \/ Unregister(w) \/ Unparked(w) PROVE UNCHANGED life
    BY <1>0, <1>5, DozeFoot, RegisterFoot, UnregisterFoot, UnparkedFoot
  <1>6. ASSUME NEW x \in Pushed, Push(x) PROVE UNCHANGED life
    BY <1>6 DEF Push
  <1>7. ASSUME NEW t \in {Host, Helper}, Enter(t) PROVE UNCHANGED life
    BY <1>0, <1>7, EnterFoot
  <1>8. CASE StartWorker
    BY <1>1, <1>8 DEF StartWorker
  <1>9. CASE UNCHANGED vars
    BY <1>1, <1>9 DEF vars
  <1> QED
    BY <1>1, <1>2, <1>3, <1>4, <1>5, <1>6, <1>7, <1>8, <1>9, Kinds
-----------------------------------------------------------------------------
(***************************************************************************)
(* The invariant.                                                          *)
(***************************************************************************)
LEMMA InitIInv == Init => IInv
  <1> SUFFICES ASSUME Init PROVE IInv
    OBVIOUS
  <1>1. N \in Nat \ {0} /\ Capacity \in Nat \ {0} /\ NoThread \notin Int
    BY PoolAssumption
  <1>2. /\ \A w \in Workers : pc[w] = "unborn"
        /\ pc[Host] = "new" /\ pc[Pusher] = "idle" /\ pc[Helper] = "outside"
        /\ \A t \in Threads : at[t] = 0
        /\ DOMAIN pc = Threads /\ DOMAIN at = Threads
    BY Who DEF Init
  <1>3. /\ queue = <<>> /\ sleepers = <<>> /\ lock = NoThread /\ running /\ ~init /\ slots = {}
        /\ fresh = Jobs /\ ran = {} /\ \A w \in Workers : ~token[w]
        /\ \A t \in Finders : /\ deque[t] = <<>> /\ inbox[t] = <<>>
                              /\ flight[t] = <<>> /\ hand[t] = <<>>
    BY DEF Init
  <1>4. Range(<<>>) = {} /\ DOMAIN <<>> = {} /\ Len(<<>>) = 0
    BY DEF Range
  <1>5. \A t \in Threads : pc[t] \in {"unborn", "new", "idle", "outside"}
    BY <1>2, Who
  <1>6. PlaceTypes
    <2>1. \A t \in Threads : pc[t] \in Home(t)
      BY <1>2, Who DEF Home, WorkerPCs, HostPCs
    <2>2. 0 \in -1..(N + 1) /\ 0 \in Members
      BY <1>1 DEF Members
    <2> QED
      BY <1>2, <2>1, <2>2 DEF PlaceTypes, Placed, Init
  <1>7. SleepTypes /\ WorkTypes /\ FlagTypes
    <2>1. <<>> \in Seq(Workers) /\ <<>> \in Seq(Jobs) /\ <<>> \in Seq(Bodies)
      OBVIOUS
    <2> QED
      BY <2>1 DEF SleepTypes, WorkTypes, FlagTypes, Init
  <1>8. LockInv
    BY <1>2, <1>3, Who DEF LockInv
  <1>9. Loops
    BY <1>5, Who DEF Loops
  <1>10. Construction
    <2>1. at[Host] = 0 /\ 0 \in Members /\ 0..(0 - 1) = {} /\ \A w \in Workers : ~(w < 0)
      BY <1>1, <1>2, Who DEF Members, Workers
    <2> QED
      BY <1>2, <1>3, <2>1 DEF Construction
  <1>11. Gate
    BY <1>2, <1>3 DEF Gate
  <1>12. HandsFull
    <2>1. \A t \in Finders : hand[t] = <<>> /\ pc[t] \in {"unborn", "new", "outside"}
      BY <1>2, <1>3, Who
    <2>2. \A t \in {Host, Helper} : t \in Finders
      BY Who
    <2>3. \A w \in Workers : w \in Finders
      BY Who
    <2>4. <<>> \in Seq(Jobs)
      OBVIOUS
    <2> QED
      BY <1>4, <2>1, <2>2, <2>3, <2>4 DEF HandsFull, ScopePCs
  <1>13. DequeEmpty /\ HelperInv
    BY <1>3, <1>4, Who DEF DequeEmpty, HelperInv
  <1>14. OneBatch
    BY <1>5, Who DEF OneBatch
  <1>15. Accounts
    <2>1. FreshInv /\ Routes
      BY <1>3, <1>4 DEF FreshInv, Routes
    <2>2. \A m \in Members : inbox[m] = <<>>
      BY <1>3, Who
    <2>3. \A t \in Finders : pc[t] # "batch"
      BY <1>5, Who
    <2>4. InboxInv
      BY <1>4, <2>2, <2>3 DEF InboxInv
    <2>5. HostInbox
      BY <1>4, <2>2, Who DEF HostInbox
    <2> QED
      BY <2>1, <2>4, <2>5 DEF Accounts
  <1>16. RegistrationsCurrent /\ SleeperReachable
    BY <1>2, <1>3, <1>4 DEF RegistrationsCurrent, SleeperReachable, Asleep
  <1>17. Assigned /\ QueueInv
    BY <1>2, <1>3 DEF Assigned, ScanInv, AssignedWorkerWoken, Asleep, QueueInv
  <1> QED
    BY <1>6, <1>7, <1>8, <1>9, <1>10, <1>11, <1>12, <1>13, <1>14, <1>15, <1>16, <1>17 DEF IInv

\* The invariant is inductive.
LEMMA NextIInv == IInv /\ [Next]_vars => IInv'
  <1> SUFFICES ASSUME IInv, [Next]_vars PROVE IInv'
    OBVIOUS
  <1>1. /\ PlaceTypes /\ SleepTypes /\ WorkTypes /\ FlagTypes /\ LockInv /\ Loops
        /\ Construction /\ Gate /\ HandsFull /\ DequeEmpty /\ HelperInv /\ OneBatch
        /\ Accounts /\ RegistrationsCurrent /\ SleeperReachable /\ Assigned /\ QueueInv
    BY DEF IInv
  <1>2. Placed /\ Registered
    BY <1>1 DEF PlaceTypes, Registered
  <1>3. PlaceTypes' /\ LockInv' /\ Loops' /\ Construction' /\ Gate'
    BY <1>1, <1>2, PlacesStep, LockStep, LoopsStep, LifeStep
  <1>4. SleepTypes' /\ RegistrationsCurrent' /\ SleeperReachable'
    BY <1>1, <1>2, SleepTypesStep, RegisteredStep
  <1>5. FlagTypes' /\ WorkTypes' /\ HandsFull' /\ DequeEmpty'
    BY <1>1, FlagTypesStep, WorkTypesStep, HandsStep, DequeStep
  <1>6. HelperInv' /\ OneBatch' /\ Accounts'
    BY <1>1, HelperStep, OneBatchStep, AccountsStep
  <1>7. Assigned' /\ QueueInv'
    BY <1>1, AssignedStep, QueueStep
  <1> QED
    BY <1>3, <1>4, <1>5, <1>6, <1>7 DEF IInv

\* ThreadPool keeps the inductive invariant, whatever the number of workers, the
\* capacity of a deque and the program of pushes, scopes and batches.
THEOREM Invariance == Spec => []IInv
  BY InitIInv, NextIInv, PTL DEF Spec
-----------------------------------------------------------------------------
\* The invariant types every variable.
LEMMA IInvTypes == IInv => TypeOK
  <1> SUFFICES ASSUME IInv PROVE TypeOK
    OBVIOUS
  <1>1. PlaceTypes /\ SleepTypes /\ WorkTypes /\ FlagTypes /\ LockInv
    BY DEF IInv
  <1>2. /\ \A w \in Workers : pc[w] \in WorkerPCs
        /\ pc[Host] \in HostPCs /\ pc[Pusher] \in {"idle", "wake", "unpark"}
        /\ pc[Helper] \in ScopePCs \cup {"outside"}
        /\ \A t \in Threads : at[t] \in -1..(N + 1)
        /\ start \in [Finders -> Members]
    BY <1>1, Who DEF PlaceTypes, Home
  <1> QED
    BY <1>1, <1>2 DEF TypeOK, SleepTypes, WorkTypes, FlagTypes, LockInv

\* Every thread stays at its own places and inside its loops, and whoever checks
\* for work in sleep_if_idle, and nobody else, holds the lock of sleepers.
THEOREM TypeCorrect == Spec => []TypeOK
  BY Invariance, IInvTypes, PTL

\* Who reads a slot of the pool reads a written one.
LEMMA IInvSlots == IInv => OnlyLiveSlotsRead
  <1> SUFFICES ASSUME IInv, NEW t \in Threads PROVE Reads(t) \subseteq slots
    BY DEF OnlyLiveSlotsRead
  <1>1. PlaceTypes /\ SleepTypes /\ Loops /\ Gate
    BY DEF IInv
  <1>2. t # Pusher \/ pc[t] \in {"idle", "wake", "unpark"}
    BY <1>1, Who DEF PlaceTypes, Home
  <1>3. pc[t] \notin Resting => slots = Members
    BY <1>1, Who DEF Gate, Resting
  <1>4. t # Pusher => t \in Finders
    BY Who
  <1>5. CASE pc[t] = "steal"
    <2>1. Victim(t) \in Members
      BY <1>1, <1>2, <1>4, <1>5, VictimIsMember
    <2> QED
      BY <1>3, <1>5, <2>1 DEF Reads, Resting
  <1>6. CASE pc[t] = "scan"
    BY <1>3, <1>6 DEF Reads, Resting
  <1>7. CASE pc[t] = "unpark"
    BY <1>1, <1>3, <1>7, Who DEF Reads, Resting, Loops
  <1>8. CASE pc[t] = "scope"
    BY <1>2, <1>3, <1>4, <1>8, Who DEF Reads, Resting
  <1>9. CASE pc[t] = "batch"
    <2>1. at[t] \in Members
      BY <1>1, <1>2, <1>4, <1>9 DEF Loops
    <2>2. 0..at[t] \subseteq Members
      BY <2>1, PoolAssumption DEF Members
    <2> QED
      BY <1>3, <1>9, <2>2 DEF Reads, Resting
  <1>10. CASE pc[t] = "batch_wake"
    BY <1>1, <1>3, <1>10, Who DEF Reads, Resting, SleepTypes, Range
  <1>11. CASE pc[t] \notin {"steal", "scan", "unpark", "scope", "batch", "batch_wake"}
    <2>1. Reads(t) = {}
      BY <1>11 DEF Reads
    <2> QED
      BY <2>1
  <1> QED
    BY <1>5, <1>6, <1>7, <1>8, <1>9, <1>10, <1>11

\* FixedBuffer::get_at is never asked for a slot that ThreadPool::new has not
\* written, or that shutdown has dropped, also when new fails half-way.
THEOREM SlotsLive == Spec => []OnlyLiveSlotsRead
  BY Invariance, IInvSlots, PTL

\* A helper that is outside has nothing in its deque.
LEMMA IInvHelper == IInv => HelperLeavesNothing
  BY Who DEF IInv, HelperInv, DequeEmpty, HelperLeavesNothing

\* The private deque of a caller without the host slot is empty whenever its
\* scope has returned.
THEOREM HelperEmpty == Spec => []HelperLeavesNothing
  BY Invariance, IInvHelper, PTL

\* The parts of the invariant about the sleepers.
LEMMA IInvSleepers ==
  IInv => RegistrationsCurrent /\ SleeperReachable /\ AssignedWorkerWoken
  BY DEF IInv, Assigned

\* sleepers holds every worker at most once, and only while it may sleep.
THEOREM RegistrationsOnce == Spec => []RegistrationsCurrent
  BY Invariance, IInvSleepers, PTL

\* No interleaving of wake_one, publish_batch and sleep_if_idle leaves a parked
\* worker without a registration, a token, or somebody about to unpark it.
THEOREM NoLostSleeper == Spec => []SleeperReachable
  BY Invariance, IInvSleepers, PTL

\* No worker sleeps on a filled inbox once its batch is published.
THEOREM AssignedAreWoken == Spec => []AssignedWorkerWoken
  BY Invariance, IInvSleepers, PTL

\* When nobody goes on, the jobs that wait are in the host's deque.
LEMMA IInvQuiet == IInv => OnlyHostLeavesJobs
  <1> SUFFICES ASSUME IInv, Quiet PROVE Waiting \subseteq Range(deque[Host])
    BY DEF OnlyHostLeavesJobs
  <1>1. /\ WorkTypes /\ Gate /\ HandsFull /\ DequeEmpty /\ HelperInv /\ HostInbox
        /\ AssignedWorkerWoken /\ QueueInv
    BY DEF IInv, Accounts, Assigned
  <1>2. /\ \A w \in Workers : Asleep(w) /\ pc[w] = "park"
        /\ pc[Host] = "outside" /\ pc[Helper] = "outside" /\ pc[Pusher] = "idle"
    BY DEF Quiet, Asleep
  <1>3. \A t \in Threads : pc[t] \in {"park", "outside", "idle"}
    BY <1>2, Who
  <1>4. Range(<<>>) = {}
    BY DEF Range
  <1>5. queue = <<>>
    <2>1. running
      BY <1>1, <1>2 DEF Gate
    <2>2. \A w \in Workers : ~Alert(w)
      BY <1>2, <1>3 DEF Alert
    <2> QED
      BY <1>1, <1>3, <2>1, <2>2 DEF QueueInv
  <1>6. \A t \in Finders : flight[t] = <<>>
    BY <1>1, <1>3, Who DEF DequeEmpty
  <1>7. \A t \in Finders \ {Host} : deque[t] = <<>>
    BY <1>1, <1>2, Who DEF DequeEmpty, HelperInv
  <1>8. \A t \in Finders : Range(inbox[t]) = {}
    <2>1. \A w \in Workers : inbox[w] = <<>>
      BY <1>1, <1>2, <1>3, Who DEF AssignedWorkerWoken
    <2>2. inbox[Helper] = <<>>
      BY <1>1 DEF HelperInv
    <2>3. Range(inbox[Host]) = {}
      <3>1. hand[Host] = <<>>
        BY <1>1, <1>2 DEF HandsFull, ScopePCs
      <3>2. DOMAIN hand[Host] = {}
        BY <3>1
      <3> QED
        BY <1>1, <3>2 DEF HostInbox
    <2> QED
      BY <1>4, <2>1, <2>2, <2>3, Who
  <1> SUFFICES ASSUME NEW s \in {queue} \cup Range(deque) \cup Range(inbox) \cup Range(flight)
               PROVE  Range(s) \subseteq Range(deque[Host])
    BY DEF Waiting
  <1>9. CASE s = queue
    BY <1>4, <1>5, <1>9
  <1>10. CASE s \in Range(deque)
    <2>1. PICK t \in Finders : s = deque[t]
      BY <1>1, <1>10 DEF WorkTypes, Range
    <2> QED
      BY <1>4, <1>7, <2>1
  <1>11. CASE s \in Range(inbox)
    <2>1. PICK t \in Finders : s = inbox[t]
      BY <1>1, <1>11 DEF WorkTypes, Range
    <2> QED
      BY <1>8, <2>1
  <1>12. CASE s \in Range(flight)
    <2>1. PICK t \in Finders : s = flight[t]
      BY <1>1, <1>12 DEF WorkTypes, Range
    <2> QED
      BY <1>4, <1>6, <2>1
  <1> QED
    BY <1>9, <1>10, <1>11, <1>12

\* When every worker sleeps and nobody outside uses the pool, no job is left in
\* the shared queue, in an inbox, on its way, or in a worker's deque: no wake-up
\* is lost.
THEOREM NoLostWakeup == Spec => []OnlyHostLeavesJobs
  BY Invariance, IInvQuiet, PTL
=============================================================================
