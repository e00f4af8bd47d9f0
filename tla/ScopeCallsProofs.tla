-------------------------- MODULE ScopeCallsProofs --------------------------
(***************************************************************************)
(* Proofs about nested calls of scope: whatever the pools, the threads and *)
(* the depth, a deque has one owner and identities are given back.         *)
(***************************************************************************)
EXTENDS ScopeCalls, SequenceTheorems, TLAPS

\* Every identity a thread can have: none, a pool's host, a thread's own.
Identity == {None} \cup {HostOf(p) : p \in Pools} \cup {Home[t] : t \in Threads}

Frames == [pool : Pools, role : {"member", "host", "helper"}, previous : Identity,
           at : {"closure", "wait", "leave"}, worker : Identity]

TypeOK ==
  /\ ctx \in [Threads -> Identity]
  /\ owner \in [Pools -> Threads \cup {NoThread}]
  /\ frames \in [Threads -> Seq(Frames)]

\* Who a thread is inside the call of frame f.
Inside(f) == IF f.role = "host" THEN HostOf(f.pool) ELSE f.previous

\* What the frames of one thread say of each other, the innermost last: only the
\* innermost call may be leaving, each call starts with the identity of the one
\* around it, and an identity that is not the thread's own comes from a call
\* further out that still holds the host slot.
StackOK(t, s) ==
  /\ \A i \in 1..Len(s) : i < Len(s) => s[i].at # "leave"
  /\ \A i \in 1..Len(s) :
       s[i].previous = IF i = 1 THEN Home[t] ELSE Inside(s[i - 1])
  /\ \A i \in 1..Len(s) : \/ s[i].previous = Home[t]
                          \/ \E j \in 1..Len(s) : /\ j < i /\ s[j].role = "host"
                                                  /\ s[i].previous = HostOf(s[j].pool)
  /\ \A i \in 1..Len(s) : s[i].role = "member" => s[i].previous.pool = s[i].pool
  /\ \A i \in 1..Len(s) :
       s[i].worker = IF s[i].at = "closure" \/ s[i].role = "helper" THEN None ELSE Inside(s[i])
  /\ \A i, j \in 1..Len(s) :
       s[i].role = "host" /\ s[j].role = "host" /\ s[i].pool = s[j].pool => i = j

\* The identity a thread has after the calls in s.
Who(t, s) ==
  IF Len(s) = 0 THEN Home[t]
  ELSE IF s[Len(s)].at = "leave" THEN s[Len(s)].previous ELSE Inside(s[Len(s)])

\* A host slot is held exactly by the thread that has a host frame for it.
OwnerInv ==
  \A t \in Threads, p \in Pools :
    owner[p] = t <=> \E i \in 1..Len(frames[t]) : frames[t][i].role = "host" /\ frames[t][i].pool = p

IInv ==
  /\ TypeOK
  /\ \A t \in Threads : StackOK(t, frames[t]) /\ ctx[t] = Who(t, frames[t])
  /\ OwnerInv
-----------------------------------------------------------------------------
\* A thread without a pool and the host of a pool are identities.
LEMMA NoneIdentity == None \in Identity /\ \A p \in Pools : HostOf(p) \in Identity
BY DEF None, HostOf, Identity

\* The last frame of a stack and what is left without it.
LEMMA TopFrame ==
  ASSUME TypeOK, NEW t \in Threads, frames[t] # <<>>
  PROVE  /\ Len(frames[t]) \in Nat \ {0}
         /\ Top(t) = frames[t][Len(frames[t])] /\ Top(t) \in Frames
         /\ Front(frames[t]) \in Seq(Frames)
         /\ Len(Front(frames[t])) = Len(frames[t]) - 1
         /\ \A i \in 1..(Len(frames[t]) - 1) : Front(frames[t])[i] = frames[t][i]
<1>1. frames[t] \in Seq(Frames)
  BY DEF TypeOK
<1>2. Len(frames[t]) \in Nat \ {0}
  BY <1>1, EmptySeq
<1> QED
  BY <1>1, <1>2 DEF Top, Last, Front

\* The identity a thread is left with is one.
LEMMA WhoIdentity ==
  ASSUME NEW t \in Threads, NEW s \in Seq(Frames)
  PROVE  Who(t, s) \in Identity /\ \A i \in 1..Len(s) : Inside(s[i]) \in Identity
<1>1. \A f \in Frames : Inside(f) \in Identity /\ f.previous \in Identity
  BY NoneIdentity DEF Frames, Inside
<1>2. \A i \in 1..Len(s) : s[i] \in Frames
  OBVIOUS
<1>3. Len(s) \in Nat /\ (Len(s) # 0 => Len(s) \in 1..Len(s))
  OBVIOUS
<1>4. Home[t] \in Identity
  BY DEF Identity
<1> QED
  BY <1>1, <1>2, <1>3, <1>4 DEF Who

\* What a step of one thread has to show: the rest is the other threads', whose
\* stacks and identities it leaves alone.
StepTo(t, s) ==
  /\ frames' = [frames EXCEPT ![t] = s]
  /\ ctx' = [ctx EXCEPT ![t] = Who(t, s)]
  /\ owner' \in [Pools -> Threads \cup {NoThread}]
  /\ StackOK(t, s)
  /\ \A p \in Pools : owner'[p] = t <=> \E i \in 1..Len(s) : s[i].role = "host" /\ s[i].pool = p
  /\ \A p \in Pools, u \in Threads \ {t} : owner'[p] = u <=> owner[p] = u

\* A step that only pushes or pops frames of one thread keeps the invariant.
LEMMA OneThread ==
  ASSUME IInv, NEW t \in Threads, NEW s \in Seq(Frames), StepTo(t, s)
  PROVE  IInv'
<1> USE DEF StepTo
<1>1. TypeOK'
  BY WhoIdentity DEF IInv, TypeOK
<1>2. \A u \in Threads : frames'[u] = IF u = t THEN s ELSE frames[u]
  BY DEF IInv, TypeOK
<1>3. \A u \in Threads : ctx'[u] = IF u = t THEN Who(t, s) ELSE ctx[u]
  BY DEF IInv, TypeOK
<1>4. \A u \in Threads : StackOK(u, frames'[u]) /\ ctx'[u] = Who(u, frames'[u])
  BY <1>2, <1>3 DEF IInv
<1>5. OwnerInv'
  BY <1>2 DEF IInv, OwnerInv
<1> QED
  BY <1>1, <1>4, <1>5 DEF IInv, StackOK, Who

\* A new call: the stack grows by one frame, which starts with the identity that
\* the thread has; it holds a host slot only if nobody did.
LEMMA Calls ==
  ASSUME IInv, NEW t \in Threads, NEW p \in Pools,
         CallAsMember(t, p) \/ CallAsHost(t, p) \/ CallAsHelper(t, p)
  PROVE  IInv'
<1> DEFINE s == frames[t]
           n == Len(s)
<1>1. PICK role \in {"member", "host", "helper"} :
        /\ frames' = [frames EXCEPT ![t] = Append(s, Frame(t, p, role))]
        /\ role = "member" => ctx[t].pool = p
        /\ role = "host" => /\ owner[p] = NoThread
                            /\ owner' = [owner EXCEPT ![p] = t]
                            /\ ctx' = [ctx EXCEPT ![t] = HostOf(p)]
        /\ role # "host" => UNCHANGED <<ctx, owner>>
  BY DEF CallAsMember, CallAsHost, CallAsHelper, Push, Outsider, IInv, TypeOK
<1> DEFINE f == Frame(t, p, role)
           r == Append(s, f)
<1>2. s \in Seq(Frames) /\ n \in Nat /\ f \in Frames
  <2>1. s \in Seq(Frames) /\ n \in Nat /\ ctx[t] \in Identity
    BY DEF IInv, TypeOK
  <2> QED
    BY <2>1, NoneIdentity DEF Frame, Frames
<1>3. /\ r \in Seq(Frames) /\ Len(r) = n + 1
      /\ \A i \in 1..n : r[i] = s[i]
      /\ r[n + 1] = f
  BY <1>2
<1>4. /\ f.pool = p /\ f.role = role /\ f.at = "closure" /\ f.worker = None
      /\ f.previous = ctx[t]
  BY DEF Frame
<1>5. MayCall(t)
  BY DEF CallAsMember, CallAsHost, CallAsHelper
<1>6. n # 0 => s[n].at # "leave" /\ ctx[t] = Inside(s[n])
  <2> SUFFICES ASSUME n # 0 PROVE s[n].at # "leave" /\ ctx[t] = Inside(s[n])
    OBVIOUS
  <2>1. s # <<>>
    BY <1>2
  <2>2. Top(t) = s[n]
    BY <2>1, TopFrame DEF IInv
  <2> QED
    BY <1>5, <2>1, <2>2 DEF MayCall, IInv, Who
<1>7. n = 0 => ctx[t] = Home[t]
  BY DEF IInv, Who
<1>8. StackOK(t, s) /\ Len(s) = n /\ OwnerInv
  BY DEF IInv
<1>9. owner[p] # t \/ role # "host"
  BY <1>1, CallsAssumption
<1> HIDE DEF s, n, f, r
<1>10. StackOK(t, r)
  <2>1. \A i \in 1..Len(r) : i < Len(r) => r[i].at # "leave"
    BY <1>2, <1>3, <1>6, <1>8 DEF StackOK
  <2>2. \A i \in 1..Len(r) :
          r[i].previous = IF i = 1 THEN Home[t] ELSE Inside(r[i - 1])
    BY <1>2, <1>3, <1>4, <1>6, <1>7, <1>8 DEF StackOK
  <2>3. \A i \in 1..Len(r) : \/ r[i].previous = Home[t]
                             \/ \E j \in 1..Len(r) : /\ j < i /\ r[j].role = "host"
                                                     /\ r[i].previous = HostOf(r[j].pool)
    <3>1. ASSUME NEW i \in 1..n
          PROVE  \/ r[i].previous = Home[t]
                 \/ \E j \in 1..Len(r) : /\ j < i /\ r[j].role = "host"
                                         /\ r[i].previous = HostOf(r[j].pool)
      BY <1>2, <1>3, <1>8 DEF StackOK
    <3>2. \/ f.previous = Home[t]
          \/ \E j \in 1..Len(r) : /\ j < n + 1 /\ r[j].role = "host"
                                  /\ f.previous = HostOf(r[j].pool)
      <4>1. CASE n = 0
        BY <1>4, <1>7, <4>1
      <4>2. CASE n # 0
        <5>1. n \in 1..n /\ n < n + 1 /\ r[n] = s[n] /\ n \in 1..Len(r)
          BY <1>2, <1>3, <4>2
        <5>2. f.previous = Inside(s[n])
          BY <1>4, <1>6, <4>2
        <5>3. CASE s[n].role = "host"
          <6>1. r[n].role = "host" /\ f.previous = HostOf(r[n].pool)
            BY <5>1, <5>2, <5>3 DEF Inside
          <6> QED
            BY <5>1, <6>1
        <5>4. CASE s[n].role # "host"
          <6>1. f.previous = s[n].previous
            BY <5>2, <5>4 DEF Inside
          <6>2. \/ r[n].previous = Home[t]
                \/ \E j \in 1..Len(r) : /\ j < n /\ r[j].role = "host"
                                        /\ r[n].previous = HostOf(r[j].pool)
            BY <3>1, <5>1
          <6> QED
            BY <1>2, <1>3, <5>1, <6>1, <6>2
        <5> QED
          BY <5>3, <5>4
      <4> QED
        BY <4>1, <4>2
    <3> QED
      BY <1>2, <1>3, <3>1, <3>2
  <2>4. \A i \in 1..Len(r) : r[i].role = "member" => r[i].previous.pool = r[i].pool
    BY <1>1, <1>2, <1>3, <1>4, <1>8 DEF StackOK
  <2>5. \A i \in 1..Len(r) :
          r[i].worker = IF r[i].at = "closure" \/ r[i].role = "helper" THEN None
                        ELSE Inside(r[i])
    BY <1>2, <1>3, <1>4, <1>8 DEF StackOK
  <2>6. \A i, j \in 1..Len(r) :
          r[i].role = "host" /\ r[j].role = "host" /\ r[i].pool = r[j].pool => i = j
    <3>1. role = "host" => \A i \in 1..n : ~(s[i].role = "host" /\ s[i].pool = p)
      BY <1>8, <1>9 DEF OwnerInv, s, n
    <3> QED
      BY <1>2, <1>3, <1>4, <1>8, <3>1 DEF StackOK
  <2> QED
    BY <2>1, <2>2, <2>3, <2>4, <2>5, <2>6 DEF StackOK
<1>11. Who(t, r) = IF role = "host" THEN HostOf(p) ELSE ctx[t]
  BY <1>2, <1>3, <1>4 DEF Who, Inside
<1>12. ctx' = [ctx EXCEPT ![t] = Who(t, r)] /\ owner' \in [Pools -> Threads \cup {NoThread}]
  BY <1>1, <1>11 DEF IInv, TypeOK
<1>13. \A q \in Pools : owner'[q] = t <=> \E i \in 1..Len(r) : r[i].role = "host" /\ r[i].pool = q
  <2>1. \A q \in Pools : owner[q] = t <=> \E i \in 1..n : s[i].role = "host" /\ s[i].pool = q
    BY <1>8 DEF OwnerInv, s, n
  <2>2. \A q \in Pools : owner'[q] = IF role = "host" /\ q = p THEN t ELSE owner[q]
    BY <1>1 DEF IInv, TypeOK
  <2>3. ASSUME NEW q \in Pools
        PROVE  (\E i \in 1..Len(r) : r[i].role = "host" /\ r[i].pool = q)
               <=> (role = "host" /\ q = p) \/ \E i \in 1..n : s[i].role = "host" /\ s[i].pool = q
    <3>1. \A i \in 1..Len(r) : i = n + 1 \/ i \in 1..n
      BY <1>2, <1>3
    <3>2. n + 1 \in 1..Len(r) /\ \A i \in 1..n : i \in 1..Len(r)
      BY <1>2, <1>3
    <3>3. r[n + 1].role = role /\ r[n + 1].pool = p /\ \A i \in 1..n : r[i] = s[i]
      BY <1>3, <1>4
    <3> QED
      BY <3>1, <3>2, <3>3, Zenon
  <2> QED
    BY <2>1, <2>2, <2>3
<1>14. \A q \in Pools, u \in Threads \ {t} : owner'[q] = u <=> owner[q] = u
  BY <1>1, CallsAssumption DEF IInv, TypeOK
<1>15. frames' = [frames EXCEPT ![t] = r]
  BY <1>1 DEF r, f, s
<1>16. StepTo(t, r)
  BY <1>10, <1>12, <1>13, <1>14, <1>15 DEF StepTo
<1> QED
  BY <1>3, <1>16, OneThread

\* A step inside the innermost call: only that frame changes, and what it may
\* change of it is where the call is and the worker it was given.
LEMMA Within ==
  ASSUME IInv, NEW t \in Threads, frames[t] # <<>>, NEW f \in Frames,
         Top(t).at # "leave",
         f.pool = Top(t).pool, f.role = Top(t).role, f.previous = Top(t).previous,
         f.worker = IF f.at = "closure" \/ f.role = "helper" THEN None ELSE Inside(Top(t)),
         SetTop(t, f),
         ctx' = [ctx EXCEPT ![t] = IF f.at = "leave" THEN f.previous ELSE Inside(f)],
         UNCHANGED owner
  PROVE  IInv'
<1> DEFINE s == frames[t]
           n == Len(s)
           r == Append(Front(s), f)
<1>1. /\ s \in Seq(Frames) /\ n \in Nat \ {0} /\ Top(t) = s[n] /\ s[n] \in Frames
      /\ Front(s) \in Seq(Frames) /\ Len(Front(s)) = n - 1
      /\ \A i \in 1..(n - 1) : Front(s)[i] = s[i]
  BY TopFrame DEF IInv, TypeOK
<1>2. /\ r \in Seq(Frames) /\ Len(r) = n /\ r[n] = f
      /\ \A i \in 1..(n - 1) : r[i] = s[i]
  BY <1>1
<1>3. StackOK(t, s) /\ Len(s) = n /\ OwnerInv
  BY DEF IInv
<1>4. frames' = [frames EXCEPT ![t] = r]
  BY DEF SetTop, IInv, TypeOK
<1> HIDE DEF s, n, r
<1>5. /\ \A i \in 1..n : r[i].pool = s[i].pool /\ r[i].role = s[i].role /\ r[i].previous = s[i].previous
      /\ \A i \in 1..n : Inside(r[i]) = Inside(s[i])
      /\ \A i \in 1..n : i # n => r[i] = s[i]
  <2>1. \A i \in 1..n : i # n => r[i] = s[i]
    BY <1>1, <1>2
  <2>2. Inside(f) = Inside(s[n])
    BY <1>1 DEF Inside
  <2> QED
    BY <1>1, <1>2, <2>1, <2>2
<1>6. StackOK(t, r)
  <2>1. \A i \in 1..Len(r) : i < Len(r) => r[i].at # "leave"
    BY <1>1, <1>2, <1>3 DEF StackOK
  <2>2. \A i \in 1..Len(r) :
          r[i].previous = IF i = 1 THEN Home[t] ELSE Inside(r[i - 1])
    <3> SUFFICES ASSUME NEW i \in 1..n
                 PROVE  r[i].previous = IF i = 1 THEN Home[t] ELSE Inside(r[i - 1])
      BY <1>2
    <3>1. i # 1 => i - 1 \in 1..n
      BY <1>1
    <3> QED
      BY <1>3, <1>5, <3>1 DEF StackOK
  <2>3. \A i \in 1..Len(r) : \/ r[i].previous = Home[t]
                             \/ \E j \in 1..Len(r) : /\ j < i /\ r[j].role = "host"
                                                     /\ r[i].previous = HostOf(r[j].pool)
    BY <1>2, <1>3, <1>5 DEF StackOK
  <2>4. \A i \in 1..Len(r) : r[i].role = "member" => r[i].previous.pool = r[i].pool
    BY <1>2, <1>3, <1>5 DEF StackOK
  <2>5. \A i \in 1..Len(r) :
          r[i].worker = IF r[i].at = "closure" \/ r[i].role = "helper" THEN None
                        ELSE Inside(r[i])
    BY <1>1, <1>2, <1>3, <1>5 DEF StackOK
  <2>6. \A i, j \in 1..Len(r) :
          r[i].role = "host" /\ r[j].role = "host" /\ r[i].pool = r[j].pool => i = j
    BY <1>2, <1>3, <1>5 DEF StackOK
  <2> QED
    BY <2>1, <2>2, <2>3, <2>4, <2>5, <2>6 DEF StackOK
<1>7. Who(t, r) = IF f.at = "leave" THEN f.previous ELSE Inside(f)
  BY <1>1, <1>2 DEF Who
<1>8. \A q \in Pools : owner'[q] = t <=> \E i \in 1..Len(r) : r[i].role = "host" /\ r[i].pool = q
  BY <1>2, <1>3, <1>5 DEF OwnerInv, n, s
<1>9. ctx' = [ctx EXCEPT ![t] = Who(t, r)]
  BY <1>7
<1>10. owner' \in [Pools -> Threads \cup {NoThread}]
  BY DEF IInv, TypeOK
<1>11. \A q \in Pools, u \in Threads \ {t} : owner'[q] = u <=> owner[q] = u
  OBVIOUS
<1>12. r \in Seq(Frames)
  BY <1>2
<1>13. StepTo(t, r)
  BY <1>4, <1>6, <1>8, <1>9, <1>10, <1>11 DEF StepTo
<1> QED
  BY <1>12, <1>13, OneThread

\* The closure of a scope returns or unwinds.
LEMMA ClosureEnd ==
  ASSUME IInv, NEW t \in Threads, ClosureEnds(t)
  PROVE  IInv'
<1> DEFINE g == Top(t)
           f == [pool |-> g.pool, role |-> g.role, previous |-> g.previous,
                 at |-> "wait", worker |-> IF g.role = "helper" THEN None
                                           ELSE CurrentWorker(t, g.pool)]
           s == frames[t]
           n == Len(s)
<1>1. /\ g \in Frames /\ n \in Nat \ {0} /\ g = s[n] /\ g.at = "closure"
      /\ frames[t] # <<>>
  BY TopFrame DEF IInv, ClosureEnds
<1>2. ctx[t] = Inside(g)
  BY <1>1 DEF IInv, Who
<1>3. g.role # "helper" => Inside(g).pool = g.pool
  BY <1>1 DEF IInv, StackOK, Inside, HostOf, Frames
<1>4. /\ f.pool = g.pool /\ f.role = g.role /\ f.previous = g.previous /\ f.at = "wait"
      /\ f.worker = IF g.role = "helper" THEN None ELSE Inside(g)
  BY <1>1, <1>2, <1>3 DEF CurrentWorker, Frames
<1>5. g.pool \in Pools /\ g.previous \in Identity
  BY <1>1 DEF Frames
<1>6. Inside(g) \in Identity
  BY <1>5, NoneIdentity DEF Inside
<1>7. f \in Frames
  BY <1>1, <1>4, <1>6, NoneIdentity DEF Frames
<1>8. Inside(f) = Inside(g)
  BY <1>4 DEF Inside
<1>9. ctx' = [ctx EXCEPT ![t] = Inside(f)] /\ SetTop(t, f) /\ UNCHANGED owner
  BY <1>2, <1>8 DEF ClosureEnds, IInv, TypeOK
<1> HIDE DEF f, g
<1>10. f.at # "leave"
  BY <1>4
<1> QED
  BY <1>1, <1>4, <1>7, <1>9, <1>10, Within DEF g

\* The guard of the thread context writes back what it found.
LEMMA ContextRestored ==
  ASSUME IInv, NEW t \in Threads, RestoreContext(t)
  PROVE  IInv'
<1> DEFINE g == Top(t)
           f == [g EXCEPT !.at = "leave"]
           s == frames[t]
           n == Len(s)
<1>1. /\ g \in Frames /\ n \in Nat \ {0} /\ g = s[n] /\ g.at = "wait"
      /\ frames[t] # <<>>
  BY TopFrame DEF IInv, RestoreContext
<1>2. /\ f \in Frames /\ f.at = "leave"
      /\ f.pool = g.pool /\ f.role = g.role /\ f.previous = g.previous /\ f.worker = g.worker
  BY <1>1 DEF Frames
<1>3. g.worker = IF g.role = "helper" THEN None ELSE Inside(g)
  BY <1>1 DEF IInv, StackOK
<1>4. ctx[t] = Inside(g)
  BY <1>1 DEF IInv, Who
<1>5. g.role # "host" => ctx[t] = g.previous
  BY <1>4 DEF Inside
<1>6. ctx' = [ctx EXCEPT ![t] = f.previous] /\ SetTop(t, f) /\ UNCHANGED owner
  BY <1>2, <1>5 DEF RestoreContext, IInv, TypeOK
<1> HIDE DEF f, g
<1> QED
  BY <1>1, <1>2, <1>3, <1>6, Within DEF g

\* The innermost call is over: its frame goes, and its host slot if it held one.
LEMMA Left ==
  ASSUME IInv, NEW t \in Threads, Leave(t)
  PROVE  IInv'
<1> DEFINE s == frames[t]
           n == Len(s)
           r == Front(s)
           g == s[n]
<1>1. /\ n \in Nat \ {0} /\ Top(t) = g /\ g \in Frames
      /\ r \in Seq(Frames) /\ Len(r) = n - 1
      /\ \A i \in 1..(n - 1) : r[i] = s[i]
  BY TopFrame DEF IInv, Leave
<1>2. StackOK(t, s) /\ Len(s) = n /\ OwnerInv /\ s[n] = g /\ g.at = "leave"
  BY <1>1 DEF IInv, Leave
<1>3. /\ frames' = [frames EXCEPT ![t] = r]
      /\ owner' = IF g.role = "host" THEN [owner EXCEPT ![g.pool] = NoThread] ELSE owner
      /\ UNCHANGED ctx
  BY <1>1 DEF Leave, IInv, TypeOK
<1>4. ctx[t] = g.previous
  BY <1>1, <1>2 DEF IInv, Who
<1>5. \A q \in Pools : owner[q] = t <=> \E i \in 1..n : s[i].role = "host" /\ s[i].pool = q
  BY <1>2 DEF OwnerInv
<1>6. g.pool \in Pools
  BY <1>1 DEF Frames
<1> HIDE DEF s, n, r, g
<1>7. StackOK(t, r)
  <2>1. \A i \in 1..Len(r) : i \in 1..n /\ r[i] = s[i]
    BY <1>1
  <2>2. \A i \in 1..Len(r) : i < Len(r) => r[i].at # "leave"
    BY <1>1, <1>2 DEF StackOK
  <2>3. \A i \in 1..Len(r) :
          r[i].previous = IF i = 1 THEN Home[t] ELSE Inside(r[i - 1])
    <3> SUFFICES ASSUME NEW i \in 1..Len(r)
                 PROVE  r[i].previous = IF i = 1 THEN Home[t] ELSE Inside(r[i - 1])
      OBVIOUS
    <3>1. i # 1 => i - 1 \in 1..Len(r)
      BY <1>1
    <3> QED
      BY <1>2, <2>1, <3>1 DEF StackOK
  <2>4. \A i \in 1..Len(r) : \/ r[i].previous = Home[t]
                             \/ \E j \in 1..Len(r) : /\ j < i /\ r[j].role = "host"
                                                     /\ r[i].previous = HostOf(r[j].pool)
    <3> SUFFICES ASSUME NEW i \in 1..Len(r), r[i].previous # Home[t]
                 PROVE  \E j \in 1..Len(r) : /\ j < i /\ r[j].role = "host"
                                             /\ r[i].previous = HostOf(r[j].pool)
      OBVIOUS
    <3>1. PICK j \in 1..n : j < i /\ s[j].role = "host" /\ s[i].previous = HostOf(s[j].pool)
      BY <1>2, <2>1 DEF StackOK
    <3>2. j \in 1..Len(r)
      BY <1>1, <3>1
    <3> QED
      BY <2>1, <3>1, <3>2
  <2>5. \A i \in 1..Len(r) : r[i].role = "member" => r[i].previous.pool = r[i].pool
    BY <1>2, <2>1 DEF StackOK
  <2>6. \A i \in 1..Len(r) :
          r[i].worker = IF r[i].at = "closure" \/ r[i].role = "helper" THEN None
                        ELSE Inside(r[i])
    BY <1>2, <2>1 DEF StackOK
  <2>7. \A i, j \in 1..Len(r) :
          r[i].role = "host" /\ r[j].role = "host" /\ r[i].pool = r[j].pool => i = j
    BY <1>2, <2>1 DEF StackOK
  <2> QED
    BY <2>2, <2>3, <2>4, <2>5, <2>6, <2>7 DEF StackOK
<1>8. Who(t, r) = ctx[t]
  <2>1. CASE n = 1
    BY <1>1, <1>2, <1>4, <2>1 DEF Who, StackOK
  <2>2. CASE n # 1
    <3>1. n - 1 \in 1..n /\ n - 1 < n /\ n \in 1..n /\ r[n - 1] = s[n - 1]
      BY <1>1, <2>2
    <3>2. s[n - 1].at # "leave" /\ s[n].previous = Inside(s[n - 1])
      BY <1>2, <2>2, <3>1 DEF StackOK
    <3> QED
      BY <1>1, <1>2, <1>4, <3>1, <3>2 DEF Who
  <2> QED
    BY <2>1, <2>2
<1>9. \A q \in Pools : owner'[q] = IF g.role = "host" /\ q = g.pool THEN NoThread ELSE owner[q]
  BY <1>3, <1>6 DEF IInv, TypeOK
<1>10. \A q \in Pools : owner'[q] = t <=> \E i \in 1..Len(r) : r[i].role = "host" /\ r[i].pool = q
  <2> SUFFICES ASSUME NEW q \in Pools
               PROVE  owner'[q] = t <=> \E i \in 1..Len(r) : r[i].role = "host" /\ r[i].pool = q
    OBVIOUS
  <2>1. \A i \in 1..n : i = n \/ (i \in 1..Len(r) /\ r[i] = s[i])
    BY <1>1
  <2>2. \A i \in 1..Len(r) : i \in 1..n /\ r[i] = s[i] /\ i # n
    BY <1>1
  <2>3. CASE g.role = "host" /\ q = g.pool
    <3>1. owner'[q] # t
      BY <1>9, <2>3, CallsAssumption
    <3>2. n \in 1..n
      BY <1>1
    <3>3. ~ \E i \in 1..Len(r) : r[i].role = "host" /\ r[i].pool = q
      BY <1>2, <2>2, <2>3, <3>2 DEF StackOK
    <3> QED
      BY <3>1, <3>3
  <2>4. CASE ~(g.role = "host" /\ q = g.pool)
    BY <1>2, <1>5, <1>9, <2>1, <2>2, <2>4
  <2> QED
    BY <2>3, <2>4
<1>11. \A q \in Pools, u \in Threads \ {t} : owner'[q] = u <=> owner[q] = u
  <2>1. g.role = "host" => owner[g.pool] = t
    <3>1. n \in 1..n
      BY <1>1
    <3> QED
      BY <1>2, <1>5, <1>6, <3>1
  <2> QED
    BY <1>9, <2>1, CallsAssumption
<1>12. ctx' = [ctx EXCEPT ![t] = Who(t, r)] /\ owner' \in [Pools -> Threads \cup {NoThread}]
  BY <1>3, <1>8 DEF IInv, TypeOK
<1>13. r \in Seq(Frames) /\ frames' = [frames EXCEPT ![t] = r]
  BY <1>1, <1>3
<1>14. StepTo(t, r)
  BY <1>7, <1>10, <1>11, <1>12, <1>13 DEF StepTo
<1> QED
  BY <1>13, <1>14, OneThread

\* The invariant holds before the first call.
LEMMA InitInv == Init => IInv
<1> SUFFICES ASSUME Init PROVE IInv
  OBVIOUS
<1>1. TypeOK
  <2>1. Home \in [Threads -> Identity]
    BY CallsAssumption DEF Identity
  <2>2. <<>> \in Seq(Frames)
    OBVIOUS
  <2> QED
    BY <2>1, <2>2 DEF Init, TypeOK
<1>2. \A t \in Threads : frames[t] = <<>> /\ Len(frames[t]) = 0 /\ ctx[t] = Home[t]
  BY DEF Init
<1>3. \A t \in Threads : StackOK(t, frames[t]) /\ ctx[t] = Who(t, frames[t])
  BY <1>2 DEF StackOK, Who
<1>4. OwnerInv
  BY <1>2, CallsAssumption DEF Init, OwnerInv
<1> QED
  BY <1>1, <1>3, <1>4 DEF IInv

\* The inductive invariant of nested calls, for every set of pools and threads
\* and every depth.
THEOREM Invariance == Spec => []IInv
<1>1. Init => IInv
  BY InitInv
<1>2. IInv /\ [Next]_vars => IInv'
  <2> SUFFICES ASSUME IInv, [Next]_vars PROVE IInv'
    OBVIOUS
  <2>1. CASE UNCHANGED vars
    BY <2>1 DEF vars, IInv, TypeOK, StackOK, Who, OwnerInv
  <2>2. CASE Next
    <3>1. PICK t \in Threads :
            \/ \E p \in Pools : CallAsMember(t, p) \/ CallAsHost(t, p) \/ CallAsHelper(t, p)
            \/ ClosureEnds(t) \/ RestoreContext(t) \/ Leave(t)
      BY <2>2 DEF Next
    <3> QED
      BY <3>1, Calls, ClosureEnd, ContextRestored, Left
  <2> QED
    BY <2>1, <2>2
<1> QED
  BY <1>1, <1>2, PTL DEF Spec
-----------------------------------------------------------------------------
\* The identities a thread works under are its own and those of the host slots
\* that it holds.
LEMMA UsesOwn ==
  ASSUME IInv, NEW t \in Threads
  PROVE  \A x \in Uses(t) : x = Home[t] \/ \E p \in Pools : owner[p] = t /\ x = HostOf(p)
<1> DEFINE s == frames[t]
           n == Len(s)
           Own(x) == x = Home[t] \/ \E p \in Pools : owner[p] = t /\ x = HostOf(p)
<1>1. s \in Seq(Frames) /\ n \in Nat /\ StackOK(t, s) /\ ctx[t] = Who(t, s)
  BY DEF IInv, TypeOK
<1>2. \A i \in 1..n : s[i] \in Frames /\ s[i].pool \in Pools
  <2>1. \A i \in 1..n : s[i] \in Frames
    BY <1>1
  <2> QED
    BY <2>1 DEF Frames
<1>3. \A i \in 1..n : s[i].role = "host" => owner[s[i].pool] = t
  BY <1>2 DEF IInv, OwnerInv
<1>4. \A i \in 1..n : Own(s[i].previous)
  BY <1>1, <1>2, <1>3 DEF StackOK
<1>5. \A i \in 1..n : Own(Inside(s[i]))
  BY <1>2, <1>3, <1>4 DEF Inside
<1>6. \A i \in 1..n : s[i].worker = None \/ Own(s[i].worker)
  BY <1>1, <1>5 DEF StackOK
<1>7. Own(ctx[t])
  <2>1. n = 0 \/ n \in 1..n
    BY <1>1
  <2> QED
    BY <1>1, <1>4, <1>5, <2>1 DEF Who
<1>8. \A f \in Range(s) : \E i \in 1..n : f = s[i]
  BY <1>1 DEF Range
<1> HIDE DEF s, n, Own
<1>9. \A x \in Uses(t) : Own(x)
  BY <1>4, <1>6, <1>7, <1>8 DEF Uses, s
<1> QED
  BY <1>9 DEF Own

\* No two threads use the same deque as its owner, however the calls of scope
\* nest and whichever threads hold the host slots (WorkerQueue::push and pop are
\* not synchronised between owners).
THEOREM DequeHasOneOwner == Spec => []OneOwnerPerDeque
<1>1. IInv => OneOwnerPerDeque
  <2> SUFFICES ASSUME IInv, NEW t \in Threads, NEW u \in Threads, t # u,
                      NEW x, x \in Uses(t), x \in Uses(u)
               PROVE  FALSE
    BY DEF OneOwnerPerDeque
  <2>1. x # None
    BY DEF Uses
  <2>2. x = Home[t] \/ \E p \in Pools : owner[p] = t /\ x = HostOf(p)
    BY UsesOwn
  <2>3. x = Home[u] \/ \E p \in Pools : owner[p] = u /\ x = HostOf(p)
    BY UsesOwn
  <2>4. \A v \in Threads, p \in Pools : Home[v] # HostOf(p) \/ Home[v] = None
    BY CallsAssumption DEF HostOf
  <2>5. \A p, q \in Pools : HostOf(p) = HostOf(q) => p = q
    BY DEF HostOf
  <2> QED
    BY <2>1, <2>2, <2>3, <2>4, <2>5, CallsAssumption
<1> QED
  BY <1>1, Invariance, PTL

\* Every call that waits as a member or as the host has a worker of its pool to
\* wait with: the expect in ThreadPool::scope never fails.
THEOREM WaitingScopeHasWorker == Spec => []ScopeHasWorker
<1>1. IInv => ScopeHasWorker
  <2> SUFFICES ASSUME IInv, NEW t \in Threads, NEW f \in Range(frames[t]),
                      f.at = "wait", f.role # "helper"
               PROVE  f.worker.pool = f.pool
    BY DEF ScopeHasWorker
  <2>1. frames[t] \in Seq(Frames) /\ StackOK(t, frames[t])
    BY DEF IInv, TypeOK
  <2>2. PICK i \in 1..Len(frames[t]) : f = frames[t][i]
    BY <2>1 DEF Range
  <2>3. f \in Frames
    BY <2>1, <2>2
  <2>4. f.worker = Inside(f) /\ (f.role = "member" => f.previous.pool = f.pool)
    BY <2>1, <2>2 DEF StackOK
  <2> QED
    BY <2>3, <2>4 DEF Inside, HostOf, Frames
<1> QED
  BY <1>1, Invariance, PTL

\* A thread that is back from all its calls has its own identity again, and a
\* host slot is held only by a thread inside a call that took it.
THEOREM IdentityComesBack == Spec => []IdentityReturned
<1>1. IInv => IdentityReturned
  <2> SUFFICES ASSUME IInv, NEW t \in Threads
               PROVE  /\ frames[t] = <<>> => ctx[t] = Home[t]
                      /\ \A p \in Pools : owner[p] = t =>
                           \E f \in Range(frames[t]) : f.pool = p /\ f.role = "host"
    BY DEF IdentityReturned
  <2>1. frames[t] \in Seq(Frames)
    BY DEF IInv, TypeOK
  <2>2. frames[t] = <<>> => ctx[t] = Home[t]
    BY DEF IInv, Who
  <2>3. \A i \in 1..Len(frames[t]) : frames[t][i] \in Range(frames[t])
    BY <2>1 DEF Range
  <2> QED
    BY <2>2, <2>3 DEF IInv, OwnerInv
<1> QED
  BY <1>1, Invariance, PTL
=============================================================================
