--------------------------- MODULE SpmcRingProofs ---------------------------
(***************************************************************************)
(* Proofs about the single-producer ring, for every capacity, every number *)
(* of consumers and every starting point of the cursors.                   *)
(*                                                                         *)
(* The argument counts positions: the n-th value ever pushed is at         *)
(* position n - 1, and a cursor stands for the position it is at, counted  *)
(* from Start.  As long as fewer than Wrap values are pushed, a cursor     *)
(* tells its position, so that a compare-and-swap that finds the cursors   *)
(* it read before finds the ring where it was: MaxPush < Wrap is the       *)
(* hypothesis of every theorem, and what the code relies on when it        *)
(* compares two u32 halves (a consumer would have to sleep through 2^32    *)
(* pushes to meet the same head again).                                    *)
(***************************************************************************)
EXTENDS SpmcRing, CursorsProofs, SequenceTheorems

Pos(c) == WrappingSub(c, Start)            \* the position a cursor is at
At(a) == Slot(WrappingAdd(Start, a))       \* the slot of a position

Read == Pos(stolen)
Claimed == Pos(blocked)
Shown == Pos(tail)

\* The claim of consumer c: positions From(c) up to Until(c), read up to NextRead(c).
From(c) == Pos(consumer[c].blocked)
Until(c) == From(c) + consumer[c].amount
NextRead(c) == From(c) + Len(consumer[c].got)
Taking(c) == consumer[c].pc = "take"

Rec == [pc : {"idle", "tail", "cas", "take"}, stolen : Cursor, blocked : Cursor,
        amount : 0..Capacity, got : Seq(Nat)]

Types ==
  /\ tail \in Cursor /\ stolen \in Cursor /\ blocked \in Cursor
  /\ buffer \in [SlotIndex -> 0..MaxPush]
  /\ sent \in 0..MaxPush /\ out \subseteq 1..MaxPush
  /\ producer \in [pc : {"idle", "write", "dropped"},
                   amount : 0..Capacity, written : 0..Capacity]
  /\ consumer \in [Consumers -> Rec]

\* The cursors are in order and the values in the ring fit it.
CursorInv ==
  /\ Shown = sent - producer.amount
  /\ Read <= Claimed /\ Claimed <= Shown
  /\ sent <= Read + Capacity
  /\ producer.written <= producer.amount
  /\ producer.pc = "write" <=> producer.amount >= 1

\* What consumer c knows: cursors it has read are not ahead of the ring, and
\* what it claimed has not been given free.
ConsumerInv(c) ==
  LET k == consumer[c] IN
  /\ k.pc # "idle" => k.amount >= 1 /\ producer.pc # "dropped"
  /\ k.pc \in {"tail", "cas"} => Pos(k.stolen) <= Read /\ From(c) <= Claimed /\ k.got = <<>>
  /\ k.pc = "cas" => Until(c) <= Shown
  /\ k.pc = "take" => /\ Read <= From(c) /\ Until(c) <= Claimed
                      /\ Len(k.got) <= k.amount
                      /\ \A i \in 1..Len(k.got) : k.got[i] = From(c) + i
  /\ Len(k.got) <= k.amount

\* Claims do not overlap.
Disjoint ==
  \A c, d \in Consumers : c # d /\ Taking(c) /\ Taking(d) =>
    Until(c) <= From(d) \/ Until(d) <= From(c)

\* The positions whose values are in the ring: those shown and not claimed, the
\* written part of a push, and what is left of the claims.
Held(a) ==
  \/ Claimed <= a /\ a < Shown + producer.written
  \/ \E c \in Consumers : Taking(c) /\ NextRead(c) <= a /\ a < Until(c)

Content ==
  producer.pc # "dropped" =>
    /\ \A a \in 0..(MaxPush - 1) : Held(a) => buffer[At(a)] = a + 1
    /\ \A i \in SlotIndex : buffer[i] # Empty => \E a \in 0..(MaxPush - 1) : Held(a) /\ i = At(a)

IInv == Types /\ CursorInv /\ (\A c \in Consumers : ConsumerInv(c)) /\ Disjoint /\ Content
-----------------------------------------------------------------------------
\* Positions instead of cursors.

\* A position is a natural number, the one of Start is zero, and no two cursors
\* have the same.
LEMMA PosFacts ==
  /\ \A c \in Cursor : Pos(c) \in Nat /\ Pos(c) < Wrap
  /\ Pos(Start) = 0
  /\ \A c, d \in Cursor : Pos(c) = Pos(d) => c = d
<1>1. Start \in Cursor
  BY SpmcAssumption
<1>2. \A c \in Cursor : Pos(c) = IF c >= Start THEN c - Start ELSE c - Start + Wrap
  BY <1>1, SubIf DEF Pos
<1> QED
  BY <1>1, <1>2, CursorFacts DEF Cursor

\* Adding to a cursor adds to its position.
LEMMA PosAdd ==
  ASSUME NEW c \in Cursor, NEW n \in Nat, Pos(c) + n < Wrap
  PROVE  /\ WrappingAdd(c, n) \in Cursor
         /\ Pos(WrappingAdd(c, n)) = Pos(c) + n
         /\ Slot(WrappingAdd(c, n)) = At(Pos(c) + n)
<1> DEFINE d == WrappingAdd(c, n)
<1>1. Start \in Cursor /\ Pos(c) \in Nat /\ n \in 0..Wrap /\ Pos(c) + n \in 0..Wrap
  BY SpmcAssumption, PosFacts, CursorFacts
<1>2. Pos(c) = IF c >= Start THEN c - Start ELSE c - Start + Wrap
  BY <1>1, SubIf DEF Pos
<1>3. d = IF c + n < Wrap THEN c + n ELSE c + n - Wrap
  BY <1>1, AddIf
<1>4. WrappingAdd(Start, Pos(c) + n) = IF Start + (Pos(c) + n) < Wrap THEN Start + (Pos(c) + n)
                                       ELSE Start + (Pos(c) + n) - Wrap
  BY <1>1, AddIf
<1> HIDE DEF d
<1>5. d \in Cursor
  BY <1>1, <1>2, <1>3, CursorFacts DEF Cursor
<1>6. Pos(d) = IF d >= Start THEN d - Start ELSE d - Start + Wrap
  BY <1>1, <1>5, SubIf DEF Pos
<1>7. Pos(d) = Pos(c) + n /\ d = WrappingAdd(Start, Pos(c) + n)
  BY <1>1, <1>2, <1>3, <1>4, <1>5, <1>6, CursorFacts DEF Cursor
<1> QED
  BY <1>5, <1>7 DEF d, At

\* filled_slots is the difference of two positions.
LEMMA PosSub ==
  ASSUME NEW c \in Cursor, NEW d \in Cursor, Pos(d) <= Pos(c)
  PROVE  filled_slots(c, d) = Pos(c) - Pos(d)
<1>1. Start \in Cursor
  BY SpmcAssumption
<1>2. /\ Pos(c) = IF c >= Start THEN c - Start ELSE c - Start + Wrap
      /\ Pos(d) = IF d >= Start THEN d - Start ELSE d - Start + Wrap
      /\ WrappingSub(c, d) = IF c >= d THEN c - d ELSE c - d + Wrap
  BY <1>1, SubIf DEF Pos
<1> QED
  BY <1>1, <1>2, CursorFacts DEF Cursor, filled_slots

\* empty_slots is what the positions from `stolen` to the tail leave of the ring.
LEMMA PosEmpty ==
  ASSUME NEW c \in Cursor, NEW d \in Cursor, Pos(d) <= Pos(c), Pos(c) - Pos(d) <= Capacity
  PROVE  empty_slots(c, d) = Capacity - (Pos(c) - Pos(d))
<1>1. WrappingSub(d, d) = 0 /\ WrappingSub(c, d) = Pos(c) - Pos(d)
  BY PosSub, SubZero DEF filled_slots
<1>2. WrappingSub(d, d) + WrappingSub(c, d) <= Capacity
  BY <1>1, PosFacts, CursorFacts
<1>3. empty_slots(c, d) = Capacity - WrappingSub(d, d) - WrappingSub(c, d)
  BY <1>2, EmptySlots
<1> QED
  BY <1>1, <1>3, PosFacts, CursorFacts

\* Positions less than one ring apart have different slots.
LEMMA AtApart ==
  ASSUME NEW a \in Nat, NEW b \in Nat, a < Wrap, b < Wrap,
         a < b + Capacity, b < a + Capacity, At(a) = At(b)
  PROVE  a = b
<1>1. ASSUME NEW x \in Nat, NEW y \in Nat, x <= y, y < Wrap, y < x + Capacity, At(x) = At(y)
      PROVE  x = y
  <2> DEFINE s == WrappingAdd(Start, x)
             j == y - x
  <2>1. Start \in Cursor /\ Pos(Start) = 0
    BY SpmcAssumption, PosFacts
  <2>2. s \in Cursor /\ Pos(s) = x
    BY <1>1, <2>1, PosAdd, CursorFacts
  <2>3. j \in Nat /\ j \in 0..(Capacity - 1) /\ 0 \in 0..(Capacity - 1) /\ x + j = y /\ x + 0 = x
    BY <1>1, CursorFacts
  <2> HIDE DEF s, j
  <2>4. Slot(WrappingAdd(s, j)) = At(y) /\ Slot(WrappingAdd(s, 0)) = At(x)
    <3>1. Pos(s) + j < Wrap /\ Pos(s) + 0 < Wrap /\ Pos(s) + j = y /\ Pos(s) + 0 = x
      BY <1>1, <2>2, <2>3, CursorFacts
    <3>2. Slot(WrappingAdd(s, j)) = At(Pos(s) + j)
      BY <2>2, <2>3, <3>1, PosAdd
    <3>3. Slot(WrappingAdd(s, 0)) = At(Pos(s) + 0)
      BY <2>2, <3>1, PosAdd
    <3> QED
      BY <3>1, <3>2, <3>3
  <2>5. Slot(WrappingAdd(s, j)) = Slot(WrappingAdd(s, 0))
    BY <1>1, <2>4
  <2>6. j = 0
    BY <2>2, <2>3, <2>5, SlotInjective
  <2> QED
    BY <2>3, <2>6, <1>1
<1> QED
  BY <1>1

\* A position lies in some slot.
LEMMA AtSlot ==
  ASSUME NEW a \in Nat
  PROVE  At(a) \in SlotIndex
BY CursorFacts, SpmcAssumption DEF At, Slot, SlotIndex, WrappingAdd, Cursor
-----------------------------------------------------------------------------
\* The numbers the invariant is about, as the provers need them.
LEMMA Numbers ==
  ASSUME IInv
  PROVE  /\ Read \in Nat /\ Claimed \in Nat /\ Shown \in Nat /\ sent \in Nat
         /\ Capacity \in Nat /\ Wrap \in Nat /\ MaxPush \in Nat /\ sent <= MaxPush
         /\ producer.amount \in Nat /\ producer.written \in Nat
         /\ producer.pc \in {"idle", "write", "dropped"}
         /\ \A c \in Consumers : /\ consumer[c] \in Rec
                                 /\ From(c) \in Nat /\ Pos(consumer[c].stolen) \in Nat
                                 /\ consumer[c].amount \in 0..Capacity
                                 /\ consumer[c].amount \in Nat
                                 /\ consumer[c].got \in Seq(Nat) /\ Len(consumer[c].got) \in Nat
                                 /\ consumer[c].blocked \in Cursor /\ consumer[c].stolen \in Cursor
                                 /\ consumer[c].pc \in {"idle", "tail", "cas", "take"}
<1>1. /\ Read \in Nat /\ Claimed \in Nat /\ Shown \in Nat
      /\ sent \in Nat /\ Capacity \in Nat /\ Wrap \in Nat /\ MaxPush \in Nat /\ sent <= MaxPush
  BY PosFacts, CursorFacts, SpmcAssumption DEF IInv, Types, Read, Claimed, Shown
<1>2. /\ producer.amount \in 0..Capacity /\ producer.written \in 0..Capacity
      /\ producer.pc \in {"idle", "write", "dropped"}
  BY DEF IInv, Types
<1>3. ASSUME NEW c \in Consumers
      PROVE  /\ consumer[c] \in Rec
             /\ From(c) \in Nat /\ Pos(consumer[c].stolen) \in Nat
             /\ consumer[c].amount \in 0..Capacity
             /\ consumer[c].amount \in Nat
             /\ consumer[c].got \in Seq(Nat) /\ Len(consumer[c].got) \in Nat
             /\ consumer[c].blocked \in Cursor /\ consumer[c].stolen \in Cursor
             /\ consumer[c].pc \in {"idle", "tail", "cas", "take"}
  <2>1. consumer[c] \in Rec
    BY DEF IInv, Types
  <2>2. /\ consumer[c].amount \in 0..Capacity /\ consumer[c].got \in Seq(Nat)
        /\ consumer[c].blocked \in Cursor /\ consumer[c].stolen \in Cursor
        /\ consumer[c].pc \in {"idle", "tail", "cas", "take"}
    BY <2>1 DEF Rec
  <2>3. \A m \in 0..Capacity : m \in Nat
    BY CursorFacts
  <2>4. Len(consumer[c].got) \in Nat
    BY <2>2, LenProperties
  <2> QED
    BY <2>1, <2>2, <2>3, <2>4, PosFacts DEF From
<1> QED
  BY <1>1, <1>2, <1>3

\* Sums of natural numbers.
LEMMA SumNat == \A x, y \in Nat : x + y \in Nat /\ x <= x + y
OBVIOUS

\* The ends of a claim.
LEMMA ClaimNumbers ==
  ASSUME IInv, NEW c \in Consumers
  PROVE  /\ From(c) \in Nat /\ NextRead(c) \in Nat /\ Until(c) \in Nat
         /\ From(c) <= NextRead(c) /\ From(c) <= Until(c)
         /\ consumer[c].amount \in Nat /\ Len(consumer[c].got) \in Nat
<1>1. From(c) \in Nat /\ consumer[c].amount \in Nat /\ Len(consumer[c].got) \in Nat
  BY Numbers, Zenon
<1> QED
  BY <1>1, SumNat, Zenon DEF NextRead, Until

\* A value in the ring is at a position that `stolen` has not passed and that
\* the producer has written.
LEMMA HeldRange ==
  ASSUME IInv, NEW a \in Int, Held(a)
  PROVE  Read <= a /\ a < Shown + producer.written /\ a < sent /\ a < Read + Capacity
<1>1. Read <= a /\ a < Shown + producer.written
  <2>1. CASE Claimed <= a /\ a < Shown + producer.written
    BY <2>1, Numbers DEF IInv, CursorInv
  <2>2. CASE \E c \in Consumers : Taking(c) /\ NextRead(c) <= a /\ a < Until(c)
    <3>1. PICK c \in Consumers : Taking(c) /\ NextRead(c) <= a /\ a < Until(c)
      BY <2>2
    <3>2. Read <= From(c) /\ Until(c) <= Claimed
      BY <3>1 DEF IInv, ConsumerInv, Taking
    <3>3. Claimed <= Shown
      BY DEF IInv, CursorInv
    <3>4. Read \in Nat /\ Claimed \in Nat /\ Shown \in Nat /\ producer.written \in Nat
      BY Numbers, Zenon
    <3>5. From(c) \in Nat /\ From(c) <= NextRead(c) /\ NextRead(c) \in Nat /\ Until(c) \in Nat
      BY ClaimNumbers
    <3> QED
      BY <3>1, <3>2, <3>3, <3>4, <3>5
  <2> QED
    BY <2>1, <2>2 DEF Held
<1>2. /\ Shown = sent - producer.amount /\ sent <= Read + Capacity
      /\ producer.written <= producer.amount
  BY DEF IInv, CursorInv
<1>3. /\ Read \in Nat /\ Shown \in Nat /\ sent \in Nat /\ Capacity \in Nat
      /\ producer.written \in Nat /\ producer.amount \in Nat
  BY Numbers, Zenon
<1> QED
  BY <1>1, <1>2, <1>3

\* Two positions of one window of the ring have different slots.
LEMMA WindowApart ==
  ASSUME IInv, MaxPush < Wrap,
         NEW a \in 0..(MaxPush - 1), NEW b \in 0..(MaxPush - 1),
         Read <= a, a < Read + Capacity, Read <= b, b < Read + Capacity, At(a) = At(b)
  PROVE  a = b
<1>1. Read \in Nat /\ Capacity \in Nat /\ Wrap \in Nat /\ MaxPush \in Nat
  BY Numbers, Zenon
<1>2. a \in Nat /\ b \in Nat /\ a < Wrap /\ b < Wrap /\ a < b + Capacity /\ b < a + Capacity
  BY <1>1
<1> QED
  BY <1>2, AtApart

\* Another consumer sees the ring only advance.
LEMMA OthersKeep ==
  ASSUME IInv, NEW d \in Consumers, consumer'[d] = consumer[d],
         Read <= Read', Claimed <= Claimed', Shown <= Shown',
         Read' \in Nat, Claimed' \in Nat, Shown' \in Nat,
         producer'.pc = "dropped" => producer.pc = "dropped",
         Taking(d) => Read' <= From(d)
  PROVE  ConsumerInv(d)'
<1>1. From(d)' = From(d) /\ Until(d)' = Until(d) /\ consumer'[d].stolen = consumer[d].stolen
  BY DEF From, Until, Pos
<1>2. /\ Read \in Nat /\ Claimed \in Nat /\ Shown \in Nat
      /\ From(d) \in Nat /\ consumer[d].amount \in Nat /\ Pos(consumer[d].stolen) \in Nat
  BY Numbers, Zenon
<1>3. Until(d) \in Nat
  BY <1>2 DEF Until
<1>4. ConsumerInv(d)
  BY DEF IInv
<1>5. Pos(consumer[d].stolen)' = Pos(consumer[d].stolen)
  BY DEF Pos
<1> QED
  BY <1>1, <1>2, <1>3, <1>4, <1>5 DEF ConsumerInv, Taking

\* Content follows when neither the slots nor the positions in the ring change.
LEMMA SameContent ==
  ASSUME IInv, buffer' = buffer, producer.pc # "dropped",
         \A a \in 0..(MaxPush - 1) : Held(a)' <=> Held(a)
  PROVE  Content'
BY DEF IInv, Content, At

\* A consumer that claims nothing before and after its step.
LEMMA ConsumerLooks ==
  ASSUME IInv, NEW c \in Consumers, NEW k \in Rec, Become(c, k),
         ~Taking(c), k.pc # "take", producer.pc # "dropped",
         UNCHANGED <<tail, stolen, blocked, buffer, sent, out, producer>>,
         k.pc # "idle" => k.amount >= 1 /\ Pos(k.stolen) <= Read /\ Pos(k.blocked) <= Claimed,
         k.pc = "cas" => Pos(k.blocked) + k.amount <= Shown,
         k.got = <<>>
  PROVE  IInv'
<1>1. Types' /\ \A d \in Consumers : consumer'[d] = IF d = c THEN k ELSE consumer[d]
  BY DEF IInv, Types, Become
<1>2. Read' = Read /\ Claimed' = Claimed /\ Shown' = Shown
  BY DEF Read, Claimed, Shown, Pos
<1>3. CursorInv'
  BY <1>2 DEF IInv, CursorInv
<1>4. ASSUME NEW d \in Consumers PROVE ConsumerInv(d)'
  <2>1. CASE d # c
    <3>1. Taking(d) => Read <= From(d)
      BY DEF IInv, ConsumerInv, Taking
    <3>2. Read \in Nat /\ Claimed \in Nat /\ Shown \in Nat
      BY Numbers
    <3> QED
      BY <1>1, <1>2, <2>1, <3>1, <3>2, OthersKeep
  <2>2. CASE d = c
    <3>1. consumer'[d] = k /\ From(d)' = Pos(k.blocked) /\ Until(d)' = Pos(k.blocked) + k.amount
      BY <1>1, <2>2 DEF From, Until, Pos
    <3>2. Len(k.got) = 0 /\ k.amount \in Nat /\ 0 <= k.amount /\ Pos(k.stolen)' = Pos(k.stolen)
      BY DEF Rec, Pos
    <3> QED
      BY <1>2, <3>1, <3>2 DEF ConsumerInv, Pos
  <2> QED
    BY <2>1, <2>2
<1>5. \A d \in Consumers : (Taking(d)' <=> Taking(d)) /\ (Taking(d) => consumer'[d] = consumer[d])
  BY <1>1 DEF Taking
<1>6. \A d \in Consumers : Taking(d) => /\ From(d)' = From(d) /\ Until(d)' = Until(d)
                                        /\ NextRead(d)' = NextRead(d)
  BY <1>5 DEF From, Until, NextRead, Pos
<1>7. Disjoint'
  BY <1>5, <1>6 DEF IInv, Disjoint
<1>8. \A a : Held(a)' <=> Held(a)
  BY <1>2, <1>5, <1>6 DEF Held
<1>9. Content'
  BY <1>8, SameContent
<1> QED
  BY <1>1, <1>3, <1>4, <1>7, <1>9 DEF IInv

\* A consumer begins with empty hands.
LEMMA PopBatch ==
  ASSUME IInv, NEW c \in Consumers, NEW max \in 1..Capacity, pop_batch(c, max)
  PROVE  IInv'
<1> DEFINE k == [pc |-> "tail", stolen |-> stolen, blocked |-> blocked,
                 amount |-> max, got |-> <<>>]
<1>1. stolen \in Cursor /\ blocked \in Cursor /\ max \in 0..Capacity /\ max >= 1
  BY CursorFacts DEF IInv, Types
<1>2. k \in Rec /\ k.pc = "tail" /\ k.got = <<>> /\ k.amount = max
      /\ Pos(k.stolen) = Read /\ Pos(k.blocked) = Claimed
  BY <1>1 DEF Rec, Read, Claimed
<1>3. /\ Become(c, k) /\ ~Taking(c) /\ producer.pc # "dropped"
      /\ UNCHANGED <<tail, stolen, blocked, buffer, sent, out, producer>>
  BY DEF pop_batch, Taking
<1>4. Read <= Read /\ Claimed <= Claimed
  BY Numbers
<1> HIDE DEF k
<1> QED
  BY <1>1, <1>2, <1>3, <1>4, ConsumerLooks

\* A consumer that has read the tail knows of no more than was pushed.
LEMMA PopLoadTail ==
  ASSUME IInv, NEW c \in Consumers, pop_load_tail(c)
  PROVE  IInv'
<1> DEFINE k == consumer[c]
           filled == filled_slots(tail, k.blocked)
           r == [k EXCEPT !.pc = "cas", !.amount = Least(@, filled)]
<1>1. /\ k \in Rec /\ k.pc = "tail" /\ ~Taking(c) /\ producer.pc # "dropped"
      /\ k.blocked \in Cursor /\ k.amount \in 0..Capacity
  BY Numbers DEF pop_load_tail, Taking, IInv, ConsumerInv
<1>2. /\ k.amount >= 1 /\ Pos(k.stolen) <= Read /\ Pos(k.blocked) <= Claimed /\ k.got = <<>>
  BY <1>1 DEF IInv, ConsumerInv, From
<1>3. Claimed <= Shown /\ Claimed \in Nat /\ Shown \in Nat /\ Pos(k.blocked) \in Nat
  BY Numbers DEF IInv, CursorInv, From
<1>4. tail \in Cursor
  BY DEF IInv, Types
<1>5. filled = Shown - Pos(k.blocked)
  BY <1>1, <1>2, <1>3, <1>4, PosSub DEF Shown
<1>6. UNCHANGED <<tail, stolen, blocked, buffer, sent, out, producer>>
  BY DEF pop_load_tail
<1>7. CASE filled < 1
  <2>1. Become(c, NoPop)
    BY <1>7 DEF pop_load_tail
  <2>2. NoPop \in Rec /\ NoPop.pc = "idle" /\ NoPop.got = <<>>
    BY WrapTypes, CursorFacts DEF NoPop, Rec
  <2> QED
    BY <1>1, <1>6, <2>1, <2>2, ConsumerLooks
<1>8. CASE ~(filled < 1)
  <2>1. Become(c, r)
    BY <1>8 DEF pop_load_tail
  <2>2. /\ r.pc = "cas" /\ r.got = k.got /\ r.stolen = k.stolen /\ r.blocked = k.blocked
        /\ r.amount = Least(k.amount, filled)
    BY <1>1 DEF Rec
  <2>3. Least(k.amount, filled) \in 0..Capacity /\ Least(k.amount, filled) >= 1
        /\ Least(k.amount, filled) <= filled
    BY <1>1, <1>2, <1>3, <1>5, <1>8, CursorFacts DEF Least
  <2>4. r \in Rec
    BY <1>1, <2>2, <2>3 DEF Rec
  <2>5. r.amount >= 1 /\ Pos(r.blocked) + r.amount <= Shown
    BY <1>3, <1>5, <2>2, <2>3, CursorFacts
  <2> HIDE DEF r, k
  <2> QED
    BY <1>1, <1>2, <1>6, <2>1, <2>2, <2>4, <2>5, ConsumerLooks
<1> QED
  BY <1>7, <1>8

\* A failed compare-and-swap claims nothing.
LEMMA CasFailed ==
  ASSUME IInv, NEW c \in Consumers, cas_failed(c)
  PROVE  IInv'
<1> DEFINE k == consumer[c]
           r == [k EXCEPT !.pc = "tail", !.stolen = stolen, !.blocked = blocked]
<1>1. k \in Rec /\ k.pc = "cas" /\ ~Taking(c)
  BY Numbers DEF cas_failed, Taking
<1>2. k.amount >= 1 /\ k.got = <<>> /\ producer.pc # "dropped"
  BY <1>1 DEF IInv, ConsumerInv
<1>3. stolen \in Cursor /\ blocked \in Cursor
  BY DEF IInv, Types
<1>4. /\ r.pc = "tail" /\ r.got = k.got /\ r.stolen = stolen /\ r.blocked = blocked
      /\ r.amount = k.amount /\ r \in Rec
  BY <1>1, <1>3 DEF Rec
<1>5. Become(c, r) /\ UNCHANGED <<tail, stolen, blocked, buffer, sent, out, producer>>
  BY DEF cas_failed
<1>6. Pos(r.stolen) <= Read /\ Pos(r.blocked) <= Claimed
  BY <1>4, Numbers DEF Read, Claimed
<1> HIDE DEF r, k
<1> QED
  BY <1>1, <1>2, <1>4, <1>5, <1>6, ConsumerLooks DEF k

\* The producer stays within the room it measured.
LEMMA PushBatch ==
  ASSUME IInv, NEW n \in 1..Capacity, push_batch(n)
  PROVE  IInv'
<1>1. /\ producer.pc = "idle" /\ n <= Least(FreeSlots, MaxPush - sent)
      /\ producer' = [pc |-> "write", amount |-> n, written |-> 0]
      /\ sent' = sent + n
      /\ UNCHANGED <<tail, stolen, blocked, buffer, out, consumer>>
  BY DEF push_batch
<1>2. /\ producer.amount = 0 /\ producer.written = 0 /\ Shown = sent /\ Read <= Shown
      /\ sent <= Read + Capacity
  <2>1. CursorInv
    BY DEF IInv
  <2>2. /\ Read \in Nat /\ Shown \in Nat /\ Claimed \in Nat /\ sent \in Nat /\ Capacity \in Nat
        /\ producer.amount \in Nat /\ producer.written \in Nat
    BY Numbers
  <2> QED
    BY <1>1, <2>1, <2>2 DEF CursorInv
<1>3. FreeSlots = Capacity - (Shown - Read)
  <2>1. tail \in Cursor /\ stolen \in Cursor
    BY DEF IInv, Types
  <2>2. Shown - Read <= Capacity
    BY <1>2, Numbers
  <2> QED
    BY <1>2, <2>1, <2>2, PosEmpty DEF FreeSlots, Shown, Read
<1>4. /\ Read \in Nat /\ Shown \in Nat /\ sent \in Nat /\ Capacity \in Nat /\ MaxPush \in Nat
      /\ n \in Nat /\ n >= 1 /\ n <= Capacity
  BY Numbers
<1>5. sent + n <= MaxPush /\ sent + n <= Read + Capacity
  BY <1>1, <1>2, <1>3, <1>4 DEF Least
<1>6. Types'
  BY <1>1, <1>4, <1>5 DEF IInv, Types
<1>7. Read' = Read /\ Claimed' = Claimed /\ Shown' = Shown
  BY <1>1 DEF Read, Claimed, Shown, Pos
<1>8. CursorInv'
  BY <1>1, <1>2, <1>4, <1>5, <1>7 DEF IInv, CursorInv
<1>9. ASSUME NEW d \in Consumers PROVE ConsumerInv(d)'
  <2>1. Taking(d) => Read <= From(d)
    BY DEF IInv, ConsumerInv, Taking
  <2>2. Claimed \in Nat /\ consumer'[d] = consumer[d] /\ producer'.pc # "dropped"
    BY <1>1, Numbers
  <2> QED
    BY <1>4, <1>7, <2>1, <2>2, OthersKeep
<1>10. Disjoint'
  BY <1>1 DEF IInv, Disjoint, Taking, Until, From, Pos
<1>11. \A a : Held(a)' <=> Held(a)
  <2>1. producer'.written = producer.written
    BY <1>1, <1>2
  <2>2. consumer' = consumer
    BY <1>1
  <2> QED
    BY <1>7, <2>1, <2>2 DEF Held, Taking, Until, NextRead, From, Pos
<1>12. Content'
  BY <1>1, <1>11, SameContent
<1> QED
  BY <1>6, <1>8, <1>9, <1>10, <1>12 DEF IInv

\* The slot a push writes is the one of the first position that is not written.
LEMMA WriteSlot ==
  ASSUME IInv, MaxPush < Wrap, producer.pc = "write", producer.written < producer.amount
  PROVE  /\ WriteAt = At(Shown + producer.written)
         /\ Shown + producer.written \in 0..(MaxPush - 1)
         /\ Read <= Shown + producer.written /\ Shown + producer.written < Read + Capacity
         /\ sent - producer.amount + producer.written + 1 = Shown + producer.written + 1
         /\ ~Held(Shown + producer.written)
<1>1. /\ Shown = sent - producer.amount /\ Read <= Claimed /\ Claimed <= Shown
      /\ sent <= Read + Capacity
  BY DEF IInv, CursorInv
<1>2. /\ Read \in Nat /\ Claimed \in Nat /\ Shown \in Nat /\ sent \in Nat /\ sent <= MaxPush
      /\ producer.amount \in Nat /\ producer.written \in Nat /\ MaxPush \in Nat /\ Wrap \in Nat
      /\ Capacity \in Nat
  BY Numbers
<1>3. /\ Shown + producer.written \in 0..(MaxPush - 1)
      /\ Read <= Shown + producer.written /\ Shown + producer.written < Read + Capacity
      /\ sent - producer.amount + producer.written + 1 = Shown + producer.written + 1
      /\ Shown + producer.written < Wrap
  BY <1>1, <1>2
<1>4. WriteAt = At(Shown + producer.written)
  <2>1. tail \in Cursor
    BY DEF IInv, Types
  <2> QED
    BY <1>2, <1>3, <2>1, PosAdd DEF WriteAt, Shown
<1>5. ~Held(Shown + producer.written)
  BY <1>2, HeldRange
<1> QED
  BY <1>3, <1>4, <1>5

\* The producer writes a slot that nobody holds.
LEMMA PushWrite ==
  ASSUME IInv, MaxPush < Wrap, push_write
  PROVE  IInv'
<1> DEFINE w == Shown + producer.written
<1>1. /\ producer.pc = "write" /\ producer.written < producer.amount
      /\ buffer' = [buffer EXCEPT ![WriteAt] = sent - producer.amount + producer.written + 1]
      /\ producer' = [producer EXCEPT !.written = @ + 1]
      /\ UNCHANGED <<tail, stolen, blocked, sent, out, consumer>>
  BY DEF push_write
<1>2. /\ WriteAt = At(w) /\ w \in 0..(MaxPush - 1) /\ Read <= w /\ w < Read + Capacity
      /\ sent - producer.amount + producer.written + 1 = w + 1 /\ ~Held(w)
  BY <1>1, WriteSlot
<1>3. /\ producer'.pc = "write" /\ producer'.amount = producer.amount
      /\ producer'.written = producer.written + 1
      /\ producer' \in [pc : {"idle", "write", "dropped"},
                        amount : 0..Capacity, written : 0..Capacity]
  <2>1. producer \in [pc : {"idle", "write", "dropped"},
                      amount : 0..Capacity, written : 0..Capacity]
    BY DEF IInv, Types
  <2> QED
    BY <1>1, <2>1, CursorFacts
<1>4. /\ Read \in Nat /\ Claimed \in Nat /\ Shown \in Nat /\ producer.written \in Nat
      /\ producer.amount \in Nat /\ MaxPush \in Nat
  BY Numbers
<1>5. Types'
  <2>1. buffer \in [SlotIndex -> 0..MaxPush] /\ w + 1 \in 0..MaxPush
    BY <1>2, <1>4 DEF IInv, Types
  <2>2. buffer' \in [SlotIndex -> 0..MaxPush]
    BY <1>1, <1>2, <2>1
  <2> QED
    BY <1>1, <1>3, <2>2 DEF IInv, Types
<1>6. Read' = Read /\ Claimed' = Claimed /\ Shown' = Shown
  BY <1>1 DEF Read, Claimed, Shown, Pos
<1>7. CursorInv'
  BY <1>1, <1>3, <1>4, <1>6 DEF IInv, CursorInv
<1>8. ASSUME NEW d \in Consumers PROVE ConsumerInv(d)'
  <2>1. Taking(d) => Read <= From(d)
    BY DEF IInv, ConsumerInv, Taking
  <2>2. Claimed \in Nat /\ consumer'[d] = consumer[d] /\ producer'.pc # "dropped"
    BY <1>1, <1>3, Numbers
  <2> QED
    BY <1>4, <1>6, <2>1, <2>2, OthersKeep
<1>9. Disjoint'
  BY <1>1 DEF IInv, Disjoint, Taking, Until, From, Pos
<1>10. \A a \in 0..(MaxPush - 1) : Held(a)' <=> Held(a) \/ a = w
  <2> SUFFICES ASSUME NEW a \in 0..(MaxPush - 1) PROVE Held(a)' <=> Held(a) \/ a = w
    OBVIOUS
  <2>1. (Claimed <= a /\ a < Shown + producer'.written)
        <=> (Claimed <= a /\ a < Shown + producer.written) \/ a = w
    <3>1. Claimed <= Shown
      BY DEF IInv, CursorInv
    <3> QED
      BY <1>3, <1>4, <3>1
  <2>2. (\E c \in Consumers : Taking(c) /\ NextRead(c) <= a /\ a < Until(c))'
        <=> \E c \in Consumers : Taking(c) /\ NextRead(c) <= a /\ a < Until(c)
    BY <1>1 DEF Taking, Until, NextRead, From, Pos
  <2> HIDE DEF w
  <2> QED
    BY <1>6, <2>1, <2>2 DEF Held
<1>11. Content'
  <2>1. Content /\ producer.pc # "dropped"
    BY <1>1 DEF IInv
  <2>2. \A i \in SlotIndex : buffer'[i] = IF i = At(w) THEN w + 1 ELSE buffer[i]
    BY <1>1, <1>2 DEF IInv, Types
  <2>3. \A a \in 0..(MaxPush - 1) : At(a) \in SlotIndex /\ At(a)' = At(a)
    BY AtSlot DEF At
  <2>4. \A a \in 0..(MaxPush - 1) : Held(a) => At(a) # At(w)
    <3> SUFFICES ASSUME NEW a \in 0..(MaxPush - 1), Held(a), At(a) = At(w) PROVE FALSE
      OBVIOUS
    <3>1. Read <= a /\ a < Read + Capacity
      BY HeldRange
    <3> HIDE DEF w
    <3>2. a = w
      BY <1>2, <3>1, WindowApart
    <3> QED
      BY <1>2, <3>2
  <2> HIDE DEF w
  <2>5. \A a \in 0..(MaxPush - 1) : Held(a)' => buffer'[At(a)] = a + 1
    BY <1>10, <2>1, <2>2, <2>3, <2>4 DEF Content
  <2>6. \A i \in SlotIndex : buffer'[i] # Empty => \E a \in 0..(MaxPush - 1) : Held(a)' /\ i = At(a)
    BY <1>2, <1>10, <2>1, <2>2 DEF Content
  <2> QED
    BY <2>3, <2>5, <2>6 DEF Content, Empty
<1> QED
  BY <1>5, <1>7, <1>8, <1>9, <1>11 DEF IInv

\* The store of the tail publishes what was written.
LEMMA PushPublish ==
  ASSUME IInv, MaxPush < Wrap, push_publish
  PROVE  IInv' /\ Shown' = sent
<1>1. /\ producer.pc = "write" /\ producer.written = producer.amount
      /\ tail' = WrappingAdd(tail, producer.amount) /\ producer' = NoPush
      /\ UNCHANGED <<stolen, blocked, buffer, sent, out, consumer>>
  BY DEF push_publish, TailAfterPush
<1>2. producer'.pc = "idle" /\ producer'.amount = 0 /\ producer'.written = 0
  BY <1>1 DEF NoPush
<1>3. /\ Shown = sent - producer.amount /\ Read <= Claimed /\ Claimed <= Shown
      /\ sent <= Read + Capacity
  BY DEF IInv, CursorInv
<1>4. /\ Read \in Nat /\ Claimed \in Nat /\ Shown \in Nat /\ sent \in Nat /\ sent <= MaxPush
      /\ producer.amount \in Nat /\ producer.written \in Nat /\ MaxPush \in Nat /\ Wrap \in Nat
  BY Numbers
<1>5. Shown' = sent /\ tail' \in Cursor
  <2>1. tail \in Cursor /\ Shown + producer.amount = sent /\ sent < Wrap
    BY <1>3, <1>4 DEF IInv, Types
  <2>2. tail' \in Cursor /\ Pos(tail') = Shown + producer.amount
    BY <1>1, <1>4, <2>1, PosAdd DEF Shown
  <2> QED
    BY <2>1, <2>2 DEF Shown, Pos
<1>6. Types'
  BY <1>1, <1>5, CursorFacts DEF IInv, Types, NoPush
<1>7. Read' = Read /\ Claimed' = Claimed
  BY <1>1 DEF Read, Claimed, Pos
<1>8. CursorInv'
  BY <1>1, <1>2, <1>3, <1>4, <1>5, <1>7 DEF CursorInv
<1>9. ASSUME NEW d \in Consumers PROVE ConsumerInv(d)'
  <2>1. Taking(d) => Read <= From(d)
    BY DEF IInv, ConsumerInv, Taking
  <2>2. consumer'[d] = consumer[d] /\ producer'.pc # "dropped" /\ Shown <= Shown'
    BY <1>1, <1>2, <1>3, <1>4, <1>5
  <2> QED
    BY <1>4, <1>5, <1>7, <2>1, <2>2, OthersKeep
<1>10. Disjoint'
  BY <1>1 DEF IInv, Disjoint, Taking, Until, From, Pos
<1>11. \A a : Held(a)' <=> Held(a)
  <2>1. Shown' + producer'.written = Shown + producer.written
    BY <1>1, <1>2, <1>3, <1>4, <1>5
  <2>2. consumer' = consumer
    BY <1>1
  <2> QED
    BY <1>7, <2>1, <2>2 DEF Held, Taking, Until, NextRead, From, Pos
<1>12. Content'
  BY <1>1, <1>11, SameContent
<1> QED
  BY <1>5, <1>6, <1>8, <1>9, <1>10, <1>12 DEF IInv

\* The claim of a consumer that read this head starts where the claims end.
LEMMA TryCas ==
  ASSUME IInv, MaxPush < Wrap, NEW c \in Consumers, try_cas_for_pop_batch(c)
  PROVE  IInv' /\ From(c)' = Claimed /\ Claimed' = Claimed + consumer[c].amount
<1> DEFINE k == consumer[c]
           r == [k EXCEPT !.pc = "take"]
<1>1. /\ k.pc = "cas" /\ stolen = k.stolen /\ blocked = k.blocked
      /\ blocked' = WrappingAdd(k.blocked, k.amount)
      /\ consumer' = [consumer EXCEPT ![c] = r]
      /\ UNCHANGED <<tail, stolen, buffer, sent, out, producer>>
  BY DEF try_cas_for_pop_batch, HeadIs, ClaimUpTo, Become
<1>2. k \in Rec /\ k.amount \in Nat /\ k.blocked \in Cursor /\ k.got \in Seq(Nat)
  BY Numbers
<1>3. /\ r \in Rec /\ r.pc = "take" /\ r.amount = k.amount /\ r.blocked = k.blocked
      /\ r.got = k.got
  BY <1>2 DEF Rec
<1>4. k.amount >= 1 /\ k.got = <<>> /\ Until(c) <= Shown /\ producer.pc # "dropped"
  BY <1>1 DEF IInv, ConsumerInv
<1>5. From(c) = Claimed /\ Until(c) = Claimed + k.amount
  BY <1>1 DEF From, Until, Claimed
<1>6. /\ Read \in Nat /\ Claimed \in Nat /\ Shown \in Nat /\ sent \in Nat /\ sent <= MaxPush
      /\ MaxPush \in Nat /\ Wrap \in Nat /\ producer.amount \in Nat
  BY Numbers
<1>7. Read <= Claimed /\ Shown = sent - producer.amount
  BY DEF IInv, CursorInv
<1>8. Claimed' = Claimed + k.amount /\ blocked' \in Cursor
  <2>1. Claimed + k.amount < Wrap
    BY <1>2, <1>4, <1>5, <1>6, <1>7
  <2>2. Pos(k.blocked) = Claimed
    BY <1>1 DEF Claimed
  <2>3. blocked' \in Cursor /\ Pos(blocked') = Claimed + k.amount
    BY <1>1, <1>2, <2>1, <2>2, PosAdd
  <2> QED
    BY <2>3 DEF Claimed, Pos
<1>9. Read' = Read /\ Shown' = Shown
  BY <1>1 DEF Read, Shown, Pos
<1>10. Types'
  BY <1>1, <1>3, <1>8 DEF IInv, Types
<1>11. \A d \in Consumers : consumer'[d] = IF d = c THEN r ELSE consumer[d]
  BY <1>1 DEF IInv, Types
<1> HIDE DEF r, k
<1>12. CursorInv'
  BY <1>1, <1>2, <1>4, <1>5, <1>6, <1>7, <1>8, <1>9 DEF IInv, CursorInv
<1>13. /\ From(c)' = Claimed /\ Until(c)' = Claimed + k.amount /\ NextRead(c)' = Claimed
       /\ Taking(c)' /\ ~Taking(c)
  <2>1. Len(r.got) = 0
    BY <1>3, <1>4
  <2>2. From(c)' = Claimed
    BY <1>1, <1>3, <1>11 DEF From, Claimed, Pos
  <2> QED
    BY <1>1, <1>3, <1>6, <1>11, <2>1, <2>2 DEF Until, NextRead, Taking, k
<1>14. \A d \in Consumers : d # c => /\ From(d)' = From(d) /\ Until(d)' = Until(d)
                                     /\ NextRead(d)' = NextRead(d) /\ Taking(d)' = Taking(d)
  BY <1>11 DEF From, Until, NextRead, Taking, Pos
<1>15. ASSUME NEW d \in Consumers PROVE ConsumerInv(d)'
  <2>1. CASE d # c
    <3>1. Taking(d) => Read <= From(d)
      BY DEF IInv, ConsumerInv, Taking
    <3>2. /\ consumer'[d] = consumer[d] /\ Claimed <= Claimed' /\ Claimed' \in Nat
          /\ producer' = producer
      BY <1>1, <1>2, <1>6, <1>8, <1>11, <2>1
    <3> QED
      BY <1>6, <1>9, <3>1, <3>2, OthersKeep
  <2>2. CASE d = c
    <3>1. consumer'[d] = r /\ Len(r.got) = 0
      BY <1>3, <1>4, <1>11, <2>2
    <3> QED
      BY <1>1, <1>2, <1>3, <1>4, <1>6, <1>7, <1>8, <1>9, <1>13, <2>2, <3>1 DEF ConsumerInv
  <2> QED
    BY <2>1, <2>2
<1>16. \A d \in Consumers : Taking(d) => Until(d) <= Claimed
  BY DEF IInv, ConsumerInv, Taking
<1>17. Disjoint'
  BY <1>13, <1>14, <1>16 DEF IInv, Disjoint
<1>18. \A a \in 0..(MaxPush - 1) : Held(a)' <=> Held(a)
  <2> SUFFICES ASSUME NEW a \in 0..(MaxPush - 1) PROVE Held(a)' <=> Held(a)
    OBVIOUS
  <2>1. (\E d \in Consumers : Taking(d) /\ NextRead(d) <= a /\ a < Until(d))'
        <=> \/ \E d \in Consumers : Taking(d) /\ NextRead(d) <= a /\ a < Until(d)
            \/ Claimed <= a /\ a < Claimed + k.amount
    BY <1>13, <1>14
  <2>2. (Claimed <= a /\ a < Shown + producer.written)'
        <=> Claimed + k.amount <= a /\ a < Shown + producer.written
    BY <1>1, <1>8, <1>9
  <2>3. Claimed + k.amount <= Shown /\ producer.written \in Nat
    BY <1>4, <1>5, Numbers
  <2>4. (Claimed <= a /\ a < Shown + producer.written)
        <=> \/ Claimed + k.amount <= a /\ a < Shown + producer.written
            \/ Claimed <= a /\ a < Claimed + k.amount
    BY <1>2, <1>6, <2>3
  <2> QED
    BY <2>1, <2>2, <2>4 DEF Held
<1>19. Content'
  BY <1>1, <1>4, <1>18, SameContent
<1> QED
  BY <1>8, <1>10, <1>12, <1>13, <1>15, <1>17, <1>19 DEF IInv, k

\* The slot a consumer reads is the one of its next position, which is in the ring.
LEMMA ReadSlot ==
  ASSUME IInv, MaxPush < Wrap, NEW c \in Consumers, Taking(c),
         Len(consumer[c].got) < consumer[c].amount
  PROVE  /\ ReadAt(c) = At(NextRead(c)) /\ NextRead(c) \in 0..(MaxPush - 1)
         /\ Held(NextRead(c)) /\ buffer[ReadAt(c)] = NextRead(c) + 1
<1>1. /\ From(c) \in Nat /\ Len(consumer[c].got) \in Nat /\ consumer[c].amount \in Nat
      /\ consumer[c].blocked \in Cursor /\ sent <= MaxPush /\ MaxPush \in Nat /\ Wrap \in Nat
      /\ sent \in Nat
  BY Numbers
<1>2. Held(NextRead(c)) /\ NextRead(c) \in Nat
  <2>1. \A x, m, n \in Nat : m < n => x + m < x + n
    OBVIOUS
  <2>2. NextRead(c) < Until(c)
    BY <1>1, <2>1, Zenon DEF NextRead, Until
  <2>3. NextRead(c) \in Nat /\ NextRead(c) <= NextRead(c)
    BY ClaimNumbers
  <2> QED
    BY <2>2, <2>3 DEF Held
<1>3. NextRead(c) < sent
  BY <1>2, HeldRange
<1>4. NextRead(c) \in 0..(MaxPush - 1) /\ NextRead(c) < Wrap
  BY <1>1, <1>2, <1>3
<1>5. ReadAt(c) = At(NextRead(c))
  <2>1. Pos(consumer[c].blocked) + Len(consumer[c].got) < Wrap
    BY <1>4 DEF NextRead, From
  <2> QED
    BY <1>1, <2>1, PosAdd DEF ReadAt, NextRead, From
<1>6. producer.pc # "dropped"
  BY DEF IInv, ConsumerInv, Taking
<1> QED
  BY <1>2, <1>4, <1>5, <1>6 DEF IInv, Content

\* A consumer reads a slot of its own claim.
LEMMA PopTake ==
  ASSUME IInv, MaxPush < Wrap, NEW c \in Consumers, pop_take(c)
  PROVE  IInv'
<1> DEFINE k == consumer[c]
           n == NextRead(c)
           r == [k EXCEPT !.got = Append(@, buffer[ReadAt(c)])]
<1>1. /\ k.pc = "take" /\ Len(k.got) < k.amount /\ Taking(c)
      /\ consumer' = [consumer EXCEPT ![c] = r]
      /\ buffer' = [buffer EXCEPT ![ReadAt(c)] = Empty]
      /\ UNCHANGED <<tail, stolen, blocked, sent, out, producer>>
  BY DEF pop_take, Become, Taking
<1>2. /\ ReadAt(c) = At(n) /\ n \in 0..(MaxPush - 1) /\ Held(n) /\ buffer[ReadAt(c)] = n + 1
  BY <1>1, ReadSlot
<1>3. /\ k \in Rec /\ k.amount \in Nat /\ k.got \in Seq(Nat) /\ Len(k.got) \in Nat
      /\ From(c) \in Nat
  BY Numbers
<1>4. /\ Append(k.got, n + 1) \in Seq(Nat) /\ Len(Append(k.got, n + 1)) = Len(k.got) + 1
      /\ \A i \in 1..Len(k.got) : Append(k.got, n + 1)[i] = k.got[i]
      /\ Append(k.got, n + 1)[Len(k.got) + 1] = n + 1
  BY <1>2, <1>3
<1>5. /\ r \in Rec /\ r.pc = "take" /\ r.amount = k.amount /\ r.blocked = k.blocked
      /\ r.stolen = k.stolen /\ r.got = Append(k.got, n + 1)
  BY <1>1, <1>2, <1>3, <1>4 DEF Rec
<1>6. n = From(c) + Len(k.got) /\ n < Until(c)
  BY <1>1, <1>3 DEF NextRead, Until
<1>7. /\ Read <= From(c) /\ Until(c) <= Claimed /\ producer.pc # "dropped"
      /\ \A i \in 1..Len(k.got) : k.got[i] = From(c) + i
  BY <1>1 DEF IInv, ConsumerInv
<1>8. Types'
  <2>1. buffer' \in [SlotIndex -> 0..MaxPush]
    <3>1. Empty \in 0..MaxPush /\ buffer \in [SlotIndex -> 0..MaxPush]
      BY SpmcAssumption DEF IInv, Types, Empty
    <3> QED
      BY <1>1, <3>1
  <2>2. consumer' \in [Consumers -> Rec]
    BY <1>1, <1>5 DEF IInv, Types
  <2> QED
    BY <1>1, <2>1, <2>2 DEF IInv, Types
<1>9. \A d \in Consumers : consumer'[d] = IF d = c THEN r ELSE consumer[d]
  BY <1>1 DEF IInv, Types
<1>10. Read' = Read /\ Claimed' = Claimed /\ Shown' = Shown
  BY <1>1 DEF Read, Claimed, Shown, Pos
<1> HIDE DEF r, k, n
<1>11. CursorInv'
  BY <1>1, <1>10 DEF IInv, CursorInv
<1>12. /\ From(c)' = From(c) /\ Until(c)' = Until(c) /\ NextRead(c)' = n + 1 /\ Taking(c)'
  <2>1. From(c)' = From(c)
    BY <1>5, <1>9 DEF From, Pos, k
  <2>2. consumer'[c] = r /\ r.amount = consumer[c].amount /\ Len(r.got) = Len(k.got) + 1
    BY <1>4, <1>5, <1>9 DEF k
  <2>3. NextRead(c)' = From(c) + (Len(k.got) + 1)
    BY <2>1, <2>2 DEF NextRead
  <2>4. From(c) + (Len(k.got) + 1) = n + 1
    BY <1>3, <1>6
  <2> QED
    BY <1>5, <2>1, <2>2, <2>3, <2>4 DEF Until, Taking
<1>13. \A d \in Consumers : d # c => /\ From(d)' = From(d) /\ Until(d)' = Until(d)
                                     /\ NextRead(d)' = NextRead(d) /\ Taking(d)' = Taking(d)
  BY <1>9 DEF From, Until, NextRead, Taking, Pos
<1>14. ASSUME NEW d \in Consumers PROVE ConsumerInv(d)'
  <2>1. CASE d # c
    <3>1. Taking(d) => Read <= From(d)
      BY DEF IInv, ConsumerInv, Taking
    <3>2. /\ consumer'[d] = consumer[d] /\ producer' = producer
          /\ Read \in Nat /\ Claimed \in Nat /\ Shown \in Nat
      BY <1>1, <1>9, <2>1, Numbers
    <3> QED
      BY <1>10, <3>1, <3>2, OthersKeep
  <2>2. CASE d = c
    <3>1. consumer'[d] = r /\ Len(r.got) = Len(k.got) + 1 /\ Len(r.got) <= r.amount /\ r.amount >= 1
      BY <1>1, <1>3, <1>4, <1>5, <1>9, <2>2
    <3>2. \A i \in 1..Len(r.got) : r.got[i] = From(c) + i
      <4> SUFFICES ASSUME NEW i \in 1..Len(r.got) PROVE r.got[i] = From(c) + i
        OBVIOUS
      <4>1. CASE i \in 1..Len(k.got)
        BY <1>4, <1>5, <1>7, <4>1
      <4>2. CASE i = Len(k.got) + 1
        BY <1>3, <1>4, <1>5, <1>6, <4>2
      <4> QED
        BY <1>3, <3>1, <4>1, <4>2
    <3> QED
      BY <1>1, <1>5, <1>7, <1>10, <1>12, <2>2, <3>1, <3>2 DEF ConsumerInv
  <2> QED
    BY <2>1, <2>2
<1>15. Disjoint'
  BY <1>1, <1>12, <1>13 DEF IInv, Disjoint
<1>16. \A a \in 0..(MaxPush - 1) : Held(a)' <=> Held(a) /\ a # n
  <2> SUFFICES ASSUME NEW a \in 0..(MaxPush - 1) PROVE Held(a)' <=> Held(a) /\ a # n
    OBVIOUS
  <2>1. (Claimed <= a /\ a < Shown + producer.written)' = (Claimed <= a /\ a < Shown + producer.written)
    BY <1>1, <1>10
  <2>2. (Claimed <= a /\ a < Shown + producer.written) => a # n
    <3>1. Claimed \in Nat /\ n \in Nat
      BY <1>2, Numbers
    <3>2. Until(c) \in Nat
      BY <1>3 DEF Until, k
    <3> QED
      BY <1>6, <1>7, <3>1, <3>2
  <2>3. ASSUME NEW d \in Consumers, d # c, Taking(d), NextRead(d) <= a, a < Until(d)
        PROVE  a # n
    <3>1. Until(c) <= From(d) \/ Until(d) <= From(c)
      BY <1>1, <2>3 DEF IInv, Disjoint
    <3>2. /\ From(d) \in Nat /\ Until(d) \in Nat /\ NextRead(d) \in Nat
          /\ From(d) <= NextRead(d)
      BY ClaimNumbers
    <3>3. From(c) \in Nat /\ Until(c) \in Nat
      BY ClaimNumbers
    <3>4. From(c) <= n
      BY <1>3, <1>6
    <3> QED
      BY <1>2, <1>3, <1>6, <2>3, <3>1, <3>2, <3>3, <3>4
  <2>4. (\E d \in Consumers : Taking(d) /\ NextRead(d) <= a /\ a < Until(d))'
        <=> (\E d \in Consumers : Taking(d) /\ NextRead(d) <= a /\ a < Until(d)) /\ a # n
    <3>1. n + 1 <= a <=> n <= a /\ a # n
      BY <1>2
    <3>2. NextRead(c) = n
      BY DEF n
    <3> QED
      BY <1>1, <1>12, <1>13, <2>3, <3>1, <3>2
  <2> QED
    BY <2>1, <2>2, <2>4 DEF Held
<1>17. Content'
  <2>1. Content
    BY DEF IInv
  <2>2. \A i \in SlotIndex : buffer'[i] = IF i = At(n) THEN Empty ELSE buffer[i]
    BY <1>1, <1>2 DEF IInv, Types
  <2>3. \A a \in 0..(MaxPush - 1) : At(a) \in SlotIndex /\ At(a)' = At(a)
    BY AtSlot DEF At
  <2>4. \A a \in 0..(MaxPush - 1) : Held(a) /\ At(a) = At(n) => a = n
    <3> SUFFICES ASSUME NEW a \in 0..(MaxPush - 1), Held(a), At(a) = At(n) PROVE a = n
      OBVIOUS
    <3>1. Read <= a /\ a < Read + Capacity /\ Read <= n /\ n < Read + Capacity
      BY <1>2, HeldRange
    <3> QED
      BY <1>2, <3>1, WindowApart
  <2>5. \A a \in 0..(MaxPush - 1) : Held(a)' => buffer'[At(a)] = a + 1
    BY <1>7, <1>16, <2>1, <2>2, <2>3, <2>4 DEF Content
  <2>6. \A i \in SlotIndex : buffer'[i] # Empty => \E a \in 0..(MaxPush - 1) : Held(a)' /\ i = At(a)
    BY <1>7, <1>16, <2>1, <2>2 DEF Content
  <2> QED
    BY <2>3, <2>5, <2>6 DEF Content, Empty
<1> QED
  BY <1>8, <1>11, <1>14, <1>15, <1>17 DEF IInv

\* A consumer gives its slots free once `stolen` has reached its claim: every
\* other claim is then behind it.
LEMMA PublishStolen ==
  ASSUME IInv, MaxPush < Wrap, NEW c \in Consumers, publish_stolen(c)
  PROVE  IInv'
<1> DEFINE k == consumer[c]
<1>1. /\ k.pc = "take" /\ Len(k.got) = k.amount /\ Taking(c) /\ stolen = k.blocked
      /\ stolen' = WrappingAdd(stolen, k.amount)
      /\ out' = out \cup Range(k.got)
      /\ consumer' = [consumer EXCEPT ![c] = NoPop]
      /\ UNCHANGED <<tail, blocked, buffer, sent, producer>>
  BY DEF publish_stolen, MayPublish, Become, Taking
<1>2. /\ k \in Rec /\ k.amount \in Nat /\ k.got \in Seq(Nat) /\ From(c) \in Nat
  BY Numbers
<1>3. /\ Until(c) <= Claimed /\ k.amount >= 1 /\ producer.pc # "dropped"
      /\ \A i \in 1..Len(k.got) : k.got[i] = From(c) + i
  BY <1>1 DEF IInv, ConsumerInv
<1>4. Read = From(c) /\ Until(c) = Read + k.amount
  BY <1>1 DEF Read, From, Until
<1>5. /\ Read \in Nat /\ Claimed \in Nat /\ Shown \in Nat /\ sent \in Nat /\ sent <= MaxPush
      /\ MaxPush \in Nat /\ Wrap \in Nat /\ producer.amount \in Nat /\ Capacity \in Nat
  BY Numbers
<1>6. Claimed <= Shown /\ Shown = sent - producer.amount /\ sent <= Read + Capacity
  BY DEF IInv, CursorInv
<1>7. Read' = Read + k.amount /\ stolen' \in Cursor
  <2>1. Read + k.amount < Wrap /\ stolen \in Cursor
    BY <1>2, <1>3, <1>4, <1>5, <1>6 DEF IInv, Types
  <2>2. stolen' \in Cursor /\ Pos(stolen') = Read + k.amount
    BY <1>1, <1>2, <2>1, PosAdd DEF Read
  <2> QED
    BY <2>2 DEF Read, Pos
<1>8. NoPop \in Rec /\ NoPop.pc = "idle" /\ NoPop.amount = 0 /\ NoPop.got = <<>>
  BY WrapTypes, CursorFacts DEF NoPop, Rec
<1>9. Types'
  <2>1. \A v \in Range(k.got) : v \in 1..MaxPush
    <3> SUFFICES ASSUME NEW i \in 1..Len(k.got) PROVE k.got[i] \in 1..MaxPush
      BY <1>2 DEF Range
    <3>1. i \in Nat /\ i >= 1 /\ i <= k.amount
      BY <1>1, <1>2
    <3> HIDE DEF k
    <3>2. Read + k.amount <= MaxPush
      <4>1. Until(c) <= sent
        <5>1. Until(c) \in Nat /\ Until(c) <= Claimed
          BY <1>3, ClaimNumbers
        <5> QED
          BY <1>5, <1>6, <5>1
      <4> QED
        BY <1>2, <1>4, <1>5, <4>1
    <3>3. From(c) + i \in 1..MaxPush
      BY <1>2, <1>4, <1>5, <3>1, <3>2
    <3> QED
      BY <1>3, <3>3
  <2>2. consumer' \in [Consumers -> Rec]
    BY <1>1, <1>8 DEF IInv, Types
  <2>3. out' \subseteq 1..MaxPush
    BY <1>1, <2>1 DEF IInv, Types
  <2> QED
    BY <1>1, <1>7, <2>2, <2>3 DEF IInv, Types
<1>10. \A d \in Consumers : consumer'[d] = IF d = c THEN NoPop ELSE consumer[d]
  BY <1>1 DEF IInv, Types
<1>11. Claimed' = Claimed /\ Shown' = Shown
  BY <1>1 DEF Claimed, Shown, Pos
<1> HIDE DEF k
<1>12. CursorInv'
  BY <1>1, <1>2, <1>3, <1>4, <1>5, <1>6, <1>7, <1>11 DEF IInv, CursorInv
<1>13. \A d \in Consumers : d # c => /\ From(d)' = From(d) /\ Until(d)' = Until(d)
                                     /\ NextRead(d)' = NextRead(d) /\ Taking(d)' = Taking(d)
  BY <1>10 DEF From, Until, NextRead, Taking, Pos
<1>14. ~Taking(c)'
  BY <1>8, <1>10 DEF Taking
<1>15. \A d \in Consumers : d # c /\ Taking(d) => Read' <= From(d)
  <2> SUFFICES ASSUME NEW d \in Consumers, d # c, Taking(d) PROVE Read' <= From(d)
    OBVIOUS
  <2>1. Until(c) <= From(d) \/ Until(d) <= From(c)
    BY <1>1 DEF IInv, Disjoint
  <2>2. Read <= From(d) /\ consumer[d].amount >= 1
    BY DEF IInv, ConsumerInv, Taking
  <2>3. From(d) \in Nat /\ consumer[d].amount \in Nat
    BY Numbers
  <2> QED
    BY <1>2, <1>4, <1>5, <1>7, <2>1, <2>2, <2>3 DEF Until
<1>16. ASSUME NEW d \in Consumers PROVE ConsumerInv(d)'
  <2>1. CASE d # c
    <3>1. /\ consumer'[d] = consumer[d] /\ producer' = producer
          /\ Read <= Read' /\ Read' \in Nat
      BY <1>1, <1>2, <1>5, <1>7, <1>10, <2>1
    <3> QED
      BY <1>5, <1>11, <1>15, <2>1, <3>1, OthersKeep
  <2>2. CASE d = c
    <3>1. consumer'[d] = NoPop /\ Len(NoPop.got) = 0
      BY <1>8, <1>10, <2>2
    <3> QED
      BY <1>8, <3>1 DEF ConsumerInv
  <2> QED
    BY <2>1, <2>2
<1>17. Disjoint'
  BY <1>13, <1>14 DEF IInv, Disjoint
<1>18. \A a \in 0..(MaxPush - 1) : Held(a)' <=> Held(a)
  <2> SUFFICES ASSUME NEW a \in 0..(MaxPush - 1) PROVE Held(a)' <=> Held(a)
    OBVIOUS
  <2>1. (Claimed <= a /\ a < Shown + producer.written)' = (Claimed <= a /\ a < Shown + producer.written)
    BY <1>1, <1>11
  <2>2. ~(NextRead(c) <= a /\ a < Until(c))
    <3>1. NextRead(c) = Until(c)
      BY <1>1 DEF NextRead, Until, k
    <3>2. Until(c) \in Nat
      BY <1>2, <1>4, <1>5
    <3> QED
      BY <3>1, <3>2
  <2>3. (\E d \in Consumers : Taking(d) /\ NextRead(d) <= a /\ a < Until(d))'
        <=> \E d \in Consumers : Taking(d) /\ NextRead(d) <= a /\ a < Until(d)
    BY <1>13, <1>14, <2>2
  <2> QED
    BY <2>1, <2>3 DEF Held
<1>19. Content'
  BY <1>1, <1>3, <1>18, SameContent
<1> QED
  BY <1>9, <1>12, <1>16, <1>17, <1>19 DEF IInv

\* The slots from the claims to the tail, those that Drop touches too, are those
\* of the positions that are shown and not claimed.
LEMMA RemainingSlots ==
  ASSUME IInv, MaxPush < Wrap, producer.pc # "dropped"
  PROVE  /\ filled_slots(tail, blocked) = Shown - Claimed /\ Claimed <= Shown
         /\ \A i \in 0..(Shown - Claimed - 1) :
              /\ Slot(WrappingAdd(blocked, i)) = At(Claimed + i)
              /\ Slot(WrappingAdd(blocked, i)) \in SlotIndex
              /\ buffer[Slot(WrappingAdd(blocked, i))] = Claimed + i + 1
<1>1. /\ Claimed \in Nat /\ Shown \in Nat /\ sent \in Nat /\ sent <= MaxPush
      /\ MaxPush \in Nat /\ Wrap \in Nat /\ producer.amount \in Nat /\ producer.written \in Nat
  BY Numbers
<1>2. Claimed <= Shown /\ Shown = sent - producer.amount
  BY DEF IInv, CursorInv
<1>3. tail \in Cursor /\ blocked \in Cursor
  BY DEF IInv, Types
<1>4. filled_slots(tail, blocked) = Shown - Claimed
  BY <1>1, <1>2, <1>3, PosSub DEF Shown, Claimed
<1>5. ASSUME NEW i \in 0..(Shown - Claimed - 1)
      PROVE  /\ Slot(WrappingAdd(blocked, i)) = At(Claimed + i)
             /\ Slot(WrappingAdd(blocked, i)) \in SlotIndex
             /\ buffer[Slot(WrappingAdd(blocked, i))] = Claimed + i + 1
  <2>1. i \in Nat /\ Claimed + i \in 0..(MaxPush - 1) /\ Claimed + i < Wrap /\ Claimed + i \in Nat
    BY <1>1, <1>2
  <2>2. Held(Claimed + i)
    BY <1>1, <2>1 DEF Held
  <2>3. Slot(WrappingAdd(blocked, i)) = At(Claimed + i)
    BY <1>3, <2>1, PosAdd DEF Claimed
  <2>4. buffer[At(Claimed + i)] = Claimed + i + 1
    BY <2>1, <2>2 DEF IInv, Content
  <2> QED
    BY <2>1, <2>3, <2>4, AtSlot
<1> QED
  BY <1>2, <1>4, <1>5

\* Drop finds nobody inside.
LEMMA DropRing ==
  ASSUME IInv, MaxPush < Wrap, Drop
  PROVE  IInv'
<1>1. /\ producer.pc = "idle" /\ \A c \in Consumers : consumer[c].pc = "idle"
      /\ out' = out \cup {buffer[i] : i \in Remaining}
      /\ buffer' = [i \in SlotIndex |-> IF i \in Remaining THEN Empty ELSE buffer[i]]
      /\ producer' = [NoPush EXCEPT !.pc = "dropped"]
      /\ UNCHANGED <<tail, stolen, blocked, sent, consumer>>
  BY DEF Drop
<1>2. /\ filled_slots(tail, blocked) = Shown - Claimed /\ Claimed <= Shown
      /\ \A i \in 0..(Shown - Claimed - 1) : buffer[Slot(WrappingAdd(blocked, i))] = Claimed + i + 1
  BY <1>1, RemainingSlots
<1>3. /\ Claimed \in Nat /\ Shown \in Nat /\ sent \in Nat /\ sent <= MaxPush /\ MaxPush \in Nat
      /\ Read \in Nat
  BY Numbers
<1>4. \A i \in Remaining : buffer[i] \in 1..MaxPush
  <2>1. Shown <= MaxPush
    <3>1. Shown = sent - producer.amount /\ producer.amount \in Nat
      BY Numbers DEF IInv, CursorInv
    <3> QED
      BY <1>3, <3>1
  <2> QED
    BY <1>2, <1>3, <2>1 DEF Remaining
<1>5. producer' = [pc |-> "dropped", amount |-> 0, written |-> 0]
  BY <1>1 DEF NoPush
<1>6. Types'
  <2>1. buffer' \in [SlotIndex -> 0..MaxPush]
    BY <1>1, <1>3 DEF IInv, Types, Empty
  <2>2. out' \subseteq 1..MaxPush
    BY <1>1, <1>4 DEF IInv, Types
  <2>3. producer' \in [pc : {"idle", "write", "dropped"},
                       amount : 0..Capacity, written : 0..Capacity]
    BY <1>5, CursorFacts
  <2> QED
    BY <1>1, <2>1, <2>2, <2>3 DEF IInv, Types
<1>7. Read' = Read /\ Claimed' = Claimed /\ Shown' = Shown
  BY <1>1 DEF Read, Claimed, Shown, Pos
<1>8. CursorInv'
  <2>1. CursorInv /\ producer.amount \in Nat
    BY Numbers DEF IInv
  <2>2. producer.amount = 0
    BY <1>1, <2>1 DEF CursorInv
  <2> QED
    BY <1>1, <1>3, <1>5, <1>7, <2>1, <2>2 DEF CursorInv
<1>9. ASSUME NEW d \in Consumers PROVE ConsumerInv(d)'
  <2>1. consumer'[d] = consumer[d] /\ consumer[d].pc = "idle"
    BY <1>1
  <2>2. Len(consumer[d].got) <= consumer[d].amount
    BY DEF IInv, ConsumerInv
  <2> QED
    BY <2>1, <2>2 DEF ConsumerInv
<1>10. Disjoint' /\ Content'
  BY <1>1, <1>5 DEF Disjoint, Content, Taking
<1> QED
  BY <1>6, <1>8, <1>9, <1>10 DEF IInv

\* The invariant holds of an empty ring.
LEMMA InitInv == Init => IInv
<1> SUFFICES ASSUME Init PROVE IInv
  OBVIOUS
<1>1. NoPop \in Rec /\ NoPop.pc = "idle" /\ NoPop.got = <<>> /\ Len(NoPop.got) = 0 /\ NoPop.amount = 0
  BY WrapTypes, CursorFacts DEF NoPop, Rec
<1>2. producer = [pc |-> "idle", amount |-> 0, written |-> 0]
  BY DEF Init, NoPush
<1>3. Types
  <2>1. Start \in Cursor /\ MaxPush \in Nat
    BY SpmcAssumption
  <2> QED
    BY <1>1, <1>2, <2>1, CursorFacts DEF Init, Types, Empty
<1>4. Read = 0 /\ Claimed = 0 /\ Shown = 0
  BY PosFacts DEF Init, Read, Claimed, Shown
<1>5. CursorInv
  BY <1>2, <1>4, CursorFacts DEF Init, CursorInv
<1>6. \A c \in Consumers : ConsumerInv(c) /\ ~Taking(c)
  BY <1>1 DEF Init, ConsumerInv, Taking
<1>7. Disjoint
  BY <1>6 DEF Disjoint
<1>8. \A a \in 0..(MaxPush - 1) : ~Held(a)
  BY <1>2, <1>4, <1>6 DEF Held
<1>9. Content
  BY <1>8 DEF Init, Content
<1> QED
  BY <1>3, <1>5, <1>6, <1>7, <1>9 DEF IInv

\* The invariant is inductive while the cursors have not wrapped.
LEMMA NextInv ==
  ASSUME IInv, MaxPush < Wrap, [Next]_vars
  PROVE  IInv'
<1>1. CASE UNCHANGED vars
  BY <1>1 DEF vars, IInv, Types, CursorInv, ConsumerInv, Disjoint, Content, Held, Taking, At,
     Until, NextRead, From, Read, Claimed, Shown, Pos
<1>2. CASE Next
  BY <1>2, PopBatch, PopLoadTail, CasFailed, PushBatch, PushWrite, PushPublish, TryCas, PopTake,
     PublishStolen, DropRing DEF Next
<1> QED
  BY <1>1, <1>2

\* The inductive invariant of the ring, for every capacity and every number of
\* consumers, as long as the cursors cannot come round to a value they had.
THEOREM Invariance ==
  ASSUME MaxPush < Wrap
  PROVE  Spec => []IInv
<1>1. Init => IInv
  BY InitInv
<1>2. IInv /\ [Next]_vars => IInv'
  BY NextInv
<1> QED
  BY <1>1, <1>2, PTL DEF Spec
-----------------------------------------------------------------------------
\* The cursors, the slots and the counters of the ring keep their types; what was
\* taken never exceeds what was claimed.
THEOREM TypeCorrect ==
  ASSUME MaxPush < Wrap
  PROVE  Spec => []TypeOK
<1>1. IInv => TypeOK
  <2> SUFFICES ASSUME IInv PROVE TypeOK
    OBVIOUS
  <2>1. \A c \in Consumers : Len(consumer[c].got) <= consumer[c].amount
    BY DEF IInv, ConsumerInv
  <2> QED
    BY <2>1, Numbers DEF IInv, Types, TypeOK
<1> QED
  BY <1>1, Invariance, PTL

\* A push writes only slots that hold no value and that no consumer has still to
\* read: a claimed slot is free again once `stolen` has passed it, not before.
THEOREM NothingOverwritten ==
  ASSUME MaxPush < Wrap
  PROVE  Spec => []NoOverwrite
<1>1. IInv => NoOverwrite
  <2> SUFFICES ASSUME IInv, producer.pc = "write", producer.written < producer.amount
               PROVE  /\ buffer[WriteAt] = Empty
                      /\ \A c \in Consumers :
                           consumer[c].pc = "take" /\ Len(consumer[c].got) < consumer[c].amount =>
                             ReadAt(c) # WriteAt
    BY DEF NoOverwrite
  <2> DEFINE w == Shown + producer.written
  <2>1. WriteAt = At(w) /\ w \in 0..(MaxPush - 1) /\ Read <= w /\ w < Read + Capacity /\ ~Held(w)
    BY WriteSlot
  <2> HIDE DEF w
  <2>2. \A a \in 0..(MaxPush - 1) : Held(a) => At(a) # At(w)
    <3> SUFFICES ASSUME NEW a \in 0..(MaxPush - 1), Held(a), At(a) = At(w) PROVE FALSE
      OBVIOUS
    <3>1. Read <= a /\ a < Read + Capacity
      BY HeldRange
    <3>2. a = w
      BY <2>1, <3>1, WindowApart
    <3> QED
      BY <2>1, <3>2
  <2>3. At(w) \in SlotIndex
    BY <2>1, AtSlot
  <2>4. buffer[WriteAt] = Empty
    BY <2>1, <2>2, <2>3 DEF IInv, Content
  <2>5. ASSUME NEW c \in Consumers, Taking(c), Len(consumer[c].got) < consumer[c].amount
        PROVE  ReadAt(c) # WriteAt
    <3>1. ReadAt(c) = At(NextRead(c)) /\ NextRead(c) \in 0..(MaxPush - 1) /\ Held(NextRead(c))
      BY <2>5, ReadSlot
    <3> QED
      BY <2>1, <2>2, <3>1
  <2> QED
    BY <2>4, <2>5 DEF Taking
<1> QED
  BY <1>1, Invariance, PTL

\* What a consumer has claimed are the values From(c) + 1, From(c) + 2, ..., taken
\* or still in their slots.
LEMMA HandIs ==
  ASSUME IInv, MaxPush < Wrap, NEW c \in Consumers
  PROVE  HandOf(c) = IF Taking(c) THEN [i \in 1..consumer[c].amount |-> From(c) + i] ELSE <<>>
<1>1. CASE ~Taking(c)
  BY <1>1 DEF HandOf, Taking
<1>2. CASE Taking(c)
  <2> DEFINE k == consumer[c]
  <2>1. /\ k.amount \in Nat /\ Len(k.got) \in Nat /\ From(c) \in Nat /\ k.blocked \in Cursor
        /\ sent <= MaxPush /\ MaxPush \in Nat /\ Wrap \in Nat /\ sent \in Nat
        /\ Shown \in Nat /\ Claimed \in Nat /\ producer.amount \in Nat
    BY Numbers
  <2>2. /\ \A i \in 1..Len(k.got) : k.got[i] = From(c) + i
        /\ Until(c) <= Claimed /\ producer.pc # "dropped"
    BY <1>2 DEF IInv, ConsumerInv, Taking
  <2>3. Claimed <= Shown /\ Shown = sent - producer.amount
    BY DEF IInv, CursorInv
  <2>4. ASSUME NEW i \in 1..k.amount, ~(i <= Len(k.got))
        PROVE  buffer[Slot(WrappingAdd(k.blocked, i - 1))] = From(c) + i
    <3> HIDE DEF k
    <3>1. From(c) + (i - 1) \in Nat /\ i - 1 \in Nat /\ From(c) + (i - 1) < From(c) + k.amount
          /\ From(c) + Len(k.got) <= From(c) + (i - 1)
      BY <2>1, <2>4
    <3>2. Held(From(c) + (i - 1))
      BY <1>2, <3>1 DEF Held, NextRead, Until, k
    <3>3. From(c) + (i - 1) < sent
      BY <3>1, <3>2, HeldRange
    <3>4. From(c) + (i - 1) \in 0..(MaxPush - 1) /\ From(c) + (i - 1) < Wrap
      BY <2>1, <3>1, <3>3
    <3>5. Slot(WrappingAdd(k.blocked, i - 1)) = At(From(c) + (i - 1))
      <4>1. Pos(k.blocked) = From(c)
        BY DEF From, k
      <4> QED
        BY <2>1, <3>1, <3>4, <4>1, PosAdd
    <3>6. buffer[At(From(c) + (i - 1))] = From(c) + (i - 1) + 1
      BY <2>2, <3>2, <3>4 DEF IInv, Content
    <3> QED
      BY <2>1, <3>5, <3>6
  <2>5. HandOf(c) = [i \in 1..k.amount |-> IF i <= Len(k.got) THEN k.got[i]
                              ELSE buffer[Slot(WrappingAdd(k.blocked, i - 1))]]
    BY <1>2 DEF HandOf, Taking
  <2>6. \A i \in 1..k.amount :
          (IF i <= Len(k.got) THEN k.got[i] ELSE buffer[Slot(WrappingAdd(k.blocked, i - 1))])
          = From(c) + i
    <3> HIDE DEF k
    <3> SUFFICES ASSUME NEW i \in 1..k.amount, i <= Len(k.got) PROVE k.got[i] = From(c) + i
      BY <2>4
    <3> QED
      BY <2>1, <2>2
  <2> HIDE DEF k
  <2>7. HandOf(c) = [i \in 1..k.amount |-> From(c) + i]
    BY <2>5, <2>6
  <2> QED
    BY <1>2, <2>7 DEF k
<1> QED
  BY <1>1, <1>2

\* Every slot a consumer claimed holds a value until it takes it.
THEOREM NothingReadTwice ==
  ASSUME MaxPush < Wrap
  PROVE  Spec => []ClaimsHoldValues
<1>1. IInv => ClaimsHoldValues
  <2> SUFFICES ASSUME IInv, NEW c \in Consumers, NEW i \in DOMAIN HandOf(c)
               PROVE  HandOf(c)[i] # Empty
    BY DEF ClaimsHoldValues
  <2>1. From(c) \in Nat /\ consumer[c].amount \in Nat
    BY Numbers
  <2>2. CASE Taking(c)
    BY <2>1, <2>2, HandIs DEF Empty
  <2>3. CASE ~Taking(c)
    BY <2>3, HandIs
  <2> QED
    BY <2>2, <2>3
<1> QED
  BY <1>1, Invariance, PTL
-----------------------------------------------------------------------------
\* The refinement.  In positions, every part of the abstract queue is a run of
\* consecutive numbers.

\* The n numbers after a.
Count(a, n) == [i \in 1..n |-> a + i]

\* The values a + 1, ..., a + n, in order.
LEMMA CountFacts ==
  ASSUME NEW a \in Nat, NEW n \in Nat
  PROVE  /\ Count(a, n) \in Seq(Nat) /\ Len(Count(a, n)) = n
         /\ \A i \in 1..n : Count(a, n)[i] = a + i
         /\ Count(a, n) = <<>> <=> n = 0
<1>1. Count(a, n) \in Seq(Nat) /\ Len(Count(a, n)) = n
  BY DEF Count
<1>2. \A i \in 1..n : Count(a, n)[i] = a + i
  BY DEF Count
<1> QED
  BY <1>1, <1>2, EmptySeq

\* Consecutive runs of values make up one run.
LEMMA CountConcat ==
  ASSUME NEW a \in Nat, NEW m \in Nat, NEW n \in Nat
  PROVE  Count(a, m) \o Count(a + m, n) = Count(a, m + n)
<1> DEFINE x == Count(a, m)
           b == a + m
           y == Count(b, n)
           t == Count(a, m + n)
<1>1. x \in Seq(Nat) /\ Len(x) = m /\ \A i \in 1..m : x[i] = a + i
  BY CountFacts
<1>2. b \in Nat
  OBVIOUS
<1>3. y \in Seq(Nat) /\ Len(y) = n /\ \A i \in 1..n : y[i] = b + i
  <2> HIDE DEF b
  <2> QED
    BY <1>2, CountFacts
<1>4. m + n \in Nat
  OBVIOUS
<1>5. t \in Seq(Nat) /\ Len(t) = m + n /\ \A i \in 1..(m + n) : t[i] = a + i
  BY <1>4, CountFacts
<1> HIDE DEF x, y, t
<1>6. /\ x \o y \in Seq(Nat) /\ Len(x \o y) = m + n
      /\ \A i \in 1..(m + n) : (x \o y)[i] = IF i <= m THEN x[i] ELSE y[i - m]
  <2>1. /\ x \o y \in Seq(Nat) /\ Len(x \o y) = Len(x) + Len(y)
        /\ \A i \in 1..(Len(x) + Len(y)) : (x \o y)[i] = IF i <= Len(x) THEN x[i] ELSE y[i - Len(x)]
    BY <1>1, <1>3, ConcatProperties, Zenon
  <2> QED
    BY <1>1, <1>3, <2>1, Zenon
<1>7. ASSUME NEW i \in 1..(m + n) PROVE (x \o y)[i] = t[i]
  <2>1. CASE i <= m
    BY <1>1, <1>5, <1>6, <2>1
  <2>2. CASE ~(i <= m)
    <3>1. i - m \in 1..n
      BY <2>2
    <3>2. y[i - m] = b + (i - m)
      BY <1>3, <3>1
    <3>3. (x \o y)[i] = y[i - m]
      BY <1>6, <2>2
    <3>4. b + (i - m) = a + i
      OBVIOUS
    <3> QED
      BY <1>5, <3>2, <3>3, <3>4
  <2> QED
    BY <2>1, <2>2
<1>8. x \o y = t
  BY <1>5, <1>6, <1>7, SeqEqual
<1> QED
  BY <1>8 DEF x, y, t

\* A run of values splits into two.
LEMMA CountSplit ==
  ASSUME NEW a \in Nat, NEW n \in Nat, NEW m \in 0..n
  PROVE  /\ SubSeq(Count(a, n), 1, m) = Count(a, m)
         /\ SubSeq(Count(a, n), m + 1, Len(Count(a, n))) = Count(a + m, n - m)
<1>1. /\ Count(a, n) \in Seq(Nat) /\ Len(Count(a, n)) = n
      /\ \A i \in 1..n : Count(a, n)[i] = a + i
  BY CountFacts
<1>2. SubSeq(Count(a, n), 1, m) = [i \in 1..m |-> Count(a, n)[i]]
  BY <1>1
<1>3. SubSeq(Count(a, n), m + 1, n) = [i \in 1..(n - m) |-> Count(a, n)[m + i]]
  BY <1>1
<1>4. \A i \in 1..m : Count(a, n)[i] = a + i
  BY <1>1
<1>5. \A i \in 1..(n - m) : Count(a, n)[m + i] = a + m + i
  BY <1>1
<1> QED
  BY <1>1, <1>2, <1>3, <1>4, <1>5 DEF Count

\* The abstract queue, in positions.
QueueAt == IF producer.pc = "dropped" THEN <<>> ELSE Count(Claimed, Shown - Claimed)
HandAt(c) == IF Taking(c) THEN Count(From(c), consumer[c].amount) ELSE <<>>

Mapped ==
  /\ Queue = QueueAt
  /\ Flight = Count(Shown, producer.amount)
  /\ Hands = [c \in Consumers |-> HandAt(c)]

\* The mapped state of FifoQueue, in terms of the positions.
LEMMA AbstractState ==
  ASSUME IInv, MaxPush < Wrap
  PROVE  Mapped
<1>1. Queue = QueueAt
  <2>1. CASE producer.pc = "dropped"
    BY <2>1 DEF Queue, QueueAt
  <2>2. CASE producer.pc # "dropped"
    <3>1. /\ filled_slots(tail, blocked) = Shown - Claimed /\ Claimed <= Shown
          /\ \A i \in 0..(Shown - Claimed - 1) :
               buffer[Slot(WrappingAdd(blocked, i))] = Claimed + i + 1
      BY <2>2, RemainingSlots
    <3>2. Shown \in Nat /\ Claimed \in Nat
      BY Numbers
    <3>3. ASSUME NEW i \in 1..(Shown - Claimed)
          PROVE  buffer[Slot(WrappingAdd(blocked, i - 1))] = Claimed + i
      <4>1. i - 1 \in 0..(Shown - Claimed - 1) /\ Claimed + (i - 1) + 1 = Claimed + i
        BY <3>1, <3>2
      <4>2. buffer[Slot(WrappingAdd(blocked, i - 1))] = Claimed + (i - 1) + 1
        BY <3>1, <4>1
      <4> QED
        BY <4>1, <4>2
    <3>4. Queue = [i \in 1..(Shown - Claimed) |-> buffer[Slot(WrappingAdd(blocked, i - 1))]]
      BY <2>2, <3>1 DEF Queue
    <3> QED
      BY <2>2, <3>3, <3>4 DEF QueueAt, Count
  <2> QED
    BY <2>1, <2>2
<1>2. Flight = Count(Shown, producer.amount)
  BY DEF Flight, Count, IInv, CursorInv
<1>3. Hands = [c \in Consumers |-> HandAt(c)]
  BY HandIs DEF Hands, HandAt, Count
<1> QED
  BY <1>1, <1>2, <1>3 DEF Mapped

\* A step that moves no value between the parts is no step of the queue.
LEMMA Stutter ==
  ASSUME Mapped, Mapped', Claimed' = Claimed, Shown' = Shown, sent' = sent, out' = out,
         producer'.amount = producer.amount,
         producer'.pc = "dropped" <=> producer.pc = "dropped",
         \A c \in Consumers : /\ Taking(c)' <=> Taking(c)
                              /\ Taking(c) => /\ From(c)' = From(c)
                                              /\ consumer'[c].amount = consumer[c].amount
  PROVE  UNCHANGED FQ!fqVars
<1>1. Queue' = Queue
  BY DEF Mapped, QueueAt, Count
<1>2. Flight' = Flight
  BY DEF Mapped, Count
<1>3. \A c \in Consumers : HandAt(c)' = HandAt(c)
  BY DEF HandAt, Count
<1>4. Hands' = Hands
  BY <1>3 DEF Mapped
<1> QED
  BY <1>1, <1>2, <1>4 DEF FQ!fqVars

\* The same, for a consumer that claims nothing before and after its step.
LEMMA LooksStutter ==
  ASSUME IInv, Mapped, Mapped', NEW c \in Consumers, NEW k, Become(c, k),
         ~Taking(c), k.pc # "take",
         UNCHANGED <<tail, stolen, blocked, buffer, sent, out, producer>>
  PROVE  UNCHANGED FQ!fqVars
<1>1. \A d \in Consumers : consumer'[d] = IF d = c THEN k ELSE consumer[d]
  BY DEF IInv, Types, Become
<1>2. Claimed' = Claimed /\ Shown' = Shown
  BY DEF Claimed, Shown, Pos
<1>3. \A d \in Consumers : /\ Taking(d)' <=> Taking(d)
                           /\ Taking(d) => consumer'[d] = consumer[d]
  BY <1>1 DEF Taking
<1>4. \A d \in Consumers : Taking(d) => /\ From(d)' = From(d)
                                        /\ consumer'[d].amount = consumer[d].amount
  BY <1>3 DEF From, Pos
<1> QED
  BY <1>2, <1>3, <1>4, Stutter

\* The room that push_batch measures is the abstract offer.
LEMMA PushBatchOffers ==
  ASSUME IInv, Mapped, Mapped', NEW n \in 1..Capacity, push_batch(n)
  PROVE  FQ!Offer(n)
<1>1. /\ producer.pc = "idle" /\ producer' = [pc |-> "write", amount |-> n, written |-> 0]
      /\ sent' = sent + n
      /\ UNCHANGED <<tail, stolen, blocked, buffer, out, consumer>>
  BY DEF push_batch
<1>2. Claimed' = Claimed /\ Shown' = Shown /\ producer'.amount = n /\ producer'.pc = "write"
  BY <1>1 DEF Claimed, Shown, Pos
<1>3. Shown \in Nat /\ producer.amount \in Nat
  BY Numbers
<1>4. producer.amount = 0 /\ Shown = sent
  <2>1. CursorInv /\ sent \in Nat
    BY Numbers DEF IInv
  <2> QED
    BY <1>1, <1>3, <2>1 DEF CursorInv
<1>5. Flight = <<>>
  BY <1>3, <1>4, CountFacts DEF Mapped
<1>6. Flight' = [i \in 1..n |-> sent + i]
  BY <1>2, <1>4 DEF Mapped, Count
<1>7. Queue' = Queue
  BY <1>1, <1>2 DEF Mapped, QueueAt, Count
<1>8. \A c \in Consumers : HandAt(c)' = HandAt(c)
  BY <1>1 DEF HandAt, Taking, From, Pos, Count
<1>9. Hands' = Hands
  BY <1>8 DEF Mapped
<1> QED
  BY <1>1, <1>5, <1>6, <1>7, <1>9 DEF FQ!Offer

\* The store of the tail is the abstract enqueue.
LEMMA PushPublishShows ==
  ASSUME IInv, MaxPush < Wrap, Mapped, Mapped', push_publish
  PROVE  FQ!Show
<1>1. /\ producer.pc = "write" /\ producer' = NoPush
      /\ UNCHANGED <<stolen, blocked, buffer, sent, out, consumer>>
  BY DEF push_publish
<1>2. Claimed' = Claimed /\ Shown' = sent /\ producer'.amount = 0 /\ producer'.pc = "idle"
  BY <1>1, PushPublish DEF Claimed, Pos, NoPush
<1>3. /\ Shown \in Nat /\ producer.amount \in Nat /\ Claimed \in Nat /\ sent \in Nat
      /\ Read \in Nat /\ Capacity \in Nat
  BY Numbers
<1>4. /\ producer.amount >= 1 /\ Shown = sent - producer.amount /\ Claimed <= Shown
      /\ Read <= Claimed /\ sent <= Read + Capacity
  BY <1>1 DEF IInv, CursorInv
<1> DEFINE m == Shown - Claimed
           n == producer.amount
<1>5. m \in Nat /\ n \in Nat /\ n >= 1 /\ Claimed + m = Shown /\ sent - Claimed = m + n
      /\ m + n <= Capacity
  BY <1>3, <1>4
<1>6. Queue = Count(Claimed, m) /\ Flight = Count(Shown, n)
  BY <1>1 DEF Mapped, QueueAt
<1>7. Queue' = Count(Claimed, m + n) /\ Flight' = Count(sent, 0)
  <2>1. Queue' = Count(Claimed', Shown' - Claimed')
    BY <1>2 DEF Mapped, QueueAt, Count
  <2>2. Flight' = Count(Shown', producer'.amount)
    BY DEF Mapped, Count
  <2> QED
    BY <1>2, <1>5, <2>1, <2>2
<1> HIDE DEF m, n
<1>8. Queue' = Queue \o Flight
  <2>1. Count(Claimed, m) \o Count(Claimed + m, n) = Count(Claimed, m + n)
    <3>1. Claimed \in Nat /\ m \in Nat /\ n \in Nat
      BY <1>3, <1>5
    <3> QED
      BY <3>1, CountConcat, Zenon
  <2>2. Claimed + m = Shown
    BY <1>5
  <2> QED
    BY <1>6, <1>7, <2>1, <2>2
<1>9. Flight # <<>> /\ Len(Queue) = m /\ Len(Flight) = n /\ Flight' = <<>>
  BY <1>3, <1>5, <1>6, <1>7, CountFacts
<1>10. \A c \in Consumers : HandAt(c)' = HandAt(c)
  BY <1>1 DEF HandAt, Taking, From, Pos, Count
<1>11. Hands' = Hands
  BY <1>10 DEF Mapped
<1> QED
  BY <1>1, <1>5, <1>8, <1>9, <1>11 DEF FQ!Show

\* The compare-and-swap that succeeds is the abstract dequeue.
LEMMA TryCasTakes ==
  ASSUME IInv, MaxPush < Wrap, Mapped, Mapped', NEW c \in Consumers, try_cas_for_pop_batch(c)
  PROVE  consumer[c].amount \in 1..Capacity /\ FQ!Take(c, consumer[c].amount)
<1> DEFINE k == consumer[c]
           m == k.amount
           n == Shown - Claimed
<1>1. /\ k.pc = "cas" /\ consumer' = [consumer EXCEPT ![c] = [k EXCEPT !.pc = "take"]]
      /\ UNCHANGED <<tail, stolen, buffer, sent, out, producer>>
  BY DEF try_cas_for_pop_batch, Become
<1>2. From(c)' = Claimed /\ Claimed' = Claimed + m
  BY TryCas
<1>3. k \in Rec /\ m \in 0..Capacity /\ Claimed \in Nat /\ Shown \in Nat /\ Capacity \in Nat
  BY Numbers
<1>4. m >= 1 /\ Until(c) <= Shown /\ producer.pc # "dropped" /\ ~Taking(c)
  BY <1>1 DEF IInv, ConsumerInv, Taking
<1>5. From(c) = Claimed /\ Until(c) = Claimed + m
  BY DEF try_cas_for_pop_batch, HeadIs, From, Until, Claimed
<1>6. consumer'[c] = [k EXCEPT !.pc = "take"] /\ \A d \in Consumers : d # c => consumer'[d] = consumer[d]
  BY <1>1 DEF IInv, Types
<1>7. consumer'[c].pc = "take" /\ consumer'[c].amount = m
  BY <1>3, <1>6 DEF Rec
<1>8. Shown' = Shown
  BY <1>1 DEF Shown, Pos
<1> HIDE DEF k, m, n
<1>9. m \in 1..Capacity /\ n \in Nat /\ m \in 0..n /\ m \in Nat
      /\ Shown - (Claimed + m) = n - m
  BY <1>3, <1>4, <1>5 DEF n
<1>10. Queue = Count(Claimed, n)
  BY <1>4 DEF Mapped, QueueAt, n
<1>11. Queue' = Count(Claimed + m, n - m)
  <2>1. producer'.pc # "dropped"
    BY <1>1, <1>4
  <2>2. Queue' = Count(Claimed', Shown' - Claimed')
    BY <2>1 DEF Mapped, QueueAt, Count
  <2> QED
    BY <1>2, <1>8, <1>9, <2>2
<1>12. HandAt(c) = <<>> /\ HandAt(c)' = Count(Claimed, m)
  <2>1. HandAt(c)' = Count(From(c)', consumer'[c].amount)
    BY <1>7 DEF HandAt, Taking, Count
  <2> QED
    BY <1>2, <1>4, <1>7, <2>1 DEF HandAt
<1>13. \A d \in Consumers : d # c => HandAt(d)' = HandAt(d)
  BY <1>6 DEF HandAt, Taking, From, Pos, Count
<1>14. Flight' = Flight
  BY <1>1, <1>8 DEF Mapped, Count
<1>15. Hands[c] = <<>> /\ Hands' = [Hands EXCEPT ![c] = Count(Claimed, m)]
  BY <1>12, <1>13 DEF Mapped
<1>16. /\ SubSeq(Queue, 1, m) = Count(Claimed, m) /\ Len(Queue) = n
       /\ SubSeq(Queue, m + 1, Len(Queue)) = Count(Claimed + m, n - m)
  <2>1. Claimed \in Nat /\ n \in Nat /\ m \in 0..n
    BY <1>3, <1>9
  <2>2. Len(Count(Claimed, n)) = n
    BY <2>1, CountFacts, Zenon
  <2>3. /\ SubSeq(Count(Claimed, n), 1, m) = Count(Claimed, m)
        /\ SubSeq(Count(Claimed, n), m + 1, Len(Count(Claimed, n))) = Count(Claimed + m, n - m)
    BY <2>1, CountSplit, Zenon
  <2> QED
    BY <1>10, <2>2, <2>3, Zenon
<1>17. sent' = sent /\ out' = out /\ m <= Len(Queue)
  BY <1>1, <1>9, <1>16
<1>18. FQ!Take(c, m)
  BY <1>11, <1>14, <1>15, <1>16, <1>17 DEF FQ!Take
<1> QED
  BY <1>9, <1>18 DEF m, k

\* Reading the slots of a claim is not seen.
LEMMA PopTakeStutters ==
  ASSUME IInv, Mapped, Mapped', NEW c \in Consumers, pop_take(c)
  PROVE  UNCHANGED FQ!fqVars
<1> DEFINE k == consumer[c]
           r == [k EXCEPT !.got = Append(@, buffer[ReadAt(c)])]
<1>1. /\ k.pc = "take" /\ consumer' = [consumer EXCEPT ![c] = r]
      /\ UNCHANGED <<tail, stolen, blocked, sent, out, producer>>
  BY DEF pop_take, Become
<1>2. k \in Rec
  BY Numbers
<1>3. r.pc = "take" /\ r.amount = k.amount /\ r.blocked = k.blocked
  BY <1>1, <1>2 DEF Rec
<1>4. \A d \in Consumers : consumer'[d] = IF d = c THEN r ELSE consumer[d]
  BY <1>1 DEF IInv, Types
<1> HIDE DEF r
<1>5. \A d \in Consumers : /\ Taking(d)' <=> Taking(d)
                           /\ From(d)' = From(d) /\ consumer'[d].amount = consumer[d].amount
  BY <1>1, <1>3, <1>4 DEF Taking, From, Pos
<1>6. Claimed' = Claimed /\ Shown' = Shown
  BY <1>1 DEF Claimed, Shown, Pos
<1> QED
  BY <1>1, <1>5, <1>6, Stutter

\* publish_stolen hands the values to the caller.
LEMMA PublishDelivers ==
  ASSUME IInv, MaxPush < Wrap, Mapped, Mapped', NEW c \in Consumers, publish_stolen(c)
  PROVE  FQ!Deliver(c)
<1> DEFINE k == consumer[c]
<1>1. /\ k.pc = "take" /\ Len(k.got) = k.amount /\ out' = out \cup Range(k.got)
      /\ consumer' = [consumer EXCEPT ![c] = NoPop]
      /\ UNCHANGED <<tail, blocked, buffer, sent, producer>>
  BY DEF publish_stolen, Become
<1>2. k.amount \in Nat /\ k.got \in Seq(Nat) /\ From(c) \in Nat
  BY Numbers
<1>3. k.amount >= 1 /\ \A i \in 1..Len(k.got) : k.got[i] = From(c) + i
  BY <1>1 DEF IInv, ConsumerInv
<1>4. Taking(c) /\ HandAt(c) = Count(From(c), k.amount)
  BY <1>1 DEF HandAt, Taking
<1>5. k.got = Count(From(c), k.amount)
  <2> DEFINE t == Count(From(c), k.amount)
  <2>1. t \in Seq(Nat) /\ Len(t) = k.amount /\ \A i \in 1..k.amount : t[i] = From(c) + i
    BY <1>2, CountFacts
  <2> HIDE DEF t, k
  <2>2. k.got = t
    BY <1>1, <1>2, <1>3, <2>1, SeqEqual
  <2> QED
    BY <2>2 DEF t
<1>6. \A d \in Consumers : consumer'[d] = IF d = c THEN NoPop ELSE consumer[d]
  BY <1>1 DEF IInv, Types
<1>7. HandAt(c)' = <<>>
  BY <1>6 DEF HandAt, Taking, NoPop
<1>8. \A d \in Consumers : d # c => HandAt(d)' = HandAt(d)
  BY <1>6 DEF HandAt, Taking, From, Pos, Count
<1>9. Hands[c] = k.got /\ Hands' = [Hands EXCEPT ![c] = <<>>]
  BY <1>4, <1>5, <1>7, <1>8 DEF Mapped
<1>10. Claimed' = Claimed /\ Shown' = Shown
  BY <1>1 DEF Claimed, Shown, Pos
<1>11. Queue' = Queue /\ Flight' = Flight
  BY <1>1, <1>10 DEF Mapped, QueueAt, Count
<1>12. Hands[c] # <<>>
  <2>1. Count(From(c), k.amount) # <<>>
    <3> HIDE DEF k
    <3>1. k.amount # 0
      BY <1>2, <1>3
    <3> QED
      BY <1>2, <3>1, CountFacts
  <2> QED
    BY <1>5, <1>9, <2>1
<1> QED
  BY <1>1, <1>9, <1>11, <1>12 DEF FQ!Deliver, FQ!Range, Range

\* Drop discards what nobody took.
LEMMA DropDiscards ==
  ASSUME IInv, MaxPush < Wrap, Mapped, Mapped', Drop
  PROVE  FQ!Discard
<1>1. /\ producer.pc = "idle" /\ \A c \in Consumers : consumer[c].pc = "idle"
      /\ out' = out \cup {buffer[i] : i \in Remaining}
      /\ producer' = [NoPush EXCEPT !.pc = "dropped"]
      /\ UNCHANGED <<tail, stolen, blocked, sent, consumer>>
  BY DEF Drop
<1>2. producer'.pc = "dropped" /\ producer'.amount = 0
  BY <1>1 DEF NoPush
<1>3. Shown \in Nat /\ Claimed \in Nat /\ producer.amount \in Nat
  BY Numbers
<1>4. producer.amount = 0
  BY <1>1, <1>3 DEF IInv, CursorInv
<1>5. Claimed' = Claimed /\ Shown' = Shown
  BY <1>1 DEF Claimed, Shown, Pos
<1>6. Flight = <<>> /\ Flight' = <<>>
  <2>1. Flight' = Count(Shown', producer'.amount)
    BY DEF Mapped, Count
  <2>2. Flight = Count(Shown, 0)
    BY <1>4 DEF Mapped
  <2> QED
    BY <1>2, <1>3, <1>5, <2>1, <2>2, CountFacts
<1>7. Queue' = <<>>
  BY <1>2 DEF Mapped, QueueAt
<1>8. \A c \in Consumers : HandAt(c) = <<>> /\ HandAt(c)' = <<>>
  BY <1>1 DEF HandAt, Taking
<1>9. Hands' = Hands /\ \A c \in Consumers : Hands[c] = <<>>
  BY <1>8 DEF Mapped
<1>10. {buffer[i] : i \in Remaining} = Range(Queue)
  <2>1. filled_slots(tail, blocked) = Shown - Claimed /\ Claimed <= Shown
    BY <1>1, RemainingSlots
  <2> DEFINE n == Shown - Claimed
             q(i) == buffer[Slot(WrappingAdd(blocked, i))]
  <2>2. Queue = [i \in 1..n |-> q(i - 1)] /\ n \in Nat
    BY <1>1, <1>3, <2>1 DEF Queue
  <2>3. Remaining = {Slot(WrappingAdd(blocked, i)) : i \in 0..(n - 1)}
    BY <2>1 DEF Remaining
  <2>4. {buffer[i] : i \in Remaining} = {q(i) : i \in 0..(n - 1)}
    BY <2>3
  <2>5. Range(Queue) = {q(i - 1) : i \in 1..n}
    BY <2>2 DEF Range
  <2> HIDE DEF n, q
  <2>6. (\A i \in 0..(n - 1) : i + 1 \in 1..n /\ (i + 1) - 1 = i) /\ \A i \in 1..n : i - 1 \in 0..(n - 1)
    BY <2>2
  <2>7. {q(i) : i \in 0..(n - 1)} = {q(i - 1) : i \in 1..n}
    BY <2>6
  <2> QED
    BY <2>4, <2>5, <2>7
<1> QED
  BY <1>1, <1>6, <1>7, <1>9, <1>10 DEF FQ!Discard, FQ!Range, Range

\* Every step of the ring is a step of FifoQueue or is not seen.
LEMMA Steps ==
  ASSUME IInv, MaxPush < Wrap, Mapped, Mapped', [Next]_vars
  PROVE  [FQ!FQNext]_(FQ!fqVars)
<1>1. CASE UNCHANGED vars
  BY <1>1 DEF vars, FQ!fqVars, Queue, Flight, Hands, HandOf
<1>2. ASSUME NEW n \in 1..Capacity, push_batch(n)
      PROVE  FQ!FQNext
  BY <1>2, PushBatchOffers DEF FQ!FQNext
<1>3. ASSUME NEW c \in Consumers, NEW n \in 1..Capacity, pop_batch(c, n)
      PROVE  UNCHANGED FQ!fqVars
  <2> DEFINE k == [pc |-> "tail", stolen |-> stolen, blocked |-> blocked,
                   amount |-> n, got |-> <<>>]
  <2>1. /\ Become(c, k) /\ ~Taking(c) /\ k.pc # "take"
        /\ UNCHANGED <<tail, stolen, blocked, buffer, sent, out, producer>>
    BY <1>3 DEF pop_batch, Taking
  <2> HIDE DEF k
  <2> QED
    BY <2>1, LooksStutter
<1>4. ASSUME NEW c \in Consumers, pop_load_tail(c)
      PROVE  UNCHANGED FQ!fqVars
  <2>1. consumer[c] \in Rec
    BY Numbers
  <2>2. \E k : /\ Become(c, k) /\ ~Taking(c) /\ k.pc # "take"
               /\ UNCHANGED <<tail, stolen, blocked, buffer, sent, out, producer>>
    <3> DEFINE x == consumer[c]
               k == IF filled_slots(tail, x.blocked) < 1 THEN NoPop
                    ELSE [x EXCEPT !.pc = "cas", !.amount = Least(@, filled_slots(tail, x.blocked))]
    <3>1. Become(c, k) /\ ~Taking(c)
          /\ UNCHANGED <<tail, stolen, blocked, buffer, sent, out, producer>>
      BY <1>4 DEF pop_load_tail, Taking
    <3>2. k.pc # "take"
      BY <2>1 DEF NoPop, Rec
    <3> HIDE DEF k
    <3> QED
      BY <3>1, <3>2
  <2> QED
    BY <2>2, LooksStutter
<1>5. ASSUME NEW c \in Consumers, cas_failed(c)
      PROVE  UNCHANGED FQ!fqVars
  <2> DEFINE k == [consumer[c] EXCEPT !.pc = "tail", !.stolen = stolen, !.blocked = blocked]
  <2>1. consumer[c] \in Rec
    BY Numbers
  <2>2. k.pc = "tail"
    BY <2>1 DEF Rec
  <2>3. /\ Become(c, k) /\ ~Taking(c)
        /\ UNCHANGED <<tail, stolen, blocked, buffer, sent, out, producer>>
    BY <1>5 DEF cas_failed, Taking
  <2> HIDE DEF k
  <2> QED
    BY <2>2, <2>3, LooksStutter
<1>6. ASSUME push_write
      PROVE  UNCHANGED FQ!fqVars
  <2>1. producer \in [pc : {"idle", "write", "dropped"}, amount : 0..Capacity, written : 0..Capacity]
    BY DEF IInv, Types
  <2>2. /\ producer'.amount = producer.amount /\ producer'.pc = producer.pc
        /\ UNCHANGED <<tail, stolen, blocked, sent, out, consumer>>
    BY <1>6, <2>1 DEF push_write
  <2>3. Claimed' = Claimed /\ Shown' = Shown
    BY <2>2 DEF Claimed, Shown, Pos
  <2>4. \A c \in Consumers : /\ Taking(c)' <=> Taking(c)
                             /\ From(c)' = From(c) /\ consumer'[c].amount = consumer[c].amount
    BY <2>2 DEF Taking, From, Pos
  <2> QED
    BY <2>2, <2>3, <2>4, Stutter
<1>7. ASSUME push_publish
      PROVE  FQ!FQNext
  BY <1>7, PushPublishShows DEF FQ!FQNext
<1>8. ASSUME Drop
      PROVE  FQ!FQNext
  BY <1>8, DropDiscards DEF FQ!FQNext
<1>9. ASSUME NEW c \in Consumers, try_cas_for_pop_batch(c)
      PROVE  FQ!FQNext
  BY <1>9, TryCasTakes DEF FQ!FQNext
<1>10. ASSUME NEW c \in Consumers, pop_take(c)
       PROVE  UNCHANGED FQ!fqVars
  BY <1>10, PopTakeStutters
<1>11. ASSUME NEW c \in Consumers, publish_stolen(c)
       PROVE  FQ!FQNext
  BY <1>11, PublishDelivers DEF FQ!FQNext
<1> QED
  BY <1>1, <1>2, <1>3, <1>4, <1>5, <1>6, <1>7, <1>8, <1>9, <1>10, <1>11 DEF Next

\* The empty ring is the empty queue.
LEMMA InitMapped == Init => FQ!FQInit
<1> SUFFICES ASSUME Init PROVE FQ!FQInit
  OBVIOUS
<1>1. /\ producer = [pc |-> "idle", amount |-> 0, written |-> 0] /\ sent = 0 /\ out = {}
      /\ tail = Start /\ blocked = Start
  BY DEF Init, NoPush
<1>2. filled_slots(tail, blocked) = 0
  BY <1>1, SubZero, SpmcAssumption DEF filled_slots
<1>3. \A c \in Consumers : HandOf(c) = <<>>
  BY DEF Init, NoPop, HandOf
<1>4. Hands = [c \in Consumers |-> <<>>]
  BY <1>3 DEF Hands
<1>5. Flight = <<>>
  <2>1. Flight = Count(0, 0)
    BY <1>1 DEF Flight, Count
  <2> QED
    BY <2>1, CountFacts
<1>6. Queue = <<>>
  <2> DEFINE q == [i \in 1..0 |-> buffer[Slot(WrappingAdd(blocked, i - 1))]]
  <2>1. Queue = q
    BY <1>1, <1>2 DEF Queue
  <2>2. q \in Seq(Nat) /\ Len(q) = 0
    OBVIOUS
  <2> QED
    BY <2>1, <2>2, EmptySeq
<1> QED
  BY <1>1, <1>4, <1>5, <1>6 DEF FQ!FQInit

\* The ring implements the bounded FIFO queue of FifoQueue: a batch becomes
\* visible at once with the store of the tail, a consumer takes the oldest values
\* with its compare-and-swap, and every value goes to one caller.
THEOREM RingIsFifo ==
  ASSUME MaxPush < Wrap
  PROVE  Spec => ImplementsFifo
<1>1. Init => FQ!FQInit
  BY InitMapped
<1>2. IInv => Mapped
  BY AbstractState
<1>3. IInv /\ Mapped /\ Mapped' /\ [Next]_vars => [FQ!FQNext]_(FQ!fqVars)
  BY Steps
<1>4. Spec => []IInv
  BY Invariance
<1> QED
  BY <1>1, <1>2, <1>3, <1>4, PTL DEF Spec, ImplementsFifo, FQ!FQSpec
=============================================================================
