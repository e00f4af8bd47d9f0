---------------------------- MODULE CursorsProofs ----------------------------
(***************************************************************************)
(* What the proofs about the rings need of the cursor arithmetic, for      *)
(* every capacity that divides the cursor range at least twice.            *)
(***************************************************************************)
EXTENDS Cursors, TLAPS

\* The assumption on the constants, in the forms the provers use.
LEMMA CursorFacts ==
  Capacity \in Nat /\ Wrap \in Nat /\ Capacity >= 1 /\ Wrap >= 2 * Capacity
<1>1. PICK k \in 2..Wrap : Wrap = k * Capacity
  BY CursorAssumption
<1>2. Capacity \in Nat /\ Wrap \in Nat /\ Capacity >= 1
  BY CursorAssumption
<1>3. k * Capacity >= 2 * Capacity
  BY <1>1, <1>2
<1> QED
  BY <1>1, <1>2, <1>3

\* The values of a cursor make up whole rings.
LEMMA WholeRings == \E k \in Int : Wrap = k * Capacity
BY CursorAssumption

\* A wrapping addition of at most one turn, without the remainder operator.
LEMMA AddIf ==
  ASSUME NEW a \in Cursor, NEW n \in 0..Wrap
  PROVE  WrappingAdd(a, n) = IF a + n < Wrap THEN a + n ELSE a + n - Wrap
BY CursorFacts DEF Cursor, WrappingAdd

\* A wrapping subtraction of two cursors, without the remainder operator.
LEMMA SubIf ==
  ASSUME NEW a \in Cursor, NEW b \in Cursor
  PROVE  WrappingSub(a, b) = IF a >= b THEN a - b ELSE a - b + Wrap
BY CursorFacts DEF Cursor, WrappingSub

\* A multiple of the capacity within one ring of zero is zero.
LEMMA SmallMultiple ==
  ASSUME NEW n \in Int, n * Capacity < Capacity, -Capacity < n * Capacity
  PROVE  n = 0
<1>1. CASE n >= 1
  <2>1. n * Capacity >= Capacity
    BY <1>1, CursorFacts
  <2> QED
    BY <2>1, CursorFacts
<1>2. CASE n <= -1
  <2>1. n * Capacity <= -Capacity
    BY <1>2, CursorFacts
  <2> QED
    BY <2>1, CursorFacts
<1> QED
  BY <1>1, <1>2

\* A cursor is a whole number of rings and a slot.
LEMMA CursorSplit ==
  ASSUME NEW c \in Nat
  PROVE  \E q \in Int : c = q * Capacity + Slot(c)
<1>1. c = Capacity * (c \div Capacity) + (c % Capacity)
  BY CursorFacts
<1>2. (c \div Capacity) \in Int
  BY CursorFacts
<1>3. \E q \in Int : c = Capacity * q + (c % Capacity)
  BY <1>1, <1>2
<1>4. PICK q \in Int : c = Capacity * q + (c % Capacity)
  BY <1>3
<1>5. Capacity * q = q * Capacity
  BY CursorFacts
<1> QED
  BY <1>4, <1>5 DEF Slot

\* Masking with capacity - 1 ignores whole rings.
LEMMA SlotApart ==
  ASSUME NEW a \in Nat, NEW b \in Nat, NEW m \in Int,
         Slot(a) = Slot(b), a - b - m * Capacity < Capacity,
         -Capacity < a - b - m * Capacity
  PROVE  a - b = m * Capacity
<1>1. PICK p \in Int : a = p * Capacity + Slot(a)
  BY CursorSplit
<1>2. PICK q \in Int : b = q * Capacity + Slot(b)
  BY CursorSplit
<1> DEFINE n == p - q - m
<1>3. n \in Int
  OBVIOUS
<1>4. n * Capacity = p * Capacity - q * Capacity - m * Capacity
  BY CursorFacts
<1>5. Slot(a) \in Int /\ Slot(b) \in Int
  BY CursorFacts DEF Slot
<1>6. p * Capacity \in Int /\ q * Capacity \in Int /\ m * Capacity \in Int
  BY CursorFacts
<1>7. n * Capacity = a - b - m * Capacity
  BY <1>1, <1>2, <1>4, <1>5, <1>6
<1>8. n = 0
  <2> HIDE DEF n
  <2> QED
    BY <1>3, <1>7, SmallMultiple
<1> QED
  BY <1>7, <1>8, <1>6, CursorFacts

(***************************************************************************)
(* Distinct places of one ring are distinct slots, also where the cursor   *)
(* wraps: the capacity divides the range of the cursor.                    *)
(***************************************************************************)
THEOREM SlotInjective ==
  ASSUME NEW s \in Cursor, NEW i \in 0..(Capacity - 1), NEW j \in 0..(Capacity - 1),
         Slot(WrappingAdd(s, i)) = Slot(WrappingAdd(s, j))
  PROVE  i = j
<1> DEFINE a == WrappingAdd(s, i)
           b == WrappingAdd(s, j)
<1>1. i \in 0..Wrap /\ j \in 0..Wrap /\ i < Capacity /\ j < Capacity
  BY CursorFacts
<1>2. a = IF s + i < Wrap THEN s + i ELSE s + i - Wrap
  BY <1>1, AddIf
<1>3. b = IF s + j < Wrap THEN s + j ELSE s + j - Wrap
  BY <1>1, AddIf
<1>4. s \in Nat /\ s < Wrap /\ Wrap \in Nat
  BY CursorFacts DEF Cursor
<1>5. a \in Nat /\ b \in Nat
  <2> HIDE DEF a, b
  <2> QED
    BY <1>1, <1>2, <1>3, <1>4
<1>6. PICK k \in Int : Wrap = k * Capacity
  BY WholeRings
<1>7. \E m \in {0, k, -k} : a - b = i - j + m * Capacity
  <2>1. 0 * Capacity = 0 /\ k * Capacity = Wrap /\ (-k) * Capacity = -Wrap
    BY <1>6, CursorFacts
  <2>2. a - b \in {i - j, i - j + Wrap, i - j - Wrap}
    <3> HIDE DEF a, b
    <3> QED
      BY <1>1, <1>2, <1>3, <1>4, <1>5
  <2> HIDE DEF a, b
  <2> QED
    BY <2>1, <2>2, <1>1, <1>4, <1>5
<1>8. PICK m \in {0, k, -k} : a - b = i - j + m * Capacity
  BY <1>7
<1>9. m \in Int /\ m * Capacity \in Int
  BY <1>6, CursorFacts
<1>10. a - b = m * Capacity
  <2>1. a - b - m * Capacity = i - j
    <3> HIDE DEF a, b
    <3> QED
      BY <1>5, <1>8, <1>9, <1>1
  <2>2. i - j < Capacity /\ -Capacity < i - j
    BY <1>1, CursorFacts
  <2>3. Slot(a) = Slot(b)
    OBVIOUS
  <2> HIDE DEF a, b
  <2> QED
    BY <2>1, <2>2, <2>3, <1>5, <1>9, SlotApart
<1> QED
  <2> HIDE DEF a, b
  <2> QED
    BY <1>5, <1>8, <1>9, <1>10, <1>1
-----------------------------------------------------------------------------
\* Cursor arithmetic without case distinctions.

\* Wrapping arithmetic stays within the cursors.
LEMMA WrapTypes ==
  /\ \A a \in Cursor, n \in 0..Capacity : WrappingAdd(a, n) \in Cursor
  /\ \A a, b \in Cursor : WrappingSub(a, b) \in Cursor
  /\ Cursor \subseteq 0..Wrap /\ 0 \in Cursor /\ 1 \in Cursor /\ Capacity \in Cursor
BY CursorFacts, AddIf, SubIf DEF Cursor

\* A distance is a natural number.
LEMMA SubNat ==
  ASSUME NEW a \in Cursor, NEW b \in Cursor
  PROVE  WrappingSub(a, b) \in Nat
BY CursorFacts, SubIf DEF Cursor

\* Moving the front cursor by n lengthens a distance by n.
LEMMA SubAdd ==
  ASSUME NEW a \in Cursor, NEW b \in Cursor, NEW n \in 0..Capacity,
         WrappingSub(a, b) + n <= Capacity
  PROVE  WrappingSub(WrappingAdd(a, n), b) = WrappingSub(a, b) + n
<1> DEFINE c == WrappingAdd(a, n)
<1>1. c \in Cursor /\ n \in 0..Wrap
  BY WrapTypes, CursorFacts
<1>2. c = IF a + n < Wrap THEN a + n ELSE a + n - Wrap
  BY <1>1, AddIf
<1> HIDE DEF c
<1>3. /\ WrappingSub(c, b) = IF c >= b THEN c - b ELSE c - b + Wrap
      /\ WrappingSub(a, b) = IF a >= b THEN a - b ELSE a - b + Wrap
  BY <1>1, SubIf
<1>4. WrappingSub(c, b) = WrappingSub(a, b) + n
  BY <1>1, <1>2, <1>3, CursorFacts DEF Cursor
<1> QED
  BY <1>4 DEF c

\* Moving the back cursor by n shortens a distance by n.
LEMMA SubAddBack ==
  ASSUME NEW a \in Cursor, NEW b \in Cursor, NEW n \in 0..Capacity,
         n <= WrappingSub(a, b)
  PROVE  WrappingSub(a, WrappingAdd(b, n)) = WrappingSub(a, b) - n
<1> DEFINE c == WrappingAdd(b, n)
<1>1. c \in Cursor /\ n \in 0..Wrap
  BY WrapTypes, CursorFacts
<1>2. c = IF b + n < Wrap THEN b + n ELSE b + n - Wrap
  BY <1>1, AddIf
<1> HIDE DEF c
<1>3. /\ WrappingSub(a, c) = IF a >= c THEN a - c ELSE a - c + Wrap
      /\ WrappingSub(a, b) = IF a >= b THEN a - b ELSE a - b + Wrap
  BY <1>1, SubIf
<1>4. WrappingSub(a, c) = WrappingSub(a, b) - n
  BY <1>1, <1>2, <1>3, CursorFacts DEF Cursor
<1> QED
  BY <1>4 DEF c

\* Taking one back from the front cursor.
LEMMA SubDecrement ==
  ASSUME NEW a \in Cursor, NEW b \in Cursor, WrappingSub(a, b) >= 1
  PROVE  WrappingSub(WrappingSub(a, 1), b) = WrappingSub(a, b) - 1
<1> DEFINE c == WrappingSub(a, 1)
<1>1. c \in Cursor /\ 1 \in Cursor
  BY WrapTypes
<1>2. c = IF a >= 1 THEN a - 1 ELSE a - 1 + Wrap
  BY <1>1, SubIf
<1> HIDE DEF c
<1>3. /\ WrappingSub(c, b) = IF c >= b THEN c - b ELSE c - b + Wrap
      /\ WrappingSub(a, b) = IF a >= b THEN a - b ELSE a - b + Wrap
  BY <1>1, SubIf
<1>4. WrappingSub(c, b) = WrappingSub(a, b) - 1
  BY <1>1, <1>2, <1>3, CursorFacts DEF Cursor
<1> QED
  BY <1>4 DEF c

\* Equal cursors, and only those, are at distance zero.
LEMMA SubZero ==
  ASSUME NEW a \in Cursor, NEW b \in Cursor
  PROVE  WrappingSub(a, b) = 0 <=> a = b
BY CursorFacts, SubIf DEF Cursor

\* A cursor n places behind c, seen from s.
LEMMA AddFrom ==
  ASSUME NEW s \in Cursor, NEW c \in Cursor, NEW n \in 0..Capacity,
         WrappingSub(c, s) + n <= Capacity
  PROVE  WrappingAdd(c, n) = WrappingAdd(s, WrappingSub(c, s) + n)
<1>1. WrappingSub(c, s) + n \in 0..Wrap /\ n \in 0..Wrap
  BY WrapTypes, CursorFacts DEF Cursor
<1>2. WrappingAdd(c, n) = IF c + n < Wrap THEN c + n ELSE c + n - Wrap
  BY <1>1, AddIf
<1>3. WrappingAdd(s, WrappingSub(c, s) + n)
      = IF s + (WrappingSub(c, s) + n) < Wrap THEN s + (WrappingSub(c, s) + n)
        ELSE s + (WrappingSub(c, s) + n) - Wrap
  BY <1>1, AddIf
<1>4. WrappingSub(c, s) = IF c >= s THEN c - s ELSE c - s + Wrap
  BY SubIf
<1> QED
  BY <1>1, <1>2, <1>3, <1>4, CursorFacts DEF Cursor

\* Two distances that fit one ring add up.
LEMMA SubChain ==
  ASSUME NEW t \in Cursor, NEW b \in Cursor, NEW s \in Cursor,
         WrappingSub(b, s) + WrappingSub(t, b) <= Capacity
  PROVE  WrappingSub(t, s) = WrappingSub(b, s) + WrappingSub(t, b)
<1>1. /\ WrappingSub(t, s) = IF t >= s THEN t - s ELSE t - s + Wrap
      /\ WrappingSub(b, s) = IF b >= s THEN b - s ELSE b - s + Wrap
      /\ WrappingSub(t, b) = IF t >= b THEN t - b ELSE t - b + Wrap
  BY SubIf
<1> QED
  BY <1>1, CursorFacts DEF Cursor

\* empty_slots is what claimed and filled slots leave of the ring.
LEMMA EmptySlots ==
  ASSUME NEW t \in Cursor, NEW b \in Cursor, NEW s \in Cursor,
         WrappingSub(b, s) + WrappingSub(t, b) <= Capacity
  PROVE  empty_slots(t, s) = Capacity - WrappingSub(b, s) - WrappingSub(t, b)
<1>1. WrappingSub(Capacity, t) \in Cursor /\ Capacity \in Cursor
  BY WrapTypes
<1>2. s \in 0..Wrap
  BY WrapTypes
<1>3. WrappingAdd(WrappingSub(Capacity, t), s)
      = IF WrappingSub(Capacity, t) + s < Wrap THEN WrappingSub(Capacity, t) + s
        ELSE WrappingSub(Capacity, t) + s - Wrap
  BY <1>1, <1>2, AddIf
<1>4. /\ WrappingSub(Capacity, t)
           = IF Capacity >= t THEN Capacity - t ELSE Capacity - t + Wrap
      /\ WrappingSub(t, s) = IF t >= s THEN t - s ELSE t - s + Wrap
  BY <1>1, SubIf
<1>5. WrappingSub(t, s) = WrappingSub(b, s) + WrappingSub(t, b)
  BY SubChain
<1>6. empty_slots(t, s) = Capacity - WrappingSub(t, s)
  BY <1>3, <1>4, <1>5, CursorFacts DEF Cursor, empty_slots
<1> QED
  BY <1>5, <1>6, CursorFacts, WrapTypes DEF Cursor
=============================================================================
