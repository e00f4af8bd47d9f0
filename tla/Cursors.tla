------------------------------- MODULE Cursors -------------------------------
(***************************************************************************)
(* Cursor arithmetic of the ring buffers: CursorData (utils/cursors.rs)    *)
(* over the slots of a FixedRingBuffer (utils/fixed_ring_buffer.rs).       *)
(*                                                                         *)
(* A cursor is a u32 that only ever moves by wrapping additions and        *)
(* subtractions; a slot is the cursor masked with capacity - 1.  Wrap      *)
(* stands for 2^32, so that a small model wraps within a few operations.   *)
(***************************************************************************)
EXTENDS Integers

CONSTANTS
  Capacity,   \* number of slots of one ring
  Wrap        \* number of values a cursor can take

\* FixedRingBuffer::new refuses a capacity that is zero, is not a power of two
\* or reaches 2^31: the capacity divides 2^32 and is at most half of it.
ASSUME CursorAssumption ==
  /\ Capacity \in Nat \ {0}
  /\ Wrap \in Nat
  /\ \E k \in 2..Wrap : Wrap = k * Capacity

Cursor == 0..(Wrap - 1)

WrappingAdd(a, n) == (a + n) % Wrap
WrappingSub(a, b) == (a - b) % Wrap

\* FixedRingBuffer::at: `cursor & mask`, the mask being capacity - 1.
Slot(c) == c % Capacity

SlotIndex == 0..(Capacity - 1)

\* CursorData::filled_slots: what lies between the claim cursor and the tail.
filled_slots(tl, bl) == WrappingSub(tl, bl)

\* CursorData::empty_slots: a slot is free once `stolen` has passed it, not
\* when it is merely claimed.
empty_slots(tl, st) == WrappingAdd(WrappingSub(Capacity, tl), st)

Least(a, b) == IF a <= b THEN a ELSE b
=============================================================================
