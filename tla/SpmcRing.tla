------------------------------ MODULE SpmcRing ------------------------------
(***************************************************************************)
(* SpmcRingBufferFifo, the public ring with one producer and any number of *)
(* consumers, at the granularity of its atomic operations.                 *)
(*                                                                         *)
(* As in the deques of the pool, [stolen, blocked) is claimed by consumers *)
(* that still read and [blocked, tail) holds values.  Here `head` packs    *)
(* stolen and blocked in one atomic word, and the tail is an atomic of its *)
(* own: the CAS that claims slots does not compare the tail.               *)
(*                                                                         *)
(* push is push_batch of one value, pop is pop_batch of one; pop_batch_to  *)
(* differs from pop_batch in where it puts what it took.  The values are   *)
(* 1, 2, 3, ... in the order they are pushed.                              *)
(***************************************************************************)
EXTENDS Cursors, Sequences, Functions

CONSTANTS
  Consumers,   \* the threads that hold a Consumer
  Start,       \* how many values have been through the ring already
  MaxPush      \* bound: how many values the producer pushes

ASSUME SpmcAssumption == Start \in Cursor /\ MaxPush \in Nat

Empty == 0     \* content of a slot that holds no value

VARIABLES
  tail,        \* the next slot the producer writes
  stolen,      \* head, high half: slots before it have been read out
  blocked,     \* head, low half: the next slot a consumer claims
  buffer,      \* the slots
  sent,        \* the values pushed so far are 1..sent
  out,         \* values returned to a caller, or dropped with the ring
  producer,    \* where the producer is: amount slots to fill, written so far
  consumer     \* where each consumer is, its copy of the cursors, what it took

vars == <<tail, stolen, blocked, buffer, sent, out, producer, consumer>>

NoPush == [pc |-> "idle", amount |-> 0, written |-> 0]
NoPop == [pc |-> "idle", stolen |-> 0, blocked |-> 0, amount |-> 0, got |-> <<>>]

TypeOK ==
  /\ {tail, stolen, blocked} \subseteq Cursor
  /\ buffer \in [SlotIndex -> 0..MaxPush]
  /\ sent \in 0..MaxPush /\ out \subseteq 1..MaxPush
  /\ producer \in [pc : {"idle", "write", "dropped"},
                   amount : 0..Capacity, written : 0..Capacity]
  /\ \A c \in Consumers :
       LET k == consumer[c] IN
       /\ k.pc \in {"idle", "tail", "cas", "take"}
       /\ {k.stolen, k.blocked} \subseteq Cursor
       /\ k.amount \in 0..Capacity /\ Len(k.got) <= k.amount

\* The ring `new` makes, or the same ring after Start values passed through it.
Init ==
  /\ tail = Start /\ stolen = Start /\ blocked = Start
  /\ buffer = [i \in SlotIndex |-> Empty]
  /\ sent = 0 /\ out = {}
  /\ producer = NoPush
  /\ consumer = [c \in Consumers |-> NoPop]
-----------------------------------------------------------------------------
\* Mutant: counts slots as free that a consumer still reads.
FreeBlocked == empty_slots(tail, blocked)

\* Room the producer sees: it owns the tail, `stolen` may be overtaken.
FreeSlots == empty_slots(tail, stolen)

\* cursor_data() of the producer.  A push that finds no room returns.
push_batch(n) ==
  /\ producer.pc = "idle"
  /\ n \in 1..Least(FreeSlots, MaxPush - sent)
  /\ producer' = [pc |-> "write", amount |-> n, written |-> 0]
  /\ sent' = sent + n
  /\ UNCHANGED <<tail, stolen, blocked, buffer, out, consumer>>

WriteAt == Slot(WrappingAdd(tail, producer.written))

push_write ==
  /\ producer.pc = "write" /\ producer.written < producer.amount
  /\ buffer' = [buffer EXCEPT ![WriteAt] = sent - producer.amount + producer.written + 1]
  /\ producer' = [producer EXCEPT !.written = @ + 1]
  /\ UNCHANGED <<tail, stolen, blocked, sent, out, consumer>>

\* Mutant: the addition does not wrap.
TailUnwrapped == tail + producer.amount

TailAfterPush == WrappingAdd(tail, producer.amount)

push_publish ==
  /\ producer.pc = "write" /\ producer.written = producer.amount
  /\ tail' = TailAfterPush
  /\ producer' = NoPush
  /\ UNCHANGED <<stolen, blocked, buffer, sent, out, consumer>>
-----------------------------------------------------------------------------
Become(c, k) == consumer' = [consumer EXCEPT ![c] = k]

\* cursor_data() of a consumer: the head first.
pop_batch(c, max) ==
  /\ consumer[c].pc = "idle" /\ producer.pc # "dropped"
  /\ max \in 1..Capacity
  /\ Become(c, [pc |-> "tail", stolen |-> stolen, blocked |-> blocked,
                amount |-> max, got |-> <<>>])
  /\ UNCHANGED <<tail, stolen, blocked, buffer, sent, out, producer>>

\* Then the tail, which may have moved on.  The amount only ever shrinks.
pop_load_tail(c) ==
  LET k == consumer[c]
      filled == filled_slots(tail, k.blocked)
  IN /\ k.pc = "tail"
     /\ Become(c, IF filled < 1 THEN NoPop
                  ELSE [k EXCEPT !.pc = "cas", !.amount = Least(@, filled)])
     /\ UNCHANGED <<tail, stolen, blocked, buffer, sent, out, producer>>

\* Mutant: the CAS ignores the claims of others.
StolenIs(k) == stolen = k.stolen

\* The two halves of the head are compared as one word.
HeadIs(k) == stolen = k.stolen /\ blocked = k.blocked

ClaimUpTo(k) == WrappingAdd(k.blocked, k.amount)

try_cas_for_pop_batch(c) ==
  LET k == consumer[c] IN
  /\ k.pc = "cas" /\ HeadIs(k)
  /\ blocked' = ClaimUpTo(k)
  /\ Become(c, [k EXCEPT !.pc = "take"])
  /\ UNCHANGED <<tail, stolen, buffer, sent, out, producer>>

\* The head has changed, or compare_exchange_weak fails for no reason: the CAS
\* returns the head, and the tail is loaded again.
cas_failed(c) ==
  /\ consumer[c].pc = "cas"
  /\ Become(c, [consumer[c] EXCEPT !.pc = "tail", !.stolen = stolen, !.blocked = blocked])
  /\ UNCHANGED <<tail, stolen, blocked, buffer, sent, out, producer>>

ReadAt(c) == Slot(WrappingAdd(consumer[c].blocked, Len(consumer[c].got)))

\* buffer.take_at moves one value out of its slot.
pop_take(c) ==
  LET k == consumer[c] IN
  /\ k.pc = "take" /\ Len(k.got) < k.amount
  /\ Become(c, [k EXCEPT !.got = Append(@, buffer[ReadAt(c)])])
  /\ buffer' = [buffer EXCEPT ![ReadAt(c)] = Empty]
  /\ UNCHANGED <<tail, stolen, blocked, sent, out, producer>>

\* Mutant: a consumer publishes as soon as it has read.
AnyOrder(c) == TRUE

\* publish_stolen waits for the claims before its own.
MayPublish(c) == stolen = consumer[c].blocked

publish_stolen(c) ==
  LET k == consumer[c] IN
  /\ k.pc = "take" /\ Len(k.got) = k.amount
  /\ MayPublish(c)
  /\ stolen' = WrappingAdd(stolen, k.amount)
  /\ out' = out \cup Range(k.got)
  /\ Become(c, NoPop)
  /\ UNCHANGED <<tail, blocked, buffer, sent, producer>>
-----------------------------------------------------------------------------
\* The slots drop_at is called on: those between the claims and the tail.
Remaining == {Slot(WrappingAdd(blocked, i)) : i \in 0..(filled_slots(tail, blocked) - 1)}

\* Producer and Consumer borrow the ring: nobody uses it when it is dropped.
Drop ==
  /\ producer.pc = "idle" /\ \A c \in Consumers : consumer[c].pc = "idle"
  /\ out' = out \cup {buffer[i] : i \in Remaining}
  /\ buffer' = [i \in SlotIndex |-> IF i \in Remaining THEN Empty ELSE buffer[i]]
  /\ producer' = [NoPush EXCEPT !.pc = "dropped"]
  /\ UNCHANGED <<tail, stolen, blocked, sent, consumer>>

Next ==
  \/ \E n \in 1..Capacity : push_batch(n) \/ \E c \in Consumers : pop_batch(c, n)
  \/ push_write \/ push_publish \/ Drop
  \/ \E c \in Consumers :
       \/ pop_load_tail(c) \/ try_cas_for_pop_batch(c) \/ cas_failed(c)
       \/ pop_take(c) \/ publish_stolen(c)

Spec == Init /\ [][Next]_vars
-----------------------------------------------------------------------------
\* The values a consumer has claimed: those it took, then those it will take.
HandOf(c) ==
  LET k == consumer[c] IN
  IF k.pc # "take" THEN <<>>
  ELSE [i \in 1..k.amount |-> IF i <= Len(k.got) THEN k.got[i]
                              ELSE buffer[Slot(WrappingAdd(k.blocked, i - 1))]]

\* The ring as the queue it implements: what is shown and not claimed, what the
\* producer is about to show, and what each consumer has claimed.
Queue ==
  IF producer.pc = "dropped" THEN <<>>
  ELSE [i \in 1..filled_slots(tail, blocked) |-> buffer[Slot(WrappingAdd(blocked, i - 1))]]
Flight == [i \in 1..producer.amount |-> sent - producer.amount + i]
Hands == [c \in Consumers |-> HandOf(c)]

FQ == INSTANCE FifoQueue WITH
  Bound <- Capacity, queue <- Queue, flight <- Flight, hand <- Hands

(***************************************************************************)
(* The ring is a bounded FIFO queue (type documentation of                 *)
(* SpmcRingBufferFifo): batches are claimed oldest first, in their order,  *)
(* with no value lost or handed out twice, and Drop drops what is left.    *)
(***************************************************************************)
ImplementsFifo == FQ!FQSpec

(***************************************************************************)
(* The slot push_batch is about to write holds no value, and no consumer   *)
(* still has to read it (write in push, take_at in pop).                   *)
(***************************************************************************)
NoOverwrite ==
  producer.pc = "write" /\ producer.written < producer.amount =>
    /\ buffer[WriteAt] = Empty
    /\ \A c \in Consumers :
         consumer[c].pc = "take" /\ Len(consumer[c].got) < consumer[c].amount =>
           ReadAt(c) # WriteAt

(***************************************************************************)
(* A consumer takes a value, of every slot it claimed, and never what is   *)
(* left of a slot that was read before (take_at in pop and pop_batch).     *)
(***************************************************************************)
ClaimsHoldValues ==
  \A c \in Consumers : \A i \in DOMAIN HandOf(c) : HandOf(c)[i] # Empty
=============================================================================
