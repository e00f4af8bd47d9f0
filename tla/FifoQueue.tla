------------------------------ MODULE FifoQueue ------------------------------
(***************************************************************************)
(* What the single-producer ring promises, without slots and cursors: a    *)
(* bounded queue of the values 1, 2, 3, ... in the order of their pushes.  *)
(* A batch becomes visible at once, a consumer takes the oldest values at  *)
(* once, and each value reaches one caller.  SpmcRing implements it.       *)
(***************************************************************************)
EXTENDS Naturals, Sequences, Functions

CONSTANTS Consumers, Bound    \* Bound: the most values the queue holds

VARIABLES
  queue,    \* values that can be taken, oldest first
  flight,   \* values the producer is about to make visible
  hand,     \* values each consumer has taken and not returned yet
  sent,     \* the values pushed so far are 1..sent
  out       \* values returned to a caller, or dropped with the queue

fqVars == <<queue, flight, hand, sent, out>>

FQInit ==
  /\ queue = <<>> /\ flight = <<>> /\ hand = [c \in Consumers |-> <<>>]
  /\ sent = 0 /\ out = {}

Offer(n) ==
  /\ flight = <<>>
  /\ flight' = [i \in 1..n |-> sent + i]
  /\ sent' = sent + n
  /\ UNCHANGED <<queue, hand, out>>

Show ==
  /\ flight # <<>> /\ Len(queue) + Len(flight) <= Bound
  /\ queue' = queue \o flight
  /\ flight' = <<>>
  /\ UNCHANGED <<hand, sent, out>>

Take(c, n) ==
  /\ hand[c] = <<>> /\ n <= Len(queue)
  /\ hand' = [hand EXCEPT ![c] = SubSeq(queue, 1, n)]
  /\ queue' = SubSeq(queue, n + 1, Len(queue))
  /\ UNCHANGED <<flight, sent, out>>

Deliver(c) ==
  /\ hand[c] # <<>>
  /\ out' = out \cup Range(hand[c])
  /\ hand' = [hand EXCEPT ![c] = <<>>]
  /\ UNCHANGED <<queue, flight, sent>>

\* The queue is dropped with the values it still holds.
Discard ==
  /\ flight = <<>> /\ \A c \in Consumers : hand[c] = <<>>
  /\ out' = out \cup Range(queue)
  /\ queue' = <<>>
  /\ UNCHANGED <<flight, hand, sent>>

FQNext ==
  \/ \E n \in 1..Bound : Offer(n) \/ \E c \in Consumers : Take(c, n)
  \/ Show \/ Discard
  \/ \E c \in Consumers : Deliver(c)

FQSpec == FQInit /\ [][FQNext]_fqVars
=============================================================================
