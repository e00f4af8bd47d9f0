---------------------------- MODULE WorkStealing ----------------------------
(***************************************************************************)
(* What the deques of a work-stealing pool promise, without rings, cursors *)
(* or slots.  A deque is a sequence of jobs, oldest first.  Its owner adds *)
(* and removes at the end, a thief removes a batch at the front; a batch   *)
(* on its way into a deque is in the flight of the worker that moves it,   *)
(* where nobody else can see it.  WorkerQueue implements this module.      *)
(***************************************************************************)
EXTENDS Naturals, Sequences, SequencesExt

CONSTANTS Workers, Jobs, Bound    \* Bound: the most jobs a deque holds

VARIABLES
  deque,    \* the jobs of each deque, oldest first
  flight,   \* the jobs each worker is moving into a deque
  queue,    \* the pool's shared queue
  out       \* jobs that are in no queue: not submitted, or taken to be run

wsVars == <<deque, flight, queue, out>>

WSInit ==
  /\ deque = [w \in Workers |-> <<>>]
  /\ flight = [w \in Workers |-> <<>>]
  /\ queue = <<>>
  /\ out = Jobs

\* The running job spawns x.
Spawn(w, x) ==
  /\ x \in out /\ flight[w] = <<>>
  /\ out' = out \ {x}
  /\ flight' = [flight EXCEPT ![w] = <<x>>]
  /\ UNCHANGED <<deque, queue>>

Publish(w) ==
  /\ flight[w] # <<>>
  /\ Len(deque[w]) + Len(flight[w]) <= Bound
  /\ deque' = [deque EXCEPT ![w] = @ \o flight[w]]
  /\ flight' = [flight EXCEPT ![w] = <<>>]
  /\ UNCHANGED <<queue, out>>

SpillOver(w) ==
  /\ Len(flight[w]) = 1
  /\ queue' = queue \o flight[w]
  /\ flight' = [flight EXCEPT ![w] = <<>>]
  /\ UNCHANGED <<deque, out>>

PopNewest(w) ==
  /\ deque[w] # <<>> /\ flight[w] = <<>>
  /\ out' = out \cup {Last(deque[w])}
  /\ deque' = [deque EXCEPT ![w] = Front(@)]
  /\ UNCHANGED <<flight, queue>>

Pull(w, n) ==
  /\ flight[w] = <<>> /\ deque[w] = <<>>
  /\ n \in 1..Len(queue)
  /\ flight' = [flight EXCEPT ![w] = SubSeq(queue, 1, n)]
  /\ queue' = SubSeq(queue, n + 1, Len(queue))
  /\ UNCHANGED <<deque, out>>

StealOldest(w, v, n) ==
  /\ w # v
  /\ flight[w] = <<>> /\ deque[w] = <<>>
  /\ n \in 1..Len(deque[v])
  /\ flight' = [flight EXCEPT ![w] = SubSeq(deque[v], 1, n)]
  /\ deque' = [deque EXCEPT ![v] = SubSeq(@, n + 1, Len(@))]
  /\ UNCHANGED <<queue, out>>

Enqueue(x) ==
  /\ x \in out
  /\ out' = out \ {x}
  /\ queue' = Append(queue, x)
  /\ UNCHANGED <<deque, flight>>

\* The deque is dropped with the jobs it still holds.
Discard(w) ==
  /\ deque[w] # <<>> /\ \A u \in Workers : flight[u] = <<>>
  /\ out' = out \cup Range(deque[w])
  /\ deque' = [deque EXCEPT ![w] = <<>>]
  /\ UNCHANGED <<flight, queue>>

WSNext ==
  \/ \E w \in Workers, x \in Jobs : Spawn(w, x)
  \/ \E w \in Workers : Publish(w) \/ SpillOver(w) \/ PopNewest(w) \/ Discard(w)
  \/ \E w \in Workers, n \in 1..Bound : Pull(w, n)
  \/ \E w, v \in Workers, n \in 1..Bound : StealOldest(w, v, n)
  \/ \E x \in Jobs : Enqueue(x)

WSSpec == WSInit /\ [][WSNext]_wsVars
-----------------------------------------------------------------------------
Positions(s, x) == {i \in DOMAIN s : s[i] = x}

\* The places in the pool where the job x is.
Places(x) ==
  {<<"queue", i>> : i \in Positions(queue, x)} \cup
  (UNION {{<<"deque", w, i>> : i \in Positions(deque[w], x)} : w \in Workers}) \cup
  (UNION {{<<"flight", w, i>> : i \in Positions(flight[w], x)} : w \in Workers})

(***************************************************************************)
(* No job is lost and none is duplicated: a job is held in one place, or   *)
(* it is outside of the queues and held nowhere.                           *)
(***************************************************************************)
ExactlyOnce ==
  \A x \in Jobs : IF x \in out THEN Places(x) = {}
                               ELSE \E p \in Places(x) : Places(x) = {p}
=============================================================================
