---------------------------- MODULE BatchInboxes ----------------------------
(***************************************************************************)
(* What run_batch promises about its jobs until they are taken, without    *)
(* locks: a batch appears in the inboxes as a whole, each job in one       *)
(* inbox, behind the jobs that are there; or, when its iterator panics,    *)
(* not at all.  Jobs leave an inbox one by one, oldest first.  InboxLocks  *)
(* implements this module.                                                 *)
(***************************************************************************)
EXTENDS Naturals, Sequences, Subsequences

CONSTANTS Inboxes, Batch     \* Batch: the jobs of each batch, in order

VARIABLES
  inbox,    \* the jobs of each inbox that may be taken, oldest first
  open,     \* batches that are neither published nor given up
  taken     \* jobs that have left an inbox

biVars == <<inbox, open, taken>>

BIInit ==
  /\ inbox = [m \in Inboxes |-> <<>>]
  /\ open = DOMAIN Batch
  /\ taken = {}

\* The jobs of batch b that are dealt to inbox m, in their order.
Dealt(b, target, m) ==
  Pick(Batch[b], {i \in DOMAIN Batch[b] : target[i] = m})

PublishWhole(b) ==
  /\ b \in open
  /\ open' = open \ {b}
  /\ \E target \in [DOMAIN Batch[b] -> Inboxes] :
       inbox' = [m \in Inboxes |-> inbox[m] \o Dealt(b, target, m)]
  /\ UNCHANGED taken

GiveUpBatch(b) ==
  /\ b \in open
  /\ open' = open \ {b}
  /\ UNCHANGED <<inbox, taken>>

TakeOldest(m) ==
  /\ inbox[m] # <<>>
  /\ taken' = taken \cup {Head(inbox[m])}
  /\ inbox' = [inbox EXCEPT ![m] = Tail(@)]
  /\ UNCHANGED open

BINext ==
  \/ \E b \in DOMAIN Batch : PublishWhole(b) \/ GiveUpBatch(b)
  \/ \E m \in Inboxes : TakeOldest(m)

BISpec == BIInit /\ [][BINext]_biVars
=============================================================================
