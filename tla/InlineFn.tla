------------------------------ MODULE InlineFn ------------------------------
(***************************************************************************)
(* A job as a value (utils/inline_fn): a closure that fits is written into *)
(* the job itself, one that does not is boxed and the box pointer written  *)
(* there.  The job is moved by copying its bytes, so nothing but the       *)
(* discipline of run_once and drop keeps the closure from being used       *)
(* twice.  `consumed` counts how often what the closure captured was moved *)
(* out or dropped; `boxes` how many boxes it has on the heap.              *)
(***************************************************************************)
EXTENDS Integers

Unmade == [consumed |-> 0, boxes |-> -1]

NewScoped(fits) == [consumed |-> 0, boxes |-> IF fits THEN 0 ELSE 1]

\* The runner of the vtable reads the closure, or its box, out of the buffer
\* and calls it: the call uses the captured values up and frees the box,
\* whether it returns or unwinds.  The dropper drops either in place.
Runner(f) == [consumed |-> f.consumed + 1, boxes |-> IF f.boxes = 0 THEN 0 ELSE f.boxes - 1]
Dropper(f) == [consumed |-> f.consumed + 1, boxes |-> IF f.boxes = 0 THEN 0 ELSE f.boxes - 1]

RunAndDrop(f) == Dropper(Runner(f))   \* mutant: run_once without ManuallyDrop

\* run_once takes the job by value and keeps its Drop from running.
RunOnce(f) == Runner(f)

\* Drop for InlineFn: a job that goes out of scope without having run.
DropUnrun(f) == Dropper(f)

Spent(f) == f.consumed = 1 /\ f.boxes = 0
=============================================================================
