---------------------------- MODULE BoundedFifo ----------------------------
(***************************************************************************)
(* What a worker thread's queue promises the dispatcher and the worker: a  *)
(* first-in first-out queue of at most Capacity buffer indices.  "reply"   *)
(* is what the last call returned to its caller.                           *)
(***************************************************************************)
EXTENDS Naturals, Sequences

CONSTANTS Items,      \* the buffer indices that can be queued
          Capacity,   \* the most indices the queue holds
          Unassigned  \* what a caller gets from an empty queue

VARIABLES queue, reply

vars == <<queue, reply>>

Init == queue = << >> /\ reply = Unassigned

\* A full queue refuses the item and is left as it was.
Enqueue(item) ==
    \/ /\ Len(queue) < Capacity
       /\ queue' = Append(queue, item)
       /\ reply' = "OK"
    \/ /\ Len(queue) = Capacity
       /\ reply' = "EBUSY"
       /\ UNCHANGED queue

\* An empty queue yields Unassigned and stays empty.
Dequeue ==
    \/ /\ queue # << >>
       /\ reply' = Head(queue)
       /\ queue' = Tail(queue)
    \/ /\ queue = << >>
       /\ reply' = Unassigned
       /\ UNCHANGED queue

IsEmpty ==
    /\ reply' = IF queue = << >> THEN "empty" ELSE "nonempty"
    /\ UNCHANGED queue

Next == (\E item \in Items : Enqueue(item)) \/ Dequeue \/ IsEmpty

Spec == Init /\ [][Next]_vars
=============================================================================
