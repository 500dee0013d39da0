----------------------------- MODULE WorkQueue -----------------------------
(***************************************************************************)
(* The circular buffer of apps/ins-app/workqueue.c through which the       *)
(* dispatcher hands buffer indices to one worker thread.  Every operation  *)
(* runs under the queue's mutex, so each is one action.  "reply" is the    *)
(* value the last operation returned.                                      *)
(***************************************************************************)
EXTENDS Integers, Sequences

CONSTANTS Items,      \* buffer indices (BUFFER_ITEM_COUNT of them in the code)
          item_ct,    \* slots, fixed by workqueue_alloc
          Unassigned  \* WORK_QUEUE_UNASSIGNED_IDX

ASSUME ItemCtAssumption == item_ct \in Nat \ {0}

VARIABLES items, available_slots, read_idx, write_idx, reply

vars == <<items, available_slots, read_idx, write_idx, reply>>

Slots == 0..(item_ct - 1)

Advance(idx) == (idx + 1) % item_ct

\* workqueue_alloc clears the header only: the slots hold whatever malloc
\* returned.
Init ==
    /\ items \in [Slots -> Items]
    /\ available_slots = item_ct
    /\ read_idx = 0
    /\ write_idx = 0
    /\ reply = Unassigned

\* Variant with a fault: a full queue is not refused.
EnqueueNoCheck(item) ==
    /\ items' = [items EXCEPT ![write_idx] = item]
    /\ write_idx' = Advance(write_idx)
    /\ available_slots' = available_slots - 1
    /\ reply' = "OK"
    /\ UNCHANGED read_idx

workqueue_enqueue(item) ==
    \/ /\ available_slots # 0
       /\ items' = [items EXCEPT ![write_idx] = item]
       /\ write_idx' = Advance(write_idx)
       /\ available_slots' = available_slots - 1
       /\ reply' = "OK"
       /\ UNCHANGED read_idx
    \/ /\ available_slots = 0
       /\ reply' = "EBUSY"
       /\ UNCHANGED <<items, available_slots, read_idx, write_idx>>

\* Variant with a fault: the slot of a taken item is never counted free again.
DequeueKeepsSlot ==
    \/ /\ item_ct # available_slots
       /\ reply' = items[read_idx]
       /\ read_idx' = Advance(read_idx)
       /\ UNCHANGED <<items, available_slots, write_idx>>
    \/ /\ item_ct = available_slots
       /\ reply' = Unassigned
       /\ UNCHANGED <<items, available_slots, read_idx, write_idx>>

\* Variant with a fault: the index is advanced before the slot is read.
DequeueAfterAdvance ==
    \/ /\ item_ct # available_slots
       /\ reply' = items[Advance(read_idx)]
       /\ read_idx' = Advance(read_idx)
       /\ available_slots' = available_slots + 1
       /\ UNCHANGED <<items, write_idx>>
    \/ /\ item_ct = available_slots
       /\ reply' = Unassigned
       /\ UNCHANGED <<items, available_slots, read_idx, write_idx>>

workqueue_dequeue ==
    \/ /\ item_ct # available_slots
       /\ reply' = items[read_idx]
       /\ read_idx' = Advance(read_idx)
       /\ available_slots' = available_slots + 1
       /\ UNCHANGED <<items, write_idx>>
    \/ /\ item_ct = available_slots
       /\ reply' = Unassigned
       /\ UNCHANGED <<items, available_slots, read_idx, write_idx>>

workqueue_is_empty ==
    /\ reply' = IF item_ct = available_slots THEN "empty" ELSE "nonempty"
    /\ UNCHANGED <<items, available_slots, read_idx, write_idx>>

Next ==
    \/ \E item \in Items : workqueue_enqueue(item)
    \/ workqueue_dequeue
    \/ workqueue_is_empty

Spec == Init /\ [][Next]_vars
-----------------------------------------------------------------------------
Queued == item_ct - available_slots

\* What each variable may hold.
TypeOK ==
    /\ items \in [Slots -> Items]
    /\ available_slots \in 0..item_ct
    /\ read_idx \in Slots
    /\ write_idx \in Slots
    /\ reply \in Items \cup {Unassigned, "OK", "EBUSY", "empty", "nonempty"}

\* The occupied slots are exactly those from read_idx up to write_idx: the
\* two indices and the free-slot count, three separately kept values, always
\* tell the same story, through every wrap of either index.
IndicesAgree == write_idx = (read_idx + Queued) % item_ct

\* The queued items, oldest first.
Contents == [n \in 1..Queued |-> items[(read_idx + n - 1) % item_ct]]

Fifo == INSTANCE BoundedFifo WITH queue <- Contents, Capacity <- item_ct

\* The circular buffer, read from read_idx, behaves as a bounded FIFO: no
\* queued request is lost, repeated, reordered or returned stale after a
\* wrap, and EBUSY and UNASSIGNED are returned exactly when the queue is
\* full or empty.
IsFifo == Fifo!Spec
=============================================================================
