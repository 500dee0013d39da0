-------------------------- MODULE WorkQueueProofs --------------------------
(***************************************************************************)
(* Proofs about WorkQueue, for every capacity and every set of items: the  *)
(* indices and the free-slot count always agree, and the circular buffer   *)
(* implements the bounded FIFO.                                            *)
(***************************************************************************)
EXTENDS WorkQueue, TLAPS

\* One lap taken off an index that has passed the end of the buffer.
Wrap(x) == IF x < item_ct THEN x ELSE x - item_ct

\* Wrapping arithmetic: below twice the capacity, the remainder is reached by
\* at most one subtraction.
LEMMA ModOnce ==
    \A x \in 0..(2 * item_ct - 1) : x % item_ct = Wrap(x)
<1> SUFFICES ASSUME NEW x \in 0..(2 * item_ct - 1) PROVE x % item_ct = Wrap(x)
  OBVIOUS
<1>1. CASE x < item_ct
  BY <1>1, ItemCtAssumption DEF Wrap
<1>2. CASE x >= item_ct
  <2>1. x = 1 * item_ct + (x - item_ct) /\ x - item_ct \in 0..(item_ct - 1)
    BY <1>2, ItemCtAssumption
  <2> QED
    BY <2>1, <1>2, ItemCtAssumption DEF Wrap
<1> QED
  BY <1>1, <1>2, ItemCtAssumption

\* Advance stays inside the buffer and wraps at its end.
LEMMA AdvanceWraps ==
    ASSUME NEW idx \in Slots
    PROVE  /\ Advance(idx) \in Slots
           /\ Advance(idx) = IF idx + 1 < item_ct THEN idx + 1 ELSE 0
<1>1. idx + 1 \in 0..(2 * item_ct - 1)
  BY ItemCtAssumption DEF Slots
<1>2. (idx + 1) % item_ct = Wrap(idx + 1)
  BY <1>1, ModOnce, Zenon
<1> QED
  BY <1>2, ItemCtAssumption DEF Advance, Slots, Wrap

Inv == TypeOK /\ IndicesAgree

\* IndicesAgree without the remainder: the write index is ahead of the read
\* index by the number of queued items, minus one lap when that passes the
\* end of the buffer.
LEMMA IndicesAgreeLinear ==
    ASSUME TypeOK
    PROVE  IndicesAgree <=> write_idx = Wrap(read_idx + Queued)
<1>1. read_idx + Queued \in 0..(2 * item_ct - 1)
  BY ItemCtAssumption DEF TypeOK, Slots, Queued
<1>2. (read_idx + Queued) % item_ct = Wrap(read_idx + Queued)
  BY <1>1, ModOnce, Zenon
<1> QED
  BY <1>2 DEF IndicesAgree

\* Every operation keeps the types.
LEMMA TypePreserved ==
    TypeOK /\ [Next]_vars => TypeOK'
<1> SUFFICES ASSUME TypeOK, [Next]_vars PROVE TypeOK'
  OBVIOUS
<1> USE ItemCtAssumption DEF TypeOK
<1>1. ASSUME NEW item \in Items, workqueue_enqueue(item) PROVE TypeOK'
  BY <1>1, AdvanceWraps DEF workqueue_enqueue
<1>2. CASE workqueue_dequeue
  <2>1. CASE item_ct # available_slots
    <3>1. items[read_idx] \in Items /\ Advance(read_idx) \in Slots
      BY AdvanceWraps
    <3>2. available_slots + 1 \in 0..item_ct
      BY <2>1
    <3> QED
      BY <1>2, <2>1, <3>1, <3>2 DEF workqueue_dequeue
  <2>2. CASE item_ct = available_slots
    BY <1>2, <2>2 DEF workqueue_dequeue
  <2> QED
    BY <2>1, <2>2
<1>3. CASE workqueue_is_empty
  BY <1>3 DEF workqueue_is_empty
<1>4. CASE UNCHANGED vars
  BY <1>4 DEF vars
<1> QED
  BY <1>1, <1>2, <1>3, <1>4 DEF Next

\* Every operation keeps the indices and the free-slot count in agreement.
LEMMA InvPreserved ==
    Inv /\ [Next]_vars => Inv'
<1> SUFFICES ASSUME Inv, [Next]_vars PROVE Inv'
  OBVIOUS
<1>1. TypeOK /\ TypeOK'
  BY TypePreserved DEF Inv
<1>2. write_idx = Wrap(read_idx + Queued)
  BY <1>1, IndicesAgreeLinear DEF Inv
<1>3. SUFFICES (write_idx = Wrap(read_idx + Queued))'
  <2>1. (TypeOK => (IndicesAgree <=> write_idx = Wrap(read_idx + Queued)))'
    BY IndicesAgreeLinear, PTL
  <2> QED
    BY <1>1, <2>1 DEF Inv
<1>4. read_idx \in Slots /\ write_idx \in Slots /\ available_slots \in 0..item_ct
  BY <1>1 DEF TypeOK
<1>5. ASSUME NEW item \in Items, workqueue_enqueue(item)
      PROVE (write_idx = Wrap(read_idx + Queued))'
  BY <1>2, <1>4, <1>5, AdvanceWraps, ItemCtAssumption DEF workqueue_enqueue, Queued, Slots, Wrap
<1>6. CASE workqueue_dequeue
  BY <1>2, <1>4, <1>6, AdvanceWraps, ItemCtAssumption DEF workqueue_dequeue, Queued, Slots, Wrap
<1>7. CASE workqueue_is_empty
  BY <1>2, <1>7 DEF workqueue_is_empty, Queued, Wrap
<1>8. CASE UNCHANGED vars
  BY <1>2, <1>8 DEF vars, Queued, Wrap
<1> QED
  BY <1>5, <1>6, <1>7, <1>8 DEF Next

\* A new queue satisfies the invariant.
LEMMA InvInitially == Init => Inv
<1> SUFFICES ASSUME Init PROVE Inv
  OBVIOUS
<1>1. TypeOK
  BY ItemCtAssumption DEF Init, TypeOK, Slots
<1>2. IndicesAgree
  BY <1>1, IndicesAgreeLinear, ItemCtAssumption DEF Init, Queued, Wrap
<1> QED
  BY <1>1, <1>2 DEF Inv

\* The slots of the queued items: position n of the queue is read_idx plus
\* n - 1, wrapped.
LEMMA ContentsAt ==
    ASSUME TypeOK, NEW n \in 1..Queued
    PROVE  Contents[n] = items[Wrap(read_idx + n - 1)]
<1>1. read_idx + n - 1 \in 0..(2 * item_ct - 1)
  BY ItemCtAssumption DEF TypeOK, Slots, Queued
<1>2. (read_idx + n - 1) % item_ct = Wrap(read_idx + n - 1)
  BY <1>1, ModOnce, Zenon
<1> QED
  BY <1>2 DEF Contents

\* The queued items form a sequence of the queue's length.
LEMMA ContentsIsSeq ==
    ASSUME TypeOK
    PROVE  /\ Contents \in Seq(Items)
           /\ Len(Contents) = Queued
           /\ Queued \in 0..item_ct
<1>1. Queued \in 0..item_ct
  BY ItemCtAssumption DEF TypeOK, Queued
<1>2. \A n \in 1..Queued : Contents[n] \in Items
  <2> SUFFICES ASSUME NEW n \in 1..Queued PROVE Contents[n] \in Items
    OBVIOUS
  <2>1. Contents[n] = items[Wrap(read_idx + n - 1)]
    BY ContentsAt
  <2> QED
    BY <2>1, <1>1, ItemCtAssumption DEF TypeOK, Slots, Wrap
<1>3. Contents = [n \in 1..Queued |-> Contents[n]]
  BY DEF Contents
<1> QED
  BY <1>1, <1>2, <1>3

\* The two indices of workqueue.c and its free-slot count never disagree,
\* whatever the capacity and however often the indices wrap.
THEOREM IndicesAlwaysAgree == Spec => [](TypeOK /\ IndicesAgree)
<1>1. Init => Inv
  BY InvInitially
<1>2. Inv /\ [Next]_vars => Inv'
  BY InvPreserved
<1> QED
  BY <1>1, <1>2, PTL DEF Spec, Inv

\* For every size of the queue, items, indices and counts keep their types: no
\* slot outside the array is ever named.
THEOREM QueueTypeCorrect == Spec => []TypeOK
  BY IndicesAlwaysAgree, PTL

\* ContentsAt in the next state.
LEMMA ContentsAtNext ==
    TypeOK' => \A n \in 1..Queued' :
                  Contents'[n] = items'[Wrap(read_idx' + n - 1)]
<1>1. TypeOK => \A n \in 1..Queued : Contents[n] = items[Wrap(read_idx + n - 1)]
  BY ContentsAt
<1>2. (TypeOK => \A n \in 1..Queued :
                    Contents[n] = items[Wrap(read_idx + n - 1)])'
  BY <1>1, PTL
<1> QED
  BY <1>2

\* Storing at write_idx appends to the queue: no other queued slot is
\* write_idx as long as a slot is free.
LEMMA EnqueueAppends ==
    ASSUME Inv, TypeOK', NEW item \in Items,
           workqueue_enqueue(item), available_slots # 0
    PROVE  Contents' = Append(Contents, item)
<1>1. TypeOK /\ write_idx = Wrap(read_idx + Queued)
  BY IndicesAgreeLinear DEF Inv
<1>2. /\ items' = [items EXCEPT ![write_idx] = item]
      /\ read_idx' = read_idx
      /\ Queued \in 0..(item_ct - 1)
      /\ Queued' = Queued + 1
  <2>1. /\ items' = [items EXCEPT ![write_idx] = item]
        /\ read_idx' = read_idx
        /\ available_slots' = available_slots - 1
    BY DEF workqueue_enqueue
  <2>2. available_slots \in 1..item_ct
    BY <1>1, ItemCtAssumption DEF TypeOK
  <2> QED
    BY <2>1, <2>2, ItemCtAssumption DEF Queued
<1>3. Contents \in Seq(Items) /\ Len(Contents) = Queued
  BY <1>1, ContentsIsSeq
<1>4. ASSUME NEW n \in 1..Queued
      PROVE  Contents'[n] = Contents[n]
  <2>1. Wrap(read_idx + n - 1) # write_idx /\ Wrap(read_idx + n - 1) \in Slots
    BY <1>1, <1>2, ItemCtAssumption DEF TypeOK, Slots, Wrap
  <2>2. Contents'[n] = items'[Wrap(read_idx' + n - 1)]
    BY <1>2, ContentsAtNext
  <2>3. Contents[n] = items[Wrap(read_idx + n - 1)]
    BY <1>1, ContentsAt
  <2> QED
    BY <1>1, <1>2, <2>1, <2>2, <2>3 DEF TypeOK
<1>5. Contents'[Queued + 1] = item
  <2>1. Contents'[Queued + 1] = items'[Wrap(read_idx' + (Queued + 1) - 1)]
    BY <1>2, ContentsAtNext
  <2>2. read_idx' + (Queued + 1) - 1 = read_idx + Queued
    BY <1>1, <1>2 DEF TypeOK, Slots
  <2> QED
    BY <1>1, <1>2, <2>1, <2>2 DEF TypeOK
<1>6. Contents' = [n \in 1..(Queued + 1) |-> Contents'[n]]
  BY <1>2 DEF Contents
<1> QED
  BY <1>2, <1>3, <1>4, <1>5, <1>6

\* Reading at read_idx removes the head of the queue.
LEMMA DequeueTakesHead ==
    ASSUME Inv, TypeOK', workqueue_dequeue, item_ct # available_slots
    PROVE  /\ Contents # << >>
           /\ reply' = Head(Contents)
           /\ Contents' = Tail(Contents)
<1>1. TypeOK
  BY DEF Inv
<1>2. /\ items' = items
      /\ reply' = items[read_idx]
      /\ read_idx' = Wrap(read_idx + 1)
      /\ Queued \in 1..item_ct
      /\ Queued' = Queued - 1
  <2>1. /\ items' = items
        /\ reply' = items[read_idx]
        /\ read_idx' = Advance(read_idx)
        /\ available_slots' = available_slots + 1
    BY DEF workqueue_dequeue
  <2>2. available_slots \in 0..(item_ct - 1) /\ read_idx \in Slots
    BY <1>1, ItemCtAssumption DEF TypeOK
  <2>3. Advance(read_idx) = Wrap(read_idx + 1)
    BY <2>2, AdvanceWraps, ItemCtAssumption DEF Wrap, Slots
  <2>4. Queued \in 1..item_ct /\ Queued' = Queued - 1
    BY <2>1, <2>2, ItemCtAssumption DEF Queued
  <2> QED
    BY <2>1, <2>3, <2>4
<1>3. Contents \in Seq(Items) /\ Len(Contents) = Queued
  BY <1>1, ContentsIsSeq
<1>4. Contents # << >>
  BY <1>2, <1>3
<1>5. reply' = Head(Contents)
  <2>1. Contents[1] = items[Wrap(read_idx + 1 - 1)]
    BY <1>1, <1>2, ContentsAt
  <2>2. Wrap(read_idx + 1 - 1) = read_idx
    BY <1>1, ItemCtAssumption DEF TypeOK, Slots, Wrap
  <2> QED
    BY <1>2, <1>3, <1>4, <2>1, <2>2
<1>6. ASSUME NEW n \in 1..(Queued - 1)
      PROVE  Contents'[n] = Contents[n + 1]
  <2>1. Contents'[n] = items'[Wrap(read_idx' + n - 1)]
    BY <1>2, ContentsAtNext
  <2>2. Contents[n + 1] = items[Wrap(read_idx + (n + 1) - 1)]
    <3>1. n + 1 \in 1..Queued
      BY <1>2
    <3> QED
      BY <1>1, <3>1, ContentsAt
  <2>3. Wrap(read_idx' + n - 1) = Wrap(read_idx + (n + 1) - 1)
    BY <1>1, <1>2, ItemCtAssumption DEF TypeOK, Slots, Wrap
  <2> QED
    BY <1>2, <2>1, <2>2, <2>3
<1>7. Contents' = [n \in 1..(Queued - 1) |-> Contents'[n]]
  BY <1>2 DEF Contents
<1>8. Contents' = Tail(Contents)
  BY <1>2, <1>3, <1>4, <1>6, <1>7
<1> QED
  BY <1>4, <1>5, <1>8

\* workqueue.c implements the bounded FIFO, for every capacity: what is
\* enqueued comes out once, in order, and EBUSY and UNASSIGNED are returned
\* exactly when the queue is full or empty.
THEOREM ImplementsFifo == Spec => IsFifo
<1>1. Init => Fifo!Init
  <2> SUFFICES ASSUME Init PROVE Fifo!Init
    OBVIOUS
  <2>1. TypeOK /\ Queued = 0
    BY InvInitially, ItemCtAssumption DEF Inv, Init, Queued
  <2>2. Contents = << >>
    BY <2>1, ContentsIsSeq
  <2> QED
    BY <2>2 DEF Init, Fifo!Init
<1>2. Inv /\ [Next]_vars => [Fifo!Next]_Fifo!vars
  <2> SUFFICES ASSUME Inv, [Next]_vars PROVE [Fifo!Next]_Fifo!vars
    OBVIOUS
  <2>1. TypeOK /\ TypeOK'
    BY InvPreserved DEF Inv
  <2>2. Contents \in Seq(Items) /\ Len(Contents) = Queued
    BY <2>1, ContentsIsSeq
  <2>3. ASSUME NEW item \in Items, workqueue_enqueue(item)
        PROVE  Fifo!Enqueue(item)
    <3>1. CASE available_slots # 0
      <4>1. Contents' = Append(Contents, item)
        BY <2>1, <2>3, <3>1, EnqueueAppends
      <4>2. Len(Contents) < item_ct /\ reply' = "OK"
        BY <2>1, <2>2, <2>3, <3>1, ItemCtAssumption
           DEF workqueue_enqueue, Queued, TypeOK
      <4> QED
        BY <4>1, <4>2 DEF Fifo!Enqueue
    <3>2. CASE available_slots = 0
      <4>1. Len(Contents) = item_ct /\ reply' = "EBUSY"
        BY <2>1, <2>2, <2>3, <3>2, ItemCtAssumption
           DEF workqueue_enqueue, Queued, TypeOK
      <4>2. Contents' = Contents
        BY <2>3, <3>2 DEF workqueue_enqueue, Contents, Queued
      <4> QED
        BY <4>1, <4>2 DEF Fifo!Enqueue
    <3> QED
      BY <3>1, <3>2
  <2>4. ASSUME workqueue_dequeue PROVE Fifo!Dequeue
    <3>1. CASE item_ct # available_slots
      BY <2>1, <2>4, <3>1, DequeueTakesHead DEF Fifo!Dequeue
    <3>2. CASE item_ct = available_slots
      <4>1. Contents = << >>
        BY <2>1, <2>2, <3>2, ItemCtAssumption DEF Queued, TypeOK
      <4>2. Contents' = Contents /\ reply' = Unassigned
        BY <2>4, <3>2 DEF workqueue_dequeue, Contents, Queued
      <4> QED
        BY <4>1, <4>2 DEF Fifo!Dequeue
    <3> QED
      BY <3>1, <3>2
  <2>5. ASSUME workqueue_is_empty PROVE Fifo!IsEmpty
    <3>1. Contents' = Contents
      BY <2>5 DEF workqueue_is_empty, Contents, Queued
    <3>2. (item_ct = available_slots) <=> (Contents = << >>)
      BY <2>1, <2>2, ItemCtAssumption DEF Queued, TypeOK
    <3> QED
      BY <2>5, <3>1, <3>2 DEF workqueue_is_empty, Fifo!IsEmpty
  <2>6. CASE UNCHANGED vars
    <3>1. Contents' = Contents /\ reply' = reply
      BY <2>6 DEF vars, Contents, Queued
    <3> QED
      BY <3>1 DEF Fifo!vars
  <2> QED
    BY <2>3, <2>4, <2>5, <2>6 DEF Next, Fifo!Next
<1>3. Spec => []Inv
  BY InvInitially, InvPreserved, PTL DEF Spec
<1> QED
  BY <1>1, <1>2, <1>3, PTL DEF Spec, IsFifo, Fifo!Spec
=============================================================================
