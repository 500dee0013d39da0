------------------------- MODULE InsDispatchProofs -------------------------
(***************************************************************************)
(* Proofs about InsDispatch, for any number of threads, buffers and        *)
(* requests: a worker's semaphore always counts the items in its queue,    *)
(* and its oplock is posted exactly once for each time it is acquired.     *)
(***************************************************************************)
EXTENDS InsDispatch, SequenceTheorems, WellFoundedInduction, TLAPS

\* A set of naturals with an element has a least one, which Min returns.
LEMMA MinIsElement ==
    ASSUME NEW S, S \subseteq Nat, S # {}
    PROVE  Min(S) \in S
<1>1. PICK x \in S : \A y \in S : ~(<<y, x>> \in OpToRel(<, Nat))
  BY WFMin, NatLessThanWellFounded, Zenon
<1>2. \A y \in S : y \in Nat /\ x \in Nat /\ ~(y < x)
  BY <1>1, Zenon DEF OpToRel
<1>3. \A y \in S : x =< y
  BY <1>2
<1> QED
  BY <1>3, Zenon DEF Min

\* The step of each operation ends the item's hold on the oplock and leaves
\* the queues and the buffers of the executors alone.
LEMMA OperationFrame ==
    ASSUME NEW e \in Executors, Operation(e)
    PROVE  release_oplock(e) /\ UNCHANGED <<queueVars, buf>>
<1> USE DEF EndOperation
<1>1. CASE xe_net_create_socket(e)
  BY <1>1, Zenon DEF xe_net_create_socket
<1>2. CASE xe_net_accept_socket(e)
  BY <1>2, Zenon DEF xe_net_accept_socket
<1>3. CASE xe_net_bind_socket(e)
  BY <1>3, Zenon DEF xe_net_bind_socket
<1>4. CASE xe_net_close_socket(e)
  BY <1>4, Zenon DEF xe_net_close_socket
<1>5. CASE xe_net_recv_socket(e)
  BY <1>5, Zenon DEF xe_net_recv_socket
<1>6. CASE xe_net_send_socket(e)
  BY <1>6, Zenon DEF xe_net_send_socket
<1>7. ASSUME NEW types, PlainOperation(e, types)
      PROVE  release_oplock(e) /\ UNCHANGED <<queueVars, buf>>
  BY <1>7, Zenon DEF PlainOperation
<1>8. CASE xe_net_connect_socket(e) \/ xe_net_listen_socket(e)
             \/ xe_net_shutdown_socket(e) \/ xe_net_sock_attrib(e)
             \/ xe_net_get_name(e)
  BY <1>7, <1>8, Zenon DEF xe_net_connect_socket, xe_net_listen_socket,
     xe_net_shutdown_socket, xe_net_sock_attrib, xe_net_get_name
<1>9. CASE xe_net_addr_block(e)
  BY <1>9, Zenon DEF xe_net_addr_block
<1>10. CASE xe_pollset_query(e)
  BY <1>10, Zenon DEF xe_pollset_query
<1> QED
  BY <1>1, <1>2, <1>3, <1>4, <1>5, <1>6, <1>8, <1>9, <1>10, Zenon DEF Operation
-----------------------------------------------------------------------------
\* The inductive invariant for the queues: what the queues hold comes from the
\* buffers the executors work on.
QueueInv ==
    /\ work_queue \in [Threads -> Seq(Buffers \cup {None})]
    /\ awaiting_work_sem \in [Threads -> Nat]
    /\ buf \in [Executors -> Buffers \cup {None}]
    /\ SemaphoreCountsWork

\* No queue holds anything at first.
LEMMA QueueInvInitially == Init => QueueInv
  BY DEF Init, QueueInv, SemaphoreCountsWork

\* A step that changes neither the queues nor an executor's buffer.
LEMMA QueueInvFrame ==
    ASSUME QueueInv, UNCHANGED <<queueVars, buf>>
    PROVE  QueueInv'
  BY DEF QueueInv, SemaphoreCountsWork, queueVars

\* A step that only takes up or puts down a buffer.
LEMMA QueueInvBuffer ==
    ASSUME QueueInv, UNCHANGED queueVars, NEW e \in Executors,
           NEW b \in Buffers \cup {None}, buf' = [buf EXCEPT ![e] = b]
    PROVE  QueueInv'
  BY DEF QueueInv, SemaphoreCountsWork, queueVars

\* The item and the post go together, as do the wait and the item.
LEMMA QueueInvPreserved ==
    QueueInv /\ [Next]_vars => QueueInv'
<1> SUFFICES ASSUME QueueInv, [Next]_vars PROVE QueueInv'
  OBVIOUS
<1>0. Dispatcher \in Executors /\ Threads \subseteq Executors
      /\ None \in Buffers \cup {None}
  BY DEF Executors
<1>1. CASE reserve_available_buffer_item
  <2>1. CASE Buffers \ buf_in_use = {}
    BY <1>1, <2>1, QueueInvFrame, Zenon DEF reserve_available_buffer_item
  <2>2. CASE Buffers \ buf_in_use # {}
    <3>1. Buffers \ buf_in_use \subseteq Nat
      BY DEF Buffers
    <3>2. Min(Buffers \ buf_in_use) \in Buffers \cup {None}
      BY <2>2, <3>1, MinIsElement, Zenon
    <3>3. /\ UNCHANGED queueVars
          /\ buf' = [buf EXCEPT ![Dispatcher] = Min(Buffers \ buf_in_use)]
      BY <1>1, <2>2, Zenon DEF reserve_available_buffer_item
    <3> QED
      BY <1>0, <3>2, <3>3, QueueInvBuffer, Zenon
  <2> QED
    BY <2>1, <2>2
<1>2. CASE \E r \in Requests : ReadRequest(r)
  BY <1>2, QueueInvFrame, Zenon DEF ReadRequest
<1>3. CASE assign_work_to_thread
  BY <1>3, QueueInvFrame, Zenon DEF assign_work_to_thread
<1>4. CASE AcquireOplock
  BY <1>4, QueueInvFrame, Zenon DEF AcquireOplock
<1>5. CASE Enqueue
  <2> DEFINE t == WorkerOf(Dispatcher)
             b == buf[Dispatcher]
  <2>1. /\ work_queue' = [work_queue EXCEPT ![t] = Append(@, b)]
        /\ awaiting_work_sem' = [awaiting_work_sem EXCEPT ![t] = @ + 1]
        /\ buf' = [buf EXCEPT ![Dispatcher] = None]
    BY <1>5 DEF Enqueue
  <2>2. b \in Buffers \cup {None}
    BY <1>0 DEF QueueInv
  <2> HIDE DEF t, b
  <2>3. CASE t \in Threads
    <3>1. /\ Append(work_queue[t], b) \in Seq(Buffers \cup {None})
          /\ Len(Append(work_queue[t], b)) = Len(work_queue[t]) + 1
      BY <2>2, <2>3, AppendProperties DEF QueueInv
    <3> QED
      BY <1>0, <2>1, <2>3, <3>1 DEF QueueInv, SemaphoreCountsWork
  <2>4. CASE t \notin Threads
    <3>1. UNCHANGED queueVars
      BY <2>1, <2>4 DEF QueueInv, queueVars
    <3> QED
      BY <1>0, <2>1, <3>1, QueueInvBuffer, Zenon
  <2> QED
    BY <2>3, <2>4
<1>6. CASE send_dispatch_error_response
  BY <1>0, <1>6, QueueInvBuffer, Zenon DEF send_dispatch_error_response
<1>7. ASSUME NEW t \in Threads, BeginWork(t) PROVE QueueInv'
  <2>1. /\ awaiting_work_sem[t] > 0
        /\ awaiting_work_sem' = [awaiting_work_sem EXCEPT ![t] = @ - 1]
    BY <1>7 DEF BeginWork
  <2>2. work_queue[t] \in Seq(Buffers \cup {None}) /\ work_queue[t] # <<>>
    BY <2>1 DEF QueueInv, SemaphoreCountsWork
  <2>3. /\ work_queue' = [work_queue EXCEPT ![t] = Tail(@)]
        /\ buf' = [buf EXCEPT ![t] = Head(work_queue[t])]
    BY <1>7, <2>2 DEF BeginWork
  <2>4. /\ Head(work_queue[t]) \in Buffers \cup {None}
        /\ Tail(work_queue[t]) \in Seq(Buffers \cup {None})
        /\ Len(Tail(work_queue[t])) = Len(work_queue[t]) - 1
    BY <2>2, HeadTailProperties, Zenon
  <2> QED
    BY <1>0, <2>1, <2>2, <2>3, <2>4 DEF QueueInv, SemaphoreCountsWork
<1>8. ASSUME NEW e \in Executors, Process(e) PROVE QueueInv'
  <2>1. CASE Operation(e)
    BY <2>1, OperationFrame, QueueInvFrame, Zenon
  <2>2. CASE PublishPorts(e) \/ WriteResponse(e)
    BY <2>2, QueueInvFrame, Zenon DEF PublishPorts, WriteResponse
  <2>3. CASE FinishItem(e)
    <3>1. CASE ReportsError(e)
      BY <2>3, <3>1, QueueInvFrame, Zenon DEF FinishItem
    <3>2. CASE ~ReportsError(e)
      BY <1>0, <2>3, <3>2, QueueInvBuffer, Zenon DEF FinishItem
    <3> QED
      BY <3>1, <3>2
  <2> QED
    BY <1>8, <2>1, <2>2, <2>3 DEF Process
<1>9. CASE UNCHANGED vars
  BY <1>9, QueueInvFrame, Zenon DEF vars, threadVars
<1> QED
  BY <1>1, <1>2, <1>3, <1>4, <1>5, <1>6, <1>7, <1>8, <1>9 DEF Next, Dispatch

\* For any number of threads and buffers, the semaphore that
\* message_dispatcher posts and worker_thread_func waits on always counts the
\* items of the worker's queue: no wake-up without work, no work without one.
THEOREM SemaphoreAlwaysCountsWork == Spec => []SemaphoreCountsWork
<1>1. QueueInv => SemaphoreCountsWork
  BY DEF QueueInv
<1> QED
  BY <1>1, QueueInvInitially, QueueInvPreserved, PTL DEF Spec
-----------------------------------------------------------------------------
\* The inductive invariant for the oplocks.
OplockInv ==
    /\ oplock \in [Threads -> Int]
    /\ oplock_acquired \in [Threads -> BOOLEAN]
    /\ OplockHeldOnce

\* Every oplock is free at first.
LEMMA OplockInvInitially == Init => OplockInv
  BY DEF Init, OplockInv, OplockHeldOnce

\* A step that leaves the oplocks alone.
LEMMA OplockInvFrame ==
    ASSUME OplockInv, UNCHANGED oplockVars
    PROVE  OplockInv'
  BY DEF OplockInv, OplockHeldOnce, oplockVars

\* Acquiring and releasing change the semaphore and the flag together.
LEMMA OplockInvPreserved ==
    OplockInv /\ [Next]_vars => OplockInv'
<1> SUFFICES ASSUME OplockInv, [Next]_vars PROVE OplockInv'
  OBVIOUS
<1>1. CASE AcquireOplock
  <2> DEFINE t == WorkerOf(Dispatcher)
  <2>1. /\ oplock[t] > 0
        /\ oplock' = [oplock EXCEPT ![t] = @ - 1]
        /\ oplock_acquired' = [oplock_acquired EXCEPT ![t] = TRUE]
    BY <1>1 DEF AcquireOplock
  <2> HIDE DEF t
  <2>2. CASE t \in Threads
    BY <2>1, <2>2 DEF OplockInv, OplockHeldOnce
  <2>3. CASE t \notin Threads
    BY <2>1, <2>3, OplockInvFrame DEF OplockInv, oplockVars
  <2> QED
    BY <2>2, <2>3
<1>2. ASSUME NEW e \in Executors, release_oplock(e) PROVE OplockInv'
  <2> DEFINE t == WorkerOf(e)
  <2>1. CASE t # None /\ oplock_acquired[t]
    <3>1. /\ oplock_acquired' = [oplock_acquired EXCEPT ![t] = FALSE]
          /\ oplock' = [oplock EXCEPT ![t] = @ + 1]
      BY <1>2, <2>1 DEF release_oplock
    <3>2. oplock_acquired[t]
      BY <2>1
    <3> HIDE DEF t
    <3>3. CASE t \in Threads
      BY <3>1, <3>2, <3>3 DEF OplockInv, OplockHeldOnce
    <3>4. CASE t \notin Threads
      BY <3>1, <3>4, OplockInvFrame DEF OplockInv, oplockVars
    <3> QED
      BY <3>3, <3>4
  <2>2. CASE ~(t # None /\ oplock_acquired[t])
    BY <1>2, <2>2, OplockInvFrame, Zenon DEF release_oplock
  <2> QED
    BY <2>1, <2>2
<1>3. CASE reserve_available_buffer_item \/ assign_work_to_thread \/ Enqueue
             \/ send_dispatch_error_response
  BY <1>3, OplockInvFrame, Zenon DEF reserve_available_buffer_item,
     assign_work_to_thread, Enqueue, send_dispatch_error_response
<1>4. CASE \E r \in Requests : ReadRequest(r)
  BY <1>4, OplockInvFrame, Zenon DEF ReadRequest
<1>5. CASE \E t \in Threads : BeginWork(t)
  BY <1>5, OplockInvFrame, Zenon DEF BeginWork
<1>6. ASSUME NEW e \in Executors, Process(e) PROVE OplockInv'
  <2>1. CASE Operation(e)
    BY <2>1, <1>2, OperationFrame, Zenon
  <2>2. CASE PublishPorts(e) \/ WriteResponse(e) \/ FinishItem(e)
    BY <2>2, OplockInvFrame, Zenon DEF PublishPorts, WriteResponse, FinishItem
  <2> QED
    BY <1>6, <2>1, <2>2 DEF Process
<1>7. CASE UNCHANGED vars
  BY <1>7, OplockInvFrame, Zenon DEF vars
<1> QED
  BY <1>1, <1>3, <1>4, <1>5, <1>6, <1>7 DEF Next, Dispatch

\* For any number of threads and in any order of requests, the oplock that
\* assign_work_to_thread acquires and process_buffer_item releases is at 0
\* when its flag says it is acquired and at 1 otherwise, although the release
\* looks only at the flag and not at who set it.
THEOREM OplockAlwaysHeldOnce == Spec => []OplockHeldOnce
<1>1. OplockInv => OplockHeldOnce
  BY DEF OplockInv
<1> QED
  BY <1>1, OplockInvInitially, OplockInvPreserved, PTL DEF Spec
=============================================================================
