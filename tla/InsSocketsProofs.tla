-------------------------- MODULE InsSocketsProofs --------------------------
(***************************************************************************)
(* Sockets and worker threads in the INS application (InsDispatch), for    *)
(* every number of threads, buffers and requests and every mix of failing  *)
(* calls: a descriptor the PVM holds is served, the count of sockets is    *)
(* right up to the failed creates and accepts, XenStore names the bound    *)
(* ports, and only address blocking strands a thread.                      *)
(*                                                                         *)
(* LiveFdIsServed is not inductive.  A socket is named by the request that *)
(* opens it, so that request must not have opened one before (Fresh); what *)
(* the dispatcher does to a thread must be what its request asked for on   *)
(* the thread it was given (Asked, Creating, Closing), while workers open  *)
(* sockets for other threads in between (Served).                          *)
(***************************************************************************)
EXTENDS InsItemsProofs

\* Where the dispatcher has not performed the request yet, where it has a
\* thread for it, and where it has performed it.
Started == {"assign", "oplock", "enqueue", "operate"}
Doing   == {"oplock", "enqueue", "operate", "publish", "respond", "finish"}
Done    == {"publish", "respond", "finish"}

\* The requests that are yet to be performed, or even to be read.
Pending ==
    {i \in Ids :
       \/ i > Len(req)
       \/ \E t \in Threads : \E n \in Queue(t) : region[work_queue[t][n]] = i
       \/ \E e \in Executors : pc[e] \in Started /\ IdOf(e) = i}

\* No socket is named by request i, and it has not failed.
Unopened(i) ==
    i \notin open /\ i \notin failed /\ \A t \in Threads : local_fd[t] # i

\* A request opens nothing before it is performed.
Fresh == \A i \in Pending : Unopened(i)
-----------------------------------------------------------------------------
\* A request that has been performed is not pending.
LEMMA NotPending ==
    ASSUME ItemInv, NEW e \in Executors, pc[e] \notin Idle \cup Started \cup {"read"}
    PROVE  IdOf(e) \notin Pending
<1>1. pc[e] \notin Idle \cup {"read"}
  OBVIOUS
<1>2. IdOf(e) \in 1..Len(req) /\ Len(req) \in Nat
  BY <1>1, HeldIds, LenProperties DEF ItemInv, ItemTypes
<1>3. \A t \in Threads : \A n \in Queue(t) : region[work_queue[t][n]] # IdOf(e)
  BY <1>1, QueuedApart
<1>4. ASSUME NEW f \in Executors, pc[f] \in Started, IdOf(f) = IdOf(e) PROVE FALSE
  <2>1. pc[f] \notin Idle \cup {"read"} /\ f # e
    BY <1>4 DEF Started, Idle
  <2> QED
    BY <1>1, <1>4, <2>1, HeldApart
<1> QED
  BY <1>2, <1>3, <1>4 DEF Pending

\* What is pending has been pending all along.
LEMMA PendingShrinks ==
    ASSUME ItemInv, Next
    PROVE  Pending' \subseteq Pending
<1> SUFFICES ASSUME NEW i \in Pending' PROVE i \in Pending
  OBVIOUS
<1>0. i \in Ids /\ Len(req) \in Nat
  BY LenProperties DEF Pending, ItemInv, ItemTypes
<1>1. ASSUME NEW e \in Executors, UNCHANGED <<req, region, work_queue>>,
             pc'[e] \in Started => pc[e] \in Started /\ buf'[e] = buf[e],
             \A f \in Executors \ {e} : pc'[f] = pc[f] /\ buf'[f] = buf[f]
      PROVE  i \in Pending
  <2>1. \A t \in Threads : Queue(t)' = Queue(t)
    BY <1>1 DEF Queue
  <2>2. \A f \in Executors : pc'[f] \in Started =>
          pc[f] \in Started /\ IdOf(f)' = IdOf(f)
    BY <1>1 DEF IdOf
  <2> QED
    BY <1>1, <2>1, <2>2 DEF Pending
<1>2. CASE reserve_available_buffer_item
  <2>1. /\ UNCHANGED <<req, region, work_queue>>
        /\ \/ UNCHANGED <<buf, pc>>
           \/ \E b : /\ buf' = [buf EXCEPT ![Dispatcher] = b]
                     /\ Goto(Dispatcher, "read")
    BY <1>2, Zenon DEF reserve_available_buffer_item, pvmVars, queueVars
  <2>2. /\ pc'[Dispatcher] \in {"reserve", "read"}
        /\ \A f \in Executors \ {Dispatcher} : pc'[f] = pc[f] /\ buf'[f] = buf[f]
    BY <1>2, <2>1, Names
       DEF reserve_available_buffer_item, ItemInv, ItemTypes, Goto
  <2>3. pc'[Dispatcher] \notin Started
    BY <2>2 DEF Started
  <2> QED
    BY <1>1, <2>1, <2>2, <2>3, Names
<1>3. ASSUME NEW r \in Requests, ReadRequest(r) PROVE i \in Pending
  <2>1. PICK b \in Buffers : b = buf[Dispatcher]
    BY <1>3, Names DEF ReadRequest, ItemInv, ItemTypes, Steps, Idle
  <2>2. /\ pc[Dispatcher] = "read" /\ pc' = [pc EXCEPT ![Dispatcher] = "assign"]
        /\ region' = [region EXCEPT ![b] = Len(req) + 1]
        /\ UNCHANGED <<work_queue, buf>>
    BY <1>3, <2>1 DEF ReadRequest, Goto, queueVars
  <2>3. Len(req') = Len(req) + 1
    BY <1>3, AppendProperties DEF ReadRequest, ItemInv, ItemTypes
  <2>4. /\ region'[b] = Len(req) + 1
        /\ \A c \in Buffers \ {b} : region'[c] = region[c]
        /\ \A f \in Executors \ {Dispatcher} : pc'[f] = pc[f]
    BY <2>2, Names DEF ItemInv, ItemTypes
  <2>5. CASE i > Len(req')
    BY <1>0, <2>3, <2>5 DEF Pending, Ids
  <2>6. ASSUME NEW t \in Threads, NEW n \in Queue(t)', region'[work_queue'[t][n]] = i
        PROVE  i \in Pending
    <3>1. n \in Queue(t) /\ work_queue'[t][n] = work_queue[t][n]
      BY <2>2, <2>6 DEF Queue
    <3>2. work_queue[t][n] \in Buffers \ {b}
      BY <2>1, <3>1, QueuedIds, Names DEF ItemInv, Apart
    <3>3. region[work_queue[t][n]] = i
      BY <2>4, <2>6, <3>1, <3>2
    <3> QED
      BY <1>0, <3>1, <3>3 DEF Pending
  <2>7. ASSUME NEW f \in Executors, pc'[f] \in Started, IdOf(f)' = i
        PROVE  i \in Pending
    <3>1. CASE f = Dispatcher
      <4>1. i = Len(req) + 1
        BY <2>1, <2>2, <2>4, <2>7, <3>1 DEF IdOf
      <4> QED
        BY <1>0, <4>1 DEF Pending
    <3>2. CASE f # Dispatcher
      <4>1. pc[f] \in Started
        BY <2>4, <2>7, <3>2
      <4>2. buf[f] \in Buffers \ {b}
        BY <2>1, <3>2, <4>1, HeldIds, Names DEF ItemInv, Apart, Started, Idle
      <4>3. IdOf(f) = i
        BY <2>2, <2>4, <2>7, <4>2 DEF IdOf
      <4> QED
        BY <1>0, <4>1, <4>3 DEF Pending
    <3> QED
      BY <3>1, <3>2
  <2> QED
    BY <2>5, <2>6, <2>7 DEF Pending
<1>4. CASE assign_work_to_thread
  <2>1. /\ pc[Dispatcher] = "assign" /\ UNCHANGED <<req, region, work_queue, buf>>
        /\ \E x : Goto(Dispatcher, x)
    BY <1>4, Zenon DEF assign_work_to_thread, pvmVars, queueVars
  <2>2. \A f \in Executors \ {Dispatcher} : pc'[f] = pc[f] /\ buf'[f] = buf[f]
    BY <2>1 DEF Goto, ItemInv, ItemTypes
  <2>3. pc[Dispatcher] \in Started
    BY <2>1 DEF Started
  <2> QED
    BY <1>1, <2>1, <2>2, <2>3, Names
<1>5. CASE Enqueue
  <2>1. /\ UNCHANGED <<req, region>> /\ pc[Dispatcher] \in Started
        /\ pc'[Dispatcher] \notin Started
    BY <1>5, EnqueueAdds DEF Started, pvmVars, bufferVars
  <2>2. \A f \in Executors : pc'[f] \in Started =>
          pc[f] \in Started /\ IdOf(f)' = IdOf(f)
    BY <1>5, <2>1, EnqueueAdds DEF IdOf
  <2>3. ASSUME NEW t \in Threads, NEW n \in Queue(t)', region'[work_queue'[t][n]] = i
        PROVE  i \in Pending
    <3>1. CASE n \in Queue(t) /\ work_queue'[t][n] = work_queue[t][n]
      BY <1>0, <2>1, <2>3, <3>1 DEF Pending
    <3>2. CASE work_queue'[t][n] = buf[Dispatcher]
      <4>1. IdOf(Dispatcher) = i
        BY <2>1, <2>3, <3>2 DEF IdOf
      <4> QED
        BY <1>0, <2>1, <4>1, Names DEF Pending
    <3> QED
      BY <1>5, <3>1, <3>2, EnqueueAdds
  <2> QED
    BY <2>1, <2>2, <2>3 DEF Pending
<1>6. ASSUME NEW w \in Threads, BeginWork(w) PROVE i \in Pending
  <2>1. UNCHANGED <<req, region>>
    BY <1>6 DEF BeginWork, pvmVars, bufferVars
  <2>2. CASE work_queue[w] = <<>>
    <3>1. UNCHANGED <<work_queue, buf, pc>>
      BY <1>6, <2>2 DEF BeginWork
    <3> QED
      BY <1>1, <2>1, <3>1, Names
  <2>3. CASE work_queue[w] # <<>>
    <3>1. ASSUME NEW t \in Threads, NEW n \in Queue(t)',
                 region'[work_queue'[t][n]] = i
          PROVE  i \in Pending
      <4>1. PICK m \in Queue(t) : work_queue'[t][n] = work_queue[t][m]
        BY <1>6, <2>3, BeginTakes
      <4> QED
        BY <1>0, <2>1, <3>1, <4>1 DEF Pending
    <3>2. ASSUME NEW f \in Executors, pc'[f] \in Started, IdOf(f)' = i
          PROVE  i \in Pending
      <4>1. CASE f = w
        <5>1. region[work_queue[w][1]] = i /\ 1 \in Queue(w)
          BY <1>6, <2>1, <2>3, <3>2, <4>1, BeginTakes DEF IdOf
        <5> QED
          BY <1>0, <5>1 DEF Pending
      <4>2. CASE f # w
        <5>1. pc[f] \in Started /\ IdOf(f) = i
          BY <1>6, <2>1, <2>3, <3>2, <4>2, BeginTakes DEF IdOf
        <5> QED
          BY <1>0, <5>1 DEF Pending
      <4> QED
        BY <4>1, <4>2
    <3> QED
      BY <2>1, <3>1, <3>2 DEF Pending
  <2> QED
    BY <2>2, <2>3
<1>7. ASSUME NEW e \in Executors, Onward(e) PROVE i \in Pending
  <2>1. UNCHANGED <<req, region, work_queue, buf>>
    BY <1>7 DEF Onward, itemVars
  <2>2. \E x : pc' = [pc EXCEPT ![e] = x]
    BY <1>7, Zenon DEF Onward, Goto
  <2>3. \A f \in Executors \ {e} : pc'[f] = pc[f] /\ buf'[f] = buf[f]
    BY <2>1, <2>2 DEF ItemInv, ItemTypes
  <2>4. pc'[e] \in Started => pc[e] \in Started
    BY <1>7 DEF Onward, Goto, Started, ItemInv, ItemTypes
  <2> QED
    BY <1>1, <2>1, <2>3, <2>4
<1>8. ASSUME NEW e \in Executors, Releases(e) PROVE i \in Pending
  <2>1. /\ UNCHANGED <<req, region, work_queue>>
        /\ pc'[e] \in {"reserve", "wait", "error"}
        /\ \A f \in Executors \ {e} : pc'[f] = pc[f] /\ buf'[f] = buf[f]
    BY <1>8 DEF Releases, ItemInv, ItemTypes
  <2>2. pc'[e] \notin Started
    BY <2>1 DEF Started
  <2> QED
    BY <1>1, <2>1, <2>2
<1>9. CASE Dispatch
  BY <1>2, <1>4, <1>5, <1>7, <1>8, <1>9, ProcessGoesOn, ErrorReleases, Names, Zenon
     DEF Dispatch
<1>10. CASE \E e \in Executors : Process(e)
  BY <1>7, <1>8, <1>10, ProcessGoesOn, FinishReleases, Zenon DEF Process
<1> QED
  BY <1>3, <1>6, <1>9, <1>10 DEF Next
-----------------------------------------------------------------------------
\* The sockets and the threads that serve them.
servingVars == <<failed, in_use, public_fd, local_fd, socket_ct, open>>

\* The request of executor e opens a socket, which thread t serves.
Opened(e, t) ==
    /\ open' = open \cup {IdOf(e)} /\ failed' = failed
    /\ local_fd' = [local_fd EXCEPT ![t] = IdOf(e)]
    /\ public_fd' = [public_fd EXCEPT ![t] = t]
    /\ in_use' = in_use \cup {t} /\ socket_ct' = socket_ct + 1

\* The dispatcher's creation fails, and its thread has no socket.
NotCreated ==
    /\ failed' = failed \cup {IdOf(Dispatcher)}
    /\ local_fd' = [local_fd EXCEPT ![WorkerOf(Dispatcher)] = Invalid]
    /\ public_fd' = [public_fd EXCEPT ![WorkerOf(Dispatcher)] = None]
    /\ socket_ct' = socket_ct + 1 /\ UNCHANGED <<in_use, open>>

\* An accept fails; the connection may have been counted before that.
NotAccepted(e) ==
    /\ failed' = failed \cup {IdOf(e)}
    /\ socket_ct' \in {socket_ct, socket_ct + 1}
    /\ UNCHANGED <<in_use, public_fd, local_fd, open>>

\* What an operation does to the sockets.
Serves(e) ==
    \/ /\ e = Dispatcher /\ TypeOf(e) = "Create" /\ WorkerOf(e) \in in_use
       /\ Opened(e, WorkerOf(e)) \/ NotCreated
       /\ UNCHANGED <<bound_port_num, ports>> /\ Goto(e, "respond")
    \/ /\ e \in Threads /\ TypeOf(e) = "Accept"
       /\ (\E t \in Threads \ in_use : Opened(e, t)) \/ NotAccepted(e)
       /\ UNCHANGED <<bound_port_num, ports>>
    \/ /\ e = Dispatcher /\ TypeOf(e) = "Close" /\ WorkerOf(e) \in in_use
       /\ xe_net_internal_close_socket(WorkerOf(e)) /\ UNCHANGED <<failed, in_use>>
       /\ update_listening_ports(e, bound_port_num[WorkerOf(e)] # None,
                                 bound_port_num')
    \/ /\ e = Dispatcher /\ TypeOf(e) = "Bind" /\ xe_net_bind_socket(e)
       /\ UNCHANGED servingVars
    \/ /\ TypeOf(e) \notin {"Create", "Accept", "Close", "Bind"}
       /\ UNCHANGED <<servingVars, bound_port_num, ports>>
       /\ Goto(e, "respond")

\* Creating, closing and binding are the dispatcher's, accepting the workers'.
LEMMA OperationServes ==
    ASSUME ItemInv, NEW e \in Executors, Operation(e)
    PROVE  Serves(e)
<1>0. /\ pc[e] = "operate" /\ in_use \subseteq Threads
      /\ e = Dispatcher \/ e \in Threads
  BY OperationMoves, Names DEF ItemInv, ItemTypes
<1>1. e \in Threads => TypeOf(e) \in QueuedTypes
  BY <1>0 DEF ItemInv, WorkersOwn
<1>2. e = Dispatcher => /\ TypeOf(e) \notin QueuedTypes
                        /\ TypeOf(e) = "PollsetQuery" \/ WorkerOf(e) \in in_use
  BY <1>0 DEF ItemInv, DispatchersOwn
<1>3. ASSUME TypeOf(e) \notin QueuedTypes PROVE e = Dispatcher
  BY <1>0, <1>1, <1>3
<1>4. ASSUME TypeOf(e) \in QueuedTypes PROVE e \in Threads /\ e # Dispatcher
  BY <1>0, <1>2, <1>4
<1>5. CASE xe_net_create_socket(e)
  <2>1. /\ TypeOf(e) = "Create" /\ Goto(e, "respond")
        /\ UNCHANGED <<in_use, bound_port_num, ports>>
        /\ socket_ct' = socket_ct + 1
    BY <1>5 DEF xe_net_create_socket, Operating
  <2>2. e = Dispatcher /\ WorkerOf(e) \in in_use
    BY <1>2, <1>3, <2>1 DEF QueuedTypes
  <2>3. in_use = in_use \cup {WorkerOf(e)}
    BY <2>2
  <2>4. \/ /\ open' = open \cup {IdOf(e)}
           /\ local_fd' = [local_fd EXCEPT ![WorkerOf(e)] = IdOf(e)]
           /\ public_fd' = [public_fd EXCEPT ![WorkerOf(e)] = WorkerOf(e)]
           /\ UNCHANGED failed
        \/ /\ failed' = failed \cup {IdOf(e)}
           /\ local_fd' = [local_fd EXCEPT ![WorkerOf(e)] = Invalid]
           /\ public_fd' = [public_fd EXCEPT ![WorkerOf(e)] = None]
           /\ UNCHANGED open
    BY <1>5, Zenon DEF xe_net_create_socket
  <2>5. Opened(e, WorkerOf(e)) \/ NotCreated
    BY <2>1, <2>2, <2>3, <2>4, Zenon DEF Opened, NotCreated
  <2> QED
    BY <2>1, <2>2, <2>5 DEF Serves
<1>6. CASE xe_net_accept_socket(e)
  <2>1. TypeOf(e) = "Accept" /\ UNCHANGED <<bound_port_num, ports>>
    BY <1>6 DEF xe_net_accept_socket, Operating
  <2>2. e \in Threads
    BY <1>4, <2>1 DEF QueuedTypes
  <2>3. \A t \in get_worker_thread_for_fd(Invalid) : t \in Threads \ in_use
    BY <1>0, FoundThreads
  <2>4. \/ \E t \in get_worker_thread_for_fd(Invalid) : Opened(e, t)
        \/ NotAccepted(e)
    <3>1. \/ /\ \E t \in get_worker_thread_for_fd(Invalid) :
                  /\ in_use' = in_use \cup {t}
                  /\ public_fd' = [public_fd EXCEPT ![t] = t]
                  /\ local_fd' = [local_fd EXCEPT ![t] = IdOf(e)]
             /\ open' = open \cup {IdOf(e)} /\ socket_ct' = socket_ct + 1
             /\ UNCHANGED failed
          \/ /\ failed' = failed \cup {IdOf(e)}
             /\ socket_ct' = socket_ct \/ socket_ct' = socket_ct + 1
             /\ UNCHANGED <<in_use, public_fd, local_fd, open>>
      BY <1>6, Zenon DEF xe_net_accept_socket
    <3> QED
      BY <3>1, Zenon DEF Opened, NotAccepted
  <2> QED
    BY <2>1, <2>2, <2>3, <2>4 DEF Serves
<1>7. CASE xe_net_bind_socket(e)
  <2>1. TypeOf(e) = "Bind" /\ UNCHANGED servingVars
    BY <1>7 DEF xe_net_bind_socket, Operating, servingVars
  <2>2. e = Dispatcher
    BY <1>3, <2>1 DEF QueuedTypes
  <2> QED
    BY <1>7, <2>1, <2>2 DEF Serves
<1>8. CASE xe_net_close_socket(e)
  <2>1. TypeOf(e) = "Close"
    BY <1>8 DEF xe_net_close_socket, Operating
  <2>2. e = Dispatcher /\ WorkerOf(e) \in in_use
    BY <1>2, <1>3, <2>1 DEF QueuedTypes
  <2> QED
    BY <1>8, <2>1, <2>2, Zenon DEF Serves, xe_net_close_socket
<1>9. CASE xe_net_recv_socket(e) \/ xe_net_send_socket(e)
  <2>1. /\ TypeOf(e) \in {"Recv", "Send"} /\ Goto(e, "respond")
        /\ UNCHANGED <<servingVars, bound_port_num, ports>>
    BY <1>9 DEF xe_net_recv_socket, xe_net_send_socket, Operating, servingVars
  <2> QED
    BY <2>1 DEF Serves
<1>10. CASE xe_net_connect_socket(e) \/ xe_net_listen_socket(e)
             \/ xe_net_shutdown_socket(e) \/ xe_net_sock_attrib(e)
             \/ xe_net_get_name(e) \/ xe_net_addr_block(e) \/ xe_pollset_query(e)
  <2>1. /\ TypeOf(e) \notin {"Create", "Accept", "Close", "Bind"}
        /\ Goto(e, "respond")
        /\ UNCHANGED <<servingVars, bound_port_num, ports>>
    BY <1>10 DEF xe_net_connect_socket, xe_net_listen_socket,
       xe_net_shutdown_socket, xe_net_sock_attrib, xe_net_get_name,
       xe_net_addr_block, xe_pollset_query, PlainOperation, Operating,
       servingVars, socketVars
  <2> QED
    BY <2>1 DEF Serves
<1> QED
  BY <1>5, <1>6, <1>7, <1>8, <1>9, <1>10, Zenon DEF Operation

\* The steps that are not operations and leave the sockets alone.
LEMMA OthersLeaveSockets ==
    ASSUME ItemInv,
           \/ reserve_available_buffer_item \/ assign_work_to_thread
           \/ AcquireOplock \/ Enqueue
           \/ \E r \in Requests : ReadRequest(r)
           \/ \E t \in Threads : BeginWork(t)
           \/ \E e \in Executors : PublishPorts(e) \/ WriteResponse(e)
    PROVE  UNCHANGED <<failed, public_fd, local_fd, bound_port_num, socket_ct, open>>
  BY Zenon DEF reserve_available_buffer_item, assign_work_to_thread, AcquireOplock,
     Enqueue, ReadRequest, BeginWork, PublishPorts, WriteResponse, pvmVars, socketVars

\* Whoever has performed a request holds one that is not pending.
PerformedApart ==
    \A e \in Executors : pc[e] \notin Idle \cup Started \cup {"read"} =>
        IdOf(e) \notin Pending

\* That follows from where the requests are.
LEMMA PerformedNotPending == ItemInv => PerformedApart
  BY NotPending DEF PerformedApart

\* Only a request that is being performed is given a socket or fails.
LEMMA FreshPreserved ==
    ASSUME ItemInv, NetTypes, ItemInv', Fresh, [Next]_vars
    PROVE  Fresh'
<1>1. ASSUME NEW x, x \notin Pending', Pending' \subseteq Pending,
             open' \subseteq open \cup {x}, failed' \subseteq failed \cup {x},
             \A t \in Threads : local_fd'[t] \in {local_fd[t], Invalid, x}
      PROVE  Fresh'
  <2> SUFFICES ASSUME NEW i \in Pending' PROVE Unopened(i)'
    BY DEF Fresh
  <2>1. i \in Pending /\ i # x /\ i \in Ids
    BY <1>1 DEF Pending
  <2>2. i # Invalid
    BY <2>1 DEF Ids, Invalid
  <2>3. i \notin open /\ i \notin failed /\ \A t \in Threads : local_fd[t] # i
    BY <2>1 DEF Fresh, Unopened
  <2> QED
    BY <1>1, <2>1, <2>2, <2>3 DEF Unopened
<1>2. ASSUME UNCHANGED <<open, failed, local_fd>>, Pending' \subseteq Pending
      PROVE  Fresh'
  BY <1>2 DEF Fresh, Unopened
<1>3. CASE UNCHANGED vars
  <2>1. Pending' = Pending /\ UNCHANGED <<open, failed, local_fd>>
    BY <1>3 DEF vars, pvmVars, bufferVars, queueVars, socketVars, threadVars,
       Pending, Queue, IdOf
  <2> QED
    BY <1>2, <2>1
<1>4. CASE \/ reserve_available_buffer_item \/ assign_work_to_thread
           \/ AcquireOplock \/ Enqueue
           \/ \E r \in Requests : ReadRequest(r)
           \/ \E t \in Threads : BeginWork(t)
           \/ \E e \in Executors : PublishPorts(e) \/ WriteResponse(e)
  <2>1. Next
    BY <1>4, Zenon DEF Next, Dispatch, Process
  <2>2. UNCHANGED <<open, failed, local_fd>>
    BY <1>4, OthersLeaveSockets
  <2> QED
    BY <1>2, <2>1, <2>2, PendingShrinks
<1>5. CASE send_dispatch_error_response
  <2>1. Pending' \subseteq Pending
    BY <1>5, PendingShrinks DEF Next, Dispatch
  <2>2. IdOf(Dispatcher) \notin Pending
    BY <1>5, NotPending, Names DEF send_dispatch_error_response, Idle, Started
  <2>3. /\ UNCHANGED <<open, local_fd>>
        /\ failed' = failed \cup {IdOf(Dispatcher)}
    BY <1>5 DEF send_dispatch_error_response, socketVars
  <2>4. IdOf(Dispatcher) \notin Pending'
    BY <2>1, <2>2
  <2> QED
    BY <1>1, <2>1, <2>3, <2>4
<1>6. ASSUME NEW t, xe_net_internal_close_socket(t), UNCHANGED failed,
             Pending' \subseteq Pending
      PROVE  Fresh'
  <2>1. /\ open' \subseteq open
        /\ \A u \in Threads : local_fd'[u] \in {local_fd[u], Invalid}
    BY <1>6 DEF xe_net_internal_close_socket, NetTypes
  <2>2. Invalid \notin Pending'
    BY <1>6 DEF Pending, Ids, Invalid
  <2> QED
    BY <1>1, <1>6, <2>1, <2>2
<1>7. ASSUME NEW e \in Executors, FinishItem(e) PROVE Fresh'
  <2>1. Pending' \subseteq Pending
    BY <1>7, PendingShrinks DEF Next, Process
  <2>2. /\ UNCHANGED failed
        /\ xe_net_internal_close_socket(WorkerOf(e)) \/ UNCHANGED socketVars
    BY <1>7, Zenon DEF FinishItem, pvmVars, release_worker_thread
  <2> QED
    BY <1>2, <1>6, <2>1, <2>2 DEF socketVars
<1>8. ASSUME NEW e \in Executors, Operation(e) PROVE Fresh'
  <2>1. Pending' \subseteq Pending
    BY <1>8, PendingShrinks DEF Next, Process
  <2>2. IdOf(e) \notin Pending'
    <3>1. /\ pc'[e] \in {"respond", "publish"} /\ IdOf(e)' = IdOf(e)
      BY <1>8, OperationMoves DEF Goto, IdOf, bufferVars, ItemInv, ItemTypes
    <3>2. PerformedApart'
      BY PerformedNotPending, PTL
    <3> QED
      BY <3>1, <3>2 DEF PerformedApart, Idle, Started
  <2>3. Serves(e)
    BY <1>8, OperationServes
  <2>4. CASE \E t : Opened(e, t)
    <3>1. \A u \in Threads : local_fd'[u] \in {local_fd[u], IdOf(e)}
      BY <2>4 DEF Opened, NetTypes
    <3> QED
      BY <1>1, <2>1, <2>2, <2>4, <3>1 DEF Opened
  <2>5. CASE NotCreated /\ e = Dispatcher
    <3>1. \A u \in Threads : local_fd'[u] \in {local_fd[u], Invalid}
      BY <2>5 DEF NotCreated, NetTypes
    <3> QED
      BY <1>1, <2>1, <2>2, <2>5, <3>1 DEF NotCreated
  <2>6. CASE NotAccepted(e)
    BY <1>1, <2>1, <2>2, <2>6 DEF NotAccepted
  <2>7. CASE UNCHANGED servingVars
    BY <1>2, <2>1, <2>7 DEF servingVars
  <2>8. CASE xe_net_internal_close_socket(WorkerOf(e)) /\ UNCHANGED failed
    BY <1>6, <2>1, <2>8
  <2> QED
    BY <2>3, <2>4, <2>5, <2>6, <2>7, <2>8 DEF Serves
<1> QED
  BY <1>3, <1>4, <1>5, <1>7, <1>8, Zenon DEF Next, Dispatch, Process
-----------------------------------------------------------------------------
\* A thread that has a socket is in use for it, and the socket is open; no two
\* threads have the same; and the PVM uses a descriptor for the socket that its
\* thread has, which it was told of.
Served ==
    /\ \A t \in Threads : local_fd[t] \in Ids =>
         local_fd[t] \in open /\ t \in in_use /\ public_fd[t] = t
    /\ \A t, u \in Threads :
         local_fd[t] \in Ids /\ local_fd[t] = local_fd[u] => t = u
    /\ \A t \in Threads : live[t] # None =>
         local_fd[t] = live[t] /\ answered[live[t]] > 0

\* The request the dispatcher has.
Current == req[IdOf(Dispatcher)]

\* A request names a descriptor if its type is one that is for a socket.
Asked ==
    pc[Dispatcher] = "assign" =>
        (Current.fd = Invalid <=> TypeOf(Dispatcher) \notin SocketTypes)

\* The thread for a new socket has none, until it has the new one.
Creating ==
    /\ pc[Dispatcher] = "operate" /\ TypeOf(Dispatcher) = "Create" =>
         local_fd[WorkerOf(Dispatcher)] \notin Ids
    /\ pc[Dispatcher] \in Done /\ TypeOf(Dispatcher) = "Create" =>
         local_fd[WorkerOf(Dispatcher)] =
           IF IdOf(Dispatcher) \in failed THEN Invalid ELSE IdOf(Dispatcher)

\* The PVM has given up the descriptor that is being closed, whose thread has
\* the socket until it is closed.
Closing ==
    /\ pc[Dispatcher] \in Started /\ TypeOf(Dispatcher) = "Close" =>
         /\ Current.fd \in Threads /\ live[Current.fd] = None
         /\ local_fd[Current.fd] = Current.sock /\ Current.sock \in Ids
         /\ answered[Current.sock] > 0
         /\ pc[Dispatcher] # "assign" => WorkerOf(Dispatcher) = Current.fd
    /\ pc[Dispatcher] \in Done /\ TypeOf(Dispatcher) = "Close" =>
         local_fd[WorkerOf(Dispatcher)] = Invalid

\* The inductive invariant for the sockets.
SocketsInv == Fresh /\ Served /\ Asked /\ Creating /\ Closing
-----------------------------------------------------------------------------
\* There are no sockets at first.
LEMMA SocketsInvInitially == Init => SocketsInv
<1> SUFFICES ASSUME Init PROVE SocketsInv
  OBVIOUS
<1>1. /\ open = {} /\ failed = {} /\ pc[Dispatcher] = "reserve"
      /\ \A t \in Threads : local_fd[t] \notin Ids /\ live[t] = None
  BY Names DEF Init
<1>2. Fresh
  BY <1>1 DEF Fresh, Unopened, Pending
<1>3. Served
  BY <1>1 DEF Served
<1>4. Asked /\ Creating /\ Closing
  BY <1>1 DEF Asked, Creating, Closing, Started, Done
<1> QED
  BY <1>2, <1>3, <1>4 DEF SocketsInv

\* A step that leaves the sockets alone, and after which the PVM has no more
\* descriptors than before.
LEMMA ServedFrame ==
    ASSUME Served, UNCHANGED <<public_fd, local_fd, open>>, in_use \subseteq in_use',
           \A t \in Threads : live'[t] \in {None, live[t]},
           \A i \in Ids : answered[i] > 0 => answered'[i] > 0,
           live \in [Threads -> Ids \cup {None}]
    PROVE  Served'
<1>1. \A t \in Threads : live[t] # None => live[t] \in Ids
  OBVIOUS
<1> QED
  BY <1>1 DEF Served

\* A new socket, for a thread that has none.
LEMMA OpenedKeepsServed ==
    ASSUME ItemInv, NetTypes, Served, NEW e \in Executors, NEW t \in Threads,
           Opened(e, t), IdOf(e) \in Ids, Unopened(IdOf(e)),
           local_fd[t] \notin Ids, UNCHANGED <<live, answered>>
    PROVE  Served'
<1>1. /\ local_fd'[t] = IdOf(e) /\ public_fd'[t] = t /\ t \in in_use'
      /\ \A u \in Threads \ {t} : /\ local_fd'[u] = local_fd[u]
                                  /\ public_fd'[u] = public_fd[u]
  BY DEF Opened, NetTypes
<1>2. in_use \subseteq in_use' /\ open' = open \cup {IdOf(e)}
  BY DEF Opened
<1>3. live[t] = None
  BY DEF Served, ItemInv, ItemTypes
<1>4. \A u \in Threads : local_fd[u] # IdOf(e)
  BY DEF Unopened
<1>5. \A u \in Threads : local_fd'[u] \in Ids =>
        local_fd'[u] \in open' /\ u \in in_use' /\ public_fd'[u] = u
  BY <1>1, <1>2 DEF Served
<1>6. \A u, v \in Threads :
        local_fd'[u] \in Ids /\ local_fd'[u] = local_fd'[v] => u = v
  BY <1>1, <1>4 DEF Served
<1>7. \A u \in Threads : live'[u] # None =>
        local_fd'[u] = live'[u] /\ answered'[live'[u]] > 0
  BY <1>1, <1>3 DEF Served
<1> QED
  BY <1>5, <1>6, <1>7 DEF Served

\* Thread t has no socket any more, and the PVM no descriptor for it.
LEMMA GivenUpKeepsServed ==
    ASSUME ItemInv, NetTypes, Served, NEW t \in Threads, live[t] = None,
           local_fd' = [local_fd EXCEPT ![t] = Invalid],
           \A u \in Threads \ {t} : public_fd'[u] = public_fd[u],
           open \ {local_fd[t]} \subseteq open', in_use \ {t} \subseteq in_use',
           UNCHANGED <<live, answered>>
    PROVE  Served'
<1>1. /\ local_fd'[t] = Invalid
      /\ \A u \in Threads \ {t} : local_fd'[u] = local_fd[u]
  BY DEF NetTypes
<1>2. Invalid \notin Ids
  BY DEF Invalid, Ids
<1>3. \A u \in Threads \ {t} : local_fd[u] \in Ids => local_fd[u] # local_fd[t]
  BY DEF Served
<1>4. \A u \in Threads : local_fd'[u] \in Ids =>
        local_fd'[u] \in open' /\ u \in in_use' /\ public_fd'[u] = u
  BY <1>1, <1>2, <1>3 DEF Served
<1>5. \A u, v \in Threads :
        local_fd'[u] \in Ids /\ local_fd'[u] = local_fd'[v] => u = v
  BY <1>1, <1>2 DEF Served
<1>6. \A u \in Threads : live'[u] # None =>
        local_fd'[u] = live'[u] /\ answered'[live'[u]] > 0
  BY <1>1 DEF Served
<1> QED
  BY <1>4, <1>5, <1>6 DEF Served

\* With its response the PVM learns of the socket a request opened.
LEMMA ResponseKeepsServed ==
    ASSUME ItemInv, AnswerInv, Served, NEW e \in Executors, WriteResponse(e)
    PROVE  /\ Served'
           /\ \A i \in Ids : answered[i] > 0 => answered'[i] > 0
           /\ \A t \in Threads :
                live'[t] = live[t] \/ (live'[t] = IdOf(e) /\ local_fd[t] = IdOf(e))
<1>1. /\ pc[e] = "respond"
      /\ UNCHANGED <<public_fd, local_fd, open, in_use>>
  BY DEF WriteResponse, socketVars
<1>2. IdOf(e) \in Ids
  BY <1>1, HeldIds DEF Idle
<1>3. /\ answered \in [Ids -> 0..MaxAnswers] /\ 0..MaxAnswers \subseteq Nat
      /\ live \in [Threads -> Ids \cup {None}]
  BY DEF AnswerInv, MaxAnswers, ItemInv, ItemTypes
<1>4. CASE headless[e]
  <2>1. UNCHANGED <<answered, live>>
    BY <1>4 DEF WriteResponse
  <2>2. Served'
    BY <1>1, <2>1, Zenon DEF Served
  <2> QED
    BY <2>1, <2>2
<1>5. CASE ~headless[e]
  <2>1. /\ answered' = [answered EXCEPT ![IdOf(e)] = @ + 1]
        /\ live' = [t \in Threads |->
             IF IdOf(e) \in open /\ local_fd[t] = IdOf(e) THEN IdOf(e) ELSE live[t]]
    BY <1>5 DEF WriteResponse
  <2>2. /\ answered'[IdOf(e)] > 0
        /\ \A i \in Ids : answered[i] > 0 => answered'[i] > 0
    BY <1>2, <1>3, <2>1
  <2>3. \A t \in Threads :
          live'[t] = live[t] \/ (live'[t] = IdOf(e) /\ local_fd[t] = IdOf(e))
    BY <2>1
  <2>4. \A t \in Threads : live[t] # None => live[t] \in Ids
    BY <1>3
  <2>5. \A t \in Threads : live'[t] # None =>
          local_fd'[t] = live'[t] /\ answered'[live'[t]] > 0
    BY <1>1, <2>2, <2>3, <2>4 DEF Served
  <2> QED
    BY <1>1, <2>2, <2>3, <2>5 DEF Served
<1> QED
  BY <1>4, <1>5
-----------------------------------------------------------------------------
\* What concerns the dispatcher's own request.
Own == Asked /\ Creating /\ Closing

\* Between two requests there is nothing to say.
LEMMA OwnIdle ==
    ASSUME pc'[Dispatcher] \in {"reserve", "read", "error"}
    PROVE  Own'
  BY DEF Own, Asked, Creating, Closing, Started, Done

\* A worker's step leaves the dispatcher where it is, with what it has.
LEMMA WorkersApart ==
    ASSUME ItemInv, NEW e \in Threads, BeginWork(e) \/ Process(e)
    PROVE  /\ UNCHANGED <<req, region>> /\ pc'[Dispatcher] = pc[Dispatcher]
           /\ buf'[Dispatcher] = buf[Dispatcher]
           /\ pc[Dispatcher] \notin Idle =>
                WorkerOf(Dispatcher)' = WorkerOf(Dispatcher)
<1>0. e \in Executors /\ e # Dispatcher /\ Dispatcher \in Executors
  BY Names
<1>1. CASE BeginWork(e)
  <2>1. UNCHANGED <<req, region, assigned_thread>>
    BY <1>1 DEF BeginWork, pvmVars, bufferVars
  <2>2. \/ UNCHANGED <<buf, pc>>
        \/ \E b : buf' = [buf EXCEPT ![e] = b] /\ Goto(e, "operate")
    BY <1>1, Zenon DEF BeginWork
  <2>3. pc'[Dispatcher] = pc[Dispatcher] /\ buf'[Dispatcher] = buf[Dispatcher]
    BY <1>0, <2>2 DEF Goto, ItemInv, ItemTypes
  <2> QED
    BY <2>1, <2>3 DEF WorkerOf
<1>2. CASE Onward(e)
  <2>1. UNCHANGED <<req, region, assigned_thread, buf>>
    BY <1>2 DEF Onward, itemVars
  <2>2. \E x : pc' = [pc EXCEPT ![e] = x]
    BY <1>2, Zenon DEF Onward, Goto
  <2>3. pc'[Dispatcher] = pc[Dispatcher]
    BY <1>0, <2>2 DEF ItemInv, ItemTypes
  <2> QED
    BY <2>1, <2>3 DEF WorkerOf
<1>3. CASE Releases(e)
  <2>1. /\ UNCHANGED <<req, region>>
        /\ pc'[Dispatcher] = pc[Dispatcher] /\ buf'[Dispatcher] = buf[Dispatcher]
    BY <1>0, <1>3 DEF Releases, ItemInv, ItemTypes
  <2>2. assigned_thread' = [assigned_thread EXCEPT ![buf[e]] = None]
    BY <1>3 DEF Releases
  <2>3. ASSUME pc[Dispatcher] \notin Idle
        PROVE  buf[Dispatcher] \in Buffers /\ buf[Dispatcher] # buf[e]
    BY <1>0, <2>3, Names DEF ItemInv, ItemTypes, Steps, Apart
  <2> QED
    BY <2>1, <2>2, <2>3 DEF WorkerOf, ItemInv, ItemTypes
<1> QED
  BY <1>0, <1>1, <1>2, <1>3, ProcessGoesOn, FinishReleases DEF Process

\* Neither does a step by a worker that keeps the sockets of the threads in use
\* and the PVM's descriptors change what concerns the dispatcher's request.
LEMMA OwnFrame ==
    ASSUME ItemInv, NetTypes, Served, Own, NEW e \in Threads,
           BeginWork(e) \/ Process(e),
           \A t \in in_use : local_fd'[t] = local_fd[t],
           failed' = failed \/ failed' = failed \cup {IdOf(e)},
           \A i \in Ids : answered[i] > 0 => answered'[i] > 0,
           \A t \in Threads : \/ live'[t] = live[t]
                              \/ live'[t] = IdOf(e) /\ local_fd[t] = IdOf(e)
                                                    /\ answered[IdOf(e)] = 0,
           pc[e] \notin Idle \/ failed' = failed
    PROVE  Own'
<1>0. e \in Executors /\ e # Dispatcher /\ Dispatcher \in Executors
  BY Names
<1>1. CASE pc[Dispatcher] \in {"reserve", "read", "error"}
  BY <1>1, OwnIdle, WorkersApart
<1>2. CASE pc[Dispatcher] \notin {"reserve", "read", "error"}
  <2>1. /\ pc'[Dispatcher] = pc[Dispatcher] /\ pc[Dispatcher] \notin Idle
        /\ WorkerOf(Dispatcher)' = WorkerOf(Dispatcher)
        /\ IdOf(Dispatcher)' = IdOf(Dispatcher) /\ Current' = Current
        /\ TypeOf(Dispatcher)' = TypeOf(Dispatcher)
    <3>1. pc[Dispatcher] \notin Idle
      BY <1>0, <1>2 DEF ItemInv, Steps, Idle
    <3> QED
      BY <3>1, WorkersApart DEF IdOf, TypeOf, Current
  <2>2. Asked'
    BY <2>1 DEF Own, Asked
  <2>3. pc[Dispatcher] \in Doing /\ TypeOf(Dispatcher) # "PollsetQuery" =>
          WorkerOf(Dispatcher) \in in_use
    BY DEF ItemInv, DispatchersOwn, Doing
  <2>4. IdOf(Dispatcher) \in failed' <=> IdOf(Dispatcher) \in failed
    <3>1. CASE failed' = failed
      BY <3>1
    <3>2. CASE pc[e] \notin Idle /\ failed' # failed
      <4>1. pc[e] \notin Idle \cup {"read"} /\ pc[Dispatcher] \notin Idle \cup {"read"}
        BY <1>2, <2>1, <3>2 DEF ItemInv, Steps
      <4>2. IdOf(e) # IdOf(Dispatcher)
        BY <1>0, <4>1, HeldApart
      <4> QED
        BY <3>2, <4>2
    <3> QED
      BY <3>1, <3>2
  <2>5. Creating'
    BY <2>1, <2>3, <2>4 DEF Own, Creating, Doing, Done
  <2>6. ASSUME pc[Dispatcher] \in Started, TypeOf(Dispatcher) = "Close"
        PROVE  /\ Current.fd \in Threads /\ live'[Current.fd] = None
               /\ local_fd'[Current.fd] = Current.sock /\ Current.sock \in Ids
               /\ answered'[Current.sock] > 0
    <3>1. /\ Current.fd \in Threads /\ live[Current.fd] = None
          /\ local_fd[Current.fd] = Current.sock /\ Current.sock \in Ids
          /\ answered[Current.sock] > 0
      BY <2>6 DEF Own, Closing
    <3>2. Current.fd \in in_use
      BY <3>1 DEF Served
    <3> QED
      BY <3>1, <3>2
  <2>7. Closing'
    BY <2>1, <2>3, <2>6 DEF Own, Closing, Doing, Done
  <2> QED
    BY <2>2, <2>5, <2>7 DEF Own
<1> QED
  BY <1>1, <1>2

\* The PVM sends a request on a descriptor it has; with a Close it gives the
\* descriptor up.
LEMMA ReadKeepsOwn ==
    ASSUME ItemInv, Served, NEW r \in Requests, ReadRequest(r)
    PROVE  Own'
<1>1. PICK b \in Buffers : b = buf[Dispatcher]
  BY Names DEF ReadRequest, ItemInv, ItemTypes, Steps, Idle
<1> DEFINE new == [type |-> r.type, fd |-> r.fd,
                   sock |-> IF r.fd = Invalid THEN None ELSE live[r.fd],
                   overtakes |-> IF r.type = "Close" THEN Unanswered(r.fd)
                                 ELSE {}]
<1>2. /\ pc' = [pc EXCEPT ![Dispatcher] = "assign"]
      /\ region' = [region EXCEPT ![b] = Len(req) + 1]
      /\ UNCHANGED <<buf, answered, local_fd>> /\ req' = Append(req, new)
      /\ live' = [t \in Threads |->
                    IF r.type = "Close" /\ t = r.fd THEN None ELSE live[t]]
  BY <1>1 DEF ReadRequest, Goto, socketVars
<1>3. req'[Len(req) + 1] = new
  BY <1>2, AppendProperties DEF ItemInv, ItemTypes
<1>4. pc'[Dispatcher] = "assign" /\ IdOf(Dispatcher)' = Len(req) + 1
  BY <1>1, <1>2, Names DEF IdOf, ItemInv, ItemTypes
<1>5. Current' = new /\ TypeOf(Dispatcher)' = r.type
  BY <1>3, <1>4 DEF Current, TypeOf
<1>6. \/ r.type \in SocketTypes /\ r.fd \in Threads /\ live[r.fd] # None
      \/ r.type \notin SocketTypes /\ r.fd = Invalid
  BY DEF Requests
<1>7. new.fd = r.fd /\ (r.fd # Invalid => new.sock = live[r.fd])
  OBVIOUS
<1> HIDE DEF new
<1>8. Asked'
  BY <1>5, <1>6, <1>7, Names DEF Asked
<1>9. Creating'
  BY <1>4 DEF Creating, Done
<1>10. ASSUME r.type = "Close"
       PROVE  /\ r.fd \in Threads /\ r.fd # Invalid
              /\ live'[r.fd] = None /\ live[r.fd] \in Ids
              /\ local_fd'[r.fd] = live[r.fd] /\ answered'[live[r.fd]] > 0
  <2>1. r.fd \in Threads /\ live[r.fd] # None
    BY <1>6, <1>10 DEF SocketTypes
  <2> QED
    BY <1>2, <1>10, <2>1, Names DEF Served, ItemInv, ItemTypes
<1>11. Closing'
  BY <1>4, <1>5, <1>7, <1>10 DEF Closing, Done, Started
<1> QED
  BY <1>8, <1>9, <1>11 DEF Own

\* A new socket gets a thread without one; a Close goes to the thread of the
\* descriptor.
LEMMA AssignKeepsOwn ==
    ASSUME ItemInv, Served, Own, assign_work_to_thread
    PROVE  Own'
<1>0. in_use \subseteq Threads /\ assigned_thread \in [Buffers -> Threads \cup {None}]
  BY DEF ItemInv, ItemTypes
<1>1. /\ pc[Dispatcher] = "assign"
      /\ UNCHANGED <<req, region, buf, answered, live, local_fd, failed>>
  BY DEF assign_work_to_thread, pvmVars
<1>2. /\ IdOf(Dispatcher)' = IdOf(Dispatcher) /\ Current' = Current
      /\ TypeOf(Dispatcher)' = TypeOf(Dispatcher)
  BY <1>1 DEF IdOf, Current, TypeOf
<1>3. CASE Goto(Dispatcher, "error")
  <2>1. pc'[Dispatcher] = "error"
    BY <1>3, Names DEF Goto, ItemInv, ItemTypes
  <2> QED
    BY <2>1, OwnIdle
<1>4. CASE TypeOf(Dispatcher) = "PollsetQuery" /\ Goto(Dispatcher, "operate")
  <2>1. pc'[Dispatcher] = "operate"
    BY <1>4, Names DEF Goto, ItemInv, ItemTypes
  <2> QED
    BY <1>2, <1>4, <2>1 DEF Own, Asked, Creating, Closing
<1>5. CASE \E t \in get_worker_thread_for_fd(Current.fd) :
             /\ assigned_thread' = [assigned_thread EXCEPT ![buf[Dispatcher]] = t]
             /\ \E x \in {"oplock", "enqueue", "operate"} : Goto(Dispatcher, x)
  <2>1. PICK t \in get_worker_thread_for_fd(Current.fd) :
             /\ assigned_thread' = [assigned_thread EXCEPT ![buf[Dispatcher]] = t]
             /\ \E x \in {"oplock", "enqueue", "operate"} : Goto(Dispatcher, x)
    BY <1>5
  <2>2. pc'[Dispatcher] \in {"oplock", "enqueue", "operate"}
    BY <2>1, Names DEF Goto, ItemInv, ItemTypes
  <2>3. WorkerOf(Dispatcher)' = t
    <3>1. buf[Dispatcher] \in Buffers
      BY <1>1, HeldIds, Names DEF Idle
    <3> QED
      BY <1>0, <1>1, <2>1, <3>1 DEF WorkerOf
  <2>4. /\ t \in Threads /\ (Current.fd = Invalid => t \notin in_use)
        /\ Current.fd # Invalid => t = Current.fd
    BY <1>0, FoundThreads
  <2>5. Asked'
    BY <2>2 DEF Asked
  <2>6. TypeOf(Dispatcher) = "Create" => Current.fd = Invalid
    BY <1>1 DEF Own, Asked, SocketTypes, QueuedTypes
  <2>7. TypeOf(Dispatcher) = "Create" => local_fd[t] \notin Ids
    BY <2>4, <2>6 DEF Served
  <2>8. Creating'
    BY <1>1, <1>2, <2>2, <2>3, <2>7 DEF Creating, Done
  <2>9. TypeOf(Dispatcher) = "Close" => Current.fd \in Threads /\ t = Current.fd
    BY <1>1, <2>4, Names DEF Own, Closing, Started
  <2>10. Closing'
    BY <1>1, <1>2, <2>2, <2>3, <2>9 DEF Own, Closing, Started, Done
  <2> QED
    BY <2>5, <2>8, <2>10 DEF Own
<1> QED
  BY <1>3, <1>4, <1>5, Zenon DEF assign_work_to_thread, Current

\* The dispatcher goes on with a request it has performed, or that only waited
\* for the oplock.
LEMMA GoingOnKeepsOwn ==
    ASSUME ItemInv, AnswerInv, Served, Own,
           \/ AcquireOplock
           \/ PublishPorts(Dispatcher)
           \/ WriteResponse(Dispatcher)
    PROVE  Own'
<1>0. Dispatcher \in Executors
  BY Names
<1>1. Onward(Dispatcher)
  BY <1>0, ProcessGoesOn
<1>2. UNCHANGED <<req, region, assigned_thread, buf>>
  BY <1>1 DEF Onward, itemVars
<1>3. /\ IdOf(Dispatcher)' = IdOf(Dispatcher) /\ Current' = Current
      /\ TypeOf(Dispatcher)' = TypeOf(Dispatcher)
      /\ WorkerOf(Dispatcher)' = WorkerOf(Dispatcher)
  BY <1>2 DEF IdOf, Current, TypeOf, WorkerOf
<1>4. UNCHANGED <<failed, local_fd>>
  BY <1>0, OthersLeaveSockets
<1>5. CASE AcquireOplock
  <2>1. /\ pc[Dispatcher] = "oplock" /\ UNCHANGED <<live, answered>>
        /\ pc'[Dispatcher] \in {"enqueue", "operate"}
    BY <1>5, Names DEF AcquireOplock, Goto, pvmVars, ItemInv, ItemTypes
  <2>2. TypeOf(Dispatcher) # "Create"
    BY <2>1 DEF ItemInv, DispatchersOwn, OplockTypes
  <2> QED
    BY <1>3, <1>4, <2>1, <2>2 DEF Own, Asked, Creating, Closing, Started, Done
<1>6. CASE PublishPorts(Dispatcher) \/ WriteResponse(Dispatcher)
  <2>1. pc[Dispatcher] \in Done /\ pc'[Dispatcher] \in {"respond", "finish"}
    BY <1>6, Names DEF PublishPorts, WriteResponse, Goto, Done, ItemInv, ItemTypes
  <2> QED
    BY <1>3, <1>4, <2>1 DEF Own, Asked, Creating, Closing, Started, Done
<1> QED
  BY <1>5, <1>6

\* The dispatcher performs a request.
LEMMA OperationKeepsOwn ==
    ASSUME ItemInv, NetTypes, Fresh, Own, Operation(Dispatcher)
    PROVE  Own'
<1>0. Dispatcher \in Executors
  BY Names
<1>1. /\ pc[Dispatcher] = "operate" /\ pc'[Dispatcher] \in {"respond", "publish"}
      /\ UNCHANGED <<req, region, assigned_thread, buf>>
  BY <1>0, OperationMoves DEF Goto, bufferVars, ItemInv, ItemTypes
<1>2. /\ IdOf(Dispatcher)' = IdOf(Dispatcher)
      /\ TypeOf(Dispatcher)' = TypeOf(Dispatcher)
      /\ WorkerOf(Dispatcher)' = WorkerOf(Dispatcher)
  BY <1>1 DEF IdOf, TypeOf, WorkerOf
<1>3. IdOf(Dispatcher) \in Ids /\ IdOf(Dispatcher) \notin failed
  <2>1. IdOf(Dispatcher) \in Ids
    BY <1>0, <1>1, HeldIds DEF Idle
  <2>2. IdOf(Dispatcher) \in Pending
    BY <1>0, <1>1, <2>1 DEF Pending, Started
  <2> QED
    BY <2>1, <2>2 DEF Fresh, Unopened
<1>4. Serves(Dispatcher)
  BY <1>0, OperationServes
<1>5. Asked'
  BY <1>1 DEF Asked
<1>6. CASE TypeOf(Dispatcher) = "Create"
  <2>1. /\ WorkerOf(Dispatcher) \in in_use
        /\ Opened(Dispatcher, WorkerOf(Dispatcher)) \/ NotCreated
    BY <1>4, <1>6, Names DEF Serves
  <2>2. WorkerOf(Dispatcher) \in Threads
    BY <2>1 DEF ItemInv, ItemTypes
  <2>3. local_fd'[WorkerOf(Dispatcher)] =
          IF IdOf(Dispatcher) \in failed' THEN Invalid ELSE IdOf(Dispatcher)
    BY <1>3, <2>1, <2>2 DEF Opened, NotCreated, NetTypes
  <2>4. Creating'
    BY <1>1, <1>2, <2>3 DEF Creating
  <2>5. Closing'
    BY <1>2, <1>6 DEF Closing
  <2> QED
    BY <1>5, <2>4, <2>5 DEF Own
<1>7. CASE TypeOf(Dispatcher) = "Close"
  <2>1. /\ WorkerOf(Dispatcher) \in in_use
        /\ xe_net_internal_close_socket(WorkerOf(Dispatcher))
    BY <1>4, <1>7, Names DEF Serves
  <2>2. WorkerOf(Dispatcher) \in Threads
    BY <2>1 DEF ItemInv, ItemTypes
  <2>3. local_fd'[WorkerOf(Dispatcher)] = Invalid
    BY <2>1, <2>2 DEF xe_net_internal_close_socket, NetTypes
  <2>4. Creating'
    BY <1>2, <1>7 DEF Creating
  <2>5. Closing'
    BY <1>1, <1>2, <2>3 DEF Closing, Started
  <2> QED
    BY <1>5, <2>4, <2>5 DEF Own
<1>8. CASE TypeOf(Dispatcher) \notin {"Create", "Close"}
  <2>1. Creating' /\ Closing'
    BY <1>2, <1>8 DEF Creating, Closing
  <2> QED
    BY <1>5, <2>1 DEF Own
<1> QED
  BY <1>6, <1>7, <1>8
-----------------------------------------------------------------------------
\* A thread without a socket has no descriptor that the PVM uses.
LEMMA NoSocketNotLive ==
    ASSUME ItemInv, Served, NEW t \in Threads, local_fd[t] \notin Ids
    PROVE  live[t] = None
  BY DEF Served, ItemInv, ItemTypes

\* A request opens a socket for a thread that has none, and only the thread of
\* a descriptor that the PVM has given up loses its socket.
LEMMA OperationKeepsServed ==
    ASSUME ItemInv, NetTypes, Fresh, Served, Own, NEW e \in Executors, Operation(e)
    PROVE  /\ Served'
           /\ e \in Threads => \A t \in in_use : local_fd'[t] = local_fd[t]
           /\ failed' = failed \/ failed' = failed \cup {IdOf(e)}
<1>0. /\ pc[e] = "operate" /\ UNCHANGED <<live, answered>>
      /\ in_use \subseteq in_use' /\ in_use \subseteq Threads
      /\ e \in Threads => e # Dispatcher
  BY OperationMoves, Names DEF ItemInv, ItemTypes
<1>1. Serves(e)
  BY OperationServes
<1>2. IdOf(e) \in Ids /\ Unopened(IdOf(e))
  <2>1. IdOf(e) \in Ids
    BY <1>0, HeldIds DEF Idle
  <2>2. IdOf(e) \in Pending
    BY <1>0, <2>1 DEF Pending, Started
  <2> QED
    BY <2>1, <2>2 DEF Fresh
<1>3. CASE e = Dispatcher /\ TypeOf(e) = "Create"
  <2>1. PICK t \in in_use : t = WorkerOf(Dispatcher)
    BY <1>1, <1>3, Names DEF Serves
  <2>2. t \in Threads /\ local_fd[t] \notin Ids /\ live[t] = None
    BY <1>0, <1>3, <2>1, NoSocketNotLive DEF Own, Creating
  <2>3. CASE Opened(Dispatcher, t)
    BY <1>0, <1>2, <1>3, <2>2, <2>3, OpenedKeepsServed DEF Opened
  <2>4. CASE NotCreated
    <3>1. /\ local_fd' = [local_fd EXCEPT ![t] = Invalid]
          /\ public_fd' = [public_fd EXCEPT ![t] = None]
          /\ UNCHANGED open
      BY <2>1, <2>4 DEF NotCreated
    <3>2. \A u \in Threads \ {t} : public_fd'[u] = public_fd[u]
      BY <3>1 DEF NetTypes
    <3>3. Served'
      BY <1>0, <2>2, <3>1, <3>2, GivenUpKeepsServed
    <3> QED
      BY <1>0, <1>3, <2>4, <3>3 DEF NotCreated
  <2> QED
    BY <1>1, <1>3, <2>1, <2>3, <2>4, Names DEF Serves
<1>4. CASE e \in Threads /\ TypeOf(e) = "Accept"
  <2>1. CASE NotAccepted(e)
    <3>1. UNCHANGED <<public_fd, local_fd, open>>
      BY <2>1 DEF NotAccepted
    <3>2. Served'
      BY <1>0, <3>1, ServedFrame DEF ItemInv, ItemTypes
    <3> QED
      BY <2>1, <3>1, <3>2 DEF NotAccepted
  <2>2. ASSUME NEW t \in Threads \ in_use, Opened(e, t)
        PROVE  Served' /\ failed' = failed /\ \A u \in in_use : local_fd'[u] = local_fd[u]
    <3>1. local_fd[t] \notin Ids
      BY <2>2 DEF Served
    <3>2. Served'
      BY <1>0, <1>2, <2>2, <3>1, OpenedKeepsServed
    <3>3. \A u \in in_use : local_fd'[u] = local_fd[u]
      BY <1>0, <2>2 DEF Opened, NetTypes
    <3> QED
      BY <2>2, <3>2, <3>3 DEF Opened
  <2>3. (\E t \in Threads \ in_use : Opened(e, t)) \/ NotAccepted(e)
    BY <1>0, <1>1, <1>4 DEF Serves
  <2> QED
    BY <2>1, <2>2, <2>3 DEF NotAccepted
<1>5. CASE e = Dispatcher /\ TypeOf(e) = "Close"
  <2>1. PICK t \in in_use : t = WorkerOf(Dispatcher)
    BY <1>1, <1>5, Names DEF Serves
  <2>2. xe_net_internal_close_socket(t) /\ UNCHANGED <<failed, in_use>>
    BY <1>1, <1>5, <2>1, Names DEF Serves
  <2>3. t \in Threads /\ live[t] = None
    BY <1>0, <1>5, <2>1 DEF Own, Closing, Started
  <2>4. /\ local_fd' = [local_fd EXCEPT ![t] = Invalid]
        /\ public_fd' = [public_fd EXCEPT ![t] = Invalid]
        /\ open' = open \ {local_fd[t]}
    BY <2>2 DEF xe_net_internal_close_socket
  <2>5. \A u \in Threads \ {t} : public_fd'[u] = public_fd[u]
    BY <2>4 DEF NetTypes
  <2>6. Served'
    BY <1>0, <2>2, <2>3, <2>4, <2>5, GivenUpKeepsServed
  <2> QED
    BY <1>0, <1>5, <2>2, <2>6
<1>6. CASE UNCHANGED servingVars
  <2>1. UNCHANGED <<failed, public_fd, local_fd, open>>
    BY <1>6 DEF servingVars
  <2>2. Served'
    BY <1>0, <2>1, ServedFrame DEF ItemInv, ItemTypes
  <2> QED
    BY <2>1, <2>2
<1> QED
  BY <1>1, <1>3, <1>4, <1>5, <1>6 DEF Serves

\* Only a thread that has no socket any more is released, by the dispatcher.
LEMMA FinishOnSockets ==
    ASSUME ItemInv, NetTypes, Own, NEW e \in Executors, FinishItem(e)
    PROVE  \/ UNCHANGED socketVars
           \/ /\ e = Dispatcher /\ WorkerOf(e) \in in_use
              /\ TypeOf(e) \in {"Create", "Close"}
              /\ local_fd[WorkerOf(e)] = Invalid
              /\ release_worker_thread(WorkerOf(e))
<1>1. CASE ~ReleasesThread(e)
  BY <1>1 DEF FinishItem
<1>2. CASE ReleasesThread(e)
  <2>1. release_worker_thread(WorkerOf(e)) /\ pc[e] = "finish"
    BY <1>2 DEF FinishItem
  <2>2. TypeOf(e) \in {"Create", "Close"}
    BY <1>2 DEF ReleasesThread
  <2>3. e = Dispatcher
    <3>1. e \in Threads => TypeOf(e) \in QueuedTypes
      BY <2>1 DEF ItemInv, WorkersOwn
    <3> QED
      BY <2>2, <3>1, Names DEF QueuedTypes
  <2>4. WorkerOf(e) \in in_use
    BY <2>1, <2>2, <2>3 DEF ItemInv, DispatchersOwn
  <2>5. local_fd[WorkerOf(e)] = Invalid
    BY <1>2, <2>1, <2>2, <2>3 DEF Own, Creating, Closing, ReleasesThread, Done
  <2> QED
    BY <2>1, <2>2, <2>3, <2>4, <2>5
<1> QED
  BY <1>1, <1>2

\* So no socket that the PVM uses loses its thread.
LEMMA FinishKeepsServed ==
    ASSUME ItemInv, NetTypes, Served, Own, NEW e \in Executors, FinishItem(e)
    PROVE  Served'
<1>1. UNCHANGED <<live, answered>> /\ live \in [Threads -> Ids \cup {None}]
  BY DEF FinishItem, pvmVars, ItemInv, ItemTypes
<1>2. CASE UNCHANGED socketVars
  <2>1. UNCHANGED <<public_fd, local_fd, open, in_use>>
    BY <1>2 DEF socketVars
  <2> QED
    BY <1>1, <2>1, ServedFrame
<1>3. CASE /\ e = Dispatcher /\ WorkerOf(e) \in in_use
           /\ local_fd[WorkerOf(e)] = Invalid
           /\ release_worker_thread(WorkerOf(e))
  <2>1. PICK t \in in_use : t = WorkerOf(e)
    BY <1>3
  <2>2. /\ t \in Threads /\ local_fd[t] = Invalid /\ Invalid \notin Ids
        /\ release_worker_thread(t)
    BY <1>3, <2>1 DEF ItemInv, ItemTypes, Invalid, Ids
  <2>3. live[t] = None
    BY <2>2, NoSocketNotLive
  <2>4. /\ local_fd' = [local_fd EXCEPT ![t] = Invalid]
        /\ public_fd' = [public_fd EXCEPT ![t] = Invalid]
        /\ open' = open \ {local_fd[t]} /\ in_use' = in_use \ {t}
    BY <2>2 DEF release_worker_thread, xe_net_internal_close_socket
  <2>5. \A u \in Threads \ {t} : public_fd'[u] = public_fd[u]
    BY <2>4 DEF NetTypes
  <2> QED
    BY <1>1, <2>2, <2>3, <2>4, <2>5, GivenUpKeepsServed
<1> QED
  BY <1>2, <1>3, FinishOnSockets

\* Every step keeps the sockets served.
LEMMA SocketsInvPreserved ==
    ItemInv /\ NetTypes /\ AnswerInv /\ SocketsInv /\ [Next]_vars => SocketsInv'
<1> SUFFICES ASSUME ItemInv, NetTypes, AnswerInv, SocketsInv, [Next]_vars
             PROVE  SocketsInv'
  OBVIOUS
<1>0. /\ Fresh /\ Served /\ Own
      /\ live \in [Threads -> Ids \cup {None}]
      /\ answered \in [Ids -> 0..MaxAnswers] /\ 0..MaxAnswers \subseteq Nat
      /\ pc \in [Executors -> AllSteps] /\ Dispatcher \in Executors
  BY Names DEF SocketsInv, Own, ItemInv, ItemTypes, AnswerInv, MaxAnswers
<1>1. Fresh'
  <2>1. ItemInv'
    BY ItemInvPreserved
  <2> QED
    BY <1>0, <2>1, FreshPreserved
<1>2. ASSUME UNCHANGED <<public_fd, local_fd, open, answered>>,
             in_use \subseteq in_use', \A t \in Threads : live'[t] \in {None, live[t]}
      PROVE  Served'
  BY <1>0, <1>2, ServedFrame
<1>3. ASSUME NEW e \in Threads, BeginWork(e) \/ Process(e),
             \A t \in in_use : local_fd'[t] = local_fd[t],
             UNCHANGED <<live, answered>>,
             failed' = failed \/ (failed' = failed \cup {IdOf(e)} /\ pc[e] \notin Idle)
      PROVE  Own'
  BY <1>0, <1>3, OwnFrame
<1>4. CASE UNCHANGED vars
  <2>1. UNCHANGED <<public_fd, local_fd, open, answered, in_use, live, failed, req,
                    region, buf, assigned_thread, pc>>
    BY <1>4 DEF vars, pvmVars, bufferVars, socketVars, threadVars
  <2>2. Served'
    BY <1>2, <2>1
  <2>3. /\ IdOf(Dispatcher)' = IdOf(Dispatcher) /\ Current' = Current
        /\ TypeOf(Dispatcher)' = TypeOf(Dispatcher)
        /\ WorkerOf(Dispatcher)' = WorkerOf(Dispatcher)
    BY <2>1 DEF IdOf, Current, TypeOf, WorkerOf
  <2>4. Own'
    BY <1>0, <2>1, <2>3 DEF Own, Asked, Creating, Closing
  <2> QED
    BY <1>1, <2>2, <2>4 DEF SocketsInv, Own
<1>5. CASE reserve_available_buffer_item
  <2>1. UNCHANGED <<public_fd, local_fd, open, answered, in_use, live>>
    BY <1>5 DEF reserve_available_buffer_item, pvmVars, socketVars
  <2>2. pc'[Dispatcher] \in {"reserve", "read"}
    BY <1>0, <1>5 DEF reserve_available_buffer_item, Goto
  <2>3. Served'
    BY <1>2, <2>1
  <2> QED
    BY <1>1, <2>2, <2>3, OwnIdle DEF SocketsInv, Own
<1>6. ASSUME NEW r \in Requests, ReadRequest(r) PROVE SocketsInv'
  <2>1. UNCHANGED <<public_fd, local_fd, open, answered, in_use>>
    BY <1>6 DEF ReadRequest, socketVars
  <2>2. \A t \in Threads : live'[t] \in {None, live[t]}
    BY <1>6 DEF ReadRequest
  <2>3. Served'
    BY <1>2, <2>1, <2>2
  <2> QED
    BY <1>0, <1>1, <1>6, <2>3, ReadKeepsOwn DEF SocketsInv, Own
<1>7. CASE assign_work_to_thread
  <2>1. UNCHANGED <<public_fd, local_fd, open, answered, live>>
    BY <1>7 DEF assign_work_to_thread, pvmVars
  <2>2. in_use \subseteq in_use'
    BY <1>7, Zenon DEF assign_work_to_thread
  <2>3. Served'
    BY <1>2, <2>1, <2>2
  <2> QED
    BY <1>0, <1>1, <1>7, <2>3, AssignKeepsOwn DEF SocketsInv, Own
<1>8. CASE AcquireOplock
  <2>1. UNCHANGED <<public_fd, local_fd, open, answered, in_use, live>>
    BY <1>8 DEF AcquireOplock, pvmVars, socketVars
  <2>2. Served'
    BY <1>2, <2>1
  <2> QED
    BY <1>0, <1>1, <1>8, <2>2, GoingOnKeepsOwn DEF SocketsInv, Own
<1>9. CASE Enqueue
  <2>1. UNCHANGED <<public_fd, local_fd, open, answered, in_use, live>>
    BY <1>9 DEF Enqueue, pvmVars, socketVars
  <2>2. pc'[Dispatcher] = "reserve"
    BY <1>0, <1>9 DEF Enqueue, Goto
  <2>3. Served'
    BY <1>2, <2>1
  <2> QED
    BY <1>1, <2>2, <2>3, OwnIdle DEF SocketsInv, Own
<1>10. CASE send_dispatch_error_response
  <2>1. /\ UNCHANGED <<public_fd, local_fd, open, in_use, live>>
        /\ answered' = [answered EXCEPT ![IdOf(Dispatcher)] = @ + 1]
    BY <1>10 DEF send_dispatch_error_response, socketVars
  <2>2. pc'[Dispatcher] = "reserve"
    BY <1>0, <1>10 DEF send_dispatch_error_response, Goto
  <2>3. \A i \in Ids : answered[i] > 0 => answered'[i] > 0
    BY <1>0, <2>1
  <2>4. Served'
    BY <1>0, <2>1, <2>3, ServedFrame
  <2> QED
    BY <1>1, <2>2, <2>4, OwnIdle DEF SocketsInv, Own
<1>11. ASSUME NEW e \in Threads, BeginWork(e) PROVE SocketsInv'
  <2>1. UNCHANGED <<public_fd, local_fd, open, answered, in_use, live, failed>>
    BY <1>11 DEF BeginWork, pvmVars, socketVars
  <2>2. Served'
    BY <1>2, <2>1
  <2>3. Own'
    BY <1>3, <1>11, <2>1
  <2> QED
    BY <1>1, <2>2, <2>3 DEF SocketsInv, Own
<1>12. ASSUME NEW e \in Executors, Operation(e) PROVE SocketsInv'
  <2>1. /\ Served'
        /\ e \in Threads => \A t \in in_use : local_fd'[t] = local_fd[t]
        /\ failed' = failed \/ failed' = failed \cup {IdOf(e)}
    BY <1>0, <1>12, OperationKeepsServed
  <2>2. pc[e] \notin Idle /\ UNCHANGED <<live, answered>>
    BY <1>12, OperationMoves DEF Idle
  <2>3. e \in Threads => Own'
    BY <1>3, <1>12, <2>1, <2>2 DEF Process
  <2>4. e = Dispatcher => Own'
    BY <1>0, <1>12, OperationKeepsOwn
  <2> QED
    BY <1>1, <2>1, <2>3, <2>4, Names DEF SocketsInv, Own
<1>13. ASSUME NEW e \in Executors, PublishPorts(e) PROVE SocketsInv'
  <2>1. UNCHANGED <<public_fd, local_fd, open, answered, in_use, live>>
    BY <1>13 DEF PublishPorts, pvmVars, socketVars
  <2>2. Served'
    BY <1>2, <2>1
  <2>3. e = Dispatcher
    BY <1>13, Names DEF PublishPorts, ItemInv, Steps
  <2> QED
    BY <1>0, <1>1, <1>13, <2>2, <2>3, GoingOnKeepsOwn DEF SocketsInv, Own
<1>14. ASSUME NEW e \in Executors, WriteResponse(e) PROVE SocketsInv'
  <2>1. /\ Served'
        /\ \A i \in Ids : answered[i] > 0 => answered'[i] > 0
        /\ \A t \in Threads : \/ live'[t] = live[t]
                              \/ live'[t] = IdOf(e) /\ local_fd[t] = IdOf(e)
    BY <1>0, <1>14, ResponseKeepsServed
  <2>2. pc[e] = "respond" /\ UNCHANGED <<local_fd, failed>>
    BY <1>14 DEF WriteResponse, socketVars
  <2>3. answered[IdOf(e)] = 0
    BY <2>2 DEF AnswerInv, Early
  <2>4. e \in Threads => Own'
    BY <1>0, <1>14, <2>1, <2>2, <2>3, OwnFrame DEF Process
  <2>5. e = Dispatcher => Own'
    BY <1>0, <1>14, GoingOnKeepsOwn
  <2> QED
    BY <1>1, <2>1, <2>4, <2>5, Names DEF SocketsInv, Own
<1>15. ASSUME NEW e \in Executors, FinishItem(e) PROVE SocketsInv'
  <2>1. Served'
    BY <1>0, <1>15, FinishKeepsServed
  <2>2. CASE e = Dispatcher
    <3>1. pc'[Dispatcher] \in {"reserve", "error"}
      BY <1>0, <1>15, <2>2 DEF FinishItem, Goto
    <3> QED
      BY <1>1, <2>1, <3>1, OwnIdle DEF SocketsInv, Own
  <2>3. CASE e \in Threads
    <3>1. UNCHANGED <<live, answered, failed>>
      BY <1>15 DEF FinishItem, pvmVars
    <3>2. UNCHANGED socketVars
      BY <1>0, <1>15, <2>3, FinishOnSockets, Names
    <3>3. Own'
      BY <1>3, <1>15, <2>3, <3>1, <3>2 DEF socketVars, Process
    <3> QED
      BY <1>1, <2>1, <3>3 DEF SocketsInv, Own
  <2> QED
    BY <2>2, <2>3, Names
<1> QED
  BY <1>4, <1>5, <1>6, <1>7, <1>8, <1>9, <1>10, <1>11, <1>12, <1>13, <1>14, <1>15,
     Zenon DEF Next, Dispatch, Process

\* The sockets are always served.
LEMMA SocketsAlways == Spec => []SocketsInv
  BY SocketsInvInitially, SocketsInvPreserved, ItemsAlways, NetTypesAlways,
     AnswersAlways, PTL DEF Spec

\* For every value of the constants, a descriptor the PVM holds is served: the
\* thread it names is in use under it and has the socket the PVM means, open,
\* although the dispatcher releases threads and workers that accept take them
\* in between.
THEOREM LiveFdAlwaysServed == Spec => []LiveFdIsServed
<1>1. ItemInv /\ SocketsInv => LiveFdIsServed
  BY DEF ItemInv, ItemTypes, SocketsInv, Served, LiveFdIsServed
<1> QED
  BY <1>1, ItemsAlways, SocketsAlways, PTL
-----------------------------------------------------------------------------
(* The count of sockets.                                                   *)

\* How the cardinality of a set of requests changes with one of them.
LEMMA SetsOfIds ==
    ASSUME NEW S, S \subseteq Ids
    PROVE  /\ Cardinality(S) \in Nat
           /\ \A x \in Ids : /\ x \notin S => Cardinality(S \cup {x}) = Cardinality(S) + 1
                             /\ Cardinality(S \cup {x}) >= Cardinality(S)
                             /\ Cardinality(S \cup {x}) \in Nat
                             /\ x \in S => Cardinality(S \ {x}) = Cardinality(S) - 1
<1>1. IsFiniteSet(Ids)
  BY FS_Interval, DispatchAssumption DEF Ids
<1>2. IsFiniteSet(S)
  BY <1>1, FS_Subset
<1>3. Cardinality(S) \in Nat
  BY <1>2, FS_CardinalityType
<1>4. ASSUME NEW x \in Ids
      PROVE  /\ IsFiniteSet(S \cup {x})
             /\ Cardinality(S \cup {x}) = IF x \in S THEN Cardinality(S) ELSE Cardinality(S) + 1
             /\ Cardinality(S \ {x}) = IF x \in S THEN Cardinality(S) - 1 ELSE Cardinality(S)
  BY <1>2, FS_AddElement, FS_RemoveElement
<1> QED
  BY <1>3, <1>4

\* Every step keeps the count.
LEMMA SocketCountPreserved ==
    ItemInv /\ NetTypes /\ SocketsInv /\ SocketCount /\ [Next]_vars => SocketCount'
<1> SUFFICES ASSUME ItemInv, NetTypes, SocketsInv, SocketCount, [Next]_vars
             PROVE  SocketCount'
  OBVIOUS
<1>0. /\ open \subseteq Ids /\ failed \subseteq Ids /\ socket_ct \in Int
      /\ Cardinality(open) \in Nat /\ Cardinality(failed) \in Nat
      /\ Cardinality(open) <= socket_ct
      /\ socket_ct <= Cardinality(open) + Cardinality(failed)
      /\ Dispatcher \in Executors
      /\ Fresh /\ Served /\ Own
  BY SetsOfIds, Names DEF NetTypes, SocketCount, SocketsInv, Own
<1>1. ASSUME UNCHANGED <<open, failed, socket_ct>> PROVE SocketCount'
  BY <1>0, <1>1 DEF SocketCount
<1>2. ASSUME NEW i \in Ids, failed' = failed \cup {i}, UNCHANGED <<open, socket_ct>>
      PROVE  SocketCount'
  <2>1. Cardinality(failed') >= Cardinality(failed) /\ Cardinality(failed') \in Nat
    BY <1>0, <1>2, SetsOfIds
  <2> QED
    BY <1>0, <1>2, <2>1 DEF SocketCount
<1>3. CASE UNCHANGED vars
  BY <1>1, <1>3 DEF vars, pvmVars, socketVars
<1>4. CASE \/ reserve_available_buffer_item \/ assign_work_to_thread
           \/ AcquireOplock \/ Enqueue
           \/ \E r \in Requests : ReadRequest(r)
           \/ \E t \in Threads : BeginWork(t)
           \/ \E e \in Executors : PublishPorts(e) \/ WriteResponse(e)
  BY <1>1, <1>4, OthersLeaveSockets
<1>5. CASE send_dispatch_error_response
  <2>1. IdOf(Dispatcher) \in Ids
    BY <1>0, <1>5, HeldIds DEF send_dispatch_error_response, Idle
  <2> QED
    BY <1>2, <1>5, <2>1 DEF send_dispatch_error_response, socketVars
<1>6. ASSUME NEW e \in Executors, FinishItem(e) PROVE SocketCount'
  <2>1. UNCHANGED failed
    BY <1>6 DEF FinishItem, pvmVars
  <2>2. CASE UNCHANGED socketVars
    BY <1>1, <2>1, <2>2 DEF socketVars
  <2>3. CASE /\ local_fd[WorkerOf(e)] = Invalid
             /\ release_worker_thread(WorkerOf(e))
    <3>1. Invalid \notin open
      BY <1>0 DEF Invalid, Ids
    <3>2. open' = open /\ socket_ct' = socket_ct
      BY <2>3, <3>1 DEF release_worker_thread, xe_net_internal_close_socket
    <3> QED
      BY <1>1, <2>1, <3>2
  <2> QED
    BY <1>0, <1>6, <2>2, <2>3, FinishOnSockets
<1>7. ASSUME NEW e \in Executors, Operation(e) PROVE SocketCount'
  <2>1. pc[e] = "operate" /\ Serves(e)
    BY <1>7, OperationMoves, OperationServes
  <2>2. IdOf(e) \in Ids
    BY <2>1, HeldIds DEF Idle
  <2>3. IdOf(e) \notin open /\ IdOf(e) \notin failed
    <3>1. IdOf(e) \in Pending
      BY <2>1, <2>2 DEF Pending, Started
    <3> QED
      BY <1>0, <3>1 DEF Fresh, Unopened
  <2>4. ASSUME NEW t, Opened(e, t) PROVE SocketCount'
    <3>1. /\ open' = open \cup {IdOf(e)} /\ failed' = failed
          /\ socket_ct' = socket_ct + 1
      BY <2>4 DEF Opened
    <3>2. Cardinality(open') = Cardinality(open) + 1
      BY <1>0, <2>2, <2>3, <3>1, SetsOfIds
    <3> QED
      BY <1>0, <3>1, <3>2 DEF SocketCount
  <2>5. CASE /\ failed' = failed \cup {IdOf(e)} /\ open' = open
             /\ socket_ct' = socket_ct + 1
    <3>1. Cardinality(failed') = Cardinality(failed) + 1
      BY <1>0, <2>2, <2>3, <2>5, SetsOfIds
    <3> QED
      BY <1>0, <2>5, <3>1 DEF SocketCount
  <2>6. CASE NotAccepted(e)
    BY <1>2, <2>2, <2>5, <2>6 DEF NotAccepted
  <2>7. CASE NotCreated /\ e = Dispatcher
    BY <2>5, <2>7 DEF NotCreated
  <2>8. CASE /\ e = Dispatcher /\ TypeOf(e) = "Close" /\ UNCHANGED failed
             /\ xe_net_internal_close_socket(WorkerOf(e))
    <3>1. local_fd[WorkerOf(Dispatcher)] \in Ids /\ WorkerOf(Dispatcher) \in Threads
      BY <1>0, <2>1, <2>8 DEF Own, Closing, Started
    <3>2. PICK i \in Ids : i = local_fd[WorkerOf(Dispatcher)]
      BY <3>1
    <3>3. i \in open
      BY <1>0, <3>1, <3>2 DEF Served
    <3>4. open' = open \ {i} /\ socket_ct' = socket_ct - 1
      BY <2>8, <3>1, <3>2 DEF xe_net_internal_close_socket, Invalid, Ids
    <3>5. Cardinality(open') = Cardinality(open) - 1
      BY <1>0, <3>3, <3>4, SetsOfIds
    <3> QED
      BY <1>0, <2>8, <3>4, <3>5 DEF SocketCount
  <2>9. CASE UNCHANGED servingVars
    BY <1>1, <2>9 DEF servingVars
  <2> QED
    BY <2>1, <2>4, <2>6, <2>7, <2>8, <2>9 DEF Serves
<1> QED
  BY <1>3, <1>4, <1>5, <1>6, <1>7, Zenon DEF Next, Dispatch, Process

\* For every value of the constants, network_stats_socket_ct never reports fewer
\* sockets than are open, and at most as many more as requests have failed: no
\* sequence of closing and releasing takes a socket off the count twice.
THEOREM SocketsAlwaysCounted == Spec => []SocketCount
<1>1. Init => SocketCount
  BY FS_EmptySet DEF Init, SocketCount
<1> QED
  BY <1>1, SocketCountPreserved, ItemsAlways, NetTypesAlways, SocketsAlways, PTL
     DEF Spec
-----------------------------------------------------------------------------
(* The listening ports.                                                    *)

\* A thread that is free, or is being prepared for a socket or released after
\* one, has no port; and the ports of the others are published, or about to be,
\* unless the latest attempt failed.
PortInv ==
    /\ \A t \in Threads \ in_use : bound_port_num[t] = None
    /\ pc[Dispatcher] \in Doing /\ TypeOf(Dispatcher) = "Create" =>
         bound_port_num[WorkerOf(Dispatcher)] = None
    /\ pc[Dispatcher] \in Done /\ TypeOf(Dispatcher) = "Close" =>
         bound_port_num[WorkerOf(Dispatcher)] = None
    /\ \/ pc[Dispatcher] = "publish" /\ ports = Listening(bound_port_num)
       \/ pc[Dispatcher] # "publish" /\ unpublished
       \/ pc[Dispatcher] # "publish" /\ published = Listening(bound_port_num)

\* The same threads are in use, but for some that have no port.
LEMMA SameListening ==
    ASSUME ItemInv, NetTypes, NEW t \in Threads,
           in_use \ {t} = in_use' \ {t}, in_use' \subseteq Threads,
           bound_port_num[t] = None, bound_port_num' = bound_port_num
    PROVE  Listening(bound_port_num)' = Listening(bound_port_num)
<1>1. \A p : p \in Listening(bound_port_num)' =>
        p \in Listening(bound_port_num)
  BY DEF Listening
<1>2. \A p : p \in Listening(bound_port_num) =>
        p \in Listening(bound_port_num)'
  BY DEF Listening
<1> QED
  BY <1>1, <1>2

\* A step that changes no port.
LEMMA PortFrame ==
    ASSUME ItemInv, PortInv, UNCHANGED <<bound_port_num, in_use, published, unpublished, ports>>,
           pc'[Dispatcher] = "publish" <=> pc[Dispatcher] = "publish",
           \/ pc'[Dispatcher] \in {"reserve", "read", "assign", "error"}
           \/ /\ TypeOf(Dispatcher)' = TypeOf(Dispatcher)
              /\ WorkerOf(Dispatcher)' = WorkerOf(Dispatcher)
              /\ pc'[Dispatcher] \in Doing => pc[Dispatcher] \in Doing
              /\ pc'[Dispatcher] \in Done => pc[Dispatcher] \in Done
    PROVE  PortInv'
<1>1. Listening(bound_port_num)' = Listening(bound_port_num)
  BY DEF Listening
<1> QED
  BY <1>1 DEF PortInv, Doing, Done

\* The thread of the dispatcher's request changes hands only with the request.
LEMMA WorkersKeepCurrent ==
    ASSUME ItemInv, NEW e \in Threads, BeginWork(e) \/ Process(e)
    PROVE  /\ pc'[Dispatcher] = pc[Dispatcher]
           /\ \/ pc[Dispatcher] = "reserve"
              \/ /\ TypeOf(Dispatcher)' = TypeOf(Dispatcher)
                 /\ WorkerOf(Dispatcher)' = WorkerOf(Dispatcher)
                 /\ IdOf(Dispatcher)' = IdOf(Dispatcher)
<1>1. CASE pc[Dispatcher] \in Idle
  BY <1>1, WorkersApart, Names DEF ItemInv, Steps, Idle
<1>2. CASE pc[Dispatcher] \notin Idle
  BY <1>2, WorkersApart DEF TypeOf, IdOf
<1> QED
  BY <1>1, <1>2

\* A thread is taken for a request only while it has no port.
LEMMA AssignKeepsPorts ==
    ASSUME ItemInv, NetTypes, Own, PortInv, assign_work_to_thread
    PROVE  PortInv'
<1>0. in_use \subseteq Threads /\ assigned_thread \in [Buffers -> Threads \cup {None}]
  BY DEF ItemInv, ItemTypes
<1>1. /\ pc[Dispatcher] = "assign"
      /\ UNCHANGED <<req, region, buf, published, unpublished, ports, bound_port_num>>
  BY DEF assign_work_to_thread, pvmVars, storeVars
<1>2. Current' = Current /\ TypeOf(Dispatcher)' = TypeOf(Dispatcher)
  BY <1>1 DEF IdOf, Current, TypeOf
<1>3. CASE Goto(Dispatcher, "error") /\ UNCHANGED in_use
  <2>1. pc'[Dispatcher] = "error"
    BY <1>3, Names DEF Goto, ItemInv, ItemTypes
  <2> QED
    BY <1>1, <1>3, <2>1, PortFrame
<1>4. CASE /\ TypeOf(Dispatcher) = "PollsetQuery" /\ Goto(Dispatcher, "operate")
           /\ UNCHANGED in_use
  <2>1. pc'[Dispatcher] = "operate"
    BY <1>4, Names DEF Goto, ItemInv, ItemTypes
  <2>2. Listening(bound_port_num)' = Listening(bound_port_num)
    BY <1>1, <1>4 DEF Listening
  <2> QED
    BY <1>1, <1>2, <1>4, <2>1, <2>2 DEF PortInv
<1>5. CASE \E t \in get_worker_thread_for_fd(Current.fd) :
             /\ assigned_thread' = [assigned_thread EXCEPT ![buf[Dispatcher]] = t]
             /\ in_use' = in_use \cup {t}
             /\ \E x \in {"oplock", "enqueue", "operate"} : Goto(Dispatcher, x)
  <2>1. PICK t \in get_worker_thread_for_fd(Current.fd) :
             /\ assigned_thread' = [assigned_thread EXCEPT ![buf[Dispatcher]] = t]
             /\ in_use' = in_use \cup {t}
             /\ \E x \in {"oplock", "enqueue", "operate"} : Goto(Dispatcher, x)
    BY <1>5
  <2>2. pc'[Dispatcher] \in {"oplock", "enqueue", "operate"}
    BY <2>1, Names DEF Goto, ItemInv, ItemTypes
  <2>3. WorkerOf(Dispatcher)' = t
    <3>1. buf[Dispatcher] \in Buffers
      BY <1>1, HeldIds, Names DEF Idle
    <3> QED
      BY <1>0, <1>1, <2>1, <3>1 DEF WorkerOf
  <2>4. /\ t \in Threads /\ (Current.fd = Invalid => t \notin in_use)
        /\ Current.fd # Invalid => t \in in_use
    BY <1>0, FoundThreads
  <2>5. Listening(bound_port_num)' = Listening(bound_port_num)
    <3>1. CASE t \in in_use
      <4>1. in_use' = in_use
        BY <2>1, <3>1
      <4> QED
        BY <1>1, <4>1 DEF Listening
    <3>2. CASE t \notin in_use
      <4>1. bound_port_num[t] = None
        BY <2>4, <3>2 DEF PortInv
      <4>2. in_use \ {t} = in_use' \ {t} /\ in_use' \subseteq Threads
        BY <1>0, <2>1, <2>4
      <4> QED
        BY <1>1, <2>4, <4>1, <4>2, SameListening
    <3> QED
      BY <3>1, <3>2
  <2>6. TypeOf(Dispatcher) = "Create" => bound_port_num[t] = None
    BY <1>1, <2>4 DEF Own, Asked, SocketTypes, QueuedTypes, PortInv
  <2>7. \A u \in Threads \ in_use' : bound_port_num'[u] = None
    BY <1>1, <2>1 DEF PortInv
  <2> QED
    BY <1>1, <1>2, <2>2, <2>3, <2>5, <2>6, <2>7 DEF PortInv, Done
<1> QED
  BY <1>3, <1>4, <1>5, Zenon DEF assign_work_to_thread, Current

\* The dispatcher performs a request.
LEMMA OperationKeepsPorts ==
    ASSUME ItemInv, NetTypes, PortInv, Operation(Dispatcher)
    PROVE  PortInv'
<1>0. /\ Dispatcher \in Executors /\ in_use \subseteq Threads
      /\ bound_port_num \in [Threads -> Ports \cup {None}]
  BY Names DEF ItemInv, ItemTypes, NetTypes
<1>1. /\ pc[Dispatcher] = "operate" /\ pc'[Dispatcher] \in {"respond", "publish"}
      /\ UNCHANGED <<req, region, assigned_thread, buf, published, unpublished>>
      /\ pc \in [Executors -> AllSteps]
  BY <1>0, OperationMoves DEF Goto, bufferVars, storeVars, ItemInv, ItemTypes
<1>2. /\ TypeOf(Dispatcher)' = TypeOf(Dispatcher)
      /\ WorkerOf(Dispatcher)' = WorkerOf(Dispatcher)
  BY <1>1 DEF IdOf, TypeOf, WorkerOf
<1>3. Serves(Dispatcher)
  BY <1>0, OperationServes
<1>4. ASSUME UNCHANGED <<bound_port_num, in_use, ports>>,
             Goto(Dispatcher, "respond"), TypeOf(Dispatcher) # "Close"
      PROVE  PortInv'
  <2>1. pc'[Dispatcher] = "respond"
    BY <1>0, <1>1, <1>4 DEF Goto
  <2>2. Listening(bound_port_num)' = Listening(bound_port_num)
    BY <1>4 DEF Listening
  <2> QED
    BY <1>1, <1>2, <1>4, <2>1, <2>2 DEF PortInv, Doing, Done
<1>5. CASE TypeOf(Dispatcher) = "Create"
  <2>1. /\ UNCHANGED <<bound_port_num, ports>> /\ Goto(Dispatcher, "respond")
        /\ WorkerOf(Dispatcher) \in in_use
        /\ Opened(Dispatcher, WorkerOf(Dispatcher)) \/ NotCreated
    BY <1>3, <1>5, Names DEF Serves
  <2>2. in_use' = in_use
    BY <2>1 DEF Opened, NotCreated
  <2> QED
    BY <1>4, <1>5, <2>1, <2>2
<1>6. CASE TypeOf(Dispatcher) = "Close"
  <2>1. PICK t \in Threads : t = WorkerOf(Dispatcher)
    BY <1>0, <1>3, <1>6, Names DEF Serves
  <2>2. /\ xe_net_internal_close_socket(t) /\ UNCHANGED in_use
        /\ update_listening_ports(Dispatcher, bound_port_num[t] # None,
                                  bound_port_num')
    BY <1>3, <1>6, <2>1, Names DEF Serves
  <2>3. bound_port_num' = [bound_port_num EXCEPT ![t] = None]
    BY <2>2 DEF xe_net_internal_close_socket
  <2>4. /\ bound_port_num'[t] = None
        /\ \A u \in Threads : bound_port_num[u] = None => bound_port_num'[u] = None
    BY <1>0, <2>3
  <2>5. CASE bound_port_num[t] # None
    <3>1. ports' = Listening(bound_port_num') /\ pc'[Dispatcher] = "publish"
      BY <1>0, <1>1, <2>2, <2>5 DEF update_listening_ports, Goto
    <3>2. ports' = Listening(bound_port_num)'
      BY <2>2, <3>1 DEF Listening
    <3> QED
      BY <1>2, <1>6, <2>1, <2>2, <2>4, <3>1, <3>2 DEF PortInv
  <2>6. CASE bound_port_num[t] = None
    <3>1. ports' = ports /\ pc'[Dispatcher] = "respond"
      BY <1>0, <1>1, <2>2, <2>6 DEF update_listening_ports, Goto
    <3>2. bound_port_num' = bound_port_num
      BY <1>0, <2>3, <2>6
    <3>3. Listening(bound_port_num)' = Listening(bound_port_num)
      BY <2>2, <3>2 DEF Listening
    <3> QED
      BY <1>1, <1>2, <1>6, <2>1, <2>2, <2>4, <3>1, <3>3 DEF PortInv
  <2> QED
    BY <2>5, <2>6
<1>7. CASE TypeOf(Dispatcher) = "Bind"
  <2>1. xe_net_bind_socket(Dispatcher) /\ UNCHANGED servingVars
    BY <1>3, <1>7, Names DEF Serves
  <2>2. UNCHANGED in_use
    BY <2>1 DEF servingVars
  <2>3. CASE /\ UNCHANGED bound_port_num
             /\ update_listening_ports(Dispatcher, FALSE, bound_port_num)
    <3>1. UNCHANGED ports /\ Goto(Dispatcher, "respond")
      BY <2>3 DEF update_listening_ports
    <3> QED
      BY <1>4, <1>7, <2>2, <2>3, <3>1
  <2>4. CASE /\ local_fd[WorkerOf(Dispatcher)] \in open
             /\ \E p \in Ports :
                  bound_port_num' = [bound_port_num EXCEPT ![WorkerOf(Dispatcher)] = p]
             /\ update_listening_ports(Dispatcher, TRUE, bound_port_num')
    <3>1. ports' = Listening(bound_port_num') /\ pc'[Dispatcher] = "publish"
      BY <1>0, <1>1, <2>4 DEF update_listening_ports, Goto
    <3>2. ports' = Listening(bound_port_num)'
      BY <2>2, <3>1 DEF Listening
    <3>3. WorkerOf(Dispatcher) \in in_use
      BY <1>1, <1>7 DEF ItemInv, DispatchersOwn
    <3>4. \A u \in Threads \ in_use : bound_port_num'[u] = bound_port_num[u]
      BY <1>0, <2>4, <3>3
    <3> QED
      BY <1>2, <1>7, <2>2, <3>1, <3>2, <3>4 DEF PortInv
  <2> QED
    BY <2>1, <2>3, <2>4, Zenon DEF xe_net_bind_socket
<1>8. CASE TypeOf(Dispatcher) \notin {"Create", "Close", "Bind"}
  <2>1. UNCHANGED <<servingVars, bound_port_num, ports>> /\ Goto(Dispatcher, "respond")
    BY <1>3, <1>8, Names DEF Serves
  <2> QED
    BY <1>4, <1>8, <2>1 DEF servingVars
<1> QED
  BY <1>5, <1>6, <1>7, <1>8

\* Every step keeps the ports.
LEMMA PortInvPreserved ==
    ItemInv /\ NetTypes /\ SocketsInv /\ PortInv /\ [Next]_vars => PortInv'
<1> SUFFICES ASSUME ItemInv, NetTypes, SocketsInv, PortInv, [Next]_vars PROVE PortInv'
  OBVIOUS
<1>0. /\ Own /\ Dispatcher \in Executors /\ in_use \subseteq Threads
      /\ pc \in [Executors -> AllSteps]
  BY Names DEF SocketsInv, Own, ItemInv, ItemTypes
<1>1. CASE UNCHANGED vars
  <2>1. UNCHANGED <<bound_port_num, in_use, published, unpublished, ports, pc, req, region, buf,
                    assigned_thread>>
    BY <1>1 DEF vars, pvmVars, bufferVars, socketVars, storeVars, threadVars
  <2>2. /\ TypeOf(Dispatcher)' = TypeOf(Dispatcher)
        /\ WorkerOf(Dispatcher)' = WorkerOf(Dispatcher)
    BY <2>1 DEF TypeOf, IdOf, WorkerOf
  <2> QED
    BY <2>1, <2>2, PortFrame
<1>2. CASE \/ reserve_available_buffer_item \/ Enqueue
           \/ send_dispatch_error_response \/ \E r \in Requests : ReadRequest(r)
  <2>1. UNCHANGED <<bound_port_num, in_use, published, unpublished, ports>>
    BY <1>2, Zenon DEF reserve_available_buffer_item, Enqueue,
       send_dispatch_error_response, ReadRequest, socketVars, storeVars
  <2>2. /\ pc[Dispatcher] \in {"reserve", "read", "enqueue", "error"}
        /\ pc'[Dispatcher] \in {"reserve", "read", "assign"}
    BY <1>0, <1>2 DEF reserve_available_buffer_item, Enqueue,
       send_dispatch_error_response, ReadRequest, Goto
  <2> QED
    BY <2>1, <2>2, PortFrame
<1>3. CASE assign_work_to_thread
  BY <1>0, <1>3, AssignKeepsPorts
<1>4. ASSUME Onward(Dispatcher), pc[Dispatcher] # "operate", pc[Dispatcher] # "publish",
             UNCHANGED <<bound_port_num, in_use, published, unpublished, ports>>
      PROVE  PortInv'
  <2>1. UNCHANGED <<req, region, buf, assigned_thread>>
    BY <1>4 DEF Onward, itemVars
  <2>2. /\ TypeOf(Dispatcher)' = TypeOf(Dispatcher)
        /\ WorkerOf(Dispatcher)' = WorkerOf(Dispatcher)
    BY <2>1 DEF TypeOf, IdOf, WorkerOf
  <2>3. \/ pc[Dispatcher] = "oplock" /\ pc'[Dispatcher] \in {"enqueue", "operate"}
        \/ pc[Dispatcher] = "respond" /\ pc'[Dispatcher] = "finish"
    BY <1>0, <1>4 DEF Onward, Goto
  <2> QED
    BY <1>4, <2>2, <2>3, PortFrame DEF Doing, Done
<1>5. CASE AcquireOplock
  <2>1. /\ UNCHANGED <<bound_port_num, in_use, published, unpublished, ports>>
        /\ pc[Dispatcher] = "oplock"
    BY <1>5 DEF AcquireOplock, socketVars, storeVars
  <2> QED
    BY <1>0, <1>4, <1>5, <2>1, ProcessGoesOn
<1>6. ASSUME NEW e \in Threads, BeginWork(e) \/ Process(e),
             UNCHANGED <<bound_port_num, in_use, published, unpublished, ports>>
      PROVE  PortInv'
  BY <1>6, WorkersKeepCurrent, PortFrame
<1>7. ASSUME NEW e \in Threads, BeginWork(e) PROVE PortInv'
  <2>1. UNCHANGED <<bound_port_num, in_use, published, unpublished, ports>>
    BY <1>7 DEF BeginWork, socketVars, storeVars
  <2> QED
    BY <1>6, <1>7, <2>1
<1>8. ASSUME NEW e \in Threads, Operation(e) PROVE PortInv'
  <2>1. e \in Executors /\ e # Dispatcher
    BY Names
  <2>2. UNCHANGED <<published, unpublished>> /\ Process(e)
    BY <1>8, <2>1, OperationMoves DEF Process, storeVars
  <2>3. Serves(e)
    BY <1>8, <2>1, OperationServes
  <2>4. UNCHANGED <<bound_port_num, ports>>
    BY <2>1, <2>3 DEF Serves
  <2>5. CASE UNCHANGED in_use
    BY <1>6, <2>2, <2>4, <2>5
  <2>6. ASSUME NEW t \in Threads \ in_use, Opened(e, t) PROVE PortInv'
    <3>1. in_use' = in_use \cup {t} /\ bound_port_num[t] = None
      BY <2>6 DEF Opened, PortInv
    <3>2. Listening(bound_port_num)' = Listening(bound_port_num)
      <4>1. in_use \ {t} = in_use' \ {t} /\ in_use' \subseteq Threads
        BY <1>0, <3>1
      <4> QED
        BY <2>4, <2>6, <3>1, <4>1, SameListening
    <3> QED
      BY <2>2, <2>4, <3>1, <3>2, WorkersKeepCurrent DEF PortInv, Doing, Done
  <2> QED
    BY <2>1, <2>3, <2>5, <2>6 DEF Serves, NotAccepted, servingVars
<1>9. CASE Operation(Dispatcher)
  BY <1>9, OperationKeepsPorts
<1>10. ASSUME NEW e \in Executors, PublishPorts(e) PROVE PortInv'
  <2>1. e = Dispatcher
    BY <1>10, Names DEF PublishPorts, ItemInv, Steps
  <2>2. /\ pc[Dispatcher] = "publish"
        /\ published' = ports \/ unpublished' = TRUE
        /\ UNCHANGED <<bound_port_num, in_use, req, region, buf, assigned_thread>>
        /\ pc'[Dispatcher] = "respond"
    BY <1>0, <1>10, <2>1
       DEF PublishPorts, socketVars, pvmVars, bufferVars, Goto
  <2>3. /\ TypeOf(Dispatcher)' = TypeOf(Dispatcher)
        /\ WorkerOf(Dispatcher)' = WorkerOf(Dispatcher)
        /\ Listening(bound_port_num)' = Listening(bound_port_num)
    BY <2>2 DEF TypeOf, IdOf, WorkerOf, Listening
  <2> QED
    BY <2>2, <2>3 DEF PortInv, Doing, Done
<1>11. ASSUME NEW e \in Executors, WriteResponse(e) PROVE PortInv'
  <2>1. UNCHANGED <<bound_port_num, in_use, published, unpublished, ports>> /\ pc[e] = "respond"
    BY <1>11 DEF WriteResponse, socketVars, storeVars
  <2>2. e \in Threads => PortInv'
    BY <1>6, <1>11, <2>1 DEF Process
  <2>3. e = Dispatcher => PortInv'
    BY <1>4, <1>11, <2>1, ProcessGoesOn
  <2> QED
    BY <2>2, <2>3, Names
<1>12. ASSUME NEW e \in Executors, FinishItem(e) PROVE PortInv'
  <2>1. pc[e] = "finish" /\ UNCHANGED <<published, unpublished, ports>>
    BY <1>12 DEF FinishItem, storeVars
  <2>2. CASE e \in Threads
    <3>1. UNCHANGED socketVars
      BY <1>0, <1>12, <2>2, FinishOnSockets, Names
    <3> QED
      BY <1>6, <1>12, <2>1, <2>2, <3>1 DEF Process, socketVars
  <2>3. CASE e = Dispatcher
    <3>1. pc'[Dispatcher] \in {"reserve", "error"}
      BY <1>0, <1>12, <2>3 DEF FinishItem, Goto
    <3>2. CASE UNCHANGED socketVars
      BY <2>1, <2>3, <3>1, <3>2, PortFrame DEF socketVars
    <3>3. CASE /\ WorkerOf(e) \in in_use /\ TypeOf(e) \in {"Create", "Close"}
               /\ release_worker_thread(WorkerOf(e))
      <4>1. PICK t \in Threads : t = WorkerOf(e)
        BY <1>0, <3>3
      <4>2. bound_port_num[t] = None
        BY <2>1, <2>3, <3>3, <4>1 DEF PortInv, Doing, Done
      <4>3. /\ in_use' = in_use \ {t}
            /\ bound_port_num' = [bound_port_num EXCEPT ![t] = None]
        BY <3>3, <4>1 DEF release_worker_thread, xe_net_internal_close_socket
      <4>4. bound_port_num' = bound_port_num
        BY <4>2, <4>3 DEF NetTypes
      <4>5. in_use \ {t} = in_use' \ {t} /\ in_use' \subseteq Threads
        BY <1>0, <4>3
      <4>6. Listening(bound_port_num)' = Listening(bound_port_num)
        BY <4>2, <4>4, <4>5, SameListening
      <4>7. \A u \in Threads \ in_use' : bound_port_num'[u] = None
        BY <4>2, <4>3, <4>4 DEF PortInv
      <4> QED
        BY <2>1, <2>3, <3>1, <4>6, <4>7 DEF PortInv, Doing, Done
    <3> QED
      BY <1>0, <1>12, <3>2, <3>3, FinishOnSockets
  <2> QED
    BY <2>2, <2>3, Names
<1> QED
  BY <1>1, <1>2, <1>3, <1>5, <1>7, <1>8, <1>9, <1>10, <1>11, <1>12, Names, Zenon
     DEF Next, Dispatch, Process

\* For every value of the constants, XenStore names exactly the ports of the
\* threads in use whenever the dispatcher is not about to publish them and the
\* latest attempt did not fail: no thread is taken or released, by whomever,
\* while it has a port.
THEOREM PortsAlwaysPublished == Spec => []PortsArePublished
<1>1. Init => PortInv
  BY Names DEF Init, PortInv, Listening, Doing, Done
<1>2. PortInv => PortsArePublished
  BY DEF PortInv, PortsArePublished
<1> QED
  BY <1>1, <1>2, PortInvPreserved, ItemsAlways, NetTypesAlways, SocketsAlways, PTL
     DEF Spec
-----------------------------------------------------------------------------
(* The threads that serve nothing.                                         *)

\* The dispatcher is at work on a socket of thread t, and will release it.
Kept(t) ==
    /\ pc[Dispatcher] \in Doing /\ TypeOf(Dispatcher) \in {"Create", "Close"}
    /\ WorkerOf(Dispatcher) = t

\* The threads in use that have no socket and that nobody will release, and the
\* requests that can have made them so.
Orphans    == {t \in in_use : local_fd[t] \notin open /\ ~Kept(t)}
AddrBlocks == {i \in DOMAIN req : req[i].type = "AddrBlock"}

\* One more request may make an orphan: the one that has no thread yet.
Credit == IF pc[Dispatcher] = "assign" /\ TypeOf(Dispatcher) = "AddrBlock" THEN 1 ELSE 0

StrandInv == Cardinality(Orphans) + Credit <= Cardinality(AddrBlocks)

\* The threads are finitely many, and so are the requests.
LEMMA StrandSets ==
    ASSUME ItemInv
    PROVE  /\ IsFiniteSet(Orphans) /\ Cardinality(Orphans) \in Nat
           /\ IsFiniteSet(AddrBlocks) /\ Cardinality(AddrBlocks) \in Nat
           /\ Credit \in {0, 1}
<1>1. IsFiniteSet(Threads)
  BY FS_Interval, DispatchAssumption DEF Threads
<1>2. Orphans \in SUBSET Threads
  BY DEF Orphans, ItemInv, ItemTypes
<1>3. DOMAIN req = 1..Len(req) /\ Len(req) \in Nat
  BY LenProperties DEF ItemInv, ItemTypes
<1>4. IsFiniteSet(DOMAIN req)
  BY <1>3, FS_Interval
<1>5. AddrBlocks \in SUBSET DOMAIN req
  BY DEF AddrBlocks
<1>6. IsFiniteSet(Orphans) /\ IsFiniteSet(AddrBlocks)
  BY <1>1, <1>2, <1>4, <1>5, FS_Subset
<1>7. Credit \in {0, 1}
  BY DEF Credit
<1> QED
  BY <1>6, <1>7, FS_CardinalityType

\* A step that makes no orphan.
LEMMA StrandFrame ==
    ASSUME ItemInv, StrandInv, UNCHANGED req,
           \A t \in in_use' : local_fd'[t] \notin open' /\ ~Kept(t)' =>
             t \in in_use /\ local_fd[t] \notin open /\ ~Kept(t),
           Credit' = Credit \/ Credit' = 0
    PROVE  StrandInv'
<1>1. Orphans' \in SUBSET Orphans
  BY DEF Orphans
<1>2. /\ IsFiniteSet(Orphans) /\ Cardinality(Orphans) \in Nat
      /\ Cardinality(AddrBlocks) \in Nat /\ Credit \in {0, 1}
  BY StrandSets
<1>3. Cardinality(Orphans') <= Cardinality(Orphans) /\ Cardinality(Orphans') \in Nat
  BY <1>1, <1>2, FS_Subset, FS_CardinalityType
<1>4. AddrBlocks' = AddrBlocks
  BY DEF AddrBlocks
<1> QED
  BY <1>2, <1>3, <1>4 DEF StrandInv

\* Reading a request to block an address allows for one more orphan.
LEMMA ReadKeepsStrands ==
    ASSUME ItemInv, StrandInv, NEW r \in Requests, ReadRequest(r)
    PROVE  StrandInv'
<1>1. PICK b \in Buffers : b = buf[Dispatcher]
  BY Names DEF ReadRequest, ItemInv, ItemTypes, Steps, Idle
<1> DEFINE new == [type |-> r.type, fd |-> r.fd,
                   sock |-> IF r.fd = Invalid THEN None ELSE live[r.fd],
                   overtakes |-> IF r.type = "Close" THEN Unanswered(r.fd)
                                 ELSE {}]
           n == Len(req) + 1
<1>2. /\ pc[Dispatcher] = "read" /\ pc' = [pc EXCEPT ![Dispatcher] = "assign"]
      /\ region' = [region EXCEPT ![b] = n]
      /\ UNCHANGED <<buf, local_fd, open, in_use>> /\ req' = Append(req, new)
  BY <1>1 DEF ReadRequest, Goto, socketVars
<1>3. /\ Len(req) \in Nat /\ DOMAIN req = 1..Len(req) /\ DOMAIN req' = 1..n
      /\ req'[n] = new /\ \A i \in 1..Len(req) : req'[i] = req[i]
  BY <1>2, AppendProperties, LenProperties DEF ItemInv, ItemTypes
<1>4. pc'[Dispatcher] = "assign" /\ TypeOf(Dispatcher)' = r.type
  BY <1>1, <1>2, <1>3, Names DEF TypeOf, IdOf, ItemInv, ItemTypes
<1>5. Orphans' = Orphans
  <2>1. \A t : ~Kept(t) /\ ~Kept(t)'
    BY <1>2, <1>4 DEF Kept, Doing
  <2> QED
    BY <1>2, <2>1 DEF Orphans
<1>6. /\ IsFiniteSet(Orphans) /\ Cardinality(Orphans) \in Nat
      /\ IsFiniteSet(AddrBlocks) /\ Cardinality(AddrBlocks) \in Nat
  BY StrandSets
<1>7. Credit = 0
  BY <1>2 DEF Credit
<1>8. CASE r.type = "AddrBlock"
  <2>1. n \notin AddrBlocks
    BY <1>3 DEF AddrBlocks
  <2>2. AddrBlocks' = AddrBlocks \cup {n}
    <3>1. \A i \in 1..n : i \in 1..Len(req) \/ i = n
      BY <1>3
    <3>2. n \in 1..n /\ 1..Len(req) \subseteq 1..n
      BY <1>3
    <3>3. new.type = "AddrBlock"
      BY <1>8
    <3> HIDE DEF n, new
    <3> QED
      BY <1>3, <3>1, <3>2, <3>3 DEF AddrBlocks
  <2>3. Cardinality(AddrBlocks') = Cardinality(AddrBlocks) + 1
    BY <1>6, <2>1, <2>2, FS_AddElement
  <2>4. Credit' = 1
    BY <1>4, <1>8 DEF Credit
  <2> QED
    BY <1>5, <1>6, <1>7, <2>3, <2>4 DEF StrandInv
<1>9. CASE r.type # "AddrBlock"
  <2>1. AddrBlocks' = AddrBlocks
    <3>1. \A i \in 1..n : i \in 1..Len(req) \/ i = n
      BY <1>3
    <3>2. 1..Len(req) \subseteq 1..n
      BY <1>3
    <3>3. new.type # "AddrBlock"
      BY <1>9
    <3> HIDE DEF n, new
    <3> QED
      BY <1>3, <3>1, <3>2, <3>3 DEF AddrBlocks
  <2>2. Credit' = 0
    BY <1>4, <1>9 DEF Credit
  <2> QED
    BY <1>5, <1>6, <1>7, <2>1, <2>2 DEF StrandInv
<1> QED
  BY <1>8, <1>9

\* Of the requests that take a free thread, only the one to block an address
\* makes an orphan of it.
LEMMA AssignKeepsStrands ==
    ASSUME ItemInv, Own, StrandInv, assign_work_to_thread
    PROVE  StrandInv'
<1>0. in_use \subseteq Threads /\ assigned_thread \in [Buffers -> Threads \cup {None}]
  BY DEF ItemInv, ItemTypes
<1>1. /\ pc[Dispatcher] = "assign"
      /\ UNCHANGED <<req, region, buf, local_fd, open>>
  BY DEF assign_work_to_thread, pvmVars, storeVars
<1>2. Current' = Current /\ TypeOf(Dispatcher)' = TypeOf(Dispatcher)
  BY <1>1 DEF IdOf, Current, TypeOf
<1>3. \A t : ~Kept(t)
  BY <1>1 DEF Kept, Doing
<1>4. CASE (Goto(Dispatcher, "error") \/ Goto(Dispatcher, "operate")) /\ UNCHANGED in_use
  <2>1. pc'[Dispatcher] \in {"error", "operate"}
    BY <1>4, Names DEF Goto, ItemInv, ItemTypes
  <2>2. Credit' = 0
    BY <2>1 DEF Credit
  <2> QED
    BY <1>1, <1>3, <1>4, <2>2, StrandFrame
<1>5. CASE \E t \in get_worker_thread_for_fd(Current.fd) :
             /\ assigned_thread' = [assigned_thread EXCEPT ![buf[Dispatcher]] = t]
             /\ in_use' = in_use \cup {t}
             /\ TypeOf(Dispatcher) # "PollsetQuery"
             /\ \E x \in {"oplock", "enqueue", "operate"} : Goto(Dispatcher, x)
  <2>1. PICK t \in get_worker_thread_for_fd(Current.fd) :
             /\ assigned_thread' = [assigned_thread EXCEPT ![buf[Dispatcher]] = t]
             /\ in_use' = in_use \cup {t}
             /\ TypeOf(Dispatcher) # "PollsetQuery"
             /\ \E x \in {"oplock", "enqueue", "operate"} : Goto(Dispatcher, x)
    BY <1>5
  <2>2. pc'[Dispatcher] \in {"oplock", "enqueue", "operate"}
    BY <2>1, Names DEF Goto, ItemInv, ItemTypes
  <2>3. WorkerOf(Dispatcher)' = t /\ TypeOf(Dispatcher) \in Types
    <3>1. buf[Dispatcher] \in Buffers /\ TypeOf(Dispatcher) \in Types
      BY <1>1, HeldIds, Names DEF Idle
    <3> QED
      BY <1>0, <1>1, <2>1, <3>1 DEF WorkerOf
  <2>4. t \in Threads /\ (Current.fd # Invalid => t \in in_use)
    BY <1>0, FoundThreads
  <2>5. Credit' = 0
    BY <2>2 DEF Credit
  <2>6. CASE TypeOf(Dispatcher) = "Create"
    <3>1. Kept(t)'
      BY <1>2, <2>2, <2>3, <2>6 DEF Kept, Doing
    <3> QED
      BY <1>1, <1>3, <2>1, <2>5, <3>1, StrandFrame
  <2>7. CASE TypeOf(Dispatcher) = "AddrBlock"
    <3>1. Credit = 1
      BY <1>1, <2>7 DEF Credit
    <3>2. \A u : ~Kept(u)'
      BY <1>2, <2>7 DEF Kept
    <3>3. Orphans' \in SUBSET (Orphans \cup {t})
      BY <1>1, <1>3, <2>1, <3>2 DEF Orphans
    <3>4. /\ IsFiniteSet(Orphans) /\ Cardinality(Orphans) \in Nat
          /\ Cardinality(AddrBlocks) \in Nat
      BY StrandSets
    <3>5. /\ IsFiniteSet(Orphans \cup {t})
          /\ \/ Cardinality(Orphans \cup {t}) = Cardinality(Orphans)
             \/ Cardinality(Orphans \cup {t}) = Cardinality(Orphans) + 1
      BY <3>4, FS_AddElement
    <3>6. /\ Cardinality(Orphans') <= Cardinality(Orphans \cup {t})
          /\ Cardinality(Orphans') \in Nat
      BY <3>3, <3>5, FS_Subset, FS_CardinalityType
    <3>7. AddrBlocks' = AddrBlocks
      BY <1>1 DEF AddrBlocks
    <3> QED
      BY <2>5, <3>1, <3>4, <3>5, <3>6, <3>7 DEF StrandInv
  <2>8. CASE TypeOf(Dispatcher) \in SocketTypes
    <3>1. t \in in_use
      BY <1>1, <2>4, <2>8 DEF Own, Asked
    <3>2. in_use' = in_use
      BY <2>1, <3>1
    <3> QED
      BY <1>1, <1>3, <2>5, <3>2, StrandFrame
  <2> QED
    BY <2>1, <2>3, <2>6, <2>7, <2>8, DispatchAssumption DEF NewThreadTypes
<1> QED
  BY <1>4, <1>5, Zenon DEF assign_work_to_thread, Current

\* A socket that is opened, closed or not created leaves no thread behind.
LEMMA OperationKeepsStrands ==
    ASSUME ItemInv, NetTypes, SocketsInv, StrandInv, NEW e \in Executors, Operation(e)
    PROVE  StrandInv'
<1>0. /\ pc[e] = "operate" /\ UNCHANGED <<req, region, buf, assigned_thread>>
      /\ pc \in [Executors -> AllSteps] /\ in_use \subseteq Threads
      /\ Dispatcher \in Executors /\ Served /\ Own /\ Process(e) /\ Serves(e)
  BY OperationMoves, OperationServes, Names
     DEF bufferVars, ItemInv, ItemTypes, SocketsInv, Own, Process
<1>1. /\ TypeOf(Dispatcher)' = TypeOf(Dispatcher)
      /\ WorkerOf(Dispatcher)' = WorkerOf(Dispatcher)
  BY <1>0 DEF TypeOf, IdOf, WorkerOf
<1>2. e = Dispatcher => pc'[Dispatcher] \in {"respond", "publish"}
  BY <1>0, OperationMoves DEF Goto
<1>3. e # Dispatcher => pc'[Dispatcher] = pc[Dispatcher]
  BY <1>0, OperationMoves, Names DEF Goto
<1>4. \A t : Kept(t)' <=> Kept(t)
  BY <1>0, <1>1, <1>2, <1>3 DEF Kept, Doing
<1>5. Credit' = Credit \/ Credit' = 0
  BY <1>1, <1>2, <1>3 DEF Credit
<1>6. ASSUME \A t \in in_use' : local_fd'[t] \notin open' /\ ~Kept(t) =>
               t \in in_use /\ local_fd[t] \notin open
      PROVE  StrandInv'
  BY <1>0, <1>4, <1>5, <1>6, StrandFrame
<1>7. CASE UNCHANGED servingVars
  BY <1>6, <1>7 DEF servingVars
<1>8. CASE NotAccepted(e)
  BY <1>6, <1>8 DEF NotAccepted
<1>9. ASSUME NEW t \in Threads, Opened(e, t) PROVE StrandInv'
  <2>1. /\ local_fd'[t] \in open' /\ open \subseteq open'
        /\ \A u \in in_use' \ {t} : u \in in_use /\ local_fd'[u] = local_fd[u]
    BY <1>0, <1>9 DEF Opened, NetTypes
  <2> QED
    BY <1>6, <2>1
<1>10. CASE e = Dispatcher /\ TypeOf(e) = "Create" /\ NotCreated
  <2>1. Kept(WorkerOf(Dispatcher))
    BY <1>0, <1>10 DEF Kept, Doing
  <2>2. /\ in_use' = in_use /\ open' = open
        /\ \A u \in in_use \ {WorkerOf(Dispatcher)} : local_fd'[u] = local_fd[u]
    BY <1>0, <1>10 DEF NotCreated, NetTypes
  <2> QED
    BY <1>6, <2>1, <2>2
<1>11. CASE /\ e = Dispatcher /\ TypeOf(e) = "Close" /\ UNCHANGED in_use
            /\ xe_net_internal_close_socket(WorkerOf(e))
  <2>1. PICK w \in Threads : w = WorkerOf(Dispatcher)
    BY <1>0, <1>11 DEF Own, Closing, Started
  <2>2. Kept(w) /\ local_fd[w] \in Ids
    BY <1>0, <1>11, <2>1 DEF Kept, Doing, Own, Closing, Started
  <2>3. /\ open' = open \ {local_fd[w]}
        /\ \A u \in in_use \ {w} : local_fd'[u] = local_fd[u]
    BY <1>0, <1>11, <2>1 DEF xe_net_internal_close_socket, NetTypes
  <2>4. \A u \in in_use \ {w} : local_fd[u] # local_fd[w]
    BY <1>0, <2>2 DEF Served
  <2> QED
    BY <1>6, <1>11, <2>2, <2>3, <2>4
<1>12. WorkerOf(e) \in in_use => WorkerOf(e) \in Threads
  BY <1>0
<1> QED
  BY <1>0, <1>7, <1>8, <1>9, <1>10, <1>11, <1>12 DEF Serves

\* Every step keeps the account of the orphans.
LEMMA StrandInvPreserved ==
    ItemInv /\ NetTypes /\ SocketsInv /\ StrandInv /\ [Next]_vars => StrandInv'
<1> SUFFICES ASSUME ItemInv, NetTypes, SocketsInv, StrandInv, [Next]_vars
             PROVE  StrandInv'
  OBVIOUS
<1>0. /\ Own /\ Served /\ Dispatcher \in Executors /\ in_use \subseteq Threads
      /\ pc \in [Executors -> AllSteps]
  BY Names DEF SocketsInv, Own, ItemInv, ItemTypes
<1>1. ASSUME UNCHANGED <<req, in_use, local_fd, open>>, \A t : Kept(t) => Kept(t)',
             Credit' = Credit \/ Credit' = 0
      PROVE  StrandInv'
  BY <1>1, StrandFrame
<1>2. CASE UNCHANGED vars
  <2>1. UNCHANGED <<req, in_use, local_fd, open, pc, region, buf, assigned_thread>>
    BY <1>2 DEF vars, pvmVars, bufferVars, socketVars, threadVars
  <2>2. /\ TypeOf(Dispatcher)' = TypeOf(Dispatcher)
        /\ WorkerOf(Dispatcher)' = WorkerOf(Dispatcher)
    BY <2>1 DEF TypeOf, IdOf, WorkerOf
  <2> QED
    BY <1>1, <2>1, <2>2 DEF Kept, Credit
<1>3. CASE reserve_available_buffer_item \/ Enqueue \/ send_dispatch_error_response
  <2>1. UNCHANGED <<req, in_use, local_fd, open>>
    BY <1>3, Zenon DEF reserve_available_buffer_item, Enqueue,
       send_dispatch_error_response, socketVars, pvmVars
  <2>2. /\ pc[Dispatcher] \in {"reserve", "enqueue", "error"}
        /\ pc'[Dispatcher] \in {"reserve", "read"}
    BY <1>0, <1>3 DEF reserve_available_buffer_item, Enqueue,
       send_dispatch_error_response, Goto
  <2>3. pc[Dispatcher] = "enqueue" => TypeOf(Dispatcher) \notin {"Create", "Close"}
    BY DEF ItemInv, DispatchersOwn, QueuedTypes
  <2> QED
    BY <1>1, <2>1, <2>2, <2>3 DEF Kept, Credit, Doing
<1>4. CASE \E r \in Requests : ReadRequest(r)
  BY <1>4, ReadKeepsStrands
<1>5. CASE assign_work_to_thread
  BY <1>0, <1>5, AssignKeepsStrands
<1>6. ASSUME Onward(Dispatcher), UNCHANGED <<req, in_use, local_fd, open>>
      PROVE  StrandInv'
  <2>1. UNCHANGED <<region, buf, assigned_thread>>
    BY <1>6 DEF Onward, itemVars
  <2>2. /\ TypeOf(Dispatcher)' = TypeOf(Dispatcher)
        /\ WorkerOf(Dispatcher)' = WorkerOf(Dispatcher)
    BY <1>6, <2>1 DEF TypeOf, IdOf, WorkerOf
  <2>3. pc'[Dispatcher] \in Doing /\ pc'[Dispatcher] # "assign"
    BY <1>0, <1>6 DEF Onward, Goto, Doing
  <2> QED
    BY <1>1, <1>6, <2>2, <2>3 DEF Kept, Credit
<1>7. ASSUME NEW e \in Threads, BeginWork(e) \/ Process(e),
             UNCHANGED <<req, in_use, local_fd, open>>
      PROVE  StrandInv'
  BY <1>1, <1>7, WorkersKeepCurrent DEF Kept, Credit, Doing
<1>8. CASE AcquireOplock
  <2>1. UNCHANGED <<req, in_use, local_fd, open>>
    BY <1>8 DEF AcquireOplock, socketVars, pvmVars
  <2> QED
    BY <1>0, <1>6, <1>8, <2>1, ProcessGoesOn
<1>9. ASSUME NEW e \in Threads, BeginWork(e) PROVE StrandInv'
  <2>1. UNCHANGED <<req, in_use, local_fd, open>>
    BY <1>9 DEF BeginWork, socketVars, pvmVars
  <2> QED
    BY <1>7, <1>9, <2>1
<1>10. ASSUME NEW e \in Executors, Operation(e) PROVE StrandInv'
  BY <1>10, OperationKeepsStrands
<1>11. ASSUME NEW e \in Executors, PublishPorts(e) \/ WriteResponse(e)
       PROVE  StrandInv'
  <2>1. UNCHANGED <<req, in_use, local_fd, open>>
    BY <1>11 DEF PublishPorts, WriteResponse, socketVars, pvmVars
  <2>2. e \in Threads => StrandInv'
    BY <1>7, <1>11, <2>1 DEF Process
  <2>3. e = Dispatcher => StrandInv'
    BY <1>6, <1>11, <2>1, ProcessGoesOn
  <2> QED
    BY <2>2, <2>3, Names
<1>12. ASSUME NEW e \in Executors, FinishItem(e) PROVE StrandInv'
  <2>1. pc[e] = "finish" /\ UNCHANGED req
    BY <1>12 DEF FinishItem, pvmVars
  <2>2. CASE e \in Threads
    <3>1. UNCHANGED socketVars
      BY <1>0, <1>12, <2>2, FinishOnSockets, Names
    <3> QED
      BY <1>7, <1>12, <2>1, <2>2, <3>1 DEF Process, socketVars
  <2>3. CASE e = Dispatcher
    <3>1. pc'[Dispatcher] \in {"reserve", "error"}
      BY <1>0, <1>12, <2>3 DEF FinishItem, Goto
    <3>2. Credit' = 0
      BY <3>1 DEF Credit
    <3>3. CASE ReleasesThread(e)
      <4>1. /\ WorkerOf(e) \in in_use /\ local_fd[WorkerOf(e)] = Invalid
            /\ release_worker_thread(WorkerOf(e))
        <5>1. release_worker_thread(WorkerOf(e))
          BY <1>12, <3>3 DEF FinishItem
        <5>2. WorkerOf(e) \in in_use
          BY <2>1, <2>3, <3>3 DEF ItemInv, DispatchersOwn, ReleasesThread
        <5>3. local_fd[WorkerOf(e)] = Invalid
          BY <1>0, <2>1, <2>3, <3>3 DEF Own, Creating, Closing, ReleasesThread, Done
        <5> QED
          BY <5>1, <5>2, <5>3
      <4>2. PICK w \in Threads : w = WorkerOf(e)
        BY <1>0, <4>1
      <4>3. /\ in_use' = in_use \ {w} /\ open' = open \ {Invalid}
            /\ \A u \in in_use' : local_fd'[u] = local_fd[u]
        BY <1>0, <4>1, <4>2
           DEF release_worker_thread, xe_net_internal_close_socket, NetTypes
      <4>4. \A u \in in_use' : ~Kept(u)
        BY <2>3, <4>2, <4>3 DEF Kept
      <4>5. open' = open
        BY <4>3 DEF NetTypes, Ids, Invalid
      <4> QED
        BY <2>1, <3>2, <4>3, <4>4, <4>5, StrandFrame
    <3>4. CASE ~ReleasesThread(e)
      <4>1. UNCHANGED <<in_use, local_fd, open>>
        BY <1>12, <3>4 DEF FinishItem, socketVars
      <4>2. ASSUME NEW t \in in_use, Kept(t) PROVE local_fd[t] \in open
        <5>1. TypeOf(Dispatcher) = "Create" /\ IdOf(Dispatcher) \notin failed
          BY <2>3, <3>4, <4>2 DEF Kept, ReleasesThread
        <5>2. IdOf(Dispatcher) \in Ids
          BY <1>0, <2>1, <2>3, HeldIds DEF Idle
        <5>3. local_fd[t] = IdOf(Dispatcher)
          BY <1>0, <2>1, <2>3, <4>2, <5>1 DEF Own, Creating, Done, Kept
        <5> QED
          BY <1>0, <5>2, <5>3 DEF Served
      <4> QED
        BY <2>1, <3>2, <4>1, <4>2, StrandFrame
    <3> QED
      BY <3>3, <3>4
  <2> QED
    BY <2>2, <2>3, Names
<1> QED
  BY <1>2, <1>3, <1>4, <1>5, <1>8, <1>9, <1>10, <1>11, <1>12, Zenon
     DEF Next, Dispatch, Process

\* For every value of the constants, the threads that serve no socket and that
\* nobody works on are no more than the requests to block an address: creating,
\* accepting and closing, with failures of each, strand none.
THEOREM OnlyAddrBlockEverStrands == Spec => []OnlyAddrBlockStrands
<1>1. Init => StrandInv
  <2> SUFFICES ASSUME Init PROVE StrandInv
    OBVIOUS
  <2>1. Orphans = {} /\ AddrBlocks = {} /\ Credit = 0
    BY Names DEF Init, Orphans, AddrBlocks, Credit
  <2> QED
    BY <2>1, FS_EmptySet DEF StrandInv
<1>2. ItemInv /\ StrandInv => OnlyAddrBlockStrands
  <2> SUFFICES ASSUME ItemInv, StrandInv PROVE OnlyAddrBlockStrands
    OBVIOUS
  <2>1. ASSUME NEW t \in Stranded, Kept(t) PROVE FALSE
    <3>1. /\ Dispatcher \in Executors /\ WorkerOf(Dispatcher) = t
          /\ pc[Dispatcher] \notin {"wait", "read", "reserve"}
      BY <2>1, Names DEF Kept, Doing
    <3>2. buf[Dispatcher] # None
      BY <3>1 DEF ItemInv, Steps, Idle
    <3> QED
      BY <2>1, <3>1, <3>2 DEF Stranded
  <2>2. Stranded \in SUBSET Orphans
    BY <2>1 DEF Stranded, Orphans
  <2>3. /\ IsFiniteSet(Orphans) /\ Cardinality(Orphans) \in Nat
        /\ Cardinality(AddrBlocks) \in Nat /\ Credit \in {0, 1}
    BY StrandSets
  <2>4. /\ Cardinality(Stranded) <= Cardinality(Orphans)
        /\ Cardinality(Stranded) \in Nat
    BY <2>2, <2>3, FS_Subset, FS_CardinalityType
  <2>5. Cardinality(Stranded) <= Cardinality(AddrBlocks)
    BY <2>3, <2>4 DEF StrandInv
  <2> QED
    BY <2>5 DEF OnlyAddrBlockStrands, AddrBlocks
<1> QED
  BY <1>1, <1>2, StrandInvPreserved, ItemsAlways, NetTypesAlways, SocketsAlways, PTL
     DEF Spec
=============================================================================
