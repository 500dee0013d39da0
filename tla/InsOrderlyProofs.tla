-------------------------- MODULE InsOrderlyProofs --------------------------
(***************************************************************************)
(* Requests and the sockets they are for (InsDispatch): a request that no  *)
(* Close has overtaken is performed on the socket it was issued for, and a *)
(* socket is reported as closed by its peer only after a request that can  *)
(* have found it so.                                                       *)
(*                                                                         *)
(* The argument: a request that is yet to be performed by thread t names   *)
(* the socket t has (OwnSocket).  That socket could only go away through a *)
(* Close; when the PVM sends it, each request on the socket is answered or *)
(* overtaken (CloseLast), and a request that is yet to be performed is not *)
(* answered.  The PVM awaits those in CloseWaits, so none of them is       *)
(* overtaken (WaitedFor).                                                  *)
(***************************************************************************)
EXTENDS InsSocketsProofs

\* Request i is for thread t, which is yet to end it.
Expects(i, t) ==
    \/ \E n \in Queue(t) : region[work_queue[t][n]] = i
    \/ pc[t] = "operate" /\ IdOf(t) = i
    \/ /\ pc[Dispatcher] = "assign" /\ TypeOf(Dispatcher) \in QueuedTypes
       /\ Current.fd = t /\ IdOf(Dispatcher) = i
    \/ /\ pc[Dispatcher] \in {"oplock", "enqueue"}
       /\ TypeOf(Dispatcher) \in QueuedTypes
       /\ WorkerOf(Dispatcher) = t /\ IdOf(Dispatcher) = i

\* Such a request is for the thread's descriptor and, unless it is overtaken, for
\* the socket that the thread has; and a worker is in its blocking call on that.
OwnSocket ==
    /\ \A i \in Ids, t \in Threads : Expects(i, t) => req[i].fd = t
    /\ \A i \in Ids, t \in Threads : Expects(i, t) /\ i \notin Overtaken =>
         req[i].sock = local_fd[t] /\ local_fd[t] \in Ids
    /\ \A t \in Threads : pc[t] = "operate" /\ IdOf(t) \notin Overtaken =>
         op_fd[t] = local_fd[t]

\* When a Close arrives, it overtakes the requests on that socket that have no
\* answer.
CloseLast ==
    pc[Dispatcher] \in Started /\ TypeOf(Dispatcher) = "Close" =>
        \A i \in 1..Len(req) :
            req[i].sock = Current.sock /\ req[i].type \in QueuedTypes =>
              answered[i] > 0 \/ i \in Overtaken

\* The PVM awaits those in CloseWaits.
WaitedFor == \A i \in Overtaken : i \in 1..Len(req) /\ req[i].type \notin CloseWaits

\* The inductive invariant for the order of requests.
OrderInv == OwnSocket /\ CloseLast /\ WaitedFor
-----------------------------------------------------------------------------
\* A request that is expected has not been answered.
LEMMA ExpectedOpen ==
    ASSUME ItemInv, AnswerInv, NEW i \in Ids, NEW t \in Threads, Expects(i, t)
    PROVE  /\ i \in 1..Len(req) /\ req[i].type \in QueuedTypes
           /\ answered[i] = 0
<1>0. t \in Executors /\ Dispatcher \in Executors
  BY Names
<1>1. ASSUME NEW n \in Queue(t), region[work_queue[t][n]] = i
      PROVE  /\ i \in 1..Len(req) /\ req[i].type \in QueuedTypes
             /\ answered[i] = 0
  BY <1>1, QueuedIds DEF ItemInv, WorkersOwn, Kind, AnswerInv
<1>2. CASE pc[t] = "operate" /\ IdOf(t) = i
  <2>1. i \in 1..Len(req)
    BY <1>0, <1>2, HeldIds DEF Idle
  <2>2. req[i].type \in QueuedTypes
    BY <1>2 DEF ItemInv, WorkersOwn, TypeOf
  <2>3. answered[i] = 0
    BY <1>0, <1>2 DEF AnswerInv, Early
  <2> QED
    BY <2>1, <2>2, <2>3
<1>3. CASE /\ pc[Dispatcher] \in {"assign", "oplock", "enqueue"}
           /\ TypeOf(Dispatcher) \in QueuedTypes /\ IdOf(Dispatcher) = i
  <2>1. i \in 1..Len(req)
    BY <1>0, <1>3, HeldIds DEF Idle
  <2>2. answered[i] = 0
    BY <1>0, <1>3 DEF AnswerInv, Early
  <2> QED
    BY <1>3, <2>1, <2>2 DEF TypeOf
<1> QED
  BY <1>1, <1>2, <1>3 DEF Expects

\* So its socket is not the one that is being closed, unless that overtook it.
LEMMA SocketStays ==
    ASSUME ItemInv, NetTypes, AnswerInv, SocketsInv, OrderInv, Next,
           NEW i \in Ids, NEW t \in Threads, Expects(i, t), i \notin Overtaken
    PROVE  local_fd'[t] = local_fd[t]
<1>0. /\ Fresh /\ Served /\ Own /\ Dispatcher \in Executors
      /\ in_use \subseteq Threads
      /\ local_fd \in [Threads -> Ids \cup {None, Invalid}]
  BY Names DEF SocketsInv, Own, NetTypes, ItemInv, ItemTypes
<1>1. req[i].sock = local_fd[t] /\ local_fd[t] \in Ids
  BY DEF OrderInv, OwnSocket
<1>2. CASE \/ reserve_available_buffer_item \/ assign_work_to_thread
           \/ AcquireOplock \/ Enqueue
           \/ \E r \in Requests : ReadRequest(r)
           \/ \E u \in Threads : BeginWork(u)
           \/ \E e \in Executors : PublishPorts(e) \/ WriteResponse(e)
  BY <1>2, OthersLeaveSockets
<1>3. CASE send_dispatch_error_response
  BY <1>3 DEF send_dispatch_error_response, socketVars
<1>4. ASSUME NEW e \in Executors, FinishItem(e) PROVE local_fd'[t] = local_fd[t]
  <2>1. CASE UNCHANGED socketVars
    BY <2>1 DEF socketVars
  <2>2. CASE /\ local_fd[WorkerOf(e)] = Invalid
             /\ release_worker_thread(WorkerOf(e))
    BY <1>0, <2>2 DEF release_worker_thread, xe_net_internal_close_socket
  <2> QED
    BY <1>0, <1>4, <2>1, <2>2, FinishOnSockets
<1>5. ASSUME NEW e \in Executors, Operation(e) PROVE local_fd'[t] = local_fd[t]
  <2>0. pc[e] = "operate" /\ Serves(e)
    BY <1>5, OperationMoves, OperationServes
  <2>1. ASSUME NEW u \in Threads, NEW v, local_fd[u] \notin Ids,
               local_fd' = [local_fd EXCEPT ![u] = v]
        PROVE  local_fd'[t] = local_fd[t]
    BY <1>0, <1>1, <2>1
  <2>2. CASE e = Dispatcher /\ TypeOf(e) = "Create"
    <3>1. PICK w \in Threads : w = WorkerOf(Dispatcher)
      BY <1>0, <2>0, <2>2, Names DEF Serves
    <3>2. local_fd[w] \notin Ids
      BY <1>0, <2>0, <2>2, <3>1 DEF Own, Creating
    <3>3. Opened(e, w) \/ NotCreated
      BY <2>0, <2>2, <3>1, Names DEF Serves
    <3> QED
      BY <2>1, <3>1, <3>2, <3>3 DEF Opened, NotCreated
  <2>3. ASSUME NEW u \in Threads \ in_use, Opened(e, u)
        PROVE  local_fd'[t] = local_fd[t]
    <3>1. local_fd[u] \notin Ids
      BY <1>0, <2>3 DEF Served
    <3> QED
      BY <2>1, <2>3, <3>1 DEF Opened
  <2>4. CASE /\ e = Dispatcher /\ TypeOf(e) = "Close"
             /\ xe_net_internal_close_socket(WorkerOf(e))
    <3>1. /\ WorkerOf(Dispatcher) = Current.fd /\ Current.fd \in Threads
          /\ local_fd[Current.fd] = Current.sock
      BY <1>0, <2>0, <2>4 DEF Own, Closing, Started
    <3>2. \A j \in 1..Len(req) :
            req[j].sock = Current.sock /\ req[j].type \in QueuedTypes =>
              answered[j] > 0 \/ j \in Overtaken
      BY <2>0, <2>4 DEF OrderInv, CloseLast, Started
    <3>3. i \in 1..Len(req) /\ req[i].type \in QueuedTypes /\ answered[i] = 0
      BY ExpectedOpen
    <3>4. local_fd[t] # Current.sock
      BY <1>1, <3>2, <3>3
    <3>5. t # WorkerOf(e)
      BY <2>4, <3>1, <3>4
    <3> QED
      BY <1>0, <2>4, <3>5 DEF xe_net_internal_close_socket
  <2>5. CASE UNCHANGED servingVars \/ NotAccepted(e)
    BY <2>5 DEF servingVars, NotAccepted
  <2> QED
    BY <2>0, <2>2, <2>3, <2>4, <2>5 DEF Serves
<1> QED
  BY <1>2, <1>3, <1>4, <1>5, Zenon DEF Next, Dispatch, Process

\* What is expected was expected before, but for a request that is just read.
LEMMA ExpectedBefore ==
    ASSUME ItemInv, Own, Next, ~ \E r \in Requests : ReadRequest(r),
           NEW i \in Ids, NEW t \in Threads, Expects(i, t)'
    PROVE  Expects(i, t)
<1>0. /\ Dispatcher \in Executors /\ t \in Executors /\ t # Dispatcher
      /\ Threads \subseteq Executors
      /\ pc \in [Executors -> AllSteps] /\ buf \in [Executors -> Buffers \cup {None}]
      /\ in_use \subseteq Threads
      /\ assigned_thread \in [Buffers -> Threads \cup {None}]
  BY Names DEF ItemInv, ItemTypes
\* A step of the dispatcher that moves no item to a worker.
<1>1. ASSUME UNCHANGED <<req, region, work_queue>>,
             \A f \in Threads : pc'[f] = pc[f] /\ buf'[f] = buf[f],
             \/ pc'[Dispatcher] \notin {"assign", "oplock", "enqueue"}
             \/ /\ pc[Dispatcher] = "oplock" /\ pc'[Dispatcher] = "enqueue"
                /\ UNCHANGED <<buf, assigned_thread>>
      PROVE  Expects(i, t)
  <2>1. \A n \in Queue(t)' : n \in Queue(t) /\ work_queue'[t][n] = work_queue[t][n]
    BY <1>1 DEF Queue
  <2>2. IdOf(t)' = IdOf(t)
    BY <1>1 DEF IdOf
  <2>3. CASE pc'[Dispatcher] \notin {"assign", "oplock", "enqueue"}
    BY <1>1, <2>1, <2>2, <2>3 DEF Expects
  <2>4. CASE /\ pc[Dispatcher] = "oplock" /\ pc'[Dispatcher] = "enqueue"
             /\ UNCHANGED <<buf, assigned_thread>>
    <3>1. /\ TypeOf(Dispatcher)' = TypeOf(Dispatcher)
          /\ IdOf(Dispatcher)' = IdOf(Dispatcher)
          /\ WorkerOf(Dispatcher)' = WorkerOf(Dispatcher)
      BY <1>1, <2>4 DEF TypeOf, IdOf, WorkerOf
    <3> QED
      BY <1>1, <2>1, <2>2, <2>4, <3>1 DEF Expects
  <2> QED
    BY <1>1, <2>3, <2>4
\* A step of a worker that takes no item.
<1>2. ASSUME NEW e \in Threads, BeginWork(e) \/ Process(e), UNCHANGED work_queue,
             pc'[e] # "operate" \/ (pc'[e] = pc[e] /\ buf'[e] = buf[e]),
             \A f \in Threads \ {e} : pc'[f] = pc[f] /\ buf'[f] = buf[f]
      PROVE  Expects(i, t)
  <2>1. /\ UNCHANGED <<req, region>> /\ pc'[Dispatcher] = pc[Dispatcher]
        /\ buf'[Dispatcher] = buf[Dispatcher]
        /\ pc[Dispatcher] \notin Idle => WorkerOf(Dispatcher)' = WorkerOf(Dispatcher)
    BY <1>2, WorkersApart
  <2>2. \A n \in Queue(t)' : n \in Queue(t) /\ work_queue'[t][n] = work_queue[t][n]
    BY <1>2 DEF Queue
  <2>3. /\ TypeOf(Dispatcher)' = TypeOf(Dispatcher) /\ Current' = Current
        /\ IdOf(Dispatcher)' = IdOf(Dispatcher)
    BY <2>1 DEF TypeOf, IdOf, Current
  <2>4. pc'[t] = "operate" => pc[t] = "operate" /\ IdOf(t)' = IdOf(t)
    BY <1>2, <2>1 DEF IdOf
  <2> QED
    BY <2>1, <2>2, <2>3, <2>4 DEF Expects, Idle
<1>3. CASE reserve_available_buffer_item
  <2>1. /\ UNCHANGED <<req, region, work_queue>>
        /\ \/ UNCHANGED <<buf, pc>>
           \/ \E b : /\ buf' = [buf EXCEPT ![Dispatcher] = b]
                     /\ Goto(Dispatcher, "read")
    BY <1>3, Zenon DEF reserve_available_buffer_item, pvmVars, queueVars
  <2>2. /\ pc'[Dispatcher] \in {"reserve", "read"}
        /\ \A f \in Threads : pc'[f] = pc[f] /\ buf'[f] = buf[f]
    BY <1>0, <1>3, <2>1, Names DEF reserve_available_buffer_item, Goto
  <2> QED
    BY <1>1, <2>1, <2>2
<1>4. CASE assign_work_to_thread
  <2>1. /\ pc[Dispatcher] = "assign" /\ UNCHANGED <<req, region, work_queue, buf>>
        /\ \E x \in {"error", "operate", "oplock", "enqueue"} : Goto(Dispatcher, x)
    BY <1>4, Zenon DEF assign_work_to_thread, pvmVars, queueVars
  <2>2. /\ pc'[Dispatcher] \in {"error", "operate", "oplock", "enqueue"}
        /\ \A f \in Threads : pc'[f] = pc[f]
    BY <1>0, <2>1, Names DEF Goto
  <2>3. CASE pc'[Dispatcher] \in {"error", "operate"}
    BY <1>1, <2>1, <2>2, <2>3
  <2>4. CASE pc'[Dispatcher] \in {"oplock", "enqueue"}
    <3>1. /\ TypeOf(Dispatcher)' = TypeOf(Dispatcher)
          /\ IdOf(Dispatcher)' = IdOf(Dispatcher) /\ IdOf(t)' = IdOf(t)
      BY <2>1 DEF TypeOf, IdOf
    <3>2. \A n \in Queue(t)' : n \in Queue(t) /\ work_queue'[t][n] = work_queue[t][n]
      BY <2>1 DEF Queue
    <3>3. PICK u \in get_worker_thread_for_fd(Current.fd) :
            assigned_thread' = [assigned_thread EXCEPT ![buf[Dispatcher]] = u]
      BY <1>0, <1>4, <2>4 DEF assign_work_to_thread, Current, Goto
    <3>4. WorkerOf(Dispatcher)' = u
      <4>1. buf[Dispatcher] \in Buffers
        BY <1>0, <2>1, HeldIds DEF Idle
      <4> QED
        BY <1>0, <2>1, <3>3, <4>1 DEF WorkerOf
    <3>5. TypeOf(Dispatcher) \in QueuedTypes => u = Current.fd
      <4>1. Current.fd # Invalid => u = Current.fd
        BY <1>0, FoundThreads
      <4> QED
        BY <2>1, <4>1 DEF Own, Asked, SocketTypes
    <3> QED
      BY <2>1, <2>2, <2>4, <3>1, <3>2, <3>4, <3>5 DEF Expects
  <2> QED
    BY <2>2, <2>3, <2>4
<1>5. CASE Enqueue
  <2>1. /\ pc[Dispatcher] = "enqueue" /\ pc'[Dispatcher] = "reserve"
        /\ \A f \in Threads : pc'[f] = pc[f] /\ buf'[f] = buf[f]
        /\ UNCHANGED <<req, region>>
        /\ \A n \in Queue(t)' :
             \/ n \in Queue(t) /\ work_queue'[t][n] = work_queue[t][n]
             \/ t = WorkerOf(Dispatcher) /\ work_queue'[t][n] = buf[Dispatcher]
    BY <1>0, <1>5, EnqueueAdds, Names DEF pvmVars, bufferVars
  <2>2. TypeOf(Dispatcher) \in QueuedTypes
    BY <2>1 DEF ItemInv, DispatchersOwn
  <2>3. IdOf(t)' = IdOf(t) /\ IdOf(Dispatcher) = region[buf[Dispatcher]]
    BY <2>1 DEF IdOf
  <2> QED
    BY <2>1, <2>2, <2>3 DEF Expects
<1>6. ASSUME NEW w \in Threads, BeginWork(w) PROVE Expects(i, t)
  <2>1. CASE work_queue[w] = <<>>
    BY <1>2, <1>6, <2>1 DEF BeginWork
  <2>2. CASE work_queue[w] # <<>>
    <3>1. /\ 1 \in Queue(w) /\ buf'[w] = work_queue[w][1]
          /\ \A f \in Executors \ {w} : pc'[f] = pc[f] /\ buf'[f] = buf[f]
          /\ UNCHANGED <<req, region, assigned_thread>>
          /\ \A n \in Queue(t)' : \E m \in Queue(t) :
               work_queue'[t][n] = work_queue[t][m]
      BY <1>6, <2>2, BeginTakes DEF pvmVars, bufferVars
    <3>2. /\ pc'[Dispatcher] = pc[Dispatcher] /\ Current' = Current
          /\ TypeOf(Dispatcher)' = TypeOf(Dispatcher)
          /\ IdOf(Dispatcher)' = IdOf(Dispatcher)
          /\ WorkerOf(Dispatcher)' = WorkerOf(Dispatcher)
      BY <1>0, <3>1, Names DEF TypeOf, IdOf, WorkerOf, Current
    <3>3. IdOf(t)' = region[buf'[t]]
      BY <3>1 DEF IdOf
    <3>4. t # w => IdOf(t)' = IdOf(t) /\ pc'[t] = pc[t]
      BY <1>0, <3>1 DEF IdOf
    <3> QED
      BY <3>1, <3>2, <3>3, <3>4 DEF Expects
  <2> QED
    BY <2>1, <2>2
<1>7. ASSUME NEW e \in Executors, Onward(e), e = Dispatcher \/ Process(e)
      PROVE  Expects(i, t)
  <2>1. UNCHANGED <<req, region, work_queue, buf, assigned_thread>>
    BY <1>7 DEF Onward, itemVars
  <2>2. \E x : pc' = [pc EXCEPT ![e] = x]
    BY <1>7, Zenon DEF Onward, Goto
  <2>3. \A f \in Executors \ {e} : pc'[f] = pc[f] /\ buf'[f] = buf[f]
    BY <1>0, <2>1, <2>2
  <2>4. CASE e = Dispatcher
    <3>1. \/ pc'[Dispatcher] \notin {"assign", "oplock", "enqueue"}
          \/ pc[Dispatcher] = "oplock" /\ pc'[Dispatcher] = "enqueue"
      BY <1>0, <1>7, <2>4 DEF Onward, Goto
    <3> QED
      BY <1>0, <1>1, <2>1, <2>3, <2>4, <3>1, Names
  <2>5. CASE e \in Threads
    <3>1. pc'[e] # "operate" /\ Process(e)
      BY <1>0, <1>7, <2>5, Names DEF Onward, Goto
    <3> QED
      BY <1>0, <1>2, <2>1, <2>3, <2>5, <3>1
  <2> QED
    BY <2>4, <2>5, Names
<1>8. ASSUME NEW e \in Executors, Releases(e),
             e = Dispatcher \/ FinishItem(e)
      PROVE  Expects(i, t)
  <2>1. /\ UNCHANGED <<req, region, work_queue>>
        /\ pc'[e] \in {"reserve", "wait", "error"}
        /\ \A f \in Executors \ {e} : pc'[f] = pc[f] /\ buf'[f] = buf[f]
    BY <1>0, <1>8 DEF Releases
  <2>2. CASE e = Dispatcher
    BY <1>0, <1>1, <2>1, <2>2, Names
  <2>3. CASE e \in Threads
    BY <1>0, <1>2, <1>8, <2>1, <2>3, Names DEF Process
  <2> QED
    BY <2>2, <2>3, Names
<1>9. CASE AcquireOplock
  BY <1>0, <1>7, <1>9, ProcessGoesOn
<1>10. CASE send_dispatch_error_response
  BY <1>0, <1>8, <1>10, ErrorReleases
<1>11. ASSUME NEW e \in Executors, Process(e) PROVE Expects(i, t)
  <2>1. CASE FinishItem(e)
    BY <1>8, <1>11, <2>1, FinishReleases
  <2>2. CASE Operation(e) \/ PublishPorts(e) \/ WriteResponse(e)
    <3>1. Onward(e)
      BY <1>11, <2>2, ProcessGoesOn
    <3> QED
      BY <1>7, <1>11, <3>1
  <2> QED
    BY <1>11, <2>1, <2>2 DEF Process
<1> QED
  BY <1>3, <1>4, <1>5, <1>6, <1>9, <1>10, <1>11, Zenon DEF Next, Dispatch

\* What is answered stays so.
LEMMA AnsweredStays ==
    ASSUME ItemInv, AnswerInv, SocketsInv, Next, NEW i \in Ids, answered[i] > 0
    PROVE  answered'[i] > 0
<1>0. answered \in [Ids -> 0..MaxAnswers] /\ 0..MaxAnswers \subseteq Nat
  BY DEF AnswerInv, MaxAnswers
<1>1. CASE UNCHANGED answered
  BY <1>1
<1>2. CASE \/ reserve_available_buffer_item \/ assign_work_to_thread
           \/ AcquireOplock \/ Enqueue
           \/ \E r \in Requests : ReadRequest(r)
           \/ \E u \in Threads : BeginWork(u)
           \/ \E e \in Executors : PublishPorts(e) \/ FinishItem(e)
  <2>1. UNCHANGED answered
    BY <1>2, Zenon DEF reserve_available_buffer_item, assign_work_to_thread,
       AcquireOplock, Enqueue, ReadRequest, BeginWork, PublishPorts, FinishItem,
       pvmVars
  <2> QED
    BY <2>1
<1>3. CASE send_dispatch_error_response
  BY <1>0, <1>3 DEF send_dispatch_error_response
<1>4. ASSUME NEW e \in Executors, WriteResponse(e) PROVE answered'[i] > 0
  BY <1>4, ResponseKeepsServed DEF SocketsInv
<1>5. ASSUME NEW e \in Executors, Operation(e) PROVE answered'[i] > 0
  BY <1>1, <1>5, OperationMoves
<1> QED
  BY <1>2, <1>3, <1>4, <1>5, Zenon DEF Next, Dispatch, Process

\* Only a request that is read changes what a buffer holds.
LEMMA RegionStays ==
    ASSUME ItemInv, Next, ~ \E r \in Requests : ReadRequest(r)
    PROVE  UNCHANGED region
<1>1. ASSUME NEW e \in Executors, Operation(e) PROVE UNCHANGED region
  BY <1>1, OperationMoves DEF bufferVars
<1> QED
  BY <1>1, Zenon DEF Next, Dispatch, Process, reserve_available_buffer_item,
     assign_work_to_thread, AcquireOplock, Enqueue, send_dispatch_error_response,
     BeginWork, PublishPorts, WriteResponse, FinishItem, bufferVars

\* The dispatcher does not go back to the beginning of a request.
LEMMA StartedBefore ==
    ASSUME ItemInv, Next, ~ \E r \in Requests : ReadRequest(r)
    PROVE  /\ UNCHANGED req
           /\ pc'[Dispatcher] \in Started =>
                /\ pc[Dispatcher] \in Started
                /\ IdOf(Dispatcher)' = IdOf(Dispatcher)
<1>0. Dispatcher \in Executors /\ pc \in [Executors -> AllSteps]
  BY Names DEF ItemInv, ItemTypes
<1>1. CASE reserve_available_buffer_item \/ Enqueue \/ send_dispatch_error_response
  <2>1. UNCHANGED req
    BY <1>1, Zenon DEF reserve_available_buffer_item, Enqueue,
       send_dispatch_error_response, pvmVars
  <2>2. pc'[Dispatcher] \in {"reserve", "read"}
    BY <1>0, <1>1 DEF reserve_available_buffer_item, Enqueue,
       send_dispatch_error_response, Goto
  <2> QED
    BY <2>1, <2>2 DEF Started
<1>2. CASE assign_work_to_thread
  BY <1>2 DEF assign_work_to_thread, pvmVars, Started, IdOf
<1>3. CASE AcquireOplock
  BY <1>3 DEF AcquireOplock, pvmVars, bufferVars, Started, IdOf
<1>4. ASSUME NEW e \in Threads, BeginWork(e) \/ Process(e)
      PROVE  /\ UNCHANGED req
             /\ pc'[Dispatcher] \in Started =>
                  /\ pc[Dispatcher] \in Started
                  /\ IdOf(Dispatcher)' = IdOf(Dispatcher)
  BY <1>4, WorkersApart DEF IdOf
<1>5. CASE FinishItem(Dispatcher)
  <2>1. pc'[Dispatcher] \in {"reserve", "error"} /\ UNCHANGED req
    BY <1>0, <1>5 DEF FinishItem, Goto, pvmVars
  <2> QED
    BY <2>1 DEF Started
<1>6. CASE \/ Operation(Dispatcher) \/ PublishPorts(Dispatcher)
           \/ WriteResponse(Dispatcher)
  <2>1. Onward(Dispatcher) /\ pc[Dispatcher] # "oplock"
    BY <1>0, <1>6, ProcessGoesOn, OperationMoves DEF PublishPorts, WriteResponse
  <2>2. pc'[Dispatcher] \in {"respond", "publish", "finish"} /\ UNCHANGED req
    BY <1>0, <2>1 DEF Onward, Goto, itemVars
  <2> QED
    BY <2>2 DEF Started
<1> QED
  BY <1>1, <1>2, <1>3, <1>4, <1>5, <1>6, Names, Zenon DEF Next, Dispatch, Process

\* A request that is read names the socket its thread has; and a Close overtakes
\* the requests on its socket that have no answer.
LEMMA ReadKeepsOrder ==
    ASSUME ItemInv, NetTypes, AnswerInv, SocketsInv, OrderInv,
           NEW r \in Requests, ReadRequest(r)
    PROVE  OrderInv'
<1>0. /\ Dispatcher \in Executors /\ Dispatcher \notin Threads
      /\ Threads \subseteq Executors /\ Served
  BY Names DEF SocketsInv
<1>1. PICK b \in Buffers : b = buf[Dispatcher]
  BY Names DEF ReadRequest, ItemInv, ItemTypes, Steps, Idle
<1> DEFINE new == [type |-> r.type, fd |-> r.fd,
                   sock |-> IF r.fd = Invalid THEN None ELSE live[r.fd],
                   overtakes |-> IF r.type = "Close" THEN Unanswered(r.fd)
                                 ELSE {}]
           n == Len(req) + 1
<1>2. /\ pc[Dispatcher] = "read" /\ pc' = [pc EXCEPT ![Dispatcher] = "assign"]
      /\ region' = [region EXCEPT ![b] = n]
      /\ UNCHANGED <<buf, local_fd, work_queue, op_fd, answered>>
      /\ req' = Append(req, new)
  BY <1>1 DEF ReadRequest, Goto, socketVars, queueVars
<1>3. /\ Len(req) \in Nat /\ Len(req') = n
      /\ req'[n] = new /\ \A i \in 1..Len(req) : req'[i] = req[i]
  BY <1>2, AppendProperties, LenProperties DEF ItemInv, ItemTypes
<1>4. /\ pc'[Dispatcher] = "assign" /\ IdOf(Dispatcher)' = n
      /\ \A f \in Threads : pc'[f] = pc[f]
      /\ \A c \in Buffers \ {b} : region'[c] = region[c]
  BY <1>0, <1>1, <1>2 DEF IdOf, ItemInv, ItemTypes
<1>5. TypeOf(Dispatcher)' = r.type /\ Current' = new
  BY <1>3, <1>4 DEF TypeOf, Current
<1>6. \/ r.type \in SocketTypes /\ r.fd \in Threads /\ live[r.fd] # None
      \/ r.type \notin SocketTypes /\ r.fd = Invalid
  BY DEF Requests
<1>7. /\ new.fd = r.fd /\ new.type = r.type /\ r.type \in Types
      /\ r.fd # Invalid => new.sock = live[r.fd]
      /\ r.type = "Close" => new.overtakes = Unanswered(r.fd)
      /\ r.type # "Close" => new.overtakes = {}
  BY DEF Requests
<1> HIDE DEF new
<1>a. Overtaken' = Overtaken \cup new.overtakes
  <2>1. DOMAIN req = 1..Len(req) /\ DOMAIN req' = 1..n
    BY <1>2, <1>3, AppendProperties DEF ItemInv, ItemTypes
  <2>2. \A c \in DOMAIN req' : c = n \/ c \in DOMAIN req
    BY <1>3, <2>1
  <2>3. \A c \in DOMAIN req : c \in DOMAIN req' /\ req'[c] = req[c]
    BY <1>3, <2>1
  <2>4. n \in DOMAIN req'
    BY <1>3, <2>1
  <2> HIDE DEF n
  <2> QED
    BY <1>3, <2>2, <2>3, <2>4 DEF Overtaken
<1>b. \A i : i \notin Overtaken' => i \notin Overtaken
  BY <1>a
<1>8. ASSUME r.type \in SocketTypes
      PROVE  /\ r.fd \in Threads /\ new.sock = live[r.fd] /\ live[r.fd] \in Ids
             /\ local_fd[r.fd] = new.sock
  BY <1>0, <1>6, <1>7, <1>8, Names DEF Served, ItemInv, ItemTypes
<1>9. ASSUME NEW i \in Ids, NEW t \in Threads, Expects(i, t)'
      PROVE  /\ req'[i].fd = t
             /\ i \notin Overtaken' => req'[i].sock = local_fd'[t] /\ local_fd'[t] \in Ids
  <2>1. ASSUME Expects(i, t)
        PROVE  /\ req'[i].fd = t
               /\ i \notin Overtaken' => req'[i].sock = local_fd'[t] /\ local_fd'[t] \in Ids
    <3>1. i \in 1..Len(req)
      BY <2>1, ExpectedOpen
    <3> QED
      BY <1>2, <1>3, <1>b, <2>1, <3>1 DEF OrderInv, OwnSocket
  <2>2. ASSUME NEW m \in Queue(t)', region'[work_queue'[t][m]] = i PROVE Expects(i, t)
    <3>1. m \in Queue(t) /\ work_queue'[t][m] = work_queue[t][m]
      BY <1>2, <2>2 DEF Queue
    <3>2. work_queue[t][m] \in Buffers \ {b}
      BY <1>0, <1>1, <3>1, QueuedIds DEF ItemInv, Apart
    <3>3. region[work_queue[t][m]] = i
      BY <1>4, <2>2, <3>1, <3>2
    <3> QED
      BY <3>1, <3>3 DEF Expects
  <2>3. ASSUME pc'[t] = "operate", IdOf(t)' = i PROVE Expects(i, t)
    <3>1. pc[t] = "operate"
      BY <1>4, <2>3
    <3>2. buf[t] \in Buffers \ {b}
      <4>1. t \in Executors /\ t # Dispatcher /\ buf[t] \in Buffers
        BY <1>0, <3>1, HeldIds DEF Idle
      <4> QED
        BY <1>0, <1>1, <4>1, Names DEF ItemInv, Apart
    <3>3. IdOf(t) = i
      BY <1>2, <1>4, <2>3, <3>2 DEF IdOf
    <3> QED
      BY <3>1, <3>3 DEF Expects
  <2>4. ASSUME TypeOf(Dispatcher)' \in QueuedTypes, Current'.fd = t,
               IdOf(Dispatcher)' = i
        PROVE  /\ req'[i].fd = t
               /\ req'[i].sock = local_fd'[t] /\ local_fd'[t] \in Ids
    <3>1. r.type \in SocketTypes /\ r.fd = t /\ i = n
      BY <1>4, <1>5, <1>7, <2>4 DEF SocketTypes
    <3> QED
      BY <1>2, <1>3, <1>7, <1>8, <3>1
  <2> QED
    BY <1>4, <1>9, <2>1, <2>2, <2>3, <2>4 DEF Expects
<1>10. ASSUME NEW t \in Threads, pc'[t] = "operate", IdOf(t)' \notin Overtaken'
       PROVE  op_fd'[t] = local_fd'[t]
  <2>1. pc[t] = "operate"
    BY <1>4, <1>10
  <2>2. buf[t] \in Buffers \ {b}
    <3>1. t \in Executors /\ t # Dispatcher /\ buf[t] \in Buffers
      BY <1>0, <2>1, HeldIds DEF Idle
    <3> QED
      BY <1>0, <1>1, <3>1, Names DEF ItemInv, Apart
  <2>3. IdOf(t)' = IdOf(t)
    BY <1>2, <1>4, <2>2 DEF IdOf
  <2>4. IdOf(t) \notin Overtaken
    BY <1>b, <1>10, <2>3
  <2> QED
    BY <1>2, <2>1, <2>4 DEF OrderInv, OwnSocket
<1>11. ASSUME NEW i \in 1..Len(req)
       PROVE  i \in DOMAIN req /\ answered[i] \in Nat
  <2>1. i \in Ids /\ DOMAIN req = 1..Len(req)
    BY <1>3, DispatchAssumption DEF ItemInv, ItemTypes, Ids
  <2> QED
    BY <2>1 DEF AnswerInv, MaxAnswers
<1>12. CloseLast'
  <2> SUFFICES ASSUME r.type = "Close", NEW i \in 1..n, req'[i].sock = new.sock,
                      req'[i].type \in QueuedTypes
               PROVE  answered[i] > 0 \/ i \in Overtaken'
    BY <1>2, <1>3, <1>5 DEF CloseLast
  <2>1. i # n
    BY <1>3, <1>7 DEF QueuedTypes
  <2>2. i \in 1..Len(req) /\ req[i] = req'[i]
    BY <1>3, <2>1
  <2>3. new.sock = live[r.fd]
    BY <1>8 DEF SocketTypes
  <2>4. answered[i] = 0 => i \in Unanswered(r.fd)
    BY <1>11, <2>2, <2>3 DEF Unanswered
  <2> QED
    BY <1>7, <1>11, <1>a, <2>2, <2>4
<1>13. WaitedFor'
  <2> SUFFICES ASSUME NEW i \in Overtaken'
               PROVE  i \in 1..n /\ req'[i].type \notin CloseWaits
    BY <1>3 DEF WaitedFor
  <2>1. CASE i \in Overtaken
    BY <1>3, <2>1 DEF OrderInv, WaitedFor
  <2>2. CASE r.type = "Close" /\ i \in Unanswered(r.fd)
    <3>1. MayClose(r.fd)
      BY <2>2 DEF ReadRequest
    <3>2. i \in DOMAIN req /\ req[i].sock = live[r.fd] /\ answered[i] = 0
      BY <2>2 DEF Unanswered
    <3>3. i \in 1..Len(req)
      BY <3>2 DEF ItemInv, ItemTypes
    <3>4. req[i].type \notin CloseWaits
      BY <3>1, <3>2 DEF MayClose
    <3> QED
      BY <1>3, <3>3, <3>4
  <2> QED
    BY <1>7, <1>a, <2>1, <2>2
<1> QED
  BY <1>9, <1>10, <1>12, <1>13 DEF OrderInv, OwnSocket

\* Every step keeps the requests and the sockets together.
LEMMA OrderInvPreserved ==
    ItemInv /\ NetTypes /\ AnswerInv /\ SocketsInv /\ OrderInv /\ [Next]_vars
      => OrderInv'
<1> SUFFICES ASSUME ItemInv, NetTypes, AnswerInv, SocketsInv, OrderInv, [Next]_vars
             PROVE  OrderInv'
  OBVIOUS
<1>1. CASE \E r \in Requests : ReadRequest(r)
  BY <1>1, ReadKeepsOrder
<1>2. CASE UNCHANGED vars
  <2>1. UNCHANGED <<req, answered, region, assigned_thread, local_fd, work_queue, pc,
                    buf, op_fd>>
    BY <1>2 DEF vars, pvmVars, bufferVars, socketVars, queueVars, threadVars
  <2>2. /\ TypeOf(Dispatcher)' = TypeOf(Dispatcher) /\ Current' = Current
        /\ IdOf(Dispatcher)' = IdOf(Dispatcher)
        /\ WorkerOf(Dispatcher)' = WorkerOf(Dispatcher)
        /\ \A t \in Threads : IdOf(t)' = IdOf(t) /\ Queue(t)' = Queue(t)
        /\ Overtaken' = Overtaken
    BY <2>1 DEF TypeOf, IdOf, WorkerOf, Current, Queue, Overtaken
  <2>3. \A i \in Ids, t \in Threads : Expects(i, t)' => Expects(i, t)
    BY <2>1, <2>2 DEF Expects
  <2>4. OwnSocket'
    BY <2>1, <2>2, <2>3 DEF OrderInv, OwnSocket
  <2>5. CloseLast' /\ WaitedFor'
    BY <2>1, <2>2 DEF OrderInv, CloseLast, WaitedFor
  <2> QED
    BY <2>4, <2>5 DEF OrderInv
<1>3. CASE Next /\ ~ \E r \in Requests : ReadRequest(r)
  <2>0. /\ Own /\ pc \in [Executors -> AllSteps] /\ Threads \subseteq Executors
        /\ buf \in [Executors -> Buffers \cup {None}]
        /\ op_fd \in [Executors -> Ids \cup {None, Invalid}] /\ UNCHANGED req
    BY <1>3, StartedBefore, Names DEF SocketsInv, Own, ItemInv, ItemTypes, NetTypes
  <2>a. Overtaken' = Overtaken
    BY <2>0 DEF Overtaken
  <2>1. ASSUME NEW i \in Ids, NEW t \in Threads, Expects(i, t)'
        PROVE  /\ req'[i].fd = t
               /\ i \notin Overtaken' => req'[i].sock = local_fd'[t] /\ local_fd'[t] \in Ids
    <3>1. Expects(i, t)
      BY <1>3, <2>0, <2>1, ExpectedBefore
    <3>2. i \notin Overtaken => local_fd'[t] = local_fd[t]
      BY <1>3, <3>1, SocketStays
    <3> QED
      BY <2>0, <2>a, <3>1, <3>2 DEF OrderInv, OwnSocket
  <2>2. ASSUME NEW t \in Threads, pc[t] = "operate", IdOf(t) \notin Overtaken
        PROVE  op_fd[t] = local_fd[t] /\ local_fd'[t] = local_fd[t]
    <3>1. IdOf(t) \in Ids
      BY <2>0, <2>2, HeldIds DEF Idle
    <3>2. Expects(IdOf(t), t)
      BY <2>2 DEF Expects
    <3> QED
      BY <1>3, <2>2, <3>1, <3>2, SocketStays DEF OrderInv, OwnSocket
  <2>3. ASSUME NEW t \in Threads, pc'[t] = "operate", pc[t] = "operate",
               op_fd'[t] = op_fd[t], buf'[t] = buf[t], IdOf(t)' \notin Overtaken'
        PROVE  op_fd'[t] = local_fd'[t]
    <3>1. IdOf(t)' = IdOf(t)
      <4>1. UNCHANGED region
        BY <1>3, RegionStays
      <4> QED
        BY <2>3, <4>1 DEF IdOf
    <3> QED
      BY <2>2, <2>3, <2>a, <3>1
  <2>4. ASSUME NEW t \in Threads, pc'[t] = "operate", IdOf(t)' \notin Overtaken'
        PROVE  op_fd'[t] = local_fd'[t]
    <3>1. ASSUME NEW w \in Threads, BeginWork(w) PROVE op_fd'[t] = local_fd'[t]
      <4>1. UNCHANGED local_fd
        BY <3>1 DEF BeginWork, socketVars
      <4>2. \/ UNCHANGED <<op_fd, pc, buf>>
            \/ /\ op_fd' = [op_fd EXCEPT ![w] = local_fd[w]] /\ Goto(w, "operate")
               /\ buf' = [buf EXCEPT ![w] = Head(work_queue[w])]
        BY <3>1, Zenon DEF BeginWork
      <4>3. CASE t = w /\ op_fd' = [op_fd EXCEPT ![w] = local_fd[w]]
        BY <2>0, <4>1, <4>3
      <4>4. CASE t # w \/ UNCHANGED <<op_fd, pc, buf>>
        <5>1. pc'[t] = pc[t] /\ op_fd'[t] = op_fd[t] /\ buf'[t] = buf[t]
          BY <2>0, <4>2, <4>4 DEF Goto
        <5> QED
          BY <2>3, <2>4, <5>1
      <4> QED
        BY <4>2, <4>3, <4>4
    <3>2. ASSUME NEW e \in Executors, Onward(e), UNCHANGED op_fd
          PROVE  op_fd'[t] = local_fd'[t]
      <4>1. t # e => pc'[t] = pc[t]
        <5>1. \E x : pc' = [pc EXCEPT ![e] = x]
          BY <3>2, Zenon DEF Onward, Goto
        <5> QED
          BY <2>0, <5>1
      <4>2. t # e
        BY <2>0, <2>4, <3>2, Names DEF Onward, Goto
      <4>3. UNCHANGED buf
        BY <3>2 DEF Onward, itemVars
      <4> QED
        BY <2>3, <2>4, <3>2, <4>1, <4>2, <4>3
    <3>3. ASSUME NEW e \in Executors, FinishItem(e) PROVE op_fd'[t] = local_fd'[t]
      <4>1. /\ Releases(e) /\ op_fd' = [op_fd EXCEPT ![e] = None]
        BY <3>3, FinishReleases DEF FinishItem
      <4>2. /\ pc'[e] \in {"reserve", "wait", "error"}
            /\ \A f \in Executors \ {e} : pc'[f] = pc[f] /\ buf'[f] = buf[f]
        BY <2>0, <4>1 DEF Releases
      <4>3. t # e
        BY <2>4, <4>2
      <4> QED
        BY <2>0, <2>3, <2>4, <4>1, <4>2, <4>3
    <3>4. CASE \/ reserve_available_buffer_item \/ assign_work_to_thread
               \/ Enqueue \/ send_dispatch_error_response
      <4>1. UNCHANGED op_fd
        BY <3>4, Zenon DEF reserve_available_buffer_item, assign_work_to_thread,
           Enqueue, send_dispatch_error_response
      <4>2. \/ UNCHANGED pc
            \/ \E x : Goto(Dispatcher, x)
        BY <3>4, Zenon DEF reserve_available_buffer_item, assign_work_to_thread,
           Enqueue, send_dispatch_error_response
      <4>3. pc'[t] = pc[t]
        BY <2>0, <4>2, Names DEF Goto
      <4>4. UNCHANGED buf \/ \E x : buf' = [buf EXCEPT ![Dispatcher] = x]
        BY <3>4, Zenon DEF reserve_available_buffer_item, assign_work_to_thread,
           Enqueue, send_dispatch_error_response
      <4>5. buf'[t] = buf[t]
        BY <2>0, <4>4, Names DEF ItemInv, ItemTypes
      <4> QED
        BY <2>3, <2>4, <4>1, <4>3, <4>5
    <3>5. CASE AcquireOplock
      BY <3>2, <3>5, ProcessGoesOn, Names DEF AcquireOplock
    <3>6. ASSUME NEW e \in Executors, Operation(e) \/ PublishPorts(e) \/ WriteResponse(e)
          PROVE  op_fd'[t] = local_fd'[t]
      <4>1. UNCHANGED op_fd
        BY <3>6, OperationMoves DEF PublishPorts, WriteResponse
      <4> QED
        BY <3>2, <3>6, <4>1, ProcessGoesOn
    <3> QED
      BY <1>3, <3>1, <3>3, <3>4, <3>5, <3>6, Zenon DEF Next, Dispatch, Process
  <2>5. CloseLast'
    <3>1. ASSUME pc'[Dispatcher] \in Started
          PROVE  /\ pc[Dispatcher] \in Started /\ Current' = Current
                 /\ TypeOf(Dispatcher)' = TypeOf(Dispatcher)
      BY <1>3, <2>0, <3>1, StartedBefore DEF Current, TypeOf
    <3>2. 1..Len(req) \subseteq Ids
      BY DispatchAssumption, LenProperties DEF ItemInv, ItemTypes, Ids
    <3>3. \A i \in Ids : answered[i] > 0 => answered'[i] > 0
      BY <1>3, AnsweredStays
    <3> QED
      BY <2>0, <2>a, <3>1, <3>2, <3>3 DEF OrderInv, CloseLast
  <2>6. WaitedFor'
    BY <2>0, <2>a DEF OrderInv, WaitedFor
  <2> QED
    BY <2>1, <2>4, <2>5, <2>6 DEF OrderInv, OwnSocket
<1> QED
  BY <1>1, <1>2, <1>3

\* Nothing is expected at first.
LEMMA OrderInvInitially == Init => OrderInv
<1> SUFFICES ASSUME Init PROVE OrderInv
  OBVIOUS
<1>1. /\ pc[Dispatcher] = "reserve" /\ \A t \in Threads : pc[t] = "wait"
      /\ \A t \in Threads : Queue(t) = {}
  BY Names DEF Init, Queue
<1>2. Overtaken = {}
  BY DEF Init, Overtaken
<1> QED
  BY <1>1, <1>2 DEF OrderInv, OwnSocket, CloseLast, WaitedFor, Expects, Started

\* Requests that are not overtaken are always with their sockets.
LEMMA OrderAlways == Spec => []OrderInv
  BY OrderInvInitially, OrderInvPreserved, ItemsAlways, NetTypesAlways, AnswersAlways,
     SocketsAlways, PTL DEF Spec

\* For every value of the constants, and so for the driver's MT_CLOSE_WAITS: a
\* worker is in its blocking call on the socket that the request was issued for,
\* unless a Close has overtaken the request, and then it is none of the requests
\* that the PVM awaits before a Close.
THEOREM AlwaysOperatesOnOwnSocket == Spec => []OperatesOnOwnSocket
<1>1. ItemInv /\ OrderInv => OperatesOnOwnSocket
  <2> SUFFICES ASSUME ItemInv, OrderInv, NEW t \in Threads, pc[t] = "operate",
                      op_fd[t] # req[IdOf(t)].sock
               PROVE  IdOf(t) \in Overtaken /\ TypeOf(t) \notin CloseWaits
    BY DEF OperatesOnOwnSocket
  <2>1. IdOf(t) \in Ids
    BY HeldIds, Names DEF Idle
  <2>2. Expects(IdOf(t), t)
    BY DEF Expects
  <2>3. IdOf(t) \in Overtaken
    BY <2>1, <2>2 DEF OrderInv, OwnSocket
  <2> QED
    BY <2>3 DEF OrderInv, WaitedFor, TypeOf
<1> QED
  BY <1>1, ItemsAlways, OrderAlways, PTL
-----------------------------------------------------------------------------
(* The peer's closure.                                                     *)

\* There has been an operation on thread t's socket that can find it closed.
Heard(t) ==
    /\ local_fd[t] \in Ids
    /\ \E i \in 1..Len(req) :
         req[i].sock = local_fd[t] /\ req[i].type \in {"Recv", "Send"}

\* Thread t's socket has just been closed, and t is about to be released.
Ending(t) ==
    /\ pc[Dispatcher] \in Done /\ TypeOf(Dispatcher) = "Close"
    /\ WorkerOf(Dispatcher) = t

\* A request on the thread's descriptor that can find its socket closed was
\* overtaken, and may be performed at any later time.
Strayed(t) ==
    \E i \in 1..Len(req) :
        /\ i \in Overtaken /\ req[i].fd = t
        /\ req[i].type \in {"Recv", "Send"}

\* A flag that is set was set by an operation on the socket the thread has, or by
\* one that strayed.
FlagInv == \A t \in Threads : state_flags[t] => Heard(t) \/ Ending(t) \/ Strayed(t)

\* A request that strayed stays so.
LEMMA StrayedStays ==
    ASSUME \A i \in 1..Len(req) : i \in 1..Len(req') /\ req'[i] = req[i],
           DOMAIN req = 1..Len(req), DOMAIN req' = 1..Len(req'), NEW t, Strayed(t)
    PROVE  Strayed(t)'
<1>1. \A i \in Overtaken : i \in Overtaken'
  BY DEF Overtaken
<1> QED
  BY <1>1 DEF Strayed

\* A step that sets no flag, and changes no socket with one.
LEMMA FlagFrame ==
    ASSUME ItemInv, FlagInv, \A i \in 1..Len(req) : i \in 1..Len(req') /\ req'[i] = req[i],
           DOMAIN req' = 1..Len(req'),
           \A t \in Threads : state_flags'[t] =>
             \/ Strayed(t)
             \/ state_flags[t] /\ local_fd'[t] = local_fd[t] /\ (Ending(t) => Ending(t)')
    PROVE  FlagInv'
<1> SUFFICES ASSUME NEW t \in Threads, state_flags'[t]
             PROVE  Heard(t)' \/ Ending(t)' \/ Strayed(t)'
  BY DEF FlagInv
<1>0. DOMAIN req = 1..Len(req)
  BY DEF ItemInv, ItemTypes
<1>1. CASE Strayed(t)
  BY <1>0, <1>1, StrayedStays
<1>2. CASE ~Strayed(t) /\ Ending(t)
  BY <1>2
<1>3. CASE ~Strayed(t) /\ Heard(t)
  BY <1>3 DEF Heard
<1> QED
  BY <1>1, <1>2, <1>3 DEF FlagInv

\* Only a Recv or a Send sets a flag, that of the worker that performs it.
LEMMA OperationFlags ==
    ASSUME ItemInv, NetTypes, NEW e \in Executors, Operation(e)
    PROVE  \/ UNCHANGED state_flags
           \/ /\ e \in Threads /\ TypeOf(e) \in {"Recv", "Send"} /\ UNCHANGED servingVars
              /\ \A t \in Threads \ {e} : state_flags'[t] = state_flags[t]
<1>1. CASE xe_net_recv_socket(e) \/ xe_net_send_socket(e)
  <2>1. /\ pc[e] = "operate" /\ TypeOf(e) \in {"Recv", "Send"}
        /\ UNCHANGED servingVars
        /\ \/ UNCHANGED state_flags
           \/ \E c : state_flags' = [state_flags EXCEPT ![WorkerOf(e)] = c]
    <3>1. TypeOf(e) \in {"Recv", "Send"} /\ pc[e] = "operate"
      BY <1>1 DEF xe_net_recv_socket, xe_net_send_socket, Operating
    <3>2. UNCHANGED servingVars
      BY <1>1 DEF xe_net_recv_socket, xe_net_send_socket, servingVars
    <3>3. \/ UNCHANGED state_flags
          \/ \E c : state_flags' = [state_flags EXCEPT ![WorkerOf(e)] = c]
      BY <1>1, Zenon DEF xe_net_recv_socket, xe_net_send_socket
    <3> QED
      BY <3>1, <3>2, <3>3
  <2>2. e \in Threads
    <3>1. e = Dispatcher => TypeOf(e) \notin QueuedTypes
      BY <2>1 DEF ItemInv, DispatchersOwn
    <3> QED
      BY <2>1, <3>1, Names DEF QueuedTypes
  <2>3. WorkerOf(e) = e
    BY <2>1, <2>2 DEF ItemInv, WorkersOwn
  <2> QED
    BY <2>1, <2>2, <2>3 DEF NetTypes
<1>2. CASE \/ xe_net_create_socket(e) \/ xe_net_accept_socket(e)
           \/ xe_net_bind_socket(e) \/ xe_net_close_socket(e)
  BY <1>2, Zenon DEF xe_net_create_socket, xe_net_accept_socket, xe_net_bind_socket,
     xe_net_close_socket
<1>3. CASE xe_net_connect_socket(e) \/ xe_net_listen_socket(e)
             \/ xe_net_shutdown_socket(e) \/ xe_net_sock_attrib(e)
             \/ xe_net_get_name(e) \/ xe_net_addr_block(e) \/ xe_pollset_query(e)
  BY <1>3 DEF xe_net_connect_socket, xe_net_listen_socket,
     xe_net_shutdown_socket, xe_net_sock_attrib, xe_net_get_name,
     xe_net_addr_block, xe_pollset_query, PlainOperation, socketVars
<1> QED
  BY <1>1, <1>2, <1>3, Zenon DEF Operation

\* The operations.
LEMMA OperationKeepsFlags ==
    ASSUME ItemInv, NetTypes, SocketsInv, OrderInv, FlagInv, NEW e \in Executors,
           Operation(e)
    PROVE  FlagInv'
<1>0. /\ pc[e] = "operate" /\ UNCHANGED <<req, region, buf, assigned_thread>>
      /\ DOMAIN req = 1..Len(req) /\ Served /\ Own /\ Serves(e) /\ in_use \subseteq Threads
      /\ local_fd \in [Threads -> Ids \cup {None, Invalid}]
      /\ Dispatcher \in Executors /\ pc \in [Executors -> AllSteps]
  BY OperationMoves, OperationServes, Names
     DEF bufferVars, SocketsInv, Own, NetTypes, ItemInv, ItemTypes
<1>1. \A t : Ending(t) => Ending(t)'
  <2>1. /\ TypeOf(Dispatcher)' = TypeOf(Dispatcher)
        /\ WorkerOf(Dispatcher)' = WorkerOf(Dispatcher)
    BY <1>0 DEF TypeOf, IdOf, WorkerOf
  <2>2. e # Dispatcher => pc'[Dispatcher] = pc[Dispatcher]
    BY <1>0, OperationMoves DEF Goto
  <2>3. e = Dispatcher => pc[Dispatcher] \notin Done
    BY <1>0 DEF Done
  <2> QED
    BY <2>1, <2>2, <2>3 DEF Ending
<1>2. ASSUME UNCHANGED state_flags,
             \A t \in Threads : state_flags[t] => Strayed(t) \/ local_fd'[t] = local_fd[t]
      PROVE  FlagInv'
  BY <1>0, <1>1, <1>2, FlagFrame
<1>3. CASE /\ e \in Threads /\ TypeOf(e) \in {"Recv", "Send"} /\ UNCHANGED servingVars
           /\ \A t \in Threads \ {e} : state_flags'[t] = state_flags[t]
  <2>1. IdOf(e) \in 1..Len(req) /\ IdOf(e) \in Ids
    BY <1>0, HeldIds DEF Idle
  <2>2. Expects(IdOf(e), e)
    BY <1>0 DEF Expects
  <2>3. UNCHANGED local_fd
    BY <1>3 DEF servingVars
  <2>4. Heard(e) \/ Strayed(e)
    BY <1>3, <2>1, <2>2 DEF Heard, Strayed, OrderInv, OwnSocket, TypeOf
  <2>5. \A t \in Threads : (Heard(t)' <=> Heard(t)) /\ (Strayed(t)' <=> Strayed(t))
    BY <1>0, <2>3 DEF Heard, Strayed, Overtaken
  <2> QED
    BY <1>1, <1>3, <2>4, <2>5 DEF FlagInv
<1>4. CASE UNCHANGED state_flags
  <2>1. ASSUME NEW u \in Threads, NEW v, state_flags[u] => Strayed(u),
               local_fd' = [local_fd EXCEPT ![u] = v]
        PROVE  FlagInv'
    BY <1>0, <1>2, <1>4, <2>1
  <2>2. CASE e = Dispatcher /\ TypeOf(e) = "Create"
    <3>1. PICK w \in Threads : w = WorkerOf(Dispatcher)
      BY <1>0, <2>2, Names DEF Serves
    <3>2. local_fd[w] \notin Ids /\ ~Ending(w)
      BY <1>0, <2>2, <3>1 DEF Own, Creating, Ending
    <3>3. state_flags[w] => Strayed(w)
      BY <3>2 DEF FlagInv, Heard
    <3>4. Opened(e, w) \/ NotCreated
      BY <1>0, <2>2, <3>1, Names DEF Serves
    <3> QED
      BY <2>1, <3>1, <3>3, <3>4 DEF Opened, NotCreated
  <2>3. ASSUME NEW u \in Threads \ in_use, Opened(e, u) PROVE FlagInv'
    <3>1. local_fd[u] \notin Ids
      BY <1>0, <2>3 DEF Served
    <3>2. ~Ending(u)
      BY <2>3 DEF Ending, ItemInv, DispatchersOwn, Done
    <3>3. state_flags[u] => Strayed(u)
      BY <3>1, <3>2 DEF FlagInv, Heard
    <3> QED
      BY <2>1, <2>3, <3>3 DEF Opened
  <2>4. CASE /\ e = Dispatcher /\ TypeOf(e) = "Close"
             /\ xe_net_internal_close_socket(WorkerOf(e))
    <3>2. PICK w \in Threads : w = WorkerOf(Dispatcher)
      BY <1>0, <2>4 DEF Own, Closing, Started
    <3>3. Ending(w)'
      <4>1. pc'[Dispatcher] \in Done
        BY <1>0, <2>4, OperationMoves DEF Goto, Done
      <4>2. /\ TypeOf(Dispatcher)' = "Close"
            /\ WorkerOf(Dispatcher)' = WorkerOf(Dispatcher)
        BY <1>0, <2>4 DEF TypeOf, IdOf, WorkerOf
      <4> QED
        BY <3>2, <4>1, <4>2 DEF Ending
    <3>4. \A t \in Threads \ {w} : local_fd'[t] = local_fd[t]
      BY <1>0, <2>4, <3>2 DEF xe_net_internal_close_socket
    <3>5. \A t \in Threads \ {w} : (Heard(t) => Heard(t)') /\ (Strayed(t) => Strayed(t)')
      BY <1>0, <3>4 DEF Heard, Strayed, Overtaken
    <3> QED
      BY <1>1, <1>4, <3>3, <3>5 DEF FlagInv
  <2>5. CASE UNCHANGED servingVars \/ NotAccepted(e)
    BY <1>2, <1>4, <2>5 DEF servingVars, NotAccepted
  <2> QED
    BY <1>0, <2>2, <2>3, <2>4, <2>5 DEF Serves
<1> QED
  BY <1>3, <1>4, OperationFlags

\* A thread that is released takes no flag to its next socket.
LEMMA FinishKeepsFlags ==
    ASSUME ItemInv, NetTypes, SocketsInv, FlagInv, FinishItem(Dispatcher)
    PROVE  FlagInv'
<1>0. /\ pc[Dispatcher] = "finish" /\ UNCHANGED req /\ DOMAIN req = 1..Len(req) /\ Own /\ Dispatcher \in Executors
      /\ state_flags \in [Threads -> BOOLEAN]
      /\ local_fd \in [Threads -> Ids \cup {None, Invalid}]
  BY Names DEF FinishItem, pvmVars, SocketsInv, Own, NetTypes, ItemInv, ItemTypes
<1>1. CASE ReleasesThread(Dispatcher)
  <2>1. PICK w \in Threads : w = WorkerOf(Dispatcher)
    BY <1>0, <1>1 DEF ReleasesThread, ItemInv, ItemTypes, DispatchersOwn
  <2>2. release_worker_thread(w)
    BY <1>1, <2>1 DEF FinishItem
  <2>3. /\ state_flags' = [state_flags EXCEPT ![w] = FALSE]
        /\ local_fd' = [local_fd EXCEPT ![w] = Invalid]
    BY <2>2 DEF release_worker_thread, xe_net_internal_close_socket
  <2>4. \A t \in Threads : Ending(t) => t = w
    BY <2>1 DEF Ending
  <2>5. \A t \in Threads : state_flags'[t] =>
          t # w /\ state_flags[t] /\ local_fd'[t] = local_fd[t]
    BY <1>0, <2>1, <2>3
  <2> QED
    BY <1>0, <2>4, <2>5, FlagFrame
<1>2. CASE ~ReleasesThread(Dispatcher)
  <2>1. UNCHANGED <<state_flags, local_fd>>
    BY <1>2 DEF FinishItem, socketVars
  <2>2. \A t \in Threads : ~Ending(t)
    BY <1>2 DEF ReleasesThread, Ending
  <2> QED
    BY <1>0, <2>1, <2>2, FlagFrame
<1> QED
  BY <1>1, <1>2

\* Every step keeps the flags with their sockets.
LEMMA FlagInvPreserved ==
    ItemInv /\ NetTypes /\ SocketsInv /\ OrderInv /\ FlagInv /\ [Next]_vars => FlagInv'
<1> SUFFICES ASSUME ItemInv, NetTypes, SocketsInv, OrderInv, FlagInv, [Next]_vars
             PROVE  FlagInv'
  OBVIOUS
<1>0. Own /\ DOMAIN req = 1..Len(req)
  BY DEF SocketsInv, Own, ItemInv, ItemTypes
<1>1. ASSUME UNCHANGED <<req, state_flags, local_fd>>,
             \A t \in Threads : Ending(t) => Ending(t)'
      PROVE  FlagInv'
  BY <1>0, <1>1, FlagFrame
<1>2. CASE UNCHANGED vars
  <2>1. UNCHANGED <<req, state_flags, local_fd, pc, buf, region, assigned_thread>>
    BY <1>2 DEF vars, pvmVars, bufferVars, socketVars, threadVars
  <2> QED
    BY <1>1, <2>1 DEF Ending, TypeOf, IdOf, WorkerOf
<1>3. ASSUME NEW r \in Requests, ReadRequest(r) PROVE FlagInv'
  <2>1. /\ pc[Dispatcher] = "read" /\ UNCHANGED <<state_flags, local_fd>>
        /\ \E x : req' = Append(req, x)
    BY <1>3 DEF ReadRequest, socketVars
  <2>2. /\ \A i \in 1..Len(req) : i \in 1..Len(req') /\ req'[i] = req[i]
        /\ DOMAIN req' = 1..Len(req')
    BY <2>1, AppendProperties DEF ItemInv, ItemTypes
  <2>3. \A t \in Threads : ~Ending(t)
    BY <2>1 DEF Ending, Done
  <2> QED
    BY <2>1, <2>2, <2>3, FlagFrame
<1>4. CASE Dispatch
  <2>1. UNCHANGED <<req, state_flags, local_fd>> /\ pc[Dispatcher] \notin Done
    BY <1>4 DEF Dispatch, reserve_available_buffer_item, assign_work_to_thread,
       AcquireOplock, Enqueue, send_dispatch_error_response, pvmVars, socketVars, Done
  <2> QED
    BY <1>1, <2>1 DEF Ending
<1>5. ASSUME NEW e \in Threads,
             \/ BeginWork(e) \/ PublishPorts(e) \/ WriteResponse(e) \/ FinishItem(e)
      PROVE  FlagInv'
  <2>1. UNCHANGED socketVars
    BY <1>0, <1>5, FinishOnSockets, Names DEF BeginWork, PublishPorts, WriteResponse
  <2>2. UNCHANGED req
    BY <1>5 DEF BeginWork, PublishPorts, WriteResponse, FinishItem, pvmVars
  <2>3. \A t \in Threads : Ending(t) => Ending(t)'
    BY <1>5, WorkersKeepCurrent DEF Ending, Process, Done
  <2> QED
    BY <1>1, <2>1, <2>2, <2>3 DEF socketVars
<1>6. CASE PublishPorts(Dispatcher) \/ WriteResponse(Dispatcher)
  <2>1. UNCHANGED <<req, state_flags, local_fd, buf, region, assigned_thread>>
    BY <1>6 DEF PublishPorts, WriteResponse, pvmVars, socketVars, bufferVars
  <2>2. pc'[Dispatcher] \in Done
    BY <1>6, Names DEF PublishPorts, WriteResponse, Goto, Done, ItemInv, ItemTypes
  <2> QED
    BY <1>1, <2>1, <2>2 DEF Ending, TypeOf, IdOf, WorkerOf
<1> QED
  <2>1. ASSUME NEW e \in Executors, Process(e) PROVE FlagInv'
    <3>1. CASE Operation(e)
      BY <3>1, OperationKeepsFlags
    <3>2. CASE e = Dispatcher
      BY <1>6, <2>1, <3>1, <3>2, FinishKeepsFlags DEF Process
    <3>3. CASE e \in Threads
      BY <1>5, <2>1, <3>1, <3>3 DEF Process
    <3> QED
      BY <3>2, <3>3, Names
  <2>2. ASSUME NEW t \in Threads, BeginWork(t) PROVE FlagInv'
    BY <1>5, <2>2
  <2> QED
    BY <1>2, <1>3, <1>4, <2>1, <2>2, Zenon DEF Next

\* For every value of the constants, and so for the driver's MT_CLOSE_WAITS: a
\* descriptor the PVM holds is reported as closed by the peer only after a request
\* on that socket that can find it closed, or one on an earlier socket of the
\* thread that a Close overtook and that the PVM does not await.  The flag itself
\* does not pass to the thread's next socket.
THEOREM ClosureAlwaysOwn == Spec => []ClosureIsOwn
<1>1. Init => FlagInv
  BY DEF Init, FlagInv
<1>2. ItemInv /\ SocketsInv /\ OrderInv /\ FlagInv => ClosureIsOwn
  <2> SUFFICES ASSUME ItemInv, SocketsInv, OrderInv, FlagInv,
                      NEW t \in Threads, live[t] # None, state_flags[t]
               PROVE  \E i \in DOMAIN req :
                        /\ req[i].type \in {"Recv", "Send"}
                        /\ \/ req[i].sock = live[t]
                           \/ /\ req[i].fd = t /\ i \in Overtaken
                              /\ req[i].type \notin CloseWaits
    BY DEF ClosureIsOwn
  <2>1. local_fd[t] = live[t] /\ live[t] \in Ids
    BY DEF SocketsInv, Served, ItemInv, ItemTypes
  <2>2. ~Ending(t)
    BY <2>1, DispatchAssumption DEF SocketsInv, Closing, Ending, Invalid, Ids
  <2>3. (Heard(t) \/ Strayed(t)) /\ DOMAIN req = 1..Len(req)
    BY <2>2 DEF FlagInv, ItemInv, ItemTypes
  <2>4. CASE Heard(t)
    BY <2>1, <2>3, <2>4 DEF Heard
  <2>5. CASE Strayed(t)
    BY <2>3, <2>5 DEF Strayed, OrderInv, WaitedFor
  <2> QED
    BY <2>3, <2>4, <2>5
<1> QED
  BY <1>1, <1>2, FlagInvPreserved, ItemsAlways, NetTypesAlways, SocketsAlways,
     OrderAlways, PTL DEF Spec
=============================================================================
