--------------------------- MODULE InsItemsProofs ---------------------------
(***************************************************************************)
(* Requests and buffers in the INS application (InsDispatch), for every    *)
(* number of threads, buffers and requests: each buffer has one owner, a   *)
(* request is answered at most once, a held oplock has someone left to     *)
(* release it, and every variable keeps its type.                          *)
(*                                                                         *)
(* BufferOwnership counts the references to a buffer and is not inductive: *)
(* a buffer could be released by one thread while it lies in the queue of  *)
(* another.  ItemInv says what every step needs: no two places refer to    *)
(* the same buffer (Apart), whatever is referred to is in use (InUse), two *)
(* busy buffers hold different requests (OwnRequest), and a buffer in a    *)
(* worker's queue or hands is assigned to that worker (WorkersOwn,         *)
(* DispatchersOwn).  AnswerInv then counts the answers of each request by  *)
(* how far the buffer that holds it has come.                              *)
(***************************************************************************)
EXTENDS InsDispatchProofs, FiniteSetTheorems

\* The positions of a worker's queue, and the type of the request in a buffer.
Queue(t) == 1..Len(work_queue[t])
Kind(b)  == req[region[b]].type

\* Where an executor has no buffer, and where the request is yet to be answered.
Idle  == {"reserve", "wait"}
Early == {"assign", "oplock", "enqueue", "operate", "publish", "respond"}

AllSteps == {"reserve", "read", "assign", "oplock", "enqueue", "error", "wait",
             "operate", "publish", "respond", "finish"}

RequestRecords == [type : Types, fd : Threads \cup {Invalid},
                   sock : Ids \cup {None}, overtakes : SUBSET Ids]

\* The variables that say which request is where.
itemVars == <<req, buf_in_use, region, assigned_thread, work_queue, buf>>

ItemTypes ==
    /\ req \in Seq(RequestRecords) /\ Len(req) <= MaxRequests
    /\ live \in [Threads -> Ids \cup {None}]
    /\ buf_in_use \subseteq Buffers
    /\ region \in [Buffers -> Ids \cup {None}]
    /\ assigned_thread \in [Buffers -> Threads \cup {None}]
    /\ in_use \subseteq Threads
    /\ work_queue \in [Threads -> Seq(Buffers)]
    /\ pc \in [Executors -> AllSteps]
    /\ buf \in [Executors -> Buffers \cup {None}]

\* Who can be where, and who has a buffer.
Steps ==
    /\ pc[Dispatcher] # "wait"
    /\ \A t \in Threads : pc[t] \in {"wait", "operate", "respond", "finish"}
    /\ \A e \in Executors : buf[e] = None <=> pc[e] \in Idle

\* No buffer is in two places.
Apart ==
    /\ \A e, f \in Executors : buf[e] = buf[f] => e = f \/ buf[e] = None
    /\ \A e \in Executors, t \in Threads : \A n \in Queue(t) :
         work_queue[t][n] # buf[e]
    /\ \A t, u \in Threads : \A n \in Queue(t), m \in Queue(u) :
         work_queue[t][n] = work_queue[u][m] => t = u /\ n = m

\* A buffer is in use as long as it is somewhere, and no longer.  The
\* dispatcher reports an internal error from a buffer that has been released.
InUse ==
    /\ \A e \in Executors :
         buf[e] \in buf_in_use \cup {None} \/ (e = Dispatcher /\ pc[e] = "error")
    /\ \A t \in Threads : \A n \in Queue(t) : work_queue[t][n] \in buf_in_use
    /\ \A b \in buf_in_use :
         \/ \E e \in Executors : buf[e] = b
         \/ \E t \in Threads : \E n \in Queue(t) : work_queue[t][n] = b

\* The buffers with a request that is not dealt with.
Busy ==
    {b \in Buffers :
       \/ \E e \in Executors : pc[e] \notin Idle \cup {"read"} /\ buf[e] = b
       \/ \E t \in Threads : \E n \in Queue(t) : work_queue[t][n] = b}

\* Each of them holds a request of its own.
OwnRequest ==
    /\ \A b \in Busy : region[b] \in 1..Len(req)
    /\ \A b, c \in Busy : region[b] = region[c] => b = c

\* A worker has only its own requests, of the types that are queued; the
\* dispatcher keeps the others and works for a thread that is in use.
WorkersOwn ==
    /\ \A t \in Threads : \A n \in Queue(t) :
         /\ assigned_thread[work_queue[t][n]] = t
         /\ Kind(work_queue[t][n]) \in QueuedTypes
    /\ \A t \in Threads : pc[t] # "wait" =>
         WorkerOf(t) = t /\ TypeOf(t) \in QueuedTypes

DispatchersOwn ==
    /\ \A b \in Buffers \ buf_in_use : assigned_thread[b] = None
    /\ pc[Dispatcher] \in {"read", "assign", "error"} =>
         WorkerOf(Dispatcher) = None
    /\ pc[Dispatcher] = "oplock" =>
         WorkerOf(Dispatcher) \in in_use /\ TypeOf(Dispatcher) \in OplockTypes
    /\ pc[Dispatcher] = "enqueue" =>
         WorkerOf(Dispatcher) \in in_use /\ TypeOf(Dispatcher) \in QueuedTypes
    /\ pc[Dispatcher] \in {"operate", "publish", "respond", "finish"} =>
         /\ TypeOf(Dispatcher) \notin QueuedTypes
         /\ \/ TypeOf(Dispatcher) = "PollsetQuery"
            \/ WorkerOf(Dispatcher) \in in_use

\* The inductive invariant for the items.
ItemInv ==
    ItemTypes /\ Steps /\ Apart /\ InUse /\ OwnRequest /\ WorkersOwn
      /\ DispatchersOwn
-----------------------------------------------------------------------------
\* The dispatcher is not one of the workers, and no buffer is None.
LEMMA Names ==
    /\ Dispatcher \in Executors /\ Dispatcher \notin Threads
    /\ Threads \subseteq Executors
    /\ \A e \in Executors : e = Dispatcher \/ e \in Threads
    /\ None \notin Buffers /\ None \notin Threads /\ None \notin Ids
    /\ Invalid \notin Threads
  BY DispatchAssumption
     DEF Executors, Dispatcher, Threads, Buffers, Ids, None, Invalid

\* What Append does to a queue.
LEMMA QueueAppend ==
    ASSUME NEW q \in Seq(Buffers), NEW b \in Buffers
    PROVE  /\ Append(q, b) \in Seq(Buffers)
           /\ Len(Append(q, b)) = Len(q) + 1 /\ Len(q) \in Nat
           /\ \A n \in 1..Len(q) : Append(q, b)[n] = q[n]
           /\ Append(q, b)[Len(q) + 1] = b
  BY AppendProperties

\* What taking the first item does to a queue.
LEMMA QueueTail ==
    ASSUME NEW q \in Seq(Buffers), q # <<>>
    PROVE  /\ Tail(q) \in Seq(Buffers)
           /\ Len(Tail(q)) = Len(q) - 1 /\ Len(q) \in Nat /\ Len(q) >= 1
           /\ Head(q) = q[1] /\ Head(q) \in Buffers
           /\ \A n \in 1..(Len(q) - 1) : Tail(q)[n] = q[n + 1]
<1>1. /\ Tail(q) \in Seq(Buffers) /\ Len(Tail(q)) = Len(q) - 1
      /\ Head(q) \in Buffers
  BY HeadTailProperties, Zenon
<1>2. Len(q) \in Nat /\ Len(q) >= 1
  BY EmptySeq, LenProperties
<1> QED
  BY <1>1, <1>2

\* The entries of a queue are buffers.
LEMMA QueueEntries ==
    ASSUME ItemTypes
    PROVE  \A t \in Threads : \A n \in Queue(t) : work_queue[t][n] \in Buffers
  BY ElementOfSeq DEF ItemTypes, Queue

\* An executor that is past reading has a busy buffer, with a request.
LEMMA HeldIds ==
    ASSUME ItemInv, NEW e \in Executors, pc[e] \notin Idle \cup {"read"}
    PROVE  /\ buf[e] \in Busy /\ buf[e] \in Buffers
           /\ IdOf(e) \in Ids /\ IdOf(e) \in 1..Len(req)
           /\ req[IdOf(e)] \in RequestRecords /\ TypeOf(e) \in Types
<1>1. buf[e] \in Buffers
  BY DEF ItemInv, ItemTypes, Steps
<1>2. buf[e] \in Busy
  BY <1>1 DEF Busy
<1>3. IdOf(e) \in 1..Len(req)
  BY <1>2 DEF ItemInv, OwnRequest, IdOf
<1>4. req \in Seq(RequestRecords) /\ Len(req) <= MaxRequests /\ Len(req) \in Nat
  BY LenProperties DEF ItemInv, ItemTypes
<1>5. IdOf(e) \in Ids
  BY <1>3, <1>4, DispatchAssumption DEF Ids
<1>6. req[IdOf(e)] \in RequestRecords
  BY <1>3, <1>4, ElementOfSeq
<1> QED
  BY <1>1, <1>2, <1>3, <1>5, <1>6 DEF TypeOf, RequestRecords

\* Each of two executors has a request of its own.
LEMMA HeldApart ==
    ASSUME ItemInv, NEW e \in Executors, NEW f \in Executors,
           pc[e] \notin Idle \cup {"read"}, pc[f] \notin Idle \cup {"read"},
           IdOf(e) = IdOf(f)
    PROVE  e = f
<1>1. buf[e] \in Busy /\ buf[f] \in Busy
  BY HeldIds
<1>2. buf[e] = buf[f]
  BY <1>1 DEF ItemInv, OwnRequest, IdOf
<1> QED
  BY <1>2 DEF ItemInv, Apart, Steps

\* So has an item in a queue.
LEMMA QueuedIds ==
    ASSUME ItemInv, NEW t \in Threads, NEW n \in Queue(t)
    PROVE  /\ work_queue[t][n] \in Busy /\ work_queue[t][n] \in Buffers
           /\ region[work_queue[t][n]] \in Ids
           /\ region[work_queue[t][n]] \in 1..Len(req)
<1>1. work_queue[t][n] \in Buffers
  BY QueueEntries DEF ItemInv
<1>2. work_queue[t][n] \in Busy
  BY <1>1 DEF Busy
<1>3. region[work_queue[t][n]] \in 1..Len(req)
  BY <1>2 DEF ItemInv, OwnRequest
<1>4. Len(req) <= MaxRequests /\ Len(req) \in Nat
  BY LenProperties DEF ItemInv, ItemTypes
<1> QED
  BY <1>1, <1>2, <1>3, <1>4, DispatchAssumption DEF Ids

\* An executor's request is not one in a queue.
LEMMA QueuedApart ==
    ASSUME ItemInv, NEW t \in Threads, NEW n \in Queue(t),
           NEW e \in Executors, pc[e] \notin Idle \cup {"read"}
    PROVE  region[work_queue[t][n]] # IdOf(e)
<1>1. buf[e] \in Busy /\ work_queue[t][n] \in Busy
  BY HeldIds, QueuedIds
<1> QED
  BY <1>1 DEF ItemInv, OwnRequest, IdOf, Apart

\* Nothing is anywhere at first.
LEMMA ItemInvInitially == Init => ItemInv
<1> SUFFICES ASSUME Init PROVE ItemInv
  OBVIOUS
<1>1. \A t \in Threads : work_queue[t] = <<>> /\ Queue(t) = {}
  BY DEF Init, Queue
<1>2. /\ \A e \in Executors : buf[e] = None /\ pc[e] \in Idle
      /\ pc[Dispatcher] = "reserve" /\ \A t \in Threads : pc[t] = "wait"
  BY Names DEF Init, Idle
<1>3. ItemTypes
  BY DispatchAssumption DEF Init, ItemTypes, AllSteps, Ids
<1>4. Steps /\ Apart
  BY <1>1, <1>2, Names DEF Steps, Apart
<1>5. InUse
  BY <1>1, <1>2 DEF InUse, Init
<1>6. Busy = {}
  BY <1>1, <1>2, Zenon DEF Busy
<1>7. OwnRequest
  BY <1>6 DEF OwnRequest
<1>8. WorkersOwn /\ DispatchersOwn
  BY <1>1, <1>2 DEF WorkersOwn, DispatchersOwn, Init
<1> QED
  BY <1>3, <1>4, <1>5, <1>7, <1>8 DEF ItemInv
-----------------------------------------------------------------------------
\* Executor e goes on with the item it has, which stays where it is.
Onward(e) ==
    /\ UNCHANGED itemVars
    /\ live' \in [Threads -> Ids \cup {None}]
    /\ in_use \subseteq in_use' /\ in_use' \subseteq Threads
    /\ \/ /\ e = Dispatcher /\ pc[e] = "oplock"
          /\ Goto(e, IF TypeOf(e) \in QueuedTypes THEN "enqueue" ELSE "operate")
       \/ /\ pc[e] = "operate"
          /\ \/ Goto(e, "respond")
             \/ Goto(e, "publish") /\ TypeOf(e) \in {"Bind", "Close"}
       \/ pc[e] = "publish" /\ Goto(e, "respond")
       \/ pc[e] = "respond" /\ Goto(e, "finish")

\* An item that is busy stays so, and its request is its own.
LEMMA OwnRequestFrame ==
    ASSUME OwnRequest, UNCHANGED <<req, region>>, Busy' \subseteq Busy
    PROVE  OwnRequest'
  BY DEF OwnRequest

\* A step that changes none of what the invariant speaks of.
LEMMA ItemFrame ==
    ASSUME ItemInv, UNCHANGED <<itemVars, live, in_use, pc>>
    PROVE  ItemInv'
<1>1. Busy' = Busy
  BY Zenon DEF Busy, itemVars, Queue
<1>2. OwnRequest'
  BY <1>1, OwnRequestFrame, Zenon DEF itemVars, ItemInv
<1>3. /\ UNCHANGED <<req, buf_in_use, region, assigned_thread, work_queue, buf>>
      /\ UNCHANGED <<live, in_use, pc>> /\ \A t : Queue(t)' = Queue(t)
  BY DEF itemVars, Queue
<1>5. ItemTypes' /\ Steps'
  BY <1>3, Zenon DEF ItemTypes, Steps, ItemInv
<1>6. Apart'
  BY <1>3, ZenonT(30) DEF Apart, ItemInv
<1>7. InUse'
  BY <1>3, Zenon DEF InUse, ItemInv
<1>4. WorkersOwn' = WorkersOwn /\ DispatchersOwn' = DispatchersOwn
  BY Zenon DEF WorkersOwn, DispatchersOwn, itemVars, Queue, WorkerOf, TypeOf,
     Kind, IdOf
<1> QED
  BY <1>2, <1>4, <1>5, <1>6, <1>7, Zenon DEF ItemInv

\* Going on with an item moves none.
LEMMA OnwardKeepsItems ==
    ASSUME ItemInv, NEW e \in Executors, Onward(e)
    PROVE  ItemInv'
<1>0. ItemTypes /\ Steps /\ Apart /\ InUse /\ OwnRequest /\ WorkersOwn
      /\ DispatchersOwn
  BY DEF ItemInv
<1>1. UNCHANGED <<req, buf_in_use, region, assigned_thread, work_queue, buf>>
  BY DEF Onward, itemVars
<1>2. pc[e] \in {"oplock", "operate", "publish", "respond"}
  BY DEF Onward
<1>3. PICK x \in {"enqueue", "operate", "publish", "respond", "finish"} :
        /\ pc' = [pc EXCEPT ![e] = x]
        /\ x \in {"enqueue", "operate"} => e = Dispatcher /\ pc[e] = "oplock"
                 /\ x = IF TypeOf(e) \in QueuedTypes THEN "enqueue" ELSE "operate"
        /\ x = "publish" => pc[e] = "operate" /\ TypeOf(e) \in {"Bind", "Close"}
        /\ x \in {"respond", "finish"} => pc[e] # "oplock"
  <2>1. CASE e = Dispatcher /\ pc[e] = "oplock"
             /\ Goto(e, IF TypeOf(e) \in QueuedTypes THEN "enqueue" ELSE "operate")
    BY <2>1 DEF Goto
  <2>2. CASE pc[e] = "operate" /\ Goto(e, "respond")
    BY <2>2 DEF Goto
  <2>3. CASE pc[e] = "operate" /\ Goto(e, "publish")
             /\ TypeOf(e) \in {"Bind", "Close"}
    BY <2>3 DEF Goto
  <2>4. CASE pc[e] = "publish" /\ Goto(e, "respond")
    BY <2>4 DEF Goto
  <2>5. CASE pc[e] = "respond" /\ Goto(e, "finish")
    BY <2>5 DEF Goto
  <2> QED
    BY <2>1, <2>2, <2>3, <2>4, <2>5, Zenon DEF Onward
<1>4. /\ pc'[e] = x /\ pc' \in [Executors -> AllSteps]
      /\ \A f \in Executors \ {e} : pc'[f] = pc[f]
  BY <1>0, <1>3 DEF ItemTypes, AllSteps
<1>5. \A t \in Threads : Queue(t)' = Queue(t)
  BY <1>1 DEF Queue
<1>6. \A b \in Buffers : Kind(b)' = Kind(b)
  BY <1>1 DEF Kind
<1>7. \A f \in Executors : /\ TypeOf(f)' = TypeOf(f) /\ WorkerOf(f)' = WorkerOf(f)
  BY <1>1 DEF TypeOf, WorkerOf, IdOf
<1>8. ItemTypes'
  BY <1>0, <1>1, <1>4 DEF ItemTypes, Onward
<1>9. e \in Threads => x \in {"respond", "finish"}
  <2> SUFFICES ASSUME e \in Threads PROVE x # "publish"
    BY <1>3, Names
  <2>1. TypeOf(e) \in QueuedTypes
    BY <1>0, <1>2 DEF WorkersOwn
  <2> QED
    BY <1>3, <2>1 DEF QueuedTypes
<1>10. Steps'
  BY <1>0, <1>1, <1>2, <1>4, <1>9, Names DEF Steps, Idle
<1>11. Apart'
  BY <1>0, <1>1, <1>5 DEF Apart
<1>12. InUse'
  <2>1. \A f \in Executors : pc'[f] = "error" <=> pc[f] = "error"
    BY <1>2, <1>4
  <2> QED
    BY <1>0, <1>1, <1>5, <2>1 DEF InUse
<1>13. OwnRequest'
  <2>1. \A f \in Executors :
          pc'[f] \notin Idle \cup {"read"} => pc[f] \notin Idle \cup {"read"}
    BY <1>2, <1>4 DEF Idle
  <2>2. Busy' \subseteq Busy
    BY <1>1, <1>5, <2>1, Zenon DEF Busy
  <2> QED
    BY <1>0, <1>1, <2>2, OwnRequestFrame
<1>14. WorkersOwn'
  <2>1. \A t \in Threads : pc'[t] # "wait" => pc[t] # "wait"
    BY <1>2, <1>4, Names
  <2> QED
    BY <1>0, <1>1, <1>5, <1>6, <1>7, <2>1, Names, QueueEntries DEF WorkersOwn
<1>15. DispatchersOwn'
  <2>0. in_use \subseteq in_use'
    BY DEF Onward
  <2>1. CASE e # Dispatcher
    <3>1. pc'[Dispatcher] = pc[Dispatcher]
      BY <1>4, <2>1, Names
    <3> QED
      BY <1>0, <1>1, <1>7, <2>0, <3>1, Names, Zenon DEF DispatchersOwn
  <2>2. CASE e = Dispatcher
    <3>1. CASE pc[e] = "oplock"
      <4>1. x = IF TypeOf(e) \in QueuedTypes THEN "enqueue" ELSE "operate"
        BY <1>3, <3>1
      <4> QED
        BY <1>0, <1>1, <1>4, <1>7, <2>0, <2>2, <3>1, <4>1, Names
           DEF DispatchersOwn
    <3>2. CASE pc[e] # "oplock"
      <4>1. pc[e] \in {"operate", "publish", "respond"}
            /\ x \in {"publish", "respond", "finish"}
        BY <1>2, <1>3, <3>2
      <4> QED
        BY <1>0, <1>1, <1>4, <1>7, <2>0, <2>2, <4>1, Names DEF DispatchersOwn
    <3> QED
      BY <3>1, <3>2
  <2> QED
    BY <2>1, <2>2
<1> QED
  BY <1>8, <1>10, <1>11, <1>12, <1>13, <1>14, <1>15 DEF ItemInv
-----------------------------------------------------------------------------
\* What every operation leaves alone, and where it goes.
LEMMA OperationMoves ==
    ASSUME ItemInv, NEW e \in Executors, Operation(e)
    PROVE  /\ pc[e] = "operate"
           /\ UNCHANGED <<req, answered, live, bufferVars, queueVars, storeVars,
                          buf, op_fd>>
           /\ \/ Goto(e, "respond")
              \/ Goto(e, "publish") /\ TypeOf(e) \in {"Bind", "Close"}
           /\ in_use \subseteq in_use' /\ in_use' \subseteq Threads
<1> DEFINE P == /\ pc[e] = "operate"
                /\ UNCHANGED <<req, answered, live, bufferVars, queueVars,
                               storeVars, buf, op_fd>>
                /\ \/ Goto(e, "respond")
                   \/ Goto(e, "publish") /\ TypeOf(e) \in {"Bind", "Close"}
           Q == in_use' = in_use
<1> USE DEF EndOperation, Operating
<1>0. in_use \subseteq Threads
  BY DEF ItemInv, ItemTypes
<1>1. CASE xe_net_create_socket(e)
  BY <1>0, <1>1, Zenon DEF xe_net_create_socket
<1>2. CASE xe_net_accept_socket(e)
  <2>1. P
    BY <1>2, Zenon DEF xe_net_accept_socket
  <2>2. ASSUME in_use # Threads PROVE Min(Threads \ in_use) \in Threads
    <3>1. Threads \subseteq Nat
      BY DEF Threads
    <3>2. Threads \ in_use # {}
      BY <1>0, <2>2, Zenon
    <3> QED
      BY <3>1, <3>2, MinIsElement
  <2>3. \/ in_use' = in_use
        \/ \E t \in get_worker_thread_for_fd(Invalid) : in_use' = in_use \cup {t}
    BY <1>2, Zenon DEF xe_net_accept_socket
  <2>4. \A t \in get_worker_thread_for_fd(Invalid) : t \in Threads
    BY <2>2 DEF get_worker_thread_for_fd
  <2>5. in_use \subseteq in_use' /\ in_use' \subseteq Threads
    BY <1>0, <2>3, <2>4
  <2> QED
    BY <2>1, <2>5
<1>3. CASE xe_net_bind_socket(e)
  <2>1. TypeOf(e) = "Bind"
    BY <1>3 DEF xe_net_bind_socket
  <2> QED
    BY <1>0, <1>3, <2>1, Zenon DEF xe_net_bind_socket, update_listening_ports
<1>4. CASE xe_net_close_socket(e)
  <2>1. TypeOf(e) = "Close"
    BY <1>4 DEF xe_net_close_socket
  <2> QED
    BY <1>0, <1>4, <2>1, Zenon DEF xe_net_close_socket, update_listening_ports
<1>5. CASE xe_net_recv_socket(e)
  BY <1>0, <1>5, Zenon DEF xe_net_recv_socket
<1>6. CASE xe_net_send_socket(e)
  BY <1>0, <1>6, Zenon DEF xe_net_send_socket
<1>7. ASSUME NEW types, PlainOperation(e, types) PROVE P /\ Q
  BY <1>7, Zenon DEF PlainOperation, socketVars
<1>8. CASE xe_net_connect_socket(e) \/ xe_net_listen_socket(e)
             \/ xe_net_shutdown_socket(e) \/ xe_net_sock_attrib(e)
             \/ xe_net_get_name(e)
  <2>1. P /\ Q
    BY <1>7, <1>8, Zenon DEF xe_net_connect_socket, xe_net_listen_socket,
       xe_net_shutdown_socket, xe_net_sock_attrib, xe_net_get_name
  <2> QED
    BY <1>0, <2>1
<1>9. CASE xe_net_addr_block(e)
  BY <1>0, <1>9, Zenon DEF xe_net_addr_block, socketVars
<1>10. CASE xe_pollset_query(e)
  BY <1>0, <1>10, Zenon DEF xe_pollset_query, socketVars
<1> QED
  BY <1>1, <1>2, <1>3, <1>4, <1>5, <1>6, <1>8, <1>9, <1>10, Zenon DEF Operation

\* The steps that go on with an item.
LEMMA ProcessGoesOn ==
    ASSUME ItemInv, NEW e \in Executors,
           \/ Operation(e)
           \/ PublishPorts(e)
           \/ WriteResponse(e)
           \/ AcquireOplock /\ e = Dispatcher
    PROVE  Onward(e)
<1>0. in_use \subseteq Threads /\ live \in [Threads -> Ids \cup {None}]
  BY DEF ItemInv, ItemTypes
<1>1. CASE Operation(e)
  BY <1>0, <1>1, OperationMoves, Zenon
     DEF Onward, itemVars, bufferVars, queueVars
<1>2. CASE PublishPorts(e)
  BY <1>0, <1>2, Zenon DEF PublishPorts, Onward, itemVars, pvmVars, bufferVars,
     queueVars, socketVars
<1>3. CASE WriteResponse(e)
  <2>1. /\ UNCHANGED itemVars /\ UNCHANGED in_use
        /\ pc[e] = "respond" /\ Goto(e, "finish")
    BY <1>3, Zenon DEF WriteResponse, itemVars, bufferVars, queueVars, socketVars
  <2>2. IdOf(e) \in Ids
    BY <2>1, HeldIds DEF Idle
  <2>3. live' \in [Threads -> Ids \cup {None}]
    <3>1. CASE headless[e]
      BY <1>0, <1>3, <3>1 DEF WriteResponse
    <3>2. CASE ~headless[e]
      <4>1. live' = [t \in Threads |->
                      IF IdOf(e) \in open /\ local_fd[t] = IdOf(e)
                        THEN IdOf(e) ELSE live[t]]
        BY <1>3, <3>2 DEF WriteResponse
      <4> QED
        BY <1>0, <2>2, <4>1
    <3> QED
      BY <3>1, <3>2
  <2> QED
    BY <1>0, <2>1, <2>3 DEF Onward
<1>4. CASE AcquireOplock /\ e = Dispatcher
  BY <1>0, <1>4, Zenon DEF AcquireOplock, Onward, itemVars, bufferVars,
     queueVars, socketVars, pvmVars
<1> QED
  BY <1>1, <1>2, <1>3, <1>4

\* A free buffer is nowhere, so the dispatcher can have it.
LEMMA ReserveKeepsItems ==
    ASSUME ItemInv, reserve_available_buffer_item
    PROVE  ItemInv'
<1>0. ItemTypes /\ Steps /\ Apart /\ InUse /\ OwnRequest /\ WorkersOwn
      /\ DispatchersOwn
  BY DEF ItemInv
<1>1. CASE Buffers \ buf_in_use = {}
  <2>1. UNCHANGED <<itemVars, live, in_use, pc>>
    BY <1>1, Zenon DEF reserve_available_buffer_item, itemVars, pvmVars,
       socketVars, queueVars
  <2> QED
    BY <2>1, ItemFrame
<1>2. CASE Buffers \ buf_in_use # {}
  <2> DEFINE b == Min(Buffers \ buf_in_use)
  <2>1. b \in Buffers /\ b \notin buf_in_use
    <3>1. Buffers \ buf_in_use \subseteq Nat
      BY DEF Buffers
    <3> QED
      BY <1>2, <3>1, MinIsElement
  <2>2. /\ pc[Dispatcher] = "reserve" /\ pc' = [pc EXCEPT ![Dispatcher] = "read"]
        /\ buf_in_use' = buf_in_use \cup {b}
        /\ buf' = [buf EXCEPT ![Dispatcher] = b]
        /\ UNCHANGED <<req, region, assigned_thread, work_queue, live, in_use>>
    BY <1>2, Zenon DEF reserve_available_buffer_item, Goto, pvmVars, socketVars,
       queueVars
  <2> HIDE DEF b
  <2>3. /\ pc'[Dispatcher] = "read" /\ buf'[Dispatcher] = b
        /\ \A f \in Executors \ {Dispatcher} : pc'[f] = pc[f] /\ buf'[f] = buf[f]
        /\ \A f \in Threads : pc'[f] = pc[f] /\ buf'[f] = buf[f]
    BY <1>0, <2>2, Names DEF ItemTypes
  <2>4. \A t : Queue(t)' = Queue(t)
    BY <2>2 DEF Queue
  <2>5. /\ \A f \in Executors : buf[f] # b
        /\ \A t \in Threads : \A n \in Queue(t) : work_queue[t][n] # b
    BY <1>0, <2>1, <2>2, Names DEF InUse, Steps, Idle
  <2>6. ItemTypes'
    BY <1>0, <2>1, <2>2 DEF ItemTypes, AllSteps
  <2>7. Steps'
    BY <1>0, <2>1, <2>3, Names DEF Steps, Idle
  <2>8. Apart'
    BY <1>0, <2>2, <2>3, <2>4, <2>5 DEF Apart
  <2>9. InUse'
    <3>1. buf[Dispatcher] = None /\ pc[Dispatcher] # "error"
      BY <1>0, <2>2, Names DEF Steps, Idle
    <3>2. \A f \in Executors : buf'[f] \in buf_in_use' \cup {None}
      BY <1>0, <2>2, <2>3 DEF InUse
    <3>3. \A c \in buf_in_use' :
            \/ \E f \in Executors : buf'[f] = c
            \/ \E t \in Threads : \E n \in Queue(t) : work_queue[t][n] = c
      <4> SUFFICES ASSUME NEW c \in buf_in_use'
                   PROVE  \/ \E f \in Executors : buf'[f] = c
                          \/ \E t \in Threads : \E n \in Queue(t) :
                               work_queue[t][n] = c
        OBVIOUS
      <4>1. CASE c = b
        BY <2>3, <4>1, Names
      <4>2. CASE c # b
        <5>1. c \in buf_in_use /\ c # None
          BY <1>0, <2>2, <4>2, Names DEF ItemTypes
        <5> QED
          BY <1>0, <2>3, <3>1, <5>1 DEF InUse
      <4> QED
        BY <4>1, <4>2
    <3> QED
      BY <1>0, <2>2, <2>4, <3>2, <3>3 DEF InUse
  <2>10. OwnRequest'
    <3>1. Busy' \subseteq Busy
      BY <2>2, <2>3, <2>4 DEF Busy
    <3> QED
      BY <1>0, <2>2, <3>1, OwnRequestFrame
  <2>11. /\ \A t \in Threads : /\ WorkerOf(t)' = WorkerOf(t)
                               /\ TypeOf(t)' = TypeOf(t)
         /\ WorkerOf(Dispatcher)' = None /\ \A c : Kind(c)' = Kind(c)
    BY <1>0, <2>1, <2>2, <2>3 DEF DispatchersOwn, WorkerOf, TypeOf, IdOf, Kind
  <2>12. WorkersOwn'
    BY <1>0, <2>2, <2>3, <2>4, <2>11 DEF WorkersOwn
  <2>13. DispatchersOwn'
    BY <1>0, <2>2, <2>3, <2>11 DEF DispatchersOwn
  <2> QED
    BY <2>6, <2>7, <2>8, <2>9, <2>10, <2>12, <2>13 DEF ItemInv
<1> QED
  BY <1>1, <1>2

\* The request that is read is a new one.
LEMMA ReadKeepsItems ==
    ASSUME ItemInv, NEW r \in Requests, ReadRequest(r)
    PROVE  ItemInv'
<1>0. ItemTypes /\ Steps /\ Apart /\ InUse /\ OwnRequest /\ WorkersOwn
      /\ DispatchersOwn
  BY DEF ItemInv
<1> DEFINE b   == buf[Dispatcher]
           rec == [type |-> r.type, fd |-> r.fd,
                   sock |-> IF r.fd = Invalid THEN None ELSE live[r.fd],
                   overtakes |-> IF r.type = "Close" THEN Unanswered(r.fd)
                                 ELSE {}]
<1>1. /\ pc[Dispatcher] = "read" /\ pc' = [pc EXCEPT ![Dispatcher] = "assign"]
      /\ Len(req) < MaxRequests /\ req' = Append(req, rec)
      /\ region' = [region EXCEPT ![b] = Len(req) + 1]
      /\ live' = [t \in Threads |->
                    IF r.type = "Close" /\ t = r.fd THEN None ELSE live[t]]
      /\ UNCHANGED <<buf_in_use, assigned_thread, work_queue, buf, in_use>>
  BY DEF ReadRequest, Goto, queueVars, socketVars
<1>2. b \in Buffers
  BY <1>0, <1>1, Names DEF ItemTypes, Steps, Idle
<1>3. r.type \in Types /\ r.fd \in Threads \cup {Invalid}
  BY DEF Requests
<1>4. rec \in RequestRecords
  <2>1. (IF r.fd = Invalid THEN None ELSE live[r.fd]) \in Ids \cup {None}
    BY <1>0, <1>3, Zenon DEF ItemTypes
  <2>2. (IF r.type = "Close" THEN Unanswered(r.fd) ELSE {}) \in SUBSET Ids
    <3>1. DOMAIN req \subseteq Ids
      BY <1>0, LenProperties, DispatchAssumption DEF ItemTypes, Ids
    <3> QED
      BY <3>1 DEF Unanswered
  <2> QED
    BY <1>3, <2>1, <2>2 DEF RequestRecords
<1>5. req \in Seq(RequestRecords) /\ Len(req) \in Nat
  BY <1>0, LenProperties DEF ItemTypes
<1> HIDE DEF b, rec
<1>6. /\ req' \in Seq(RequestRecords) /\ Len(req') = Len(req) + 1
      /\ \A i \in 1..Len(req) : req'[i] = req[i]
  BY <1>1, <1>4, <1>5, AppendProperties
<1>7. /\ pc'[Dispatcher] = "assign"
      /\ \A f \in Executors \ {Dispatcher} : pc'[f] = pc[f]
      /\ \A f \in Threads : pc'[f] = pc[f]
  BY <1>0, <1>1, Names DEF ItemTypes
<1>8. \A t : Queue(t)' = Queue(t)
  BY <1>1 DEF Queue
<1>9. ItemTypes'
  <2>1. Len(req) + 1 \in Ids
    BY <1>1, <1>5, DispatchAssumption DEF Ids
  <2>2. region' \in [Buffers -> Ids \cup {None}]
    BY <1>0, <1>1, <2>1 DEF ItemTypes
  <2>3. live' \in [Threads -> Ids \cup {None}]
    BY <1>0, <1>1 DEF ItemTypes
  <2>4. pc' \in [Executors -> AllSteps]
    BY <1>0, <1>1 DEF ItemTypes, AllSteps
  <2>5. Len(req') <= MaxRequests
    BY <1>1, <1>5, <1>6, DispatchAssumption
  <2> QED
    BY <1>0, <1>1, <1>6, <2>2, <2>3, <2>4, <2>5 DEF ItemTypes
<1>10. Steps'
  BY <1>0, <1>1, <1>7, Names DEF Steps, Idle
<1>11. Apart'
  BY <1>0, <1>1, <1>8 DEF Apart
<1>12. InUse'
  <2>1. pc[Dispatcher] # "error"
    BY <1>1
  <2> QED
    BY <1>0, <1>1, <1>8, <2>1 DEF InUse
<1>13. b \notin Busy
  <2>1. \A f \in Executors : pc[f] \notin Idle \cup {"read"} => buf[f] # b
    BY <1>0, <1>1, <1>2, Names DEF Apart, b
  <2> QED
    BY <1>0, <2>1, Names DEF Busy, Apart, b
<1>14. Busy' \subseteq Busy \cup {b}
  BY <1>1, <1>7, <1>8 DEF Busy, b
<1>15. \A c \in Busy : /\ region'[c] = region[c] /\ region[c] \in 1..Len(req)
                       /\ Kind(c)' = Kind(c) /\ c \in Buffers
  <2> SUFFICES ASSUME NEW c \in Busy
               PROVE  /\ region'[c] = region[c] /\ region[c] \in 1..Len(req)
                      /\ Kind(c)' = Kind(c) /\ c \in Buffers
    OBVIOUS
  <2>1. c \in Buffers /\ c # b
    BY <1>13 DEF Busy
  <2>2. region'[c] = region[c] /\ region[c] \in 1..Len(req)
    BY <1>0, <1>1, <2>1 DEF ItemTypes, OwnRequest
  <2> QED
    BY <1>6, <2>1, <2>2 DEF Kind
<1>16. OwnRequest'
  <2>1. region'[b] = Len(req) + 1
    BY <1>0, <1>1, <1>2 DEF ItemTypes
  <2>2. \A c \in Busy \cup {b} : region'[c] \in 1..Len(req')
    BY <1>5, <1>6, <1>15, <2>1
  <2>3. \A c, d \in Busy \cup {b} : region'[c] = region'[d] => c = d
    <3> SUFFICES ASSUME NEW c \in Busy \cup {b}, NEW d \in Busy \cup {b},
                        region'[c] = region'[d]
                 PROVE  c = d
      OBVIOUS
    <3>1. CASE c \in Busy /\ d \in Busy
      BY <1>0, <1>15, <3>1 DEF OwnRequest
    <3>2. CASE ~(c \in Busy /\ d \in Busy)
      BY <1>5, <1>15, <2>1, <3>2
    <3> QED
      BY <3>1, <3>2
  <2> QED
    BY <1>14, <2>2, <2>3 DEF OwnRequest
<1>17. WorkersOwn'
  <2>1. \A t \in Threads : \A n \in Queue(t) :
          Kind(work_queue[t][n])' = Kind(work_queue[t][n])
    BY <1>1, <1>15, QueuedIds DEF Kind
  <2>2. \A t \in Threads : pc[t] # "wait" =>
          TypeOf(t)' = TypeOf(t) /\ WorkerOf(t)' = WorkerOf(t)
    <3> SUFFICES ASSUME NEW t \in Threads, pc[t] # "wait"
                 PROVE  TypeOf(t)' = TypeOf(t) /\ WorkerOf(t)' = WorkerOf(t)
      OBVIOUS
    <3>1. buf[t] \in Busy
      BY <1>0, HeldIds, Names DEF Steps, Idle
    <3> QED
      BY <1>1, <1>15, <3>1 DEF TypeOf, WorkerOf, IdOf, Kind
  <2> QED
    BY <1>0, <1>1, <1>7, <1>8, <2>1, <2>2 DEF WorkersOwn
<1>18. DispatchersOwn'
  BY <1>0, <1>1, <1>7 DEF DispatchersOwn, WorkerOf
<1> QED
  BY <1>9, <1>10, <1>11, <1>12, <1>16, <1>17, <1>18 DEF ItemInv

\* What assign_work_to_thread can find.
LEMMA FoundThreads ==
    ASSUME in_use \subseteq Threads, NEW fd
    PROVE  /\ get_worker_thread_for_fd(fd) \subseteq Threads
           /\ fd = Invalid => get_worker_thread_for_fd(fd) \cap in_use = {}
           /\ fd # Invalid => get_worker_thread_for_fd(fd) \subseteq in_use \cap {fd}
<1>1. ASSUME in_use # Threads PROVE Min(Threads \ in_use) \in Threads \ in_use
  <2>1. Threads \subseteq Nat
    BY DEF Threads
  <2>2. Threads \ in_use # {}
    BY <1>1, Zenon
  <2> QED
    BY <2>1, <2>2, MinIsElement
<1> QED
  BY <1>1 DEF get_worker_thread_for_fd

\* The dispatcher's own buffer gets its thread, and no other.
LEMMA AssignKeepsItems ==
    ASSUME ItemInv, assign_work_to_thread
    PROVE  ItemInv'
<1>0. ItemTypes /\ Steps /\ Apart /\ InUse /\ OwnRequest /\ WorkersOwn
      /\ DispatchersOwn
  BY DEF ItemInv
<1> DEFINE b    == buf[Dispatcher]
           type == TypeOf(Dispatcher)
           next == IF type \in OplockTypes THEN "oplock"
                   ELSE IF type \in QueuedTypes THEN "enqueue" ELSE "operate"
<1>1. /\ pc[Dispatcher] = "assign"
      /\ UNCHANGED <<req, live, buf_in_use, region, work_queue, buf>>
  BY DEF assign_work_to_thread, pvmVars, queueVars
<1>2. b \in Buffers /\ b \in buf_in_use
  BY <1>0, <1>1, Names DEF ItemTypes, Steps, Idle, InUse
<1>3. PICK x \in {"operate", "error", "oplock", "enqueue"} :
        /\ pc' = [pc EXCEPT ![Dispatcher] = x]
        /\ \/ /\ UNCHANGED <<assigned_thread, in_use>>
              /\ x = "error" \/ (x = "operate" /\ type = "PollsetQuery")
           \/ \E t \in Threads :
                /\ assigned_thread' = [assigned_thread EXCEPT ![b] = t]
                /\ in_use' = in_use \cup {t} /\ x = next
  <2>0. get_worker_thread_for_fd(req[IdOf(Dispatcher)].fd) \subseteq Threads
    BY <1>0, FoundThreads DEF ItemTypes
  <2>1. \/ /\ UNCHANGED <<assigned_thread, in_use>>
           /\ type = "PollsetQuery" /\ Goto(Dispatcher, "operate")
        \/ UNCHANGED <<assigned_thread, in_use>> /\ Goto(Dispatcher, "error")
        \/ /\ Goto(Dispatcher, next)
           /\ \E t \in Threads :
                /\ assigned_thread' = [assigned_thread EXCEPT ![b] = t]
                /\ in_use' = in_use \cup {t}
    BY <2>0, Zenon DEF assign_work_to_thread
  <2>2. next \in {"operate", "oplock", "enqueue"}
    OBVIOUS
  <2> HIDE DEF next
  <2> QED
    BY <2>1, <2>2 DEF Goto
<1>4. /\ pc'[Dispatcher] = x
      /\ \A f \in Executors \ {Dispatcher} : pc'[f] = pc[f]
      /\ \A f \in Threads : pc'[f] = pc[f]
  BY <1>0, <1>3, Names DEF ItemTypes
<1>5. /\ assigned_thread' \in [Buffers -> Threads \cup {None}]
      /\ \A c \in Buffers \ {b} : assigned_thread'[c] = assigned_thread[c]
      /\ in_use \subseteq in_use' /\ in_use' \subseteq Threads
  BY <1>0, <1>2, <1>3 DEF ItemTypes
<1>6. \A t : Queue(t)' = Queue(t)
  BY <1>1 DEF Queue
<1>7. /\ \A c : Kind(c)' = Kind(c)
      /\ \A f \in Executors : TypeOf(f)' = TypeOf(f)
  BY <1>1 DEF Kind, TypeOf, IdOf
<1>8. ItemTypes'
  BY <1>0, <1>1, <1>3, <1>5 DEF ItemTypes, AllSteps
<1>9. Steps'
  BY <1>0, <1>1, <1>4, Names DEF Steps, Idle
<1>10. Apart'
  BY <1>0, <1>1, <1>6 DEF Apart
<1>11. InUse'
  BY <1>0, <1>1, <1>2, <1>4, <1>6 DEF InUse
<1>12. OwnRequest'
  <2>1. Busy' \subseteq Busy
    BY <1>1, <1>4, <1>6 DEF Busy, Idle
  <2> QED
    BY <1>0, <1>1, <2>1, OwnRequestFrame
<1>13. WorkersOwn'
  <2>1. \A t \in Threads : \A n \in Queue(t) :
          work_queue[t][n] \in Buffers \ {b}
    BY <1>0, QueueEntries, Names DEF Apart
  <2>2. \A t \in Threads : pc[t] # "wait" => buf[t] \in Buffers \ {b}
    BY <1>0, Names DEF Apart, ItemTypes, Steps, Idle
  <2>3. \A t \in Threads : pc[t] # "wait" => WorkerOf(t)' = WorkerOf(t)
    BY <1>1, <1>5, <2>2 DEF WorkerOf
  <2>4. \A t \in Threads : \A n \in Queue(t) :
          /\ assigned_thread'[work_queue[t][n]] = t
          /\ Kind(work_queue[t][n])' \in QueuedTypes
    BY <1>0, <1>1, <1>5, <2>1 DEF WorkersOwn, Kind
  <2> QED
    BY <1>0, <1>1, <1>4, <1>6, <1>7, <2>3, <2>4, Names DEF WorkersOwn
<1>14. DispatchersOwn'
  <2>1. \A c \in Buffers \ buf_in_use' : assigned_thread'[c] = None
    BY <1>0, <1>1, <1>2, <1>5 DEF DispatchersOwn
  <2>2. CASE /\ UNCHANGED <<assigned_thread, in_use>>
             /\ x = "error" \/ (x = "operate" /\ type = "PollsetQuery")
    <3>1. WorkerOf(Dispatcher)' = None
      BY <1>0, <1>1, <2>2 DEF DispatchersOwn, WorkerOf
    <3>2. x = "error" \/ (x = "operate" /\ TypeOf(Dispatcher)' = "PollsetQuery")
      BY <1>7, <2>2, Names
    <3> QED
      BY <1>4, <2>1, <3>1, <3>2 DEF DispatchersOwn, QueuedTypes
  <2>3. ASSUME NEW t \in Threads,
               assigned_thread' = [assigned_thread EXCEPT ![b] = t],
               in_use' = in_use \cup {t}, x = next
        PROVE  DispatchersOwn'
    <3>1. WorkerOf(Dispatcher)' \in in_use'
      BY <1>0, <1>1, <1>2, <2>3 DEF WorkerOf, ItemTypes
    <3>2. TypeOf(Dispatcher)' = type
      BY <1>7, Names
    <3> QED
      BY <1>4, <2>1, <2>3, <3>1, <3>2 DEF DispatchersOwn
  <2> QED
    BY <1>3, <2>2, <2>3
<1> QED
  BY <1>8, <1>9, <1>10, <1>11, <1>12, <1>13, <1>14 DEF ItemInv

\* The buffer passes from the dispatcher to the end of a queue.
LEMMA EnqueueKeepsItems ==
    ASSUME ItemInv, Enqueue
    PROVE  ItemInv'
<1>0. ItemTypes /\ Steps /\ Apart /\ InUse /\ OwnRequest /\ WorkersOwn
      /\ DispatchersOwn
  BY DEF ItemInv
<1>1. PICK b \in Buffers : b = buf[Dispatcher]
  BY <1>0, Names DEF Enqueue, ItemTypes, Steps, Idle
<1>2. PICK w \in Threads : w = WorkerOf(Dispatcher)
  BY <1>0 DEF Enqueue, ItemTypes, DispatchersOwn
<1>3. PICK k \in Nat : k = Len(work_queue[w])
  BY <1>0, LenProperties DEF ItemTypes
<1>4. /\ pc[Dispatcher] = "enqueue"
      /\ pc' = [pc EXCEPT ![Dispatcher] = "reserve"]
      /\ work_queue' = [work_queue EXCEPT ![w] = Append(@, b)]
      /\ buf' = [buf EXCEPT ![Dispatcher] = None]
      /\ UNCHANGED <<req, live, buf_in_use, region, assigned_thread, in_use>>
  BY <1>1, <1>2 DEF Enqueue, Goto, pvmVars, bufferVars, socketVars
<1>5. /\ b \in Buffers /\ b \in buf_in_use /\ w \in Threads
      /\ TypeOf(Dispatcher) \in QueuedTypes
  BY <1>0, <1>4, <1>1, Names DEF InUse, DispatchersOwn
<1>6. b \in Busy /\ assigned_thread[b] = w /\ Kind(b) \in QueuedTypes
  BY <1>4, <1>5, <1>1, <1>2, HeldIds, Names DEF Idle, WorkerOf, Kind, TypeOf, IdOf
<1>7. /\ \A f \in Executors : buf[f] = b => f = Dispatcher
      /\ \A t \in Threads : \A n \in Queue(t) : work_queue[t][n] # b
  BY <1>0, <1>1, Names DEF Apart
<1>8. /\ work_queue' \in [Threads -> Seq(Buffers)] /\ k \in Nat
      /\ Queue(w)' = 1..(k + 1) /\ Queue(w) = 1..k
      /\ \A n \in 1..k : work_queue'[w][n] = work_queue[w][n]
      /\ work_queue'[w][k + 1] = b
      /\ \A t \in Threads \ {w} : Queue(t)' = Queue(t) /\ work_queue'[t] = work_queue[t]
  <2>1. work_queue[w] \in Seq(Buffers)
    BY <1>0, <1>5 DEF ItemTypes
  <2>2. work_queue'[w] = Append(work_queue[w], b)
    BY <1>0, <1>4, <1>5 DEF ItemTypes
  <2>3. /\ work_queue'[w] \in Seq(Buffers) /\ Len(work_queue'[w]) = k + 1 /\ k \in Nat
        /\ \A n \in 1..k : work_queue'[w][n] = work_queue[w][n]
        /\ work_queue'[w][k + 1] = b
    BY <1>3, <2>1, <2>2, QueueAppend
  <2>4. \A t \in Threads \ {w} : work_queue'[t] = work_queue[t]
    BY <1>0, <1>4 DEF ItemTypes
  <2>5. work_queue' \in [Threads -> Seq(Buffers)]
    BY <1>0, <1>4, <2>2, <2>3 DEF ItemTypes
  <2> QED
    BY <1>3, <2>3, <2>4, <2>5 DEF Queue
<1>9. \A t \in Threads : \A n \in Queue(t)' :
        \/ n \in Queue(t) /\ work_queue'[t][n] = work_queue[t][n]
        \/ t = w /\ n = k + 1 /\ work_queue'[t][n] = b
  <2> SUFFICES ASSUME NEW t \in Threads, NEW n \in Queue(t)'
               PROVE  \/ n \in Queue(t) /\ work_queue'[t][n] = work_queue[t][n]
                      \/ t = w /\ n = k + 1 /\ work_queue'[t][n] = b
    OBVIOUS
  <2>1. CASE t = w
    BY <1>8, <2>1
  <2>2. CASE t # w
    BY <1>8, <2>2
  <2> QED
    BY <2>1, <2>2
<1>10. \A t \in Threads : \A n \in Queue(t) :
        n \in Queue(t)' /\ work_queue'[t][n] = work_queue[t][n]
  <2> SUFFICES ASSUME NEW t \in Threads, NEW n \in Queue(t)
               PROVE  n \in Queue(t)' /\ work_queue'[t][n] = work_queue[t][n]
    OBVIOUS
  <2>1. CASE t = w
    BY <1>8, <2>1
  <2>2. CASE t # w
    BY <1>8, <2>2
  <2> QED
    BY <2>1, <2>2
<1>11. k + 1 \in Queue(w)' /\ work_queue'[w][k + 1] = b
  BY <1>8
<1>12. /\ pc'[Dispatcher] = "reserve" /\ buf'[Dispatcher] = None
       /\ \A f \in Executors \ {Dispatcher} : pc'[f] = pc[f] /\ buf'[f] = buf[f]
       /\ \A f \in Threads : pc'[f] = pc[f] /\ buf'[f] = buf[f]
  BY <1>0, <1>4, Names DEF ItemTypes
<1>13. ItemTypes'
  BY <1>0, <1>4, <1>8 DEF ItemTypes, AllSteps
<1>14. Steps'
  BY <1>0, <1>12, Names DEF Steps, Idle
<1>15. Apart'
  <2>1. \A e, f \in Executors : buf'[e] = buf'[f] => e = f \/ buf'[e] = None
    BY <1>0, <1>12 DEF Apart
  <2>2. \A e \in Executors, t \in Threads : \A n \in Queue(t)' :
          work_queue'[t][n] # buf'[e]
    <3> SUFFICES ASSUME NEW e \in Executors, NEW t \in Threads, NEW n \in Queue(t)'
                 PROVE  work_queue'[t][n] # buf'[e]
      OBVIOUS
    <3>1. work_queue'[t][n] \in Buffers
      BY <1>5, <1>9, <1>0, QueueEntries
    <3>2. CASE e = Dispatcher
      BY <1>12, <3>1, <3>2, Names
    <3>3. CASE e # Dispatcher
      BY <1>0, <1>7, <1>9, <1>12, <3>3 DEF Apart
    <3> QED
      BY <3>2, <3>3
  <2>3. \A t, u \in Threads : \A n \in Queue(t)', m \in Queue(u)' :
          work_queue'[t][n] = work_queue'[u][m] => t = u /\ n = m
    BY <1>0, <1>7, <1>9 DEF Apart
  <2> QED
    BY <2>1, <2>2, <2>3 DEF Apart
<1>16. InUse'
  <2>1. \A f \in Executors : buf'[f] \in buf_in_use' \cup {None}
    BY <1>0, <1>4, <1>12 DEF InUse
  <2>2. \A t \in Threads : \A n \in Queue(t)' : work_queue'[t][n] \in buf_in_use'
    <3>1. buf_in_use' = buf_in_use
      BY <1>4
    <3>2. \A t \in Threads : \A n \in Queue(t) : work_queue[t][n] \in buf_in_use
      BY <1>0 DEF InUse
    <3> QED
      BY <1>5, <1>9, <3>1, <3>2
  <2>3. ASSUME NEW c \in buf_in_use'
        PROVE  \/ \E f \in Executors : buf'[f] = c
               \/ \E t \in Threads : \E n \in Queue(t)' : work_queue'[t][n] = c
    <3>1. CASE c = b
      BY <1>5, <1>11, <3>1
    <3>2. CASE c # b
      <4>1. CASE \E f \in Executors : buf[f] = c
        BY <1>12, <3>2, <4>1, <1>1
      <4>2. CASE \E t \in Threads : \E n \in Queue(t) : work_queue[t][n] = c
        BY <1>10, <4>2
      <4> QED
        BY <1>0, <1>4, <4>1, <4>2 DEF InUse
    <3> QED
      BY <3>1, <3>2
  <2> QED
    BY <2>1, <2>2, <2>3 DEF InUse
<1>17. OwnRequest'
  <2>1. Busy' \subseteq Busy
    <3> SUFFICES ASSUME NEW c \in Busy' PROVE c \in Busy
      OBVIOUS
    <3>1. c \in Buffers
      BY DEF Busy
    <3>2. CASE \E e \in Executors : pc'[e] \notin Idle \cup {"read"} /\ buf'[e] = c
      <4>1. PICK e \in Executors : pc'[e] \notin Idle \cup {"read"} /\ buf'[e] = c
        BY <3>2
      <4>2. e # Dispatcher
        BY <1>12, <4>1 DEF Idle
      <4> QED
        BY <1>12, <3>1, <4>1, <4>2 DEF Busy
    <3>3. CASE \E t \in Threads : \E n \in Queue(t)' : work_queue'[t][n] = c
      <4>0. PICK t \in Threads : \E n \in Queue(t)' : work_queue'[t][n] = c
        BY <3>3
      <4>1. PICK n \in Queue(t)' : work_queue'[t][n] = c
        BY <4>0
      <4>2. c = b \/ (n \in Queue(t) /\ work_queue[t][n] = c)
        BY <1>9, <4>1
      <4> QED
        BY <1>6, <3>1, <4>2 DEF Busy
    <3> QED
      BY <3>2, <3>3 DEF Busy
  <2> QED
    BY <1>0, <1>4, <2>1, OwnRequestFrame
<1>18. WorkersOwn'
  <2>1. \A c : Kind(c)' = Kind(c)
    BY <1>4 DEF Kind
  <2>2. \A t \in Threads : WorkerOf(t)' = WorkerOf(t) /\ TypeOf(t)' = TypeOf(t)
    <3>1. UNCHANGED <<req, region, assigned_thread>>
      BY <1>4
    <3> QED
      BY <1>12, <3>1, Zenon DEF WorkerOf, TypeOf, IdOf
  <2>3. \A t \in Threads : \A n \in Queue(t)' :
          /\ assigned_thread[work_queue'[t][n]] = t
          /\ Kind(work_queue'[t][n]) \in QueuedTypes
    <3> SUFFICES ASSUME NEW t \in Threads, NEW n \in Queue(t)'
                 PROVE  /\ assigned_thread[work_queue'[t][n]] = t
                        /\ Kind(work_queue'[t][n]) \in QueuedTypes
      OBVIOUS
    <3>1. CASE n \in Queue(t) /\ work_queue'[t][n] = work_queue[t][n]
      BY <1>0, <3>1 DEF WorkersOwn
    <3>2. CASE t = w /\ work_queue'[t][n] = b
      BY <1>6, <3>2
    <3> QED
      BY <1>9, <3>1, <3>2
  <2>4. \A t \in Threads : \A n \in Queue(t)' :
          Kind(work_queue[t][n])' = Kind(work_queue'[t][n])
    BY <1>4 DEF Kind
  <2> QED
    <3>1. assigned_thread' = assigned_thread
      BY <1>4
    <3> QED
      BY <1>0, <1>12, <2>2, <2>3, <2>4, <3>1, Zenon DEF WorkersOwn
<1>19. DispatchersOwn'
  BY <1>0, <1>4, <1>12 DEF DispatchersOwn
<1> QED
  BY <1>13, <1>14, <1>15, <1>16, <1>17, <1>18, <1>19 DEF ItemInv

\* The first item of the queue passes to its worker.
LEMMA BeginKeepsItems ==
    ASSUME ItemInv, NEW w \in Threads, BeginWork(w)
    PROVE  ItemInv'
<1>0. ItemTypes /\ Steps /\ Apart /\ InUse /\ OwnRequest /\ WorkersOwn
      /\ DispatchersOwn
  BY DEF ItemInv
<1>1. CASE work_queue[w] = <<>>
  <2>1. UNCHANGED <<itemVars, live, in_use, pc>>
    BY <1>1, Zenon DEF BeginWork, itemVars, pvmVars, bufferVars, socketVars
  <2> QED
    BY <2>1, ItemFrame
<1>2. CASE work_queue[w] # <<>>
  <2> DEFINE q == work_queue[w]
             b == q[1]
  <2>1. q \in Seq(Buffers) /\ q # <<>>
    BY <1>0, <1>2 DEF ItemTypes
  <2>2. /\ pc[w] = "wait" /\ pc' = [pc EXCEPT ![w] = "operate"]
        /\ work_queue' = [work_queue EXCEPT ![w] = Tail(q)]
        /\ buf' = [buf EXCEPT ![w] = b]
        /\ UNCHANGED <<req, live, buf_in_use, region, assigned_thread, in_use>>
    <3>1. Head(q) = q[1]
      BY <2>1, QueueTail
    <3> QED
      BY <1>2, <3>1 DEF BeginWork, Goto, pvmVars, bufferVars, socketVars
  <2>3. /\ Tail(q) \in Seq(Buffers) /\ Len(Tail(q)) = Len(q) - 1
        /\ Len(q) \in Nat /\ Len(q) >= 1 /\ b \in Buffers
        /\ \A n \in 1..(Len(q) - 1) : Tail(q)[n] = q[n + 1]
    BY <2>1, QueueTail
  <2>4. work_queue'[w] = Tail(q)
    BY <1>0, <2>2 DEF ItemTypes
  <2>5. \A t \in Threads \ {w} : work_queue'[t] = work_queue[t]
    BY <1>0, <2>2 DEF ItemTypes
  <2>6. \A t \in Threads \ {w} : \A n : n \in Queue(t)' <=> n \in Queue(t)
    BY <2>5 DEF Queue
  <2>7. Queue(w) = 1..Len(q) /\ Queue(w)' = 1..(Len(q) - 1) /\ 1 \in Queue(w)
    BY <2>3, <2>4 DEF Queue
  <2>8. \A n \in Queue(w)' : /\ n + 1 \in Queue(w) /\ n + 1 # 1
                             /\ work_queue'[w][n] = work_queue[w][n + 1]
    BY <2>3, <2>4, <2>7
  <2>9. \A m \in Queue(w) : m # 1 => /\ m - 1 \in Queue(w)'
                                     /\ work_queue'[w][m - 1] = work_queue[w][m]
    BY <2>3, <2>4, <2>7
  <2> HIDE DEF q
  <2>10. /\ pc'[w] = "operate" /\ buf'[w] = b
         /\ \A f \in Executors \ {w} : pc'[f] = pc[f] /\ buf'[f] = buf[f]
    BY <1>0, <2>2, Names DEF ItemTypes
  <2>11. b = work_queue[w][1] /\ b \in buf_in_use /\ b \in Busy
    BY <1>0, <2>3, <2>7 DEF q, InUse, Busy
  <2>12. /\ assigned_thread[b] = w /\ Kind(b) \in QueuedTypes
         /\ \A f \in Executors : buf[f] # b
    BY <1>0, <2>7, <2>11 DEF WorkersOwn, Apart
  <2> HIDE DEF b
  \* Every item of the new queues was at some place of the same old queue.
  <2>13. \A t \in Threads : \A n \in Queue(t)' : \E m \in Queue(t) :
           /\ work_queue'[t][n] = work_queue[t][m]
           /\ work_queue'[t][n] # b
           /\ m = IF t = w THEN n + 1 ELSE n
    <3> SUFFICES ASSUME NEW t \in Threads, NEW n \in Queue(t)'
                 PROVE  \E m \in Queue(t) :
                          /\ work_queue'[t][n] = work_queue[t][m]
                          /\ work_queue'[t][n] # b
                          /\ m = IF t = w THEN n + 1 ELSE n
      OBVIOUS
    <3>1. CASE t = w
      <4>1. /\ n + 1 \in Queue(w) /\ work_queue'[w][n] = work_queue[w][n + 1]
            /\ n + 1 # 1
        BY <2>8, <3>1
      <4>2. work_queue[w][n + 1] # b
        BY <1>0, <2>7, <2>11, <4>1 DEF Apart
      <4> QED
        BY <3>1, <4>1, <4>2
    <3>2. CASE t # w
      <4>1. n \in Queue(t) /\ work_queue'[t][n] = work_queue[t][n]
        BY <2>5, <2>6, <3>2
      <4>2. work_queue[t][n] # b
        BY <1>0, <2>7, <2>11, <3>2, <4>1 DEF Apart
      <4> QED
        BY <3>2, <4>1, <4>2
    <3> QED
      BY <3>1, <3>2
  <2>14. \A t \in Threads : \A n \in Queue(t) :
           \/ work_queue[t][n] = b
           \/ \E m \in Queue(t)' : work_queue'[t][m] = work_queue[t][n]
    <3> SUFFICES ASSUME NEW t \in Threads, NEW n \in Queue(t), work_queue[t][n] # b
                 PROVE  \E m \in Queue(t)' : work_queue'[t][m] = work_queue[t][n]
      OBVIOUS
    <3>1. CASE t = w
      BY <2>9, <2>11, <3>1
    <3>2. CASE t # w
      BY <2>5, <2>6, <3>2
    <3> QED
      BY <3>1, <3>2
  <2>15. ItemTypes'
    <3>1. work_queue' \in [Threads -> Seq(Buffers)]
      BY <1>0, <2>2, <2>3 DEF ItemTypes
    <3> QED
      BY <1>0, <2>2, <2>3, <3>1, Names DEF ItemTypes, AllSteps
  <2>16. Steps'
    BY <1>0, <2>3, <2>10, Names DEF Steps, Idle, b
  <2>17. Apart'
    <3>1. \A e, f \in Executors : buf'[e] = buf'[f] => e = f \/ buf'[e] = None
      BY <1>0, <2>10, <2>12 DEF Apart
    <3>2. \A e \in Executors, t \in Threads : \A n \in Queue(t)' :
            work_queue'[t][n] # buf'[e]
      <4> SUFFICES ASSUME NEW e \in Executors, NEW t \in Threads,
                          NEW n \in Queue(t)'
                   PROVE  work_queue'[t][n] # buf'[e]
        OBVIOUS
      <4>1. PICK m \in Queue(t) : /\ work_queue'[t][n] = work_queue[t][m]
                                  /\ work_queue'[t][n] # b
        BY <2>13
      <4> QED
        BY <1>0, <2>10, <4>1 DEF Apart
    <3>3. \A t, u \in Threads : \A n \in Queue(t)', m \in Queue(u)' :
            work_queue'[t][n] = work_queue'[u][m] => t = u /\ n = m
      <4> SUFFICES ASSUME NEW t \in Threads, NEW u \in Threads,
                          NEW n \in Queue(t)', NEW m \in Queue(u)',
                          work_queue'[t][n] = work_queue'[u][m]
                   PROVE  t = u /\ n = m
        OBVIOUS
      <4>1. PICK i \in Queue(t) : /\ work_queue'[t][n] = work_queue[t][i]
                                  /\ i = IF t = w THEN n + 1 ELSE n
        BY <2>13
      <4>2. PICK j \in Queue(u) : /\ work_queue'[u][m] = work_queue[u][j]
                                  /\ j = IF u = w THEN m + 1 ELSE m
        BY <2>13
      <4>3. work_queue[t][i] = work_queue[u][j]
        BY <4>1, <4>2
      <4>5. t = u /\ i = j
        BY <1>0, <4>3 DEF Apart
      <4>4. n \in Int /\ m \in Int
        BY DEF Queue
      <4> QED
        BY <4>1, <4>2, <4>4, <4>5
    <3> QED
      BY <3>1, <3>2, <3>3 DEF Apart
  <2>18. InUse'
    <3>1. \A f \in Executors :
            buf'[f] \in buf_in_use' \cup {None} \/ (f = Dispatcher /\ pc'[f] = "error")
      BY <1>0, <2>2, <2>10, <2>11, Names DEF InUse
    <3>2. \A t \in Threads : \A n \in Queue(t)' : work_queue'[t][n] \in buf_in_use'
      <4> SUFFICES ASSUME NEW t \in Threads, NEW n \in Queue(t)'
                   PROVE  work_queue'[t][n] \in buf_in_use'
        OBVIOUS
      <4>1. PICK m \in Queue(t) : work_queue'[t][n] = work_queue[t][m]
        BY <2>13
      <4>2. work_queue[t][m] \in buf_in_use
        BY <1>0 DEF InUse
      <4>3. buf_in_use' = buf_in_use
        BY <2>2
      <4> QED
        BY <4>1, <4>2, <4>3
    <3>3. ASSUME NEW c \in buf_in_use'
          PROVE  \/ \E f \in Executors : buf'[f] = c
                 \/ \E t \in Threads : \E n \in Queue(t)' : work_queue'[t][n] = c
      <4>0. c \in buf_in_use /\ c # None
        BY <1>0, <2>2, Names DEF ItemTypes
      <4>1. CASE \E f \in Executors : buf[f] = c
        <5>1. PICK f \in Executors : buf[f] = c
          BY <4>1
        <5>2. f # w
          BY <1>0, <2>2, <4>0, <5>1, Names DEF Steps, Idle
        <5> QED
          BY <2>10, <5>1, <5>2
      <4>2. CASE \E t \in Threads : \E n \in Queue(t) : work_queue[t][n] = c
        BY <2>10, <2>14, <4>2, Names
      <4> QED
        BY <1>0, <4>0, <4>1, <4>2 DEF InUse
    <3> QED
      BY <3>1, <3>2, <3>3 DEF InUse
  <2>19. OwnRequest'
    <3>1. Busy' \subseteq Busy
      <4> SUFFICES ASSUME NEW c \in Busy' PROVE c \in Busy
        OBVIOUS
      <4>1. c \in Buffers
        BY DEF Busy
      <4>2. CASE \E e \in Executors : pc'[e] \notin Idle \cup {"read"} /\ buf'[e] = c
        BY <2>10, <2>11, <4>1, <4>2 DEF Busy
      <4>3. CASE \E t \in Threads : \E n \in Queue(t)' : work_queue'[t][n] = c
        <5>0. PICK t \in Threads : \E n \in Queue(t)' : work_queue'[t][n] = c
          BY <4>3
        <5>1. PICK n \in Queue(t)' : work_queue'[t][n] = c
          BY <5>0
        <5>2. PICK m \in Queue(t) : work_queue'[t][n] = work_queue[t][m]
          BY <2>13
        <5> QED
          BY <4>1, <5>1, <5>2 DEF Busy
      <4> QED
        BY <4>2, <4>3 DEF Busy
    <3> QED
      BY <1>0, <2>2, <3>1, OwnRequestFrame
  <2>20. WorkersOwn'
    <3>1. \A t \in Threads \ {w} : WorkerOf(t)' = WorkerOf(t) /\ TypeOf(t)' = TypeOf(t)
      BY <2>2, <2>10, Names DEF WorkerOf, TypeOf, IdOf
    <3>2. WorkerOf(w)' = w /\ TypeOf(w)' \in QueuedTypes
      BY <2>2, <2>10, <2>12 DEF WorkerOf, TypeOf, IdOf, Kind
    <3>3. \A t \in Threads : \A n \in Queue(t)' :
            /\ assigned_thread'[work_queue'[t][n]] = t
            /\ Kind(work_queue[t][n])' \in QueuedTypes
      <4> SUFFICES ASSUME NEW t \in Threads, NEW n \in Queue(t)'
                   PROVE  /\ assigned_thread'[work_queue'[t][n]] = t
                          /\ Kind(work_queue[t][n])' \in QueuedTypes
        OBVIOUS
      <4>1. PICK m \in Queue(t) : work_queue'[t][n] = work_queue[t][m]
        BY <2>13
      <4>2. /\ assigned_thread[work_queue[t][m]] = t
            /\ Kind(work_queue[t][m]) \in QueuedTypes
        BY <1>0 DEF WorkersOwn
      <4>3. Kind(work_queue[t][n])' = Kind(work_queue[t][m])
        BY <2>2, <4>1 DEF Kind
      <4> QED
        BY <2>2, <4>1, <4>2, <4>3
    <3> QED
      BY <1>0, <2>10, <3>1, <3>2, <3>3, Names DEF WorkersOwn
  <2>21. DispatchersOwn'
    <3>1. pc'[Dispatcher] = pc[Dispatcher] /\ buf'[Dispatcher] = buf[Dispatcher]
      BY <2>10, Names
    <3>2. /\ WorkerOf(Dispatcher)' = WorkerOf(Dispatcher)
          /\ TypeOf(Dispatcher)' = TypeOf(Dispatcher)
      BY <2>2, <3>1 DEF WorkerOf, TypeOf, IdOf
    <3> QED
      BY <1>0, <2>2, <3>1, <3>2 DEF DispatchersOwn
  <2> QED
    BY <2>15, <2>16, <2>17, <2>18, <2>19, <2>20, <2>21 DEF ItemInv
<1> QED
  BY <1>1, <1>2

\* Executor e is done with its buffer, which is free again; only the
\* dispatcher may still have to report an error from it.
Releases(e) ==
    /\ pc[e] \in {"finish", "error"}
    /\ buf_in_use' = buf_in_use \ {buf[e]}
    /\ assigned_thread' = [assigned_thread EXCEPT ![buf[e]] = None]
    /\ \/ /\ pc' = [pc EXCEPT ![e] = IF e = Dispatcher THEN "reserve" ELSE "wait"]
          /\ buf' = [buf EXCEPT ![e] = None]
       \/ /\ e = Dispatcher /\ buf' = buf
          /\ pc' = [pc EXCEPT ![e] = "error"]
    /\ in_use' \subseteq in_use /\ (e # Dispatcher => in_use' = in_use)
    /\ UNCHANGED <<req, region, work_queue, live>>

\* Releasing a buffer disturbs no other.
LEMMA ReleaseKeepsItems ==
    ASSUME ItemInv, NEW e \in Executors, Releases(e)
    PROVE  ItemInv'
<1>0. ItemTypes /\ Steps /\ Apart /\ InUse /\ OwnRequest /\ WorkersOwn
      /\ DispatchersOwn
  BY DEF ItemInv
<1>1. PICK b \in Buffers : b = buf[e]
  BY <1>0 DEF ItemTypes, Steps, Idle, Releases
<1>2. /\ pc[e] \in {"finish", "error"}
      /\ buf_in_use' = buf_in_use \ {b}
      /\ assigned_thread' = [assigned_thread EXCEPT ![b] = None]
      /\ in_use' \subseteq in_use /\ (e # Dispatcher => in_use' = in_use)
      /\ UNCHANGED <<req, region, work_queue, live>>
  BY <1>1 DEF Releases
<1>3. /\ \A f \in Executors \ {e} : /\ pc'[f] = pc[f] /\ buf'[f] = buf[f]
                                    /\ buf[f] # b
      /\ \A t \in Threads : \A n \in Queue(t) : work_queue[t][n] # b
  BY <1>0, <1>1, Names DEF ItemTypes, Releases, Apart
<1>4. /\ pc' \in [Executors -> AllSteps] /\ buf' \in [Executors -> Buffers \cup {None}]
      /\ \/ /\ pc'[e] = (IF e = Dispatcher THEN "reserve" ELSE "wait")
            /\ buf'[e] = None
         \/ e = Dispatcher /\ pc'[e] = "error" /\ buf'[e] = b
  <2>1. CASE /\ pc' = [pc EXCEPT ![e] = IF e = Dispatcher THEN "reserve" ELSE "wait"]
             /\ buf' = [buf EXCEPT ![e] = None]
    BY <1>0, <2>1 DEF ItemTypes, AllSteps
  <2>2. CASE /\ e = Dispatcher /\ buf' = buf /\ pc' = [pc EXCEPT ![e] = "error"]
    BY <1>0, <1>1, <2>2 DEF ItemTypes, AllSteps
  <2> QED
    BY <2>1, <2>2 DEF Releases
<1>5. /\ assigned_thread' \in [Buffers -> Threads \cup {None}]
      /\ assigned_thread'[b] = None
      /\ \A c \in Buffers \ {b} : assigned_thread'[c] = assigned_thread[c]
  BY <1>0, <1>2 DEF ItemTypes
<1>6. \A t \in Threads : Queue(t)' = Queue(t)
  BY <1>2 DEF Queue
<1>7. ItemTypes'
  BY <1>0, <1>2, <1>4, <1>5 DEF ItemTypes
<1>8. Steps'
  BY <1>0, <1>3, <1>4, Names DEF Steps, Idle
<1>9. Apart'
  <2>1. \A f, g \in Executors : buf'[f] = buf'[g] => f = g \/ buf'[f] = None
    BY <1>0, <1>1, <1>3, <1>4 DEF Apart
  <2>2. \A f \in Executors, t \in Threads : \A n \in Queue(t) :
          work_queue[t][n] # buf'[f]
    BY <1>0, <1>3, <1>4, QueueEntries, Names DEF Apart
  <2> QED
    BY <1>0, <1>2, <1>6, <2>1, <2>2 DEF Apart
<1>10. InUse'
  <2>1. ASSUME NEW f \in Executors
        PROVE  \/ buf'[f] \in buf_in_use' \cup {None}
               \/ f = Dispatcher /\ pc'[f] = "error"
    BY <1>0, <1>2, <1>3, <1>4 DEF InUse
  <2>2. \A t \in Threads : \A n \in Queue(t) : work_queue[t][n] \in buf_in_use'
    BY <1>0, <1>2, <1>3 DEF InUse
  <2>3. ASSUME NEW c \in buf_in_use'
        PROVE  \/ \E f \in Executors : buf'[f] = c
               \/ \E t \in Threads : \E n \in Queue(t) : work_queue[t][n] = c
    BY <1>0, <1>1, <1>2, <1>3 DEF InUse
  <2> QED
    BY <1>2, <1>6, <2>1, <2>2, <2>3 DEF InUse
<1>11. OwnRequest'
  <2>1. Busy' \subseteq Busy
    <3>1. \A f \in Executors : pc'[f] \notin Idle \cup {"read"} =>
            pc[f] \notin Idle \cup {"read"} /\ buf'[f] = buf[f]
      BY <1>1, <1>2, <1>3, <1>4 DEF Idle
    <3> QED
      BY <1>2, <1>6, <3>1, Zenon DEF Busy
  <2> QED
    BY <1>0, <1>2, <2>1, OwnRequestFrame
<1>12. WorkersOwn'
  <2>1. \A t \in Threads : \A n \in Queue(t) :
          /\ assigned_thread'[work_queue[t][n]] = t
          /\ Kind(work_queue[t][n])' = Kind(work_queue[t][n])
    BY <1>0, <1>2, <1>3, <1>5, QueueEntries DEF WorkersOwn, Kind
  <2>2. \A t \in Threads : pc'[t] # "wait" =>
          pc[t] # "wait" /\ WorkerOf(t)' = WorkerOf(t) /\ TypeOf(t)' = TypeOf(t)
    <3> SUFFICES ASSUME NEW t \in Threads, pc'[t] # "wait"
                 PROVE  /\ pc[t] # "wait" /\ WorkerOf(t)' = WorkerOf(t)
                        /\ TypeOf(t)' = TypeOf(t)
      OBVIOUS
    <3>1. t # e /\ t \in Executors /\ t # Dispatcher
      BY <1>4, Names
    <3>2. pc'[t] = pc[t] /\ buf'[t] = buf[t] /\ buf[t] # b
      BY <1>3, <3>1
    <3>3. buf[t] \in Buffers
      BY <1>0, <3>1, <3>2 DEF ItemTypes, Steps, Idle
    <3> QED
      BY <1>2, <1>5, <3>2, <3>3 DEF WorkerOf, TypeOf, IdOf
  <2> QED
    BY <1>0, <1>2, <1>6, <2>1, <2>2 DEF WorkersOwn
<1>13. DispatchersOwn'
  <2>1. \A c \in Buffers \ buf_in_use' : assigned_thread'[c] = None
    BY <1>0, <1>2, <1>5 DEF DispatchersOwn
  <2>2. CASE e = Dispatcher
    <3>1. pc'[Dispatcher] = "reserve" \/ WorkerOf(Dispatcher)' = None
      BY <1>4, <1>5, <2>2 DEF WorkerOf
    <3> QED
      BY <1>4, <2>1, <2>2, <3>1 DEF DispatchersOwn
  <2>3. CASE e # Dispatcher
    <3>1. /\ pc'[Dispatcher] = pc[Dispatcher] /\ buf'[Dispatcher] = buf[Dispatcher]
          /\ buf[Dispatcher] # b /\ in_use' = in_use
      BY <1>2, <1>3, <2>3, Names
    <3>2. pc[Dispatcher] = "reserve" \/ WorkerOf(Dispatcher)' = WorkerOf(Dispatcher)
      <4>1. pc[Dispatcher] = "reserve" \/ buf[Dispatcher] \in Buffers
        BY <1>0, Names DEF ItemTypes, Steps, Idle
      <4> QED
        BY <1>5, <3>1, <4>1 DEF WorkerOf
    <3>3. TypeOf(Dispatcher)' = TypeOf(Dispatcher)
      BY <1>2, <3>1 DEF TypeOf, IdOf
    <3>4. CASE pc[Dispatcher] = "reserve"
      BY <2>1, <3>1, <3>4 DEF DispatchersOwn
    <3>5. CASE pc[Dispatcher] # "reserve"
      <4>1. WorkerOf(Dispatcher)' = WorkerOf(Dispatcher)
        BY <3>2, <3>5
      <4> QED
        BY <1>0, <2>1, <3>1, <3>3, <4>1, Zenon DEF DispatchersOwn
    <3> QED
      BY <3>4, <3>5
  <2> QED
    BY <2>2, <2>3
<1> QED
  BY <1>7, <1>8, <1>9, <1>10, <1>11, <1>12, <1>13 DEF ItemInv

\* A worker's item never has its thread released.
LEMMA FinishReleases ==
    ASSUME ItemInv, NEW e \in Executors, FinishItem(e)
    PROVE  Releases(e)
<1>1. e # Dispatcher => in_use' = in_use
  <2> SUFFICES ASSUME e # Dispatcher PROVE in_use' = in_use
    OBVIOUS
  <2>1. e \in Threads /\ pc[e] # "wait"
    BY Names DEF FinishItem
  <2>2. TypeOf(e) \in QueuedTypes
    BY <2>1 DEF ItemInv, WorkersOwn
  <2>3. ~ReleasesThread(e)
    BY <2>2 DEF ReleasesThread, QueuedTypes
  <2> QED
    BY <2>3 DEF FinishItem, socketVars
<1>2. in_use' \subseteq in_use
  BY DEF FinishItem, release_worker_thread, socketVars
<1>3. /\ pc[e] = "finish" /\ release_buffer_item(buf[e])
      /\ UNCHANGED <<req, region, work_queue, live>>
  BY DEF FinishItem, pvmVars, queueVars
<1>4. \/ Goto(e, "error") /\ buf' = buf /\ e = Dispatcher
      \/ /\ Goto(e, IF e = Dispatcher THEN "reserve" ELSE "wait")
         /\ buf' = [buf EXCEPT ![e] = None]
  BY Zenon DEF FinishItem, ReportsError
<1> QED
  BY <1>1, <1>2, <1>3, <1>4 DEF Releases, release_buffer_item, Goto

\* Neither has the request the dispatcher rejects.
LEMMA ErrorReleases ==
    ASSUME send_dispatch_error_response
    PROVE  Releases(Dispatcher)
  BY DEF send_dispatch_error_response, Releases, release_buffer_item, Goto,
     socketVars, queueVars

\* Every step keeps each buffer and each request in one place.
LEMMA ItemInvPreserved ==
    ItemInv /\ [Next]_vars => ItemInv'
<1> SUFFICES ASSUME ItemInv, [Next]_vars PROVE ItemInv'
  OBVIOUS
<1>1. CASE \E r \in Requests : ReadRequest(r)
  BY <1>1, ReadKeepsItems
<1>2. CASE Dispatch
  BY <1>2, ReserveKeepsItems, AssignKeepsItems, ProcessGoesOn, OnwardKeepsItems,
     EnqueueKeepsItems, ErrorReleases, ReleaseKeepsItems, Names, Zenon
     DEF Dispatch
<1>3. CASE \E t \in Threads : BeginWork(t)
  BY <1>3, BeginKeepsItems
<1>4. CASE \E e \in Executors : Process(e)
  BY <1>4, ProcessGoesOn, OnwardKeepsItems, FinishReleases, ReleaseKeepsItems,
     Zenon DEF Process
<1>5. CASE UNCHANGED vars
  BY <1>5, ItemFrame, Zenon DEF vars, itemVars, pvmVars, bufferVars, socketVars,
     queueVars, threadVars
<1> QED
  BY <1>1, <1>2, <1>3, <1>4, <1>5 DEF Next

\* The items are always in order.
LEMMA ItemsAlways == Spec => []ItemInv
  BY ItemInvInitially, ItemInvPreserved, PTL DEF Spec
-----------------------------------------------------------------------------
\* The items of a queue are different buffers, so there are no more of them
\* than there are buffers: the queue that thread_main allocates never overflows.
LEMMA QueueFits ==
    ASSUME ItemInv, NEW t \in Threads
    PROVE  Len(work_queue[t]) \in 0..BUFFER_ITEM_COUNT
<1> DEFINE q == work_queue[t]
<1>1. q \in Seq(Buffers) /\ Len(q) \in Nat /\ q \in [1..Len(q) -> Buffers]
  BY LenProperties DEF ItemInv, ItemTypes
<1>2. \A n, m \in 1..Len(q) : q[n] = q[m] => n = m
  BY DEF ItemInv, Apart, Queue
<1> HIDE DEF q
<1>3. q \in Injection(1..Len(q), Buffers)
  BY <1>1, <1>2, Zenon DEF Injection, IsInjective
<1>4. IsFiniteSet(Buffers) /\ Cardinality(Buffers) = BUFFER_ITEM_COUNT
  BY FS_Interval, DispatchAssumption DEF Buffers
<1>5. Cardinality(1..Len(q)) <= Cardinality(Buffers)
  BY <1>3, <1>4, FS_Injection
<1>6. Cardinality(1..Len(q)) = Len(q)
  BY <1>1, FS_Interval
<1> QED
  BY <1>1, <1>4, <1>5, <1>6, DispatchAssumption DEF q

\* The executors and the queue positions that Holders counts.
HoldingExecutors(b) == {e \in Executors : buf[e] = b}
HoldingPositions(b) ==
    {p \in Threads \X Buffers :
       p[2] <= Len(work_queue[p[1]]) /\ work_queue[p[1]][p[2]] = b}

\* A position is one of a queue.
LEMMA PositionsAreQueued ==
    ASSUME ItemInv, NEW b
    PROVE  /\ \A p \in HoldingPositions(b) :
                /\ p[1] \in Threads /\ p[2] \in Queue(p[1])
                /\ p = <<p[1], p[2]>> /\ work_queue[p[1]][p[2]] = b
           /\ \A t \in Threads : \A n \in Queue(t) :
                work_queue[t][n] = b => <<t, n>> \in HoldingPositions(b)
<1>1. \A t \in Threads : \A n \in Buffers :
        n <= Len(work_queue[t]) => n \in Queue(t)
  <2> SUFFICES ASSUME NEW t \in Threads, NEW n \in Buffers, n <= Len(work_queue[t])
               PROVE  n \in Queue(t)
    OBVIOUS
  <2> QED
    BY QueueFits, DispatchAssumption DEF Queue, Buffers
<1>2. \A t \in Threads : \A n \in Queue(t) :
        n \in Buffers /\ n <= Len(work_queue[t])
  <2> SUFFICES ASSUME NEW t \in Threads, NEW n \in Queue(t)
               PROVE  n \in Buffers /\ n <= Len(work_queue[t])
    OBVIOUS
  <2> QED
    BY QueueFits, DispatchAssumption DEF Queue, Buffers
<1> QED
  BY <1>1, <1>2 DEF HoldingPositions

\* One place counts for one.
LEMMA OwnedOnce ==
    ASSUME ItemInv
    PROVE  BufferOwnership
<1> SUFFICES ASSUME NEW b \in Buffers
             PROVE  \/ b \in buf_in_use /\ Holders(b) = 1
                    \/ b \notin buf_in_use /\ Holders(b) = 0
                    \/ /\ b \notin buf_in_use /\ Holders(b) = 1
                       /\ pc[Dispatcher] = "error" /\ buf[Dispatcher] = b
  BY DEF BufferOwnership
<1>0. Apart /\ InUse /\ b # None
  BY Names DEF ItemInv
<1>1. Holders(b) = Cardinality(HoldingExecutors(b))
                     + Cardinality(HoldingPositions(b))
  BY DEF Holders, HoldingExecutors, HoldingPositions
<1>2. ASSUME NEW e \in Executors, buf[e] = b PROVE Holders(b) = 1
  <2>1. HoldingExecutors(b) = {e}
    BY <1>0, <1>2 DEF HoldingExecutors, Apart
  <2>2. HoldingPositions(b) = {}
    BY <1>0, <1>2, PositionsAreQueued DEF Apart
  <2>3. Cardinality(HoldingExecutors(b)) + Cardinality(HoldingPositions(b)) = 1
    <3>1. Cardinality({}) = 0 /\ \A x : Cardinality({x}) = 1
      BY FS_EmptySet, FS_Singleton, Zenon
    <3> QED
      BY <2>1, <2>2, <3>1
  <2> QED
    BY <1>1, <2>3
<1>3. ASSUME NEW t \in Threads, NEW n \in Queue(t), work_queue[t][n] = b
      PROVE  Holders(b) = 1
  <2>1. HoldingExecutors(b) = {}
    BY <1>0, <1>3 DEF HoldingExecutors, Apart
  <2>2. HoldingPositions(b) = {<<t, n>>}
    <3>1. <<t, n>> \in HoldingPositions(b)
      BY <1>3, PositionsAreQueued
    <3>2. ASSUME NEW p \in HoldingPositions(b) PROVE p = <<t, n>>
      <4>1. /\ p[1] \in Threads /\ p[2] \in Queue(p[1])
            /\ p = <<p[1], p[2]>> /\ work_queue[p[1]][p[2]] = b
        BY PositionsAreQueued
      <4>2. p[1] = t /\ p[2] = n
        BY <1>0, <1>3, <4>1 DEF Apart
      <4> QED
        BY <4>1, <4>2
    <3> QED
      BY <3>1, <3>2
  <2>3. Cardinality(HoldingExecutors(b)) + Cardinality(HoldingPositions(b)) = 1
    <3>1. Cardinality({}) = 0 /\ \A x : Cardinality({x}) = 1
      BY FS_EmptySet, FS_Singleton, Zenon
    <3>2. /\ Cardinality(HoldingExecutors(b)) = 0
          /\ Cardinality(HoldingPositions(b)) = 1
      BY <2>1, <2>2, <3>1, Zenon
    <3> QED
      BY <3>2
  <2> QED
    BY <1>1, <2>3
<1>4. CASE b \in buf_in_use
  BY <1>0, <1>2, <1>3, <1>4 DEF InUse
<1>5. CASE b \notin buf_in_use
  <2>1. \A e \in Executors : buf[e] = b => e = Dispatcher /\ pc[e] = "error"
    BY <1>0, <1>5 DEF InUse
  <2>2. HoldingPositions(b) = {}
    BY <1>0, <1>5, PositionsAreQueued DEF InUse
  <2>3. CASE buf[Dispatcher] = b
    BY <1>2, <1>5, <2>1, <2>3, Names
  <2>4. CASE buf[Dispatcher] # b
    <3>1. HoldingExecutors(b) = {}
      BY <2>1, <2>4 DEF HoldingExecutors
    <3> QED
      BY <1>1, <1>5, <2>2, <3>1, FS_EmptySet
  <2> QED
    BY <2>3, <2>4
<1> QED
  BY <1>4, <1>5

\* For any number of threads, buffers and requests, a buffer item in use has
\* one owner and a free one none, although process_buffer_item and both of its
\* callers release it.
THEOREM BuffersAlwaysOwned == Spec => []BufferOwnership
  BY ItemsAlways, OwnedOnce, PTL
-----------------------------------------------------------------------------
\* How often a request can be answered: twice only if a failure that the
\* response tells of is reported once more as an internal error.
MaxAnswers == IF "npfctl" \in Faults THEN 2 ELSE 1

\* A request is unanswered until its response is written.
AnswerInv ==
    /\ answered \in [Ids -> 0..MaxAnswers]
    /\ rc \in [Executors -> {0, -1}] /\ headless \in [Executors -> BOOLEAN]
    /\ \A i \in Ids : i > Len(req) => answered[i] = 0
    /\ \A t \in Threads : \A n \in Queue(t) :
         answered[region[work_queue[t][n]]] = 0
    /\ \A e \in Executors : pc[e] \in Early => answered[IdOf(e)] = 0
    /\ \A e \in Executors : pc[e] = "finish" =>
         answered[IdOf(e)] = IF headless[e] THEN 0 ELSE 1
    /\ pc[Dispatcher] = "error" => answered[IdOf(Dispatcher)] < MaxAnswers
    /\ \A e \in Executors : rc[e] # 0 => headless[e] \/ "npfctl" \in Faults

\* Nothing has been read or answered at first.
LEMMA AnswerInvInitially == Init => AnswerInv
<1> SUFFICES ASSUME Init PROVE AnswerInv
  OBVIOUS
<1>1. \A t \in Threads : Queue(t) = {}
  BY DEF Init, Queue
<1>2. \A e \in Executors : pc[e] \in {"reserve", "wait"}
  BY DEF Init
<1>3. pc[Dispatcher] = "reserve"
  BY Names DEF Init
<1> QED
  BY <1>1, <1>2, <1>3 DEF Init, AnswerInv, Early, MaxAnswers

\* What an operation leaves as the result: an error code comes without a
\* response, except from npfctl.
LEMMA OperationResult ==
    ASSUME NEW e \in Executors, Operation(e)
    PROVE  \E c \in {0, -1}, h \in BOOLEAN :
             /\ rc' = [rc EXCEPT ![e] = c] /\ headless' = [headless EXCEPT ![e] = h]
             /\ c = 0 \/ h \/ ("npfctl" \in Faults /\ TypeOf(e) = "AddrBlock")
<1> DEFINE P == \E c \in {0, -1}, h \in BOOLEAN :
             /\ rc' = [rc EXCEPT ![e] = c] /\ headless' = [headless EXCEPT ![e] = h]
             /\ c = 0 \/ h \/ ("npfctl" \in Faults /\ TypeOf(e) = "AddrBlock")
<1>0. 0 \in {0, -1} /\ -1 \in {0, -1} /\ TRUE \in BOOLEAN /\ FALSE \in BOOLEAN
  OBVIOUS
<1>a. EndOperation(e, 0, FALSE) => P
  BY <1>0, Zenon DEF EndOperation
<1>b. EndOperation(e, -1, TRUE) => P
  BY <1>0, Zenon DEF EndOperation
<1>c. ASSUME EndOperation(e, -1, FALSE), "npfctl" \in Faults,
             TypeOf(e) = "AddrBlock"
      PROVE  P
  BY <1>0, <1>c, Zenon DEF EndOperation
<1> HIDE DEF P
<1>1. CASE xe_net_create_socket(e)
  BY <1>1, <1>a, Zenon DEF xe_net_create_socket, P
<1>2. CASE xe_net_accept_socket(e)
  BY <1>2, <1>a, <1>b, Zenon DEF xe_net_accept_socket, P
<1>3. CASE xe_net_bind_socket(e)
  BY <1>3, <1>a, Zenon DEF xe_net_bind_socket, P
<1>4. CASE xe_net_close_socket(e)
  BY <1>4, <1>a, Zenon DEF xe_net_close_socket, P
<1>5. CASE xe_net_recv_socket(e)
  BY <1>5, <1>a, <1>b, Zenon DEF xe_net_recv_socket, P
<1>6. CASE xe_net_send_socket(e)
  BY <1>6, <1>a, Zenon DEF xe_net_send_socket, P
<1>7. ASSUME NEW types, PlainOperation(e, types) PROVE P
  BY <1>7, <1>a, Zenon DEF PlainOperation
<1>8. CASE xe_net_connect_socket(e) \/ xe_net_listen_socket(e)
             \/ xe_net_shutdown_socket(e) \/ xe_net_sock_attrib(e)
             \/ xe_net_get_name(e)
  <2>1. P
    BY <1>7, <1>8, Zenon DEF xe_net_connect_socket, xe_net_listen_socket,
       xe_net_shutdown_socket, xe_net_sock_attrib, xe_net_get_name
  <2> QED
    BY <2>1, Zenon DEF P
<1>9. CASE xe_net_addr_block(e)
  <2>1. TypeOf(e) = "AddrBlock"
    BY <1>9 DEF xe_net_addr_block, Operating
  <2> QED
    BY <1>9, <2>1, <1>a, <1>c, Zenon DEF xe_net_addr_block, P
<1>10. CASE xe_pollset_query(e)
  BY <1>10, <1>a, <1>b, Zenon DEF xe_pollset_query, P
<1> QED
  BY <1>1, <1>2, <1>3, <1>4, <1>5, <1>6, <1>8, <1>9, <1>10, Zenon DEF Operation

\* The results of the executors are what they were, or executor e has one of
\* those that OperationResult allows.
ResultOf(e) ==
    /\ rc' \in [Executors -> {0, -1}] /\ headless' \in [Executors -> BOOLEAN]
    /\ \A f \in Executors \ {e} : headless'[f] = headless[f]
    /\ \A f \in Executors : rc'[f] # 0 => headless'[f] \/ "npfctl" \in Faults

\* Steps that perform no operation leave the results alone.
LEMMA SameResults ==
    ASSUME AnswerInv, UNCHANGED <<rc, headless>>, NEW e
    PROVE  ResultOf(e)
  BY DEF ResultOf, AnswerInv

\* An operation leaves the result of its own executor.
LEMMA OperationResultOf ==
    ASSUME AnswerInv, NEW e \in Executors, Operation(e)
    PROVE  ResultOf(e)
<1>1. PICK c \in {0, -1}, h \in BOOLEAN :
             /\ rc' = [rc EXCEPT ![e] = c] /\ headless' = [headless EXCEPT ![e] = h]
             /\ c = 0 \/ h \/ "npfctl" \in Faults
  BY OperationResult
<1>2. rc \in [Executors -> {0, -1}] /\ headless \in [Executors -> BOOLEAN]
      /\ \A f \in Executors : rc[f] # 0 => headless[f] \/ "npfctl" \in Faults
  BY DEF AnswerInv
<1>3. rc' \in [Executors -> {0, -1}] /\ headless' \in [Executors -> BOOLEAN]
  BY <1>1, <1>2
<1>4. /\ rc'[e] = c /\ headless'[e] = h
      /\ \A f \in Executors \ {e} : rc'[f] = rc[f] /\ headless'[f] = headless[f]
  BY <1>1, <1>2
<1>5. \A f \in Executors : rc'[f] # 0 => headless'[f] \/ "npfctl" \in Faults
  BY <1>1, <1>2, <1>4, Zenon
<1> QED
  BY <1>3, <1>4, <1>5 DEF ResultOf

\* A step that answers nothing and leaves the items where they are.
LEMMA AnswerMoves ==
    ASSUME ItemInv, AnswerInv, NEW e \in Executors, ResultOf(e),
           UNCHANGED <<req, region, work_queue, buf, answered>>,
           NEW x \in Early \cup {"error"}, pc' = [pc EXCEPT ![e] = x],
           pc[e] \in Early
    PROVE  AnswerInv'
<1>1. pc'[e] = x /\ \A f \in Executors \ {e} : pc'[f] = pc[f]
  BY DEF ItemInv, ItemTypes
<1>2. \A f : IdOf(f)' = IdOf(f)
  BY DEF IdOf
<1>3. \A t \in Threads : Queue(t)' = Queue(t)
  BY DEF Queue
<1>4. answered[IdOf(e)] = 0
  BY DEF AnswerInv
<1>5. \A f \in Executors : pc'[f] \in Early => answered'[IdOf(f)'] = 0
  BY <1>1, <1>2, <1>4 DEF AnswerInv
<1>6. \A f \in Executors : pc'[f] = "finish" =>
        f # e /\ answered'[IdOf(f)'] = IF headless'[f] THEN 0 ELSE 1
  BY <1>1, <1>2 DEF AnswerInv, ResultOf, Early
<1>7. pc'[Dispatcher] = "error" => answered'[IdOf(Dispatcher)'] < MaxAnswers
  BY <1>1, <1>2, <1>4, Names DEF AnswerInv, MaxAnswers
<1>8. \A t \in Threads : \A n \in Queue(t)' :
        answered'[region'[work_queue'[t][n]]] = 0
  BY <1>3 DEF AnswerInv
<1> QED
  BY <1>5, <1>6, <1>7, <1>8 DEF AnswerInv, ResultOf

\* One that answers nothing and moves an item to or from a queue, or lets one go.
LEMMA AnswerPasses ==
    ASSUME ItemInv, AnswerInv, UNCHANGED <<req, region, answered>>,
           NEW e \in Executors, ResultOf(e),
           \A f \in Executors \ {e} : pc'[f] = pc[f] /\ buf'[f] = buf[f],
           pc'[e] \in Early => answered[region[buf'[e]]] = 0,
           pc'[e] # "finish",
           pc'[e] = "error" => answered[region[buf'[e]]] < MaxAnswers,
           \A t \in Threads : \A n \in Queue(t)' :
             answered[region[work_queue'[t][n]]] = 0
    PROVE  AnswerInv'
<1>1. \A f \in Executors \ {e} : IdOf(f)' = IdOf(f)
  BY DEF IdOf
<1>2. IdOf(e)' = region[buf'[e]]
  BY DEF IdOf
<1>3. \A f \in Executors : pc'[f] \in Early => answered'[IdOf(f)'] = 0
  BY <1>1, <1>2 DEF AnswerInv
<1>4. \A f \in Executors : pc'[f] = "finish" =>
        f # e /\ answered'[IdOf(f)'] = IF headless'[f] THEN 0 ELSE 1
  BY <1>1 DEF AnswerInv, ResultOf
<1>5. pc'[Dispatcher] = "error" => answered'[IdOf(Dispatcher)'] < MaxAnswers
  <2>1. CASE e = Dispatcher
    BY <1>2, <2>1
  <2>2. CASE e # Dispatcher
    BY <1>1, <2>2, Names DEF AnswerInv
  <2> QED
    BY <2>1, <2>2
<1>6. \A t \in Threads : \A n \in Queue(t)' :
        answered'[region'[work_queue'[t][n]]] = 0
  OBVIOUS
<1> QED
  BY <1>3, <1>4, <1>5, <1>6 DEF AnswerInv, ResultOf

\* What Enqueue adds to the queues.
LEMMA EnqueueAdds ==
    ASSUME ItemInv, Enqueue
    PROVE  /\ pc[Dispatcher] = "enqueue" /\ pc'[Dispatcher] = "reserve"
           /\ \A f \in Executors \ {Dispatcher} : pc'[f] = pc[f] /\ buf'[f] = buf[f]
           /\ UNCHANGED <<pvmVars, bufferVars, socketVars, oplockVars, storeVars,
                          op_fd, rc, headless, ports>>
           /\ \A t \in Threads : \A n \in Queue(t)' :
                \/ n \in Queue(t) /\ work_queue'[t][n] = work_queue[t][n]
                \/ /\ t = WorkerOf(Dispatcher)
                   /\ work_queue'[t][n] = buf[Dispatcher]
           /\ \A t \in Threads : work_queue[t] # <<>> => work_queue'[t] # <<>>
           /\ work_queue'[WorkerOf(Dispatcher)] # <<>>
<1>1. /\ pc[Dispatcher] = "enqueue" /\ pc' = [pc EXCEPT ![Dispatcher] = "reserve"]
      /\ buf' = [buf EXCEPT ![Dispatcher] = None]
      /\ work_queue' = [work_queue EXCEPT ![WorkerOf(Dispatcher)] =
                          Append(@, buf[Dispatcher])]
      /\ UNCHANGED <<pvmVars, bufferVars, socketVars, oplockVars, storeVars,
                     op_fd, rc, headless, ports>>
  BY DEF Enqueue, Goto
<1>2. /\ pc'[Dispatcher] = "reserve"
      /\ \A f \in Executors \ {Dispatcher} : pc'[f] = pc[f] /\ buf'[f] = buf[f]
  BY <1>1, Names DEF ItemInv, ItemTypes
<1>3. buf[Dispatcher] \in Buffers /\ WorkerOf(Dispatcher) \in Threads
  BY <1>1, Names DEF ItemInv, ItemTypes, Steps, Idle, DispatchersOwn
<1>4. PICK w \in Threads : w = WorkerOf(Dispatcher)
  BY <1>3
<1>5. work_queue \in [Threads -> Seq(Buffers)]
  BY DEF ItemInv, ItemTypes
<1>6. /\ work_queue'[w] = Append(work_queue[w], buf[Dispatcher])
      /\ \A t \in Threads \ {w} : work_queue'[t] = work_queue[t]
  BY <1>1, <1>4, <1>5
<1>7. /\ Len(work_queue'[w]) = Len(work_queue[w]) + 1 /\ Len(work_queue[w]) \in Nat
      /\ \A n \in 1..Len(work_queue[w]) : work_queue'[w][n] = work_queue[w][n]
      /\ work_queue'[w][Len(work_queue[w]) + 1] = buf[Dispatcher]
  BY <1>3, <1>5, <1>6, QueueAppend
<1>8. \A t \in Threads : \A n \in Queue(t)' :
        \/ n \in Queue(t) /\ work_queue'[t][n] = work_queue[t][n]
        \/ t = w /\ work_queue'[t][n] = buf[Dispatcher]
  <2> SUFFICES ASSUME NEW t \in Threads, NEW n \in Queue(t)'
               PROVE  \/ n \in Queue(t) /\ work_queue'[t][n] = work_queue[t][n]
                      \/ t = w /\ work_queue'[t][n] = buf[Dispatcher]
    OBVIOUS
  <2>1. CASE t = w
    BY <1>7, <2>1 DEF Queue
  <2>2. CASE t # w
    BY <1>6, <2>2 DEF Queue
  <2> QED
    BY <2>1, <2>2
<1>9. work_queue'[w] # <<>>
  BY <1>3, <1>5, <1>6, AppendProperties
<1>10. \A t \in Threads : work_queue[t] # <<>> => work_queue'[t] # <<>>
  BY <1>6, <1>9
<1> QED
  BY <1>1, <1>2, <1>4, <1>8, <1>9, <1>10, Zenon

\* What BeginWork takes from its queue, when there is something in it.
LEMMA BeginTakes ==
    ASSUME ItemInv, NEW w \in Threads, BeginWork(w), work_queue[w] # <<>>
    PROVE  /\ pc[w] = "wait" /\ pc'[w] = "operate" /\ 1 \in Queue(w)
           /\ buf'[w] = work_queue[w][1] /\ op_fd' = [op_fd EXCEPT ![w] = local_fd[w]]
           /\ \A f \in Executors \ {w} : pc'[f] = pc[f] /\ buf'[f] = buf[f]
           /\ UNCHANGED <<pvmVars, bufferVars, socketVars, oplockVars, storeVars,
                          rc, headless, ports>>
           /\ \A t \in Threads : \A n \in Queue(t)' : \E m \in Queue(t) :
                work_queue'[t][n] = work_queue[t][m]
           /\ \A t \in Threads \ {w} : work_queue'[t] = work_queue[t]
<1> DEFINE q == work_queue[w]
<1>1. q \in Seq(Buffers) /\ q # <<>>
  BY DEF ItemInv, ItemTypes
<1>2. /\ Len(Tail(q)) = Len(q) - 1 /\ Len(q) \in Nat /\ Len(q) >= 1
      /\ Head(q) = q[1] /\ \A n \in 1..(Len(q) - 1) : Tail(q)[n] = q[n + 1]
  BY <1>1, QueueTail
<1>3. /\ pc[w] = "wait" /\ pc' = [pc EXCEPT ![w] = "operate"]
      /\ work_queue' = [work_queue EXCEPT ![w] = Tail(q)]
      /\ buf' = [buf EXCEPT ![w] = q[1]]
      /\ op_fd' = [op_fd EXCEPT ![w] = local_fd[w]]
      /\ UNCHANGED <<pvmVars, bufferVars, socketVars, oplockVars, storeVars,
                     rc, headless, ports>>
  BY <1>2 DEF BeginWork, Goto
<1>4. /\ pc'[w] = "operate" /\ buf'[w] = q[1] /\ work_queue'[w] = Tail(q)
      /\ \A f \in Executors \ {w} : pc'[f] = pc[f] /\ buf'[f] = buf[f]
      /\ \A t \in Threads \ {w} : work_queue'[t] = work_queue[t]
  BY <1>3, Names DEF ItemInv, ItemTypes
<1>5. 1 \in Queue(w)
  BY <1>2 DEF Queue
<1>6. \A t \in Threads : \A n \in Queue(t)' : \E m \in Queue(t) :
        work_queue'[t][n] = work_queue[t][m]
  <2> SUFFICES ASSUME NEW t \in Threads, NEW n \in Queue(t)'
               PROVE  \E m \in Queue(t) : work_queue'[t][n] = work_queue[t][m]
    OBVIOUS
  <2>1. CASE t = w
    <3>0. n \in 1..Len(work_queue'[t]) /\ work_queue'[t] = Tail(q)
      BY <1>4, <2>1 DEF Queue
    <3>1. n \in 1..(Len(q) - 1) /\ n + 1 \in 1..Len(q)
      BY <1>2, <3>0
    <3>2. n + 1 \in Queue(t)
      BY <2>1, <3>1 DEF Queue
    <3> QED
      BY <1>2, <2>1, <3>0, <3>1, <3>2
  <2>2. CASE t # w
    BY <1>4, <2>2 DEF Queue
  <2> QED
    BY <2>1, <2>2
<1> QED
  BY <1>3, <1>4, <1>5, <1>6

\* The responses are written once per request, by whoever has it.
LEMMA ResponseKeepsAnswers ==
    ASSUME ItemInv, AnswerInv, NEW e \in Executors, WriteResponse(e)
    PROVE  AnswerInv'
<1>1. /\ pc[e] = "respond" /\ pc' = [pc EXCEPT ![e] = "finish"]
      /\ UNCHANGED <<req, region, work_queue, buf, rc, headless>>
  BY DEF WriteResponse, Goto, bufferVars, queueVars
<1>2. pc'[e] = "finish" /\ \A f \in Executors \ {e} : pc'[f] = pc[f]
  BY <1>1 DEF ItemInv, ItemTypes
<1>3. \A f : IdOf(f)' = IdOf(f)
  BY <1>1 DEF IdOf
<1>4. IdOf(e) \in Ids /\ IdOf(e) \in 1..Len(req) /\ answered[IdOf(e)] = 0
  BY <1>1, HeldIds DEF Idle, AnswerInv, Early
<1>5. \A t \in Threads : Queue(t)' = Queue(t)
  BY <1>1 DEF Queue
<1>6. /\ answered' \in [Ids -> 0..MaxAnswers]
      /\ \A i \in Ids \ {IdOf(e)} : answered'[i] = answered[i]
      /\ answered'[IdOf(e)] = IF headless[e] THEN 0 ELSE 1
  <2>1. CASE headless[e]
    BY <1>4, <2>1 DEF WriteResponse, AnswerInv
  <2>2. CASE ~headless[e]
    <3>1. answered' = [answered EXCEPT ![IdOf(e)] = @ + 1]
      BY <2>2 DEF WriteResponse
    <3> QED
      BY <1>4, <2>2, <3>1 DEF AnswerInv, MaxAnswers
  <2> QED
    BY <2>1, <2>2
<1>7. \A f \in Executors \ {e} : pc[f] \in Early \cup {"finish", "error"} =>
        answered'[IdOf(f)] = answered[IdOf(f)]
  <2> SUFFICES ASSUME NEW f \in Executors \ {e},
                      pc[f] \in Early \cup {"finish", "error"}
               PROVE  answered'[IdOf(f)] = answered[IdOf(f)]
    OBVIOUS
  <2>1. pc[f] \notin Idle \cup {"read"} /\ pc[e] \notin Idle \cup {"read"}
    BY <1>1 DEF Early, Idle
  <2>2. IdOf(f) \in Ids /\ IdOf(f) # IdOf(e)
    BY <2>1, HeldIds, HeldApart
  <2> QED
    BY <1>6, <2>2
<1>8. \A t \in Threads : \A n \in Queue(t) :
        answered'[region[work_queue[t][n]]] = 0
  <2> SUFFICES ASSUME NEW t \in Threads, NEW n \in Queue(t)
               PROVE  answered'[region[work_queue[t][n]]] = 0
    OBVIOUS
  <2>1. /\ region[work_queue[t][n]] # IdOf(e) /\ region[work_queue[t][n]] \in Ids
    BY <1>1, QueuedIds, QueuedApart DEF Idle
  <2> QED
    BY <1>6, <2>1 DEF AnswerInv
<1>9. \A i \in Ids : i > Len(req') => answered'[i] = 0
  BY <1>1, <1>4, <1>6 DEF AnswerInv
<1>10. \A f \in Executors : pc'[f] \in Early => answered'[IdOf(f)'] = 0
  BY <1>2, <1>3, <1>7 DEF AnswerInv, Early
<1>11. \A f \in Executors : pc'[f] = "finish" =>
         answered'[IdOf(f)'] = IF headless'[f] THEN 0 ELSE 1
  BY <1>1, <1>2, <1>3, <1>6, <1>7 DEF AnswerInv
<1>12. pc'[Dispatcher] = "error" => answered'[IdOf(Dispatcher)'] < MaxAnswers
  BY <1>1, <1>2, <1>3, <1>7, Names DEF AnswerInv
<1> QED
  BY <1>1, <1>5, <1>6, <1>8, <1>9, <1>10, <1>11, <1>12 DEF AnswerInv

\* The dispatcher's own report is the only other answer.
LEMMA ErrorKeepsAnswers ==
    ASSUME ItemInv, AnswerInv, send_dispatch_error_response
    PROVE  AnswerInv'
<1>1. /\ pc[Dispatcher] = "error" /\ pc' = [pc EXCEPT ![Dispatcher] = "reserve"]
      /\ buf' = [buf EXCEPT ![Dispatcher] = None]
      /\ answered' = [answered EXCEPT ![IdOf(Dispatcher)] = @ + 1]
      /\ UNCHANGED <<req, region, work_queue, rc, headless>>
  BY DEF send_dispatch_error_response, Goto, queueVars
<1>2. /\ pc'[Dispatcher] = "reserve"
      /\ \A f \in Executors \ {Dispatcher} : pc'[f] = pc[f] /\ buf'[f] = buf[f]
  BY <1>1, Names DEF ItemInv, ItemTypes
<1>3. \A f \in Executors \ {Dispatcher} : IdOf(f)' = IdOf(f)
  BY <1>1, <1>2 DEF IdOf
<1>4. /\ IdOf(Dispatcher) \in Ids /\ IdOf(Dispatcher) \in 1..Len(req)
      /\ answered[IdOf(Dispatcher)] < MaxAnswers
  BY <1>1, HeldIds, Names DEF Idle, AnswerInv
<1>5. \A t \in Threads : Queue(t)' = Queue(t)
  BY <1>1 DEF Queue
<1>6. /\ answered' \in [Ids -> 0..MaxAnswers]
      /\ \A i \in Ids \ {IdOf(Dispatcher)} : answered'[i] = answered[i]
  <2>1. answered[IdOf(Dispatcher)] + 1 \in 0..MaxAnswers
    BY <1>4 DEF AnswerInv, MaxAnswers
  <2> QED
    BY <1>1, <1>4, <2>1 DEF AnswerInv
<1>7. \A f \in Executors \ {Dispatcher} : pc[f] \in Early \cup {"finish"} =>
        answered'[IdOf(f)] = answered[IdOf(f)]
  <2> SUFFICES ASSUME NEW f \in Executors \ {Dispatcher},
                      pc[f] \in Early \cup {"finish"}
               PROVE  answered'[IdOf(f)] = answered[IdOf(f)]
    OBVIOUS
  <2>1. pc[f] \notin Idle \cup {"read"} /\ pc[Dispatcher] \notin Idle \cup {"read"}
    BY <1>1 DEF Early, Idle
  <2>2. IdOf(f) \in Ids /\ IdOf(f) # IdOf(Dispatcher)
    BY <2>1, HeldIds, HeldApart, Names
  <2> QED
    BY <1>6, <2>2
<1>8. \A t \in Threads : \A n \in Queue(t) :
        answered'[region[work_queue[t][n]]] = 0
  <2> SUFFICES ASSUME NEW t \in Threads, NEW n \in Queue(t)
               PROVE  answered'[region[work_queue[t][n]]] = 0
    OBVIOUS
  <2>1. /\ region[work_queue[t][n]] # IdOf(Dispatcher)
        /\ region[work_queue[t][n]] \in Ids
    BY <1>1, QueuedIds, QueuedApart, Names DEF Idle
  <2> QED
    BY <1>6, <2>1 DEF AnswerInv
<1>9. \A i \in Ids : i > Len(req') => answered'[i] = 0
  BY <1>1, <1>4, <1>6 DEF AnswerInv
<1>10. \A f \in Executors : pc'[f] \in Early => answered'[IdOf(f)'] = 0
  BY <1>2, <1>3, <1>7 DEF AnswerInv, Early
<1>11. \A f \in Executors : pc'[f] = "finish" =>
         answered'[IdOf(f)'] = IF headless'[f] THEN 0 ELSE 1
  BY <1>1, <1>2, <1>3, <1>7 DEF AnswerInv
<1> QED
  BY <1>1, <1>2, <1>5, <1>6, <1>8, <1>9, <1>10, <1>11 DEF AnswerInv

\* The request that is read has not been answered.
LEMMA ReadKeepsAnswers ==
    ASSUME ItemInv, AnswerInv, NEW r \in Requests, ReadRequest(r)
    PROVE  AnswerInv'
<1>1. PICK b \in Buffers : b = buf[Dispatcher]
  BY Names DEF ReadRequest, ItemInv, ItemTypes, Steps, Idle
<1>2. /\ pc[Dispatcher] = "read" /\ pc' = [pc EXCEPT ![Dispatcher] = "assign"]
      /\ Len(req) < MaxRequests
      /\ region' = [region EXCEPT ![b] = Len(req) + 1]
      /\ UNCHANGED <<answered, work_queue, buf, rc, headless>>
  BY <1>1 DEF ReadRequest, Goto, queueVars
<1>3. Len(req) \in Nat /\ Len(req') = Len(req) + 1
  BY AppendProperties, LenProperties DEF ReadRequest, ItemInv, ItemTypes
<1>4. Len(req) + 1 \in Ids
  BY <1>2, <1>3, DispatchAssumption DEF Ids
<1>5. /\ pc'[Dispatcher] = "assign"
      /\ \A f \in Executors \ {Dispatcher} : pc'[f] = pc[f]
  BY <1>2, Names DEF ItemInv, ItemTypes
<1>6. /\ region'[b] = Len(req) + 1
      /\ \A c \in Buffers \ {b} : region'[c] = region[c]
  BY <1>2 DEF ItemInv, ItemTypes
<1>7. \A f \in Executors \ {Dispatcher} :
        pc[f] \in Early \cup {"finish"} => IdOf(f)' = IdOf(f)
  <2> SUFFICES ASSUME NEW f \in Executors \ {Dispatcher},
                      pc[f] \in Early \cup {"finish"}
               PROVE  IdOf(f)' = IdOf(f)
    OBVIOUS
  <2>1. buf[f] \in Buffers /\ buf[f] # b
    BY <1>1, HeldIds, Names DEF ItemInv, Apart, Early, Idle
  <2> QED
    BY <1>2, <1>6, <2>1 DEF IdOf
<1>8. \A t \in Threads : Queue(t)' = Queue(t)
  BY <1>2 DEF Queue
<1>9. \A t \in Threads : \A n \in Queue(t) :
        answered[region'[work_queue[t][n]]] = 0
  <2> SUFFICES ASSUME NEW t \in Threads, NEW n \in Queue(t)
               PROVE  answered[region'[work_queue[t][n]]] = 0
    OBVIOUS
  <2>1. work_queue[t][n] \in Buffers /\ work_queue[t][n] # b
    BY <1>1, QueuedIds, Names DEF ItemInv, Apart
  <2> QED
    BY <1>6, <2>1 DEF AnswerInv
<1>10. answered[IdOf(Dispatcher)'] = 0
  BY <1>1, <1>2, <1>3, <1>4, <1>6 DEF IdOf, AnswerInv
<1>11. \A f \in Executors : pc'[f] \in Early => answered'[IdOf(f)'] = 0
  BY <1>2, <1>5, <1>7, <1>10 DEF AnswerInv
<1>12. \A f \in Executors : pc'[f] = "finish" =>
         answered'[IdOf(f)'] = IF headless'[f] THEN 0 ELSE 1
  BY <1>2, <1>5, <1>7 DEF AnswerInv
<1>13. \A i \in Ids : i > Len(req') => answered'[i] = 0
  BY <1>2, <1>3 DEF AnswerInv, Ids
<1> QED
  BY <1>2, <1>5, <1>8, <1>9, <1>11, <1>12, <1>13 DEF AnswerInv

\* A buffer that comes or goes takes no answer with it.
LEMMA PassKeepsAnswers ==
    ASSUME ItemInv, AnswerInv,
           \/ reserve_available_buffer_item
           \/ Enqueue
           \/ \E t \in Threads : BeginWork(t)
           \/ \E e \in Executors : FinishItem(e)
    PROVE  AnswerInv'
<1>0. /\ \A t \in Threads : \A n \in Queue(t) : answered[region[work_queue[t][n]]] = 0
      /\ answered \in [Ids -> 0..MaxAnswers]
      /\ \A e \in Executors : pc[e] \in Early => answered[IdOf(e)] = 0
      /\ \A e \in Executors : pc[e] = "finish" =>
           answered[IdOf(e)] = IF headless[e] THEN 0 ELSE 1
      /\ \A e \in Executors : rc[e] # 0 => headless[e] \/ "npfctl" \in Faults
  BY DEF AnswerInv
<1>1. CASE reserve_available_buffer_item
  <2>1. /\ UNCHANGED <<req, region, answered, work_queue, rc, headless>>
        /\ \/ UNCHANGED <<buf, pc>>
           \/ \E b : /\ buf' = [buf EXCEPT ![Dispatcher] = b]
                     /\ Goto(Dispatcher, "read")
    BY <1>1, Zenon DEF reserve_available_buffer_item, pvmVars, queueVars
  <2>2. /\ pc[Dispatcher] = "reserve"
        /\ pc'[Dispatcher] \in {"reserve", "read"}
        /\ \A f \in Executors \ {Dispatcher} : pc'[f] = pc[f] /\ buf'[f] = buf[f]
    BY <1>1, <2>1, Names
       DEF reserve_available_buffer_item, ItemInv, ItemTypes, Goto
  <2>3. ResultOf(Dispatcher)
    BY <2>1, SameResults
  <2>4. \A t \in Threads : \A n \in Queue(t)' :
          answered[region[work_queue'[t][n]]] = 0
    BY <1>0, <2>1 DEF Queue
  <2>5. pc'[Dispatcher] \notin Early \cup {"finish", "error"}
    BY <2>2 DEF Early
  <2> QED
    BY <2>1, <2>2, <2>3, <2>4, <2>5, AnswerPasses, Names
<1>2. CASE Enqueue
  <2>1. ResultOf(Dispatcher)
    BY <1>2, EnqueueAdds, SameResults
  <2>2. answered[region[buf[Dispatcher]]] = 0
    BY <1>0, <1>2, Names DEF Enqueue, Early, IdOf
  <2>3. \A t \in Threads : \A n \in Queue(t)' :
          answered[region[work_queue'[t][n]]] = 0
    BY <1>0, <1>2, <2>2, EnqueueAdds
  <2>4. UNCHANGED <<req, region, answered>>
    BY <1>2 DEF Enqueue, pvmVars, bufferVars
  <2>5. /\ pc'[Dispatcher] \notin Early \cup {"finish", "error"}
        /\ \A f \in Executors \ {Dispatcher} : pc'[f] = pc[f] /\ buf'[f] = buf[f]
    BY <1>2, EnqueueAdds DEF Early
  <2> QED
    BY <2>1, <2>3, <2>4, <2>5, AnswerPasses, Names
<1>3. ASSUME NEW w \in Threads, BeginWork(w) PROVE AnswerInv'
  <2>0. /\ UNCHANGED <<req, region, answered, rc, headless>> /\ w \in Executors
    BY <1>3, Names DEF BeginWork, pvmVars, bufferVars
  <2>1. ResultOf(w)
    BY <2>0, SameResults
  <2>2. CASE work_queue[w] = <<>>
    <3>1. UNCHANGED <<work_queue, buf, pc>>
      BY <1>3, <2>2 DEF BeginWork
    <3>2. \A t \in Threads : \A n \in Queue(t)' :
            answered[region[work_queue'[t][n]]] = 0
      BY <1>0, <3>1 DEF Queue
    <3>3. pc'[w] \notin Early \cup {"finish", "error"}
      BY <1>3, <3>1 DEF BeginWork, Early
    <3> QED
      BY <2>0, <2>1, <3>1, <3>2, <3>3, AnswerPasses
  <2>3. CASE work_queue[w] # <<>>
    <3>1. \A t \in Threads : \A n \in Queue(t)' :
            answered[region[work_queue'[t][n]]] = 0
      <4> SUFFICES ASSUME NEW t \in Threads, NEW n \in Queue(t)'
                   PROVE  answered[region[work_queue'[t][n]]] = 0
        OBVIOUS
      <4>1. PICK m \in Queue(t) : work_queue'[t][n] = work_queue[t][m]
        BY <1>3, <2>3, BeginTakes
      <4> QED
        BY <1>0, <4>1
    <3>2. /\ answered[region[buf'[w]]] = 0 /\ pc'[w] = "operate"
          /\ \A f \in Executors \ {w} : pc'[f] = pc[f] /\ buf'[f] = buf[f]
      BY <1>0, <1>3, <2>3, BeginTakes
    <3> QED
      BY <2>0, <2>1, <3>1, <3>2, AnswerPasses
  <2> QED
    BY <2>2, <2>3
<1>4. ASSUME NEW e \in Executors, FinishItem(e) PROVE AnswerInv'
  <2>1. /\ pc[e] = "finish" /\ UNCHANGED <<req, region, answered, work_queue>>
        /\ rc' = [rc EXCEPT ![e] = 0]
        /\ headless' = [headless EXCEPT ![e] = FALSE]
        /\ \/ Goto(e, "error") /\ buf' = buf /\ rc[e] # 0
           \/ /\ Goto(e, IF e = Dispatcher THEN "reserve" ELSE "wait")
              /\ buf' = [buf EXCEPT ![e] = None]
    BY <1>4, Zenon DEF FinishItem, ReportsError, pvmVars, queueVars
  <2>2. ResultOf(e)
    <3>1. rc \in [Executors -> {0, -1}] /\ headless \in [Executors -> BOOLEAN]
      BY DEF AnswerInv
    <3>2. /\ rc' \in [Executors -> {0, -1}] /\ headless' \in [Executors -> BOOLEAN]
          /\ rc'[e] = 0
          /\ \A f \in Executors \ {e} : headless'[f] = headless[f] /\ rc'[f] = rc[f]
      BY <2>1, <3>1
    <3> QED
      BY <1>0, <3>2, Zenon DEF ResultOf
  <2>3. \A f \in Executors \ {e} : pc'[f] = pc[f] /\ buf'[f] = buf[f]
    BY <2>1 DEF ItemInv, ItemTypes, Goto
  <2>4. \/ pc'[e] = "error" /\ buf'[e] = buf[e] /\ rc[e] # 0
        \/ pc'[e] \in {"reserve", "wait"}
    BY <2>1 DEF ItemInv, ItemTypes, Goto
  <2>5. rc[e] # 0 => answered[region[buf[e]]] < MaxAnswers
    <3> SUFFICES ASSUME rc[e] # 0 PROVE answered[region[buf[e]]] < MaxAnswers
      OBVIOUS
    <3>1. headless[e] \/ "npfctl" \in Faults
      BY <1>0
    <3>2. answered[region[buf[e]]] = IF headless[e] THEN 0 ELSE 1
      BY <1>0, <2>1 DEF IdOf
    <3> QED
      BY <3>1, <3>2 DEF MaxAnswers
  <2>6. \A t \in Threads : \A n \in Queue(t)' :
          answered[region[work_queue'[t][n]]] = 0
    BY <1>0, <2>1 DEF Queue
  <2>7. pc'[e] \notin Early \cup {"finish"}
    BY <2>4 DEF Early
  <2>8. pc'[e] = "error" => answered[region[buf'[e]]] < MaxAnswers
    BY <2>4, <2>5
  <2> QED
    BY <2>1, <2>2, <2>3, <2>6, <2>7, <2>8, AnswerPasses
<1> QED
  BY <1>1, <1>2, <1>3, <1>4

\* Every step keeps the count of answers.
LEMMA AnswerInvPreserved ==
    ItemInv /\ AnswerInv /\ [Next]_vars => AnswerInv'
<1> SUFFICES ASSUME ItemInv, AnswerInv, [Next]_vars PROVE AnswerInv'
  OBVIOUS
<1>1. CASE \E r \in Requests : ReadRequest(r)
  BY <1>1, ReadKeepsAnswers
<1>2. CASE assign_work_to_thread
  <2>1. /\ pc[Dispatcher] = "assign"
        /\ UNCHANGED <<req, region, work_queue, buf, answered, rc, headless>>
    BY <1>2 DEF assign_work_to_thread, pvmVars, queueVars
  <2>2. \E x \in Early \cup {"error"} : pc' = [pc EXCEPT ![Dispatcher] = x]
    <3>1. \/ Goto(Dispatcher, "operate") \/ Goto(Dispatcher, "error")
          \/ Goto(Dispatcher, IF TypeOf(Dispatcher) \in OplockTypes THEN "oplock"
               ELSE IF TypeOf(Dispatcher) \in QueuedTypes THEN "enqueue"
               ELSE "operate")
      BY <1>2, Zenon DEF assign_work_to_thread
    <3> QED
      BY <3>1 DEF Goto, Early
  <2>3. PICK x \in Early \cup {"error"} : pc' = [pc EXCEPT ![Dispatcher] = x]
    BY <2>2
  <2>4. ResultOf(Dispatcher) /\ pc[Dispatcher] \in Early
    BY <2>1, SameResults DEF Early
  <2> QED
    BY <2>1, <2>3, <2>4, AnswerMoves, Names
<1>3. CASE AcquireOplock
  <2>1. /\ pc[Dispatcher] = "oplock"
        /\ UNCHANGED <<req, region, work_queue, buf, answered, rc, headless>>
        /\ Goto(Dispatcher, IF TypeOf(Dispatcher) \in QueuedTypes
                            THEN "enqueue" ELSE "operate")
    BY <1>3 DEF AcquireOplock, pvmVars, queueVars, bufferVars
  <2>2. PICK x \in Early \cup {"error"} : pc' = [pc EXCEPT ![Dispatcher] = x]
    BY <2>1 DEF Goto, Early
  <2>3. ResultOf(Dispatcher) /\ pc[Dispatcher] \in Early
    BY <2>1, SameResults DEF Early
  <2> QED
    BY <2>1, <2>2, <2>3, AnswerMoves, Names
<1>4. CASE send_dispatch_error_response
  BY <1>4, ErrorKeepsAnswers
<1>5. ASSUME NEW e \in Executors, Operation(e) PROVE AnswerInv'
  <2>1. /\ pc[e] = "operate" /\ (Goto(e, "respond") \/ Goto(e, "publish"))
        /\ UNCHANGED <<req, region, work_queue, buf, answered>>
    BY <1>5, OperationMoves, Zenon DEF bufferVars, queueVars
  <2>2. PICK x \in Early \cup {"error"} : pc' = [pc EXCEPT ![e] = x]
    BY <2>1 DEF Goto, Early
  <2>3. ResultOf(e)
    BY <1>5, OperationResultOf
  <2>4. pc[e] \in Early
    BY <1>5, OperationMoves DEF Early
  <2>5. UNCHANGED <<req, region, work_queue, buf, answered>>
    BY <1>5, OperationMoves, Zenon DEF bufferVars, queueVars
  <2> QED
    BY <2>2, <2>3, <2>4, <2>5, AnswerMoves
<1>6. ASSUME NEW e \in Executors, PublishPorts(e) PROVE AnswerInv'
  <2>1. /\ pc[e] = "publish" /\ pc' = [pc EXCEPT ![e] = "respond"]
        /\ UNCHANGED <<req, region, work_queue, buf, answered, rc, headless>>
    BY <1>6 DEF PublishPorts, Goto, pvmVars, bufferVars, queueVars
  <2>2. ResultOf(e)
    BY <2>1, SameResults
  <2>3. "respond" \in Early \cup {"error"} /\ pc[e] \in Early
    BY <2>1 DEF Early
  <2> QED
    BY <2>1, <2>2, <2>3, AnswerMoves
<1>7. ASSUME NEW e \in Executors, WriteResponse(e) PROVE AnswerInv'
  BY <1>7, ResponseKeepsAnswers
<1>8. CASE \/ reserve_available_buffer_item \/ Enqueue
           \/ \E t \in Threads : BeginWork(t)
           \/ \E e \in Executors : FinishItem(e)
  BY <1>8, PassKeepsAnswers
<1>9. CASE UNCHANGED vars
  <2>1. UNCHANGED <<req, region, work_queue, buf, answered, rc, headless, pc>>
    BY <1>9 DEF vars, pvmVars, bufferVars, queueVars, threadVars
  <2>2. \A f : IdOf(f)' = IdOf(f) /\ Queue(f)' = Queue(f)
    BY <2>1 DEF IdOf, Queue
  <2> QED
    BY <2>1, <2>2, Zenon DEF AnswerInv
<1> QED
  BY <1>1, <1>2, <1>3, <1>4, <1>5, <1>6, <1>7, <1>8, <1>9
     DEF Next, Dispatch, Process

\* The answers are always counted.
LEMMA AnswersAlways == Spec => []AnswerInv
  BY AnswerInvInitially, AnswerInvPreserved, ItemsAlways, PTL DEF Spec

\* A request that the code may answer twice.
Twice(i) == req[i].type = "AddrBlock" /\ "npfctl" \in Faults

\* No other is: an error is left to report only where there is no response, or
\* for such a request.
OnceInv ==
    /\ \A i \in Ids : answered[i] > 1 => Twice(i)
    /\ pc[Dispatcher] = "error" =>
         answered[IdOf(Dispatcher)] = 0 \/ Twice(IdOf(Dispatcher))
    /\ \A e \in Executors : rc[e] # 0 =>
         headless[e] \/ (pc[e] \in {"respond", "finish"} /\ Twice(IdOf(e)))

\* Steps of an executor that answer nothing, for a request it has.
LEMMA OnceFrame ==
    ASSUME ItemInv, AnswerInv, OnceInv, UNCHANGED <<req, region, answered>>,
           NEW e \in Executors,
           \A f \in Executors \ {e} :
             /\ pc'[f] = pc[f] /\ buf'[f] = buf[f]
             /\ rc'[f] = rc[f] /\ headless'[f] = headless[f],
           e = Dispatcher /\ pc'[e] = "error" =>
             answered[region[buf'[e]]] = 0 \/ Twice(region[buf'[e]]),
           rc'[e] # 0 => headless'[e]
             \/ (pc'[e] \in {"respond", "finish"} /\ Twice(region[buf'[e]]))
    PROVE  OnceInv'
<1>1. \A i : Twice(i)' <=> Twice(i)
  BY DEF Twice
<1>2. \A f \in Executors \ {e} : IdOf(f)' = IdOf(f)
  BY DEF IdOf
<1>3. IdOf(e)' = region[buf'[e]]
  BY DEF IdOf
<1>4. \A i \in Ids : answered'[i] > 1 => Twice(i)'
  BY <1>1 DEF OnceInv
<1>5. pc'[Dispatcher] = "error" =>
        answered'[IdOf(Dispatcher)'] = 0 \/ Twice(IdOf(Dispatcher))'
  <2>1. CASE e = Dispatcher
    BY <1>1, <1>3, <2>1 DEF Twice
  <2>2. CASE e # Dispatcher
    BY <1>2, <2>2, Names DEF OnceInv, Twice
  <2> QED
    BY <2>1, <2>2
<1>6. ASSUME NEW f \in Executors, rc'[f] # 0
      PROVE  headless'[f] \/ (pc'[f] \in {"respond", "finish"} /\ Twice(IdOf(f))')
  <2>1. CASE f = e
    BY <1>3, <1>6, <2>1 DEF Twice
  <2>2. CASE f # e
    BY <1>2, <1>6, <2>2 DEF OnceInv, Twice
  <2> QED
    BY <2>1, <2>2
<1> QED
  BY <1>4, <1>5, <1>6 DEF OnceInv

\* The request that is read is a new one and has no answer.
LEMMA ReadKeepsOnce ==
    ASSUME ItemInv, AnswerInv, OnceInv, NEW r \in Requests, ReadRequest(r)
    PROVE  OnceInv'
<1>1. PICK b \in Buffers : b = buf[Dispatcher]
  BY Names DEF ReadRequest, ItemInv, ItemTypes, Steps, Idle
<1>2. /\ pc[Dispatcher] = "read" /\ pc' = [pc EXCEPT ![Dispatcher] = "assign"]
      /\ region' = [region EXCEPT ![b] = Len(req) + 1]
      /\ UNCHANGED <<answered, buf, rc, headless>>
      /\ \E x : req' = Append(req, x)
  BY <1>1 DEF ReadRequest, Goto
<1>3. /\ Len(req) \in Nat /\ \A i \in 1..Len(req) : req'[i] = req[i]
  BY <1>2, AppendProperties, LenProperties DEF ItemInv, ItemTypes
<1>4. \A i \in 1..Len(req) : Twice(i) => Twice(i)'
  BY <1>3 DEF Twice
<1>5. \A i \in Ids : answered'[i] > 1 => Twice(i)'
  BY <1>2, <1>3, <1>4 DEF OnceInv, AnswerInv, Ids
<1>6. /\ pc'[Dispatcher] = "assign"
      /\ \A f \in Executors \ {Dispatcher} : pc'[f] = pc[f]
  BY <1>2, Names DEF ItemInv, ItemTypes
<1>7. ASSUME NEW f \in Executors, pc[f] \in {"respond", "finish"}, Twice(IdOf(f))
      PROVE  pc'[f] \in {"respond", "finish"} /\ Twice(IdOf(f))'
  <2>1. f # Dispatcher
    BY <1>2, <1>7
  <2>2. buf[f] \in Buffers \ {b} /\ IdOf(f) \in 1..Len(req)
    BY <1>1, <1>7, <2>1, HeldIds, Names DEF ItemInv, Apart, Idle
  <2>3. IdOf(f)' = IdOf(f)
    BY <1>2, <2>2 DEF IdOf, ItemInv, ItemTypes
  <2>4. req'[IdOf(f)'] = req[IdOf(f)]
    BY <1>3, <2>2, <2>3
  <2> QED
    BY <1>6, <1>7, <2>1, <2>4 DEF Twice
<1> QED
  BY <1>2, <1>5, <1>6, <1>7 DEF OnceInv

\* Every step leaves no second report but of such a request.
LEMMA OnceInvPreserved ==
    ItemInv /\ AnswerInv /\ OnceInv /\ [Next]_vars => OnceInv'
<1> SUFFICES ASSUME ItemInv, AnswerInv, OnceInv, [Next]_vars PROVE OnceInv'
  OBVIOUS
<1>0. /\ Dispatcher \in Executors /\ Threads \subseteq Executors
      /\ pc \in [Executors -> AllSteps] /\ buf \in [Executors -> Buffers \cup {None}]
      /\ rc \in [Executors -> {0, -1}] /\ headless \in [Executors -> BOOLEAN]
      /\ answered \in [Ids -> 0..MaxAnswers]
  BY Names DEF ItemInv, ItemTypes, AnswerInv
\* An executor that has no result yet.
<1>1. ASSUME NEW e \in Executors, UNCHANGED <<req, region, answered, rc, headless>>,
             pc[e] \notin {"respond", "finish"},
             \A f \in Executors \ {e} : pc'[f] = pc[f] /\ buf'[f] = buf[f],
             e = Dispatcher /\ pc'[e] = "error" =>
               pc[e] \in Early /\ buf'[e] = buf[e]
      PROVE  OnceInv'
  <2>1. rc[e] # 0 => headless[e]
    BY <1>1 DEF OnceInv
  <2>2. pc[e] \in Early => answered[region[buf[e]]] = 0
    BY DEF AnswerInv, IdOf
  <2> QED
    BY <1>1, <2>1, <2>2, OnceFrame
<1>2. CASE reserve_available_buffer_item
  <2>1. /\ pc[Dispatcher] = "reserve"
        /\ UNCHANGED <<req, region, answered, rc, headless>>
        /\ \/ UNCHANGED <<buf, pc>>
           \/ \E b : /\ buf' = [buf EXCEPT ![Dispatcher] = b]
                     /\ Goto(Dispatcher, "read")
    BY <1>2, Zenon DEF reserve_available_buffer_item, pvmVars
  <2>2. /\ pc'[Dispatcher] # "error"
        /\ \A f \in Executors \ {Dispatcher} : pc'[f] = pc[f] /\ buf'[f] = buf[f]
    BY <1>0, <2>1 DEF Goto
  <2> QED
    BY <1>0, <1>1, <2>1, <2>2
<1>3. CASE assign_work_to_thread
  <2>1. /\ pc[Dispatcher] = "assign"
        /\ UNCHANGED <<req, region, answered, rc, headless, buf>>
        /\ \E x : Goto(Dispatcher, x)
    BY <1>3, Zenon DEF assign_work_to_thread, pvmVars
  <2>2. \A f \in Executors \ {Dispatcher} : pc'[f] = pc[f] /\ buf'[f] = buf[f]
    BY <1>0, <2>1 DEF Goto
  <2> QED
    BY <1>0, <1>1, <2>1, <2>2 DEF Early
<1>4. CASE AcquireOplock
  <2>1. /\ pc[Dispatcher] = "oplock"
        /\ UNCHANGED <<req, region, answered, rc, headless, buf>>
        /\ \E x : Goto(Dispatcher, x)
    BY <1>4, Zenon DEF AcquireOplock, pvmVars, bufferVars
  <2>2. \A f \in Executors \ {Dispatcher} : pc'[f] = pc[f] /\ buf'[f] = buf[f]
    BY <1>0, <2>1 DEF Goto
  <2> QED
    BY <1>0, <1>1, <2>1, <2>2 DEF Early
<1>5. CASE Enqueue
  <2>1. UNCHANGED <<req, region, answered, rc, headless>>
    BY <1>5 DEF Enqueue, pvmVars, bufferVars
  <2> QED
    BY <1>0, <1>1, <1>5, <2>1, EnqueueAdds
<1>6. ASSUME NEW w \in Threads, BeginWork(w) PROVE OnceInv'
  <2>1. UNCHANGED <<req, region, answered, rc, headless>> /\ pc[w] = "wait"
    BY <1>6 DEF BeginWork, pvmVars, bufferVars
  <2>2. \A f \in Executors \ {w} : pc'[f] = pc[f] /\ buf'[f] = buf[f]
    BY <1>0, <1>6 DEF BeginWork, Goto
  <2> QED
    BY <1>0, <1>1, <2>1, <2>2, Names
<1>7. ASSUME NEW e \in Executors, PublishPorts(e) PROVE OnceInv'
  <2>1. /\ pc[e] = "publish" /\ pc' = [pc EXCEPT ![e] = "respond"]
        /\ UNCHANGED <<req, region, answered, rc, headless, buf>>
    BY <1>7 DEF PublishPorts, Goto, pvmVars, bufferVars
  <2>2. pc'[e] = "respond" /\ \A f \in Executors \ {e} : pc'[f] = pc[f]
    BY <1>0, <2>1
  <2> QED
    BY <1>1, <2>1, <2>2
<1>8. ASSUME NEW e \in Executors, FinishItem(e) PROVE OnceInv'
  <2>1. /\ pc[e] = "finish" /\ UNCHANGED <<req, region, answered>>
        /\ rc' = [rc EXCEPT ![e] = 0]
        /\ headless' = [headless EXCEPT ![e] = FALSE]
        /\ \/ Goto(e, "error") /\ buf' = buf /\ rc[e] # 0
           \/ /\ Goto(e, IF e = Dispatcher THEN "reserve" ELSE "wait")
              /\ buf' = [buf EXCEPT ![e] = None]
    BY <1>8, Zenon DEF FinishItem, ReportsError, pvmVars
  <2>2. /\ \A f \in Executors \ {e} :
             /\ pc'[f] = pc[f] /\ buf'[f] = buf[f]
             /\ rc'[f] = rc[f] /\ headless'[f] = headless[f]
        /\ rc'[e] = 0
    BY <1>0, <2>1 DEF Goto
  <2>3. \/ pc'[e] = "error" /\ buf'[e] = buf[e] /\ rc[e] # 0
        \/ pc'[e] \in {"reserve", "wait"}
    BY <1>0, <2>1 DEF Goto
  <2>4. rc[e] # 0 => answered[region[buf[e]]] = 0 \/ Twice(region[buf[e]])
    BY <2>1 DEF OnceInv, AnswerInv, IdOf
  <2> QED
    BY <2>1, <2>2, <2>3, <2>4, OnceFrame
<1>9. ASSUME NEW e \in Executors, Operation(e) PROVE OnceInv'
  <2>1. PICK c \in {0, -1}, h \in BOOLEAN :
          /\ rc' = [rc EXCEPT ![e] = c] /\ headless' = [headless EXCEPT ![e] = h]
          /\ c = 0 \/ h \/ ("npfctl" \in Faults /\ TypeOf(e) = "AddrBlock")
    BY <1>9, OperationResult
  <2>2. /\ UNCHANGED <<req, region, answered, buf>>
        /\ \/ Goto(e, "respond")
           \/ Goto(e, "publish") /\ TypeOf(e) \in {"Bind", "Close"}
    BY <1>9, OperationMoves DEF bufferVars
  <2>3. /\ \A f \in Executors \ {e} :
             /\ pc'[f] = pc[f] /\ rc'[f] = rc[f] /\ headless'[f] = headless[f]
        /\ rc'[e] = c /\ headless'[e] = h /\ pc'[e] \in {"respond", "publish"}
        /\ TypeOf(e) = "AddrBlock" => pc'[e] = "respond"
    BY <1>0, <2>1, <2>2 DEF Goto
  <2>4. TypeOf(e) = "AddrBlock" /\ "npfctl" \in Faults => Twice(region[buf[e]])
    BY DEF TypeOf, IdOf, Twice
  <2>5. rc'[e] # 0 => headless'[e]
          \/ (pc'[e] \in {"respond", "finish"} /\ Twice(region[buf'[e]]))
    BY <2>1, <2>2, <2>3, <2>4
  <2> QED
    BY <2>2, <2>3, <2>5, OnceFrame
<1>10. ASSUME NEW e \in Executors, WriteResponse(e) PROVE OnceInv'
  <2>1. /\ pc[e] = "respond" /\ pc' = [pc EXCEPT ![e] = "finish"]
        /\ UNCHANGED <<req, region, buf, rc, headless>>
        /\ \/ UNCHANGED answered
           \/ answered' = [answered EXCEPT ![IdOf(e)] = @ + 1]
    BY <1>10, Zenon DEF WriteResponse, Goto, bufferVars
  <2>2. pc'[e] = "finish" /\ \A f \in Executors \ {e} : pc'[f] = pc[f]
    BY <1>0, <2>1
  <2>3. IdOf(e) \in Ids /\ answered[IdOf(e)] = 0
    BY <2>1, HeldIds DEF Idle, AnswerInv, Early
  <2>4. /\ answered'[IdOf(e)] <= 1
        /\ \A i \in Ids \ {IdOf(e)} : answered'[i] = answered[i]
    BY <1>0, <2>1, <2>3
  <2>5. \A i : (Twice(i)' <=> Twice(i)) /\ (\A f : IdOf(f)' = IdOf(f))
    BY <2>1 DEF Twice, IdOf
  <2>6. \A i \in Ids : answered'[i] > 1 => Twice(i)'
    <3> SUFFICES ASSUME NEW i \in Ids, answered'[i] > 1 PROVE Twice(i)'
      OBVIOUS
    <3>1. i # IdOf(e)
      BY <2>3, <2>4, <1>0, <2>1
    <3> QED
      BY <2>4, <2>5, <3>1 DEF OnceInv
  <2>7. ASSUME pc'[Dispatcher] = "error"
        PROVE  answered'[IdOf(Dispatcher)'] = 0 \/ Twice(IdOf(Dispatcher))'
    <3>1. e # Dispatcher /\ pc[Dispatcher] = "error"
      BY <1>0, <2>2, <2>7
    <3>2. IdOf(Dispatcher) \in Ids \ {IdOf(e)}
      BY <1>0, <2>1, <3>1, HeldIds, HeldApart DEF Idle
    <3>3. answered'[IdOf(Dispatcher)] = answered[IdOf(Dispatcher)]
      BY <2>4, <3>2
    <3>4. answered[IdOf(Dispatcher)] = 0 \/ Twice(IdOf(Dispatcher))
      BY <3>1 DEF OnceInv
    <3>5. IdOf(Dispatcher)' = IdOf(Dispatcher)
      BY <2>5
    <3> QED
      BY <2>1, <3>3, <3>4, <3>5 DEF Twice
  <2>8. ASSUME NEW f \in Executors, rc'[f] # 0
        PROVE  headless'[f] \/ (pc'[f] \in {"respond", "finish"} /\ Twice(IdOf(f))')
    BY <2>1, <2>2, <2>8 DEF OnceInv, Twice, IdOf
  <2> QED
    BY <2>6, <2>7, <2>8 DEF OnceInv
<1>11. CASE send_dispatch_error_response
  <2>1. /\ pc[Dispatcher] = "error" /\ pc' = [pc EXCEPT ![Dispatcher] = "reserve"]
        /\ buf' = [buf EXCEPT ![Dispatcher] = None]
        /\ answered' = [answered EXCEPT ![IdOf(Dispatcher)] = @ + 1]
        /\ UNCHANGED <<req, region, rc, headless>>
    BY <1>11 DEF send_dispatch_error_response, Goto
  <2>2. /\ pc'[Dispatcher] = "reserve" /\ (rc[Dispatcher] # 0 => headless[Dispatcher])
        /\ \A f \in Executors \ {Dispatcher} : pc'[f] = pc[f] /\ buf'[f] = buf[f]
    BY <1>0, <2>1 DEF OnceInv
  <2>3. \A f \in Executors \ {Dispatcher} : Twice(IdOf(f))' <=> Twice(IdOf(f))
    BY <2>1, <2>2 DEF Twice, IdOf
  <2>4. \A f \in Executors : rc'[f] # 0 =>
          headless'[f] \/ (pc'[f] \in {"respond", "finish"} /\ Twice(IdOf(f))')
    BY <2>1, <2>2, <2>3 DEF OnceInv
  <2>5. ASSUME NEW i \in Ids, answered'[i] > 1 PROVE Twice(i)'
    <3>1. CASE i = IdOf(Dispatcher)
      <4>1. answered[i] = 0 \/ Twice(i)
        BY <2>1, <3>1 DEF OnceInv
      <4>2. answered'[i] = answered[i] + 1
        BY <1>0, <2>1, <2>5, <3>1
      <4> QED
        BY <2>1, <2>5, <4>1, <4>2 DEF Twice
    <3>2. CASE i # IdOf(Dispatcher)
      BY <1>0, <2>1, <2>5, <3>2 DEF OnceInv, Twice
    <3> QED
      BY <3>1, <3>2
  <2> QED
    BY <2>2, <2>4, <2>5 DEF OnceInv
<1>12. CASE UNCHANGED vars
  <2>1. UNCHANGED <<req, region, buf, answered, rc, headless, pc>>
    BY <1>12 DEF vars, pvmVars, bufferVars, threadVars
  <2> QED
    BY <2>1 DEF OnceInv, Twice, IdOf
<1>13. CASE \E r \in Requests : ReadRequest(r)
  BY <1>13, ReadKeepsOnce
<1> QED
  BY <1>2, <1>3, <1>4, <1>5, <1>6, <1>7, <1>8, <1>9, <1>10, <1>11, <1>12, <1>13
     DEF Next, Dispatch, Process

\* For every value of the constants a request is answered at most once, by
\* whichever of the dispatcher and the workers has it: process_buffer_item writes
\* the response, and message_dispatcher reports an error only where that left
\* none.  The one exception is an address block whose npfctl fails, which is
\* answered twice at most.
THEOREM AnsweredAtMostOnce == Spec => []AnsweredOnce
<1>1. Init => OnceInv
  BY Names DEF Init, OnceInv
<1>2. AnswerInv /\ OnceInv => AnsweredOnce
  BY DEF AnswerInv, OnceInv, AnsweredOnce, MaxAnswers, Twice
<1> QED
  BY <1>1, <1>2, OnceInvPreserved, ItemsAlways, AnswersAlways, PTL DEF Spec
-----------------------------------------------------------------------------
\* An oplock that is held is held for an operation still to come.
HeldForWork ==
    \A t \in Threads : oplock_acquired[t] =>
        \/ work_queue[t] # <<>>
        \/ \E e \in Executors : pc[e] \in {"operate", "enqueue"} /\ WorkerOf(e) = t

\* No oplock is held at first.
LEMMA HeldForWorkInitially == Init => HeldForWork
  BY DEF Init, HeldForWork

\* Steps that neither acquire an oplock nor perform an operation, and leave
\* the executors that hold one where they are.
LEMMA HeldForWorkFrame ==
    ASSUME HeldForWork, UNCHANGED oplockVars,
           \A t \in Threads : work_queue[t] # <<>> => work_queue'[t] # <<>>,
           \A e \in Executors : pc[e] \in {"operate", "enqueue"} =>
             pc'[e] = pc[e] /\ WorkerOf(e)' = WorkerOf(e)
    PROVE  HeldForWork'
<1>1. oplock_acquired' = oplock_acquired
  BY DEF oplockVars
<1> QED
  BY <1>1, Zenon DEF HeldForWork

\* The executor that performs an operation works for the thread whose oplock
\* it releases, and for no other.
LEMMA HeldForWorkPreserved ==
    ItemInv /\ OplockInv /\ HeldForWork /\ [Next]_vars => HeldForWork'
<1> SUFFICES ASSUME ItemInv, OplockInv, HeldForWork, [Next]_vars PROVE HeldForWork'
  OBVIOUS
<1>1. CASE \/ reserve_available_buffer_item \/ assign_work_to_thread
           \/ send_dispatch_error_response \/ \E r \in Requests : ReadRequest(r)
  <2>1. /\ pc[Dispatcher] \notin {"operate", "enqueue"}
        /\ UNCHANGED oplockVars /\ UNCHANGED work_queue
    BY <1>1 DEF reserve_available_buffer_item, assign_work_to_thread,
       send_dispatch_error_response, ReadRequest, queueVars
  <2>2. /\ pc \in [Executors -> AllSteps] /\ buf \in [Executors -> Buffers \cup {None}]
        /\ assigned_thread \in [Buffers -> Threads \cup {None}]
    BY DEF ItemInv, ItemTypes
  <2>3. \E x, y : pc' = [pc EXCEPT ![Dispatcher] = x]
                  /\ buf' = [buf EXCEPT ![Dispatcher] = y]
    <3>1. pc = [pc EXCEPT ![Dispatcher] = pc[Dispatcher]]
          /\ buf = [buf EXCEPT ![Dispatcher] = buf[Dispatcher]]
      BY <2>2
    <3>2. CASE reserve_available_buffer_item
      BY <3>1, <3>2, Zenon DEF reserve_available_buffer_item, Goto
    <3>3. CASE assign_work_to_thread
      BY <3>1, <3>3, Zenon DEF assign_work_to_thread, Goto
    <3>4. CASE send_dispatch_error_response
      BY <3>1, <3>4, Zenon DEF send_dispatch_error_response, Goto
    <3>5. CASE \E r \in Requests : ReadRequest(r)
      BY <3>1, <3>5, Zenon DEF ReadRequest, Goto
    <3> QED
      BY <1>1, <3>2, <3>3, <3>4, <3>5
  <2>4. \A f \in Executors \ {Dispatcher} : pc'[f] = pc[f] /\ buf'[f] = buf[f]
    BY <2>2, <2>3
  <2>5. \A c \in Buffers \ {buf[Dispatcher]} : assigned_thread'[c] = assigned_thread[c]
    <3>1. \/ UNCHANGED assigned_thread
          \/ \E y : assigned_thread' = [assigned_thread EXCEPT ![buf[Dispatcher]] = y]
      <4>1. CASE reserve_available_buffer_item
        BY <4>1, Zenon DEF reserve_available_buffer_item
      <4>2. CASE assign_work_to_thread
        BY <4>2, Zenon DEF assign_work_to_thread
      <4>3. CASE send_dispatch_error_response
        BY <4>3, Zenon DEF send_dispatch_error_response, release_buffer_item
      <4>4. CASE \E r \in Requests : ReadRequest(r)
        BY <4>4, Zenon DEF ReadRequest
      <4> QED
        BY <1>1, <4>1, <4>2, <4>3, <4>4
    <3> QED
      BY <2>2, <3>1
  <2>6. \A f \in Executors : pc[f] \in {"operate", "enqueue"} =>
          pc'[f] = pc[f] /\ WorkerOf(f)' = WorkerOf(f)
    <3> SUFFICES ASSUME NEW f \in Executors, pc[f] \in {"operate", "enqueue"}
                 PROVE  pc'[f] = pc[f] /\ WorkerOf(f)' = WorkerOf(f)
      OBVIOUS
    <3>1. f # Dispatcher /\ buf[f] \in Buffers /\ buf[f] # buf[Dispatcher]
      BY <2>1, HeldIds, Names DEF ItemInv, Apart, Idle
    <3> QED
      BY <2>4, <2>5, <3>1 DEF WorkerOf
  <2> QED
    BY <2>1, <2>6, HeldForWorkFrame
<1>2. CASE AcquireOplock
  <2>1. /\ oplock_acquired' =
             [oplock_acquired EXCEPT ![WorkerOf(Dispatcher)] = TRUE]
        /\ pc[Dispatcher] = "oplock"
        /\ Goto(Dispatcher, IF TypeOf(Dispatcher) \in QueuedTypes
                            THEN "enqueue" ELSE "operate")
        /\ UNCHANGED <<work_queue, buf, assigned_thread>>
    BY <1>2 DEF AcquireOplock, queueVars, bufferVars
  <2>2. /\ pc'[Dispatcher] \in {"operate", "enqueue"}
        /\ \A f \in Executors \ {Dispatcher} : pc'[f] = pc[f]
    BY <2>1, Names DEF Goto, ItemInv, ItemTypes
  <2>3. \A f : WorkerOf(f)' = WorkerOf(f)
    BY <2>1 DEF WorkerOf
  <2>4. \A t \in Threads : t # WorkerOf(Dispatcher) =>
          oplock_acquired'[t] = oplock_acquired[t]
    BY <2>1 DEF OplockInv
  <2>5. \A f \in Executors : pc[f] \in {"operate", "enqueue"} =>
          pc'[f] = pc[f]
    BY <2>1, <2>2
  <2> QED
    BY <2>1, <2>2, <2>3, <2>4, <2>5, Names, Zenon DEF HeldForWork
<1>3. CASE Enqueue
  <2>1. /\ \A f \in Executors \ {Dispatcher} :
             pc'[f] = pc[f] /\ WorkerOf(f)' = WorkerOf(f)
        /\ oplock_acquired' = oplock_acquired
    BY <1>3, EnqueueAdds DEF WorkerOf, bufferVars, oplockVars
  <2> QED
    BY <1>3, <2>1, EnqueueAdds, Zenon DEF HeldForWork
<1>4. ASSUME NEW w \in Threads, BeginWork(w) PROVE HeldForWork'
  <2>1. CASE work_queue[w] = <<>>
    <3>1. UNCHANGED <<work_queue, buf, pc, assigned_thread, oplockVars>>
      BY <1>4, <2>1 DEF BeginWork, bufferVars
    <3> QED
      BY <3>1, HeldForWorkFrame DEF WorkerOf
  <2>2. CASE work_queue[w] # <<>>
    <3>1. /\ \A f \in Executors \ {w} : pc'[f] = pc[f] /\ WorkerOf(f)' = WorkerOf(f)
          /\ oplock_acquired' = oplock_acquired /\ pc'[w] = "operate"
          /\ pc[w] = "wait" /\ \A t \in Threads \ {w} : work_queue'[t] = work_queue[t]
      BY <1>4, <2>2, BeginTakes DEF WorkerOf, bufferVars, oplockVars
    <3>2. WorkerOf(w)' = w
      BY <1>4, <2>2, BeginTakes DEF WorkerOf, bufferVars, ItemInv, WorkersOwn
    <3> QED
      BY <3>1, <3>2, Names DEF HeldForWork
  <2> QED
    BY <2>1, <2>2
<1>5. ASSUME NEW e \in Executors, Operation(e) PROVE HeldForWork'
  <2>1. /\ release_oplock(e)
        /\ UNCHANGED <<work_queue, buf, assigned_thread>>
        /\ \E x : Goto(e, x)
    BY <1>5, OperationMoves, OperationFrame, Zenon DEF bufferVars, queueVars
  <2>2. /\ \A f \in Executors \ {e} : pc'[f] = pc[f]
        /\ \A f : WorkerOf(f)' = WorkerOf(f)
    BY <2>1 DEF Goto, ItemInv, ItemTypes, WorkerOf
  <2>3. \A t \in Threads :
          /\ t = WorkerOf(e) => ~oplock_acquired'[t]
          /\ t # WorkerOf(e) => oplock_acquired'[t] = oplock_acquired[t]
    BY <2>1, Names DEF release_oplock, oplockVars, OplockInv
  <2> QED
    BY <2>1, <2>2, <2>3, Zenon DEF HeldForWork
<1>6. ASSUME NEW e \in Executors, PublishPorts(e) \/ WriteResponse(e)
      PROVE  HeldForWork'
  <2>1. /\ UNCHANGED <<work_queue, buf, assigned_thread, oplockVars>>
        /\ \E x : Goto(e, x)
    BY <1>6, Zenon DEF PublishPorts, WriteResponse, bufferVars, queueVars
  <2>2. \A f \in Executors \ {e} : pc'[f] = pc[f]
    BY <2>1 DEF Goto, ItemInv, ItemTypes
  <2>3. pc[e] \notin {"operate", "enqueue"}
    BY <1>6 DEF PublishPorts, WriteResponse
  <2> QED
    BY <2>1, <2>2, <2>3, HeldForWorkFrame DEF WorkerOf
<1>7. ASSUME NEW e \in Executors, FinishItem(e) PROVE HeldForWork'
  <2>1. /\ UNCHANGED work_queue /\ UNCHANGED oplockVars
        /\ pc[e] = "finish" /\ Releases(e)
    BY <1>7, FinishReleases DEF FinishItem, queueVars
  <2>2. \A f \in Executors : pc[f] \in {"operate", "enqueue"} =>
          pc'[f] = pc[f] /\ WorkerOf(f)' = WorkerOf(f)
    <3> SUFFICES ASSUME NEW f \in Executors, pc[f] \in {"operate", "enqueue"}
                 PROVE  pc'[f] = pc[f] /\ WorkerOf(f)' = WorkerOf(f)
      OBVIOUS
    <3>1. f # e /\ buf[f] \in Buffers /\ buf[f] # buf[e] /\ buf[e] \in Buffers
      BY <2>1, HeldIds, Names DEF ItemInv, Apart, Idle
    <3>2. pc'[f] = pc[f] /\ buf'[f] = buf[f]
      BY <2>1, <3>1 DEF Releases, ItemInv, ItemTypes
    <3>3. assigned_thread'[buf[f]] = assigned_thread[buf[f]]
      BY <2>1, <3>1 DEF Releases, ItemInv, ItemTypes
    <3> QED
      BY <3>2, <3>3 DEF WorkerOf
  <2> QED
    BY <2>1, <2>2, HeldForWorkFrame
<1>8. CASE UNCHANGED vars
  <2>1. UNCHANGED <<work_queue, buf, pc, assigned_thread, oplockVars>>
    BY <1>8 DEF vars, bufferVars, queueVars, threadVars
  <2> QED
    BY <2>1, HeldForWorkFrame DEF WorkerOf
<1> QED
  BY <1>1, <1>2, <1>3, <1>4, <1>5, <1>6, <1>7, <1>8 DEF Next, Dispatch, Process

\* For any number of threads and requests, an oplock is held at most once, and
\* as long as it is held some operation is still to be performed for its
\* thread, after which process_buffer_item releases it: the dispatcher, which
\* waits for oplocks, never waits for one that nobody will release.
THEOREM OplockAlwaysReleasable == Spec => []OplockWillBeReleased
<1>1. HeldForWork /\ ItemInv /\ OplockInv => OplockWillBeReleased
  <2> SUFFICES ASSUME HeldForWork, ItemInv, OplockInv,
                      NEW t \in Threads, oplock_acquired[t]
               PROVE  Unperformed(t) # {}
    BY DEF OplockWillBeReleased, OplockInv
  <2>1. CASE work_queue[t] # <<>>
    <3>1. 1 \in DOMAIN work_queue[t]
      BY <2>1, EmptySeq, LenProperties DEF ItemInv, ItemTypes
    <3> QED
      BY <3>1 DEF Unperformed
  <2>2. CASE \E e \in Executors : pc[e] \in {"operate", "enqueue"} /\ WorkerOf(e) = t
    BY <2>2 DEF Unperformed
  <2> QED
    BY <2>1, <2>2 DEF HeldForWork
<1>2. Spec => []OplockInv
  BY OplockInvInitially, OplockInvPreserved, PTL DEF Spec
<1>3. Spec => []HeldForWork
  BY <1>2, ItemsAlways, HeldForWorkInitially, HeldForWorkPreserved, PTL DEF Spec
<1> QED
  BY <1>1, <1>2, <1>3, ItemsAlways, PTL
-----------------------------------------------------------------------------
\* The types of what the network operations change.
NetTypes ==
    /\ failed \subseteq Ids /\ open \subseteq Ids /\ socket_ct \in Int
    /\ public_fd \in [Threads -> Threads \cup {None, Invalid}]
    /\ local_fd \in [Threads -> Ids \cup {None, Invalid}]
    /\ bound_port_num \in [Threads -> Ports \cup {None}]
    /\ state_flags \in [Threads -> BOOLEAN]
    /\ published \in SUBSET Ports /\ ports \in SUBSET Ports
    /\ unpublished \in BOOLEAN
    /\ op_fd \in [Executors -> Ids \cup {None, Invalid}]

\* There is no socket at first.
LEMMA NetTypesInitially == Init => NetTypes
<1>1. Init => unpublished \in BOOLEAN
  BY Zenon DEF Init
<1> QED
  BY <1>1 DEF Init, NetTypes

\* Changing one value keeps the type of a function.
LEMMA ExceptTyped ==
    ASSUME NEW S, NEW T, NEW f \in [S -> T], NEW x, NEW v \in T
    PROVE  [f EXCEPT ![x] = v] \in [S -> T]
  OBVIOUS

\* Closing a socket keeps the types of what is known of sockets.
LEMMA CloseKeepsTypes ==
    ASSUME NetTypes, NEW t, xe_net_internal_close_socket(t)
    PROVE  /\ socket_ct' \in Int /\ open' \subseteq Ids
           /\ local_fd' \in [Threads -> Ids \cup {None, Invalid}]
           /\ public_fd' \in [Threads -> Threads \cup {None, Invalid}]
           /\ bound_port_num' \in [Threads -> Ports \cup {None}]
<1>1. /\ local_fd' = [local_fd EXCEPT ![t] = Invalid]
      /\ public_fd' = [public_fd EXCEPT ![t] = Invalid]
      /\ bound_port_num' = [bound_port_num EXCEPT ![t] = None]
      /\ open' = open \ {local_fd[t]}
      /\ socket_ct' = IF local_fd[t] # Invalid THEN socket_ct - 1 ELSE socket_ct
  BY DEF xe_net_internal_close_socket
<1>2. socket_ct' \in Int
  BY <1>1 DEF NetTypes
<1>3. local_fd' \in [Threads -> Ids \cup {None, Invalid}]
  BY <1>1, ExceptTyped DEF NetTypes
<1>4. public_fd' \in [Threads -> Threads \cup {None, Invalid}]
  BY <1>1, ExceptTyped DEF NetTypes
<1>5. bound_port_num' \in [Threads -> Ports \cup {None}]
  BY <1>1, ExceptTyped DEF NetTypes
<1>6. open' \subseteq Ids
  BY <1>1 DEF NetTypes
<1> QED
  BY <1>2, <1>3, <1>4, <1>5, <1>6

\* The ports of the threads in use are ports.
LEMMA ListeningPorts ==
    ASSUME NEW bound \in [Threads -> Ports \cup {None}], in_use \subseteq Threads
    PROVE  Listening(bound) \in SUBSET Ports
  BY DEF Listening

\* An operation on a socket.
LEMMA OperationKeepsTypes ==
    ASSUME ItemInv, NetTypes, NEW e \in Executors, Operation(e)
    PROVE  NetTypes'
<1>0. /\ IdOf(e) \in Ids /\ in_use \subseteq Threads
      /\ UNCHANGED <<published, unpublished, op_fd>>
  BY OperationMoves, HeldIds DEF Idle, ItemInv, ItemTypes, storeVars
<1> USE DEF NetTypes
<1>1. CASE xe_net_create_socket(e)
  <2> DEFINE t == WorkerOf(e)
  <2>1. /\ UNCHANGED <<bound_port_num, state_flags, ports>>
        /\ socket_ct' = socket_ct + 1
    BY <1>1 DEF xe_net_create_socket
  <2>2. t \in Threads \cup {None}
    BY <1>1, OperationMoves, HeldIds
       DEF WorkerOf, ItemInv, ItemTypes, Idle
  <2>3. CASE /\ open' = open \cup {IdOf(e)}
             /\ local_fd' = [local_fd EXCEPT ![t] = IdOf(e)]
             /\ public_fd' = [public_fd EXCEPT ![t] = t]
             /\ UNCHANGED failed
    <3>1. local_fd' \in [Threads -> Ids \cup {None, Invalid}]
      BY <1>0, <2>3, ExceptTyped
    <3>2. public_fd' \in [Threads -> Threads \cup {None, Invalid}]
      BY <2>2, <2>3, ExceptTyped
    <3> HIDE DEF t
    <3> QED
      BY <1>0, <2>1, <2>3, <3>1, <3>2
  <2>4. CASE /\ failed' = failed \cup {IdOf(e)}
             /\ local_fd' = [local_fd EXCEPT ![t] = Invalid]
             /\ public_fd' = [public_fd EXCEPT ![t] = None]
             /\ UNCHANGED open
    <3>1. local_fd' \in [Threads -> Ids \cup {None, Invalid}]
      BY <2>4, ExceptTyped
    <3>2. public_fd' \in [Threads -> Threads \cup {None, Invalid}]
      BY <2>4, ExceptTyped
    <3> HIDE DEF t
    <3> QED
      BY <1>0, <2>1, <2>4, <3>1, <3>2
  <2> QED
    BY <1>1, <2>3, <2>4 DEF xe_net_create_socket
<1>2. CASE xe_net_accept_socket(e)
  <2>1. UNCHANGED <<bound_port_num, state_flags, ports>>
    BY <1>2 DEF xe_net_accept_socket
  <2>2. \/ \E t \in Threads :
             /\ public_fd' = [public_fd EXCEPT ![t] = t]
             /\ local_fd' = [local_fd EXCEPT ![t] = IdOf(e)]
             /\ open' = open \cup {IdOf(e)} /\ socket_ct' = socket_ct + 1
             /\ UNCHANGED failed
        \/ /\ UNCHANGED <<public_fd, local_fd, open>>
           /\ failed' = failed \cup {IdOf(e)}
           /\ socket_ct' = socket_ct + 1 \/ UNCHANGED socket_ct
    <3>1. \A t \in get_worker_thread_for_fd(Invalid) : t \in Threads
      BY <1>0, FoundThreads
    <3> QED
      BY <1>2, <3>1, Zenon DEF xe_net_accept_socket
  <2> QED
    BY <1>0, <2>1, <2>2
<1>3. CASE xe_net_bind_socket(e)
  <2>1. UNCHANGED <<failed, public_fd, local_fd, state_flags, socket_ct, open>>
    BY <1>3 DEF xe_net_bind_socket
  <2>2. bound_port_num' \in [Threads -> Ports \cup {None}]
    <3>1. \/ UNCHANGED bound_port_num
          \/ \E p \in Ports :
               bound_port_num' = [bound_port_num EXCEPT ![WorkerOf(e)] = p]
      BY <1>3, Zenon DEF xe_net_bind_socket
    <3> QED
      BY <3>1
  <2>3. UNCHANGED ports \/ ports' = Listening(bound_port_num')
    BY <1>3, Zenon DEF xe_net_bind_socket, update_listening_ports
  <2> QED
    BY <1>0, <2>1, <2>2, <2>3, ListeningPorts
<1>4. CASE xe_net_close_socket(e)
  <2>1. UNCHANGED <<failed, state_flags>>
    BY <1>4 DEF xe_net_close_socket
  <2>2. /\ socket_ct' \in Int /\ open' \subseteq Ids
        /\ local_fd' \in [Threads -> Ids \cup {None, Invalid}]
        /\ public_fd' \in [Threads -> Threads \cup {None, Invalid}]
        /\ bound_port_num' \in [Threads -> Ports \cup {None}]
    BY <1>4, CloseKeepsTypes DEF xe_net_close_socket
  <2>3. UNCHANGED ports \/ ports' = Listening(bound_port_num')
    BY <1>4, Zenon DEF xe_net_close_socket, update_listening_ports
  <2> QED
    BY <1>0, <2>1, <2>2, <2>3, ListeningPorts
<1>5. CASE xe_net_recv_socket(e) \/ xe_net_send_socket(e)
  <2>1. UNCHANGED <<failed, public_fd, local_fd, bound_port_num, socket_ct, open,
                    ports>>
    BY <1>5 DEF xe_net_recv_socket, xe_net_send_socket
  <2>2. \/ UNCHANGED state_flags
        \/ \E c \in BOOLEAN : state_flags' = [state_flags EXCEPT ![WorkerOf(e)] = c]
    BY <1>5, Zenon DEF xe_net_recv_socket, xe_net_send_socket
  <2> QED
    BY <1>0, <2>1, <2>2
<1>6. CASE UNCHANGED <<failed, socketVars, ports>>
  BY <1>0, <1>6 DEF socketVars
<1>7. CASE xe_net_connect_socket(e) \/ xe_net_listen_socket(e)
             \/ xe_net_shutdown_socket(e) \/ xe_net_sock_attrib(e)
             \/ xe_net_get_name(e) \/ xe_net_addr_block(e) \/ xe_pollset_query(e)
  <2>1. UNCHANGED <<failed, socketVars, ports>>
    BY <1>7 DEF xe_net_connect_socket, xe_net_listen_socket,
       xe_net_shutdown_socket, xe_net_sock_attrib, xe_net_get_name,
       xe_net_addr_block, xe_pollset_query, PlainOperation
  <2> QED
    BY <1>6, <2>1
<1> QED
  BY <1>1, <1>2, <1>3, <1>4, <1>5, <1>7, Zenon DEF Operation

\* Every step keeps the types of the sockets.
LEMMA NetTypesPreserved ==
    ItemInv /\ NetTypes /\ [Next]_vars => NetTypes'
<1> SUFFICES ASSUME ItemInv, NetTypes, [Next]_vars PROVE NetTypes'
  OBVIOUS
<1>0. ASSUME UNCHANGED <<failed, public_fd, local_fd, bound_port_num, state_flags,
                         socket_ct, published, unpublished, open, op_fd, ports>>
      PROVE  NetTypes'
  BY <1>0 DEF NetTypes
<1>1. CASE \/ reserve_available_buffer_item \/ assign_work_to_thread
           \/ AcquireOplock \/ Enqueue \/ \E r \in Requests : ReadRequest(r)
  <2>1. UNCHANGED <<failed, public_fd, local_fd, bound_port_num, state_flags,
                    socket_ct, published, unpublished, open, op_fd, ports>>
    BY <1>1, Zenon DEF reserve_available_buffer_item, assign_work_to_thread,
       AcquireOplock, Enqueue, ReadRequest, pvmVars, socketVars, storeVars
  <2> QED
    BY <1>0, <2>1
<1>2. CASE send_dispatch_error_response
  <2>1. IdOf(Dispatcher) \in Ids
    BY <1>2, HeldIds, Names DEF send_dispatch_error_response, Idle
  <2> QED
    BY <1>2, <2>1 DEF send_dispatch_error_response, NetTypes, socketVars,
       storeVars
<1>3. ASSUME NEW w \in Threads, BeginWork(w) PROVE NetTypes'
  <2>1. UNCHANGED <<failed, public_fd, local_fd, bound_port_num, state_flags,
                    socket_ct, published, unpublished, open, ports>>
    BY <1>3 DEF BeginWork, pvmVars, socketVars, storeVars
  <2>2. op_fd' = op_fd \/ op_fd' = [op_fd EXCEPT ![w] = local_fd[w]]
    BY <1>3 DEF BeginWork
  <2> QED
    BY <2>1, <2>2, Names DEF NetTypes
<1>4. ASSUME NEW e \in Executors, Operation(e) PROVE NetTypes'
  BY <1>4, OperationKeepsTypes
<1>5. ASSUME NEW e \in Executors, PublishPorts(e) PROVE NetTypes'
  BY <1>5 DEF PublishPorts, NetTypes, pvmVars, socketVars
<1>6. ASSUME NEW e \in Executors, WriteResponse(e) PROVE NetTypes'
  BY <1>6 DEF WriteResponse, NetTypes, socketVars, storeVars
<1>7. ASSUME NEW e \in Executors, FinishItem(e) PROVE NetTypes'
  <2>1. /\ UNCHANGED <<failed, published, unpublished, ports>>
        /\ op_fd' = [op_fd EXCEPT ![e] = None]
        /\ \/ release_worker_thread(WorkerOf(e))
           \/ UNCHANGED socketVars
    BY <1>7, Zenon DEF FinishItem, pvmVars, storeVars
  <2>2. CASE UNCHANGED socketVars
    BY <2>1, <2>2 DEF NetTypes, socketVars
  <2>3. CASE release_worker_thread(WorkerOf(e))
    <3>1. xe_net_internal_close_socket(WorkerOf(e))
      BY <2>3 DEF release_worker_thread
    <3>2. state_flags' = [state_flags EXCEPT ![WorkerOf(e)] = FALSE]
      BY <2>3 DEF release_worker_thread
    <3>3. state_flags' \in [Threads -> BOOLEAN]
      BY <3>2 DEF NetTypes
    <3> QED
      BY <2>1, <3>1, <3>3, CloseKeepsTypes DEF NetTypes
  <2> QED
    BY <2>1, <2>2, <2>3
<1>8. CASE UNCHANGED vars
  BY <1>0, <1>8 DEF vars, pvmVars, socketVars, threadVars, storeVars
<1> QED
  BY <1>1, <1>2, <1>3, <1>4, <1>5, <1>6, <1>7, <1>8 DEF Next, Dispatch, Process

\* The types of the sockets always hold.
LEMMA NetTypesAlways == Spec => []NetTypes
  BY NetTypesInitially, NetTypesPreserved, ItemsAlways, PTL DEF Spec

\* For every value of the constants the types hold: in particular a worker's
\* semaphore never exceeds the number of buffers, and so the work queue that
\* main() allocates with one slot per buffer is never full when
\* message_dispatcher enqueues.
THEOREM DispatchTypeCorrect == Spec => []TypeOK
<1>1. /\ ItemInv /\ AnswerInv /\ NetTypes /\ QueueInv /\ OplockInv => TypeOK
  <2> SUFFICES ASSUME ItemInv, AnswerInv, NetTypes, QueueInv, OplockInv PROVE TypeOK
    OBVIOUS
  <2>1. \A t \in Threads : awaiting_work_sem[t] \in 0..BUFFER_ITEM_COUNT
    BY QueueFits DEF QueueInv, SemaphoreCountsWork
  <2>2. awaiting_work_sem \in [Threads -> 0..BUFFER_ITEM_COUNT]
    BY <2>1 DEF QueueInv
  <2>3. oplock \in [Threads -> {0, 1}]
    BY DEF OplockInv, OplockHeldOnce
  <2>4. answered \in [Ids -> 0..2]
    BY DEF AnswerInv, MaxAnswers
  <2>5. {published, ports} \subseteq SUBSET Ports
    BY DEF NetTypes
  <2>6. req \in Seq([type : Types, fd : Threads \cup {Invalid},
                     sock : Ids \cup {None}, overtakes : SUBSET Ids])
    BY DEF ItemInv, ItemTypes, RequestRecords
  <2> QED
    BY <2>2, <2>3, <2>4, <2>5, <2>6
       DEF TypeOK, ItemInv, ItemTypes, AllSteps, AnswerInv, NetTypes, OplockInv
<1>2. Spec => []QueueInv
  BY QueueInvInitially, QueueInvPreserved, PTL DEF Spec
<1>3. Spec => []OplockInv
  BY OplockInvInitially, OplockInvPreserved, PTL DEF Spec
<1> QED
  BY <1>1, <1>2, <1>3, ItemsAlways, AnswersAlways, NetTypesAlways, PTL
=============================================================================
