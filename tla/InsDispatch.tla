---------------------------- MODULE InsDispatch ----------------------------
(***************************************************************************)
(* The INS application (apps/ins-app: xenevent.c, networking.c): the       *)
(* dispatcher reads requests from the ring into buffers; each request is   *)
(* performed by the dispatcher itself or by the worker thread that owns    *)
(* its socket, and answered.                                               *)
(*                                                                         *)
(* The application runs on the Rump kernel's cooperative scheduler: a      *)
(* thread gives up the processor only in a call that can block.  One       *)
(* action is what a thread does from one such call to the next.  The       *)
(* dispatcher's steps "reserve", "assign" and "enqueue" contain no such    *)
(* call, so no worker runs while it is in one of them.                     *)
(*                                                                         *)
(* Sockets are named by the request that opened them.  A public descriptor *)
(* is the index of the thread that serves it (mwsocket.h), so a thread     *)
(* that is reused gives its next socket the same public descriptor.        *)
(***************************************************************************)
EXTENDS Integers, Sequences, FiniteSets, FiniteSetsExt

CONSTANTS MAX_THREAD_COUNT,
          BUFFER_ITEM_COUNT,
          MaxRequests,   \* bound: requests the PVM sends in one behaviour
          Types,         \* the request types the PVM sends
          Ports,         \* ports the PVM binds to
          Faults,        \* calls that may fail with an "internal" error
          CloseWaits     \* types whose responses the PVM awaits before Close

QueuedTypes == {"Connect", "Send", "Accept", "Recv", "GetName"}
SocketTypes == QueuedTypes \cup {"Shutdown", "Close", "Bind", "Listen", "Attrib"}
NewThreadTypes == {"Create", "AddrBlock"}
OplockTypes == {"Send", "Shutdown", "Close"}

ASSUME DispatchAssumption ==
    /\ MAX_THREAD_COUNT \in Nat \ {0}
    /\ BUFFER_ITEM_COUNT \in Nat \ {0}
    /\ MaxRequests \in Nat
    /\ Types \subseteq SocketTypes \cup NewThreadTypes \cup {"PollsetQuery"}
    /\ Ports \subseteq Nat \ {0}
    /\ Faults \subseteq {"npfctl", "poll", "fcntl", "publish"}
    /\ CloseWaits \subseteq SocketTypes

Dispatcher == 0
Threads    == 1..MAX_THREAD_COUNT
Executors  == {Dispatcher} \cup Threads
Buffers    == 1..BUFFER_ITEM_COUNT
Ids        == 1..MaxRequests
None       == 0    \* a field that bzero cleared
Invalid    == -1   \* MT_INVALID_SOCKET_FD

VARIABLES
    \* What the PVM sees.
    req,         \* the requests, in the order they were read from the ring;
                 \* a Close overtakes the unanswered ones on its socket
    answered,    \* responses written for each request
    failed,      \* requests answered with an error (kept for those that open)
    live,        \* the socket the PVM means by each public descriptor
    \* g_state.buffer_items
    buf_in_use, region, assigned_thread,
    \* g_state.worker_threads
    in_use, public_fd, local_fd, bound_port_num,
    state_flags, \* _MT_FLAGS_REMOTE_CLOSED, copied into every response
    oplock, oplock_acquired, work_queue, awaiting_work_sem,
    \* the rest of g_state, XenStore and the network stack
    socket_ct,   \* network_stats_socket_ct
    published,   \* listening ports in XenStore
    unpublished, \* the latest attempt to publish them failed
    open,        \* native sockets that are open
    \* The threads.
    pc,          \* where each thread is
    buf,         \* the buffer item it is working on
    op_fd,       \* the native socket it passed to the blocking call
    rc,          \* the return code of the network operation
    headless,    \* the operation failed before it filled in a response
    ports        \* listening_ports, computed and not yet published

pvmVars    == <<req, answered, failed, live>>
bufferVars == <<buf_in_use, region, assigned_thread>>
socketVars == <<in_use, public_fd, local_fd, bound_port_num, state_flags,
                socket_ct, open>>
oplockVars == <<oplock, oplock_acquired>>
queueVars  == <<work_queue, awaiting_work_sem>>
threadVars == <<pc, buf, op_fd, rc, headless, ports>>
storeVars  == <<published, unpublished>>
vars == <<pvmVars, bufferVars, socketVars, oplockVars, queueVars, storeVars,
          threadVars>>

Init ==
    /\ req = <<>>
    /\ answered = [i \in Ids |-> 0]
    /\ failed = {}
    /\ live = [t \in Threads |-> None]
    /\ buf_in_use = {}
    /\ region = [b \in Buffers |-> None]
    /\ assigned_thread = [b \in Buffers |-> None]
    /\ in_use = {}
    /\ public_fd = [t \in Threads |-> None]
    /\ local_fd = [t \in Threads |-> None]
    /\ bound_port_num = [t \in Threads |-> None]
    /\ state_flags = [t \in Threads |-> FALSE]
    /\ oplock = [t \in Threads |-> 1]
    /\ oplock_acquired = [t \in Threads |-> FALSE]
    /\ work_queue = [t \in Threads |-> <<>>]
    /\ awaiting_work_sem = [t \in Threads |-> 0]
    /\ socket_ct = 0
    /\ published = {}
    /\ unpublished = FALSE
    /\ open = {}
    /\ pc = [e \in Executors |-> IF e = Dispatcher THEN "reserve" ELSE "wait"]
    /\ buf = [e \in Executors |-> None]
    /\ op_fd = [e \in Executors |-> None]
    /\ rc = [e \in Executors |-> 0]
    /\ headless = [e \in Executors |-> FALSE]
    /\ ports = {}

Goto(e, step) == pc' = [pc EXCEPT ![e] = step]

\* The request and the socket's thread that executor e is working for.
IdOf(e)     == region[buf[e]]
TypeOf(e)   == req[IdOf(e)].type
WorkerOf(e) == assigned_thread[buf[e]]

\* The dispatcher is in a call that can block, so the workers may run.
Yielded == pc[Dispatcher] \notin {"reserve", "assign", "enqueue"}
-----------------------------------------------------------------------------
(* The dispatcher: buffer, request, thread.                                *)

\* With no free buffer, message_dispatcher "continues" without yielding.
reserve_available_buffer_item ==
    /\ pc[Dispatcher] = "reserve"
    /\ IF Buffers \ buf_in_use = {}
         THEN UNCHANGED <<buf_in_use, buf, pc>>
         ELSE LET b == Min(Buffers \ buf_in_use) IN
              /\ buf_in_use' = buf_in_use \cup {b}
              /\ buf' = [buf EXCEPT ![Dispatcher] = b]
              /\ Goto(Dispatcher, "read")
    /\ UNCHANGED <<pvmVars, region, assigned_thread, socketVars, oplockVars,
                   queueVars, storeVars, op_fd, rc, headless, ports>>

\* Variant with a fault: the PVM driver does not hold back a Close.
CloseAtOnce(fd) == fd \in Threads

\* The PVM driver holds back a Close until requests in CloseWaits are answered.
MayClose(fd) ==
    \A i \in DOMAIN req :
        req[i].sock = live[fd] /\ req[i].type \in CloseWaits => answered[i] > 0

\* The requests on a descriptor's socket that have no answer yet.
Unanswered(fd) ==
    {i \in DOMAIN req : req[i].sock = live[fd] /\ answered[i] = 0}

Requests ==
    [type : Types \cap SocketTypes, fd : {t \in Threads : live[t] # None}]
      \cup [type : Types \ SocketTypes, fd : {Invalid}]

\* The next request arrives.  The PVM uses the descriptors it has been given
\* and not yet closed, in any order and without waiting for other responses.
ReadRequest(r) ==
    /\ pc[Dispatcher] = "read" /\ Len(req) < MaxRequests
    /\ r.type = "Close" => MayClose(r.fd)
    /\ req' = Append(req, [type |-> r.type, fd |-> r.fd,
                 sock |-> IF r.fd = Invalid THEN None ELSE live[r.fd],
                 overtakes |-> IF r.type = "Close" THEN Unanswered(r.fd)
                               ELSE {}])
    /\ region' = [region EXCEPT ![buf[Dispatcher]] = Len(req) + 1]
    /\ live' = [t \in Threads |->
                  IF r.type = "Close" /\ t = r.fd THEN None ELSE live[t]]
    /\ Goto(Dispatcher, "assign")
    /\ UNCHANGED <<answered, failed, buf_in_use, assigned_thread, socketVars,
                   oplockVars, queueVars, storeVars,
                   buf, op_fd, rc, headless, ports>>

\* The thread for a descriptor: the first free one for a new socket, else
\* the one the descriptor names, if it really serves that descriptor.
get_worker_thread_for_fd(fd) ==
    IF fd = Invalid
      THEN IF in_use = Threads THEN {} ELSE {Min(Threads \ in_use)}
      ELSE {t \in in_use : t = fd /\ public_fd[t] = fd}

assign_work_to_thread ==
    /\ pc[Dispatcher] = "assign"
    /\ LET type  == TypeOf(Dispatcher)
           found == get_worker_thread_for_fd(req[IdOf(Dispatcher)].fd)
           next  == IF type \in OplockTypes THEN "oplock"
                    ELSE IF type \in QueuedTypes THEN "enqueue" ELSE "operate"
       IN \/ /\ type = "PollsetQuery"
             /\ Goto(Dispatcher, "operate")
             /\ UNCHANGED <<assigned_thread, in_use>>
          \/ /\ type # "PollsetQuery" /\ found = {}
             /\ Goto(Dispatcher, "error")
             /\ UNCHANGED <<assigned_thread, in_use>>
          \/ /\ type # "PollsetQuery"
             /\ \E t \in found :
                  /\ assigned_thread' =
                       [assigned_thread EXCEPT ![buf[Dispatcher]] = t]
                  /\ in_use' = in_use \cup {t}
             /\ Goto(Dispatcher, next)
    /\ UNCHANGED <<pvmVars, buf_in_use, region, public_fd, local_fd,
                   bound_port_num, state_flags, socket_ct, open, oplockVars,
                   queueVars, storeVars, buf, op_fd, rc, headless, ports>>

\* Variant with a fault: oplock_acquired is not set.
AcquireUnrecorded ==
    /\ pc[Dispatcher] = "oplock"
    /\ oplock[WorkerOf(Dispatcher)] > 0
    /\ oplock' = [oplock EXCEPT ![WorkerOf(Dispatcher)] = @ - 1]
    /\ Goto(Dispatcher, IF TypeOf(Dispatcher) \in QueuedTypes
                        THEN "enqueue" ELSE "operate")
    /\ UNCHANGED <<pvmVars, bufferVars, socketVars, queueVars, storeVars,
                   oplock_acquired, buf, op_fd, rc, headless, ports>>

AcquireOplock ==
    /\ pc[Dispatcher] = "oplock"
    /\ LET t == WorkerOf(Dispatcher) IN
         /\ oplock[t] > 0
         /\ oplock' = [oplock EXCEPT ![t] = @ - 1]
         /\ oplock_acquired' = [oplock_acquired EXCEPT ![t] = TRUE]
    /\ Goto(Dispatcher, IF TypeOf(Dispatcher) \in QueuedTypes
                        THEN "enqueue" ELSE "operate")
    /\ UNCHANGED <<pvmVars, bufferVars, socketVars, queueVars, storeVars,
                   buf, op_fd, rc, headless, ports>>

\* Variant with a fault: the buffer is released as if it had been processed.
EnqueueAndRelease ==
    /\ pc[Dispatcher] = "enqueue"
    /\ LET t == WorkerOf(Dispatcher) IN
         /\ work_queue' = [work_queue EXCEPT ![t] = Append(@, buf[Dispatcher])]
         /\ awaiting_work_sem' = [awaiting_work_sem EXCEPT ![t] = @ + 1]
    /\ buf_in_use' = buf_in_use \ {buf[Dispatcher]}
    /\ buf' = [buf EXCEPT ![Dispatcher] = None]
    /\ Goto(Dispatcher, "reserve")
    /\ UNCHANGED <<pvmVars, region, assigned_thread, socketVars, oplockVars,
                   storeVars, op_fd, rc, headless, ports>>

\* Variant with a fault: the worker's semaphore is not posted.
EnqueueUnannounced ==
    /\ pc[Dispatcher] = "enqueue"
    /\ work_queue' = [work_queue EXCEPT ![WorkerOf(Dispatcher)] =
                         Append(@, buf[Dispatcher])]
    /\ buf' = [buf EXCEPT ![Dispatcher] = None]
    /\ Goto(Dispatcher, "reserve")
    /\ UNCHANGED <<pvmVars, bufferVars, socketVars, oplockVars, storeVars,
                   awaiting_work_sem, op_fd, rc, headless, ports>>

\* workqueue_enqueue, then message_dispatcher posts the semaphore.  The queue
\* has as many slots as there are buffers and is never full.
Enqueue ==
    /\ pc[Dispatcher] = "enqueue"
    /\ LET t == WorkerOf(Dispatcher) IN
         /\ work_queue' = [work_queue EXCEPT ![t] = Append(@, buf[Dispatcher])]
         /\ awaiting_work_sem' = [awaiting_work_sem EXCEPT ![t] = @ + 1]
    /\ buf' = [buf EXCEPT ![Dispatcher] = None]
    /\ Goto(Dispatcher, "reserve")
    /\ UNCHANGED <<pvmVars, bufferVars, socketVars, oplockVars, storeVars,
                   op_fd, rc, headless, ports>>

\* A worker takes the next item and enters the blocking call on the socket
\* its thread has now.
BeginWork(t) ==
    /\ Yielded /\ pc[t] = "wait" /\ awaiting_work_sem[t] > 0
    /\ awaiting_work_sem' = [awaiting_work_sem EXCEPT ![t] = @ - 1]
    /\ IF work_queue[t] = <<>>
         THEN UNCHANGED <<work_queue, buf, op_fd, pc>>
         ELSE /\ work_queue' = [work_queue EXCEPT ![t] = Tail(@)]
              /\ buf' = [buf EXCEPT ![t] = Head(work_queue[t])]
              /\ op_fd' = [op_fd EXCEPT ![t] = local_fd[t]]
              /\ Goto(t, "operate")
    /\ UNCHANGED <<pvmVars, bufferVars, socketVars, oplockVars, storeVars,
                   rc, headless, ports>>
-----------------------------------------------------------------------------
(* process_buffer_item: the network operation, which ends the blocking call *)
(* of the step before.                                                      *)

Operating(e, types) ==
    /\ pc[e] = "operate" /\ TypeOf(e) \in types
    /\ e = Dispatcher \/ Yielded

\* Variant with a fault: the oplock is posted whether or not it was acquired.
ReleaseUnacquired(e) ==
    LET t == WorkerOf(e) IN
    IF t # None
      THEN /\ oplock_acquired' = [oplock_acquired EXCEPT ![t] = FALSE]
           /\ oplock' = [oplock EXCEPT ![t] = @ + 1]
      ELSE UNCHANGED oplockVars

\* After the operation, the oplock is released if anyone has acquired it.
release_oplock(e) ==
    LET t == WorkerOf(e) IN
    IF t # None /\ oplock_acquired[t]
      THEN /\ oplock_acquired' = [oplock_acquired EXCEPT ![t] = FALSE]
           /\ oplock' = [oplock EXCEPT ![t] = @ + 1]
      ELSE UNCHANGED oplockVars

EndOperation(e, code, nohead) ==
    /\ release_oplock(e)
    /\ rc' = [rc EXCEPT ![e] = code]
    /\ headless' = [headless EXCEPT ![e] = nohead]
    /\ UNCHANGED <<req, answered, live, bufferVars, queueVars, storeVars,
                   buf, op_fd>>

\* The ports of the threads in use.
Listening(bound) == {bound[t] : t \in in_use} \ {None}

\* The set is computed at once; the ioctl that publishes it can block.
update_listening_ports(e, changed, bound) ==
    /\ ports' = IF changed THEN Listening(bound) ELSE ports
    /\ Goto(e, IF changed THEN "publish" ELSE "respond")

\* Variant with a fault: the count of sockets is not decremented.
CloseUncounted(t) ==
    /\ open' = open \ {local_fd[t]}
    /\ local_fd' = [local_fd EXCEPT ![t] = Invalid]
    /\ public_fd' = [public_fd EXCEPT ![t] = Invalid]
    /\ bound_port_num' = [bound_port_num EXCEPT ![t] = None]
    /\ UNCHANGED socket_ct

\* close() releases the descriptor even when it fails, and what follows does
\* not depend on it.  It may yield with the count already decremented and the
\* socket still open: the one step leaves that moment out.
xe_net_internal_close_socket(t) ==
    /\ socket_ct' = IF local_fd[t] # Invalid THEN socket_ct - 1 ELSE socket_ct
    /\ open' = open \ {local_fd[t]}
    /\ local_fd' = [local_fd EXCEPT ![t] = Invalid]
    /\ public_fd' = [public_fd EXCEPT ![t] = Invalid]
    /\ bound_port_num' = [bound_port_num EXCEPT ![t] = None]

xe_net_create_socket(e) ==
    /\ Operating(e, {"Create"})
    /\ LET t == WorkerOf(e) IN
       \/ /\ open' = open \cup {IdOf(e)}
          /\ local_fd' = [local_fd EXCEPT ![t] = IdOf(e)]
          /\ public_fd' = [public_fd EXCEPT ![t] = t]
          /\ UNCHANGED failed
       \/ /\ failed' = failed \cup {IdOf(e)}
          /\ local_fd' = [local_fd EXCEPT ![t] = Invalid]
          /\ public_fd' = [public_fd EXCEPT ![t] = None]
          /\ UNCHANGED open
    /\ socket_ct' = socket_ct + 1
    /\ EndOperation(e, 0, FALSE)
    /\ Goto(e, "respond")
    /\ UNCHANGED <<in_use, bound_port_num, state_flags, ports>>

\* accept() and, in post_process_response, a thread for the new socket.  The
\* call may have succeeded before the listening socket was closed.
xe_net_accept_socket(e) ==
    /\ Operating(e, {"Accept"})
    /\ LET found == get_worker_thread_for_fd(Invalid) IN
       \/ \* accepted, and a thread is free
          /\ op_fd[e] \in Ids
          /\ \E t \in found :
               /\ in_use' = in_use \cup {t}
               /\ public_fd' = [public_fd EXCEPT ![t] = t]
               /\ local_fd' = [local_fd EXCEPT ![t] = IdOf(e)]
          /\ open' = open \cup {IdOf(e)}
          /\ socket_ct' = socket_ct + 1
          /\ EndOperation(e, 0, FALSE)
          /\ UNCHANGED failed
       \/ \* accepted, and closed again for lack of a thread
          /\ op_fd[e] \in Ids /\ found = {}
          /\ failed' = failed \cup {IdOf(e)}
          /\ socket_ct' = socket_ct + 1
          /\ EndOperation(e, 0, FALSE)
          /\ UNCHANGED <<in_use, public_fd, local_fd, open>>
       \/ \* accept() failed
          /\ failed' = failed \cup {IdOf(e)}
          /\ EndOperation(e, 0, FALSE)
          /\ UNCHANGED <<in_use, public_fd, local_fd, socket_ct, open>>
       \/ \* accepted, and closed again because fcntl() failed
          /\ op_fd[e] \in Ids /\ "fcntl" \in Faults
          /\ failed' = failed \cup {IdOf(e)}
          /\ EndOperation(e, -1, TRUE)
          /\ UNCHANGED <<in_use, public_fd, local_fd, socket_ct, open>>
    /\ Goto(e, "respond")
    /\ UNCHANGED <<bound_port_num, state_flags, ports>>

xe_net_bind_socket(e) ==
    /\ Operating(e, {"Bind"})
    /\ LET t == WorkerOf(e) IN
       \/ /\ local_fd[t] \in open /\ bound_port_num[t] = None
          /\ \E p \in Ports \ Listening(bound_port_num) :
               bound_port_num' = [bound_port_num EXCEPT ![t] = p]
          /\ update_listening_ports(e, TRUE, bound_port_num')
       \/ /\ update_listening_ports(e, FALSE, bound_port_num)
          /\ UNCHANGED bound_port_num
    /\ EndOperation(e, 0, FALSE)
    /\ UNCHANGED <<failed, in_use, public_fd, local_fd, state_flags, socket_ct,
                   open>>

xe_net_close_socket(e) ==
    /\ Operating(e, {"Close"})
    /\ xe_net_internal_close_socket(WorkerOf(e))
    /\ update_listening_ports(e, bound_port_num[WorkerOf(e)] # None,
                              bound_port_num')
    /\ EndOperation(e, 0, FALSE)
    /\ UNCHANGED <<failed, in_use, state_flags>>

\* recv() and recvfrom().  A connection that polls readable and has no data
\* was closed by the peer; one that does not is open.  A poll() that fails
\* leaves no response.
xe_net_recv_socket(e) ==
    /\ Operating(e, {"Recv"})
    /\ \/ \E closed \in BOOLEAN :
            /\ state_flags' = [state_flags EXCEPT ![WorkerOf(e)] = closed]
            /\ EndOperation(e, 0, FALSE)
       \/ /\ "poll" \in Faults
          /\ EndOperation(e, -1, TRUE)
          /\ UNCHANGED state_flags
    /\ Goto(e, "respond")
    /\ UNCHANGED <<failed, in_use, public_fd, local_fd, bound_port_num,
                   socket_ct, open, ports>>

\* EPIPE means that the peer closed the connection, any other error that it
\* did not.
xe_net_send_socket(e) ==
    /\ Operating(e, {"Send"})
    /\ \E closed \in BOOLEAN :
         state_flags' = [state_flags EXCEPT ![WorkerOf(e)] = closed]
    /\ EndOperation(e, 0, FALSE)
    /\ Goto(e, "respond")
    /\ UNCHANGED <<failed, in_use, public_fd, local_fd, bound_port_num,
                   socket_ct, open, ports>>

\* Operations that change nothing kept here.
PlainOperation(e, types) ==
    /\ Operating(e, types)
    /\ EndOperation(e, 0, FALSE)
    /\ Goto(e, "respond")
    /\ UNCHANGED <<failed, socketVars, ports>>

xe_net_connect_socket(e)  == PlainOperation(e, {"Connect"})
xe_net_listen_socket(e)   == PlainOperation(e, {"Listen"})
xe_net_shutdown_socket(e) == PlainOperation(e, {"Shutdown"})
xe_net_sock_attrib(e)     == PlainOperation(e, {"Attrib"})
xe_net_get_name(e)        == PlainOperation(e, {"GetName"})

\* A failure of npfctl is both the status of the response and an internal
\* error.
xe_net_addr_block(e) ==
    /\ Operating(e, {"AddrBlock"})
    /\ \/ EndOperation(e, 0, FALSE)
       \/ "npfctl" \in Faults /\ EndOperation(e, -1, FALSE)
    /\ Goto(e, "respond")
    /\ UNCHANGED <<failed, socketVars, ports>>

xe_pollset_query(e) ==
    /\ Operating(e, {"PollsetQuery"})
    /\ \/ EndOperation(e, 0, FALSE)
       \/ "poll" \in Faults /\ EndOperation(e, -1, TRUE)
    /\ Goto(e, "respond")
    /\ UNCHANGED <<failed, socketVars, ports>>

\* Variant with a fault: ports no longer bound stay published.
PublishMorePorts(e) ==
    /\ pc[e] = "publish" /\ (e = Dispatcher \/ Yielded)
    /\ \/ published' = published \cup ports /\ unpublished' = FALSE
       \/ /\ "publish" \in Faults
          /\ unpublished' = TRUE /\ UNCHANGED published
    /\ Goto(e, "respond")
    /\ UNCHANGED <<pvmVars, bufferVars, socketVars, oplockVars, queueVars,
                   buf, op_fd, rc, headless, ports>>

\* The ioctl that writes the ports to XenStore.  It may fail, or the list of
\* ports may be too long for it; pending_port_change is cleared already, so
\* nothing is published until the ports change again.
PublishPorts(e) ==
    /\ pc[e] = "publish" /\ (e = Dispatcher \/ Yielded)
    /\ \/ published' = ports /\ unpublished' = FALSE
       \/ /\ "publish" \in Faults
          /\ unpublished' = TRUE /\ UNCHANGED published
    /\ Goto(e, "respond")
    /\ UNCHANGED <<pvmVars, bufferVars, socketVars, oplockVars, queueVars,
                   buf, op_fd, rc, headless, ports>>

\* The response goes onto the ring.  One without a header answers nothing.
\* With the response, the PVM learns of a new descriptor.
WriteResponse(e) ==
    /\ pc[e] = "respond" /\ (e = Dispatcher \/ Yielded)
    /\ IF headless[e]
         THEN UNCHANGED <<answered, live>>
         ELSE /\ answered' = [answered EXCEPT ![IdOf(e)] = @ + 1]
              /\ live' = [t \in Threads |->
                   IF IdOf(e) \in open /\ local_fd[t] = IdOf(e)
                     THEN IdOf(e) ELSE live[t]]
    /\ Goto(e, "finish")
    /\ UNCHANGED <<req, failed, bufferVars, socketVars, oplockVars, queueVars,
                   storeVars, buf, op_fd, rc, headless, ports>>
-----------------------------------------------------------------------------
release_buffer_item(b) ==
    /\ buf_in_use' = buf_in_use \ {b}
    /\ assigned_thread' = [assigned_thread EXCEPT ![b] = None]

\* Variant with a fault: the state flags are left to the next socket.
ReleaseKeepsFlags(t) ==
    /\ xe_net_internal_close_socket(t)
    /\ in_use' = in_use \ {t}
    /\ UNCHANGED state_flags

release_worker_thread(t) ==
    /\ xe_net_internal_close_socket(t)
    /\ state_flags' = [state_flags EXCEPT ![t] = FALSE]
    /\ in_use' = in_use \ {t}

\* Variants with a fault: the thread of a failed Accept is released too; that
\* of a failed Create is not.
ReleasesAfterAccept(e) ==
    \/ TypeOf(e) = "Close"
    \/ TypeOf(e) \in {"Create", "Accept"} /\ IdOf(e) \in failed

ReleasesAfterClose(e) == TypeOf(e) = "Close"

\* The thread of a socket that was closed or not created is released.
ReleasesThread(e) ==
    \/ TypeOf(e) = "Close"
    \/ TypeOf(e) = "Create" /\ IdOf(e) \in failed

\* Variant with a fault: a failure the response already told of is reported.
ReportsFailure(e) == e = Dispatcher /\ (rc[e] # 0 \/ IdOf(e) \in failed)

ReportsError(e) == e = Dispatcher /\ rc[e] # 0

\* The end of process_buffer_item.  The callers then release the buffer a
\* second time, which changes nothing; the dispatcher reports a nonzero
\* return code.
FinishItem(e) ==
    /\ pc[e] = "finish" /\ (e = Dispatcher \/ Yielded)
    /\ release_buffer_item(buf[e])
    /\ IF ReleasesThread(e)
         THEN release_worker_thread(WorkerOf(e))
         ELSE UNCHANGED socketVars
    /\ IF ReportsError(e)
         THEN Goto(e, "error") /\ UNCHANGED buf
         ELSE /\ Goto(e, IF e = Dispatcher THEN "reserve" ELSE "wait")
              /\ buf' = [buf EXCEPT ![e] = None]
    /\ rc' = [rc EXCEPT ![e] = 0]
    /\ headless' = [headless EXCEPT ![e] = FALSE]
    /\ op_fd' = [op_fd EXCEPT ![e] = None]
    /\ UNCHANGED <<pvmVars, region, oplockVars, queueVars, storeVars, ports>>

send_dispatch_error_response ==
    /\ pc[Dispatcher] = "error"
    /\ answered' = [answered EXCEPT ![IdOf(Dispatcher)] = @ + 1]
    /\ failed' = failed \cup {IdOf(Dispatcher)}
    /\ release_buffer_item(buf[Dispatcher])
    /\ buf' = [buf EXCEPT ![Dispatcher] = None]
    /\ Goto(Dispatcher, "reserve")
    /\ UNCHANGED <<req, live, region, socketVars, oplockVars, queueVars,
                   storeVars, op_fd, rc, headless, ports>>
-----------------------------------------------------------------------------
Operation(e) ==
    \/ xe_net_create_socket(e)
    \/ xe_net_accept_socket(e)
    \/ xe_net_bind_socket(e)
    \/ xe_net_close_socket(e)
    \/ xe_net_recv_socket(e)
    \/ xe_net_send_socket(e)
    \/ xe_net_connect_socket(e)
    \/ xe_net_listen_socket(e)
    \/ xe_net_shutdown_socket(e)
    \/ xe_net_sock_attrib(e)
    \/ xe_net_get_name(e)
    \/ xe_net_addr_block(e)
    \/ xe_pollset_query(e)

Process(e) ==
    Operation(e) \/ PublishPorts(e) \/ WriteResponse(e) \/ FinishItem(e)

Dispatch ==
    \/ reserve_available_buffer_item
    \/ assign_work_to_thread
    \/ AcquireOplock
    \/ Enqueue
    \/ send_dispatch_error_response

Next ==
    \/ \E r \in Requests : ReadRequest(r)
    \/ Dispatch
    \/ \E t \in Threads : BeginWork(t)
    \/ \E e \in Executors : Process(e)

Spec == Init /\ [][Next]_vars

\* A thread that can run does, and every network operation ends, with data,
\* an error or a time-out.  The PVM need not send anything.
Fairness ==
    /\ WF_vars(Dispatch \/ Process(Dispatcher))
    /\ \A t \in Threads : WF_vars(BeginWork(t) \/ Process(t))

FairSpec == Spec /\ Fairness
-----------------------------------------------------------------------------
\* What each variable may hold.
TypeOK ==
    /\ req \in Seq([type : Types, fd : Threads \cup {Invalid},
                    sock : Ids \cup {None}, overtakes : SUBSET Ids])
    /\ answered \in [Ids -> 0..2] /\ failed \subseteq Ids
    /\ live \in [Threads -> Ids \cup {None}]
    /\ buf_in_use \subseteq Buffers
    /\ region \in [Buffers -> Ids \cup {None}]
    /\ assigned_thread \in [Buffers -> Threads \cup {None}]
    /\ in_use \subseteq Threads
    /\ public_fd \in [Threads -> Threads \cup {None, Invalid}]
    /\ local_fd \in [Threads -> Ids \cup {None, Invalid}]
    /\ bound_port_num \in [Threads -> Ports \cup {None}]
    /\ state_flags \in [Threads -> BOOLEAN]
    /\ oplock \in [Threads -> {0, 1}]
    /\ oplock_acquired \in [Threads -> BOOLEAN]
    /\ work_queue \in [Threads -> Seq(Buffers)]
    /\ awaiting_work_sem \in [Threads -> 0..BUFFER_ITEM_COUNT]
    /\ socket_ct \in Int
    /\ {published, ports} \subseteq SUBSET Ports /\ unpublished \in BOOLEAN
    /\ open \subseteq Ids
    /\ pc \in [Executors -> {"reserve", "read", "assign", "oplock", "enqueue",
                  "error", "wait", "operate", "publish", "respond", "finish"}]
    /\ buf \in [Executors -> Buffers \cup {None}]
    /\ op_fd \in [Executors -> Ids \cup {None, Invalid}]
    /\ rc \in [Executors -> {0, -1}] /\ headless \in [Executors -> BOOLEAN]

\* How many places refer to a buffer: threads working on it and positions in
\* the queues.
Holders(b) ==
    Cardinality({e \in Executors : buf[e] = b}) +
    Cardinality({p \in Threads \X Buffers :
       p[2] <= Len(work_queue[p[1]]) /\ work_queue[p[1]][p[2]] = b})

\* A buffer in use has one owner and a free one none, although
\* process_buffer_item and both of its callers release it: a request is never
\* overwritten by the next one while some thread still works on it, and no
\* buffer is lost.  The one reference to a free buffer is the dispatcher's own
\* while it reports an internal error, before it can reserve another.
BufferOwnership ==
    \A b \in Buffers :
        \/ b \in buf_in_use /\ Holders(b) = 1
        \/ b \notin buf_in_use /\ Holders(b) = 0
        \/ /\ b \notin buf_in_use /\ Holders(b) = 1
           /\ pc[Dispatcher] = "error" /\ buf[Dispatcher] = b

\* A descriptor the PVM holds is served: its thread is in use, under that
\* descriptor, and holds the socket the PVM means, open.  Threads are released
\* and reused by the dispatcher and taken by accepting workers in between.
LiveFdIsServed ==
    \A t \in Threads : live[t] # None =>
        /\ t \in in_use /\ public_fd[t] = t
        /\ local_fd[t] = live[t] /\ live[t] \in open

\* The threads that serve no socket and that nobody is working on.
Stranded ==
    {t \in in_use : /\ local_fd[t] \notin open
                    /\ \A e \in Executors : pc[e] \notin {"wait", "read", "reserve"}
                         => buf[e] = None \/ WorkerOf(e) # t}

\* Only address blocking strands a worker thread (it takes one, and neither
\* process_buffer_item nor a later request gives it back); no sequence of
\* creating, accepting and closing, with failures of each, does.
OnlyAddrBlockStrands ==
    Cardinality(Stranded) <=
        Cardinality({i \in DOMAIN req : req[i].type = "AddrBlock"})

\* network_stats_socket_ct, from which the load is balanced, never reports
\* fewer sockets than are open, but for the one that close() is at; it reports
\* more only by those that a failed Create or Accept counted.
SocketCount ==
    /\ Cardinality(open) <= socket_ct
    /\ socket_ct <= Cardinality(open) + Cardinality(failed)

\* A worker's semaphore counts its queue: a worker is never woken for an empty
\* queue (the "Programming error" in worker_thread_func) nor left asleep with
\* work to do.
SemaphoreCountsWork ==
    \A t \in Threads : awaiting_work_sem[t] = Len(work_queue[t])

\* XenStore names exactly the ports that open sockets are bound to, except
\* while the dispatcher is on its way to publish a change, and from an attempt
\* that fails (it is not repeated) to the next one that succeeds.
PortsArePublished ==
    \/ pc[Dispatcher] = "publish"
    \/ unpublished
    \/ published = Listening(bound_port_num)

\* The requests that thread t, or the dispatcher for it, still has to perform.
Unperformed(t) ==
    {req[region[work_queue[t][n]]].type : n \in DOMAIN work_queue[t]}
      \cup {TypeOf(e) : e \in {x \in Executors :
              pc[x] \in {"operate", "enqueue"} /\ WorkerOf(x) = t}}

\* oplock and oplock_acquired agree: the semaphore is at 1, or at 0 and recorded
\* as acquired.  It is posted exactly once for each time it is waited for.
OplockHeldOnce ==
    \A t \in Threads : oplock[t] = IF oplock_acquired[t] THEN 0 ELSE 1

\* The oplock is held at most once, and whenever it is held there is an
\* operation still to be performed for that thread that will release it,
\* although any operation, not only the one that acquired it, does so.  The
\* dispatcher, which waits for it, is never left waiting for nobody.
OplockWillBeReleased ==
    /\ OplockHeldOnce
    /\ \A t \in Threads : oplock_acquired[t] => Unperformed(t) # {}

\* The requests that a Close has overtaken.
Overtaken == UNION {req[c].overtakes : c \in DOMAIN req}

\* An operation is performed on the socket the request was issued for.  Only a
\* request that the PVM did not await before it closed the socket, a Recv or an
\* Accept for the driver's MT_CLOSE_WAITS, may reach the thread's next socket;
\* a Send never does.
OperatesOnOwnSocket ==
    \A t \in Threads : pc[t] = "operate" =>
        \/ op_fd[t] = req[IdOf(t)].sock
        \/ IdOf(t) \in Overtaken /\ TypeOf(t) \notin CloseWaits

\* A connection is reported as closed by its peer only after an operation on
\* it found it so: the flag, kept per thread, does not stay for the thread's
\* next socket, whose owner in the PVM would then close it.  What can still
\* set it is an operation on an earlier socket of the thread that a Close
\* overtook.
ClosureIsOwn ==
    \A t \in Threads : live[t] # None /\ state_flags[t] =>
        \E i \in DOMAIN req :
            /\ req[i].type \in {"Recv", "Send"}
            /\ \/ req[i].sock = live[t]
               \/ /\ req[i].fd = t /\ i \in Overtaken
                  /\ req[i].type \notin CloseWaits

\* A request is answered at most once, by whichever of the dispatcher and the
\* worker it was left to.  Address blocking is the exception: when npfctl
\* fails, the response says so and the dispatcher reports it once more,
\* although process_buffer_item wants "exactly one response".
AnsweredOnce ==
    \A i \in Ids :
        \/ answered[i] <= 1
        \/ /\ answered[i] = 2 /\ req[i].type = "AddrBlock"
           /\ "npfctl" \in Faults

\* Every request that is read is answered in the end: the dispatcher does not
\* block for good on an oplock and no queued request is forgotten.
EveryRequestAnswered ==
    \A i \in Ids : (i \in DOMAIN req) ~> (answered[i] > 0)

\* threadpool.h says of the oplock that it "prevents a close() to occur while
\* a send() is in progress".
OplockExcludesSend ==
    pc[Dispatcher] = "operate" /\ TypeOf(Dispatcher) \in {"Shutdown", "Close"}
        => LET t == WorkerOf(Dispatcher) IN
           ~(pc[t] = "operate" /\ TypeOf(t) = "Send")

\* process_buffer_item's comment: "a socket's response count must match its
\* request count once its close() has completed".
CloseAnswersAll ==
    \A c \in DOMAIN req : req[c].type = "Close" /\ answered[c] > 0 =>
        \A i \in DOMAIN req : req[i].sock = req[c].sock => answered[i] > 0

\* message_dispatcher's comment when no buffer is available: "Yield and try
\* again."
DispatcherGetsBuffer == pc[Dispatcher] = "reserve" ~> pc[Dispatcher] = "read"

\* The PVM has sent all it will and every request is dealt with.
Finished ==
    /\ pc[Dispatcher] = "read" /\ Len(req) = MaxRequests
    /\ \A t \in Threads : pc[t] = "wait" /\ work_queue[t] = <<>>
=============================================================================
