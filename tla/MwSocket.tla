------------------------------ MODULE MwSocket ------------------------------
(***************************************************************************)
(* The socket layer of the PVM driver (mwcomms-socket.c): one socket       *)
(* instance, the threads of the process that uses it, the active requests  *)
(* they create, the response consumer that completes or destroys them, and *)
(* the closing of the socket.                                              *)
(*                                                                         *)
(* The ring is the channel of RequestChannel: requests go in under the     *)
(* ring's request lock and each is answered at most once.  The requests    *)
(* the INS queues for the socket's worker thread are answered in order,    *)
(* the others at any time (InsDispatch).  The user program is the shim     *)
(* (tcp_ip_wrapper.c): it writes a request, again as long as that is       *)
(* interrupted, and reads the response if it asked for it.                 *)
(*                                                                         *)
(* A thread that is about to use an active request or a socket instance    *)
(* that was freed takes no other step than to record itself in oops;       *)
(* nothing is said of what the system does after that.                     *)
(***************************************************************************)
EXTENDS Integers, Sequences, FiniteSets, SequencesExt

CONSTANTS Threads,        \* threads of the process
          Mitigator,      \* the netflow thread, which may close the socket
          Calls,          \* the requests they write: type and "caller waits"
          MaxRequests     \* bound: active requests created in one behaviour

UserTypes   == {"Send", "Recv", "GetName", "Shutdown"}
CLOSE_WAITS == {"Send", "GetName"}
QueuedTypes == {"Send", "Recv", "GetName"}
RequestTypes == UserTypes \cup {"Attrib", "Close"}

Callers == Threads \cup {Mitigator}
Nobody  == "nobody"
KernelThreads == {"consumer", "reaper"}

ASSUME SocketAssumption ==
    /\ Calls \subseteq [type : UserTypes, waits : BOOLEAN]
    /\ MaxRequests \in Nat \ {0}
    /\ IsFiniteSet(Threads) /\ Mitigator \notin Threads
    /\ Callers \cap ({Nobody} \cup KernelThreads) = {}

Ids     == 1..MaxRequests
Unset   == 0   \* MT_ID_UNSET_VALUE

VARIABLES
    \* mwsocket_instance_t
    refct, request_sem, state_valid, read_expected, blockid,
    close_readers, close_writer,   \* close_lock
    close_blockid, remote_close_requested, remote_surprise_close, ins_alive,
    released,    \* the file is closed (MWSOCKET_FLAG_RELEASED)
    exiting,     \* PF_EXITING of sockinst->proc
    \* mwsocket_active_request_t
    next_id,
    active,      \* active_request_list
    type,        \* rr.request.base.type
    deliver_response,
    arrived,     \* requests whose completion is signalled
    \* the ring and the INS
    request_lock, sent, responses,
    ins_runs,    \* the INS has not crashed
    ins_up,      \* its slot of the table is in use
    \* the reaper, in the monitor thread
    rpc, curr_ar, next_ar,
    \* the response consumer
    cpc, response,
    \* the threads
    pc,
    call,        \* the request being written
    actreq,      \* the active request the thread works on
    own,         \* the request of its latest write
    forced,      \* Close was sent although the close lock was not acquired
    race,        \* what has happened to a request somebody else worked on
    oops         \* who has used freed memory

refVars     == <<refct, next_id, active, type>>
closeVars   == <<close_readers, close_writer, close_blockid>>
readVars    == <<request_sem, state_valid, read_expected, blockid>>
flagVars    == <<remote_close_requested, remote_surprise_close, ins_alive,
                 released, exiting>>
deliverVars == <<deliver_response, arrived>>
walkVars    == <<rpc, curr_ar, next_ar, race>>
insVars     == <<ins_runs, ins_up, walkVars>>
ringVars    == <<request_lock, sent, responses, insVars>>
consumerVars == <<cpc, response>>
threadVars  == <<pc, call, actreq, own, forced>>
stateVars   == <<refVars, closeVars, readVars, flagVars, deliverVars, ringVars,
                 consumerVars, threadVars>>
vars        == <<stateVars, oops>>

NoCall     == [type |-> "none", waits |-> FALSE]
NoResponse == [id |-> Unset, closed |-> FALSE]

\* A socket that mwsocket_create or an accept has given to the user.
Init ==
    /\ refct = 1 /\ request_sem = 1
    /\ state_valid = TRUE /\ read_expected = FALSE /\ blockid = Unset
    /\ close_readers = 0 /\ close_writer = FALSE /\ close_blockid = Unset
    /\ remote_close_requested = FALSE /\ remote_surprise_close = FALSE
    /\ ins_alive = TRUE /\ released = FALSE /\ exiting = FALSE
    /\ next_id = 1 /\ active = {}
    /\ type = [i \in Ids |-> "none"]
    /\ deliver_response = {} /\ arrived = {}
    /\ request_lock = Nobody /\ sent = <<>> /\ responses = <<>>
    /\ ins_runs = TRUE /\ ins_up = TRUE
    /\ rpc = "idle" /\ curr_ar = Unset /\ next_ar = Unset
    /\ cpc = "idle" /\ response = NoResponse
    /\ pc = [t \in Callers |-> "idle"]
    /\ call = [t \in Callers |-> NoCall]
    /\ actreq = [t \in Callers |-> Unset]
    /\ own = [t \in Callers |-> Unset]
    /\ forced = FALSE /\ race = {} /\ oops = Nobody

Goto(t, step) == pc' = [pc EXCEPT ![t] = step]

\* The call returns (or, for "closed", the request is done with): what the
\* thread kept for it is forgotten.
Return(t, step) ==
    /\ Goto(t, step)
    /\ call' = [call EXCEPT ![t] = NoCall]
    /\ actreq' = [actreq EXCEPT ![t] = Unset]
    /\ own' = [own EXCEPT ![t] = Unset]
Freed == refct = 0
-----------------------------------------------------------------------------
(* Active requests.                                                        *)

\* Variant with a fault: no reference to the socket instance is taken.
CreateUnreferenced(t, kind) ==
    /\ active' = active \cup {next_id}
    /\ type' = [type EXCEPT ![next_id] = kind]
    /\ next_id' = next_id + 1
    /\ actreq' = [actreq EXCEPT ![t] = next_id]
    /\ UNCHANGED refct

mwsocket_create_active_request(t, kind) ==
    /\ active' = active \cup {next_id}
    /\ refct' = refct + 1
    /\ type' = [type EXCEPT ![next_id] = kind]
    /\ next_id' = next_id + 1
    /\ actreq' = [actreq EXCEPT ![t] = next_id]

\* Variant with a fault: the field is cleared whoever set it.
ClearAnyCloseBlock(id) == IF id \in Ids THEN Unset ELSE close_blockid

ClearCloseBlock(id) == IF close_blockid = id THEN Unset ELSE close_blockid

\* The active request is gone, with its reference to the socket instance.
mwsocket_destroy_active_request(id) ==
    /\ close_blockid' = ClearCloseBlock(id)
    /\ active' = active \ {id}
    /\ refct' = refct - 1
    /\ deliver_response' = deliver_response \ {id}
    /\ UNCHANGED <<next_id, type>>

-----------------------------------------------------------------------------
(* mwsocket_write                                                          *)

\* A thread may start a call.  The bound leaves one request for the Close.
MayCall(t) ==
    /\ pc[t] = "idle" /\ ~released /\ ~exiting
    /\ next_id + Cardinality({u \in Threads : pc[u] = "write"}) < MaxRequests

BeginWrite(t, c) ==
    /\ MayCall(t)
    /\ call' = [call EXCEPT ![t] = c]
    /\ Goto(t, "write")
    /\ UNCHANGED <<refVars, closeVars, readVars, flagVars, deliverVars,
                   ringVars, consumerVars, actreq, own, forced>>

mwsocket_pending_error(kind) == remote_surprise_close /\ kind # "Shutdown"

\* request_sem is acquired; the write goes on to the ring or ends with an
\* error.
StartWrite(t) ==
    /\ pc[t] = "write" /\ request_sem > 0
    /\ IF \/ state_valid /\ read_expected
          \/ ~ins_alive
          \/ mwsocket_pending_error(call[t].type)
         THEN /\ read_expected' = FALSE
              /\ Return(t, "idle")
              /\ UNCHANGED <<refVars, request_sem>>
         ELSE /\ mwsocket_create_active_request(t, call[t].type)
              /\ request_sem' = request_sem - 1
              /\ own' = [own EXCEPT ![t] = next_id]
              /\ Goto(t, "slot")
              /\ UNCHANGED <<read_expected, call>>
    /\ UNCHANGED <<closeVars, state_valid, blockid, flagVars, deliverVars,
                   ringVars, consumerVars, forced>>

\* An interrupted write releases the semaphore it did not acquire, and the
\* shim writes again.
InterruptWrite(t) ==
    /\ pc[t] = "write" /\ request_sem = 0
    /\ state_valid' = FALSE
    /\ read_expected' = FALSE
    /\ request_sem' = request_sem + 1
    /\ UNCHANGED <<refVars, closeVars, blockid, flagVars, deliverVars,
                   ringVars, consumerVars, threadVars>>
-----------------------------------------------------------------------------
(* mwsocket_send_request, for every sender                                 *)

Kind(t) == type[actreq[t]]

\* What the sender does when the request was not sent: the active request is
\* destroyed, a write releases the semaphore, a release() goes on.
SendFailed(t) ==
    /\ mwsocket_destroy_active_request(actreq[t])
    /\ IF Kind(t) \in UserTypes
         THEN read_expected' = FALSE /\ request_sem' = request_sem + 1
         ELSE UNCHANGED <<read_expected, request_sem>>
    /\ Return(t, IF Kind(t) = "Close" THEN "closed" ELSE "idle")

mw_xen_get_next_request_slot(t) ==
    /\ pc[t] = "slot"
    /\ IF ins_alive /\ ins_up
         THEN /\ request_lock = Nobody
              /\ request_lock' = t
              /\ Goto(t, "prepare")
              /\ UNCHANGED <<refVars, close_blockid, read_expected,
                             request_sem, ins_alive, deliver_response,
                             call, actreq, own>>
         ELSE /\ ins_alive' = FALSE
              /\ SendFailed(t)
              /\ UNCHANGED request_lock
    /\ UNCHANGED <<close_readers, close_writer, state_valid, blockid,
                   remote_close_requested, remote_surprise_close, released,
                   exiting, arrived, sent, responses, insVars,
                   consumerVars, forced>>

\* A write whose caller waits announces the read that follows.
ExpectRead(t) ==
    IF Kind(t) \in UserTypes /\ call[t].waits
      THEN /\ read_expected' = TRUE
           /\ blockid' = actreq[t]
           /\ deliver_response' = deliver_response \cup {actreq[t]}
      ELSE UNCHANGED <<read_expected, blockid, deliver_response>>

\* Some requests take the close lock as readers.
PrepareRequest(t) ==
    /\ pc[t] = "prepare" /\ Kind(t) # "Close"
    /\ ExpectRead(t)
    /\ IF Kind(t) \in CLOSE_WAITS
         THEN /\ ~close_writer
              /\ close_readers' = close_readers + 1
              /\ close_blockid' = actreq[t]
         ELSE UNCHANGED <<close_readers, close_blockid>>
    /\ Goto(t, "push")
    /\ UNCHANGED <<refVars, close_writer, request_sem, state_valid, flagVars,
                   arrived, ringVars, consumerVars, call, actreq, own, forced>>

\* Close takes it as the writer if a request is known to be in flight.
PrepareClose(t) ==
    /\ pc[t] = "prepare" /\ Kind(t) = "Close"
    /\ Goto(t, IF close_blockid = Unset THEN "push" ELSE "trylock")
    /\ UNCHANGED <<refVars, closeVars, readVars, flagVars, deliverVars,
                   ringVars, consumerVars, call, actreq, own, forced>>

\* It tries sixty times, a second apart, and then goes ahead without it.
TryCloseLock(t) ==
    /\ pc[t] = "trylock"
    /\ IF close_readers = 0 /\ ~close_writer
         THEN close_writer' = TRUE /\ UNCHANGED forced
         ELSE forced' = TRUE /\ UNCHANGED close_writer
    /\ close_blockid' = Unset
    /\ Goto(t, "push")
    /\ UNCHANGED <<refVars, close_readers, readVars, flagVars, deliverVars,
                   ringVars, consumerVars, call, actreq, own>>

\* Variants with a fault: every write releases the semaphore; none does.
KeepsNothing == FALSE
KeepsAlways == TRUE

\* A read is to follow.
KeepsSemaphore == read_expected /\ state_valid

\* What the sender does when the request was sent.
EndSend(t) ==
    \/ /\ Kind(t) \notin UserTypes
       /\ Goto(t, "await")
       /\ UNCHANGED <<request_sem, call, actreq, own>>
    \/ /\ Kind(t) \in UserTypes
       /\ request_sem' = IF KeepsSemaphore THEN request_sem ELSE request_sem + 1
       /\ IF call[t].waits
            THEN Goto(t, "mustread") /\ UNCHANGED <<call, actreq, own>>
            ELSE Return(t, "idle")

\* mw_xen_release_request, and the end of mwsocket_write.  That an INS which has
\* crashed can no longer be notified is left out: the request stays on its ring
\* until the reaper comes.
mw_xen_release_request(t) ==
    /\ pc[t] = "push"
    /\ request_lock' = Nobody
    /\ IF ins_up
         THEN /\ sent' = Append(sent, actreq[t])
              /\ EndSend(t)
              /\ UNCHANGED <<refVars, close_blockid, read_expected,
                             deliver_response>>
         ELSE SendFailed(t) /\ UNCHANGED sent
    /\ UNCHANGED <<close_readers, close_writer, state_valid, blockid, flagVars,
                   arrived, responses, insVars, consumerVars, forced>>
-----------------------------------------------------------------------------
(* mwsocket_read                                                           *)

BeginRead(t) ==
    /\ pc[t] = "mustread" /\ ~released /\ ~exiting
    /\ IF (state_valid /\ ~read_expected) \/ blockid \notin active
         THEN /\ request_sem' = request_sem + 1
              /\ Return(t, "idle")
         ELSE /\ actreq' = [actreq EXCEPT ![t] = blockid]
              /\ Goto(t, "read")
              /\ UNCHANGED <<request_sem, call, own>>
    /\ read_expected' = FALSE
    /\ UNCHANGED <<refVars, closeVars, state_valid, blockid, flagVars,
                   deliverVars, ringVars, consumerVars, forced>>

\* The response is copied to the user, or the pending error is.
EndRead(t) ==
    /\ pc[t] = "read" /\ actreq[t] \in arrived
    /\ mwsocket_destroy_active_request(actreq[t])
    /\ arrived' = arrived \ {actreq[t]}
    /\ request_sem' = request_sem + 1
    /\ Return(t, "idle")
    /\ UNCHANGED <<close_readers, close_writer, state_valid, read_expected,
                   blockid, flagVars, ringVars, consumerVars, forced>>

\* An interrupted read releases the semaphore and keeps the request; the shim
\* reads again.
InterruptRead(t) ==
    /\ pc[t] = "read" /\ actreq[t] \notin arrived
    /\ read_expected' = TRUE
    /\ request_sem' = request_sem + 1
    /\ Goto(t, "mustread")
    /\ UNCHANGED <<refVars, closeVars, state_valid, blockid, flagVars,
                   deliverVars, ringVars, consumerVars, call, actreq, own,
                   forced>>
-----------------------------------------------------------------------------
(* mwsocket_ioctl and the closing of the socket: the kernel waits          *)

\* mwsocket_handle_attrib does not take request_sem.
BeginAttrib(t) ==
    /\ MayCall(t) /\ ins_alive
    /\ mwsocket_create_active_request(t, "Attrib")
    /\ deliver_response' = deliver_response \cup {next_id}
    /\ Goto(t, "slot")
    /\ UNCHANGED <<closeVars, readVars, flagVars, arrived, ringVars,
                   consumerVars, call, own, forced>>

mwsocket_close_remote(t) ==
    /\ remote_close_requested' = TRUE
    /\ IF remote_close_requested \/ ~ins_alive
         THEN /\ Goto(t, "closed")
              /\ UNCHANGED <<refVars, deliver_response, actreq>>
         ELSE /\ mwsocket_create_active_request(t, "Close")
              /\ deliver_response' = deliver_response \cup {next_id}
              /\ Goto(t, "slot")

\* The last reference to the file is dropped: no thread is in a call on it.
\* A thread that has still to read its response never does.
mwsocket_release(t) ==
    /\ pc[t] = "idle" /\ ~released
    /\ \A u \in Threads : pc[u] \in {"idle", "mustread"}
    /\ released' = TRUE
    /\ mwsocket_close_remote(t)
    /\ UNCHANGED <<closeVars, readVars, remote_surprise_close, ins_alive,
                   exiting, arrived, ringVars, consumerVars, call, own, forced>>

\* The consumer has found the request and is not done with it.
Handles(id) == cpc # "idle" /\ response.id = id

\* A wait may end although the consumer has found the request.
AwaitResponse(t) ==
    /\ pc[t] = "await"
    /\ \/ /\ actreq[t] \in arrived
          /\ UNCHANGED race
       \/ /\ actreq[t] \notin arrived        \* GENERAL_RESPONSE_TIMEOUT
          /\ race' = IF Handles(actreq[t]) THEN race \cup {"timeout"} ELSE race
    /\ mwsocket_destroy_active_request(actreq[t])
    /\ arrived' = arrived \ {actreq[t]}
    /\ Return(t, IF Kind(t) = "Close" THEN "closed" ELSE "idle")
    /\ UNCHANGED <<close_readers, close_writer, readVars, flagVars, request_lock,
                   sent, responses, ins_runs, ins_up, rpc, curr_ar, next_ar,
                   consumerVars, forced>>

\* mwsocket_put_sockinst, the last step of mwsocket_release.
mwsocket_put_sockinst(t) ==
    /\ pc[t] = "closed" /\ t \in Threads
    /\ refct' = refct - 1
    /\ Goto(t, "done")
    /\ UNCHANGED <<next_id, active, type, closeVars, readVars, flagVars,
                   deliverVars, ringVars, consumerVars, call, actreq, own,
                   forced>>

\* The process exits, outside any call; its files are then released.
Exit ==
    /\ ~exiting /\ ~released
    /\ \A u \in Threads : pc[u] \in {"idle", "mustread"}
    /\ exiting' = TRUE
    /\ UNCHANGED <<refVars, closeVars, readVars, remote_close_requested,
                   remote_surprise_close, ins_alive, released, deliverVars,
                   ringVars, consumerVars, threadVars>>

\* mwsocket_close_by_remote_fd, in the netflow thread: it looks the socket up,
\* takes no reference, and closes it under its user.
BeginMitigate ==
    /\ pc[Mitigator] = "idle" /\ ~Freed
    /\ mwsocket_close_remote(Mitigator)
    /\ UNCHANGED <<closeVars, readVars, remote_surprise_close, ins_alive,
                   released, exiting, arrived, ringVars, consumerVars, call,
                   own, forced>>

EndMitigate ==
    /\ pc[Mitigator] = "closed"
    /\ remote_surprise_close' \in {TRUE, remote_surprise_close} \* if it failed
    /\ Goto(Mitigator, "done")
    /\ UNCHANGED <<refVars, closeVars, readVars, remote_close_requested,
                   ins_alive, released, exiting, deliverVars, ringVars,
                   consumerVars, call, actreq, own, forced>>
-----------------------------------------------------------------------------
(* The INS and the response consumer                                       *)

\* Requests for the socket's worker thread are answered in order.  Any
\* response may tell that the peer has closed the connection.
InsAnswers(n, closed) ==
    /\ ins_runs /\ n \in DOMAIN sent
    /\ type[sent[n]] \in QueuedTypes =>
         \A m \in 1..(n - 1) : type[sent[m]] \notin QueuedTypes
    /\ sent' = RemoveAt(sent, n)
    /\ responses' = Append(responses, [id |-> sent[n], closed |-> closed])
    /\ UNCHANGED <<refVars, closeVars, readVars, flagVars, deliverVars,
                   request_lock, insVars, consumerVars, threadVars>>

InsCrashes ==
    /\ ins_runs
    /\ ins_runs' = FALSE
    /\ UNCHANGED <<refVars, closeVars, readVars, flagVars, deliverVars,
                   request_lock, sent, responses, ins_up, walkVars,
                   consumerVars, threadVars>>

\* The INS is considered dead, because it is or because its heartbeats are
\* late: nothing is sent to it or taken from its ring any more.
mw_xen_release_ins ==
    /\ ins_up
    /\ ins_up' = FALSE
    /\ sent' = <<>> /\ responses' = <<>>
    /\ UNCHANGED <<refVars, closeVars, readVars, flagVars, deliverVars,
                   request_lock, ins_runs, walkVars, consumerVars, threadVars>>

\* mwsocket_find_active_request_by_id: the lock is dropped with no reference
\* taken.  A response to nothing is marked consumed.
FindRequest ==
    /\ cpc = "idle" /\ responses # <<>>
    /\ responses' = Tail(responses)
    /\ IF Head(responses).id \in active
         THEN cpc' = "found" /\ response' = Head(responses)
         ELSE UNCHANGED consumerVars
    /\ UNCHANGED <<refVars, closeVars, readVars, flagVars, deliverVars,
                   request_lock, sent, insVars, threadVars>>

\* Variant with a fault: any response releases the close lock.
ReleasesAlways(id) == id \in Ids

ReleasesCloseLock(id) == type[id] \in CLOSE_WAITS

mwsocket_postproc_no_context ==
    /\ cpc = "found"
    /\ IF ReleasesCloseLock(response.id)
         THEN /\ close_blockid' = ClearCloseBlock(response.id)
              /\ close_readers' = close_readers - 1
         ELSE UNCHANGED <<close_blockid, close_readers>>
    /\ remote_surprise_close' = (remote_surprise_close \/ response.closed)
    /\ cpc' = "decide"
    /\ UNCHANGED <<refVars, close_writer, readVars, remote_close_requested,
                   ins_alive, released, exiting, deliverVars, ringVars,
                   response, threadVars>>

\* Variants with a fault: a user's response is never delivered; one that
\* nobody wants is signalled and kept.
UndeliveredToUsers(id) == id \notin deliver_response \/ type[id] \in UserTypes
UndeliveredToDying(id) == type[id] \in UserTypes /\ exiting

\* The caller does not want the response, or is dying.
Undelivered(id) ==
    id \notin deliver_response \/ (type[id] \in UserTypes /\ exiting)

DecideFate ==
    /\ cpc = "decide"
    /\ IF Undelivered(response.id)
         THEN /\ mwsocket_destroy_active_request(response.id)
              /\ UNCHANGED arrived
         ELSE /\ arrived' = arrived \cup {response.id}
              /\ UNCHANGED <<refVars, close_blockid, deliver_response>>
    /\ cpc' = "idle" /\ response' = NoResponse
    /\ UNCHANGED <<close_readers, close_writer, readVars, flagVars, ringVars,
                   threadVars>>
-----------------------------------------------------------------------------
(* The monitor thread, after it has released the INS                       *)

\* A thread is in mwsocket_send_request with the request.
Sends(t, id) ==
    pc[t] \in {"slot", "prepare", "trylock", "push"} /\ actreq[t] = id

\* Variant with a fault: only the kernel's own requests are completed.
FailedIfKernels(id) ==
    id \in deliver_response \ arrived /\ type[id] \notin UserTypes

\* The requests that are completed with an error.
FailedByReaper(id) == id \in deliver_response \ arrived

\* The list runs from the newest request to the oldest: y comes after x, or
\* the list ends with x.
After(x, y) ==
    \/ /\ y \in active /\ y < x
       /\ \A z \in active : z < x => z <= y
    \/ /\ y = Unset
       /\ \A z \in active : z >= x

\* The walk over the list, which takes no lock: the reaper is at curr_ar and
\* goes on to next_ar, whatever happens to them.
BeginWalk ==
    /\ ~ins_up /\ rpc = "idle"
    /\ rpc' = "walk"
    /\ \E x, y \in Ids \cup {Unset} :
         /\ After(MaxRequests + 1, x) /\ curr_ar' = x
         /\ After(x, y) /\ next_ar' = y
    /\ UNCHANGED <<refVars, closeVars, readVars, flagVars, deliverVars,
                   request_lock, sent, responses, ins_runs, ins_up, race,
                   consumerVars, threadVars>>

\* A request whose caller waits is completed with an error, the way the
\* consumer does it; one that nobody waits for is destroyed.
ReapRequest ==
    /\ rpc = "walk" /\ curr_ar # Unset
    /\ \/ /\ FailedByReaper(curr_ar)
          /\ arrived' = arrived \cup {curr_ar}
          /\ IF ReleasesCloseLock(curr_ar)
               THEN /\ close_blockid' = ClearCloseBlock(curr_ar)
                    /\ close_readers' = close_readers - 1
               ELSE UNCHANGED <<close_blockid, close_readers>>
          /\ UNCHANGED <<refVars, deliver_response>>
       \/ /\ curr_ar \in deliver_response /\ ~FailedByReaper(curr_ar)
          /\ UNCHANGED <<refVars, close_blockid, close_readers, deliverVars>>
       \/ /\ curr_ar \notin deliver_response
          /\ mwsocket_destroy_active_request(curr_ar)
          /\ UNCHANGED <<close_readers, arrived>>
    /\ race' = IF Handles(curr_ar) \/ \E t \in Callers : Sends(t, curr_ar)
                 THEN race \cup {"reaper"} ELSE race
    /\ curr_ar' = next_ar
    /\ \E y \in Ids \cup {Unset} : After(next_ar, y) /\ next_ar' = y
    /\ UNCHANGED <<close_writer, readVars, flagVars, request_lock, sent,
                   responses, ins_runs, ins_up, rpc, consumerVars, threadVars>>

\* The socket is marked.
ReapSocket ==
    /\ rpc = "walk" /\ curr_ar = Unset
    /\ rpc' = "done"
    /\ ins_alive' = FALSE
    /\ UNCHANGED <<refVars, closeVars, readVars, remote_close_requested,
                   remote_surprise_close, released, exiting, deliverVars,
                   request_lock, sent, responses, ins_runs, ins_up, curr_ar,
                   next_ar, race, consumerVars, threadVars>>

mwsocket_reap_dead_sock_instances == BeginWalk \/ ReapRequest \/ ReapSocket
-----------------------------------------------------------------------------
(* The use of freed memory                                                 *)

\* What a thread, the consumer or the reaper works on next was freed.
Dangling(t) ==
    \/ /\ pc[t] \in {"slot", "prepare", "trylock", "push", "read", "await"}
       /\ actreq[t] \notin active
    \/ pc[t] \in {"write", "closed"} /\ Freed
ConsumerDangling == cpc # "idle" /\ response.id \notin active
ReaperDangling ==
    rpc = "walk" /\ ~({curr_ar, next_ar} \subseteq active \cup {Unset})

UseFreed(who) == oops = Nobody /\ oops' = who /\ UNCHANGED stateVars
-----------------------------------------------------------------------------
Send(t) ==
    \/ mw_xen_get_next_request_slot(t)
    \/ PrepareRequest(t)
    \/ PrepareClose(t)
    \/ TryCloseLock(t)
    \/ mw_xen_release_request(t)

Unharmed == oops = Nobody /\ UNCHANGED oops

\* The steps of a call that has begun.
InCall(t) ==
    \/ Dangling(t) /\ UseFreed(t)
    \/ /\ Unharmed /\ ~Dangling(t)
       /\ \/ StartWrite(t)
          \/ Send(t)
          \/ EndRead(t)
          \/ AwaitResponse(t)
          \/ mwsocket_put_sockinst(t)

Consumer ==
    \/ ConsumerDangling /\ UseFreed("consumer")
    \/ /\ Unharmed /\ ~ConsumerDangling
       /\ FindRequest \/ mwsocket_postproc_no_context \/ DecideFate

Reaper ==
    \/ ReaperDangling /\ UseFreed("reaper")
    \/ Unharmed /\ ~ReaperDangling /\ mwsocket_reap_dead_sock_instances

Ins == Unharmed /\ \E n \in Ids, closed \in BOOLEAN : InsAnswers(n, closed)

ReleaseIns == Unharmed /\ mw_xen_release_ins

\* The shim goes on to read the response it asked for.
Reads(t) == Unharmed /\ BeginRead(t)

Next ==
    \/ \E t \in Threads : InCall(t) \/ Reads(t)
    \/ /\ Unharmed
       /\ \/ \E t \in Threads :
               \/ \E c \in Calls : BeginWrite(t, c)
               \/ BeginAttrib(t)
               \/ mwsocket_release(t)
          \/ InsCrashes
          \/ Exit
    \/ Ins
    \/ ReleaseIns
    \/ Consumer
    \/ Reaper

Spec == Init /\ [][Next]_vars

\* Kernel threads run, the INS answers unless it crashes, an INS that sends no
\* heartbeats is released and its sockets are then reaped, a thread that has
\* entered the kernel goes on, and the shim reads the response it asked for.
Fairness ==
    /\ \A t \in Threads : WF_vars(InCall(t)) /\ WF_vars(Reads(t))
    /\ WF_vars(Consumer)
    /\ WF_vars(Ins)
    /\ WF_vars(~ins_runs /\ ReleaseIns)
    /\ WF_vars(Reaper)

FairSpec == Spec /\ Fairness

\* The same, with signals that interrupt the waits of the user's threads.
SpecWithSignals ==
    Init /\ [][\/ Next
               \/ /\ Unharmed
                  /\ \E t \in Threads : InterruptWrite(t) \/ InterruptRead(t)]_vars

\* The same, with the netflow thread closing the socket.
SpecWithMitigation ==
    Init /\ [][\/ Next
               \/ InCall(Mitigator)
               \/ Unharmed /\ (BeginMitigate \/ EndMitigate)]_vars
-----------------------------------------------------------------------------
\* What each variable may hold.  The close lock is not released more often
\* than acquired, until the reaper completes a request under the consumer.
TypeOK ==
    /\ refct \in Nat /\ request_sem \in Nat
    /\ close_readers \in (IF "reaper" \in race THEN Int ELSE Nat)
    /\ {state_valid, read_expected, close_writer, remote_close_requested,
        remote_surprise_close, ins_alive, released, exiting, ins_runs, ins_up,
        forced}
         \subseteq BOOLEAN
    /\ {blockid, close_blockid, curr_ar, next_ar} \subseteq Ids \cup {Unset}
    /\ next_id \in 1..(MaxRequests + 1)
    /\ active \subseteq Ids
    /\ type \in [Ids -> RequestTypes \cup {"none"}]
    /\ deliver_response \subseteq Ids /\ arrived \subseteq Ids
    /\ request_lock \in Callers \cup {Nobody}
    /\ sent \in Seq(Ids)
    /\ responses \in Seq([id : Ids, closed : BOOLEAN])
    /\ cpc \in {"idle", "found", "decide"}
    /\ response \in [id : Ids \cup {Unset}, closed : BOOLEAN]
    /\ pc \in [Callers -> {"idle", "write", "slot", "prepare", "trylock",
                  "push", "mustread", "read", "await", "closed", "done"}]
    /\ call \in [Callers -> Calls \cup {NoCall}]
    /\ actreq \in [Callers -> Ids \cup {Unset}]
    /\ own \in [Callers -> Ids \cup {Unset}]
    /\ rpc \in {"idle", "walk", "done"}
    /\ race \subseteq {"timeout", "reaper"}
    /\ oops \in Callers \cup KernelThreads \cup {Nobody}

\* "each active request holds a reference to its socket instance": the count
\* is that of the active requests, plus the one that release() gives up, so
\* the instance is freed by whoever finishes last, once.  A second destruction
\* of a request is a use of freed memory, which NoUseAfterFree is about.
RefCounted ==
    refct = Cardinality(active)
              + (IF \E t \in Threads : pc[t] = "done" THEN 0 ELSE 1)

\* Who may use freed memory, and why.  The consumer, which looks a request up
\* and then drops the lock, does so only if a wait timed out on that request
\* or the reaper touched it; a thread of the process, only if the reaper
\* touched a request that was being sent or completed.  No other pair of a
\* sender, a reader, a waiter, release() and the consumer frees what the other
\* still works on.
NoUseAfterFree ==
    /\ oops = "consumer" => race # {}
    /\ oops \in Callers => "reaper" \in race

\* A thread reads the response to the request it wrote, although a socket
\* remembers a single blockid and its threads share it.
ReadsOwnResponse == \A t \in Threads : pc[t] = "read" => actreq[t] = own[t]

\* Close reaches the INS only after every request before it that close() has
\* to wait for is answered, unless it gave up waiting, although the socket
\* remembers only the latest such request.
CloseWaitsForRequests ==
    forced \/ \A n \in DOMAIN sent : type[sent[n]] = "Close" =>
        \A m \in 1..(n - 1) : type[sent[m]] \notin CLOSE_WAITS

\* Every call on the socket returns, whether its INS lives or crashes: the
\* semaphore, the request lock and the close lock are all released again, and
\* what a dead INS will never answer is completed by the reaper.
CallsReturn ==
    \A t \in Threads :
        pc[t] \notin {"idle", "mustread", "done"} ~>
            pc[t] \in {"idle", "mustread", "done"} \/ oops # Nobody

\* A closed socket is freed in the end, with every request it had in flight,
\* also when its INS is dead, unless a response was left unread by the thread
\* that asked for it.
ReleasedIsFreed == released ~> (Freed \/ read_expected \/ oops # Nobody)

\* "No parallel requests per socket": at most one thread is between the
\* acquisition of request_sem and the end of its request.
OneRequestPerSocket ==
    Cardinality({t \in Threads :
        \/ pc[t] \in {"mustread", "read"}
        \/ pc[t] \in {"slot", "prepare", "push"} /\ Kind(t) \in UserTypes}) <= 1

\* mwsocket_pre_process_request says of the close lock that once it is
\* acquired, the socket is to be regarded as dead: no request is then about to
\* wait for that lock, with the ring's request lock held.
ClosedSocketIsDead ==
    close_writer =>
        \A t \in Threads :
            pc[t] = "prepare" => Kind(t) \notin CLOSE_WAITS
=============================================================================
