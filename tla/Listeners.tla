------------------------------ MODULE Listeners ------------------------------
(***************************************************************************)
(* One listening socket of the protected VM, spread over all INSs          *)
(* (mwcomms-socket.c): accept() replicates the socket onto every INS that  *)
(* is ready, a new INS gets a replica from a work item, connections from   *)
(* all of them are queued on the user's socket, and when an INS dies the   *)
(* monitor thread drops its replica or, if it was the INS of the user's    *)
(* own socket, puts a replica in its place.                                *)
(*                                                                         *)
(* An INS has the slot of the INS table that bears its number, and a       *)
(* replica ("sibling listener") the number of its INS.  An active request  *)
(* here is an accept; it stands for the connection it returns.  The        *)
(* requests that set a replica up are steps of the thread that waits for   *)
(* them; an INS that runs answers them, and makes every accept succeed.    *)
(* One thread of the user's process accepts, without signals or polling,   *)
(* and keeps the socket open; mitigation may close it on an INS.           *)
(*                                                                         *)
(* The monitor thread takes no lock.  It may run while a replica is being  *)
(* set up and after the consumer has queued a connection, but not between  *)
(* the steps by which a thread sends an accept.  A replica of an INS that  *)
(* has been reaped leaves the list of siblings at once, and not only with  *)
(* the last connection it has queued: nothing looks for it any more.  The  *)
(* Close that mitigation sends, and waits for, is not followed further.    *)
(***************************************************************************)
EXTENDS Integers, Sequences, FiniteSets, SequencesExt

CONSTANTS MAX_INS_COUNT,   \* slots in the INS table
          MaxRequests,     \* bound: accepts that exist at the same time
          Closable         \* bound: the sockets that mitigation may close

ASSUME ListenersAssumption ==
    /\ MAX_INS_COUNT \in Nat \ {0}
    /\ MaxRequests \in Nat \ {0}
    /\ Closable \subseteq 0..MAX_INS_COUNT

Doms   == 1..MAX_INS_COUNT
User   == 0                     \* the user's socket, and the user's thread
Socks  == {User} \cup Doms      \* the user's socket and its siblings
Procs  == {User} \cup Doms      \* the user's thread, and work items by INS
Nobody == -1
Ids    == 1..MaxRequests
Unset  == 0

VARIABLES
    ins,             \* state of each INS and of its slot
    \* mwsocket_instance_t, of the user's socket and its siblings
    home,            \* the INS of the user's socket (from its remote_fd)
    siblings,        \* sibling_listener_list
    accepting,       \* sockets with MWSOCKET_FLAG_ACCEPT
    closing,         \* sockets with remote_close_requested
    stale,           \* sockets that hold an accept which could not be sent,
                     \* in the place of the reference that was dropped with it
    blockid, read_expected,
    inbound,         \* inbound_list, counted by inbound_sem
    sock_rep_lock,
    \* mwsocket_active_request_t
    active, sockinst, sent_to,
    undelivered,     \* answered, but with deliver_response cleared
    failed,          \* requests the reaper completed with an error
    \* the rings
    pending,         \* accepts an INS works on
    answered,        \* responses to be consumed
    handling,        \* the request of the response the consumer is at
    \* the threads
    pc,              \* of the thread in accept()
    rpc, slot, rc,   \* of the replicators
    \* history
    result,          \* of the latest accept()
    owed,            \* connections of live INSs that the user has not got
    silent,          \* a work item sent an accept on the user's own socket
    oops             \* freed memory or a null pointer was used

sockVars == <<home, siblings, accepting, closing, stale>>
userVars == <<blockid, read_expected, pc, result>>
reqVars  == <<active, sockinst, sent_to, undelivered, failed>>
ringVars == <<pending, answered, handling>>
replVars == <<sock_rep_lock, rpc, slot, rc>>
history  == <<owed, silent, oops>>
vars == <<ins, sockVars, userVars, inbound, reqVars, ringVars, replVars,
          history>>

\* The socket has been created, bound and put to listen on the first INS.
Init ==
    /\ ins = [d \in Doms |-> IF d = 1 THEN "up" ELSE "off"]
    /\ home = 1 /\ siblings = {} /\ accepting = {}
    /\ closing = {} /\ stale = {}
    /\ blockid = Unset /\ read_expected = FALSE /\ inbound = <<>>
    /\ active = {}
    /\ sockinst = [i \in Ids |-> User] /\ sent_to = [i \in Ids |-> Unset]
    /\ undelivered = {} /\ failed = {}
    /\ pending = {} /\ answered = {} /\ handling = Unset
    /\ pc = "idle" /\ result = "none" /\ sock_rep_lock = Nobody
    /\ rpc = [p \in Procs |-> "off"] /\ slot = [p \in Procs |-> 1]
    /\ rc = [p \in Procs |-> 0]
    /\ owed = {} /\ silent = FALSE /\ oops = FALSE

\* mwsocket_destroy_active_request; what a destroyed request held is forgotten.
Destroy(ids) ==
    /\ active' = active \ ids
    /\ sockinst' = [id \in Ids |-> IF id \in ids THEN User ELSE sockinst[id]]
    /\ sent_to' = [id \in Ids |-> IF id \in ids THEN Unset ELSE sent_to[id]]

is_ring_ready(d) == ins[d] \in {"up", "crashed"}

\* The ids in use.  The driver counts ids up; any id that nothing knows stands
\* for the next one.
Known  == active \cup ToSet(inbound) \cup ({blockid, handling} \ {Unset})
NextId == Min(Ids \ Known)

\* Accepts that the replicators at work, and one more, may still send.
MaySend ==
    MAX_INS_COUNT + MapThenSumSet(LAMBDA p : MAX_INS_COUNT + 1 - slot[p],
                                  {p \in Procs : rpc[p] # "off"})
Bounded == Cardinality(Known) + MaySend <= MaxRequests

\* Which leaves an id for each of them.
IdLeft == Ids \ Known # {}
-----------------------------------------------------------------------------
(* The INSs                                                                *)

\* A new INS takes the next slot; when it is ready, a work item starts to
\* replicate the listeners onto all INSs.
mw_xen_ins_found(d) ==
    /\ ins[d] = "off" /\ \A e \in 1..(d - 1) : ins[e] # "off"
    /\ Bounded
    /\ ins' = [ins EXCEPT ![d] = "up"]
    /\ rpc' = [rpc EXCEPT ![d] = "next"]
    /\ UNCHANGED <<sockVars, userVars, inbound, reqVars, ringVars,
                   sock_rep_lock, slot, rc, history>>

\* A socket that mitigation has closed gives an error, or a last connection.
InsAccepts(id) ==
    /\ id \in pending /\ ins[sent_to[id]] = "up"
    /\ pending' = pending \ {id}
    /\ answered' = answered \cup {id}
    /\ owed' = owed \cup {i \in {id} : sockinst[i] \notin closing}
    /\ UNCHANGED <<ins, sockVars, userVars, inbound, reqVars, handling,
                   replVars, silent, oops>>

InsCrashes(d) ==
    /\ ins[d] = "up"
    /\ ins' = [ins EXCEPT ![d] = "crashed"]
    /\ UNCHANGED <<sockVars, userVars, inbound, reqVars, ringVars, replVars,
                   history>>

\* The INS is considered dead, because it is or because its heartbeats are
\* late: nothing is taken from its ring any more.
mw_xen_release_ins(d) ==
    /\ is_ring_ready(d)
    /\ ins' = [ins EXCEPT ![d] = "released"]
    /\ pending' = {id \in pending : sent_to[id] # d}
    /\ answered' = {id \in answered : sent_to[id] # d}
    /\ owed' = {id \in owed : sent_to[id] # d}
    /\ UNCHANGED <<sockVars, userVars, inbound, reqVars, handling, replVars,
                   silent, oops>>
-----------------------------------------------------------------------------
(* Replication: the user's thread in write(), and the work items           *)

\* Variant with a fault: the last slot is not visited.
PastLastButOne(p) == slot[p] >= MAX_INS_COUNT

PastLastSlot(p) == slot[p] > MAX_INS_COUNT

\* mw_xen_for_each_live_ins: slots whose ring is not ready are skipped.
LookAtSlot(p) ==
    /\ rpc[p] = "next" /\ ~PastLastSlot(p)
    /\ IF is_ring_ready(slot[p])
         THEN rpc' = [rpc EXCEPT ![p] = "lock"] /\ UNCHANGED slot
         ELSE slot' = [slot EXCEPT ![p] = @ + 1] /\ UNCHANGED rpc
    /\ UNCHANGED <<ins, sockVars, userVars, inbound, reqVars, ringVars,
                   sock_rep_lock, rc, history>>

\* Variant with a fault: the errors of the slots are added up.
NextSlotSums(p, error) ==
    /\ sock_rep_lock' = Nobody
    /\ rpc' = [rpc EXCEPT ![p] = "next"]
    /\ slot' = [slot EXCEPT ![p] = @ + 1]
    /\ rc' = [rc EXCEPT ![p] = IF error THEN @ + 1 ELSE @]

\* The lock is released and the loop goes on, with an error or without.
NextSlot(p, error) ==
    /\ sock_rep_lock' = Nobody
    /\ rpc' = [rpc EXCEPT ![p] = "next"]
    /\ slot' = [slot EXCEPT ![p] = @ + 1]
    /\ rc' = [rc EXCEPT ![p] = IF error THEN 1 ELSE @]

\* Variant with a fault: the user's request is not passed on.
NoCallerWaits(p, sock) == p # p /\ sock = User

\* The accept of the user's own socket is the one read() looks for, if it is
\* the user's thread that sends it.
CallerWaits(p, sock) == p = User /\ sock = User

\* Variant with a fault: only the user's own socket is asked if it accepts.
NeedsAcceptAgain(sock) == sock # User \/ User \notin accepting

NeedsAccept(sock) == sock \notin accepting

\* An accept could not be sent, and the socket loses a reference, although it
\* existed before.  The first time the request that could not be sent has one
\* instead.  Once ins_alive is cleared there is no such request: the socket is
\* freed under the user's file, or under the request that was left.
FailsToSend(sock, d) ==
    /\ stale' = stale \cup {sock}
    /\ oops' = (sock \in stale \/ (sock = User /\ ins[d] = "reaped"))

\* A socket that is not accepting sends an accept; nobody waits for it here.
SendAccept(p, sock, d) ==
    LET needed == NeedsAccept(sock)
        sends  == needed /\ is_ring_ready(d)
    IN /\ NextSlot(p, needed /\ ~sends)
       /\ IF needed /\ ~sends THEN FailsToSend(sock, d)
                              ELSE UNCHANGED <<stale, oops>>
       /\ IF sends
            THEN /\ IdLeft
                 /\ accepting' = accepting \cup {sock}
                 /\ active' = active \cup {NextId}
                 /\ pending' = pending \cup {NextId}
                 /\ sockinst' = [sockinst EXCEPT ![NextId] = sock]
                 /\ sent_to' = [sent_to EXCEPT ![NextId] = d]
                 /\ IF CallerWaits(p, sock)
                      THEN blockid' = NextId /\ read_expected' = TRUE
                      ELSE UNCHANGED <<blockid, read_expected>>
                 /\ silent' = (silent \/ (sock = User /\ p # User))
            ELSE UNCHANGED <<accepting, active, pending, sockinst, sent_to,
                             blockid, read_expected, silent>>

\* Variant with a fault: the lock is not taken.
LockIgnored(p) == p \in Procs

LockFree(p) == sock_rep_lock = Nobody

\* mwsocket_ins_sock_replicator looks for the socket on the INS of its slot:
\* the user's own one, a sibling, or one that has to be created first.
Replicate(p) ==
    LET d == slot[p]
    IN /\ rpc[p] = "lock" /\ LockFree(p)
       /\ IF d = home \/ d \in siblings
            THEN /\ SendAccept(p, IF d = home THEN User ELSE d, d)
            ELSE /\ sock_rep_lock' = p
                 /\ rpc' = [rpc EXCEPT ![p] = "create"]
                 /\ UNCHANGED <<slot, rc, accepting, active, pending, sockinst,
                                sent_to, blockid, read_expected, silent, stale,
                                oops>>
       /\ UNCHANGED <<ins, home, siblings, closing, pc, result, inbound,
                      undelivered, failed, answered, handling, owed>>

CreateReplica(p) ==
    /\ rpc[p] = "create" /\ ins[slot[p]] = "up"
    /\ siblings' = siblings \cup {slot[p]}
    /\ rpc' = [rpc EXCEPT ![p] = "setup"]
    /\ UNCHANGED <<ins, home, accepting, closing, stale, userVars, inbound,
                   reqVars, ringVars, sock_rep_lock, slot, rc, history>>

\* bind, listen and the socket option have succeeded: accept.
SetUpReplica(p) ==
    /\ rpc[p] = "setup" /\ ins[slot[p]] = "up"
    /\ SendAccept(p, slot[p], slot[p])
    /\ UNCHANGED <<ins, home, siblings, closing, pc, result, inbound,
                   undelivered, failed, answered, handling, owed>>

\* A request was not sent because the INS is released, or not answered: a
\* create times out, the others are completed with an error by the reaper,
\* and the replica is freed, unless it was the accept that could not be sent.
ReplicaFails(p) ==
    /\ \/ rpc[p] = "create" /\ ins[slot[p]] # "up"
       \/ rpc[p] = "setup" /\ ~is_ring_ready(slot[p])
    /\ NextSlot(p, TRUE)
    /\ \/ siblings' = siblings \ {slot[p]} /\ UNCHANGED stale
       \/ /\ rpc[p] = "setup" /\ ins[slot[p]] = "released"
          /\ stale' = stale \cup {slot[p]} /\ UNCHANGED siblings
    /\ closing' = closing \cap ({User} \cup siblings')
    /\ UNCHANGED <<ins, home, accepting, userVars, inbound, reqVars, ringVars,
                   history>>

EndWorkItem(p) ==
    /\ p # User /\ rpc[p] = "next" /\ PastLastSlot(p)
    /\ rpc' = [rpc EXCEPT ![p] = "off"]
    /\ rc' = [rc EXCEPT ![p] = 0]
    /\ UNCHANGED <<ins, sockVars, userVars, inbound, reqVars, ringVars,
                   sock_rep_lock, slot, history>>
-----------------------------------------------------------------------------
(* accept(): a write() that replicates, then a read()                      *)

BeginWrite ==
    /\ pc = "idle" /\ Bounded
    /\ pc' = "write" /\ result' = "none"
    /\ rpc' = [rpc EXCEPT ![User] = "next"]
    /\ slot' = [slot EXCEPT ![User] = 1]
    /\ UNCHANGED <<ins, sockVars, blockid, read_expected, inbound, reqVars,
                   ringVars, sock_rep_lock, rc, history>>

EndWrite ==
    /\ pc = "write" /\ rpc[User] = "next" /\ PastLastSlot(User)
    /\ rpc' = [rpc EXCEPT ![User] = "off"]
    /\ read_expected' = (rc[User] = 0)
    /\ IF rc[User] = 0 THEN pc' = "mustread" /\ UNCHANGED result
                       ELSE pc' = "idle" /\ result' = "error"
    /\ rc' = [rc EXCEPT ![User] = 0]
    /\ UNCHANGED <<ins, sockVars, blockid, inbound, reqVars, ringVars,
                   sock_rep_lock, slot, history>>

\* The read needs the request that blockid names, if only to wait for another;
\* one that is not to be delivered it destroys.
BeginRead ==
    LET found == read_expected /\ blockid \in active
        gone  == {id \in undelivered : found /\ id = blockid}
    IN /\ pc = "mustread"
       /\ read_expected' = FALSE
       /\ Destroy(gone) /\ undelivered' = undelivered \ gone
       /\ owed' = owed \ gone
       /\ IF found /\ gone = {} THEN pc' = "await" /\ UNCHANGED result
                                ELSE pc' = "idle" /\ result' = "error"
       /\ failed' = failed \ gone
       /\ UNCHANGED <<ins, sockVars, blockid, inbound, ringVars, replVars,
                      silent, oops>>

\* The list is linked through the requests: what is done at one end touches the
\* entries next to it.
FreedFirst == \E n \in DOMAIN inbound : n <= 2 /\ inbound[n] \notin active
FreedLast(alive) ==
    \E n \in DOMAIN inbound : n = Len(inbound) /\ inbound[n] \notin alive

\* mwsocket_await_inbound_connection, and the end of the read, which destroys
\* the request of the connection it returns.  It is an error if mitigation has
\* closed the socket of the connection by then.
TakeInbound ==
    /\ pc = "await" /\ inbound # <<>>
    /\ LET id == Head(inbound)
       IN /\ oops' = FreedFirst
          /\ Destroy({id}) /\ undelivered' = undelivered \ {id}
          /\ \/ result' = "ok" /\ id \notin failed
             \/ result' = "error" /\ id \in failed
             \/ result' = "error" /\ id \in active /\ sockinst[id] \in closing
          /\ failed' = failed \ {id}
          /\ owed' = owed \ {id}
    /\ inbound' = Tail(inbound)
    /\ pc' = "idle"
    /\ UNCHANGED <<ins, sockVars, blockid, read_expected, ringVars, replVars,
                   silent>>

-----------------------------------------------------------------------------
(* The consumer of responses                                               *)

\* The response to an accept: the connection is queued on the user's socket,
\* whichever socket made it.  It is not to be delivered if that one is closed.
mwsocket_postproc_no_context(id) ==
    /\ handling = Unset /\ id \in answered
    /\ answered' = answered \ {id}
    /\ IF id \in active
         THEN /\ accepting' = accepting \ {sockinst[id]}
              /\ undelivered' = undelivered
                                  \cup {i \in {id} : sockinst[i] \in closing}
              /\ inbound' = Append(inbound, id)
              /\ oops' = FreedLast(active)
              /\ handling' = id
         ELSE UNCHANGED <<accepting, undelivered, inbound, oops, handling>>
    /\ UNCHANGED <<ins, home, siblings, closing, stale, userVars, active,
                   sockinst, sent_to, failed, pending, replVars, owed, silent>>

\* Variant with a fault: a request that is to be delivered is destroyed.
DestroyResponse ==
    /\ handling # Unset
    /\ oops' = (handling \notin active)
    /\ Destroy({handling}) /\ undelivered' = undelivered \ {handling}
    /\ owed' = owed \ {handling}
    /\ handling' = IF handling \in active THEN Unset ELSE handling
    /\ UNCHANGED <<ins, sockVars, userVars, inbound, failed, pending, answered,
                   replVars, silent>>

\* Then the consumer comes back to the request, which the user's thread may
\* have returned meanwhile, and destroys it if it is not to be delivered.
\* (The test of a dying process is not for accepts: from_user is not set.)
FinishResponse ==
    LET gone == {id \in undelivered : id = handling}
    IN /\ handling # Unset
       /\ oops' = (handling \notin active)
       /\ Destroy(gone) /\ undelivered' = undelivered \ gone
       /\ owed' = owed \ gone
       /\ handling' = IF handling \in active THEN Unset ELSE handling
       /\ UNCHANGED <<ins, sockVars, userVars, inbound, failed, pending,
                      answered, replVars, silent>>
-----------------------------------------------------------------------------
(* Mitigation: a close that the netflow client asked for                   *)

mwsocket_close_remote(sock) ==
    /\ sock \in {User} \cup siblings /\ sock \notin closing
    /\ sock \in Closable
    /\ closing' = closing \cup {sock}
    /\ UNCHANGED <<ins, home, siblings, accepting, stale, userVars, inbound,
                   reqVars, ringVars, replVars, history>>
-----------------------------------------------------------------------------
(* The monitor thread, after it has released INSs                          *)

DeadIns == {d \in Doms : ins[d] = "released"}
Requests(socks) == {id \in active : sockinst[id] \in socks}

\* Requests of the dead INSs that are destroyed: accepts of replicas, as long as
\* no response has taken the place of the request, and what is not delivered.
Reaped ==
    {id \in Requests(DeadIns) : id \notin ToSet(inbound)}
      \cup (undelivered \cap Requests(DeadIns \cup {u \in {User} : home \in DeadIns}))

\* Variant with a fault: the requests of the replica go with the user's own.
DropReplicasRequests(s) ==
    LET gone == Requests({User, s}) \cup Reaped
    IN Destroy(gone) /\ undelivered' = undelivered \ gone

\* The user's socket loses its requests and gets those of the replica.
TakeOverRequests(s) ==
    LET gone == Requests({User}) \cup Reaped
    IN /\ active' = active \ gone
       /\ sockinst' = [id \in Ids |-> IF id \in gone \cup Requests({s})
                                        THEN User ELSE sockinst[id]]
       /\ sent_to' = [id \in Ids |-> IF id \in gone THEN Unset
                                                     ELSE sent_to[id]]
       /\ undelivered' = undelivered \ gone

\* Variant with a fault: the user's socket keeps its remote_fd.
KeepHome(s) ==
    /\ TakeOverRequests(s)
    /\ accepting' = (accepting \ (DeadIns \cup {s}))
    /\ siblings' = siblings \ ((DeadIns \cap accepting) \cup {s})
    /\ closing' = closing \cap ({User} \cup siblings')
    /\ read_expected' = FALSE
    /\ oops' = \E p \in Procs : rpc[p] = "setup" /\ slot[p] = s
    /\ UNCHANGED <<home, inbound, failed>>

\* The replica s becomes the user's socket: its state is copied, except for
\* blockid, and it is freed, whoever may be setting it up.
Promote(s) ==
    /\ TakeOverRequests(s)
    /\ home' = s
    /\ accepting' = (accepting \ (DeadIns \cup {User, s}))
                      \cup {t \in {User} : s \in accepting}
    /\ siblings' = siblings \ ((DeadIns \cap accepting) \cup {s})
    /\ closing' = (closing \cap siblings') \cup {t \in {User} : s \in closing}
    /\ read_expected' = FALSE
    /\ oops' = \E p \in Procs : rpc[p] = "setup" /\ slot[p] = s
    /\ UNCHANGED <<inbound, failed>>

\* Variant with a fault: the request is completed, but not queued.
FailUnqueued ==
    /\ Destroy(Reaped) /\ undelivered' = undelivered \ Reaped
    /\ accepting' = accepting \ (DeadIns \cup {User})
    /\ siblings' = siblings \ (DeadIns \cap accepting)
    /\ closing' = closing \cap ({User} \cup siblings')
    /\ failed' = failed \cup {blockid}
    /\ oops' = (blockid \notin active)
    /\ UNCHANGED <<home, read_expected, inbound>>

\* Nothing can replace the user's socket: the request that blockid names is
\* completed with an error, as if the INS had sent it.
FailAccept ==
    /\ Destroy(Reaped)
    /\ undelivered' = (undelivered \ Reaped)
                        \cup {id \in {blockid} : User \in closing}
    /\ accepting' = accepting \ (DeadIns \cup {User})
    /\ siblings' = siblings \ (DeadIns \cap accepting)
    /\ closing' = closing \cap ({User} \cup siblings')
    /\ inbound' = Append(inbound, blockid)
    /\ failed' = failed \cup {blockid}
    /\ oops' = \/ blockid \notin active \ Reaped
               \/ blockid \in ToSet(inbound)
               \/ FreedLast(active \ Reaped)
    /\ UNCHANGED <<home, read_expected>>

\* The user's socket is not concerned: only replicas and their requests go.
DropReplicas ==
    /\ Destroy(Reaped) /\ undelivered' = undelivered \ Reaped
    /\ accepting' = accepting \ DeadIns
    /\ siblings' = siblings \ (DeadIns \cap accepting)
    /\ closing' = closing \cap ({User} \cup siblings')
    /\ UNCHANGED <<home, read_expected, inbound, failed, oops>>

\* Replicas on INSs that are not known to be dead.
Replacements == {s \in siblings : is_ring_ready(s)}

\* An accept that was left unsent is destroyed too, and with it the replica, if
\* it has no others.
mwsocket_reap_dead_sock_instances ==
    /\ DeadIns # {}
    /\ ins' = [d \in Doms |-> IF d \in DeadIns THEN "reaped" ELSE ins[d]]
    /\ stale' = stale \ {s \in DeadIns : Requests({s}) \subseteq Reaped}
    /\ IF home \in DeadIns /\ User \in accepting
         THEN \/ \E s \in Replacements : Promote(s)
              \/ Replacements = {} /\ FailAccept
         ELSE DropReplicas
    /\ UNCHANGED <<blockid, pc, result, ringVars, replVars, owed, silent>>
-----------------------------------------------------------------------------
Replicator(p) ==
    \/ LookAtSlot(p)
    \/ Replicate(p)
    \/ CreateReplica(p)
    \/ SetUpReplica(p)
    \/ ReplicaFails(p)
    \/ EndWorkItem(p)

Accept == EndWrite \/ BeginRead \/ TakeInbound

Consumer ==
    \/ \E id \in Ids : mwsocket_postproc_no_context(id)
    \/ FinishResponse

Ins(d) == \E id \in Ids : sent_to[id] = d /\ InsAccepts(id)

\* A kernel that followed a bad pointer does nothing that can be relied on.
Running == ~oops

Next ==
    \/ Running /\ BeginWrite
    \/ Running /\ Accept
    \/ \E p \in Procs : Running /\ Replicator(p)
    \/ Running /\ Consumer
    \/ \E d \in Doms : Running /\ Ins(d)
    \/ \E d \in Doms : Running /\ mw_xen_ins_found(d)
    \/ \E d \in Doms : Running /\ InsCrashes(d)
    \/ \E d \in Doms : Running /\ mw_xen_release_ins(d)
    \/ Running /\ mwsocket_reap_dead_sock_instances
    \/ \E sock \in Socks : Running /\ mwsocket_close_remote(sock)

Spec == Init /\ [][Next]_vars

\* Threads that have begun go on, clients connect to every INS that accepts,
\* an INS that sends no heartbeats is released and its sockets are reaped.
Fairness ==
    /\ WF_vars(Running /\ Accept)
    /\ WF_vars(Running /\ Consumer)
    /\ WF_vars(Running /\ mwsocket_reap_dead_sock_instances)
    /\ \A p \in Procs : WF_vars(Running /\ Replicator(p))
    /\ \A d \in Doms :
         /\ WF_vars(Running /\ Ins(d))
         /\ WF_vars(Running /\ ins[d] = "crashed" /\ mw_xen_release_ins(d))

FairSpec == Spec /\ Fairness
-----------------------------------------------------------------------------
\* What each variable may hold.
TypeOK ==
    /\ ins \in [Doms -> {"off", "up", "crashed", "released", "reaped"}]
    /\ home \in Doms /\ siblings \subseteq Doms /\ accepting \subseteq Socks
    /\ closing \subseteq Socks /\ stale \subseteq Socks
    /\ blockid \in Ids \cup {Unset} /\ read_expected \in BOOLEAN
    /\ inbound \in Seq(Ids \cup {Unset})
    /\ sock_rep_lock \in Procs \cup {Nobody}
    /\ active \subseteq Ids
    /\ sockinst \in [Ids -> Socks] /\ sent_to \in [Ids -> Doms \cup {Unset}]
    /\ failed \subseteq Ids \cup {Unset}
    /\ undelivered \subseteq Ids \cup {Unset} /\ handling \in Ids \cup {Unset}
    /\ pending \subseteq Ids /\ answered \subseteq Ids
    /\ pc \in {"idle", "write", "mustread", "await"}
    /\ rpc \in [Procs -> {"off", "next", "lock", "create", "setup"}]
    /\ slot \in [Procs -> 1..(MAX_INS_COUNT + 1)]
    /\ rc \in [Procs -> 0..1]
    /\ result \in {"none", "ok", "error"}
    /\ owed \subseteq Ids /\ {silent, oops} \subseteq BOOLEAN

\* An INS has the socket at most once, although the user's thread and any
\* number of work items replicate it onto all INSs at the same time, each
\* waiting for the INS in the middle, and the monitor thread swaps replicas
\* under them.
OneListenerPerIns ==
    ~oops =>
        /\ home \notin siblings
        /\ \A p \in Procs : rpc[p] = "create" =>
             /\ slot[p] \notin siblings \cup {home}
             /\ \A q \in Procs \ {p} : rpc[q] = "create" => slot[q] # slot[p]

\* An INS gets no second accept of the socket before it has answered the
\* first, although the flag that says so is copied from socket to socket when
\* a replica takes the place of the user's own.
OneAcceptPerIns ==
    ~oops => \A i, j \in pending : sent_to[i] = sent_to[j] => i = j

\* While the user waits in accept(), no INS that has joined is left without an
\* accept for long: once the replicators are done, every INS that runs has an
\* accept of this socket, answered or not.
NoDeafIns ==
    pc = "await" /\ inbound = <<>> /\ ~oops
        /\ (\A p \in Procs : rpc[p] = "off") =>
      \A d \in Doms : ins[d] = "up" =>
        \E id \in pending \cup answered : sent_to[id] = d

\* A connection that an INS has made reaches the user, or will, as long as
\* that INS is not given up and mitigation does not close the socket that made
\* it: it is never dropped when another INS dies or another socket is closed.
ConnectionsKept ==
    ~oops => owed \subseteq active \cap (answered \cup ToSet(inbound))

\* A thread that is blocked in accept() is not left on a dead INS: when the
\* INS of its socket is reaped, a replica has taken its place or there is
\* something for it to return.
BlockedOnLiveIns ==
    pc = "await" /\ inbound = <<>> /\ ~oops => ins[home] # "reaped"

\* accept() fails only after an INS has died, or after a work item, started
\* for a new INS, has sent an accept on the user's own socket: that one does
\* not become the blockid that read() looks for.  Or mitigation has closed it.
FailuresHaveCause ==
    result = "error" =>
        \/ silent
        \/ \E d \in Doms : ins[d] \notin {"off", "up"}
        \/ closing # {}

\* The consumer comes back to a request that the user's thread has destroyed.
Overtaken == handling \notin active \cup {Unset}

\* As long as no INS is given up and mitigation closes nothing, only one thing
\* can go wrong with freed memory: the user's thread takes a connection from the
\* queue, and destroys its request, before the consumer that put it there has
\* done with it.  Every entry of the queue is a request that still exists when
\* accept() takes it, although replicas on all INSs, the consumer and the user's
\* thread share the queue.
SafeUntilDisturbed ==
    oops => \/ \E d \in Doms : ins[d] \in {"released", "reaped"}
            \/ closing # {}
            \/ Overtaken

\* A blocked accept() returns, whatever INSs join or die, provided clients keep
\* connecting.
AcceptReturns == pc = "await" ~> (pc # "await" \/ oops)
=============================================================================
