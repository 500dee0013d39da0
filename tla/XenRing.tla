------------------------------ MODULE XenRing ------------------------------
(***************************************************************************)
(* The shared ring between the PVM driver (front end, mwcomms-xen-iface.c) *)
(* and the INS device driver (back end, libxenevent/xenevent_comms.c), the *)
(* event channel in both directions and the threads that block on it.      *)
(*                                                                         *)
(* Requests and responses share the slots of one ring: a response takes    *)
(* the slot of some request the INS has already consumed.  Ring indices    *)
(* are free-running unsigned integers; a slot is an index modulo the ring  *)
(* size.                                                                   *)
(***************************************************************************)
EXTENDS Integers, Sequences, FiniteSets

CONSTANTS Senders,      \* PVM threads that send requests
          RING_SIZE,    \* slots of the ring
          LAPS,         \* index range in ring sizes (2^32 \div RING_SIZE)
          MaxRequests,  \* bound: requests sent in one behaviour
          NoOne         \* holder of a free lock

ASSUME RingAssumption ==
    /\ NoOne \notin Senders
    /\ RING_SIZE \in Nat \ {0}
    /\ LAPS \in Nat \ {0, 1}
    /\ MaxRequests \in Nat

IDX_MOD == RING_SIZE * LAPS
Indices == 0..(IDX_MOD - 1)
Ids     == 1..MaxRequests

VARIABLES
    ring,            \* shared slots: what each holds
    req_prod,        \* shared: requests published by the PVM
    rsp_prod,        \* shared: responses published by the INS
    req_prod_pvt,    \* front end: next request slot to fill
    rsp_cons,        \* front end: next response to consume
    req_cons,        \* back end: next request to consume
    rsp_prod_pvt,    \* back end: next response slot to fill
    in_use,          \* the PVM considers this INS alive
    request_lock,    \* senders inside get_next_request_slot..release_request
    sender,          \* step of each sending thread
    WaitForRing,     \* is the sender willing to wait for a slot?
    request,         \* the request each sender is sending
    last_id,         \* last identifier given to a request
    pending,         \* requests the INS has read and not answered
    writing,         \* the response being written under write_lock
    writer,          \* step of the thread that holds write_lock
    reader,          \* step of the INS dispatcher in xe_comms_read_item
    consumer,        \* step of the PVM response consumer
    event_ins,       \* event channel: pending towards the INS
    event_pvm,       \* event channel: pending towards the PVM
    messages_available,  \* semaphore of the INS reader
    event_channel_sem,   \* semaphore of the PVM consumer
    delivered        \* requests whose responses the PVM has consumed

frontVars  == <<req_prod_pvt, rsp_cons>>
backVars   == <<req_cons, rsp_prod_pvt>>
senderVars == <<request_lock, sender, WaitForRing, request, last_id>>
insVars    == <<pending, writing, writer, reader, messages_available>>
pvmVars    == <<consumer, event_channel_sem, delivered>>
vars == <<ring, req_prod, rsp_prod, frontVars, backVars, in_use, senderVars,
          insVars, pvmVars, event_ins, event_pvm>>

Empty == [kind |-> "none", id |-> 0]

\* Variant with a fault: an index that does not wrap.
NextUnwrapped(i) == i + 1

\* Unsigned index arithmetic and the ring macros of xen/interface/io/ring.h.
Next1(i)    == (i + 1) % IDX_MOD
Dist(a, b)  == (a + IDX_MOD - b) % IDX_MOD
Slot(i)     == i % RING_SIZE

\* Variants with a fault: one slot too many; no limit.
RingFullLate  == RING_SIZE + 1 - Dist(req_prod_pvt, rsp_cons) = 0
RingNeverFull == RING_SIZE + Dist(req_prod_pvt, rsp_cons) = 0

RING_FULL == RING_SIZE - Dist(req_prod_pvt, rsp_cons) = 0

RING_HAS_UNCONSUMED_REQUESTS ==
    /\ Dist(req_prod, req_cons) > 0
    /\ RING_SIZE - Dist(req_cons, rsp_prod_pvt) > 0

RING_HAS_UNCONSUMED_RESPONSES == Dist(rsp_prod, rsp_cons) > 0

Init ==
    /\ ring = [s \in 0..(RING_SIZE - 1) |-> Empty]
    /\ req_prod = 0 /\ rsp_prod = 0
    /\ req_prod_pvt = 0 /\ rsp_cons = 0
    /\ req_cons = 0 /\ rsp_prod_pvt = 0
    /\ in_use = TRUE
    /\ request_lock = NoOne
    /\ sender = [t \in Senders |-> "idle"]
    /\ WaitForRing = [t \in Senders |-> FALSE]
    /\ request = [t \in Senders |-> 0]
    /\ last_id = 0
    /\ pending = {} /\ writing = 0 /\ writer = "idle"
    /\ reader = "check" /\ consumer = "check"
    /\ event_ins = FALSE /\ event_pvm = FALSE
    /\ messages_available = 0 /\ event_channel_sem = 0
    /\ delivered = {}
-----------------------------------------------------------------------------
(* PVM: a thread sends a request.                                          *)

\* The INS must be in use and its ring ready; then the lock is taken,
\* whatever fails afterwards.
LockRequests(t) ==
    /\ sender[t] = "idle" /\ last_id < MaxRequests
    /\ in_use /\ request_lock = NoOne
    /\ request_lock' = t
    /\ last_id' = last_id + 1
    /\ request' = [request EXCEPT ![t] = last_id + 1]
    /\ \E w \in BOOLEAN : WaitForRing' = [WaitForRing EXCEPT ![t] = w]
    /\ sender' = [sender EXCEPT ![t] = "slot"]
    /\ UNCHANGED <<ring, req_prod, rsp_prod, frontVars, backVars, in_use,
                   insVars, pvmVars, event_ins, event_pvm>>

\* Variant with a fault: a sender that waits does not notice a dead INS.
WaitForDeadRing(t) ==
    /\ sender[t] = "slot"
    /\ \/ ~RING_FULL /\ sender' = [sender EXCEPT ![t] = "fill"]
       \/ RING_FULL /\ ~WaitForRing[t] /\ sender' = [sender EXCEPT ![t] = "drop"]
    /\ UNCHANGED <<ring, req_prod, rsp_prod, frontVars, backVars, in_use,
                   request_lock, WaitForRing, request, last_id,
                   insVars, pvmVars, event_ins, event_pvm>>

\* The loop in mw_xen_get_next_request_slot; a sender that waits polls until
\* a slot frees up or the INS is found dead.
mw_xen_get_next_request_slot(t) ==
    /\ sender[t] = "slot"
    /\ \/ ~in_use /\ sender' = [sender EXCEPT ![t] = "drop"]
       \/ in_use /\ ~RING_FULL /\ sender' = [sender EXCEPT ![t] = "fill"]
       \/ /\ in_use /\ RING_FULL /\ ~WaitForRing[t]
          /\ sender' = [sender EXCEPT ![t] = "drop"]
    /\ UNCHANGED <<ring, req_prod, rsp_prod, frontVars, backVars, in_use,
                   request_lock, WaitForRing, request, last_id,
                   insVars, pvmVars, event_ins, event_pvm>>

FillSlot(t) ==
    /\ sender[t] = "fill"
    /\ ring' = [ring EXCEPT ![Slot(req_prod_pvt)] =
                    [kind |-> "request", id |-> request[t]]]
    /\ sender' = [sender EXCEPT ![t] = "push"]
    /\ UNCHANGED <<req_prod, rsp_prod, frontVars, backVars, in_use,
                   request_lock, WaitForRing, request, last_id,
                   insVars, pvmVars, event_ins, event_pvm>>

\* The request is published before the event is sent.  A dead INS gets
\* neither.
PushRequest(t) ==
    /\ sender[t] = "push"
    /\ IF in_use
         THEN /\ req_prod_pvt' = Next1(req_prod_pvt)
              /\ req_prod' = Next1(req_prod_pvt)
              /\ sender' = [sender EXCEPT ![t] = "event"]
         ELSE /\ sender' = [sender EXCEPT ![t] = "drop"]
              /\ UNCHANGED <<req_prod_pvt, req_prod>>
    /\ UNCHANGED <<ring, rsp_prod, rsp_cons, backVars, in_use,
                   request_lock, WaitForRing, request, last_id,
                   insVars, pvmVars, event_ins, event_pvm>>

\* The end of mw_xen_release_request: notify, and unlock in every case.  An
\* INS that is gone can no longer be notified; the request stays on its ring.
ReleaseRequest(t) ==
    /\ sender[t] \in {"event", "drop"}
    /\ \/ event_ins' = (event_ins \/ sender[t] = "event")
       \/ ~in_use /\ UNCHANGED event_ins
    /\ request_lock' = NoOne
    /\ sender' = [sender EXCEPT ![t] = "idle"]
    /\ request' = [request EXCEPT ![t] = 0]
    /\ UNCHANGED <<ring, req_prod, rsp_prod, frontVars, backVars, in_use,
                   WaitForRing, last_id, insVars, pvmVars, event_pvm>>

\* The reaper gives up on an INS that missed its heartbeats.  It takes no
\* ring lock.
mw_xen_release_ins ==
    /\ in_use
    /\ in_use' = FALSE
    /\ UNCHANGED <<ring, req_prod, rsp_prod, frontVars, backVars, senderVars,
                   insVars, pvmVars, event_ins, event_pvm>>
-----------------------------------------------------------------------------
(* INS: the dispatcher reads requests, worker threads write responses.     *)

\* The event callback runs in interrupt context; several events raised before
\* it runs are one.
xe_comms_event_callback ==
    /\ event_ins
    /\ event_ins' = FALSE
    /\ messages_available' = messages_available + 1
    /\ UNCHANGED <<ring, req_prod, rsp_prod, frontVars, backVars, in_use,
                   senderVars, pending, writing, writer, reader, pvmVars,
                   event_pvm>>

\* Variant with a fault: the request is not marked as consumed.
ReadItemAgain ==
    /\ reader = "check"
    /\ \/ /\ RING_HAS_UNCONSUMED_REQUESTS
          /\ pending' = pending \cup {ring[Slot(req_cons)].id}
          /\ UNCHANGED reader
       \/ /\ ~RING_HAS_UNCONSUMED_REQUESTS
          /\ reader' = "down"
          /\ UNCHANGED pending
    /\ UNCHANGED <<ring, req_prod, rsp_prod, frontVars, backVars, in_use,
                   senderVars, writing, writer, messages_available, pvmVars,
                   event_ins, event_pvm>>

\* One pass of the loop that looks at the ring: take a request or block.
xe_comms_read_item ==
    /\ reader = "check"
    /\ \/ /\ RING_HAS_UNCONSUMED_REQUESTS
          /\ pending' = pending \cup {ring[Slot(req_cons)].id}
          /\ req_cons' = Next1(req_cons)
          /\ UNCHANGED reader
       \/ /\ ~RING_HAS_UNCONSUMED_REQUESTS
          /\ reader' = "down"
          /\ UNCHANGED <<pending, req_cons>>
    /\ UNCHANGED <<ring, req_prod, rsp_prod, frontVars, rsp_prod_pvt, in_use,
                   senderVars, writing, writer, messages_available, pvmVars,
                   event_ins, event_pvm>>

xenevent_semaphore_down ==
    /\ reader = "down" /\ messages_available > 0
    /\ messages_available' = messages_available - 1
    /\ reader' = "check"
    /\ UNCHANGED <<ring, req_prod, rsp_prod, frontVars, backVars, in_use,
                   senderVars, pending, writing, writer, pvmVars,
                   event_ins, event_pvm>>

\* xe_dev_write takes write_lock; the response is copied over the slot at
\* rsp_prod_pvt, unchecked, before it is published.
xe_comms_write_item(id) ==
    /\ writer = "idle" /\ id \in pending
    /\ ring' = [ring EXCEPT ![Slot(rsp_prod_pvt)] =
                    [kind |-> "response", id |-> id]]
    /\ writing' = id /\ writer' = "push"
    /\ UNCHANGED <<req_prod, rsp_prod, frontVars, backVars, in_use,
                   senderVars, pending, reader, messages_available, pvmVars,
                   event_ins, event_pvm>>

\* Variant with a fault: a request may be answered again.
PushResponseAgain ==
    /\ writer = "push"
    /\ rsp_prod_pvt' = Next1(rsp_prod_pvt)
    /\ rsp_prod' = Next1(rsp_prod_pvt)
    /\ writer' = "event"
    /\ UNCHANGED <<ring, req_prod, frontVars, req_cons, in_use, senderVars,
                   pending, writing, reader, messages_available, pvmVars,
                   event_ins, event_pvm>>

PushResponse ==
    /\ writer = "push"
    /\ rsp_prod_pvt' = Next1(rsp_prod_pvt)
    /\ rsp_prod' = Next1(rsp_prod_pvt)
    /\ pending' = pending \ {writing}
    /\ writer' = "event"
    /\ UNCHANGED <<ring, req_prod, frontVars, req_cons, in_use, senderVars,
                   writing, reader, messages_available, pvmVars, event_ins,
                   event_pvm>>

\* Variant with a fault: the PVM is not notified.
NotifyNobody ==
    /\ writer = "event"
    /\ writer' = "idle" /\ writing' = 0
    /\ UNCHANGED <<ring, req_prod, rsp_prod, frontVars, backVars, in_use,
                   senderVars, pending, reader, messages_available, pvmVars,
                   event_ins, event_pvm>>

\* send_event, then write_lock is released.
NotifyPvm ==
    /\ writer = "event"
    /\ event_pvm' = TRUE
    /\ writer' = "idle" /\ writing' = 0
    /\ UNCHANGED <<ring, req_prod, rsp_prod, frontVars, backVars, in_use,
                   senderVars, pending, reader, messages_available, pvmVars,
                   event_ins>>
-----------------------------------------------------------------------------
(* PVM: the response consumer.                                             *)

mw_xen_irq_event_handler ==
    /\ event_pvm
    /\ event_pvm' = FALSE
    /\ event_channel_sem' = event_channel_sem + 1
    /\ UNCHANGED <<ring, req_prod, rsp_prod, frontVars, backVars, in_use,
                   senderVars, insVars, consumer, delivered, event_ins>>

\* A dead INS's ring is never looked at again.
mw_xen_response_available ==
    /\ consumer = "check"
    /\ consumer' = IF in_use /\ RING_HAS_UNCONSUMED_RESPONSES
                   THEN "got" ELSE "down"
    /\ UNCHANGED <<ring, req_prod, rsp_prod, frontVars, backVars, in_use,
                   senderVars, insVars, event_channel_sem, delivered,
                   event_ins, event_pvm>>

ConsumerDown ==
    /\ consumer = "down" /\ event_channel_sem > 0
    /\ event_channel_sem' = event_channel_sem - 1
    /\ consumer' = "check"
    /\ UNCHANGED <<ring, req_prod, rsp_prod, frontVars, backVars, in_use,
                   senderVars, insVars, delivered, event_ins, event_pvm>>

\* mw_xen_get_next_response, the processing of the response, and
\* mw_xen_mark_response_consumed.  Anything but a response in the slot means
\* that the ring is corrupt: the consumer thread exits.
ConsumeResponse ==
    /\ consumer = "got"
    /\ LET response == ring[Slot(rsp_cons)] IN
         IF response.kind = "response"
           THEN /\ delivered' = delivered \cup {response.id}
                /\ rsp_cons' = Next1(rsp_cons)
                /\ consumer' = "check"
           ELSE /\ consumer' = "exit"
                /\ UNCHANGED <<delivered, rsp_cons>>
    /\ UNCHANGED <<ring, req_prod, rsp_prod, req_prod_pvt, backVars, in_use,
                   senderVars, insVars, event_channel_sem, event_ins,
                   event_pvm>>
-----------------------------------------------------------------------------
SendStep(t) ==
    \/ LockRequests(t)
    \/ mw_xen_get_next_request_slot(t)
    \/ FillSlot(t)
    \/ PushRequest(t)
    \/ ReleaseRequest(t)

ReadStep == xe_comms_read_item \/ xenevent_semaphore_down

WriteStep ==
    (\E id \in Ids : xe_comms_write_item(id)) \/ PushResponse \/ NotifyPvm

ConsumeStep == mw_xen_response_available \/ ConsumerDown \/ ConsumeResponse

Next ==
    \/ \E t \in Senders : SendStep(t)
    \/ ReadStep \/ WriteStep \/ ConsumeStep
    \/ xe_comms_event_callback \/ mw_xen_irq_event_handler
    \/ mw_xen_release_ins

Spec == Init /\ [][Next]_vars

\* Every kernel thread and the INS dispatcher keep running; a virtual
\* interrupt that is raised is taken; the INS answers what it has read.
\* Nothing forces a thread to start a send, nor an INS to be given up.
Fairness ==
    /\ \A t \in Senders : WF_vars(mw_xen_get_next_request_slot(t)
                                  \/ FillSlot(t) \/ PushRequest(t)
                                  \/ ReleaseRequest(t))
    /\ WF_vars(ReadStep) /\ WF_vars(ConsumeStep)
    /\ WF_vars(PushResponse \/ NotifyPvm)
    /\ \A id \in Ids : WF_vars(xe_comms_write_item(id))
    /\ WF_vars(xe_comms_event_callback) /\ WF_vars(mw_xen_irq_event_handler)

FairSpec == Spec /\ Fairness
-----------------------------------------------------------------------------
Messages ==
    {Empty} \cup [kind : {"request", "response"}, id : Ids]

\* What each variable may hold.
TypeOK ==
    /\ ring \in [0..(RING_SIZE - 1) -> Messages]
    /\ {req_prod, rsp_prod, req_prod_pvt, rsp_cons, req_cons, rsp_prod_pvt}
         \subseteq Indices
    /\ {in_use, event_ins, event_pvm} \subseteq BOOLEAN
    /\ request_lock \in Senders \cup {NoOne}
    /\ sender \in [Senders -> {"idle", "slot", "fill", "push", "event", "drop"}]
    /\ WaitForRing \in [Senders -> BOOLEAN]
    /\ request \in [Senders -> 0..MaxRequests]
    /\ last_id \in 0..MaxRequests
    /\ pending \subseteq Ids /\ delivered \subseteq Ids
    /\ writing \in 0..MaxRequests
    /\ writer \in {"idle", "push", "event"}
    /\ reader \in {"check", "down"}
    /\ consumer \in {"check", "down", "got", "exit"}
    /\ messages_available \in Nat /\ event_channel_sem \in Nat

\* The five private and shared indices keep their order around the ring, and
\* never span more than one ring, through every wrap of the unsigned indices:
\* responses consumed, responses published, requests read, requests published.
\* This is what "an overflow here is impossible" in xe_comms_write_item means.
RingOrder ==
    /\ rsp_prod = rsp_prod_pvt /\ req_prod = req_prod_pvt
    /\ Dist(rsp_prod_pvt, rsp_cons) <= Dist(req_cons, rsp_cons)
    /\ Dist(req_cons, rsp_cons) <= Dist(req_prod_pvt, rsp_cons)
    /\ Dist(req_prod_pvt, rsp_cons) <= RING_SIZE

\* What has been published and not yet read is still in its slot: a response
\* never lands on an unread request and a request never on an unread response,
\* although both directions share the slots and neither side locks the other
\* out.  In particular the consumer never meets a corrupt ring.
UnreadIntact ==
    /\ \A k \in 0..(RING_SIZE - 1) :
          /\ k < Dist(req_prod, req_cons) =>
                ring[Slot(req_cons + k)].kind = "request"
          /\ k < Dist(rsp_prod, rsp_cons) =>
                ring[Slot(rsp_cons + k)].kind = "response"
    /\ consumer # "exit"

\* The assertion in xe_comms_write_item: when a worker is about to write a
\* response, the slot it takes holds a request, and one that has been read.
OverwritesReadRequest ==
    writer = "idle" /\ pending # {} =>
        /\ Dist(req_cons, rsp_prod_pvt) > 0
        /\ ring[Slot(rsp_prod_pvt)].kind = "request"

\* What the published part of the ring holds, oldest first.
UnreadIds(from, to) ==
    [n \in 1..Dist(to, from) |-> ring[Slot(from + n - 1)].id]

Channel == INSTANCE RequestChannel WITH
    requests  <- UnreadIds(req_cons, req_prod),
    open      <- pending,
    responses <- UnreadIds(rsp_cons, rsp_prod),
    done      <- delivered

\* The ring implements the channel: each request is read once, in order of
\* sending, answered once, and each response is consumed once, in order of
\* answering.
IsChannel == Channel!Spec

\* No wake-up is lost on either semaphore: a request the INS can see is
\* eventually answered and its response consumed, unless the INS is given up.
SentIsDelivered ==
    \A id \in Ids :
        (\E n \in 1..Dist(req_prod, req_cons) :
              ring[Slot(req_cons + n - 1)].id = id)
        ~> (id \in delivered \/ ~in_use)

\* A sender inside the request lock always comes out of it, whether the ring
\* was full, the INS died while it waited, or the send went through: the lock
\* that every other sender needs is never kept for good.
LockIsReleased ==
    \A t \in Senders : request_lock = t ~> request_lock # t

\* Nothing left to do: every sent request has been answered, and what
\* remains is a thread blocked for new work.  On the ring of an INS that was
\* given up requests may be left.
Finished ==
    /\ \A t \in Senders : sender[t] = "idle"
    /\ pending = {}
    /\ in_use => /\ last_id = MaxRequests
                 /\ req_cons = req_prod /\ rsp_cons = req_prod
=============================================================================
