--------------------------- MODULE XenRingProofs ---------------------------
(***************************************************************************)
(* For every ring size, index range and number of senders: the indices of  *)
(* the shared ring keep their order through every wrap, nothing unread is   *)
(* ever overwritten, a response always takes the slot of a request that was *)
(* read, and the ring implements the channel of RequestChannel.             *)
(*                                                                         *)
(* None of these is inductive.  xe_comms_write_item checks no index: it is  *)
(* safe only because a slot of a request that was read is left for every    *)
(* request that is pending (PendingCounted), which in turn needs that no    *)
(* request is read twice (UnreadDiffer), and that holds because a sender    *)
(* keeps the request lock from the choice of the slot to its publication    *)
(* (LockHeld, SlotReserved, IdFresh).                                      *)
(***************************************************************************)
EXTENDS XenRing, FiniteSetTheorems, SequenceTheorems, TLAPS

\* An index range is a whole number of rings, and at least two.
LEMMA IndexRange ==
    /\ RING_SIZE \in Nat /\ RING_SIZE >= 1
    /\ IDX_MOD \in Nat /\ IDX_MOD >= 2 * RING_SIZE
<1>1. RING_SIZE \in Nat /\ RING_SIZE >= 1 /\ LAPS \in Nat /\ LAPS >= 2
  BY RingAssumption
<1>2. RING_SIZE * LAPS \in Nat /\ RING_SIZE * LAPS >= RING_SIZE * 2
  BY <1>1
<1> QED
  BY <1>1, <1>2 DEF IDX_MOD

\* A remainder is known once one way of dividing is.
LEMMA RemainderUnique ==
    ASSUME NEW n \in Nat, n >= 1, NEW q \in Int, NEW r \in 0..(n - 1)
    PROVE  (n * q + r) % n = r
  OBVIOUS

\* Taking whole rings off an index does not change its slot.
LEMMA SlotOfLap ==
    ASSUME NEW x \in Nat
    PROVE  Slot(x + IDX_MOD) = Slot(x)
<1>1. RING_SIZE \in Nat /\ RING_SIZE >= 1 /\ LAPS \in Nat
  BY RingAssumption
<1>2. PICK q \in Int, r \in 0..(RING_SIZE - 1) : x = RING_SIZE * q + r
  <2>1. x = RING_SIZE * (x \div RING_SIZE) + (x % RING_SIZE)
    BY <1>1
  <2>2. x % RING_SIZE \in 0..(RING_SIZE - 1) /\ x \div RING_SIZE \in Int
    BY <1>1
  <2> QED
    BY <2>1, <2>2
<1>3. x + IDX_MOD = RING_SIZE * (q + LAPS) + r
  BY <1>1, <1>2 DEF IDX_MOD
<1>4. q + LAPS \in Int
  BY <1>1
<1>5. (RING_SIZE * q + r) % RING_SIZE = r
  BY <1>1, RemainderUnique
<1>6. (RING_SIZE * (q + LAPS) + r) % RING_SIZE = r
  BY <1>1, <1>4, RemainderUnique
<1> QED
  BY <1>2, <1>3, <1>5, <1>6 DEF Slot

\* Different positions of one ring are different slots.
LEMMA SlotsDiffer ==
    ASSUME NEW x \in Nat, NEW j \in 0..(RING_SIZE - 1), NEW k \in 0..(RING_SIZE - 1),
           Slot(x + j) = Slot(x + k)
    PROVE  j = k
<1>1. RING_SIZE \in Nat /\ RING_SIZE >= 1
  BY RingAssumption
<1>2. PICK q \in Int, r \in 0..(RING_SIZE - 1) : x = RING_SIZE * q + r
  <2>1. x = RING_SIZE * (x \div RING_SIZE) + (x % RING_SIZE)
    BY <1>1
  <2>2. x % RING_SIZE \in 0..(RING_SIZE - 1) /\ x \div RING_SIZE \in Int
    BY <1>1
  <2> QED
    BY <2>1, <2>2
<1>3. ASSUME NEW p \in 0..(RING_SIZE - 1)
      PROVE  \/ r + p < RING_SIZE /\ Slot(x + p) = r + p
             \/ r + p >= RING_SIZE /\ Slot(x + p) = r + p - RING_SIZE
  <2>1. CASE r + p < RING_SIZE
    <3>1. r + p \in 0..(RING_SIZE - 1)
      BY <1>1, <2>1
    <3>2. (RING_SIZE * q + (r + p)) % RING_SIZE = r + p
      BY <1>1, <3>1, RemainderUnique
    <3>3. x + p = RING_SIZE * q + (r + p)
      BY <1>1, <1>2
    <3> QED
      BY <2>1, <3>2, <3>3 DEF Slot
  <2>2. CASE r + p >= RING_SIZE
    <3>1. r + p - RING_SIZE \in 0..(RING_SIZE - 1) /\ q + 1 \in Int
      BY <1>1, <2>2
    <3>2. (RING_SIZE * (q + 1) + (r + p - RING_SIZE)) % RING_SIZE
            = r + p - RING_SIZE
      BY <1>1, <3>1, RemainderUnique
    <3>3. RING_SIZE * (q + 1) = RING_SIZE * q + RING_SIZE
      BY <1>1
    <3>4. RING_SIZE * q \in Int
      BY <1>1
    <3>5. x + p = RING_SIZE * (q + 1) + (r + p - RING_SIZE)
      BY <1>1, <1>2, <3>3, <3>4
    <3> QED
      BY <2>2, <3>2, <3>5 DEF Slot
  <2> QED
    BY <1>1, <2>1, <2>2
<1> QED
  BY <1>1, <1>3

\* A slot is one of the ring.
LEMMA SlotInRing ==
    ASSUME NEW x \in Nat
    PROVE  Slot(x) \in 0..(RING_SIZE - 1)
  BY RingAssumption DEF Slot

\* The distance of two indices is their difference, modulo the index range.
LEMMA DistIs ==
    ASSUME NEW i \in Indices, NEW j \in Indices
    PROVE  /\ Dist(i, j) = IF i >= j THEN i - j ELSE i - j + IDX_MOD
           /\ Dist(i, j) \in 0..(IDX_MOD - 1)
<1>1. IDX_MOD \in Nat /\ IDX_MOD >= 1
  BY IndexRange
<1>2. CASE i >= j
  <2>1. i - j \in 0..(IDX_MOD - 1) /\ i + IDX_MOD - j = IDX_MOD * 1 + (i - j)
    BY <1>1, <1>2 DEF Indices
  <2>2. \A r \in 0..(IDX_MOD - 1) : (IDX_MOD * 1 + r) % IDX_MOD = r
    BY <1>1, RemainderUnique
  <2> QED
    BY <1>2, <2>1, <2>2 DEF Dist
<1>3. CASE i < j
  <2>1. /\ i - j + IDX_MOD \in 0..(IDX_MOD - 1)
        /\ i + IDX_MOD - j = IDX_MOD * 0 + (i - j + IDX_MOD)
    BY <1>1, <1>3 DEF Indices
  <2>2. (IDX_MOD * 0 + (i - j + IDX_MOD)) % IDX_MOD = i - j + IDX_MOD
    BY <1>1, <2>1, RemainderUnique
  <2>3. ~(i >= j)
    BY <1>1, <1>3 DEF Indices
  <2> QED
    BY <2>1, <2>2, <2>3 DEF Dist
<1> QED
  BY <1>1, <1>2, <1>3 DEF Indices

\* An index is followed by the next number, or by zero when it wraps.
LEMMA Next1Is ==
    ASSUME NEW i \in Indices
    PROVE  /\ Next1(i) = IF i = IDX_MOD - 1 THEN 0 ELSE i + 1
           /\ Next1(i) \in Indices
<1>1. IDX_MOD \in Nat /\ IDX_MOD >= 1
  BY IndexRange
<1>2. CASE i = IDX_MOD - 1
  <2>1. i + 1 = IDX_MOD * 1 + 0 /\ 0 \in 0..(IDX_MOD - 1)
    BY <1>1, <1>2 DEF Indices
  <2>2. (IDX_MOD * 1 + 0) % IDX_MOD = 0
    BY <1>1, <2>1, RemainderUnique
  <2> QED
    BY <1>2, <2>1, <2>2 DEF Next1, Indices
<1>3. CASE i # IDX_MOD - 1
  <2>1. i + 1 = IDX_MOD * 0 + (i + 1) /\ i + 1 \in 0..(IDX_MOD - 1)
    BY <1>1, <1>3 DEF Indices
  <2>2. (IDX_MOD * 0 + (i + 1)) % IDX_MOD = i + 1
    BY <1>1, <2>1, RemainderUnique
  <2> QED
    BY <1>3, <2>1, <2>2 DEF Next1, Indices
<1> QED
  BY <1>2, <1>3

\* An index that advances gets one further away, unless it was at the greatest
\* distance there is.
LEMMA DistAhead ==
    ASSUME NEW i \in Indices, NEW j \in Indices, Dist(i, j) < IDX_MOD - 1
    PROVE  Dist(Next1(i), j) = Dist(i, j) + 1
<1>1. IDX_MOD \in Nat /\ IDX_MOD >= 1
  BY IndexRange
<1>2. Next1(i) \in Indices /\ Next1(i) = IF i = IDX_MOD - 1 THEN 0 ELSE i + 1
  BY Next1Is
<1>3. /\ Dist(i, j) = IF i >= j THEN i - j ELSE i - j + IDX_MOD
      /\ Dist(Next1(i), j) = IF Next1(i) >= j THEN Next1(i) - j
                                              ELSE Next1(i) - j + IDX_MOD
  BY <1>2, DistIs
<1> QED
  BY <1>1, <1>2, <1>3 DEF Indices

\* It gets one closer when the other one advances, unless they were equal.
LEMMA DistBehind ==
    ASSUME NEW i \in Indices, NEW j \in Indices, Dist(i, j) > 0
    PROVE  Dist(i, Next1(j)) = Dist(i, j) - 1
<1>1. IDX_MOD \in Nat /\ IDX_MOD >= 1
  BY IndexRange
<1>2. Next1(j) \in Indices /\ Next1(j) = IF j = IDX_MOD - 1 THEN 0 ELSE j + 1
  BY Next1Is
<1>3. /\ Dist(i, j) = IF i >= j THEN i - j ELSE i - j + IDX_MOD
      /\ Dist(i, Next1(j)) = IF i >= Next1(j) THEN i - Next1(j)
                                              ELSE i - Next1(j) + IDX_MOD
  BY <1>2, DistIs
<1> QED
  BY <1>1, <1>2, <1>3 DEF Indices

\* Distances from a common index are subtracted.
LEMMA DistBetween ==
    ASSUME NEW i \in Indices, NEW j \in Indices, NEW c \in Indices,
           Dist(j, c) <= Dist(i, c)
    PROVE  Dist(i, j) = Dist(i, c) - Dist(j, c)
<1>1. IDX_MOD \in Nat /\ IDX_MOD >= 1
  BY IndexRange
<1>2. /\ Dist(i, c) = IF i >= c THEN i - c ELSE i - c + IDX_MOD
      /\ Dist(j, c) = IF j >= c THEN j - c ELSE j - c + IDX_MOD
      /\ Dist(i, j) = IF i >= j THEN i - j ELSE i - j + IDX_MOD
  BY DistIs
<1> QED
  BY <1>1, <1>2 DEF Indices

\* An index and the index it is counted from lead to the same slots.
LEMMA SlotAhead ==
    ASSUME NEW i \in Indices, NEW c \in Indices, NEW k \in Nat
    PROVE  Slot(c + (Dist(i, c) + k)) = Slot(i + k)
<1>1. IDX_MOD \in Nat /\ IDX_MOD >= 1 /\ i \in Nat /\ c \in Nat
  BY IndexRange DEF Indices
<1>2. Dist(i, c) = IF i >= c THEN i - c ELSE i - c + IDX_MOD
  BY DistIs
<1>3. CASE i >= c
  <2>1. c + (Dist(i, c) + k) = i + k
    BY <1>1, <1>2, <1>3
  <2> QED
    BY <2>1
<1>4. CASE ~(i >= c)
  <2>1. c + (Dist(i, c) + k) = (i + k) + IDX_MOD /\ i + k \in Nat
    BY <1>1, <1>2, <1>4
  <2> QED
    BY <2>1, SlotOfLap
<1> QED
  BY <1>3, <1>4

\* An index that wraps leads to the same slots as one that does not.
LEMMA SlotNext ==
    ASSUME NEW i \in Indices, NEW k \in Nat
    PROVE  Slot(Next1(i) + k) = Slot(i + (k + 1))
<1>1. IDX_MOD \in Nat /\ IDX_MOD >= 1 /\ i \in Nat
  BY IndexRange DEF Indices
<1>2. Next1(i) = IF i = IDX_MOD - 1 THEN 0 ELSE i + 1
  BY Next1Is
<1>3. CASE i = IDX_MOD - 1
  <2>1. Next1(i) + k = k /\ i + (k + 1) = k + IDX_MOD
    BY <1>1, <1>2, <1>3
  <2> QED
    BY <2>1, SlotOfLap
<1>4. CASE i # IDX_MOD - 1
  <2>1. Next1(i) + k = i + (k + 1)
    BY <1>1, <1>2, <1>4
  <2> QED
    BY <2>1
<1> QED
  BY <1>3, <1>4
-----------------------------------------------------------------------------
(* The ring as the front end sees it from the next response it will         *)
(* consume: positions, counted from there, instead of wrapping indices.     *)

\* Responses published, requests read by the INS, requests published.
Answered == Dist(rsp_prod_pvt, rsp_cons)
Taken    == Dist(req_cons, rsp_cons)
Sent     == Dist(req_prod_pvt, rsp_cons)

\* What the ring holds, by position.
Window == [k \in 0..(RING_SIZE - 1) |-> ring[Slot(rsp_cons + k)]]

\* A sender is inside the lock.
LockHeld == \A t \in Senders : sender[t] # "idle" => request_lock = t

\* The slot that a sender was given is free until it is published, and keeps
\* the request that was put there.
SlotReserved ==
    \A t \in Senders :
        /\ sender[t] \in {"fill", "push"} => Sent < RING_SIZE
        /\ sender[t] = "push" =>
             Window[Sent] = [kind |-> "request", id |-> request[t]]

\* No identifier is ahead of the last one given out.
IdsGiven ==
    /\ \A id \in pending \cup delivered : id <= last_id
    /\ \A k \in 0..(Sent - 1) : Window[k].id <= last_id

\* The request that is being sent is nowhere else.
IdFresh ==
    \A t \in Senders : sender[t] \in {"slot", "fill", "push"} =>
        /\ request[t] = last_id /\ last_id >= 1
        /\ last_id \notin pending \cup delivered
        /\ \A k \in 0..(Sent - 1) : Window[k].id # last_id

\* What the slots hold: responses, then the slots of the requests read (the
\* first of which may be taken by a response that is not published yet), then
\* the requests that are not read.
SlotKinds ==
    /\ \A k \in 0..(Answered - 1) : Window[k].kind = "response"
    /\ \A k \in Answered..(Sent - 1) :
         (k = Answered /\ writer = "push") \/ Window[k].kind = "request"
    /\ writer = "push" =>
         /\ writing \in pending
         /\ Window[Answered] = [kind |-> "response", id |-> writing]

\* The requests that the INS has not read differ from each other and from
\* those it works on, which are as many as the slots left for responses.
UnreadDiffer ==
    \A k \in Taken..(Sent - 1) :
        /\ Window[k].id \notin pending
        /\ \A j \in (k + 1)..(Sent - 1) : Window[j].id # Window[k].id

PendingCounted == Cardinality(pending) = Taken - Answered

\* The consumer goes for a response only if there is one.
ConsumerSafe ==
    /\ consumer = "got" => Answered > 0
    /\ consumer # "exit"

\* The inductive invariant.
RingInv ==
    /\ TypeOK /\ RingOrder /\ LockHeld /\ SlotReserved /\ IdsGiven /\ IdFresh
    /\ SlotKinds /\ UnreadDiffer /\ PendingCounted /\ ConsumerSafe

ringPlaces == <<ring, rsp_prod, req_prod, req_prod_pvt, rsp_cons, req_cons,
                rsp_prod_pvt>>

\* The positions are in order, and far from wrapping.
LEMMA Positions ==
    ASSUME TypeOK, RingOrder
    PROVE  /\ RING_SIZE \in Nat /\ RING_SIZE >= 1 /\ RING_SIZE < IDX_MOD
           /\ IDX_MOD \in Nat
           /\ Answered \in Nat /\ Taken \in Nat /\ Sent \in Nat
           /\ Answered <= Taken /\ Taken <= Sent /\ Sent <= RING_SIZE
           /\ Window \in [0..(RING_SIZE - 1) -> Messages]
<1>1. RING_SIZE \in Nat /\ RING_SIZE >= 1 /\ IDX_MOD \in Nat /\ RING_SIZE < IDX_MOD
  BY IndexRange
<1>2. Answered \in Nat /\ Taken \in Nat /\ Sent \in Nat
  BY <1>1, DistIs DEF Answered, Taken, Sent, TypeOK
<1>3. Answered <= Taken /\ Taken <= Sent /\ Sent <= RING_SIZE
  BY DEF RingOrder, Answered, Taken, Sent
<1>4. Window \in [0..(RING_SIZE - 1) -> Messages]
  <2>1. ASSUME NEW k \in 0..(RING_SIZE - 1)
        PROVE  ring[Slot(rsp_cons + k)] \in Messages
    <3>1. rsp_cons + k \in Nat
      BY <1>1 DEF TypeOK, Indices
    <3>2. Slot(rsp_cons + k) \in 0..(RING_SIZE - 1)
      BY <3>1, SlotInRing
    <3> QED
      BY <3>2 DEF TypeOK
  <2> QED
    BY <2>1 DEF Window
<1> QED
  BY <1>1, <1>2, <1>3, <1>4

\* As long as nothing on the ring changes, no position does.
LEMMA PlacesFrame ==
    ASSUME UNCHANGED ringPlaces
    PROVE  UNCHANGED <<Answered, Taken, Sent, Window>>
  BY DEF ringPlaces, Answered, Taken, Sent, Window

\* Nor does the order of the indices.
LEMMA OrderFrame ==
    ASSUME RingOrder, UNCHANGED ringPlaces
    PROVE  RingOrder'
  BY DEF ringPlaces, RingOrder

\* A step that changes no index, no slot, and nothing that the invariant
\* relates to them.
LEMMA QuietFrame ==
    ASSUME RingInv, TypeOK', UNCHANGED ringPlaces, UNCHANGED senderVars,
           UNCHANGED <<pending, delivered, writing>>,
           writer' = writer \/ writer' # "push",
           consumer' # "exit", consumer' = "got" => Answered > 0,
           writer = "push" => writer' = "push"
    PROVE  RingInv'
<1>1. UNCHANGED <<Answered, Taken, Sent, Window>> /\ RingOrder'
  BY PlacesFrame, OrderFrame DEF RingInv
<1> QED
  BY <1>1 DEF RingInv, LockHeld, SlotReserved, IdsGiven, IdFresh, SlotKinds,
     UnreadDiffer, PendingCounted, ConsumerSafe, senderVars

\* What the invariant says of a sender that is inside the lock.
LEMMA OneSender ==
    ASSUME RingInv, NEW t \in Senders, sender[t] # "idle"
    PROVE  \A u \in Senders : sender[u] # "idle" => u = t
  BY DEF RingInv, LockHeld

\* While the lock is free, nobody sends.
LEMMA NobodySends ==
    ASSUME RingInv, request_lock = NoOne
    PROVE  \A u \in Senders : sender[u] = "idle"
  BY RingAssumption DEF RingInv, LockHeld

\* A sender enters the lock with an identifier that nothing carries.
LEMMA LockRequestsKeeps ==
    ASSUME RingInv, NEW t \in Senders, LockRequests(t)
    PROVE  RingInv'
<1> USE DEF frontVars, backVars, insVars, pvmVars
<1>1. TypeOK'
  BY RingAssumption DEF RingInv, TypeOK, LockRequests
<1>2. UNCHANGED ringPlaces
  BY DEF LockRequests, ringPlaces
<1>3. UNCHANGED <<Answered, Taken, Sent, Window>> /\ RingOrder'
  BY <1>2, PlacesFrame, OrderFrame DEF RingInv
<1>4. \A u \in Senders : sender[u] = "idle"
  BY NobodySends DEF LockRequests
<1>5. /\ request_lock' = t /\ last_id' = last_id + 1
      /\ request' = [request EXCEPT ![t] = last_id + 1]
      /\ sender' = [sender EXCEPT ![t] = "slot"]
      /\ UNCHANGED <<pending, writing, writer, consumer, delivered>>
      /\ last_id \in Nat /\ request \in [Senders -> 0..MaxRequests]
      /\ sender \in [Senders -> {"idle", "slot", "fill", "push", "event", "drop"}]
      /\ pending \subseteq Ids /\ delivered \subseteq Ids
  BY DEF LockRequests, RingInv, TypeOK
<1>6. LockHeld'
  BY <1>4, <1>5 DEF LockHeld
<1>7. SlotReserved'
  BY <1>4, <1>5 DEF SlotReserved
<1>8. Sent \in Nat /\ Sent <= RING_SIZE
      /\ \A k \in 0..(Sent - 1) : Window[k].id \in Int
  <2>1. \A m \in Messages : m.id \in Int
    BY RingAssumption DEF Messages, Empty, Ids
  <2> QED
    BY <2>1, Positions DEF RingInv
<1>9. IdsGiven'
  BY <1>3, <1>5, <1>8, RingAssumption DEF RingInv, IdsGiven, Ids
<1>10. IdFresh'
  BY <1>3, <1>4, <1>5, <1>8, RingAssumption DEF RingInv, IdsGiven, IdFresh, Ids
<1>11. (SlotKinds /\ UnreadDiffer /\ PendingCounted /\ ConsumerSafe)'
  BY <1>3, <1>5 DEF RingInv, SlotKinds, UnreadDiffer, PendingCounted, ConsumerSafe
<1> QED
  BY <1>1, <1>3, <1>6, <1>7, <1>9, <1>10, <1>11 DEF RingInv

\* The step inside the lock that looks for a slot: it is given out only if
\* there is one.
LEMMA GetSlotKeeps ==
    ASSUME RingInv, NEW t \in Senders, mw_xen_get_next_request_slot(t)
    PROVE  RingInv'
<1> USE DEF frontVars, backVars, insVars, pvmVars
<1>1. TypeOK'
  BY DEF RingInv, TypeOK, mw_xen_get_next_request_slot
<1>2. UNCHANGED ringPlaces
  BY DEF mw_xen_get_next_request_slot, ringPlaces
<1>3. UNCHANGED <<Answered, Taken, Sent, Window>> /\ RingOrder'
  BY <1>2, PlacesFrame, OrderFrame DEF RingInv
<1>4. \/ sender' = [sender EXCEPT ![t] = "drop"]
      \/ sender' = [sender EXCEPT ![t] = "fill"] /\ Sent < RING_SIZE
  <2>1. Sent <= RING_SIZE /\ Sent \in Nat /\ RING_SIZE \in Nat
    BY Positions DEF RingInv
  <2> QED
    BY <2>1 DEF mw_xen_get_next_request_slot, RING_FULL, Sent
<1>5. /\ sender[t] = "slot"
      /\ UNCHANGED <<request_lock, request, last_id, pending, writing, writer,
                     consumer, delivered>>
      /\ sender \in [Senders -> {"idle", "slot", "fill", "push", "event", "drop"}]
  BY DEF mw_xen_get_next_request_slot, RingInv, TypeOK
<1>6. LockHeld' /\ SlotReserved' /\ IdsGiven' /\ IdFresh'
  BY <1>3, <1>4, <1>5
  DEF RingInv, LockHeld, SlotReserved, IdsGiven, IdFresh
<1>7. (SlotKinds /\ UnreadDiffer /\ PendingCounted /\ ConsumerSafe)'
  BY <1>3, <1>5 DEF RingInv, SlotKinds, UnreadDiffer, PendingCounted, ConsumerSafe
<1> QED
  BY <1>1, <1>3, <1>6, <1>7 DEF RingInv

\* The end of a send, whether it succeeded or not.
LEMMA ReleaseKeeps ==
    ASSUME RingInv, NEW t \in Senders, ReleaseRequest(t)
    PROVE  RingInv'
<1> USE DEF frontVars, backVars, insVars, pvmVars
<1>1. TypeOK'
  <2>1. event_ins' \in BOOLEAN
    <3>1. CASE event_ins' = (event_ins \/ sender[t] = "event")
      BY <3>1
    <3>2. CASE UNCHANGED event_ins
      BY <3>2 DEF RingInv, TypeOK
    <3> QED
      BY <3>1, <3>2 DEF ReleaseRequest
  <2>2. /\ UNCHANGED <<ring, req_prod, rsp_prod, frontVars, backVars, in_use,
                       WaitForRing, last_id, insVars, pvmVars, event_pvm>>
        /\ request_lock' = NoOne
        /\ sender' = [sender EXCEPT ![t] = "idle"]
        /\ request' = [request EXCEPT ![t] = 0]
    BY DEF ReleaseRequest
  <2> QED
    BY <2>1, <2>2, RingAssumption DEF RingInv, TypeOK
<1>2. UNCHANGED ringPlaces
  BY DEF ReleaseRequest, ringPlaces
<1>3. UNCHANGED <<Answered, Taken, Sent, Window>> /\ RingOrder'
  BY <1>2, PlacesFrame, OrderFrame DEF RingInv
<1>4. \A u \in Senders : sender'[u] = "idle"
  <2>1. sender[t] # "idle"
    BY DEF ReleaseRequest
  <2> QED
    BY <2>1, OneSender DEF ReleaseRequest, RingInv, TypeOK
<1>5. UNCHANGED <<last_id, pending, writing, writer, consumer, delivered>>
  BY DEF ReleaseRequest
<1>6. LockHeld' /\ SlotReserved' /\ IdsGiven' /\ IdFresh'
  BY <1>3, <1>4, <1>5
  DEF RingInv, LockHeld, SlotReserved, IdsGiven, IdFresh
<1>7. (SlotKinds /\ UnreadDiffer /\ PendingCounted /\ ConsumerSafe)'
  BY <1>3, <1>5 DEF RingInv, SlotKinds, UnreadDiffer, PendingCounted, ConsumerSafe
<1> QED
  BY <1>1, <1>3, <1>6, <1>7 DEF RingInv

\* Writing the slot of an index changes the window at its position only.
LEMMA WindowWritten ==
    ASSUME TypeOK, NEW i \in Indices, NEW p \in 0..(RING_SIZE - 1),
           Dist(i, rsp_cons) = p, NEW m,
           ring' = [ring EXCEPT ![Slot(i)] = m], rsp_cons' = rsp_cons
    PROVE  \A k \in 0..(RING_SIZE - 1) :
             Window'[k] = IF k = p THEN m ELSE Window[k]
<1>1. RING_SIZE \in Nat /\ rsp_cons \in Indices /\ rsp_cons \in Nat /\ i \in Nat
  BY IndexRange DEF TypeOK, Indices
<1>2. Slot(i) = Slot(rsp_cons + p)
  <2>1. Slot(rsp_cons + (Dist(i, rsp_cons) + 0)) = Slot(i + 0)
    BY <1>1, SlotAhead
  <2> QED
    BY <1>1, <2>1
<1> SUFFICES ASSUME NEW k \in 0..(RING_SIZE - 1)
             PROVE  Window'[k] = IF k = p THEN m ELSE Window[k]
  OBVIOUS
<1>3. rsp_cons + k \in Nat /\ Slot(rsp_cons + k) \in 0..(RING_SIZE - 1)
  BY <1>1, SlotInRing
<1>4. Window'[k] = ring'[Slot(rsp_cons + k)] /\ Window[k] = ring[Slot(rsp_cons + k)]
  BY DEF Window
<1>5. Slot(rsp_cons + k) = Slot(rsp_cons + p) => k = p
  BY <1>1, SlotsDiffer
<1>6. DOMAIN ring = 0..(RING_SIZE - 1)
  BY DEF TypeOK
<1> QED
  BY <1>2, <1>3, <1>4, <1>5, <1>6

\* A slot that is written leaves the positions alone.
LEMMA PositionsFrame ==
    ASSUME UNCHANGED <<req_prod_pvt, rsp_cons, req_cons, rsp_prod_pvt>>
    PROVE  UNCHANGED <<Answered, Taken, Sent>>
  BY DEF Answered, Taken, Sent

\* There are finitely many pending requests, and a slot for each response.
LEMMA PendingLeavesRoom ==
    ASSUME RingInv
    PROVE  /\ IsFiniteSet(pending)
           /\ pending # {} => Answered < Taken
<1>1. IsFiniteSet(1..MaxRequests) /\ pending \subseteq 1..MaxRequests
  BY FS_Interval, RingAssumption DEF RingInv, TypeOK, Ids
<1>2. IsFiniteSet(pending)
  BY <1>1, FS_Subset
<1>3. pending # {} => Cardinality(pending) # 0
  BY <1>2, FS_EmptySet
<1>4. Answered \in Nat /\ Taken \in Nat /\ Answered <= Taken
  BY Positions DEF RingInv
<1> QED
  BY <1>2, <1>3, <1>4 DEF RingInv, PendingCounted

\* The sender fills the slot it was given: no request or response is there.
LEMMA FillSlotKeeps ==
    ASSUME RingInv, NEW t \in Senders, FillSlot(t)
    PROVE  /\ RingInv'
           /\ UNCHANGED <<Answered, Taken, Sent>>
           /\ \A k \in 0..(Sent - 1) : Window'[k] = Window[k]
<1> DEFINE m == [kind |-> "request", id |-> request[t]]
<1> USE DEF frontVars, backVars, insVars, pvmVars
<1>0. TypeOK /\ RingOrder /\ RING_SIZE \in Nat
  BY IndexRange DEF RingInv
<1>1. /\ sender[t] = "fill" /\ Sent < RING_SIZE
      /\ request[t] \in Ids /\ request[t] = last_id
  <2>1. sender[t] = "fill"
    BY DEF FillSlot
  <2>2. request[t] = last_id /\ last_id >= 1 /\ Sent < RING_SIZE
    BY <2>1 DEF RingInv, SlotReserved, IdFresh
  <2>3. last_id \in 0..MaxRequests
    BY <1>0 DEF TypeOK
  <2> QED
    BY <2>1, <2>2, <2>3, RingAssumption DEF Ids
<1>2. /\ ring' = [ring EXCEPT ![Slot(req_prod_pvt)] = m]
      /\ sender' = [sender EXCEPT ![t] = "push"]
      /\ UNCHANGED <<req_prod, rsp_prod, req_prod_pvt, rsp_cons, req_cons,
                     rsp_prod_pvt, request_lock, request, last_id, pending,
                     writing, writer, consumer, delivered>>
  BY DEF FillSlot
<1>3. TypeOK'
  <2>1. Slot(req_prod_pvt) \in 0..(RING_SIZE - 1)
    BY <1>0, SlotInRing DEF TypeOK, Indices
  <2>2. m \in Messages
    BY <1>1 DEF Messages
  <2>3. ring' \in [0..(RING_SIZE - 1) -> Messages]
    BY <1>0, <1>2, <2>1, <2>2 DEF TypeOK
  <2> QED
    BY <1>0, <2>3 DEF TypeOK, FillSlot
<1>4. UNCHANGED <<Answered, Taken, Sent>> /\ RingOrder'
  BY <1>0, <1>2, PositionsFrame DEF RingOrder
<1>5. /\ RING_SIZE \in Nat /\ Answered \in Nat /\ Taken \in Nat /\ Sent \in Nat
      /\ Answered <= Taken /\ Taken <= Sent
  BY <1>0, Positions
<1>6. \A k \in 0..(RING_SIZE - 1) : Window'[k] = IF k = Sent THEN m ELSE Window[k]
  <2> HIDE DEF m
  <2>1. Sent \in 0..(RING_SIZE - 1) /\ req_prod_pvt \in Indices
    BY <1>0, <1>1, <1>5 DEF TypeOK
  <2>2. Dist(req_prod_pvt, rsp_cons) = Sent
    BY DEF Sent
  <2> QED
    BY <1>0, <1>2, <2>1, <2>2, WindowWritten, ZenonT(30)
<1> HIDE DEF m
<1>7. \A k \in 0..(Sent - 1) : k \in 0..(RING_SIZE - 1) /\ Window'[k] = Window[k]
  BY <1>1, <1>5, <1>6
<1>8. \A u \in Senders : sender[u] # "idle" => u = t
  BY <1>1, OneSender
<1>9. sender \in [Senders -> {"idle", "slot", "fill", "push", "event", "drop"}]
  BY <1>0 DEF TypeOK
<1>10. LockHeld'
  BY <1>1, <1>2, <1>9 DEF RingInv, LockHeld
<1>11. SlotReserved'
  <2>1. Window'[Sent] = m
    BY <1>1, <1>5, <1>6
  <2> QED
    BY <1>1, <1>2, <1>4, <1>8, <1>9, <2>1 DEF SlotReserved, m
<1>12. IdsGiven' /\ IdFresh'
  BY <1>1, <1>2, <1>4, <1>5, <1>7, <1>9 DEF RingInv, IdsGiven, IdFresh
<1>13. SlotKinds'
  <2>1. Answered < Sent => Window'[Answered] = Window[Answered]
    BY <1>5, <1>7
  <2>2. writer = "push" => Answered < Sent
    BY PendingLeavesRoom, <1>5 DEF RingInv, SlotKinds
  <2> QED
    BY <1>2, <1>4, <1>5, <1>7, <2>1, <2>2 DEF RingInv, SlotKinds
<1>14. (UnreadDiffer /\ PendingCounted /\ ConsumerSafe)'
  BY <1>2, <1>4, <1>5, <1>7 DEF RingInv, UnreadDiffer, PendingCounted, ConsumerSafe
<1> QED
  BY <1>3, <1>4, <1>7, <1>10, <1>11, <1>12, <1>13, <1>14 DEF RingInv

\* A request is published: it is the last of the unread ones, and new.
LEMMA PushRequestKeeps ==
    ASSUME RingInv, NEW t \in Senders, PushRequest(t)
    PROVE  /\ RingInv'
           /\ Sent' = IF in_use THEN Sent + 1 ELSE Sent
           /\ UNCHANGED <<Answered, Taken, Window>>
<1> USE DEF frontVars, backVars, insVars, pvmVars
<1>0. TypeOK /\ RingOrder
  BY DEF RingInv
<1>1. /\ RING_SIZE \in Nat /\ Answered \in Nat /\ Taken \in Nat /\ Sent \in Nat
      /\ Answered <= Taken /\ Taken <= Sent /\ RING_SIZE < IDX_MOD
      /\ IDX_MOD \in Nat
  BY <1>0, Positions
<1>2. /\ sender[t] = "push"
      /\ UNCHANGED <<ring, rsp_prod, rsp_cons, req_cons, rsp_prod_pvt,
                     request_lock, request, last_id, pending, writing, writer,
                     consumer, delivered>>
      /\ sender \in [Senders -> {"idle", "slot", "fill", "push", "event", "drop"}]
  BY <1>0 DEF PushRequest, TypeOK
<1>3. \A u \in Senders : sender[u] # "idle" => u = t
  BY <1>2, OneSender
<1>4. UNCHANGED <<Answered, Taken, Window>>
  BY <1>2 DEF Answered, Taken, Window
<1>5. ASSUME in_use PROVE RingInv' /\ Sent' = Sent + 1
  <2>1. /\ req_prod_pvt' = Next1(req_prod_pvt) /\ req_prod' = Next1(req_prod_pvt)
        /\ sender' = [sender EXCEPT ![t] = "event"]
    BY <1>5 DEF PushRequest
  <2>2. /\ Sent < RING_SIZE
        /\ Window[Sent] = [kind |-> "request", id |-> request[t]]
        /\ request[t] = last_id /\ last_id \in Nat /\ last_id \notin pending
        /\ \A k \in 0..(Sent - 1) : Window[k].id # last_id
    BY <1>0, <1>2 DEF RingInv, SlotReserved, IdFresh, TypeOK
  <2>3. Sent' = Sent + 1
    <3>1. Sent < IDX_MOD - 1
      BY <1>1, <2>2
    <3>2. req_prod_pvt \in Indices /\ rsp_cons \in Indices
      BY <1>0 DEF TypeOK
    <3> QED
      BY <1>2, <2>1, <3>1, <3>2, DistAhead DEF Sent
  <2>4. TypeOK'
    <3>1. Next1(req_prod_pvt) \in Indices
      BY <1>0, Next1Is DEF TypeOK
    <3> QED
      BY <1>0, <1>2, <1>5, <2>1, <3>1 DEF TypeOK, PushRequest
  <2>5. RingOrder'
    <3>1. Answered' <= Taken' /\ Taken' <= Sent' /\ Sent' <= RING_SIZE
      BY <1>1, <1>4, <2>2, <2>3
    <3>2. rsp_prod' = rsp_prod_pvt' /\ req_prod' = req_prod_pvt'
      BY <1>0, <1>2, <2>1 DEF RingOrder
    <3> QED
      BY <3>1, <3>2 DEF RingOrder, Answered, Taken, Sent
  <2>6. \A k \in 0..(Sent' - 1) : k \in 0..(Sent - 1) \/ k = Sent
    BY <1>1, <2>3
  <2>7. LockHeld' /\ SlotReserved' /\ IdFresh'
    BY <1>2, <1>3, <2>1 DEF RingInv, LockHeld, SlotReserved, IdFresh
  <2>8. IdsGiven'
    BY <1>2, <1>4, <2>2, <2>6 DEF RingInv, IdsGiven
  <2>9. SlotKinds'
    <3>1. \A k \in Answered'..(Sent' - 1) : k \in Answered..(Sent - 1) \/ k = Sent
      BY <1>1, <1>4, <2>3
    <3> QED
      BY <1>1, <1>2, <1>4, <2>2, <3>1 DEF RingInv, SlotKinds
  <2>10. UnreadDiffer'
    <3> SUFFICES ASSUME NEW k \in Taken..Sent
                 PROVE  /\ Window[k].id \notin pending
                        /\ \A j \in (k + 1)..Sent : Window[j].id # Window[k].id
      BY <1>1, <1>2, <1>4, <2>3 DEF UnreadDiffer
    <3>1. CASE k = Sent
      BY <1>1, <2>2, <3>1
    <3>2. CASE k < Sent
      <4>1. k \in Taken..(Sent - 1) /\ k \in 0..(Sent - 1)
        BY <1>1, <3>2
      <4>2. \A j \in (k + 1)..Sent : j \in (k + 1)..(Sent - 1) \/ j = Sent
        BY <1>1
      <4> QED
        BY <2>2, <4>1, <4>2 DEF RingInv, UnreadDiffer
    <3> QED
      BY <1>1, <3>1, <3>2
  <2>11. PendingCounted' /\ ConsumerSafe'
    BY <1>2, <1>4 DEF RingInv, PendingCounted, ConsumerSafe
  <2> QED
    BY <1>5, <2>3, <2>4, <2>5, <2>7, <2>8, <2>9, <2>10, <2>11 DEF RingInv
<1>6. ASSUME ~in_use PROVE RingInv' /\ Sent' = Sent
  <2>1. /\ sender' = [sender EXCEPT ![t] = "drop"]
        /\ UNCHANGED <<req_prod_pvt, req_prod>>
    BY <1>6 DEF PushRequest
  <2>2. TypeOK'
    BY <1>0, <1>2, <2>1 DEF TypeOK, PushRequest
  <2>3. Sent' = Sent /\ RingOrder'
    BY <1>0, <1>2, <2>1 DEF Sent, RingOrder
  <2>4. LockHeld' /\ SlotReserved' /\ IdFresh'
    BY <1>2, <1>3, <2>1 DEF RingInv, LockHeld, SlotReserved, IdFresh
  <2>5. (IdsGiven /\ SlotKinds /\ UnreadDiffer /\ PendingCounted /\ ConsumerSafe)'
    BY <1>2, <1>4, <2>3
    DEF RingInv, IdsGiven, SlotKinds, UnreadDiffer, PendingCounted, ConsumerSafe
  <2> QED
    BY <1>6, <2>2, <2>3, <2>4, <2>5 DEF RingInv
<1> QED
  BY <1>4, <1>5, <1>6

\* The INS reads a request: the first unread one, which is not pending.
LEMMA ReadItemKeeps ==
    ASSUME RingInv, xe_comms_read_item
    PROVE  /\ RingInv'
           /\ UNCHANGED <<Answered, Sent, Window>>
           /\ \/ /\ Taken < Sent /\ Taken' = Taken + 1
                 /\ pending' = pending \cup {Window[Taken].id}
              \/ UNCHANGED <<Taken, pending>>
<1> USE DEF frontVars, senderVars, pvmVars
<1>0. TypeOK /\ RingOrder
  BY DEF RingInv
<1>1. /\ RING_SIZE \in Nat /\ Answered \in Nat /\ Taken \in Nat /\ Sent \in Nat
      /\ Answered <= Taken /\ Taken <= Sent /\ Sent <= RING_SIZE
      /\ IDX_MOD \in Nat /\ RING_SIZE < IDX_MOD
      /\ Window \in [0..(RING_SIZE - 1) -> Messages]
  BY <1>0, Positions
<1>2. UNCHANGED <<ring, req_prod, rsp_prod, req_prod_pvt, rsp_cons, rsp_prod_pvt,
                  request_lock, sender, request, last_id, writing, writer,
                  consumer, delivered>>
  BY DEF xe_comms_read_item
<1>3. CASE RING_HAS_UNCONSUMED_REQUESTS
  <2> DEFINE id == Window[Taken].id
  <2>1. /\ pending' = pending \cup {ring[Slot(req_cons)].id}
        /\ req_cons' = Next1(req_cons)
    BY <1>3 DEF xe_comms_read_item
  <2>2. req_cons \in Indices /\ rsp_cons \in Indices /\ req_prod_pvt \in Indices
    BY <1>0 DEF TypeOK
  <2>3. Taken < Sent
    <3>1. Dist(req_prod_pvt, req_cons) > 0
      BY <1>0, <1>3 DEF RING_HAS_UNCONSUMED_REQUESTS, RingOrder
    <3>2. Dist(req_prod_pvt, req_cons) = Sent - Taken
      BY <1>1, <2>2, DistBetween DEF Sent, Taken
    <3> QED
      BY <1>1, <3>1, <3>2
  <2>4. Window[Taken] = ring[Slot(req_cons)]
    <3>1. Slot(rsp_cons + (Taken + 0)) = Slot(req_cons + 0)
      BY <2>2, SlotAhead DEF Taken
    <3>2. req_cons \in Nat /\ Taken \in 0..(RING_SIZE - 1)
      BY <1>1, <2>2, <2>3, IndexRange DEF Indices
    <3> QED
      BY <1>1, <3>1, <3>2 DEF Window
  <2>5. /\ Taken \in Taken..(Sent - 1) /\ Taken \in Answered..(Sent - 1)
        /\ Taken \in 0..(Sent - 1) /\ Taken \in 0..(RING_SIZE - 1)
    BY <1>1, <2>3
  <2>6. pending' = pending \cup {id} /\ id \notin pending /\ id \in Ids
        /\ id <= last_id
    <3>1. id \notin pending /\ id <= last_id
      BY <2>5 DEF RingInv, UnreadDiffer, IdsGiven
    <3>2. Window[Taken].kind = "request"
      <4>1. writer = "push" => Answered < Taken
        BY PendingLeavesRoom DEF RingInv, SlotKinds
      <4> QED
        BY <1>1, <2>5, <4>1 DEF RingInv, SlotKinds
    <3>3. Window[Taken] \in Messages
      BY <1>1, <2>5
    <3>4. id \in Ids
      BY <3>2, <3>3 DEF Messages, Empty
    <3> QED
      BY <2>1, <2>4, <3>1, <3>4
  <2> HIDE DEF id
  <2>7. Taken' = Taken + 1 /\ UNCHANGED <<Answered, Sent, Window>>
    <3>1. Taken < IDX_MOD - 1
      BY <1>1, <2>3
    <3>2. Taken' = Taken + 1
      BY <1>2, <2>1, <2>2, <3>1, DistAhead DEF Taken
    <3> QED
      BY <1>2, <3>2 DEF Answered, Sent, Window
  <2>8. TypeOK'
    <3>1. Next1(req_cons) \in Indices
      BY <2>2, Next1Is
    <3>2. pending' \subseteq Ids /\ reader' \in {"check", "down"}
      BY <1>0, <2>6, <1>3 DEF TypeOK, xe_comms_read_item
    <3> QED
      BY <1>0, <2>1, <3>1, <3>2 DEF TypeOK, xe_comms_read_item
  <2>9. RingOrder'
    <3>1. Answered' <= Taken' /\ Taken' <= Sent' /\ Sent' <= RING_SIZE
      BY <1>1, <2>3, <2>7
    <3> QED
      BY <1>0, <1>2, <3>1 DEF RingOrder, Answered, Taken, Sent
  <2>10. LockHeld' /\ SlotReserved'
    BY <1>2, <2>7 DEF RingInv, LockHeld, SlotReserved
  <2>11. IdsGiven'
    BY <1>2, <2>6, <2>7 DEF RingInv, IdsGiven
  <2>12. IdFresh'
    <3>1. ASSUME NEW t \in Senders, sender[t] \in {"slot", "fill", "push"}
          PROVE  id # last_id
      BY <2>5, <3>1 DEF RingInv, IdFresh, id
    <3> QED
      BY <1>2, <2>6, <2>7, <3>1 DEF RingInv, IdFresh
  <2>13. SlotKinds'
    BY <1>2, <2>6, <2>7 DEF RingInv, SlotKinds
  <2>14. UnreadDiffer'
    <3>1. \A k \in (Taken + 1)..(Sent - 1) : k \in Taken..(Sent - 1) /\ Window[k].id # id
      BY <1>1, <2>5 DEF RingInv, UnreadDiffer, id
    <3> QED
      BY <2>6, <2>7, <3>1 DEF RingInv, UnreadDiffer
  <2>15. PendingCounted'
    <3>1. Cardinality(pending \cup {id}) = Cardinality(pending) + 1
      BY <2>6, PendingLeavesRoom, FS_AddElement
    <3> QED
      BY <1>1, <2>6, <2>7, <3>1 DEF RingInv, PendingCounted
  <2>16. ConsumerSafe'
    BY <1>2, <2>7 DEF RingInv, ConsumerSafe
  <2> QED
    BY <2>3, <2>6, <2>7, <2>8, <2>9, <2>10, <2>11, <2>12, <2>13, <2>14, <2>15,
       <2>16 DEF RingInv, id
<1>4. CASE ~RING_HAS_UNCONSUMED_REQUESTS
  <2>1. UNCHANGED <<pending, req_cons>> /\ TypeOK'
    BY <1>0, <1>4 DEF xe_comms_read_item, TypeOK
  <2>2. UNCHANGED ringPlaces /\ UNCHANGED senderVars
    BY <1>2, <2>1 DEF ringPlaces, xe_comms_read_item
  <2> QED
    BY <1>2, <2>1, <2>2, QuietFrame, PlacesFrame DEF RingInv, ConsumerSafe
<1> QED
  BY <1>3, <1>4

\* A response is written over the first slot that is not a response: one of a
\* request that was read.
LEMMA WriteItemKeeps ==
    ASSUME RingInv, NEW id \in Ids, xe_comms_write_item(id)
    PROVE  /\ RingInv' /\ Answered < Taken
           /\ UNCHANGED <<Answered, Taken, Sent>>
           /\ \A k \in 0..(RING_SIZE - 1) : k # Answered => Window'[k] = Window[k]
<1> DEFINE m == [kind |-> "response", id |-> id]
<1> USE DEF frontVars, backVars, senderVars, pvmVars
<1>0. TypeOK /\ RingOrder
  BY DEF RingInv
<1>1. /\ RING_SIZE \in Nat /\ Answered \in Nat /\ Taken \in Nat /\ Sent \in Nat
      /\ Answered <= Taken /\ Taken <= Sent /\ Sent <= RING_SIZE
  BY <1>0, Positions
<1>2. /\ writer = "idle" /\ id \in pending /\ writer' = "push" /\ writing' = id
      /\ ring' = [ring EXCEPT ![Slot(rsp_prod_pvt)] = m]
      /\ UNCHANGED <<req_prod, rsp_prod, req_prod_pvt, rsp_cons, req_cons,
                     rsp_prod_pvt, request_lock, sender, request, last_id,
                     pending, consumer, delivered>>
  BY DEF xe_comms_write_item
<1>3. Answered < Taken
  BY <1>2, PendingLeavesRoom
<1>4. TypeOK'
  <2>1. Slot(rsp_prod_pvt) \in 0..(RING_SIZE - 1)
    BY <1>0, SlotInRing, IndexRange DEF TypeOK, Indices
  <2>2. m \in Messages
    BY DEF Messages
  <2>3. ring' \in [0..(RING_SIZE - 1) -> Messages]
    BY <1>0, <1>2, <2>1, <2>2 DEF TypeOK
  <2>4. writing' \in 0..MaxRequests
    BY <1>2, RingAssumption DEF Ids
  <2> QED
    BY <1>0, <2>3, <2>4 DEF TypeOK, xe_comms_write_item
<1>5. UNCHANGED <<Answered, Taken, Sent>> /\ RingOrder'
  BY <1>0, <1>2, PositionsFrame DEF RingOrder
<1> HIDE DEF m
<1>6. \A k \in 0..(RING_SIZE - 1) :
        Window'[k] = IF k = Answered THEN m ELSE Window[k]
  <2>1. Answered \in 0..(RING_SIZE - 1) /\ rsp_prod_pvt \in Indices
    BY <1>0, <1>1, <1>3 DEF TypeOK
  <2>2. Dist(rsp_prod_pvt, rsp_cons) = Answered
    BY DEF Answered
  <2> QED
    BY <1>0, <1>2, <2>1, <2>2, WindowWritten, ZenonT(30)
<1>7. /\ Window'[Answered] = m
      /\ \A k \in 0..(RING_SIZE - 1) : k # Answered => Window'[k] = Window[k]
  BY <1>1, <1>3, <1>6
<1>8. id <= last_id /\ m.id = id
  BY <1>2 DEF RingInv, IdsGiven, m
<1>9. \A k \in 0..(Sent - 1) : k \in 0..(RING_SIZE - 1)
  BY <1>1
<1>10. LockHeld'
  BY <1>2 DEF RingInv, LockHeld
<1>11. SlotReserved'
  <2> SUFFICES ASSUME NEW t \in Senders, sender[t] \in {"fill", "push"}
               PROVE  Sent < RING_SIZE /\ Window'[Sent] = Window[Sent]
    BY <1>2, <1>5 DEF RingInv, SlotReserved
  <2>1. Sent < RING_SIZE
    BY DEF RingInv, SlotReserved
  <2> QED
    BY <1>1, <1>3, <1>7, <2>1
<1>12. IdsGiven'
  BY <1>2, <1>5, <1>7, <1>8, <1>9 DEF RingInv, IdsGiven
<1>13. IdFresh'
  BY <1>2, <1>5, <1>7, <1>8, <1>9 DEF RingInv, IdFresh
<1>14. SlotKinds'
  <2>1. \A k \in 0..(Answered - 1) : Window'[k].kind = "response"
    BY <1>1, <1>3, <1>7 DEF RingInv, SlotKinds
  <2>2. \A k \in Answered..(Sent - 1) : k = Answered \/ Window'[k].kind = "request"
    BY <1>1, <1>2, <1>3, <1>7 DEF RingInv, SlotKinds
  <2> QED
    BY <1>2, <1>5, <1>7, <2>1, <2>2 DEF SlotKinds, m
<1>15. UnreadDiffer'
  <2>1. \A k \in Taken..(Sent - 1) : Window'[k] = Window[k]
    BY <1>1, <1>3, <1>7
  <2>2. \A k \in Taken..(Sent - 1) : \A j \in (k + 1)..(Sent - 1) : j \in Taken..(Sent - 1)
    BY <1>1
  <2> QED
    BY <1>2, <1>5, <2>1, <2>2 DEF RingInv, UnreadDiffer
<1>16. PendingCounted' /\ ConsumerSafe'
  BY <1>2, <1>5 DEF RingInv, PendingCounted, ConsumerSafe
<1> QED
  BY <1>3, <1>4, <1>5, <1>7, <1>10, <1>11, <1>12, <1>13, <1>14, <1>15, <1>16 DEF RingInv

\* The response is published; its request is no longer pending.
LEMMA PushResponseKeeps ==
    ASSUME RingInv, PushResponse
    PROVE  /\ RingInv'
           /\ writing \in pending /\ Window[Answered].id = writing
           /\ Answered < Taken /\ Answered' = Answered + 1
           /\ UNCHANGED <<Taken, Sent, Window>>
<1> USE DEF frontVars, senderVars, pvmVars
<1>0. TypeOK /\ RingOrder
  BY DEF RingInv
<1>1. /\ RING_SIZE \in Nat /\ Answered \in Nat /\ Taken \in Nat /\ Sent \in Nat
      /\ Answered <= Taken /\ Taken <= Sent /\ Sent <= RING_SIZE
      /\ IDX_MOD \in Nat /\ RING_SIZE < IDX_MOD
  BY <1>0, Positions
<1>2. /\ writer = "push" /\ writer' = "event"
      /\ rsp_prod_pvt' = Next1(rsp_prod_pvt) /\ rsp_prod' = Next1(rsp_prod_pvt)
      /\ pending' = pending \ {writing}
      /\ UNCHANGED <<ring, req_prod, req_prod_pvt, rsp_cons, req_cons,
                     request_lock, sender, request, last_id, writing,
                     consumer, delivered>>
  BY DEF PushResponse
<1>3. /\ writing \in pending
      /\ Window[Answered] = [kind |-> "response", id |-> writing]
  BY <1>2 DEF RingInv, SlotKinds
<1>4. Answered < Taken
  BY <1>3, PendingLeavesRoom
<1>5. Answered' = Answered + 1 /\ UNCHANGED <<Taken, Sent, Window>>
  <2>1. Answered < IDX_MOD - 1 /\ rsp_prod_pvt \in Indices /\ rsp_cons \in Indices
    BY <1>0, <1>1, <1>4 DEF TypeOK
  <2>2. Answered' = Answered + 1
    BY <1>2, <2>1, DistAhead DEF Answered
  <2> QED
    BY <1>2, <2>2 DEF Taken, Sent, Window
<1>6. TypeOK'
  <2>1. Next1(rsp_prod_pvt) \in Indices
    BY <1>0, Next1Is DEF TypeOK
  <2> QED
    BY <1>0, <1>2, <2>1 DEF TypeOK, PushResponse
<1>7. RingOrder'
  <2>1. Answered' <= Taken' /\ Taken' <= Sent' /\ Sent' <= RING_SIZE
    BY <1>1, <1>4, <1>5
  <2> QED
    BY <1>0, <1>2, <2>1 DEF RingOrder, Answered, Taken, Sent
<1>8. LockHeld' /\ SlotReserved' /\ IdsGiven' /\ IdFresh' /\ UnreadDiffer'
  BY <1>2, <1>5 DEF RingInv, LockHeld, SlotReserved, IdsGiven, IdFresh, UnreadDiffer
<1>9. SlotKinds'
  <2>1. \A k \in 0..(Answered' - 1) : k \in 0..(Answered - 1) \/ k = Answered
    BY <1>1, <1>5
  <2>2. \A k \in Answered'..(Sent' - 1) : k \in Answered..(Sent - 1) /\ k # Answered
    BY <1>1, <1>5
  <2> QED
    BY <1>2, <1>3, <1>5, <2>1, <2>2 DEF RingInv, SlotKinds
<1>10. PendingCounted'
  <2>1. Cardinality(pending \ {writing}) = Cardinality(pending) - 1
    BY <1>3, PendingLeavesRoom, FS_RemoveElement
  <2> QED
    BY <1>1, <1>2, <1>5, <2>1 DEF RingInv, PendingCounted
<1>11. ConsumerSafe'
  BY <1>1, <1>2, <1>5 DEF RingInv, ConsumerSafe
<1> QED
  BY <1>3, <1>4, <1>5, <1>6, <1>7, <1>8, <1>9, <1>10, <1>11 DEF RingInv

\* The consumer takes the first response; every position moves by one.
LEMMA ConsumeKeeps ==
    ASSUME RingInv, ConsumeResponse
    PROVE  /\ RingInv'
           /\ Answered > 0 /\ delivered' = delivered \cup {Window[0].id}
           /\ Answered' = Answered - 1 /\ Taken' = Taken - 1 /\ Sent' = Sent - 1
           /\ \A k \in 0..(RING_SIZE - 2) : Window'[k] = Window[k + 1]
<1> USE DEF backVars, senderVars, insVars
<1>0. TypeOK /\ RingOrder
  BY DEF RingInv
<1>1. /\ RING_SIZE \in Nat /\ Answered \in Nat /\ Taken \in Nat /\ Sent \in Nat
      /\ Answered <= Taken /\ Taken <= Sent /\ Sent <= RING_SIZE
      /\ Window \in [0..(RING_SIZE - 1) -> Messages]
  BY <1>0, Positions
<1>2. /\ consumer = "got" /\ Answered > 0
      /\ UNCHANGED <<ring, req_prod, rsp_prod, req_prod_pvt, req_cons,
                     rsp_prod_pvt, request_lock, sender, request, last_id,
                     pending, writing, writer>>
  BY DEF ConsumeResponse, RingInv, ConsumerSafe
<1>3. /\ req_cons \in Indices /\ rsp_cons \in Indices /\ rsp_prod_pvt \in Indices
      /\ req_prod_pvt \in Indices /\ rsp_cons \in Nat
  BY <1>0, IndexRange DEF TypeOK, Indices
<1>4. Window[0] = ring[Slot(rsp_cons)]
  <2>1. 0 \in 0..(RING_SIZE - 1) /\ rsp_cons + 0 = rsp_cons
    BY <1>1, <1>2, <1>3
  <2> QED
    BY <2>1 DEF Window
<1>5. Window[0].kind = "response" /\ Window[0].id \in Ids /\ Window[0].id <= last_id
  <2>1. 0 \in 0..(Answered - 1) /\ 0 \in 0..(Sent - 1) /\ 0 \in 0..(RING_SIZE - 1)
    BY <1>1, <1>2
  <2>2. Window[0].kind = "response" /\ Window[0].id <= last_id
    BY <2>1 DEF RingInv, SlotKinds, IdsGiven
  <2>3. Window[0] \in Messages
    BY <1>1, <2>1
  <2> QED
    BY <2>2, <2>3 DEF Messages, Empty
<1>6. /\ delivered' = delivered \cup {Window[0].id}
      /\ rsp_cons' = Next1(rsp_cons) /\ consumer' = "check"
  BY <1>4, <1>5 DEF ConsumeResponse
<1>7. Answered' = Answered - 1 /\ Taken' = Taken - 1 /\ Sent' = Sent - 1
  <2>1. Answered > 0 /\ Taken > 0 /\ Sent > 0
    BY <1>1, <1>2
  <2> QED
    BY <1>2, <1>3, <1>6, <2>1, DistBehind DEF Answered, Taken, Sent
<1>8. \A k \in 0..(RING_SIZE - 2) : Window'[k] = Window[k + 1]
  <2> SUFFICES ASSUME NEW k \in 0..(RING_SIZE - 2)
               PROVE  Window'[k] = Window[k + 1]
    OBVIOUS
  <2>1. k \in Nat /\ k \in 0..(RING_SIZE - 1) /\ k + 1 \in 0..(RING_SIZE - 1)
    BY <1>1
  <2>2. Slot(Next1(rsp_cons) + k) = Slot(rsp_cons + (k + 1))
    BY <1>3, <2>1, SlotNext
  <2> QED
    BY <1>2, <1>6, <2>1, <2>2 DEF Window
<1>9. TypeOK'
  <2>1. Next1(rsp_cons) \in Indices
    BY <1>3, Next1Is
  <2>2. delivered' \subseteq Ids
    BY <1>0, <1>5, <1>6 DEF TypeOK
  <2> QED
    BY <1>0, <1>6, <2>1, <2>2 DEF TypeOK, ConsumeResponse
<1>10. RingOrder'
  <2>1. Answered' <= Taken' /\ Taken' <= Sent' /\ Sent' <= RING_SIZE
    BY <1>1, <1>7
  <2> QED
    BY <1>0, <1>2, <2>1 DEF RingOrder, Answered, Taken, Sent
<1>11. \A k \in 0..(Sent' - 1) :
          k \in 0..(RING_SIZE - 2) /\ k + 1 \in 0..(Sent - 1)
  BY <1>1, <1>7
<1>12. LockHeld'
  BY <1>2 DEF RingInv, LockHeld
<1>13. SlotReserved'
  <2> SUFFICES ASSUME NEW t \in Senders, sender[t] \in {"fill", "push"}
               PROVE  Sent' < RING_SIZE /\ Window'[Sent'] = Window[Sent]
    BY <1>2 DEF RingInv, SlotReserved
  <2>1. Sent < RING_SIZE
    BY DEF RingInv, SlotReserved
  <2>2. Sent - 1 \in 0..(RING_SIZE - 2) /\ (Sent - 1) + 1 = Sent
    BY <1>1, <1>2, <2>1
  <2> QED
    BY <1>1, <1>7, <1>8, <2>1, <2>2
<1>14. IdsGiven'
  BY <1>2, <1>5, <1>6, <1>8, <1>11 DEF RingInv, IdsGiven
<1>15. IdFresh'
  <2>1. 0 \in 0..(Sent - 1)
    BY <1>1, <1>2
  <2> QED
    BY <1>2, <1>6, <1>8, <1>11, <2>1 DEF RingInv, IdFresh
<1>16. SlotKinds'
  <2>1. \A k \in 0..(Answered' - 1) :
          k \in 0..(RING_SIZE - 2) /\ k + 1 \in 0..(Answered - 1)
    BY <1>1, <1>7
  <2>2. \A k \in Answered'..(Sent' - 1) :
          k \in 0..(RING_SIZE - 2) /\ k + 1 \in Answered..(Sent - 1)
          /\ (k + 1 = Answered => k = Answered')
    BY <1>1, <1>2, <1>7
  <2>3. writer = "push" => Window'[Answered'] = Window[Answered]
    <3>1. writer = "push" => Answered < Taken
      BY PendingLeavesRoom DEF RingInv, SlotKinds
    <3>2. Answered < Taken => Answered - 1 \in 0..(RING_SIZE - 2)
                              /\ (Answered - 1) + 1 = Answered
      BY <1>1, <1>2
    <3> QED
      BY <1>7, <1>8, <3>1, <3>2
  <2> QED
    BY <1>2, <1>8, <2>1, <2>2, <2>3 DEF RingInv, SlotKinds
<1>17. UnreadDiffer'
  <2> SUFFICES ASSUME NEW k \in Taken'..(Sent' - 1)
               PROVE  /\ Window'[k].id \notin pending
                      /\ \A j \in (k + 1)..(Sent' - 1) : Window'[j].id # Window'[k].id
    BY <1>2 DEF UnreadDiffer
  <2>1. k \in 0..(RING_SIZE - 2) /\ k + 1 \in Taken..(Sent - 1)
    BY <1>1, <1>2, <1>7
  <2>2. \A j \in (k + 1)..(Sent' - 1) :
          j \in 0..(RING_SIZE - 2) /\ j + 1 \in ((k + 1) + 1)..(Sent - 1)
    BY <1>1, <1>7, <2>1
  <2> QED
    BY <1>8, <2>1, <2>2 DEF RingInv, UnreadDiffer
<1>18. PendingCounted' /\ ConsumerSafe'
  BY <1>1, <1>2, <1>6, <1>7 DEF RingInv, PendingCounted, ConsumerSafe
<1> QED
  BY <1>2, <1>6, <1>7, <1>8, <1>9, <1>10, <1>12, <1>13, <1>14, <1>15, <1>16, <1>17, <1>18 DEF RingInv

\* The empty ring satisfies the invariant.
LEMMA RingInvInit == Init => RingInv
<1> SUFFICES ASSUME Init
             PROVE  RingInv
  OBVIOUS
<1>1. 0 \in Indices /\ RING_SIZE \in Nat
  BY IndexRange DEF Indices
<1>2. TypeOK
  <2>1. /\ ring = [s \in 0..(RING_SIZE - 1) |-> Empty]
        /\ sender = [t \in Senders |-> "idle"]
        /\ WaitForRing = [t \in Senders |-> FALSE]
        /\ request = [t \in Senders |-> 0]
    BY DEF Init
  <2>2. Empty \in Messages /\ 0 \in 0..MaxRequests
    BY RingAssumption DEF Messages
  <2>3. /\ ring \in [0..(RING_SIZE - 1) -> Messages]
        /\ sender \in [Senders -> {"idle", "slot", "fill", "push", "event", "drop"}]
        /\ WaitForRing \in [Senders -> BOOLEAN]
        /\ request \in [Senders -> 0..MaxRequests]
    BY <2>1, <2>2
  <2> QED
    BY <1>1, <2>2, <2>3 DEF Init, TypeOK
<1>3. Answered = 0 /\ Taken = 0 /\ Sent = 0
  <2>1. Dist(0, 0) = 0
    BY <1>1, DistIs DEF Indices
  <2> QED
    BY <2>1 DEF Init, Answered, Taken, Sent
<1>4. RingOrder
  BY <1>1, <1>3 DEF Init, RingOrder, Answered, Taken, Sent
<1>5. \A t \in Senders : sender[t] = "idle"
  BY DEF Init
<1>6. LockHeld /\ SlotReserved /\ IdFresh
  BY <1>5 DEF LockHeld, SlotReserved, IdFresh
<1>7. IdsGiven /\ SlotKinds /\ UnreadDiffer /\ ConsumerSafe
  BY <1>3 DEF Init, IdsGiven, SlotKinds, UnreadDiffer, ConsumerSafe
<1>8. PendingCounted
  BY <1>3, FS_EmptySet DEF Init, PendingCounted
<1> QED
  BY <1>2, <1>4, <1>6, <1>7, <1>8 DEF RingInv

\* The steps that touch neither the ring nor the senders keep the invariant.
LEMMA QuietKeeps ==
    ASSUME RingInv,
           \/ xenevent_semaphore_down \/ xe_comms_event_callback
           \/ mw_xen_irq_event_handler \/ mw_xen_release_ins
           \/ NotifyPvm \/ mw_xen_response_available \/ ConsumerDown
    PROVE  RingInv'
<1> USE DEF frontVars, backVars, senderVars, insVars, pvmVars
<1>0. TypeOK /\ ConsumerSafe /\ RingOrder
  BY DEF RingInv
<1>1. ASSUME \/ xenevent_semaphore_down \/ xe_comms_event_callback
             \/ mw_xen_irq_event_handler \/ mw_xen_release_ins \/ ConsumerDown
      PROVE  RingInv'
  <2>1. TypeOK'
    <3>1. CASE xenevent_semaphore_down
      BY <1>0, <3>1 DEF TypeOK, xenevent_semaphore_down
    <3>2. CASE xe_comms_event_callback
      <4>1. messages_available' \in Nat
        BY <1>0, <3>2 DEF TypeOK, xe_comms_event_callback
      <4> QED
        BY <1>0, <3>2, <4>1, Zenon DEF TypeOK, xe_comms_event_callback
    <3>3. CASE mw_xen_irq_event_handler
      <4>1. event_channel_sem' \in Nat
        BY <1>0, <3>3 DEF TypeOK, mw_xen_irq_event_handler
      <4> QED
        BY <1>0, <3>3, <4>1, Zenon DEF TypeOK, mw_xen_irq_event_handler
    <3>4. CASE mw_xen_release_ins
      BY <1>0, <3>4 DEF TypeOK, mw_xen_release_ins
    <3>5. CASE ConsumerDown
      BY <1>0, <3>5 DEF TypeOK, ConsumerDown
    <3> QED
      BY <1>1, <3>1, <3>2, <3>3, <3>4, <3>5
  <2>2. /\ UNCHANGED ringPlaces /\ UNCHANGED senderVars
        /\ UNCHANGED <<pending, delivered, writing, writer>>
        /\ consumer' = consumer \/ consumer' = "check"
    BY <1>1 DEF ringPlaces, xenevent_semaphore_down, xe_comms_event_callback,
       mw_xen_irq_event_handler, mw_xen_release_ins, ConsumerDown
  <2> QED
    BY <1>0, <2>1, <2>2, QuietFrame DEF ConsumerSafe
<1>2. CASE NotifyPvm
  <2>1. TypeOK'
    BY <1>0, <1>2, RingAssumption DEF TypeOK, NotifyPvm
  <2>2. /\ UNCHANGED ringPlaces /\ UNCHANGED senderVars
        /\ UNCHANGED <<pending, delivered, consumer>>
        /\ writer = "event" /\ writer' = "idle"
    BY <1>2 DEF NotifyPvm, ringPlaces
  <2>3. UNCHANGED <<Answered, Taken, Sent, Window>> /\ RingOrder'
    BY <1>0, <2>2, PlacesFrame, OrderFrame
  <2> QED
    BY <2>1, <2>2, <2>3 DEF RingInv, LockHeld, SlotReserved, IdsGiven, IdFresh,
       SlotKinds, UnreadDiffer, PendingCounted, ConsumerSafe
<1>3. CASE mw_xen_response_available
  <2>1. TypeOK'
    BY <1>0, <1>3 DEF TypeOK, mw_xen_response_available
  <2>2. /\ UNCHANGED ringPlaces /\ UNCHANGED senderVars
        /\ UNCHANGED <<pending, delivered, writing, writer>>
    BY <1>3 DEF ringPlaces, mw_xen_response_available
  <2>3. consumer' = "down" \/ (consumer' = "got" /\ Answered > 0)
    BY <1>0, <1>3 DEF mw_xen_response_available, RING_HAS_UNCONSUMED_RESPONSES,
       RingOrder, Answered
  <2> QED
    BY <2>1, <2>2, <2>3, QuietFrame
<1> QED
  BY <1>1, <1>2, <1>3

\* Every step keeps the invariant.
LEMMA RingInvNext == RingInv /\ [Next]_vars => RingInv'
<1> SUFFICES ASSUME RingInv, [Next]_vars
             PROVE  RingInv'
  OBVIOUS
<1>1. CASE UNCHANGED vars
  <2>1. TypeOK'
    BY <1>1 DEF RingInv, TypeOK, vars, frontVars, backVars, senderVars, insVars,
       pvmVars
  <2> QED
    BY <1>1, <2>1, QuietFrame
    DEF vars, ringPlaces, frontVars, backVars, senderVars, insVars, pvmVars,
        RingInv, ConsumerSafe
<1>2. ASSUME NEW t \in Senders, SendStep(t)
      PROVE  RingInv'
  BY <1>2, LockRequestsKeeps, GetSlotKeeps, FillSlotKeeps, PushRequestKeeps,
     ReleaseKeeps DEF SendStep
<1>3. CASE ReadStep \/ xe_comms_event_callback
  BY <1>3, ReadItemKeeps, QuietKeeps DEF ReadStep
<1>4. CASE WriteStep
  BY <1>4, WriteItemKeeps, PushResponseKeeps, QuietKeeps DEF WriteStep
<1>5. CASE ConsumeStep \/ mw_xen_irq_event_handler
  BY <1>5, ConsumeKeeps, QuietKeeps DEF ConsumeStep
<1>6. CASE mw_xen_release_ins
  BY <1>6, QuietKeeps
<1> QED
  BY <1>1, <1>2, <1>3, <1>4, <1>5, <1>6 DEF Next

\* The invariant holds in every state that the ring reaches.
LEMMA RingInvAlways == Spec => []RingInv
  BY RingInvInit, RingInvNext, PTL DEF Spec

\* Each variable keeps to its type, whatever the size of the ring, the range of
\* its indices and the number of senders: in particular, what the INS reads as
\* a request and the PVM as a response is one.
THEOREM RingTypeCorrect == Spec => []TypeOK
<1>1. RingInv => TypeOK
  BY DEF RingInv
<1> QED
  BY <1>1, RingInvAlways, PTL

\* The indices keep their order around the ring and never span more than one
\* ring, through every wrap of the unsigned indices.
THEOREM RingOrderAlways == Spec => []RingOrder
<1>1. RingInv => RingOrder
  BY DEF RingInv
<1> QED
  BY <1>1, RingInvAlways, PTL

\* From req_cons and from rsp_cons, the ring shows what the window shows.
LEMMA UnreadInWindow ==
    ASSUME RingInv
    PROVE  /\ Dist(req_prod, req_cons) = Sent - Taken
           /\ Dist(rsp_prod, rsp_cons) = Answered
           /\ Dist(req_cons, rsp_prod_pvt) = Taken - Answered
           /\ \A k \in Nat : k < Sent - Taken =>
                 ring[Slot(req_cons + k)] = Window[Taken + k]
           /\ \A k \in Nat : k < Answered =>
                 ring[Slot(rsp_cons + k)] = Window[k]
<1>1. /\ RING_SIZE \in Nat /\ Answered \in Nat /\ Taken \in Nat /\ Sent \in Nat
      /\ Answered <= Taken /\ Taken <= Sent /\ Sent <= RING_SIZE
  BY Positions DEF RingInv
<1>2. /\ req_cons \in Indices /\ rsp_cons \in Indices /\ rsp_prod_pvt \in Indices
      /\ req_prod_pvt \in Indices
      /\ rsp_prod = rsp_prod_pvt /\ req_prod = req_prod_pvt
  BY DEF RingInv, TypeOK, RingOrder
<1>3. /\ Dist(req_prod, req_cons) = Sent - Taken
      /\ Dist(rsp_prod, rsp_cons) = Answered
      /\ Dist(req_cons, rsp_prod_pvt) = Taken - Answered
  BY <1>1, <1>2, DistBetween DEF Sent, Taken, Answered
<1>4. ASSUME NEW k \in Nat, k < Sent - Taken
      PROVE  ring[Slot(req_cons + k)] = Window[Taken + k]
  <2>1. Taken + k \in 0..(RING_SIZE - 1)
    BY <1>1, <1>4
  <2>2. Slot(rsp_cons + (Taken + k)) = Slot(req_cons + k)
    BY <1>2, SlotAhead DEF Taken
  <2> QED
    BY <2>1, <2>2 DEF Window
<1>5. ASSUME NEW k \in Nat, k < Answered
      PROVE  ring[Slot(rsp_cons + k)] = Window[k]
  <2>1. k \in 0..(RING_SIZE - 1)
    BY <1>1, <1>5
  <2> QED
    BY <2>1 DEF Window
<1> QED
  BY <1>3, <1>4, <1>5

\* A response never lands on an unread request nor a request on an unread
\* response, although the two directions share the slots, the two sides never
\* lock each other out and the response side does not check for room.
THEOREM UnreadAlwaysIntact == Spec => []UnreadIntact
<1>1. ASSUME RingInv PROVE UnreadIntact
  <2>1. /\ RING_SIZE \in Nat /\ Answered \in Nat /\ Taken \in Nat /\ Sent \in Nat
        /\ Answered <= Taken /\ Taken <= Sent /\ Sent <= RING_SIZE
    BY <1>1, Positions DEF RingInv
  <2>2. writer = "push" => Answered < Taken
    BY <1>1, PendingLeavesRoom DEF RingInv, SlotKinds
  <2>3. \A k \in Nat : k < Sent - Taken => Window[Taken + k].kind = "request"
    <3> SUFFICES ASSUME NEW k \in Nat, k < Sent - Taken
                 PROVE  Window[Taken + k].kind = "request"
      OBVIOUS
    <3>1. /\ Taken + k \in Answered..(Sent - 1)
          /\ writer = "push" => Taken + k # Answered
      BY <2>1, <2>2
    <3> QED
      BY <1>1, <3>1 DEF RingInv, SlotKinds
  <2>4. \A k \in Nat : k < Answered => Window[k].kind = "response"
    BY <1>1, <2>1 DEF RingInv, SlotKinds
  <2> QED
    BY <1>1, <2>1, <2>3, <2>4, UnreadInWindow DEF UnreadIntact, RingInv, ConsumerSafe
<1> QED
  BY <1>1, RingInvAlways, PTL

\* The assertion in xe_comms_write_item never fails: when a worker is about to
\* write a response, the slot it takes holds a request that has been read.
THEOREM WritesOverReadRequest == Spec => []OverwritesReadRequest
<1>1. ASSUME RingInv PROVE OverwritesReadRequest
  <2> SUFFICES ASSUME writer = "idle", pending # {}
               PROVE  /\ Dist(req_cons, rsp_prod_pvt) > 0
                      /\ ring[Slot(rsp_prod_pvt)].kind = "request"
    BY DEF OverwritesReadRequest
  <2>1. /\ RING_SIZE \in Nat /\ Answered \in Nat /\ Taken \in Nat /\ Sent \in Nat
        /\ Answered < Taken /\ Taken <= Sent /\ Sent <= RING_SIZE
    BY <1>1, Positions, PendingLeavesRoom DEF RingInv
  <2>2. Window[Answered].kind = "request"
    <3>1. Answered \in Answered..(Sent - 1)
      BY <2>1
    <3> QED
      BY <1>1, <3>1 DEF RingInv, SlotKinds
  <2>3. ring[Slot(rsp_prod_pvt)] = Window[Answered]
    <3>1. rsp_prod_pvt \in Indices /\ rsp_cons \in Indices /\ rsp_prod_pvt \in Nat
      BY <1>1, IndexRange DEF RingInv, TypeOK, Indices
    <3>2. Slot(rsp_cons + (Answered + 0)) = Slot(rsp_prod_pvt + 0)
      BY <3>1, SlotAhead DEF Answered
    <3>3. Answered \in 0..(RING_SIZE - 1)
      BY <2>1
    <3> QED
      BY <2>1, <3>1, <3>2, <3>3 DEF Window
  <2> QED
    BY <1>1, <2>1, <2>2, <2>3, UnreadInWindow
<1> QED
  BY <1>1, RingInvAlways, PTL
-----------------------------------------------------------------------------
(* The ring implements the channel of RequestChannel.                      *)

Requests  == UnreadIds(req_cons, req_prod)
Responses == UnreadIds(rsp_cons, rsp_prod)

\* The two sequences of the channel, read off the window.
Shown ==
    /\ Requests \in Seq(Int) /\ Len(Requests) = Sent - Taken
    /\ \A n \in 1..(Sent - Taken) : Requests[n] = Window[Taken + (n - 1)].id
    /\ Responses \in Seq(Int) /\ Len(Responses) = Answered
    /\ \A n \in 1..Answered : Responses[n] = Window[n - 1].id

\* The invariant makes them what the channel's users see.
LEMMA SequencesShown == RingInv => Shown
<1> SUFFICES ASSUME RingInv
             PROVE  Shown
  OBVIOUS
<1>1. /\ Dist(req_prod, req_cons) = Sent - Taken
      /\ Dist(rsp_prod, rsp_cons) = Answered
  BY UnreadInWindow
<1>2. /\ Answered \in Nat /\ Taken \in Nat /\ Sent \in Nat /\ RING_SIZE \in Nat
      /\ Answered <= Taken /\ Taken <= Sent /\ Sent <= RING_SIZE
      /\ req_cons \in Nat /\ rsp_cons \in Nat
      /\ \A k \in 0..(RING_SIZE - 1) : Window[k].id \in Int
  <2>1. \A m \in Messages : m.id \in Int
    BY RingAssumption DEF Messages, Empty, Ids
  <2> QED
    BY <2>1, Positions, IndexRange DEF RingInv, TypeOK, Indices
<1>3. ASSUME NEW n \in 1..(Sent - Taken)
      PROVE  /\ ring[Slot(req_cons + n - 1)].id = Window[Taken + (n - 1)].id
             /\ Window[Taken + (n - 1)].id \in Int
  <2>1. /\ n - 1 \in Nat /\ n - 1 < Sent - Taken
        /\ req_cons + n - 1 = req_cons + (n - 1)
        /\ Taken + (n - 1) \in 0..(RING_SIZE - 1)
    BY <1>2
  <2> QED
    BY <1>2, <2>1, UnreadInWindow
<1>4. ASSUME NEW n \in 1..Answered
      PROVE  /\ ring[Slot(rsp_cons + n - 1)].id = Window[n - 1].id
             /\ Window[n - 1].id \in Int
  <2>1. /\ n - 1 \in Nat /\ n - 1 < Answered
        /\ rsp_cons + n - 1 = rsp_cons + (n - 1)
        /\ n - 1 \in 0..(RING_SIZE - 1)
    BY <1>2
  <2> QED
    BY <1>2, <2>1, UnreadInWindow
<1>5. Requests = [n \in 1..(Sent - Taken) |-> Window[Taken + (n - 1)].id]
  BY <1>1, <1>3 DEF Requests, UnreadIds
<1>6. Responses = [n \in 1..Answered |-> Window[n - 1].id]
  BY <1>1, <1>4 DEF Responses, UnreadIds
<1>7. Sent - Taken \in Nat
  BY <1>2
<1>8. Requests \in Seq(Int) /\ Len(Requests) = Sent - Taken
  BY <1>3, <1>5, <1>7
<1>9. Responses \in Seq(Int) /\ Len(Responses) = Answered
  BY <1>2, <1>4, <1>6
<1> QED
  BY <1>5, <1>6, <1>8, <1>9 DEF Shown

\* The same, in the next state.
LEMMA SequencesShownNext == RingInv' => Shown'
  BY SequencesShown, PTL

\* A sequence that grows by one element at its end.
LEMMA SeqGrows ==
    ASSUME NEW s \in Seq(Int), NEW u \in Seq(Int), Len(u) = Len(s) + 1,
           \A i \in 1..Len(s) : u[i] = s[i]
    PROVE  u = Append(s, u[Len(s) + 1])
<1> DEFINE x == u[Len(s) + 1]
<1>1. x \in Int
  BY ElementOfSeq
<1>2. /\ Append(s, x) \in Seq(Int) /\ Len(Append(s, x)) = Len(s) + 1
      /\ \A i \in 1..Len(s) : Append(s, x)[i] = s[i]
      /\ Append(s, x)[Len(s) + 1] = x
  BY <1>1, AppendProperties
<1>3. \A i \in 1..Len(u) : u[i] = Append(s, x)[i]
  BY <1>2
<1> QED
  BY <1>2, <1>3, SeqEqual

\* A sequence that loses its first element.
LEMMA SeqShrinks ==
    ASSUME NEW s \in Seq(Int), NEW u \in Seq(Int), Len(s) = Len(u) + 1,
           \A i \in 1..Len(u) : u[i] = s[i + 1]
    PROVE  u = Tail(s) /\ s # << >> /\ Head(s) = s[1]
<1>1. s # << >>
  OBVIOUS
<1>2. Tail(s) \in Seq(Int) /\ Len(Tail(s)) = Len(u)
      /\ \A i \in 1..Len(Tail(s)) : Tail(s)[i] = s[i + 1]
  BY <1>1, HeadTailProperties
<1>3. u = Tail(s)
  BY <1>2, SeqEqual
<1> QED
  BY <1>1, <1>3

\* A sequence that stays the same.
LEMMA SeqStays ==
    ASSUME NEW s \in Seq(Int), NEW u \in Seq(Int), Len(s) = Len(u),
           \A i \in 1..Len(u) : u[i] = s[i]
    PROVE  u = s
  BY SeqEqual

\* What the invariant gives in both states of a step.
LEMMA ShownBoth ==
    ASSUME RingInv, RingInv'
    PROVE  /\ Shown /\ Shown' /\ RING_SIZE \in Nat
           /\ Answered \in Nat /\ Taken \in Nat /\ Sent \in Nat
           /\ Answered <= Taken /\ Taken <= Sent /\ Sent <= RING_SIZE
  BY SequencesShown, SequencesShownNext, Positions DEF RingInv

\* The unread requests stay the same if they and their number do.
LEMMA RequestsStay ==
    ASSUME RingInv, RingInv', Sent' - Taken' = Sent - Taken,
           \A k \in 0..(Sent - Taken - 1) :
              Window'[Taken' + k].id = Window[Taken + k].id
    PROVE  Requests' = Requests
<1>1. Shown /\ Shown' /\ Sent \in Nat /\ Taken \in Nat
  BY ShownBoth
<1>2. ASSUME NEW i \in 1..(Sent - Taken)
      PROVE  Requests'[i] = Requests[i]
  <2>1. i - 1 \in 0..(Sent - Taken - 1)
    BY <1>1
  <2> QED
    BY <1>1, <2>1 DEF Shown
<1> QED
  BY <1>1, <1>2, SeqStays DEF Shown

\* So do the unread responses.
LEMMA ResponsesStay ==
    ASSUME RingInv, RingInv', Answered' = Answered,
           \A k \in 0..(Answered - 1) : Window'[k].id = Window[k].id
    PROVE  Responses' = Responses
<1>1. Shown /\ Shown' /\ Answered \in Nat
  BY ShownBoth
<1>2. ASSUME NEW i \in 1..Answered
      PROVE  Responses'[i] = Responses[i]
  <2>1. i - 1 \in 0..(Answered - 1)
    BY <1>1
  <2> QED
    BY <1>1, <2>1 DEF Shown
<1> QED
  BY <1>1, <1>2, SeqStays DEF Shown

\* Publishing a request sends it.
LEMMA PushRequestSends ==
    ASSUME RingInv, NEW t \in Senders, PushRequest(t), in_use
    PROVE  \E id \in Ids : Channel!Send(id)
<1> DEFINE id == request[t]
<1>1. RingInv' /\ Sent' = Sent + 1 /\ UNCHANGED <<Answered, Taken, Window>>
  BY PushRequestKeeps
<1>2. /\ Shown /\ Shown' /\ Answered \in Nat /\ Taken \in Nat /\ Sent \in Nat
      /\ Answered <= Taken /\ Taken <= Sent
  BY <1>1, ShownBoth
<1>3. sender[t] = "push" /\ UNCHANGED <<pending, delivered>>
  BY DEF PushRequest, insVars, pvmVars
<1>4. /\ id = last_id /\ last_id >= 1 /\ id \notin pending \cup delivered
      /\ Window[Sent].id = id
      /\ \A k \in 0..(Sent - 1) : Window[k].id # id
  <2>1. /\ id = last_id /\ last_id >= 1 /\ id \notin pending \cup delivered
        /\ \A k \in 0..(Sent - 1) : Window[k].id # id
    BY <1>3 DEF RingInv, IdFresh
  <2>2. Window[Sent] = [kind |-> "request", id |-> request[t]]
    BY <1>3 DEF RingInv, SlotReserved
  <2> QED
    BY <2>1, <2>2
<1>5. id \in Ids
  BY <1>4, RingAssumption DEF RingInv, TypeOK, Ids
<1> HIDE DEF id
<1>6. Requests' = Append(Requests, id)
  <2>1. Len(Requests') = Len(Requests) + 1 /\ Len(Requests) = Sent - Taken
    BY <1>1, <1>2 DEF Shown
  <2>2. ASSUME NEW i \in 1..(Sent - Taken)
        PROVE  Requests'[i] = Requests[i]
    <3>1. i \in 1..(Sent' - Taken')
      BY <1>1, <1>2
    <3> QED
      BY <1>1, <1>2, <3>1 DEF Shown
  <2>3. Requests'[Sent - Taken + 1] = id
    <3>1. /\ Sent - Taken + 1 \in 1..(Sent' - Taken')
          /\ Taken' + ((Sent - Taken + 1) - 1) = Sent
      BY <1>1, <1>2
    <3> QED
      BY <1>1, <1>2, <1>4, <3>1 DEF Shown
  <2> QED
    BY <1>2, <2>1, <2>2, <2>3, SeqGrows DEF Shown
<1>7. Responses' = Responses
  BY <1>1, ResponsesStay
<1>8. id \notin Channel!Elements(Requests) \cup Channel!Elements(Responses)
  <2>1. \A n \in 1..(Sent - Taken) : Requests[n] # id
    <3> SUFFICES ASSUME NEW n \in 1..(Sent - Taken)
                 PROVE  Requests[n] # id
      OBVIOUS
    <3>1. Taken + (n - 1) \in 0..(Sent - 1)
      BY <1>2
    <3> QED
      BY <1>2, <1>4, <3>1 DEF Shown
  <2>2. \A n \in 1..Answered : Responses[n] # id
    <3> SUFFICES ASSUME NEW n \in 1..Answered
                 PROVE  Responses[n] # id
      OBVIOUS
    <3>1. n - 1 \in 0..(Sent - 1)
      BY <1>2
    <3> QED
      BY <1>2, <1>4, <3>1 DEF Shown
  <2>3. DOMAIN Requests = 1..(Sent - Taken) /\ DOMAIN Responses = 1..Answered
    BY <1>2 DEF Shown
  <2> QED
    BY <2>1, <2>2, <2>3 DEF Channel!Elements
<1> QED
  BY <1>3, <1>4, <1>5, <1>6, <1>7, <1>8 DEF Channel!Send, Requests, Responses

\* Reading a request takes the oldest one.
LEMMA ReadItemTakes ==
    ASSUME RingInv, xe_comms_read_item
    PROVE  Channel!Take \/ UNCHANGED Channel!vars
<1>1. /\ RingInv' /\ UNCHANGED <<Answered, Sent, Window>> /\ delivered' = delivered
      /\ \/ /\ Taken < Sent /\ Taken' = Taken + 1
            /\ pending' = pending \cup {Window[Taken].id}
         \/ UNCHANGED <<Taken, pending>>
  BY ReadItemKeeps DEF xe_comms_read_item, pvmVars
<1>2. /\ Shown /\ Shown' /\ Answered \in Nat /\ Taken \in Nat /\ Sent \in Nat
      /\ Answered <= Taken /\ Taken <= Sent
  BY <1>1, ShownBoth
<1>3. Responses' = Responses
  BY <1>1, ResponsesStay
<1>4. CASE /\ Taken < Sent /\ Taken' = Taken + 1
           /\ pending' = pending \cup {Window[Taken].id}
  <2>1. Len(Requests) = Len(Requests') + 1 /\ Len(Requests') = Sent - Taken - 1
    BY <1>1, <1>2, <1>4 DEF Shown
  <2>2. ASSUME NEW i \in 1..(Sent - Taken - 1)
        PROVE  Requests'[i] = Requests[i + 1]
    <3>1. /\ i \in 1..(Sent' - Taken') /\ i + 1 \in 1..(Sent - Taken)
          /\ Taken' + (i - 1) = Taken + ((i + 1) - 1)
      BY <1>1, <1>2, <1>4
    <3> QED
      BY <1>1, <1>2, <3>1 DEF Shown
  <2>3. Requests' = Tail(Requests) /\ Requests # << >> /\ Head(Requests) = Requests[1]
    BY <1>2, <2>1, <2>2, SeqShrinks DEF Shown
  <2>4. Requests[1] = Window[Taken].id
    <3>1. 1 \in 1..(Sent - Taken) /\ Taken + (1 - 1) = Taken
      BY <1>2, <1>4
    <3> QED
      BY <1>2, <3>1 DEF Shown
  <2> QED
    BY <1>1, <1>3, <1>4, <2>3, <2>4 DEF Channel!Take, Requests, Responses
<1>5. CASE UNCHANGED <<Taken, pending>>
  <2>1. Requests' = Requests
    BY <1>1, <1>5, RequestsStay
  <2> QED
    BY <1>1, <1>3, <1>5, <2>1 DEF Channel!vars, Requests, Responses
<1> QED
  BY <1>1, <1>4, <1>5

\* Publishing a response answers its request.
LEMMA PushResponseAnswers ==
    ASSUME RingInv, PushResponse
    PROVE  \E id \in Ids : Channel!Answer(id)
<1>1. /\ RingInv' /\ writing \in pending /\ Window[Answered].id = writing
      /\ Answered' = Answered + 1 /\ UNCHANGED <<Taken, Sent, Window>>
      /\ pending' = pending \ {writing} /\ delivered' = delivered
  BY PushResponseKeeps DEF PushResponse, pvmVars
<1>2. Shown /\ Shown' /\ Answered \in Nat
  BY <1>1, ShownBoth
<1>3. Requests' = Requests
  BY <1>1, RequestsStay
<1>4. Responses' = Append(Responses, writing)
  <2>1. Len(Responses') = Len(Responses) + 1 /\ Len(Responses) = Answered
    BY <1>1, <1>2 DEF Shown
  <2>2. ASSUME NEW i \in 1..Answered
        PROVE  Responses'[i] = Responses[i]
    <3>1. i \in 1..Answered'
      BY <1>1, <1>2
    <3> QED
      BY <1>1, <1>2, <3>1 DEF Shown
  <2>3. Responses'[Answered + 1] = writing
    <3>1. Answered + 1 \in 1..Answered' /\ (Answered + 1) - 1 = Answered
      BY <1>1, <1>2
    <3> QED
      BY <1>1, <1>2, <3>1 DEF Shown
  <2> QED
    BY <1>2, <2>1, <2>2, <2>3, SeqGrows DEF Shown
<1>5. writing \in Ids
  BY <1>1 DEF RingInv, TypeOK
<1> QED
  BY <1>1, <1>3, <1>4, <1>5 DEF Channel!Answer, Requests, Responses

\* Consuming a response delivers the oldest one.
LEMMA ConsumeDelivers ==
    ASSUME RingInv, ConsumeResponse
    PROVE  Channel!Deliver
<1>1. /\ RingInv' /\ Answered > 0 /\ delivered' = delivered \cup {Window[0].id}
      /\ Answered' = Answered - 1 /\ Taken' = Taken - 1 /\ Sent' = Sent - 1
      /\ \A k \in 0..(RING_SIZE - 2) : Window'[k] = Window[k + 1]
      /\ pending' = pending
  BY ConsumeKeeps DEF ConsumeResponse, insVars
<1>2. /\ Shown /\ Shown' /\ Answered \in Nat /\ Taken \in Nat /\ Sent \in Nat
      /\ Answered <= Taken /\ Taken <= Sent /\ Sent <= RING_SIZE /\ RING_SIZE \in Nat
  BY <1>1, ShownBoth
<1>3. Requests' = Requests
  <2>1. ASSUME NEW k \in 0..(Sent - Taken - 1)
        PROVE  Window'[Taken' + k].id = Window[Taken + k].id
    <3>1. Taken' + k \in 0..(RING_SIZE - 2) /\ (Taken' + k) + 1 = Taken + k
      BY <1>1, <1>2
    <3> QED
      BY <1>1, <3>1
  <2>2. Sent' - Taken' = Sent - Taken
    BY <1>1, <1>2
  <2> QED
    BY <1>1, <2>1, <2>2, RequestsStay
<1>4. Responses' = Tail(Responses) /\ Responses # << >> /\ Head(Responses) = Responses[1]
  <2>1. Len(Responses) = Len(Responses') + 1 /\ Len(Responses') = Answered - 1
    BY <1>1, <1>2 DEF Shown
  <2>2. ASSUME NEW i \in 1..(Answered - 1)
        PROVE  Responses'[i] = Responses[i + 1]
    <3>1. /\ i \in 1..Answered' /\ i + 1 \in 1..Answered
          /\ i - 1 \in 0..(RING_SIZE - 2) /\ (i - 1) + 1 = (i + 1) - 1
      BY <1>1, <1>2
    <3>2. Responses'[i] = Window'[i - 1].id /\ Responses[i + 1] = Window[(i + 1) - 1].id
      BY <1>2, <3>1 DEF Shown
    <3>3. Window'[i - 1] = Window[(i - 1) + 1]
      BY <1>1, <3>1
    <3> QED
      BY <3>1, <3>2, <3>3
  <2> QED
    BY <1>2, <2>1, <2>2, SeqShrinks DEF Shown
<1>5. Responses[1] = Window[0].id
  <2>1. 1 \in 1..Answered /\ 1 - 1 = 0
    BY <1>1, <1>2
  <2> QED
    BY <1>2, <2>1 DEF Shown
<1> QED
  BY <1>1, <1>3, <1>4, <1>5 DEF Channel!Deliver, Requests, Responses

\* No step of a sender but the publication of its request is visible.
LEMMA SendStepImplements ==
    ASSUME RingInv, NEW t \in Senders, SendStep(t)
    PROVE  [Channel!Next]_Channel!vars
<1>1. CASE LockRequests(t) \/ mw_xen_get_next_request_slot(t) \/ ReleaseRequest(t)
  <2>1. UNCHANGED <<ring, req_prod, rsp_prod, req_cons, rsp_cons, pending, delivered>>
    BY <1>1 DEF LockRequests, mw_xen_get_next_request_slot, ReleaseRequest,
       frontVars, backVars, insVars, pvmVars
  <2> QED
    BY <2>1 DEF Channel!vars, UnreadIds
<1>2. CASE FillSlot(t)
  <2>1. /\ RingInv' /\ UNCHANGED <<Answered, Taken, Sent>>
        /\ \A k \in 0..(Sent - 1) : Window'[k] = Window[k]
        /\ UNCHANGED <<pending, delivered>>
    BY <1>2, FillSlotKeeps DEF FillSlot, insVars, pvmVars
  <2>2. /\ Answered \in Nat /\ Taken \in Nat /\ Sent \in Nat
        /\ Answered <= Taken /\ Taken <= Sent
    BY <2>1, ShownBoth
  <2>3. Requests' = Requests
    <3>1. \A k \in 0..(Sent - Taken - 1) : Taken + k \in 0..(Sent - 1)
      BY <2>2
    <3> QED
      BY <2>1, <3>1, RequestsStay
  <2>4. Responses' = Responses
    <3>1. \A k \in 0..(Answered - 1) : k \in 0..(Sent - 1)
      BY <2>2
    <3> QED
      BY <2>1, <3>1, ResponsesStay
  <2> QED
    BY <2>1, <2>3, <2>4 DEF Channel!vars, Requests, Responses
<1>3. CASE PushRequest(t)
  <2>1. CASE in_use
    BY <1>3, <2>1, PushRequestSends DEF Channel!Next
  <2>2. CASE ~in_use
    <3>1. UNCHANGED <<ring, req_prod, rsp_prod, req_cons, rsp_cons, pending, delivered>>
      BY <1>3, <2>2 DEF PushRequest, backVars, insVars, pvmVars
    <3> QED
      BY <3>1 DEF Channel!vars, UnreadIds
  <2> QED
    BY <2>1, <2>2
<1> QED
  BY <1>1, <1>2, <1>3 DEF SendStep

\* A response that is being written is not visible before it is published.
LEMMA WriteItemInvisible ==
    ASSUME RingInv, NEW id \in Ids, xe_comms_write_item(id)
    PROVE  UNCHANGED Channel!vars
<1>1. /\ RingInv' /\ Answered < Taken /\ UNCHANGED <<Answered, Taken, Sent>>
      /\ \A k \in 0..(RING_SIZE - 1) : k # Answered => Window'[k] = Window[k]
      /\ UNCHANGED <<pending, delivered>>
  BY WriteItemKeeps DEF xe_comms_write_item, pvmVars
<1>2. /\ Answered \in Nat /\ Taken \in Nat /\ Sent \in Nat /\ RING_SIZE \in Nat
      /\ Answered <= Taken /\ Taken <= Sent /\ Sent <= RING_SIZE
  BY <1>1, ShownBoth
<1>3. Requests' = Requests
  <2>1. \A k \in 0..(Sent - Taken - 1) :
          Taken + k \in 0..(RING_SIZE - 1) /\ Taken + k # Answered
    BY <1>1, <1>2
  <2> QED
    BY <1>1, <2>1, RequestsStay
<1>4. Responses' = Responses
  <2>1. \A k \in 0..(Answered - 1) : k \in 0..(RING_SIZE - 1) /\ k # Answered
    BY <1>2
  <2> QED
    BY <1>1, <2>1, ResponsesStay
<1> QED
  BY <1>1, <1>3, <1>4 DEF Channel!vars, Requests, Responses

\* The steps that wake threads up, or block them, are not visible.
LEMMA QuietInvisible ==
    ASSUME \/ xenevent_semaphore_down \/ xe_comms_event_callback
           \/ mw_xen_irq_event_handler \/ mw_xen_release_ins
           \/ NotifyPvm \/ mw_xen_response_available \/ ConsumerDown
           \/ UNCHANGED vars
    PROVE  UNCHANGED Channel!vars
<1>1. UNCHANGED <<ring, req_prod, rsp_prod, req_cons, rsp_cons, pending, delivered>>
  BY DEF xenevent_semaphore_down, xe_comms_event_callback,
     mw_xen_irq_event_handler, mw_xen_release_ins, NotifyPvm,
     mw_xen_response_available, ConsumerDown, vars,
     frontVars, backVars, insVars, pvmVars
<1> QED
  BY <1>1 DEF Channel!vars, UnreadIds

\* The ring implements the channel, for every ring size, index range and number
\* of senders: each request is read once, in the order of sending, answered
\* once, and each response is consumed once, in the order of answering.
THEOREM ImplementsChannel == Spec => IsChannel
<1>1. Init => Channel!Init
  <2> SUFFICES ASSUME Init
               PROVE  Channel!Init
    OBVIOUS
  <2>1. Shown
    BY RingInvInit, SequencesShown
  <2>2. Dist(0, 0) = 0
    BY IndexRange, DistIs DEF Indices
  <2>3. Answered = 0 /\ Taken = 0 /\ Sent = 0
    BY <2>2 DEF Init, Answered, Taken, Sent
  <2>4. Requests = << >> /\ Responses = << >>
    BY <2>1, <2>3 DEF Shown
  <2> QED
    BY <2>4 DEF Init, Channel!Init, Requests, Responses
<1>2. RingInv /\ [Next]_vars => [Channel!Next]_Channel!vars
  <2> SUFFICES ASSUME RingInv, [Next]_vars
               PROVE  [Channel!Next]_Channel!vars
    OBVIOUS
  <2>1. ASSUME NEW t \in Senders, SendStep(t)
        PROVE  [Channel!Next]_Channel!vars
    BY <2>1, SendStepImplements
  <2>2. CASE ReadStep \/ xe_comms_event_callback
    BY <2>2, ReadItemTakes, QuietInvisible DEF ReadStep, Channel!Next
  <2>3. CASE WriteStep
    BY <2>3, WriteItemInvisible, PushResponseAnswers, QuietInvisible
    DEF WriteStep, Channel!Next
  <2>4. CASE ConsumeStep \/ mw_xen_irq_event_handler
    BY <2>4, ConsumeDelivers, QuietInvisible DEF ConsumeStep, Channel!Next
  <2>5. CASE mw_xen_release_ins \/ UNCHANGED vars
    BY <2>5, QuietInvisible
  <2> QED
    BY <2>1, <2>2, <2>3, <2>4, <2>5 DEF Next
<1> QED
  BY <1>1, <1>2, RingInvAlways, PTL DEF Spec, IsChannel, Channel!Spec
=============================================================================
