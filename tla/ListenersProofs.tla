-------------------------- MODULE ListenersProofs --------------------------
(***************************************************************************)
(* For any number of INSs and work items, the invariants of Listeners hold.*)
(*                                                                         *)
(* OneListenerPerIns is not inductive: that a replicator which waits for   *)
(* its create still finds no replica on that INS afterwards holds only     *)
(* because every other replicator is kept out by sock_rep_lock, up to the  *)
(* end of the set-up, and because the monitor thread only moves the user's *)
(* socket onto an INS that has a replica already (ReplicaInv).             *)
(*                                                                         *)
(* AcceptInv relates accepts, flags, rings and the inbound queue; it gives *)
(* OneAcceptPerIns, ConnectionsKept and SafeUntilDisturbed.  CoverInv      *)
(* follows accept() from slot to slot: wherever it has been, the socket    *)
(* accepts or is being set up; it gives BlockedOnLiveIns and NoDeafIns.    *)
(* CauseInv, for FailuresHaveCause, says that nothing has failed while     *)
(* every INS is in good health and mitigation closes nothing.              *)
(***************************************************************************)
EXTENDS Listeners, SequenceTheorems, WellFoundedInduction, TLAPS

\* The replicator p waits for an INS in the middle of its work.
Waiting(p) == rpc[p] \in {"create", "setup"}

\* The lock is held by whoever waits.
LockHeld == \A p \in Procs : Waiting(p) => sock_rep_lock = p

\* A replicator waits for a create only where there is no socket.
NoSocketYet ==
    \A p \in Procs : rpc[p] = "create" => slot[p] \notin siblings \cup {home}

ReplicaTypes ==
    /\ rpc \in [Procs -> {"off", "next", "lock", "create", "setup"}]
    /\ slot \in [Procs -> Int]
    /\ oops \in BOOLEAN

\* The inductive invariant.
ReplicaInv ==
    /\ ReplicaTypes
    /\ ~oops => LockHeld /\ NoSocketYet /\ home \notin siblings

\* Every step that touches none of the variables of the invariant keeps it.
LEMMA ReplicaFrame ==
    ASSUME ReplicaInv,
           UNCHANGED <<rpc, slot, sock_rep_lock, siblings, home, oops>>
    PROVE  ReplicaInv'
  BY DEF ReplicaInv, ReplicaTypes, LockHeld, NoSocketYet, Waiting

\* Releasing the lock and going on to the next slot keeps the invariant, if
\* nobody but the one who goes on held the lock.
LEMMA NextSlotKeeps ==
    ASSUME ReplicaInv, ~oops, home' = home, oops' \in BOOLEAN,
           siblings' \subseteq siblings,
           NEW p \in Procs, NEW error, NextSlot(p, error),
           \A q \in Procs : Waiting(q) => q = p
    PROVE  ReplicaInv'
<1>1. ReplicaTypes'
  BY DEF ReplicaInv, ReplicaTypes, NextSlot
<1>2. \A q \in Procs : ~Waiting(q)'
  BY DEF ReplicaInv, ReplicaTypes, NextSlot, Waiting
<1>3. (LockHeld /\ NoSocketYet)'
  BY <1>2 DEF LockHeld, NoSocketYet, Waiting
<1> QED
  BY <1>1, <1>3 DEF ReplicaInv

\* Whoever waits is the only one.
LEMMA OneWaits ==
    ASSUME ReplicaInv, ~oops, NEW p \in Procs, Waiting(p)
    PROVE  \A q \in Procs : Waiting(q) => q = p
  BY DEF ReplicaInv, LockHeld

\* While the lock is free, nobody waits for an INS.
LEMMA NobodyWaits ==
    ASSUME ReplicaInv, ~oops, sock_rep_lock = Nobody
    PROVE  \A q \in Procs : ~Waiting(q)
<1>1. \A q \in Procs : q # Nobody
  BY DEF Procs, Doms, User, Nobody
<1> QED
  BY <1>1 DEF ReplicaInv, LockHeld

\* Whether an accept is sent or not, it is known whether memory was misused.
LEMMA SendMayFail ==
    ASSUME oops \in BOOLEAN, NEW p, NEW sock, NEW d, SendAccept(p, sock, d)
    PROVE  /\ oops' \in BOOLEAN
           /\ oops' => oops \/ ~is_ring_ready(d)
           /\ stale' \subseteq stale \cup {sock}
<1>1. CASE NeedsAccept(sock) /\ ~(NeedsAccept(sock) /\ is_ring_ready(d))
  <2>1. FailsToSend(sock, d)
    BY <1>1, Zenon DEF SendAccept
  <2> QED
    BY <1>1, <2>1 DEF FailsToSend
<1>2. CASE ~(NeedsAccept(sock) /\ ~(NeedsAccept(sock) /\ is_ring_ready(d)))
  <2>1. UNCHANGED <<stale, oops>>
    BY <1>2, Zenon DEF SendAccept
  <2> QED
    BY <2>1
<1> QED
  BY <1>1, <1>2

\* The steps of a replicator keep the invariant.
LEMMA ReplicatorKeeps ==
    ASSUME ReplicaInv, ~oops, NEW p \in Procs, Replicator(p)
    PROVE  ReplicaInv'
<1>1. CASE LookAtSlot(p)
  <2>1. UNCHANGED <<sock_rep_lock, siblings, home, oops>>
    BY <1>1 DEF LookAtSlot, sockVars, history
  <2>2. rpc[p] = "next"
    BY <1>1 DEF LookAtSlot
  <2>3. \/ rpc' = [rpc EXCEPT ![p] = "lock"] /\ slot' = slot
        \/ slot' = [slot EXCEPT ![p] = @ + 1] /\ rpc' = rpc
    BY <1>1 DEF LookAtSlot
  <2> QED
    BY <2>1, <2>2, <2>3
    DEF ReplicaInv, ReplicaTypes, LockHeld, NoSocketYet, Waiting
<1>2. CASE Replicate(p)
  <2>1. rpc[p] = "lock" /\ sock_rep_lock = Nobody
        /\ UNCHANGED <<home, siblings>>
    BY <1>2 DEF Replicate, LockFree
  <2>2. \A q \in Procs : ~Waiting(q)
    BY <2>1, NobodyWaits
  <2>3. CASE slot[p] = home \/ slot[p] \in siblings
    <3>1. \E error \in BOOLEAN : NextSlot(p, error)
      BY <1>2, <2>3 DEF Replicate, SendAccept, NeedsAccept, is_ring_ready
    <3>2. \E sock : SendAccept(p, sock, slot[p])
      BY <1>2, <2>3, Zenon DEF Replicate
    <3>3. oops' \in BOOLEAN
      BY <3>2, SendMayFail DEF ReplicaInv, ReplicaTypes
    <3> QED
      BY <2>1, <2>2, <3>1, <3>3, NextSlotKeeps
  <2>4. CASE ~(slot[p] = home \/ slot[p] \in siblings)
    <3>1. /\ sock_rep_lock' = p /\ slot' = slot /\ oops' = oops
          /\ rpc' = [rpc EXCEPT ![p] = "create"]
      BY <1>2, <2>4 DEF Replicate
    <3> QED
      BY <2>1, <2>2, <2>4, <3>1
      DEF ReplicaInv, ReplicaTypes, LockHeld, NoSocketYet, Waiting
  <2> QED
    BY <2>3, <2>4
<1>3. CASE CreateReplica(p)
  <2>1. /\ rpc[p] = "create"
        /\ siblings' = siblings \cup {slot[p]}
        /\ rpc' = [rpc EXCEPT ![p] = "setup"]
        /\ UNCHANGED <<home, sock_rep_lock, slot, oops>>
    BY <1>3 DEF CreateReplica, history
  <2>2. \A q \in Procs : Waiting(q) => q = p
    BY <2>1, OneWaits DEF Waiting
  <2>3. \A q \in Procs : rpc'[q] # "create"
    BY <2>1, <2>2 DEF ReplicaInv, ReplicaTypes, Waiting
  <2>4. slot[p] # home
    BY <2>1 DEF ReplicaInv, NoSocketYet
  <2> QED
    BY <2>1, <2>2, <2>3, <2>4
    DEF ReplicaInv, ReplicaTypes, LockHeld, NoSocketYet, Waiting
<1>4. CASE SetUpReplica(p)
  <2>1. rpc[p] = "setup" /\ UNCHANGED <<home, siblings>>
        /\ \E error \in BOOLEAN : NextSlot(p, error)
    BY <1>4 DEF SetUpReplica, SendAccept, NeedsAccept, is_ring_ready
  <2>2. oops' \in BOOLEAN
    BY <1>4, SendMayFail DEF SetUpReplica, ReplicaInv, ReplicaTypes
  <2> QED
    BY <2>1, <2>2, OneWaits, NextSlotKeeps DEF Waiting
<1>5. CASE ReplicaFails(p)
  <2>1. Waiting(p) /\ UNCHANGED <<home, oops>> /\ siblings' \subseteq siblings
        /\ NextSlot(p, TRUE)
    BY <1>5 DEF ReplicaFails, Waiting, history
  <2> QED
    BY <2>1, OneWaits, NextSlotKeeps DEF ReplicaInv, ReplicaTypes
<1>6. CASE EndWorkItem(p)
  <2>1. rpc' = [rpc EXCEPT ![p] = "off"]
        /\ UNCHANGED <<sock_rep_lock, siblings, home, slot, oops>>
    BY <1>6 DEF EndWorkItem, sockVars, history
  <2> QED
    BY <2>1 DEF ReplicaInv, ReplicaTypes, LockHeld, NoSocketYet, Waiting
<1> QED
  BY <1>1, <1>2, <1>3, <1>4, <1>5, <1>6 DEF Replicator

\* The monitor thread keeps the invariant: it removes replicas, and moves the
\* user's socket only onto one that exists.
LEMMA ReaperKeeps ==
    ASSUME ReplicaInv, ~oops, mwsocket_reap_dead_sock_instances
    PROVE  ReplicaInv'
<1>1. UNCHANGED <<rpc, slot, sock_rep_lock>>
  BY DEF mwsocket_reap_dead_sock_instances, replVars
<1>2. ASSUME NEW s \in Replacements, Promote(s)
      PROVE  ReplicaInv'
  <2>1. /\ s \in siblings /\ home' = s /\ oops' \in BOOLEAN
        /\ siblings' \subseteq siblings \ {s}
    BY <1>2 DEF Promote, Replacements
  <2> QED
    BY <1>1, <2>1 DEF ReplicaInv, ReplicaTypes, LockHeld, NoSocketYet, Waiting
<1>3. ASSUME FailAccept \/ DropReplicas
      PROVE  ReplicaInv'
  <2>1. /\ home' = home /\ oops' \in BOOLEAN
        /\ siblings' \subseteq siblings
    BY <1>3 DEF FailAccept, DropReplicas, ReplicaInv, ReplicaTypes
  <2> QED
    BY <1>1, <2>1 DEF ReplicaInv, ReplicaTypes, LockHeld, NoSocketYet, Waiting
<1> QED
  BY <1>2, <1>3 DEF mwsocket_reap_dead_sock_instances

\* The invariant holds at first: one INS has the socket, and nobody replicates.
LEMMA ReplicaInit == Init => ReplicaInv
<1> SUFFICES ASSUME Init
             PROVE  ReplicaInv
  OBVIOUS
<1>1. /\ rpc = [p \in Procs |-> "off"] /\ slot = [p \in Procs |-> 1]
      /\ siblings = {} /\ oops = FALSE
  BY DEF Init
<1>2. ReplicaTypes
  <2>1. rpc \in [Procs -> {"off", "next", "lock", "create", "setup"}]
    BY <1>1
  <2>2. slot \in [Procs -> Int]
    BY <1>1
  <2> QED
    BY <1>1, <2>1, <2>2 DEF ReplicaTypes
<1>3. \A p \in Procs : rpc[p] = "off"
  BY <1>1
<1>4. LockHeld /\ NoSocketYet
  BY <1>3 DEF LockHeld, NoSocketYet, Waiting
<1> QED
  BY <1>1, <1>2, <1>4 DEF ReplicaInv

\* Every step keeps the invariant: only the replicators, the monitor thread
\* and the user's thread touch what it speaks of.
LEMMA ReplicaNext == ReplicaInv /\ [Next]_vars => ReplicaInv'
<1> SUFFICES ASSUME ReplicaInv, [Next]_vars
             PROVE  ReplicaInv'
  OBVIOUS
<1>1. CASE UNCHANGED vars
  BY <1>1, ReplicaFrame DEF vars, sockVars, replVars, history
<1>2. ASSUME Running, BeginWrite
      PROVE  ReplicaInv'
  <2>1. /\ rpc' = [rpc EXCEPT ![User] = "next"]
        /\ slot' = [slot EXCEPT ![User] = 1]
        /\ UNCHANGED <<sock_rep_lock, siblings, home, oops>>
    BY <1>2 DEF BeginWrite, sockVars, history
  <2>2. User \in Procs
    BY DEF Procs
  <2> QED
    BY <2>1, <2>2
    DEF ReplicaInv, ReplicaTypes, LockHeld, NoSocketYet, Waiting
<1>3. ASSUME Running, Accept
      PROVE  ReplicaInv'
  <2>1. CASE EndWrite
    <3>1. /\ rpc' = [rpc EXCEPT ![User] = "off"]
          /\ UNCHANGED <<sock_rep_lock, siblings, home, slot, oops>>
      BY <2>1 DEF EndWrite, sockVars, history
    <3> QED
      BY <3>1 DEF ReplicaInv, ReplicaTypes, LockHeld, NoSocketYet, Waiting
  <2>2. CASE BeginRead
    BY <2>2, ReplicaFrame DEF BeginRead, sockVars, replVars
  <2>3. CASE TakeInbound
    <3>1. /\ UNCHANGED <<rpc, slot, sock_rep_lock, siblings, home>>
          /\ oops' \in BOOLEAN
      BY <2>3 DEF TakeInbound, FreedFirst, sockVars, replVars
    <3> QED
      BY <3>1, <1>3
      DEF ReplicaInv, ReplicaTypes, LockHeld, NoSocketYet, Waiting, Running
  <2> QED
    BY <1>3, <2>1, <2>2, <2>3 DEF Accept
<1>4. ASSUME Running, NEW p \in Procs, Replicator(p)
      PROVE  ReplicaInv'
  BY <1>4, ReplicatorKeeps DEF Running
<1>5. ASSUME Running, Consumer
      PROVE  ReplicaInv'
  <2>1. UNCHANGED <<rpc, slot, sock_rep_lock, siblings, home>>
    BY <1>5 DEF Consumer, mwsocket_postproc_no_context, FinishResponse, replVars,
       sockVars
  <2>2. oops' \in BOOLEAN
    <3>1. CASE FinishResponse
      BY <3>1 DEF FinishResponse
    <3>2. ASSUME NEW id \in Ids, mwsocket_postproc_no_context(id)
          PROVE  oops' \in BOOLEAN
      <4>1. oops' = oops \/ oops' = FreedLast(active)
        BY <3>2, Zenon DEF mwsocket_postproc_no_context
      <4> QED
        BY <4>1 DEF FreedLast, ReplicaInv, ReplicaTypes
    <3> QED
      BY <1>5, <3>1, <3>2 DEF Consumer
  <2> QED
    BY <1>5, <2>1, <2>2
    DEF ReplicaInv, ReplicaTypes, LockHeld, NoSocketYet, Waiting, Running
<1>6. ASSUME Running, NEW d \in Doms, Ins(d) \/ InsCrashes(d)
                                     \/ mw_xen_release_ins(d)
      PROVE  ReplicaInv'
  BY <1>6, ReplicaFrame
  DEF Ins, InsAccepts, InsCrashes, mw_xen_release_ins, sockVars, replVars,
      history
<1>7. ASSUME Running, NEW d \in Doms, mw_xen_ins_found(d)
      PROVE  ReplicaInv'
  <2>1. /\ rpc' = [rpc EXCEPT ![d] = "next"]
        /\ UNCHANGED <<sock_rep_lock, siblings, home, slot, oops>>
    BY <1>7 DEF mw_xen_ins_found, sockVars, history
  <2> QED
    BY <2>1 DEF ReplicaInv, ReplicaTypes, LockHeld, NoSocketYet, Waiting
<1>8. ASSUME Running, mwsocket_reap_dead_sock_instances
      PROVE  ReplicaInv'
  BY <1>8, ReaperKeeps DEF Running
<1>9. ASSUME NEW sock \in Socks, mwsocket_close_remote(sock)
      PROVE  ReplicaInv'
  BY <1>9, ReplicaFrame DEF mwsocket_close_remote, replVars, history
<1> QED
  BY <1>1, <1>2, <1>3, <1>4, <1>5, <1>6, <1>7, <1>8, <1>9 DEF Next

\* The invariant is strong enough: two that create on one INS would both hold
\* the lock.
LEMMA ReplicaInvImplies == ReplicaInv => OneListenerPerIns
<1> SUFFICES ASSUME ReplicaInv, ~oops
             PROVE  /\ home \notin siblings
                    /\ \A p \in Procs : rpc[p] = "create" =>
                         /\ slot[p] \notin siblings \cup {home}
                         /\ \A q \in Procs \ {p} :
                              rpc[q] = "create" => slot[q] # slot[p]
  BY DEF OneListenerPerIns
<1> QED
  BY OneWaits DEF ReplicaInv, NoSocketYet, Waiting

\* An INS has a listening socket at most once, whatever the number of INSs and
\* of work items that replicate it at the same time, and whenever INSs die.
THEOREM OneListenerAlways == Spec => []OneListenerPerIns
  BY ReplicaInit, ReplicaNext, ReplicaInvImplies, PTL DEF Spec
-----------------------------------------------------------------------------
(* Ids and the inbound queue.                                              *)

\* A set of naturals with an element has a least one, which Min returns.
LEMMA LeastIsElement ==
    ASSUME NEW S, S \subseteq Nat, S # {}
    PROVE  Min(S) \in S
<1>1. PICK x \in S : \A y \in S : ~(<<y, x>> \in OpToRel(<, Nat))
  BY WFMin, NatLessThanWellFounded, Zenon
<1>2. \A y \in S : y \in Nat /\ x \in Nat /\ ~(y < x)
  BY <1>1, Zenon DEF OpToRel
<1>3. \A y \in S : x =< y
  BY <1>2
<1> QED
  BY <1>3, Zenon DEF Min

\* No entry occurs twice.
NoRepeats(s) == \A m, n \in 1..Len(s) : s[m] = s[n] => m = n

\* The entries of a sequence are its values.
LEMMA Entries ==
    ASSUME NEW S, NEW s \in Seq(S)
    PROVE  ToSet(s) = {s[n] : n \in 1..Len(s)} /\ ToSet(s) \subseteq S
  BY DEF ToSet

\* Adding an entry.
LEMMA EntriesOfAppend ==
    ASSUME NEW S, NEW s \in Seq(S), NEW x \in S
    PROVE  /\ ToSet(Append(s, x)) = ToSet(s) \cup {x}
           /\ NoRepeats(s) /\ x \notin ToSet(s) => NoRepeats(Append(s, x))
<1> DEFINE a == Append(s, x)
<1>1. /\ a \in Seq(S) /\ Len(a) = Len(s) + 1 /\ Len(s) \in Nat
      /\ \A n \in 1..Len(s) : a[n] = s[n] /\ a[Len(s) + 1] = x
  BY AppendProperties, LenProperties
<1>2. a[Len(s) + 1] = x
  BY AppendProperties
<1> HIDE DEF a
<1>0. /\ ToSet(a) = {a[n] : n \in 1..Len(a)}
      /\ ToSet(s) = {s[n] : n \in 1..Len(s)}
  BY <1>1, Entries
<1>3. \A n \in 1..Len(a) : n \in 1..Len(s) \/ n = Len(s) + 1
  BY <1>1
<1>4. ToSet(a) = ToSet(s) \cup {x}
  <2>1. ToSet(a) \subseteq ToSet(s) \cup {x}
    BY <1>0, <1>1, <1>2, <1>3
  <2>2. ToSet(s) \subseteq ToSet(a)
    <3>1. 1..Len(s) \subseteq 1..Len(a)
      BY <1>1
    <3> QED
      BY <1>0, <1>1, <3>1
  <2>3. x \in ToSet(a)
    <3>1. Len(s) + 1 \in 1..Len(a)
      BY <1>1
    <3> QED
      BY <1>0, <1>2, <3>1
  <2> QED
    BY <2>1, <2>2, <2>3
<1>5. ASSUME NoRepeats(s), x \notin ToSet(s) PROVE NoRepeats(a)
  <2>1. \A n \in 1..Len(s) : s[n] # x
    BY <1>0, <1>5
  <2> QED
    BY <1>1, <1>2, <1>3, <1>5, <2>1 DEF NoRepeats
<1> QED
  BY <1>4, <1>5 DEF a

\* Taking the first entry.
LEMMA EntriesOfTail ==
    ASSUME NEW S, NEW s \in Seq(S), s # << >>
    PROVE  /\ Head(s) \in S /\ Tail(s) \in Seq(S)
           /\ ToSet(s) = ToSet(Tail(s)) \cup {Head(s)}
           /\ NoRepeats(s) => NoRepeats(Tail(s)) /\ Head(s) \notin ToSet(Tail(s))
<1> DEFINE a == Tail(s)
<1>1. /\ a \in Seq(S) /\ Len(a) = Len(s) - 1 /\ Len(s) \in Nat /\ Len(s) >= 1
      /\ \A n \in 1..Len(a) : a[n] = s[n + 1]
      /\ Head(s) = s[1] /\ Head(s) \in S
  BY HeadTailProperties, LenProperties, EmptySeq
<1> HIDE DEF a
<1>0. /\ ToSet(a) = {a[n] : n \in 1..Len(a)}
      /\ ToSet(s) = {s[n] : n \in 1..Len(s)}
  BY <1>1, Entries
<1>2. \A n \in 1..Len(s) : n = 1 \/ (n - 1 \in 1..Len(a) /\ a[n - 1] = s[n])
  BY <1>1
<1>3. ToSet(s) \subseteq ToSet(a) \cup {Head(s)}
  <2> SUFFICES ASSUME NEW n \in 1..Len(s) PROVE s[n] \in ToSet(a) \cup {Head(s)}
    BY <1>0
  <2>1. CASE n = 1
    BY <1>1, <2>1
  <2>2. CASE n - 1 \in 1..Len(a) /\ a[n - 1] = s[n]
    <3>1. a[n - 1] \in ToSet(a)
      BY <1>0, <2>2
    <3> QED
      BY <2>2, <3>1
  <2> QED
    BY <1>2, <2>1, <2>2
<1>4. ToSet(a) \subseteq ToSet(s)
  <2>1. \A n \in 1..Len(a) : n + 1 \in 1..Len(s)
    BY <1>1
  <2> QED
    BY <1>0, <1>1, <2>1
<1>5. Head(s) \in ToSet(s)
  <2>1. 1 \in 1..Len(s)
    BY <1>1
  <2> QED
    BY <1>0, <1>1, <2>1
<1>6. ASSUME NoRepeats(s) PROVE NoRepeats(a) /\ Head(s) \notin ToSet(a)
  <2>1. NoRepeats(a)
    BY <1>1, <1>6 DEF NoRepeats
  <2>2. \A n \in 1..Len(a) : a[n] # Head(s)
    BY <1>1, <1>6 DEF NoRepeats
  <2> QED
    BY <1>0, <1>1, <2>1, <2>2
<1> QED
  BY <1>1, <1>3, <1>4, <1>5, <1>6 DEF a
-----------------------------------------------------------------------------
(* Types.                                                                  *)

\* A replicator that looks at a slot looks at one that has been in use.
Looking == {"lock", "create", "setup"}

\* The type invariant but for the variables that only FailsToSend and the closes
\* of mitigation need, and those.
BaseTypes ==
    /\ ins \in [Doms -> {"off", "up", "crashed", "released", "reaped"}]
    /\ home \in Doms /\ siblings \subseteq Doms /\ accepting \subseteq Socks
    /\ blockid \in Ids \cup {Unset} /\ read_expected \in BOOLEAN
    /\ inbound \in Seq(Ids \cup {Unset})
    /\ sock_rep_lock \in Procs \cup {Nobody}
    /\ active \subseteq Ids
    /\ sockinst \in [Ids -> Socks] /\ sent_to \in [Ids -> Doms \cup {Unset}]
    /\ failed \subseteq Ids \cup {Unset}
    /\ pending \subseteq Ids /\ answered \subseteq Ids
    /\ pc \in {"idle", "write", "mustread", "await"}
    /\ rpc \in [Procs -> {"off", "next", "lock", "create", "setup"}]
    /\ slot \in [Procs -> 1..(MAX_INS_COUNT + 1)]
    /\ rc \in [Procs -> 0..1]
    /\ result \in {"none", "ok", "error"}
    /\ owed \subseteq Ids /\ {silent, oops} \subseteq BOOLEAN

MoreTypes ==
    /\ closing \subseteq Socks /\ stale \subseteq Socks
    /\ undelivered \subseteq Ids \cup {Unset} /\ handling \in Ids \cup {Unset}

Positions ==
    \A p \in Procs : rpc[p] \in Looking => slot[p] \in Doms /\ ins[slot[p]] # "off"

TypeInv == BaseTypes /\ Positions /\ ins[home] # "off"

\* The id of a new request is one that nothing knows.
LEMMA NextIdFree ==
    ASSUME IdLeft
    PROVE  NextId \in Ids \ Known
<1>1. Ids \ Known \subseteq Nat
  BY DEF Ids
<1> QED
  BY <1>1, LeastIsElement DEF IdLeft, NextId

\* What a new accept, with id n, does; by p, on the socket sock, at the INS d.
NewAccept(p, n, sock, d) ==
    /\ sock \notin accepting /\ is_ring_ready(d)
    /\ accepting' = accepting \cup {sock}
    /\ active' = active \cup {n}
    /\ pending' = pending \cup {n}
    /\ sockinst' = [sockinst EXCEPT ![n] = sock]
    /\ sent_to' = [sent_to EXCEPT ![n] = d]
    /\ IF CallerWaits(p, sock)
         THEN blockid' = n /\ read_expected' = TRUE
         ELSE UNCHANGED <<blockid, read_expected>>
    /\ silent' = (silent \/ (sock = User /\ p # User))

\* And what happens if none is sent: the socket has one, or the INS is dead.
NoAccept(sock, d) ==
    /\ sock \in accepting \/ ~is_ring_ready(d)
    /\ UNCHANGED <<accepting, active, pending, sockinst, sent_to, blockid,
                   read_expected, silent>>

\* The step of replicator p at a slot whose INS has the socket.
SendStep(p, sock) ==
    /\ rpc[p] \in {"lock", "setup"} /\ sock \in Socks
    /\ NextSlot(p, sock \notin accepting /\ ~is_ring_ready(slot[p]))
    /\ NoAccept(sock, slot[p])
         \/ \E n \in Ids \ Known : NewAccept(p, n, sock, slot[p])
    /\ UNCHANGED <<ins, home, siblings, closing, pc, result, inbound, undelivered,
                   failed, answered, handling, owed>>
    /\ oops' \in BOOLEAN /\ (oops' => oops \/ ~is_ring_ready(slot[p]))
    /\ stale' \subseteq stale \cup {sock}

\* What a replicator can do.
LEMMA SendAcceptSends ==
    ASSUME NEW p, NEW sock, NEW d, SendAccept(p, sock, d)
    PROVE  /\ NextSlot(p, sock \notin accepting /\ ~is_ring_ready(d))
           /\ NoAccept(sock, d) \/ \E n \in Ids \ Known : NewAccept(p, n, sock, d)
<1>1. CASE sock \notin accepting /\ is_ring_ready(d)
  <2>1. IdLeft
    BY <1>1 DEF SendAccept, NeedsAccept
  <2>2. NewAccept(p, NextId, sock, d)
    BY <1>1, Zenon DEF SendAccept, NeedsAccept, NewAccept
  <2>3. NextSlot(p, sock \notin accepting /\ ~is_ring_ready(d))
    <3>1. NextSlot(p, NeedsAccept(sock) /\ ~(NeedsAccept(sock) /\ is_ring_ready(d)))
      BY Zenon DEF SendAccept
    <3>2. (NeedsAccept(sock) /\ ~(NeedsAccept(sock) /\ is_ring_ready(d)))
            = (sock \notin accepting /\ ~is_ring_ready(d))
      BY <1>1 DEF NeedsAccept
    <3> QED
      BY <3>1, <3>2
  <2> QED
    BY <2>1, <2>2, <2>3, NextIdFree
<1>2. CASE ~(sock \notin accepting /\ is_ring_ready(d))
  <2>1. NoAccept(sock, d)
    BY <1>2, Zenon DEF SendAccept, NeedsAccept, NoAccept
  <2>2. NextSlot(p, sock \notin accepting /\ ~is_ring_ready(d))
    <3>1. NextSlot(p, NeedsAccept(sock) /\ ~(NeedsAccept(sock) /\ is_ring_ready(d)))
      BY Zenon DEF SendAccept
    <3>2. (NeedsAccept(sock) /\ ~(NeedsAccept(sock) /\ is_ring_ready(d)))
            = (sock \notin accepting /\ ~is_ring_ready(d))
      BY <1>2 DEF NeedsAccept
    <3> QED
      BY <3>1, <3>2
  <2> QED
    BY <2>1, <2>2
<1> QED
  BY <1>1, <1>2

\* Replicator p finds nothing on the INS of its slot.
BeginCreate(p) ==
    /\ rpc[p] = "lock" /\ sock_rep_lock = Nobody
    /\ slot[p] # home /\ slot[p] \notin siblings
    /\ sock_rep_lock' = p
    /\ rpc' = [rpc EXCEPT ![p] = "create"]
    /\ UNCHANGED <<ins, sockVars, userVars, inbound, reqVars, ringVars, slot, rc,
                   history>>

\* Looking for the socket, a replicator sends an accept or begins a create.
LEMMA ReplicateSteps ==
    ASSUME NEW p \in Procs, TypeInv, Replicate(p)
    PROVE  \/ BeginCreate(p)
           \/ /\ rpc[p] = "lock" /\ sock_rep_lock = Nobody
              /\ slot[p] = home /\ SendStep(p, User)
           \/ /\ rpc[p] = "lock" /\ sock_rep_lock = Nobody
              /\ slot[p] # home /\ slot[p] \in siblings /\ SendStep(p, slot[p])
<1>1. rpc[p] = "lock" /\ sock_rep_lock = Nobody
  BY DEF Replicate, LockFree
<1>2. /\ UNCHANGED <<ins, home, siblings, closing, pc, result, inbound, undelivered,
                     failed, answered, handling, owed>>
      /\ oops \in BOOLEAN
  BY DEF Replicate, TypeInv, BaseTypes
<1>3. CASE slot[p] = home
  <2>1. SendAccept(p, User, slot[p])
    BY <1>3 DEF Replicate
  <2> QED
    BY <1>1, <1>2, <1>3, <2>1, SendAcceptSends, SendMayFail DEF SendStep, Socks
<1>4. CASE slot[p] # home /\ slot[p] \in siblings
  <2>1. SendAccept(p, slot[p], slot[p])
    BY <1>4 DEF Replicate
  <2>2. slot[p] \in Socks
    BY <1>4 DEF Socks, TypeInv, BaseTypes
  <2> QED
    BY <1>1, <1>2, <1>4, <2>1, <2>2, SendAcceptSends, SendMayFail DEF SendStep
<1>5. CASE slot[p] # home /\ slot[p] \notin siblings
  BY <1>1, <1>2, <1>5 DEF Replicate, BeginCreate, sockVars, userVars, reqVars, ringVars,
     history
<1> QED
  BY <1>3, <1>4, <1>5

\* A replica that has been set up sends its accept.
LEMMA SetUpSends ==
    ASSUME NEW p \in Procs, TypeInv, SetUpReplica(p)
    PROVE  rpc[p] = "setup" /\ ins[slot[p]] = "up" /\ SendStep(p, slot[p])
<1>1. slot[p] \in Socks
  BY DEF SetUpReplica, TypeInv, Positions, Looking, Socks
<1> QED
  BY <1>1, SendAcceptSends, SendMayFail
     DEF SetUpReplica, SendStep, TypeInv, BaseTypes

\* Threads, INSs, sockets and ids are numbers that do not clash.
LEMMA Numbers ==
    /\ User \in Procs /\ Doms \subseteq Procs /\ Nobody \notin Procs
    /\ User \notin Doms /\ Unset \notin Ids /\ Socks = Procs /\ 1 \in Doms
    /\ \A p \in Procs : p = User \/ p \in Doms
  BY ListenersAssumption DEF User, Procs, Doms, Nobody, Unset, Ids, Socks

\* The types hold at first.
LEMMA TypeInvInitially == Init => TypeInv
<1> SUFFICES ASSUME Init PROVE TypeInv
  OBVIOUS
<1>1. BaseTypes
  <2>1. /\ ins \in [Doms -> {"off", "up", "crashed", "released", "reaped"}]
        /\ home \in Doms /\ siblings \subseteq Doms /\ accepting \subseteq Socks
        /\ blockid \in Ids \cup {Unset} /\ sock_rep_lock \in Procs \cup {Nobody}
    BY Numbers DEF Init
  <2>2. inbound \in Seq(Ids \cup {Unset}) /\ active \subseteq Ids
        /\ failed \subseteq Ids \cup {Unset} /\ pending \subseteq Ids
        /\ answered \subseteq Ids /\ owed \subseteq Ids
    BY DEF Init
  <2>3. sockinst \in [Ids -> Socks] /\ sent_to \in [Ids -> Doms \cup {Unset}]
    BY Numbers DEF Init
  <2>4. /\ rpc \in [Procs -> {"off", "next", "lock", "create", "setup"}]
        /\ slot \in [Procs -> 1..(MAX_INS_COUNT + 1)] /\ rc \in [Procs -> 0..1]
    BY ListenersAssumption DEF Init
  <2>5. /\ read_expected = FALSE /\ silent = FALSE /\ oops = FALSE
        /\ pc = "idle" /\ result = "none"
    BY DEF Init
  <2> QED
    BY <2>1, <2>2, <2>3, <2>4, <2>5 DEF BaseTypes
<1>2. Positions /\ ins[home] # "off"
  BY Numbers DEF Init, Positions, Looking
<1> QED
  BY <1>1, <1>2 DEF TypeInv

\* The step of a replicator to the next slot.
LEMMA NextSlotTypes ==
    ASSUME TypeInv, NEW p \in Procs, rpc[p] \in Looking, NEW error \in BOOLEAN,
           NextSlot(p, error)
    PROVE  /\ sock_rep_lock' \in Procs \cup {Nobody}
           /\ rpc' \in [Procs -> {"off", "next", "lock", "create", "setup"}]
           /\ slot' \in [Procs -> 1..(MAX_INS_COUNT + 1)]
           /\ rc' \in [Procs -> 0..1]
           /\ \A q \in Procs : rpc'[q] \in Looking =>
                rpc[q] \in Looking /\ slot'[q] = slot[q]
<1>1. slot[p] + 1 \in 1..(MAX_INS_COUNT + 1)
  BY ListenersAssumption DEF TypeInv, Positions, Doms
<1> QED
  BY <1>1 DEF NextSlot, TypeInv, BaseTypes, Looking

\* An INS that is in the table stays in it, so that a step which moves no
\* replicator to another slot keeps the positions.
LEMMA PositionsFrame ==
    ASSUME TypeInv, \A d \in Doms : ins[d] # "off" => ins'[d] # "off",
           \A q \in Procs : rpc'[q] \in Looking => rpc[q] \in Looking /\ slot'[q] = slot[q]
    PROVE  Positions'
  BY DEF TypeInv, Positions

\* Sending keeps the types.
LEMMA SendKeepsTypes ==
    ASSUME TypeInv, NEW p \in Procs, NEW sock \in Socks, SendStep(p, sock)
    PROVE  TypeInv'
<1>0. BaseTypes /\ rpc[p] \in Looking /\ slot[p] \in Doms
  BY DEF TypeInv, SendStep, Looking, Positions
<1>1. /\ sock_rep_lock' \in Procs \cup {Nobody}
      /\ rpc' \in [Procs -> {"off", "next", "lock", "create", "setup"}]
      /\ slot' \in [Procs -> 1..(MAX_INS_COUNT + 1)]
      /\ rc' \in [Procs -> 0..1]
      /\ \A q \in Procs : rpc'[q] \in Looking => rpc[q] \in Looking /\ slot'[q] = slot[q]
  BY <1>0, NextSlotTypes DEF SendStep
<1>2. /\ UNCHANGED <<ins, home, siblings, pc, result, inbound, failed, answered, owed>>
      /\ oops' \in BOOLEAN
  BY DEF SendStep
<1>3. Positions' /\ ins'[home'] # "off"
  BY <1>1, <1>2, PositionsFrame DEF TypeInv
<1>4. /\ accepting' \subseteq Socks /\ active' \subseteq Ids /\ pending' \subseteq Ids
      /\ sockinst' \in [Ids -> Socks] /\ sent_to' \in [Ids -> Doms \cup {Unset}]
      /\ blockid' \in Ids \cup {Unset} /\ read_expected' \in BOOLEAN
      /\ silent' \in BOOLEAN
  <2>1. CASE NoAccept(sock, slot[p])
    BY <1>0, <2>1 DEF NoAccept, BaseTypes
  <2>2. CASE \E n \in Ids \ Known : NewAccept(p, n, sock, slot[p])
    <3>0. PICK n \in Ids \ Known : NewAccept(p, n, sock, slot[p])
      BY <2>2
    <3>1. blockid' \in Ids \cup {Unset} /\ read_expected' \in BOOLEAN
      BY <1>0, <3>0 DEF NewAccept, BaseTypes
    <3>2. silent' \in BOOLEAN
      BY <3>0 DEF NewAccept
    <3> QED
      BY <1>0, <3>0, <3>1, <3>2 DEF NewAccept, BaseTypes
  <2> QED
    BY <2>1, <2>2 DEF SendStep
<1> QED
  BY <1>0, <1>1, <1>2, <1>3, <1>4 DEF TypeInv, BaseTypes

\* The steps of a replicator keep the types.
LEMMA ReplicatorKeepsTypes ==
    ASSUME TypeInv, NEW p \in Procs, Replicator(p)
    PROVE  TypeInv'
<1>0. BaseTypes
  BY DEF TypeInv
<1>1. CASE LookAtSlot(p)
  <2>1. UNCHANGED <<ins, home, siblings, accepting, blockid, read_expected, inbound,
                    sock_rep_lock, active, sockinst, sent_to, failed, pending, answered,
                    pc, rc, result, owed, silent, oops>>
    BY <1>1 DEF LookAtSlot, sockVars, userVars, reqVars, ringVars, history
  <2>2. slot[p] \in Doms
    BY <1>0, <1>1, ListenersAssumption DEF LookAtSlot, PastLastSlot, BaseTypes, Doms
  <2>3. \/ rpc' = [rpc EXCEPT ![p] = "lock"] /\ slot' = slot /\ is_ring_ready(slot[p])
        \/ slot' = [slot EXCEPT ![p] = @ + 1] /\ rpc' = rpc /\ rpc[p] = "next"
    BY <1>1 DEF LookAtSlot
  <2>4. /\ slot' \in [Procs -> 1..(MAX_INS_COUNT + 1)]
        /\ rpc' \in [Procs -> {"off", "next", "lock", "create", "setup"}]
    <3>1. slot[p] + 1 \in 1..(MAX_INS_COUNT + 1)
      BY <2>2, ListenersAssumption DEF Doms
    <3> QED
      BY <1>0, <2>3, <3>1 DEF BaseTypes
  <2>5. Positions'
    BY <1>0, <2>1, <2>2, <2>3 DEF TypeInv, BaseTypes, Positions, Looking, is_ring_ready
  <2> QED
    BY <1>0, <2>1, <2>4, <2>5 DEF TypeInv, BaseTypes
<1>2. CASE BeginCreate(p)
  <2>1. UNCHANGED <<ins, home, siblings, accepting, blockid, read_expected, inbound,
                    slot, active, sockinst, sent_to, failed, pending, answered,
                    pc, rc, result, owed, silent, oops>>
    BY <1>2 DEF BeginCreate, sockVars, userVars, reqVars, ringVars, history
  <2>2. rpc[p] = "lock" /\ rpc' = [rpc EXCEPT ![p] = "create"] /\ sock_rep_lock' = p
    BY <1>2 DEF BeginCreate
  <2>3. Positions'
    BY <1>0, <2>1, <2>2, PositionsFrame DEF BaseTypes, Looking
  <2> QED
    BY <1>0, <2>1, <2>2, <2>3 DEF TypeInv, BaseTypes
<1>3. CASE Replicate(p)
  BY <1>2, <1>3, Numbers, ReplicateSteps, SendKeepsTypes DEF SendStep
<1>4. CASE CreateReplica(p)
  <2>1. UNCHANGED <<ins, home, accepting, blockid, read_expected, inbound, sock_rep_lock,
                    slot, active, sockinst, sent_to, failed, pending, answered,
                    pc, rc, result, owed, silent, oops>>
    BY <1>4 DEF CreateReplica, userVars, reqVars, ringVars, history
  <2>2. /\ rpc[p] = "create" /\ rpc' = [rpc EXCEPT ![p] = "setup"]
        /\ siblings' = siblings \cup {slot[p]}
    BY <1>4 DEF CreateReplica
  <2>3. Positions'
    BY <1>0, <2>1, <2>2, PositionsFrame DEF BaseTypes, Looking
  <2>4. slot[p] \in Doms
    BY <2>2 DEF TypeInv, Positions, Looking
  <2> QED
    BY <1>0, <2>1, <2>2, <2>3, <2>4 DEF TypeInv, BaseTypes
<1>5. CASE SetUpReplica(p)
  BY <1>5, SetUpSends, SendKeepsTypes DEF SendStep
<1>6. CASE ReplicaFails(p)
  <2>1. UNCHANGED <<ins, home, accepting, blockid, read_expected, inbound,
                    active, sockinst, sent_to, failed, pending, answered,
                    pc, result, owed, silent, oops>>
    BY <1>6 DEF ReplicaFails, userVars, reqVars, ringVars, history
  <2>2. /\ rpc[p] \in Looking /\ NextSlot(p, TRUE) /\ siblings' \subseteq siblings
    BY <1>6 DEF ReplicaFails, Looking
  <2>3. /\ sock_rep_lock' \in Procs \cup {Nobody}
        /\ rpc' \in [Procs -> {"off", "next", "lock", "create", "setup"}]
        /\ slot' \in [Procs -> 1..(MAX_INS_COUNT + 1)]
        /\ rc' \in [Procs -> 0..1]
        /\ Positions'
    BY <2>1, <2>2, NextSlotTypes, PositionsFrame
  <2> QED
    BY <1>0, <2>1, <2>2, <2>3 DEF TypeInv, BaseTypes
<1>7. CASE EndWorkItem(p)
  <2>1. UNCHANGED <<ins, home, siblings, accepting, blockid, read_expected, inbound,
                    sock_rep_lock, slot, active, sockinst, sent_to, failed, pending,
                    answered, pc, result, owed, silent, oops>>
    BY <1>7 DEF EndWorkItem, sockVars, userVars, reqVars, ringVars, history
  <2>2. rpc' = [rpc EXCEPT ![p] = "off"] /\ rc' = [rc EXCEPT ![p] = 0]
    BY <1>7 DEF EndWorkItem
  <2>4. rc' \in [Procs -> 0..1]
    <3>1. rc \in [Procs -> 0..1] /\ 0 \in 0..1
      BY <1>0 DEF BaseTypes
    <3> QED
      BY <2>2, <3>1
  <2>3. Positions'
    BY <1>0, <2>1, <2>2, PositionsFrame DEF BaseTypes, Looking
  <2> QED
    BY <1>0, <2>1, <2>2, <2>3, <2>4 DEF TypeInv, BaseTypes
<1> QED
  BY <1>1, <1>3, <1>4, <1>5, <1>6, <1>7 DEF Replicator

\* Requests that are destroyed keep the types.
LEMMA DestroyTypes ==
    ASSUME BaseTypes, NEW S, Destroy(S)
    PROVE  /\ active' \subseteq Ids /\ sockinst' \in [Ids -> Socks]
           /\ sent_to' \in [Ids -> Doms \cup {Unset}]
  BY Numbers DEF Destroy, BaseTypes

\* So does the user's thread.
LEMMA UserKeepsTypes ==
    ASSUME TypeInv, BeginWrite \/ EndWrite \/ BeginRead \/ TakeInbound
    PROVE  TypeInv'
<1>0. BaseTypes
  BY DEF TypeInv
<1>1. CASE BeginWrite
  <2>1. UNCHANGED <<ins, home, siblings, accepting, blockid, read_expected, inbound,
                    sock_rep_lock, rc, active, sockinst, sent_to, failed, pending,
                    answered, owed, silent, oops>>
    BY <1>1 DEF BeginWrite, sockVars, userVars, reqVars, ringVars, history
  <2>2. /\ pc' = "write" /\ result' = "none"
        /\ rpc' = [rpc EXCEPT ![User] = "next"]
        /\ slot' = [slot EXCEPT ![User] = 1]
    BY <1>1 DEF BeginWrite
  <2>3. Positions'
    BY <1>0, <2>1, <2>2, PositionsFrame DEF BaseTypes, Looking
  <2>4. 1 \in 1..(MAX_INS_COUNT + 1)
    BY ListenersAssumption
  <2>5. /\ slot' \in [Procs -> 1..(MAX_INS_COUNT + 1)]
        /\ rpc' \in [Procs -> {"off", "next", "lock", "create", "setup"}]
    <3>1. slot' \in [Procs -> 1..(MAX_INS_COUNT + 1)]
      BY <1>0, <2>2, <2>4 DEF BaseTypes
    <3>2. rpc' \in [Procs -> {"off", "next", "lock", "create", "setup"}]
      BY <1>0, <2>2 DEF BaseTypes
    <3> QED
      BY <3>1, <3>2
  <2> QED
    BY <1>0, <2>1, <2>2, <2>3, <2>5 DEF TypeInv, BaseTypes
<1>2. CASE EndWrite
  <2>1. UNCHANGED <<ins, home, siblings, accepting, blockid, inbound,
                    sock_rep_lock, slot, active, sockinst, sent_to, failed, pending,
                    answered, owed, silent, oops>>
    BY <1>2 DEF EndWrite, sockVars, reqVars, ringVars, history
  <2>2. /\ pc' \in {"mustread", "idle"} /\ result' \in {result, "error"}
        /\ rpc' = [rpc EXCEPT ![User] = "off"] /\ read_expected' \in BOOLEAN
        /\ rc' = [rc EXCEPT ![User] = 0]
    BY <1>2 DEF EndWrite
  <2>3. Positions'
    BY <1>0, <2>1, <2>2, PositionsFrame DEF BaseTypes, Looking
  <2>4. rc' \in [Procs -> 0..1]
    <3>1. rc \in [Procs -> 0..1] /\ 0 \in 0..1
      BY <1>0 DEF BaseTypes
    <3> QED
      BY <2>2, <3>1
  <2> QED
    BY <1>0, <2>1, <2>2, <2>3, <2>4 DEF TypeInv, BaseTypes
<1>3. CASE BeginRead
  <2>1. UNCHANGED <<ins, home, siblings, accepting, blockid, inbound,
                    sock_rep_lock, rpc, slot, rc, pending, answered, silent, oops>>
    BY <1>3 DEF BeginRead, sockVars, ringVars, replVars
  <2>2. /\ pc' \in {"await", "idle"} /\ result' \in {result, "error"}
        /\ read_expected' \in BOOLEAN
        /\ failed' \subseteq failed /\ owed' \subseteq owed
        /\ \E S : Destroy(S)
    BY <1>3 DEF BeginRead
  <2>3. Positions'
    BY <2>1, PositionsFrame
  <2> QED
    BY <1>0, <2>1, <2>2, <2>3, DestroyTypes DEF TypeInv, BaseTypes
<1>4. CASE TakeInbound
  <2>1. UNCHANGED <<ins, home, siblings, accepting, blockid, read_expected,
                    sock_rep_lock, rpc, slot, rc, pending, answered, silent>>
    BY <1>4 DEF TakeInbound, sockVars, ringVars, replVars
  <2>2. /\ pc' = "idle" /\ result' \in {"ok", "error"} /\ oops' \in BOOLEAN
        /\ inbound' = Tail(inbound) /\ inbound # <<>>
        /\ failed' \subseteq failed /\ owed' \subseteq owed /\ Destroy({Head(inbound)})
    BY <1>4 DEF TakeInbound, FreedFirst
  <2>3. inbound' \in Seq(Ids \cup {Unset})
    BY <1>0, <2>2, EntriesOfTail DEF BaseTypes
  <2>4. Positions'
    BY <2>1, PositionsFrame
  <2> QED
    BY <1>0, <2>1, <2>2, <2>3, <2>4, DestroyTypes DEF TypeInv, BaseTypes
<1> QED
  BY <1>1, <1>2, <1>3, <1>4

\* So do the INSs, the consumer and mitigation.
LEMMA InsKeepsTypes ==
    ASSUME TypeInv, NEW d \in Doms,
           \/ Ins(d) \/ InsCrashes(d) \/ mw_xen_release_ins(d) \/ mw_xen_ins_found(d)
           \/ Consumer \/ \E sock \in Socks : mwsocket_close_remote(sock)
    PROVE  TypeInv'
<1>0. BaseTypes
  BY DEF TypeInv
<1>1. CASE Ins(d)
  <2>1. PICK id \in Ids : InsAccepts(id)
    BY <1>1 DEF Ins
  <2>2. UNCHANGED <<ins, home, siblings, accepting, blockid, read_expected, inbound,
                    sock_rep_lock, rpc, slot, rc, active, sockinst, sent_to, failed,
                    pc, result, silent, oops>>
    BY <2>1 DEF InsAccepts, sockVars, userVars, reqVars, replVars
  <2>3. pending' \subseteq Ids /\ answered' \subseteq Ids /\ owed' \subseteq Ids
    BY <1>0, <2>1 DEF InsAccepts, BaseTypes
  <2>4. Positions'
    BY <2>2, PositionsFrame
  <2> QED
    BY <1>0, <2>2, <2>3, <2>4 DEF TypeInv, BaseTypes
<1>2. CASE InsCrashes(d)
  <2>2. UNCHANGED <<home, siblings, accepting, blockid, read_expected, inbound,
                    sock_rep_lock, rpc, slot, rc, active, sockinst, sent_to, failed,
                    pending, answered, pc, result, owed, silent, oops>>
    BY <1>2 DEF InsCrashes, sockVars, userVars, reqVars, ringVars, replVars, history
  <2>3. ins' = [ins EXCEPT ![d] = "crashed"]
    BY <1>2 DEF InsCrashes
  <2>4. Positions'
    BY <1>0, <2>2, <2>3, PositionsFrame DEF BaseTypes
  <2> QED
    BY <1>0, <2>2, <2>3, <2>4 DEF TypeInv, BaseTypes
<1>3. CASE mw_xen_release_ins(d)
  <2>2. UNCHANGED <<home, siblings, accepting, blockid, read_expected, inbound,
                    sock_rep_lock, rpc, slot, rc, active, sockinst, sent_to, failed,
                    pc, result, silent, oops>>
    BY <1>3 DEF mw_xen_release_ins, sockVars, userVars, reqVars, replVars
  <2>3. /\ ins' = [ins EXCEPT ![d] = "released"]
        /\ pending' \subseteq pending /\ answered' \subseteq answered /\ owed' \subseteq owed
    BY <1>3 DEF mw_xen_release_ins
  <2>4. Positions'
    BY <1>0, <2>2, <2>3, PositionsFrame DEF BaseTypes
  <2> QED
    BY <1>0, <2>2, <2>3, <2>4 DEF TypeInv, BaseTypes
<1>4. CASE mw_xen_ins_found(d)
  <2>2. UNCHANGED <<home, siblings, accepting, blockid, read_expected, inbound,
                    sock_rep_lock, slot, rc, active, sockinst, sent_to, failed,
                    pending, answered, pc, result, owed, silent, oops>>
    BY <1>4 DEF mw_xen_ins_found, sockVars, userVars, reqVars, ringVars, history
  <2>3. ins' = [ins EXCEPT ![d] = "up"] /\ rpc' = [rpc EXCEPT ![d] = "next"]
    BY <1>4 DEF mw_xen_ins_found
  <2>4. Positions'
    BY <1>0, <2>2, <2>3, PositionsFrame DEF BaseTypes, Looking
  <2> QED
    BY <1>0, <2>2, <2>3, <2>4 DEF TypeInv, BaseTypes
<1>5. ASSUME NEW id \in Ids, mwsocket_postproc_no_context(id) PROVE TypeInv'
  <2>2. UNCHANGED <<ins, home, siblings, blockid, read_expected, sock_rep_lock, rpc, slot,
                    rc, active, sockinst, sent_to, failed, pending, pc, result, owed,
                    silent>>
    BY <1>5 DEF mwsocket_postproc_no_context, userVars, replVars
  <2>3. /\ answered' \subseteq answered /\ accepting' \subseteq accepting
        /\ inbound' = Append(inbound, id) \/ inbound' = inbound
    BY <1>5 DEF mwsocket_postproc_no_context
  <2>4. inbound' \in Seq(Ids \cup {Unset})
    <3>1. inbound \in Seq(Ids \cup {Unset}) /\ id \in Ids \cup {Unset}
      BY <1>0 DEF BaseTypes
    <3> QED
      BY <2>3, <3>1, AppendProperties
  <2>5. Positions'
    BY <2>2, PositionsFrame
  <2>6. oops' \in BOOLEAN
    <3>1. oops' = oops \/ oops' = FreedLast(active)
      BY <1>5, Zenon DEF mwsocket_postproc_no_context
    <3> QED
      BY <1>0, <3>1 DEF FreedLast, BaseTypes
  <2> QED
    BY <1>0, <2>2, <2>3, <2>4, <2>5, <2>6 DEF TypeInv, BaseTypes
<1>6. CASE FinishResponse
  <2>1. UNCHANGED <<ins, home, siblings, accepting, blockid, read_expected, inbound,
                    sock_rep_lock, rpc, slot, rc, failed, pending, answered, pc, result,
                    silent>>
    BY <1>6 DEF FinishResponse, sockVars, userVars, replVars
  <2>2. owed' \subseteq owed /\ oops' \in BOOLEAN /\ \E S : Destroy(S)
    BY <1>6 DEF FinishResponse
  <2>3. Positions'
    BY <2>1, PositionsFrame
  <2> QED
    BY <1>0, <2>1, <2>2, <2>3, DestroyTypes DEF TypeInv, BaseTypes
<1>7. CASE \E sock \in Socks : mwsocket_close_remote(sock)
  <2>1. UNCHANGED <<ins, home, siblings, accepting, blockid, read_expected, inbound,
                    sock_rep_lock, slot, rpc, active, sockinst, sent_to, failed, pending,
                    answered, pc, rc, result, owed, silent, oops>>
    BY <1>7 DEF mwsocket_close_remote, userVars, reqVars, ringVars, replVars, history
  <2>2. Positions'
    BY <2>1, PositionsFrame
  <2> QED
    BY <1>0, <2>1, <2>2 DEF TypeInv, BaseTypes
<1> QED
  BY <1>1, <1>2, <1>3, <1>4, <1>5, <1>6, <1>7 DEF Consumer

\* What the monitor thread does to INSs and replicas in any case.
LEMMA ReaperEffect ==
    ASSUME TypeInv, mwsocket_reap_dead_sock_instances
    PROVE  /\ DeadIns # {} /\ DeadIns \subseteq Doms
           /\ ins' = [d \in Doms |-> IF d \in DeadIns THEN "reaped" ELSE ins[d]]
           /\ UNCHANGED <<blockid, pc, result, pending, answered, handling, sock_rep_lock,
                          rpc, slot, rc, owed, silent>>
           /\ \/ /\ home \in DeadIns /\ User \in accepting
                 /\ \E s \in Replacements : Promote(s)
              \/ home \in DeadIns /\ User \in accepting /\ FailAccept
              \/ ~(home \in DeadIns /\ User \in accepting) /\ DropReplicas
<1>1. UNCHANGED <<blockid, pc, result, pending, answered, handling, sock_rep_lock, rpc,
                  slot, rc, owed, silent>>
  BY DEF mwsocket_reap_dead_sock_instances, ringVars, replVars
<1> QED
  BY <1>1, Zenon DEF mwsocket_reap_dead_sock_instances, DeadIns

\* The monitor thread keeps the types.
LEMMA ReaperKeepsTypes ==
    ASSUME TypeInv, mwsocket_reap_dead_sock_instances
    PROVE  TypeInv'
<1>0. BaseTypes
  BY DEF TypeInv
<1>1. /\ DeadIns \subseteq Doms
      /\ ins' = [d \in Doms |-> IF d \in DeadIns THEN "reaped" ELSE ins[d]]
      /\ UNCHANGED <<blockid, pc, result, pending, answered, sock_rep_lock, rpc, slot, rc,
                     owed, silent>>
  BY ReaperEffect
<1>2. /\ ins' \in [Doms -> {"off", "up", "crashed", "released", "reaped"}]
      /\ \A d \in Doms : ins[d] # "off" => ins'[d] # "off"
  BY <1>0, <1>1 DEF BaseTypes
<1>3. Positions'
  BY <1>1, <1>2, PositionsFrame
<1>4. /\ home' \in Doms /\ ins'[home'] # "off" /\ siblings' \subseteq Doms
      /\ accepting' \subseteq Socks /\ active' \subseteq Ids
      /\ sockinst' \in [Ids -> Socks] /\ sent_to' \in [Ids -> Doms \cup {Unset}]
      /\ read_expected' \in BOOLEAN /\ oops' \in BOOLEAN
      /\ inbound' \in Seq(Ids \cup {Unset}) /\ failed' \subseteq Ids \cup {Unset}
  <2>1. CASE \E s \in Replacements : Promote(s)
    <3>1. PICK s \in Replacements : Promote(s)
      BY <2>1
    <3>2. /\ s \in Doms /\ ins[s] # "off" /\ home' = s
          /\ read_expected' = FALSE /\ UNCHANGED <<inbound, failed>>
          /\ siblings' \subseteq siblings /\ accepting' \subseteq accepting \cup {User}
          /\ oops' \in BOOLEAN /\ TakeOverRequests(s)
      BY <1>0, <3>1 DEF Promote, Replacements, is_ring_ready, BaseTypes
    <3>3. active' \subseteq Ids /\ sockinst' \in [Ids -> Socks]
          /\ sent_to' \in [Ids -> Doms \cup {Unset}]
      BY <1>0, <3>2, Numbers DEF TakeOverRequests, BaseTypes
    <3> QED
      BY <1>0, <1>2, <3>2, <3>3, Numbers DEF BaseTypes
  <2>2. CASE FailAccept \/ DropReplicas
    <3>1. /\ home' = home /\ siblings' \subseteq siblings /\ accepting' \subseteq accepting
          /\ UNCHANGED read_expected /\ oops' \in BOOLEAN /\ Destroy(Reaped)
          /\ inbound' = inbound \/ inbound' = Append(inbound, blockid)
          /\ failed' \subseteq failed \cup {blockid}
      BY <1>0, <2>2 DEF FailAccept, DropReplicas, BaseTypes
    <3>2. inbound' \in Seq(Ids \cup {Unset}) /\ failed' \subseteq Ids \cup {Unset}
      <4>1. inbound \in Seq(Ids \cup {Unset}) /\ blockid \in Ids \cup {Unset}
        BY <1>0 DEF BaseTypes
      <4>2. inbound' \in Seq(Ids \cup {Unset})
        BY <3>1, <4>1, AppendProperties
      <4> QED
        BY <1>0, <3>1, <4>2 DEF BaseTypes
    <3> QED
      BY <1>0, <1>2, <3>1, <3>2, DestroyTypes DEF TypeInv, BaseTypes
  <2> QED
    BY <2>1, <2>2, ReaperEffect
<1> QED
  BY <1>0, <1>1, <1>2, <1>3, <1>4 DEF TypeInv, BaseTypes

\* Every step keeps the types.
LEMMA TypeInvPreserved == TypeInv /\ [Next]_vars => TypeInv'
<1> SUFFICES ASSUME TypeInv, [Next]_vars PROVE TypeInv'
  OBVIOUS
<1>1. CASE UNCHANGED vars
  <2>1. UNCHANGED <<ins, home, siblings, accepting, blockid, read_expected, inbound,
                    sock_rep_lock, slot, rpc, active, sockinst, sent_to, failed, pending,
                    answered, pc, rc, result, owed, silent, oops>>
    BY <1>1 DEF vars, sockVars, userVars, reqVars, ringVars, replVars, history
  <2>2. Positions'
    BY <2>1, PositionsFrame
  <2> QED
    BY <2>1, <2>2 DEF TypeInv, BaseTypes
<1>2. CASE Next
  BY <1>2, Numbers, ReplicatorKeepsTypes, UserKeepsTypes, InsKeepsTypes, ReaperKeepsTypes
     DEF Next, Accept
<1> QED
  BY <1>1, <1>2

\* The types hold in every state.
LEMMA TypesAlways == Spec => []TypeInv
  BY TypeInvInitially, TypeInvPreserved, PTL DEF Spec

\* So do the other types.
LEMMA MoreTypesPreserved == TypeInv /\ MoreTypes /\ [Next]_vars => MoreTypes'
<1> SUFFICES ASSUME TypeInv, MoreTypes, [Next]_vars PROVE MoreTypes'
  OBVIOUS
<1>0. /\ siblings \subseteq Socks /\ User \in Socks /\ Doms \subseteq Socks
      /\ blockid \in Ids \cup {Unset}
  BY DEF TypeInv, BaseTypes, Socks
<1>1. CASE UNCHANGED <<closing, stale, undelivered, handling>>
  BY <1>1 DEF MoreTypes
<1>2. ASSUME NEW p \in Procs, Replicator(p) PROVE MoreTypes'
  <2>1. CASE LookAtSlot(p) \/ CreateReplica(p) \/ EndWorkItem(p)
    BY <1>1, <2>1 DEF LookAtSlot, CreateReplica, EndWorkItem, sockVars, reqVars, ringVars
  <2>2. CASE BeginCreate(p)
    BY <1>1, <2>2 DEF BeginCreate, sockVars, reqVars, ringVars
  <2>3. ASSUME NEW sock, SendStep(p, sock) PROVE MoreTypes'
    BY <2>3 DEF SendStep, MoreTypes
  <2>4. CASE ReplicaFails(p)
    <3>1. slot[p] \in Socks
      BY <1>0, <2>4 DEF ReplicaFails, TypeInv, Positions, Looking
    <3>2. /\ UNCHANGED <<undelivered, handling>> /\ closing' \subseteq closing
          /\ stale' = stale \/ stale' = stale \cup {slot[p]}
      BY <2>4 DEF ReplicaFails, reqVars, ringVars
    <3> QED
      BY <3>1, <3>2 DEF MoreTypes
  <2> QED
    BY <1>2, <2>1, <2>2, <2>3, <2>4, ReplicateSteps, SetUpSends DEF Replicator
<1>3. CASE BeginWrite \/ EndWrite
  BY <1>1, <1>3 DEF BeginWrite, EndWrite, sockVars, reqVars, ringVars
<1>4. CASE BeginRead \/ TakeInbound
  <2>1. UNCHANGED <<closing, stale, handling>> /\ undelivered' \subseteq undelivered
    BY <1>4 DEF BeginRead, TakeInbound, sockVars, ringVars
  <2> QED
    BY <2>1 DEF MoreTypes
<1>5. ASSUME NEW id \in Ids, mwsocket_postproc_no_context(id) PROVE MoreTypes'
  <2>1. /\ UNCHANGED <<closing, stale>> /\ handling' \in {handling, id}
        /\ undelivered' \subseteq undelivered \cup {id}
    BY <1>5 DEF mwsocket_postproc_no_context
  <2> QED
    BY <2>1 DEF MoreTypes
<1>6. CASE FinishResponse
  <2>1. /\ UNCHANGED <<closing, stale>> /\ handling' \in {handling, Unset}
        /\ undelivered' \subseteq undelivered
    BY <1>6 DEF FinishResponse, sockVars
  <2> QED
    BY <2>1 DEF MoreTypes
<1>7. ASSUME NEW d \in Doms,
             Ins(d) \/ InsCrashes(d) \/ mw_xen_release_ins(d) \/ mw_xen_ins_found(d)
      PROVE  MoreTypes'
  BY <1>1, <1>7 DEF Ins, InsAccepts, InsCrashes, mw_xen_release_ins, mw_xen_ins_found,
     sockVars, reqVars, ringVars
<1>8. CASE mwsocket_reap_dead_sock_instances
  <2>1. handling' = handling /\ stale' \subseteq stale
    BY <1>8 DEF mwsocket_reap_dead_sock_instances, ringVars
  <2>2. /\ closing' \subseteq closing \cup {User}
        /\ undelivered' \subseteq undelivered \cup {blockid}
    <3>1. ASSUME NEW s, Promote(s)
          PROVE  /\ closing' \subseteq closing \cup {User}
                 /\ undelivered' \subseteq undelivered
      BY <3>1 DEF Promote, TakeOverRequests
    <3>2. ASSUME FailAccept \/ DropReplicas
          PROVE  /\ closing' \subseteq closing
                 /\ undelivered' \subseteq undelivered \cup {blockid}
      BY <3>2 DEF FailAccept, DropReplicas
    <3> QED
      BY <1>8, <3>1, <3>2, ReaperEffect
  <2> QED
    BY <1>0, <2>1, <2>2 DEF MoreTypes
<1>9. ASSUME NEW sock \in Socks, mwsocket_close_remote(sock) PROVE MoreTypes'
  <2>1. UNCHANGED <<stale, undelivered, handling>> /\ closing' = closing \cup {sock}
    BY <1>9 DEF mwsocket_close_remote, reqVars, ringVars
  <2> QED
    BY <2>1 DEF MoreTypes
<1>10. CASE UNCHANGED vars
  BY <1>1, <1>10 DEF vars, sockVars, reqVars, ringVars
<1> QED
  BY <1>2, <1>3, <1>4, <1>5, <1>6, <1>7, <1>8, <1>9, <1>10 DEF Next, Accept, Consumer

\* For any number of INSs, work items and accepts, every variable keeps its type:
\* replicators stay within the table of INSs, and what the reaper and the
\* promotion of a replica write are sockets, INSs and requests that exist.
THEOREM ListenersTypeCorrect == Spec => []TypeOK
<1>1. TypeInv /\ MoreTypes => TypeOK
  BY DEF TypeInv, BaseTypes, MoreTypes, TypeOK
<1>2. Init => MoreTypes
  BY DEF Init, MoreTypes
<1> QED
  BY <1>1, <1>2, MoreTypesPreserved, TypesAlways, PTL DEF Spec
-----------------------------------------------------------------------------
(* Accepts.                                                                *)

\* The INS of a socket, the accepts that are not queued yet, and those that an
\* INS or the consumer has.
InsOf(s)    == IF s = User THEN home ELSE s
Outstanding == active \ ToSet(inbound)
OnRing      == pending \cup answered

\* The sockets with the flag exist, and one that is being set up has none yet.
Flags ==
    /\ accepting \subseteq {User} \cup siblings
    /\ \A p \in Procs : rpc[p] = "setup" => slot[p] \in siblings \ accepting
    /\ User \in accepting => ins[home] # "reaped"
    /\ closing \subseteq {User} \cup siblings

\* An accept is sent to the INS of its socket, which has the flag until the
\* accept is queued, and no other accept meanwhile.
Sent ==
    /\ \A i \in active : sent_to[i] = InsOf(sockinst[i])
    /\ \A i \in Outstanding : sockinst[i] \in accepting
    /\ \A i, j \in Outstanding : sockinst[i] = sockinst[j] => i = j
    /\ blockid \in active => sockinst[blockid] = User

\* What is on a ring is outstanding, and that ring is in use.
Rings ==
    /\ OnRing \subseteq Outstanding
    /\ pending \cap answered = {}
    /\ \A i \in OnRing \cup owed : is_ring_ready(sent_to[i])

\* No INS has been given up, and mitigation has closed nothing.
Undisturbed ==
    /\ \A d \in Doms : ins[d] \notin {"released", "reaped"}
    /\ closing = {}

\* Every connection is queued once, and until something is disturbed its accept
\* exists.  What is not to be delivered is queued, and so is the request that the
\* consumer is at, unless the user's thread was faster.
Queued ==
    /\ NoRepeats(inbound)
    /\ undelivered \subseteq active /\ undelivered \subseteq ToSet(inbound)
    /\ handling \in active => handling \in ToSet(inbound)
    /\ Undisturbed => ToSet(inbound) \subseteq active /\ undelivered = {}

\* A connection of an INS in use is on its way.
Kept == owed \subseteq active /\ owed \subseteq answered \cup ToSet(inbound)

AcceptInv == Flags /\ Sent /\ Rings /\ Queued /\ Kept

\* The variables these speak of.
acceptVars == <<ins, home, siblings, accepting, closing, blockid, inbound, active,
                sockinst, sent_to, undelivered, pending, answered, handling, owed>>

\* Steps that touch none of them, and begin no set-up.
LEMMA AcceptFrame ==
    ASSUME AcceptInv, UNCHANGED acceptVars,
           \A p \in Procs : rpc'[p] = "setup" => rpc[p] = "setup" /\ slot'[p] = slot[p]
    PROVE  AcceptInv'
<1>1. UNCHANGED <<ins, home, siblings, accepting, closing, blockid, inbound, active,
                  sockinst, sent_to, undelivered, pending, answered, handling, owed>>
  BY DEF acceptVars
<1>2. OnRing' = OnRing /\ Outstanding' = Outstanding
  BY <1>1 DEF OnRing, Outstanding
<1>3. Flags'
  BY <1>1 DEF AcceptInv, Flags
<1>4. Sent'
  BY <1>1, <1>2 DEF AcceptInv, Sent, InsOf
<1>5. Rings'
  BY <1>1, <1>2 DEF AcceptInv, Rings, is_ring_ready
<1>6. Queued' /\ Kept'
  BY <1>1 DEF AcceptInv, Queued, Undisturbed, Kept, NoRepeats
<1> QED
  BY <1>3, <1>4, <1>5, <1>6 DEF AcceptInv

\* A new accept is the only one of its socket.
LEMMA SendKeepsAccepts ==
    ASSUME TypeInv, AcceptInv, NEW p \in Procs, NEW sock \in {User} \cup siblings,
           SendStep(p, sock), slot[p] = InsOf(sock),
           \A q \in Procs \ {p} : rpc[q] # "setup"
    PROVE  AcceptInv'
<1>0. /\ BaseTypes /\ Flags /\ Sent /\ Rings /\ Queued /\ Kept
  BY DEF TypeInv, AcceptInv
<1>1. UNCHANGED <<ins, home, siblings, closing, inbound, undelivered, answered, handling,
                  owed>>
  BY DEF SendStep
<1>2. \A q \in Procs : rpc'[q] # "setup"
  BY <1>0 DEF SendStep, NextSlot, BaseTypes
<1>3. CASE NoAccept(sock, slot[p])
  <2>1. UNCHANGED acceptVars
    BY <1>1, <1>3 DEF NoAccept, acceptVars
  <2> QED
    BY <1>2, <2>1, AcceptFrame
<1>4. CASE \E n \in Ids \ Known : NewAccept(p, n, sock, slot[p])
  <2>1. PICK n \in Ids \ Known : NewAccept(p, n, sock, slot[p])
    BY <1>4
  <2>2. n \notin active /\ n \notin ToSet(inbound) /\ n # blockid /\ n # handling
    BY Numbers DEF Known
  <2>3. /\ sock \notin accepting /\ is_ring_ready(slot[p])
        /\ accepting' = accepting \cup {sock}
        /\ active' = active \cup {n} /\ pending' = pending \cup {n}
        /\ sockinst' = [sockinst EXCEPT ![n] = sock]
        /\ sent_to' = [sent_to EXCEPT ![n] = slot[p]]
        /\ (sock = User /\ blockid' = n) \/ blockid' = blockid
    BY <2>1 DEF NewAccept, CallerWaits
  <2>4. Outstanding' = Outstanding \cup {n} /\ OnRing' = OnRing \cup {n}
    BY <1>1, <2>2, <2>3 DEF Outstanding, OnRing
  <2>5. n \notin Outstanding /\ n \notin OnRing /\ n \notin owed
    BY <1>0, <2>2 DEF Outstanding, Rings, Kept
  <2>6. /\ sockinst'[n] = sock /\ sent_to'[n] = slot[p]
        /\ \A i \in Ids \ {n} : sockinst'[i] = sockinst[i] /\ sent_to'[i] = sent_to[i]
    BY <1>0, <2>3 DEF BaseTypes
  <2>7. /\ active \subseteq Ids /\ Outstanding \subseteq active /\ OnRing \subseteq Ids
        /\ owed \subseteq Ids /\ \A s : InsOf(s)' = InsOf(s)
    BY <1>0, <1>1 DEF BaseTypes, Outstanding, OnRing, InsOf
  <2>8. Flags'
    BY <1>0, <1>1, <1>2, <2>3 DEF Flags, InsOf, is_ring_ready
  <2>9. Sent'
    <3>1. \A i \in active' : sent_to'[i] = InsOf(sockinst'[i])
      BY <1>0, <2>2, <2>3, <2>6, <2>7 DEF Sent
    <3>2. \A i \in Outstanding' : sockinst'[i] \in accepting'
      BY <1>0, <2>3, <2>4, <2>5, <2>6, <2>7 DEF Sent
    <3>3. \A i, j \in Outstanding' : sockinst'[i] = sockinst'[j] => i = j
      BY <1>0, <2>3, <2>4, <2>5, <2>6, <2>7 DEF Sent
    <3>4. blockid' \in active' => sockinst'[blockid'] = User
      BY <1>0, <2>2, <2>3, <2>6, <2>7 DEF Sent
    <3>5. \A i \in active' : sent_to'[i] = InsOf(sockinst[i])'
      BY <1>1, <3>1 DEF InsOf
    <3> QED
      BY <3>2, <3>3, <3>4, <3>5 DEF Sent
  <2>10. Rings'
    <3>1. \A d : is_ring_ready(d)' <=> is_ring_ready(d)
      BY <1>1 DEF is_ring_ready
    <3>2. OnRing' \subseteq Outstanding' /\ pending' \cap answered' = {}
      BY <1>0, <1>1, <2>3, <2>4, <2>5 DEF Rings, OnRing
    <3>3. \A i \in OnRing' \cup owed' : ins'[sent_to'[i]] \in {"up", "crashed"}
      BY <1>0, <1>1, <2>3, <2>4, <2>5, <2>6, <2>7 DEF Rings, is_ring_ready
    <3> QED
      BY <3>2, <3>3 DEF Rings, is_ring_ready
  <2>11. Queued' /\ Kept'
    BY <1>0, <1>1, <2>2, <2>3 DEF Queued, Undisturbed, Kept, NoRepeats
  <2> QED
    BY <2>8, <2>9, <2>10, <2>11 DEF AcceptInv
<1> QED
  BY <1>3, <1>4 DEF SendStep

\* The steps of a replicator keep the accepts in order.
LEMMA ReplicatorKeepsAccepts ==
    ASSUME TypeInv, ReplicaInv, AcceptInv, ~oops, NEW p \in Procs, Replicator(p)
    PROVE  AcceptInv'
<1>0. BaseTypes /\ Flags /\ home \notin siblings /\ NoSocketYet
  BY DEF TypeInv, AcceptInv, ReplicaInv
<1>1. CASE LookAtSlot(p)
  <2>1. UNCHANGED acceptVars /\ rpc[p] = "next"
    BY <1>1 DEF LookAtSlot, acceptVars, sockVars, userVars, reqVars, ringVars, history
  <2>2. \/ rpc' = [rpc EXCEPT ![p] = "lock"] /\ slot' = slot
        \/ slot' = [slot EXCEPT ![p] = @ + 1] /\ rpc' = rpc
    BY <1>1 DEF LookAtSlot
  <2> QED
    BY <1>0, <2>1, <2>2, AcceptFrame DEF BaseTypes
<1>2. CASE Replicate(p)
  <2>1. CASE BeginCreate(p)
    <3>1. UNCHANGED acceptVars /\ slot' = slot /\ rpc' = [rpc EXCEPT ![p] = "create"]
      BY <2>1 DEF BeginCreate, acceptVars, sockVars, userVars, reqVars, ringVars, history
    <3> QED
      BY <1>0, <3>1, AcceptFrame DEF BaseTypes
  <2>2. CASE sock_rep_lock = Nobody
    <3>1. \A q \in Procs : rpc[q] # "setup"
      BY <2>2, NobodyWaits DEF Waiting
    <3>2. ASSUME slot[p] = home, SendStep(p, User) PROVE AcceptInv'
      BY <3>1, <3>2, SendKeepsAccepts DEF InsOf
    <3>3. ASSUME slot[p] # home, slot[p] \in siblings, SendStep(p, slot[p])
          PROVE  AcceptInv'
      <4>1. slot[p] # User
        BY <1>0, <3>3, Numbers DEF BaseTypes
      <4> QED
        BY <3>1, <3>3, <4>1, SendKeepsAccepts DEF InsOf
    <3> QED
      BY <1>2, <2>1, <3>2, <3>3, ReplicateSteps
  <2> QED
    BY <1>2, <2>1, <2>2, ReplicateSteps
<1>3. CASE CreateReplica(p)
  <2>1. /\ UNCHANGED <<ins, home, accepting, closing, blockid, inbound, active, sockinst,
                       sent_to, undelivered, pending, answered, handling, owed, slot>>
        /\ rpc[p] = "create" /\ siblings' = siblings \cup {slot[p]}
        /\ rpc' = [rpc EXCEPT ![p] = "setup"]
    BY <1>3 DEF CreateReplica, userVars, reqVars, ringVars, history
  <2>2. slot[p] \in Doms /\ slot[p] \notin siblings
    BY <1>0, <2>1 DEF TypeInv, Positions, Looking, NoSocketYet
  <2>3. slot[p] \notin accepting
    BY <1>0, <2>2, Numbers DEF Flags
  <2>4. Flags'
    BY <1>0, <2>1, <2>3 DEF Flags, BaseTypes
  <2>5. Sent' /\ Rings' /\ Queued' /\ Kept'
    <3>1. Outstanding' = Outstanding /\ OnRing' = OnRing
      BY <2>1 DEF Outstanding, OnRing
    <3>2. Sent'
      BY <2>1, <3>1 DEF AcceptInv, Sent, InsOf
    <3>3. Rings'
      BY <2>1, <3>1 DEF AcceptInv, Rings, is_ring_ready
    <3> QED
      BY <2>1, <3>2, <3>3 DEF AcceptInv, Queued, Undisturbed, Kept, NoRepeats
  <2> QED
    BY <2>4, <2>5 DEF AcceptInv
<1>4. CASE SetUpReplica(p)
  <2>1. rpc[p] = "setup" /\ SendStep(p, slot[p])
    BY <1>4, SetUpSends
  <2>2. \A q \in Procs \ {p} : rpc[q] # "setup"
    BY <2>1, OneWaits DEF Waiting
  <2>3. slot[p] \in siblings /\ slot[p] # User
    BY <1>0, <2>1, Numbers DEF Flags, BaseTypes
  <2> QED
    BY <2>1, <2>2, <2>3, SendKeepsAccepts DEF InsOf
<1>5. CASE ReplicaFails(p)
  <2>1. /\ UNCHANGED <<ins, home, accepting, blockid, inbound, active, sockinst, sent_to,
                       undelivered, pending, answered, handling, owed>>
        /\ Waiting(p) /\ NextSlot(p, TRUE)
        /\ siblings' = siblings \/ siblings' = siblings \ {slot[p]}
        /\ closing' = closing \cap ({User} \cup siblings')
        /\ rpc[p] = "create" \/ ~is_ring_ready(slot[p])
    BY <1>5 DEF ReplicaFails, userVars, reqVars, ringVars, history, Waiting
  <2>2. slot[p] \notin accepting
    <3>1. rpc[p] = "create" => slot[p] \notin siblings /\ slot[p] \in Doms
      BY <1>0 DEF NoSocketYet, TypeInv, Positions, Looking
    <3> QED
      BY <1>0, <2>1, <3>1, Numbers DEF Flags, Waiting
  <2>3. \A q \in Procs : rpc'[q] # "setup"
    BY <1>0, <2>1, OneWaits DEF Waiting, NextSlot, BaseTypes
  <2>4. Flags'
    BY <1>0, <2>1, <2>2, <2>3 DEF Flags
  <2>5. Sent' /\ Rings' /\ Queued' /\ Kept'
    <3>1. Outstanding' = Outstanding /\ OnRing' = OnRing
      BY <2>1 DEF Outstanding, OnRing
    <3>2. Sent'
      BY <2>1, <3>1 DEF AcceptInv, Sent, InsOf
    <3>3. Rings'
      BY <2>1, <3>1 DEF AcceptInv, Rings, is_ring_ready
    <3>4. Undisturbed' => Undisturbed
      <4>1. CASE rpc[p] = "create"
        <5>1. closing' = closing
          BY <1>0, <2>1, <4>1 DEF NoSocketYet, Flags
        <5> QED
          BY <2>1, <5>1 DEF Undisturbed
      <4>2. CASE ~is_ring_ready(slot[p])
        <5>1. slot[p] \in Doms /\ ins[slot[p]] # "off"
          BY <2>1 DEF TypeInv, Positions, Looking, Waiting
        <5>2. ins[slot[p]] \in {"released", "reaped"}
          BY <1>0, <4>2, <5>1 DEF BaseTypes, is_ring_ready
        <5> QED
          BY <2>1, <5>1, <5>2 DEF Undisturbed
      <4> QED
        BY <2>1, <4>1, <4>2
    <3> QED
      BY <2>1, <3>2, <3>3, <3>4 DEF AcceptInv, Queued, Kept, NoRepeats
  <2> QED
    BY <2>4, <2>5 DEF AcceptInv
<1>6. CASE EndWorkItem(p)
  <2>1. UNCHANGED acceptVars /\ slot' = slot /\ rpc' = [rpc EXCEPT ![p] = "off"]
    BY <1>6 DEF EndWorkItem, acceptVars, sockVars, userVars, reqVars, ringVars, history
  <2> QED
    BY <1>0, <2>1, AcceptFrame DEF BaseTypes
<1> QED
  BY <1>1, <1>2, <1>3, <1>4, <1>5, <1>6 DEF Replicator

\* INSs join, answer, crash and are released.
LEMMA InsKeepsAccepts ==
    ASSUME TypeInv, AcceptInv, NEW d \in Doms,
           Ins(d) \/ InsCrashes(d) \/ mw_xen_release_ins(d) \/ mw_xen_ins_found(d)
    PROVE  AcceptInv'
<1>0. /\ BaseTypes /\ Flags /\ Sent /\ Rings /\ Queued /\ Kept
  BY DEF TypeInv, AcceptInv
<1>1. CASE Ins(d)
  <2>1. PICK id \in Ids : InsAccepts(id)
    BY <1>1 DEF Ins
  <2>2. /\ UNCHANGED <<ins, home, siblings, accepting, closing, blockid, inbound, active,
                       sockinst, sent_to, undelivered, handling, rpc, slot>>
        /\ id \in pending /\ pending' = pending \ {id} /\ answered' = answered \cup {id}
        /\ owed' \subseteq owed \cup {id}
    BY <2>1 DEF InsAccepts, sockVars, userVars, reqVars, replVars
  <2>3. Outstanding' = Outstanding /\ OnRing' = OnRing
    BY <2>2 DEF Outstanding, OnRing
  <2>4. Flags' /\ Queued'
    BY <1>0, <2>2 DEF Flags, Queued, Undisturbed, NoRepeats
  <2>5. Sent'
    BY <1>0, <2>2, <2>3 DEF Sent, InsOf
  <2>6. Rings'
    <3>1. OnRing' \cup owed' \subseteq OnRing \cup owed
      BY <2>2, <2>3 DEF OnRing
    <3>2. \A i \in OnRing' \cup owed' : is_ring_ready(sent_to[i])'
      BY <1>0, <2>2, <3>1 DEF Rings, is_ring_ready
    <3>3. pending' \cap answered' = {}
      BY <1>0, <2>2 DEF Rings
    <3> QED
      BY <1>0, <2>3, <3>2, <3>3 DEF Rings
  <2>7. Kept'
    <3>1. id \in active
      BY <1>0, <2>2 DEF Rings, OnRing, Outstanding
    <3> QED
      BY <1>0, <2>2, <3>1 DEF Kept
  <2> QED
    BY <2>4, <2>5, <2>6, <2>7 DEF AcceptInv
<1>2. CASE InsCrashes(d) \/ mw_xen_ins_found(d)
  <2>1. /\ UNCHANGED <<home, siblings, accepting, closing, blockid, inbound, active,
                       sockinst, sent_to, undelivered, slot, pending, answered, handling,
                       owed>>
        /\ ins' = [ins EXCEPT ![d] = "crashed"] \/ ins' = [ins EXCEPT ![d] = "up"]
        /\ ins[d] \notin {"released", "reaped"}
        /\ rpc' = rpc \/ rpc' = [rpc EXCEPT ![d] = "next"]
    BY <1>2 DEF InsCrashes, mw_xen_ins_found, sockVars, userVars, reqVars, ringVars,
       replVars, history
  <2>2. /\ \A e : is_ring_ready(e) /\ e \in Doms => is_ring_ready(e)'
        /\ \A e \in Doms : ins'[e] = "reaped" <=> ins[e] = "reaped"
        /\ \A e \in Doms : ins'[e] = "released" <=> ins[e] = "released"
        /\ \A q \in Procs : rpc'[q] = "setup" => rpc[q] = "setup"
    BY <1>0, <2>1 DEF BaseTypes, is_ring_ready
  <2>3. Outstanding' = Outstanding /\ OnRing' = OnRing
    BY <2>1 DEF Outstanding, OnRing
  <2>4. Flags'
    BY <1>0, <2>1, <2>2 DEF Flags, BaseTypes
  <2>5. Sent'
    BY <1>0, <2>1, <2>3 DEF Sent, InsOf
  <2>6. Rings'
    <3>1. \A i \in OnRing \cup owed : sent_to[i] \in Doms
      <4>1. \A i \in OnRing \cup owed : i \in active
        BY <1>0 DEF Rings, Outstanding, Kept
      <4>2. \A i \in active : sent_to[i] \in Doms
        BY <1>0, Numbers DEF Sent, InsOf, BaseTypes
      <4> QED
        BY <4>1, <4>2
    <3>2. \A i \in OnRing' \cup owed' : is_ring_ready(sent_to[i])'
      BY <1>0, <2>1, <2>2, <2>3, <3>1 DEF Rings, is_ring_ready
    <3> QED
      BY <1>0, <2>1, <2>3, <3>2 DEF Rings
  <2>7. Queued' /\ Kept'
    <3>1. Undisturbed' => Undisturbed
      BY <2>1, <2>2 DEF Undisturbed
    <3> QED
      BY <1>0, <2>1, <3>1 DEF Queued, Kept, NoRepeats
  <2> QED
    BY <2>4, <2>5, <2>6, <2>7 DEF AcceptInv
<1>3. CASE mw_xen_release_ins(d)
  <2>1. /\ UNCHANGED <<home, siblings, accepting, closing, blockid, inbound, active,
                       sockinst, sent_to, undelivered, handling, slot, rpc>>
        /\ ins' = [ins EXCEPT ![d] = "released"] /\ is_ring_ready(d)
        /\ pending' = {id \in pending : sent_to[id] # d}
        /\ answered' = {id \in answered : sent_to[id] # d}
        /\ owed' = {id \in owed : sent_to[id] # d}
    BY <1>3 DEF mw_xen_release_ins, sockVars, userVars, reqVars, replVars
  <2>2. /\ \A e : e # d => ins'[e] = ins[e]
        /\ \A e \in Doms : ins'[e] = "reaped" <=> ins[e] = "reaped"
    BY <1>0, <2>1 DEF BaseTypes, is_ring_ready
  <2>3. /\ Outstanding' = Outstanding /\ OnRing' \subseteq OnRing
        /\ \A i \in OnRing' \cup owed' : i \in OnRing \cup owed /\ sent_to[i] # d
    BY <2>1 DEF Outstanding, OnRing
  <2>4. Flags'
    BY <1>0, <2>1, <2>2 DEF Flags, BaseTypes
  <2>5. Sent'
    BY <1>0, <2>1, <2>3 DEF Sent, InsOf
  <2>6. Rings'
    <3>1. \A i \in OnRing' \cup owed' : is_ring_ready(sent_to[i])'
      BY <1>0, <2>1, <2>2, <2>3 DEF Rings, is_ring_ready
    <3>2. pending' \cap answered' = {}
      BY <1>0, <2>1 DEF Rings
    <3> QED
      BY <1>0, <2>3, <3>1, <3>2 DEF Rings
  <2>7. Queued' /\ Kept'
    <3>1. ~Undisturbed'
      BY <1>0, <2>1 DEF Undisturbed, BaseTypes
    <3> QED
      BY <1>0, <2>1, <3>1 DEF Queued, Kept, NoRepeats
  <2> QED
    BY <2>4, <2>5, <2>6, <2>7 DEF AcceptInv
<1> QED
  BY <1>1, <1>2, <1>3

\* The consumer queues a connection.
LEMMA ConsumerKeepsAccepts ==
    ASSUME TypeInv, AcceptInv, NEW id \in Ids, mwsocket_postproc_no_context(id)
    PROVE  /\ AcceptInv' /\ id \in answered /\ id \in Outstanding
           /\ accepting' = accepting \ {sockinst[id]}
           /\ answered' = answered \ {id} /\ inbound' = Append(inbound, id)
           /\ UNCHANGED <<ins, home, siblings, closing, blockid, read_expected, active,
                          sockinst, sent_to, failed, pending, pc, result, sock_rep_lock,
                          rpc, slot, rc, owed, silent>>
<1>0. /\ BaseTypes /\ Flags /\ Sent /\ Rings /\ Queued /\ Kept
  BY DEF TypeInv, AcceptInv
<1>1. id \in answered /\ id \in Outstanding /\ id \in active /\ id \notin ToSet(inbound)
  BY <1>0 DEF mwsocket_postproc_no_context, Rings, OnRing, Outstanding
<1>2. /\ accepting' = accepting \ {sockinst[id]}
      /\ answered' = answered \ {id} /\ inbound' = Append(inbound, id)
      /\ undelivered' = undelivered \cup {i \in {id} : sockinst[i] \in closing}
      /\ handling' = id
      /\ UNCHANGED <<ins, home, siblings, closing, blockid, read_expected, active, sockinst,
                     sent_to, failed, pending, pc, result, sock_rep_lock, rpc, slot, rc,
                     owed, silent>>
  BY <1>1 DEF mwsocket_postproc_no_context, userVars, replVars
<1>3. ToSet(inbound') = ToSet(inbound) \cup {id} /\ NoRepeats(inbound')
  <2>1. inbound \in Seq(Ids \cup {Unset}) /\ id \in Ids \cup {Unset} /\ NoRepeats(inbound)
    BY <1>0 DEF BaseTypes, Queued
  <2> QED
    BY <1>1, <1>2, <2>1, EntriesOfAppend
<1>4. Outstanding' = Outstanding \ {id} /\ OnRing' \subseteq OnRing \ {id}
  BY <1>0, <1>1, <1>2, <1>3 DEF Outstanding, OnRing, Rings
<1>5. Flags'
  BY <1>0, <1>2 DEF Flags
<1>6. Sent'
  BY <1>0, <1>1, <1>2, <1>4 DEF Sent, InsOf
<1>7. Rings'
  <2>1. \A i \in OnRing' \cup owed' : is_ring_ready(sent_to[i])'
    BY <1>0, <1>2, <1>4 DEF Rings, is_ring_ready
  <2> QED
    BY <1>0, <1>2, <1>4, <2>1 DEF Rings
<1>8. Queued' /\ Kept'
  <2>1. Undisturbed' => Undisturbed /\ undelivered' = {}
    BY <1>0, <1>2 DEF Undisturbed, Queued
  <2> QED
    BY <1>0, <1>1, <1>2, <1>3, <2>1 DEF Queued, Kept
<1> QED
  BY <1>1, <1>2, <1>5, <1>6, <1>7, <1>8 DEF AcceptInv

\* Requests that are queued are destroyed, or none.
LEMMA DestroyKeepsAccepts ==
    ASSUME TypeInv, AcceptInv, NEW gone, gone \subseteq undelivered,
           Destroy(gone), undelivered' = undelivered \ gone, owed' = owed \ gone,
           UNCHANGED <<ins, home, siblings, accepting, closing, blockid, inbound, pending,
                       answered>>,
           handling' \in {handling, Unset},
           \A p \in Procs : rpc'[p] = "setup" => rpc[p] = "setup" /\ slot'[p] = slot[p]
    PROVE  /\ AcceptInv' /\ Outstanding' = Outstanding /\ OnRing' = OnRing
           /\ active' = active \ gone
           /\ Undisturbed => active' = active
           /\ \A i \in OnRing : sockinst'[i] = sockinst[i]
<1>0. /\ BaseTypes /\ Flags /\ Sent /\ Rings /\ Queued /\ Kept
  BY DEF TypeInv, AcceptInv
<1>1. /\ active' = active \ gone /\ gone \subseteq ToSet(inbound)
      /\ \A i \in Ids \ gone : sockinst'[i] = sockinst[i] /\ sent_to'[i] = sent_to[i]
  BY <1>0 DEF Destroy, Queued
<1>2. /\ Outstanding' = Outstanding /\ OnRing' = OnRing
      /\ \A i \in Outstanding : i \notin gone /\ i \in active /\ i \in Ids
      /\ OnRing \subseteq Outstanding
  BY <1>0, <1>1 DEF Outstanding, OnRing, Rings, BaseTypes
<1>3. Flags'
  BY <1>0 DEF Flags
<1>4. Sent'
  <2>1. \A i \in active' : i \in active /\ i \in Ids \ gone
    BY <1>0, <1>1 DEF BaseTypes
  <2>2. \A i \in active' : sent_to'[i] = InsOf(sockinst[i])'
    BY <1>0, <1>1, <2>1 DEF Sent, InsOf
  <2>3. blockid' \in active' => sockinst'[blockid'] = User
    BY <1>0, <1>1, <2>1 DEF Sent
  <2>4. /\ \A i \in Outstanding' : sockinst'[i] \in accepting'
        /\ \A i, j \in Outstanding' : sockinst'[i] = sockinst'[j] => i = j
    BY <1>0, <1>1, <1>2 DEF Sent
  <2> QED
    BY <2>2, <2>3, <2>4 DEF Sent
<1>5. Rings'
  <2> SUFFICES ASSUME NEW i \in OnRing' \cup owed' PROVE is_ring_ready(sent_to[i])'
    BY <1>0, <1>2 DEF Rings
  <2>1. i \in OnRing \cup owed /\ i \in Ids \ gone
    BY <1>0, <1>2 DEF BaseTypes
  <2> QED
    BY <1>0, <1>1, <2>1 DEF Rings, is_ring_ready
<1>6. Queued'
  <2>1. Undisturbed' => Undisturbed
    BY DEF Undisturbed
  <2>2. handling' \in active' => handling' \in ToSet(inbound')
    BY <1>0, <1>1, Numbers DEF Queued, BaseTypes
  <2>3. Undisturbed' => ToSet(inbound') \subseteq active' /\ undelivered' = {}
    BY <1>0, <1>1, <2>1 DEF Queued
  <2> QED
    BY <1>0, <1>1, <2>2, <2>3 DEF Queued
<1>7. Kept'
  BY <1>0, <1>1 DEF Kept
<1>8. Undisturbed => active' = active
  BY <1>0, <1>1 DEF Queued
<1>9. \A i \in OnRing : sockinst'[i] = sockinst[i]
  BY <1>1, <1>2
<1> QED
  BY <1>1, <1>2, <1>3, <1>4, <1>5, <1>6, <1>7, <1>8, <1>9 DEF AcceptInv

\* The consumer comes back to its request, or read() finds one that is not to be
\* delivered.
LEMMA UndeliveredGoes ==
    ASSUME TypeInv, AcceptInv, FinishResponse \/ BeginRead
    PROVE  /\ AcceptInv' /\ Outstanding' = Outstanding /\ OnRing' = OnRing
           /\ active' \subseteq active
           /\ Undisturbed => active' = active
           /\ \A i \in OnRing : sockinst'[i] = sockinst[i]
           /\ UNCHANGED <<ins, home, siblings, accepting, closing, blockid, inbound,
                          pending, answered, rpc, slot, rc, silent>>
<1>1. CASE FinishResponse
  <2>1. PICK gone : /\ gone = {id \in undelivered : id = handling} /\ Destroy(gone)
                    /\ undelivered' = undelivered \ gone /\ owed' = owed \ gone
    BY <1>1 DEF FinishResponse
  <2>2. /\ UNCHANGED <<ins, home, siblings, accepting, closing, blockid, inbound, pending,
                       answered, rpc, slot, rc, silent>>
        /\ handling' \in {handling, Unset} /\ gone \subseteq undelivered
    BY <1>1, <2>1 DEF FinishResponse, sockVars, userVars, replVars
  <2> QED
    BY <2>1, <2>2, DestroyKeepsAccepts
<1>2. CASE BeginRead
  <2>1. PICK gone : /\ gone \subseteq undelivered /\ Destroy(gone)
                    /\ undelivered' = undelivered \ gone /\ owed' = owed \ gone
    BY <1>2 DEF BeginRead
  <2>2. UNCHANGED <<ins, home, siblings, accepting, closing, blockid, inbound, pending,
                    answered, handling, rpc, slot, rc, silent>>
    BY <1>2 DEF BeginRead, sockVars, ringVars, replVars
  <2> QED
    BY <2>1, <2>2, DestroyKeepsAccepts
<1> QED
  BY <1>1, <1>2

\* Mitigation closes a socket.
LEMMA CloseKeepsAccepts ==
    ASSUME TypeInv, AcceptInv, NEW sock \in Socks, mwsocket_close_remote(sock)
    PROVE  /\ AcceptInv' /\ closing' # {}
           /\ UNCHANGED <<ins, home, siblings, accepting, inbound, pending, answered,
                          sockinst, pc, rpc, slot>>
<1>0. /\ Flags /\ Sent /\ Rings /\ Queued /\ Kept
  BY DEF AcceptInv
<1>1. /\ UNCHANGED <<ins, home, siblings, accepting, blockid, inbound, active, sockinst,
                     sent_to, undelivered, pending, answered, handling, owed, pc, rpc,
                     slot>>
      /\ sock \in {User} \cup siblings /\ closing' = closing \cup {sock}
  BY DEF mwsocket_close_remote, userVars, reqVars, ringVars, replVars, history
<1>2. OnRing' = OnRing /\ Outstanding' = Outstanding /\ ~Undisturbed'
  BY <1>1 DEF OnRing, Outstanding, Undisturbed
<1>3. Flags'
  BY <1>0, <1>1 DEF Flags
<1>4. Sent'
  BY <1>0, <1>1, <1>2 DEF Sent, InsOf
<1>5. Rings'
  BY <1>0, <1>1, <1>2 DEF Rings, is_ring_ready
<1>6. Queued' /\ Kept'
  BY <1>0, <1>1, <1>2 DEF Queued, Kept, NoRepeats
<1> QED
  BY <1>1, <1>3, <1>4, <1>5, <1>6 DEF AcceptInv

\* accept() takes a connection.
LEMMA TakeKeepsAccepts ==
    ASSUME TypeInv, AcceptInv, TakeInbound
    PROVE  AcceptInv'
<1>0. /\ BaseTypes /\ Flags /\ Sent /\ Rings /\ Queued /\ Kept
  BY DEF TypeInv, AcceptInv
<1>1. /\ UNCHANGED <<ins, home, siblings, accepting, closing, blockid, rpc, slot, pending,
                     answered, handling>>
      /\ inbound # <<>> /\ inbound' = Tail(inbound)
      /\ Destroy({Head(inbound)}) /\ owed' = owed \ {Head(inbound)}
      /\ undelivered' = undelivered \ {Head(inbound)}
  BY DEF TakeInbound, sockVars, ringVars, replVars
<1>2. PICK id \in Ids \cup {Unset} : id = Head(inbound)
  BY <1>0, <1>1, EntriesOfTail DEF BaseTypes
<1>3. /\ ToSet(inbound) = ToSet(inbound') \cup {id} /\ NoRepeats(inbound')
      /\ id \notin ToSet(inbound')
  <2>1. inbound \in Seq(Ids \cup {Unset}) /\ NoRepeats(inbound)
    BY <1>0 DEF BaseTypes, Queued
  <2> QED
    BY <1>1, <1>2, <2>1, EntriesOfTail
<1>4. /\ active' = active \ {id} /\ owed' = owed \ {id}
      /\ \A i \in Ids \ {id} : sockinst'[i] = sockinst[i] /\ sent_to'[i] = sent_to[i]
  BY <1>1, <1>2 DEF Destroy
<1>5. /\ Outstanding' = Outstanding /\ OnRing' = OnRing /\ id \notin Outstanding
      /\ id \notin OnRing /\ active \subseteq Ids /\ Outstanding \subseteq Ids
      /\ OnRing \subseteq Ids /\ owed \subseteq Ids
  BY <1>0, <1>1, <1>3, <1>4 DEF Outstanding, OnRing, Rings, BaseTypes
<1>6. Flags'
  BY <1>0, <1>1 DEF Flags
<1>7. Sent'
  <2>1. \A i \in active' : sent_to'[i] = InsOf(sockinst[i])'
    BY <1>0, <1>1, <1>4, <1>5 DEF Sent, InsOf
  <2> QED
    BY <1>0, <1>1, <1>4, <1>5, <2>1 DEF Sent
<1>8. Rings'
  <2>1. \A i \in OnRing' \cup owed' : is_ring_ready(sent_to[i])'
    BY <1>0, <1>1, <1>4, <1>5 DEF Rings, is_ring_ready
  <2> QED
    BY <1>0, <1>1, <1>5, <2>1 DEF Rings
<1>9. Queued' /\ Kept'
  <2>1. Undisturbed' => Undisturbed
    BY <1>1 DEF Undisturbed
  <2> QED
    BY <1>0, <1>1, <1>2, <1>3, <1>4, <2>1 DEF Queued, Kept
<1> QED
  BY <1>6, <1>7, <1>8, <1>9 DEF AcceptInv

\* Whatever the monitor thread does: rings that are in use stay so, an INS has
\* been reaped, and no accept that is on a ring, or whose connection is to be
\* kept, is that of a dead INS.
LEMMA DeadRings ==
    ASSUME TypeInv, AcceptInv, mwsocket_reap_dead_sock_instances
    PROVE  /\ \A d \in Doms : is_ring_ready(d)' <=> is_ring_ready(d)
           /\ \A d \in Doms \ DeadIns : ins'[d] = ins[d]
           /\ \E d \in Doms : ins'[d] = "reaped"
           /\ \A d \in DeadIns : ~is_ring_ready(d)
           /\ \A i \in OnRing \cup owed :
                /\ i \in active /\ sockinst[i] \notin DeadIns
                /\ sockinst[i] = User => home \notin DeadIns
                /\ i \notin Reaped
           /\ \A i \in Outstanding \ Reaped : sockinst[i] \notin DeadIns
           /\ \A i \in Reaped :
                sockinst[i] \in DeadIns \/ (sockinst[i] = User /\ home \in DeadIns)
<1>0. /\ BaseTypes /\ Sent /\ Rings /\ Kept /\ DeadIns # {} /\ DeadIns \subseteq Doms
      /\ ins' = [d \in Doms |-> IF d \in DeadIns THEN "reaped" ELSE ins[d]]
  BY ReaperEffect DEF TypeInv, AcceptInv
<1>1. \A d \in DeadIns : ins[d] = "released" /\ ins'[d] = "reaped"
  BY <1>0 DEF DeadIns
<1>2. \A d \in Doms \ DeadIns : ins'[d] = ins[d]
  BY <1>0
<1>3. \A d \in DeadIns : ~is_ring_ready(d)
  BY <1>1 DEF is_ring_ready
<1>4. ASSUME NEW i \in OnRing \cup owed
      PROVE  /\ i \in active /\ sockinst[i] \notin DeadIns
             /\ sockinst[i] = User => home \notin DeadIns
  <2>1. i \in active /\ is_ring_ready(sent_to[i])
    BY <1>0 DEF Rings, Outstanding, Kept
  <2>2. sent_to[i] = IF sockinst[i] = User THEN home ELSE sockinst[i]
    BY <1>0, <2>1 DEF Sent, InsOf
  <2> QED
    BY <1>0, <1>3, <2>1, <2>2, Numbers
<1>5. \A d \in Doms : is_ring_ready(d)' <=> is_ring_ready(d)
  BY <1>1, <1>2 DEF is_ring_ready
<1>6. \A i \in Outstanding \ Reaped : sockinst[i] \notin DeadIns
  BY DEF Outstanding, Reaped, Requests
<1>7. \A i \in Reaped :
        sockinst[i] \in DeadIns \/ (sockinst[i] = User /\ home \in DeadIns)
  BY DEF Reaped, Requests
<1>8. \A i \in OnRing \cup owed : i \notin Reaped
  BY <1>4, <1>7
<1> QED
  BY <1>0, <1>1, <1>2, <1>3, <1>4, <1>5, <1>6, <1>7, <1>8

\* Accepts on the rings stay on rings in use if their requests stay as they are.
LEMMA RingsAfterReaper ==
    ASSUME TypeInv, AcceptInv, mwsocket_reap_dead_sock_instances,
           \A i \in OnRing \cup owed : i \in active' /\ sent_to'[i] = sent_to[i],
           \A i \in OnRing : i \notin ToSet(inbound'),
           ToSet(inbound) \subseteq ToSet(inbound'), NoRepeats(inbound'),
           active' \subseteq active, undelivered' \subseteq active',
           undelivered' \subseteq ToSet(inbound')
    PROVE  Rings' /\ Queued' /\ Kept'
<1>0. /\ BaseTypes /\ Sent /\ Rings /\ Queued /\ Kept
      /\ UNCHANGED <<pending, answered, handling, owed>>
  BY ReaperEffect DEF TypeInv, AcceptInv
<1>1. OnRing' = OnRing
  BY <1>0 DEF OnRing
<1>2. \A i \in OnRing \cup owed : sent_to[i] \in Doms
  <2>1. \A i \in OnRing \cup owed : i \in active
    BY DeadRings
  <2>2. \A i \in active : sent_to[i] \in Doms
    BY <1>0, Numbers DEF Sent, InsOf, BaseTypes
  <2> QED
    BY <2>1, <2>2
<1>3. \A i \in OnRing' \cup owed' : is_ring_ready(sent_to[i])'
  <2> SUFFICES ASSUME NEW i \in OnRing \cup owed PROVE is_ring_ready(sent_to[i])'
    BY <1>0, <1>1
  <2>1. is_ring_ready(sent_to[i]) /\ sent_to[i] \in Doms /\ sent_to'[i] = sent_to[i]
    BY <1>0, <1>2 DEF Rings
  <2>2. ins'[sent_to[i]] \in {"up", "crashed"}
    BY <2>1, DeadRings DEF is_ring_ready
  <2> QED
    BY <2>1, <2>2 DEF is_ring_ready
<1>4. OnRing' \subseteq Outstanding'
  BY <1>1 DEF Outstanding
<1>5. Queued' /\ Kept'
  <2>1. ~Undisturbed'
    BY DeadRings DEF Undisturbed
  <2> QED
    BY <1>0, <2>1 DEF Queued, Kept
<1> QED
  BY <1>0, <1>3, <1>4, <1>5 DEF Rings

\* The monitor thread keeps the accepts in order, unless it goes wrong.
LEMMA ReaperKeepsAccepts ==
    ASSUME TypeInv, ReplicaInv, ~oops, AcceptInv, mwsocket_reap_dead_sock_instances, ~oops'
    PROVE  AcceptInv'
<1>0. /\ BaseTypes /\ Flags /\ Sent /\ Rings /\ Queued /\ Kept /\ home \notin siblings
      /\ DeadIns \subseteq Doms /\ User \notin Doms
      /\ UNCHANGED <<blockid, pending, answered, rpc, slot, owed>>
  BY ReaperEffect, Numbers DEF TypeInv, AcceptInv, ReplicaInv
<1>1. /\ \A d \in Doms \ DeadIns : ins'[d] = ins[d]
      /\ \A d \in DeadIns : ~is_ring_ready(d)
      /\ \A i \in OnRing \cup owed :
           /\ i \in active /\ sockinst[i] \notin DeadIns
           /\ sockinst[i] = User => home \notin DeadIns
           /\ i \notin Reaped
      /\ \A i \in Outstanding \ Reaped : sockinst[i] \notin DeadIns
      /\ \A i \in Reaped :
           sockinst[i] \in DeadIns \/ (sockinst[i] = User /\ home \in DeadIns)
  BY DeadRings
<1>2. /\ active \subseteq Ids /\ Outstanding \subseteq active /\ OnRing \subseteq Ids
      /\ owed \subseteq Ids /\ siblings \subseteq Doms /\ OnRing \subseteq Outstanding
      /\ \A p \in Procs : rpc[p] = "setup" => slot[p] \in siblings \ accepting
  BY <1>0 DEF BaseTypes, Outstanding, OnRing, Rings, Flags
<1>3. ASSUME home \in DeadIns, User \in accepting, NEW s \in Replacements, Promote(s)
      PROVE  AcceptInv'
  <2>1. s \in siblings /\ s \notin DeadIns /\ s # home /\ s \in Doms /\ s # User
    BY <1>0, <1>1, <1>2 DEF Replacements
  <2>2. /\ TakeOverRequests(s) /\ home' = s /\ inbound' = inbound
        /\ accepting' = (accepting \ (DeadIns \cup {User, s}))
                          \cup {t \in {User} : s \in accepting}
        /\ siblings' = siblings \ ((DeadIns \cap accepting) \cup {s})
        /\ closing' \subseteq siblings' \cup {User}
        /\ \A p \in Procs : ~(rpc[p] = "setup" /\ slot[p] = s)
    BY <1>3 DEF Promote
  <2>3. /\ active' = {i \in active : sockinst[i] # User /\ i \notin Reaped}
        /\ undelivered' = undelivered \cap active'
        /\ \A i \in active' : /\ sent_to'[i] = sent_to[i]
                              /\ sockinst'[i] = IF sockinst[i] = s THEN User
                                                ELSE sockinst[i]
    <3>1. PICK gone : gone = Requests({User}) \cup Reaped
      OBVIOUS
    <3>2. /\ active' = active \ gone /\ undelivered' = undelivered \ gone
          /\ sockinst' = [id \in Ids |-> IF id \in gone \cup Requests({s})
                                           THEN User ELSE sockinst[id]]
          /\ sent_to' = [id \in Ids |-> IF id \in gone THEN Unset ELSE sent_to[id]]
      BY <2>2, <3>1 DEF TakeOverRequests
    <3>3. active' = {i \in active : sockinst[i] # User /\ i \notin Reaped}
      BY <3>1, <3>2 DEF Requests
    <3>4. undelivered' = undelivered \cap active'
      BY <1>0, <3>2 DEF Queued
    <3>5. ASSUME NEW i \in active'
          PROVE  /\ sent_to'[i] = sent_to[i]
                 /\ sockinst'[i] = IF sockinst[i] = s THEN User ELSE sockinst[i]
      BY <1>2, <3>2 DEF Requests
    <3> QED
      BY <3>3, <3>4, <3>5
  <2>4. Flags'
    <3>1. accepting' \subseteq {User} \cup siblings' /\ closing' \subseteq {User} \cup siblings'
      BY <1>0, <2>2 DEF Flags
    <3>2. \A p \in Procs : rpc[p] = "setup" => slot[p] \in siblings' \ accepting'
      BY <1>0, <1>2, <2>2
    <3>3. ins'[home'] # "reaped"
      BY <1>1, <2>1, <2>2 DEF Replacements, is_ring_ready
    <3> QED
      BY <1>0, <3>1, <3>2, <3>3 DEF Flags
  <2>5. Sent'
    <3>1. \A i \in active' : sent_to'[i] = InsOf(sockinst[i])'
      BY <1>0, <2>1, <2>2, <2>3 DEF Sent, InsOf
    <3>2. Outstanding' \subseteq Outstanding
      BY <2>2, <2>3 DEF Outstanding
    <3>3. \A i \in Outstanding' : i \in active'
      BY DEF Outstanding
    <3>4. \A i \in Outstanding' : sockinst'[i] \in accepting'
      <4> SUFFICES ASSUME NEW i \in Outstanding' PROVE sockinst'[i] \in accepting'
        OBVIOUS
      <4>1. /\ i \in Outstanding /\ i \notin Reaped /\ sockinst[i] # User
            /\ sockinst'[i] = IF sockinst[i] = s THEN User ELSE sockinst[i]
        BY <2>3, <3>2, <3>3
      <4>2. sockinst[i] \in accepting /\ sockinst[i] \notin DeadIns
        BY <1>0, <1>1, <4>1 DEF Sent
      <4> QED
        BY <2>2, <4>1, <4>2
    <3>5. \A i, j \in Outstanding' : sockinst'[i] = sockinst'[j] => i = j
      BY <1>0, <2>3, <3>2, <3>3 DEF Sent
    <3>6. blockid' \notin active'
      BY <1>0, <2>3 DEF Sent
    <3> QED
      BY <3>1, <3>4, <3>5, <3>6 DEF Sent
  <2>6. Rings' /\ Queued' /\ Kept'
    <3>1. \A i \in OnRing \cup owed : i \in active' /\ sent_to'[i] = sent_to[i]
      BY <1>1, <1>3, <2>3
    <3>2. \A i \in OnRing : i \notin ToSet(inbound')
      BY <1>2, <2>2 DEF Outstanding
    <3>3. NoRepeats(inbound') /\ undelivered' \subseteq ToSet(inbound')
      BY <1>0, <2>2, <2>3 DEF Queued
    <3>4. active' \subseteq active /\ undelivered' \subseteq active'
      BY <2>3
    <3> QED
      BY <2>2, <3>1, <3>2, <3>3, <3>4, RingsAfterReaper
  <2> QED
    BY <2>4, <2>5, <2>6 DEF AcceptInv
<1>4. ASSUME Destroy(Reaped), home' = home,
             siblings' = siblings \ (DeadIns \cap accepting)
      PROVE  /\ active' = active \ Reaped
             /\ \A i \in active' : sent_to'[i] = sent_to[i] /\ sockinst'[i] = sockinst[i]
             /\ \A i \in active' : sent_to'[i] = InsOf(sockinst[i])'
             /\ \A i \in OnRing \cup owed : i \in active' /\ sent_to'[i] = sent_to[i]
             /\ blockid' \in active' => sockinst'[blockid'] = User
             /\ \A p \in Procs : rpc'[p] = "setup" => slot'[p] \in siblings' \ accepting
  <2>1. /\ active' = active \ Reaped
        /\ \A i \in active' : sent_to'[i] = sent_to[i] /\ sockinst'[i] = sockinst[i]
    BY <1>2, <1>4 DEF Destroy
  <2>2. \A i \in active' : sent_to'[i] = InsOf(sockinst[i])'
    BY <1>0, <1>4, <2>1 DEF Sent, InsOf
  <2>3. \A i \in OnRing \cup owed : i \in active' /\ sent_to'[i] = sent_to[i]
    BY <1>1, <2>1
  <2>4. blockid' \in active' => sockinst'[blockid'] = User
    BY <1>0, <2>1 DEF Sent
  <2>5. \A p \in Procs : rpc'[p] = "setup" => slot'[p] \in siblings' \ accepting
    BY <1>0, <1>2, <1>4
  <2> QED
    BY <2>1, <2>2, <2>3, <2>4, <2>5
<1>5. ASSUME home \in DeadIns, User \in accepting, FailAccept PROVE AcceptInv'
  <2>1. /\ Destroy(Reaped) /\ home' = home
        /\ accepting' = accepting \ (DeadIns \cup {User})
        /\ siblings' = siblings \ (DeadIns \cap accepting)
        /\ closing' \subseteq {User} \cup siblings'
        /\ inbound' = Append(inbound, blockid)
        /\ undelivered' \subseteq (undelivered \ Reaped) \cup {blockid}
        /\ blockid \in active \ Reaped /\ blockid \notin ToSet(inbound)
    BY <1>5 DEF FailAccept
  <2>2. ToSet(inbound') = ToSet(inbound) \cup {blockid} /\ NoRepeats(inbound')
    <3>1. /\ inbound \in Seq(Ids \cup {Unset}) /\ blockid \in Ids \cup {Unset}
          /\ NoRepeats(inbound)
      BY <1>0 DEF BaseTypes, Queued
    <3> QED
      BY <2>1, <3>1, EntriesOfAppend
  <2>3. /\ Outstanding' \subseteq Outstanding \ {blockid} /\ blockid \in Outstanding
        /\ Outstanding' \subseteq active' /\ sockinst[blockid] = User
    BY <1>0, <1>4, <2>1, <2>2 DEF Outstanding, Sent
  <2>4. Flags'
    BY <1>0, <1>4, <2>1 DEF Flags
  <2>5. Sent'
    <3>1. \A i \in Outstanding' : sockinst'[i] = sockinst[i] /\ sockinst[i] \notin DeadIns
      BY <1>1, <1>4, <2>1, <2>3
    <3>2. \A i \in Outstanding' : sockinst[i] # User
      BY <1>0, <2>3 DEF Sent
    <3>3. \A i \in Outstanding' : sockinst'[i] \in accepting'
      BY <1>0, <2>1, <2>3, <3>1, <3>2 DEF Sent
    <3>4. \A i, j \in Outstanding' : sockinst'[i] = sockinst'[j] => i = j
      BY <1>0, <2>3, <3>1 DEF Sent
    <3> QED
      BY <1>4, <2>1, <3>3, <3>4 DEF Sent
  <2>6. Rings' /\ Queued' /\ Kept'
    <3>1. blockid \notin OnRing
      BY <1>1, <1>5, <2>3
    <3>2. \A i \in OnRing : i \notin ToSet(inbound')
      BY <1>2, <2>2, <3>1 DEF Outstanding
    <3>3. /\ active' \subseteq active /\ undelivered' \subseteq active'
          /\ undelivered' \subseteq ToSet(inbound')
      BY <1>0, <1>4, <2>1, <2>2 DEF Queued
    <3> QED
      BY <1>4, <2>1, <2>2, <3>2, <3>3, RingsAfterReaper
  <2> QED
    BY <2>4, <2>5, <2>6 DEF AcceptInv
<1>6. ASSUME ~(home \in DeadIns /\ User \in accepting), DropReplicas PROVE AcceptInv'
  <2>1. /\ Destroy(Reaped) /\ home' = home
        /\ accepting' = accepting \ DeadIns
        /\ siblings' = siblings \ (DeadIns \cap accepting)
        /\ closing' \subseteq {User} \cup siblings'
        /\ inbound' = inbound /\ undelivered' = undelivered \ Reaped
    BY <1>6 DEF DropReplicas
  <2>2. Flags'
    <3>1. User \in accepting' => ins'[home'] # "reaped"
      BY <1>0, <1>1, <1>6, <2>1 DEF Flags, BaseTypes
    <3> QED
      BY <1>0, <1>4, <2>1, <3>1 DEF Flags
  <2>3. Outstanding' \subseteq Outstanding /\ Outstanding' \subseteq active'
    BY <1>4, <2>1 DEF Outstanding
  <2>4. Sent'
    <3>1. \A i \in Outstanding' : sockinst'[i] = sockinst[i] /\ sockinst[i] \notin DeadIns
      BY <1>1, <1>4, <2>1, <2>3
    <3>2. \A i \in Outstanding' : sockinst'[i] \in accepting'
      BY <1>0, <2>1, <2>3, <3>1 DEF Sent
    <3>3. \A i, j \in Outstanding' : sockinst'[i] = sockinst'[j] => i = j
      BY <1>0, <2>3, <3>1 DEF Sent
    <3> QED
      BY <1>4, <2>1, <3>2, <3>3 DEF Sent
  <2>5. Rings' /\ Queued' /\ Kept'
    <3>1. \A i \in OnRing : i \notin ToSet(inbound')
      BY <1>2, <2>1 DEF Outstanding
    <3>2. /\ active' \subseteq active /\ undelivered' \subseteq active'
          /\ undelivered' \subseteq ToSet(inbound') /\ NoRepeats(inbound')
          /\ ToSet(inbound) \subseteq ToSet(inbound')
      BY <1>0, <1>4, <2>1 DEF Queued
    <3> QED
      BY <1>4, <2>1, <3>1, <3>2, RingsAfterReaper
  <2> QED
    BY <2>2, <2>4, <2>5 DEF AcceptInv
<1> QED
  BY <1>3, <1>5, <1>6, ReaperEffect

\* Nothing has been accepted yet.
LEMMA AcceptInvInitially == Init => AcceptInv
<1> SUFFICES ASSUME Init PROVE AcceptInv
  OBVIOUS
<1>1. /\ accepting = {} /\ blockid = Unset /\ inbound = <<>> /\ active = {}
      /\ pending = {} /\ answered = {} /\ owed = {} /\ closing = {}
      /\ undelivered = {} /\ handling = Unset
      /\ \A p \in Procs : rpc[p] = "off"
  BY DEF Init
<1>2. ToSet(inbound) = {} /\ NoRepeats(inbound)
  BY <1>1 DEF ToSet, NoRepeats
<1>3. OnRing = {} /\ Outstanding = {}
  BY <1>1 DEF OnRing, Outstanding
<1>4. Flags
  BY <1>1 DEF Flags
<1>5. Sent /\ Rings
  BY <1>1, <1>3 DEF Sent, Rings
<1>6. Queued /\ Kept
  BY <1>1, <1>2 DEF Queued, Kept
<1> QED
  BY <1>4, <1>5, <1>6 DEF AcceptInv

\* Until the driver goes wrong, every step keeps the accepts in order.
LEMMA AcceptNext ==
    TypeInv /\ ReplicaInv /\ (~oops => AcceptInv) /\ [Next]_vars => (~oops' => AcceptInv')
<1> SUFFICES ASSUME TypeInv, ReplicaInv, ~oops => AcceptInv, [Next]_vars, ~oops'
             PROVE  AcceptInv'
  OBVIOUS
<1>1. CASE UNCHANGED vars
  <2>1. UNCHANGED acceptVars /\ UNCHANGED <<rpc, slot, oops>>
    BY <1>1 DEF vars, acceptVars, sockVars, userVars, reqVars, ringVars, replVars, history
  <2> QED
    BY <2>1, AcceptFrame
<1>2. CASE Running /\ (BeginWrite \/ EndWrite)
  <2>1. UNCHANGED acceptVars
    BY <1>2 DEF BeginWrite, EndWrite, acceptVars, sockVars, userVars, reqVars, ringVars,
       history
  <2>2. \A p \in Procs : rpc'[p] = "setup" => rpc[p] = "setup" /\ slot'[p] = slot[p]
    BY <1>2 DEF BeginWrite, EndWrite, TypeInv, BaseTypes
  <2> QED
    BY <1>2, <2>1, <2>2, AcceptFrame DEF Running
<1>3. CASE Running /\ TakeInbound
  BY <1>3, TakeKeepsAccepts DEF Running
<1>4. ASSUME Running, NEW p \in Procs, Replicator(p) PROVE AcceptInv'
  BY <1>4, ReplicatorKeepsAccepts DEF Running
<1>5. CASE Running /\ (Consumer \/ BeginRead)
  BY <1>5, ConsumerKeepsAccepts, UndeliveredGoes DEF Running, Consumer
<1>6. ASSUME Running, NEW d \in Doms,
             Ins(d) \/ InsCrashes(d) \/ mw_xen_release_ins(d) \/ mw_xen_ins_found(d)
      PROVE  AcceptInv'
  BY <1>6, InsKeepsAccepts DEF Running
<1>7. CASE Running /\ mwsocket_reap_dead_sock_instances
  BY <1>7, ReaperKeepsAccepts DEF Running
<1>8. ASSUME Running, NEW sock \in Socks, mwsocket_close_remote(sock) PROVE AcceptInv'
  BY <1>8, CloseKeepsAccepts DEF Running
<1> QED
  BY <1>1, <1>2, <1>3, <1>4, <1>5, <1>6, <1>7, <1>8 DEF Next, Accept

\* Nothing else goes wrong before something is disturbed: the queue holds accepts
\* that exist.
LEMMA SafeNext ==
    TypeInv /\ (~oops => AcceptInv) /\ SafeUntilDisturbed /\ [Next]_vars
        => SafeUntilDisturbed'
<1> SUFFICES ASSUME TypeInv, ~oops => AcceptInv, SafeUntilDisturbed, [Next]_vars, oops'
             PROVE  ~Undisturbed' \/ Overtaken'
  BY DEF SafeUntilDisturbed, Undisturbed
<1>1. CASE oops
  <2>1. UNCHANGED vars
    BY <1>1, Zenon DEF Running, Next
  <2>2. UNCHANGED <<ins, closing, handling, active>>
    BY <2>1 DEF vars, sockVars, reqVars, ringVars
  <2> QED
    BY <1>1, <2>2 DEF SafeUntilDisturbed, Undisturbed, Overtaken
<1> SUFFICES ASSUME ~oops PROVE ~Undisturbed' \/ Overtaken'
  BY <1>1
<1>0. Queued /\ inbound \in Seq(Ids \cup {Unset})
  BY DEF AcceptInv, TypeInv, BaseTypes
<1>2. ASSUME NEW n \in DOMAIN inbound, inbound[n] \notin active PROVE ~Undisturbed
  <2>1. inbound[n] \in ToSet(inbound)
    BY <1>0 DEF ToSet
  <2> QED
    BY <1>0, <1>2, <2>1 DEF Queued
<1>3. CASE TakeInbound
  <2>1. FreedFirst /\ UNCHANGED <<ins, closing>>
    BY <1>3 DEF TakeInbound, sockVars
  <2> QED
    BY <1>2, <2>1 DEF FreedFirst, Undisturbed
<1>4. ASSUME NEW id \in Ids, mwsocket_postproc_no_context(id) PROVE ~Undisturbed'
  <2>1. FreedLast(active) /\ UNCHANGED <<ins, closing>>
    BY <1>4 DEF mwsocket_postproc_no_context
  <2> QED
    BY <1>2, <2>1 DEF FreedLast, Undisturbed
<1>5. CASE FinishResponse
  <2>1. /\ handling # Unset /\ handling \notin active /\ handling' = handling
        /\ active' \subseteq active
    BY <1>5 DEF FinishResponse, Destroy
  <2> QED
    BY <2>1 DEF Overtaken
<1>6. ASSUME NEW p \in Procs, Replicator(p) PROVE ~Undisturbed'
  <2>1. ASSUME NEW sock, SendStep(p, sock) PROVE ~Undisturbed'
    <3>1. /\ ~is_ring_ready(slot[p]) /\ ins' = ins /\ slot[p] \in Doms
          /\ ins[slot[p]] # "off"
      BY <2>1 DEF SendStep, TypeInv, Positions, Looking
    <3>2. ins[slot[p]] \in {"released", "reaped"}
      BY <3>1 DEF is_ring_ready, TypeInv, BaseTypes
    <3> QED
      BY <3>1, <3>2 DEF Undisturbed
  <2>2. ASSUME LookAtSlot(p) \/ CreateReplica(p) \/ ReplicaFails(p) \/ EndWorkItem(p)
               \/ BeginCreate(p)
        PROVE  UNCHANGED oops
    BY <2>2, Zenon DEF LookAtSlot, CreateReplica, ReplicaFails, EndWorkItem, BeginCreate,
       history
  <2> QED
    BY <1>6, <2>1, <2>2, ReplicateSteps, SetUpSends DEF Replicator
<1>7. CASE mwsocket_reap_dead_sock_instances
  BY <1>7, DeadRings DEF Undisturbed
<1>8. CASE BeginWrite \/ EndWrite \/ BeginRead
  BY <1>8, Zenon DEF BeginWrite, EndWrite, BeginRead, history
<1>9. ASSUME NEW d \in Doms,
             Ins(d) \/ InsCrashes(d) \/ mw_xen_release_ins(d) \/ mw_xen_ins_found(d)
      PROVE  UNCHANGED oops
  BY <1>9, Zenon DEF Ins, InsAccepts, InsCrashes, mw_xen_release_ins, mw_xen_ins_found,
     history
<1>10. ASSUME NEW sock \in Socks, mwsocket_close_remote(sock) PROVE UNCHANGED oops
  BY <1>10, Zenon DEF mwsocket_close_remote, history
<1>11. CASE UNCHANGED vars
  BY <1>11, Zenon DEF vars, history
<1> QED
  BY <1>3, <1>4, <1>5, <1>6, <1>7, <1>8, <1>9, <1>10, <1>11 DEF Next, Accept, Consumer

\* The accepts are in order in every state in which the driver has not gone wrong.
AcceptsInOrder == TypeInv /\ ReplicaInv /\ (~oops => AcceptInv) /\ SafeUntilDisturbed

LEMMA AcceptsAlways == Spec => []AcceptsInOrder
<1>1. Init => AcceptsInOrder
  BY TypeInvInitially, ReplicaInit, AcceptInvInitially
     DEF AcceptsInOrder, SafeUntilDisturbed, Init
<1>2. AcceptsInOrder /\ [Next]_vars => AcceptsInOrder'
  <2> SUFFICES ASSUME AcceptsInOrder, [Next]_vars PROVE AcceptsInOrder'
    OBVIOUS
  <2>1. TypeInv /\ ReplicaInv /\ (~oops => AcceptInv) /\ SafeUntilDisturbed
    BY DEF AcceptsInOrder
  <2>2. TypeInv' /\ ReplicaInv' /\ SafeUntilDisturbed'
    BY <2>1, TypeInvPreserved, ReplicaNext, SafeNext
  <2>3. ~oops' => AcceptInv'
    BY <2>1, AcceptNext
  <2> QED
    BY <2>2, <2>3 DEF AcceptsInOrder
<1> QED
  BY <1>1, <1>2, PTL DEF Spec

\* An INS never has two accepts of the socket at once, however many replicators
\* run and whenever a replica takes the place of the user's own socket: accepts
\* to one INS come from one socket, and that has the flag of one accept.
THEOREM OneAcceptAlways == Spec => []OneAcceptPerIns
<1>1. AcceptsInOrder => OneAcceptPerIns
  <2> SUFFICES ASSUME AcceptsInOrder, ~oops, NEW i \in pending, NEW j \in pending,
                      sent_to[i] = sent_to[j]
               PROVE  i = j
    BY DEF OneAcceptPerIns
  <2>1. BaseTypes /\ Flags /\ Sent /\ Rings /\ home \notin siblings
    BY DEF AcceptsInOrder, TypeInv, AcceptInv, ReplicaInv
  <2>2. i \in Outstanding /\ j \in Outstanding /\ i \in active /\ j \in active
    BY <2>1 DEF Rings, OnRing, Outstanding
  <2>3. InsOf(sockinst[i]) = InsOf(sockinst[j])
    BY <2>1, <2>2 DEF Sent
  <2>4. /\ sockinst[i] \in {User} \cup siblings
        /\ sockinst[j] \in {User} \cup siblings
    BY <2>1, <2>2 DEF Sent, Flags
  <2>5. sockinst[i] = sockinst[j]
    BY <2>1, <2>3, <2>4 DEF InsOf
  <2> QED
    BY <2>1, <2>2, <2>5 DEF Sent
<1> QED
  BY <1>1, AcceptsAlways, PTL

\* No connection that an INS in use has made is dropped when another INS dies or
\* a replica is promoted: its accept exists, and is on its way to the queue or in it.
THEOREM ConnectionsAlwaysKept == Spec => []ConnectionsKept
<1>1. AcceptsInOrder => ConnectionsKept
  BY DEF AcceptsInOrder, AcceptInv, Kept, ConnectionsKept
<1> QED
  BY <1>1, AcceptsAlways, PTL

\* As long as no INS is given up and mitigation closes nothing, accept() finds the
\* request of every connection it takes from the queue, and memory is misused only
\* by a consumer that the user's thread has overtaken, with any number of INSs and
\* replicators.
THEOREM SafeAlwaysUntilDisturbed == Spec => []SafeUntilDisturbed
<1>1. AcceptsInOrder => SafeUntilDisturbed
  BY DEF AcceptsInOrder
<1> QED
  BY <1>1, AcceptsAlways, PTL
-----------------------------------------------------------------------------
(* No INS is left without an accept, and no accept() on a dead INS.        *)

\* A replica is on an INS that has been found, and a work item starts at the
\* first slot.
Joining ==
    /\ \A d \in siblings : ins[d] # "off"
    /\ \A d \in Doms : ins[d] = "off" => slot[d] = 1 /\ rpc[d] = "off"

\* An INS that runs has the socket, or its own work item has not passed it yet.
Joined ==
    \A d \in Doms : ins[d] = "up" =>
        d = home \/ d \in siblings \/ (rpc[d] # "off" /\ slot[d] <= d)

\* A socket with the flag has an accept on the ring of its INS, if that is in use.
Answers ==
    \A s \in accepting : is_ring_ready(InsOf(s)) => \E i \in OnRing : sockinst[i] = s

\* The slots the current accept() has been at.
Visited(d) == (pc = "write" /\ d < slot[User]) \/ pc \in {"mustread", "await"}

\* Unless there is something to return, the sockets there accept, or are being
\* set up.
Covered ==
    inbound = <<>> =>
      \A d \in Doms : Visited(d) /\ is_ring_ready(d) =>
        /\ d = home => User \in accepting
        /\ d \in siblings =>
             d \in accepting \/ \E p \in Procs : rpc[p] = "setup" /\ slot[p] = d

\* accept() only blocks on a socket that has the flag.
Blocked == pc = "await" /\ inbound = <<>> => User \in accepting

CoverInv == Joining /\ Joined /\ Answers /\ Covered /\ Blocked

\* What all the steps here start from.
Orderly == TypeInv /\ ReplicaInv /\ ~oops /\ AcceptInv

\* An accept is sent where there was none.
LEMMA SendKeepsCover ==
    ASSUME Orderly, CoverInv, NEW p \in Procs, NEW sock \in {User} \cup siblings,
           SendStep(p, sock), slot[p] = InsOf(sock)
    PROVE  CoverInv'
<1>0. /\ BaseTypes /\ Positions /\ Flags /\ Sent /\ Rings /\ home \notin siblings
      /\ Joining /\ Joined /\ Answers /\ Covered /\ Blocked
      /\ siblings \subseteq Doms /\ home \in Doms
  BY DEF Orderly, TypeInv, BaseTypes, AcceptInv, ReplicaInv, CoverInv
<1>1. /\ UNCHANGED <<ins, home, siblings, inbound, answered, pc>>
      /\ rpc[p] \in {"lock", "setup"}
      /\ rpc' = [rpc EXCEPT ![p] = "next"] /\ slot' = [slot EXCEPT ![p] = @ + 1]
  BY DEF SendStep, NextSlot
<1>2. /\ slot[p] \in Doms /\ slot'[p] = slot[p] + 1 /\ rpc'[p] = "next"
      /\ \A q \in Procs \ {p} : slot'[q] = slot[q] /\ rpc'[q] = rpc[q]
      /\ \A q \in Procs : slot[q] \in Int
      /\ User \in Procs /\ Doms \subseteq Procs /\ User \notin Doms /\ Doms \subseteq Int
  <2>1. /\ \A q \in Procs : slot[q] \in Int
        /\ rpc \in [Procs -> {"off", "next", "lock", "create", "setup"}]
        /\ slot \in [Procs -> 1..(MAX_INS_COUNT + 1)]
    BY <1>0, ListenersAssumption DEF BaseTypes
  <2>2. slot[p] \in Doms
    BY <1>0, <1>1 DEF Positions, Looking
  <2>3. /\ User \in Procs /\ Doms \subseteq Procs /\ User \notin Doms
        /\ Doms \subseteq Int
    BY Numbers, ListenersAssumption DEF Procs, Doms
  <2> QED
    BY <1>1, <2>1, <2>2, <2>3
<1>3. /\ \A d : is_ring_ready(d)' <=> is_ring_ready(d)
      /\ \A s : InsOf(s)' = InsOf(s)
  BY <1>1 DEF is_ring_ready, InsOf
<1>4. /\ accepting \subseteq accepting' /\ OnRing \subseteq OnRing'
      /\ \A i \in OnRing : sockinst'[i] = sockinst[i]
      /\ sock \in accepting' \/ ~is_ring_ready(slot[p])
      /\ \A s \in accepting' \ accepting : \E i \in OnRing' : sockinst'[i] = s
  <2>1. CASE NoAccept(sock, slot[p])
    BY <1>1, <2>1 DEF NoAccept, OnRing
  <2>2. CASE \E n \in Ids \ Known : NewAccept(p, n, sock, slot[p])
    <3>1. PICK n \in Ids \ Known : NewAccept(p, n, sock, slot[p])
      BY <2>2
    <3>2. n \notin OnRing
      BY <1>0 DEF Rings, Outstanding, Known
    <3>3. /\ accepting' = accepting \cup {sock} /\ pending' = pending \cup {n}
          /\ sockinst' = [sockinst EXCEPT ![n] = sock]
      BY <3>1 DEF NewAccept
    <3>4. sockinst'[n] = sock /\ n \in OnRing' /\ OnRing \subseteq Ids
      BY <1>0, <3>3 DEF OnRing, BaseTypes
    <3> QED
      BY <1>0, <1>1, <3>2, <3>3, <3>4 DEF OnRing, BaseTypes
  <2> QED
    BY <2>1, <2>2 DEF SendStep
<1>5. Joining'
  BY <1>0, <1>1, <1>2 DEF Joining
<1>6. Joined'
  <2> SUFFICES ASSUME NEW d \in Doms, ins[d] = "up", d # home, d \notin siblings
               PROVE  rpc'[d] # "off" /\ slot'[d] <= d
    BY <1>1 DEF Joined
  <2>1. rpc[d] # "off" /\ slot[d] <= d
    BY <1>0 DEF Joined
  <2>2. slot[p] # d
    BY <1>0, <1>2 DEF InsOf
  <2> QED
    BY <1>2, <2>1, <2>2
<1>7. Answers'
  <2> SUFFICES ASSUME NEW s \in accepting', is_ring_ready(InsOf(s))
               PROVE  \E i \in OnRing' : sockinst'[i] = s
    BY <1>3 DEF Answers
  <2> QED
    BY <1>0, <1>4 DEF Answers
<1>8. Covered'
  <2> SUFFICES ASSUME inbound = <<>>, NEW d \in Doms, Visited(d)', is_ring_ready(d)
               PROVE  /\ d = home => User \in accepting'
                      /\ d \in siblings =>
                           \/ d \in accepting'
                           \/ \E q \in Procs : rpc'[q] = "setup" /\ slot'[q] = d
    BY <1>1, <1>3 DEF Covered
  <2>1. CASE d = slot[p]
    BY <1>0, <1>2, <1>4, <2>1 DEF InsOf
  <2>2. CASE d # slot[p]
    <3>1. Visited(d)
      BY <1>1, <1>2, <2>2 DEF Visited
    <3>2. \A q \in Procs : rpc[q] = "setup" /\ slot[q] = d
                             => rpc'[q] = "setup" /\ slot'[q] = d
      BY <1>2, <2>2
    <3> QED
      BY <1>0, <1>4, <3>1, <3>2 DEF Covered
  <2> QED
    BY <2>1, <2>2
<1>9. Blocked'
  BY <1>0, <1>1, <1>4 DEF Blocked
<1> QED
  BY <1>5, <1>6, <1>7, <1>8, <1>9 DEF CoverInv

\* The numbers of slots can be compared, and replicators have a state.
LEMMA Counters ==
    ASSUME BaseTypes
    PROVE  /\ \A p \in Procs : slot[p] \in Int
           /\ rpc \in [Procs -> {"off", "next", "lock", "create", "setup"}]
           /\ slot \in [Procs -> 1..(MAX_INS_COUNT + 1)]
           /\ Doms \subseteq Int /\ User \in Int /\ MAX_INS_COUNT \in Int
  BY ListenersAssumption DEF BaseTypes, Doms, User

\* A replicator moves on without an accept: it leaves a slot only if there is
\* nothing to cover there, and a replica that appears is being set up.
LEMMA MoveKeepsCover ==
    ASSUME Orderly, CoverInv, NEW p \in Procs, rpc[p] # "off",
           UNCHANGED <<ins, home, accepting, inbound, pending, answered, sockinst, pc>>,
           \A q \in Procs \ {p} : rpc'[q] = rpc[q] /\ slot'[q] = slot[q],
           \/ slot'[p] = slot[p]
           \/ /\ slot'[p] = slot[p] + 1 /\ slot[p] \in Doms
              /\ ins[slot[p]] # "up"
              /\ is_ring_ready(slot[p]) => slot[p] # home /\ slot[p] \notin siblings',
           rpc'[p] = "off" => p = User \/ slot[p] > MAX_INS_COUNT,
           \A d \in siblings : d \in siblings' \/ ~is_ring_ready(d),
           \A d \in siblings' \ siblings :
             ins[d] # "off" /\ rpc'[p] = "setup" /\ slot'[p] = d,
           rpc[p] = "setup" =>
             ~is_ring_ready(slot[p]) \/ (rpc'[p] = "setup" /\ slot'[p] = slot[p])
    PROVE  CoverInv'
<1>0. /\ BaseTypes /\ Joining /\ Joined /\ Answers /\ Covered /\ Blocked
      /\ siblings \subseteq Doms /\ home \in Doms
  BY DEF Orderly, TypeInv, BaseTypes, CoverInv
<1>1. /\ \A q \in Procs : slot[q] \in Int
      /\ Doms \subseteq Int /\ User \in Int /\ MAX_INS_COUNT \in Int
      /\ User \in Procs /\ Doms \subseteq Procs /\ User \notin Doms
  BY <1>0, Counters, Numbers
<1>2. /\ \A d : is_ring_ready(d)' <=> is_ring_ready(d)
      /\ \A s : InsOf(s)' = InsOf(s)
      /\ OnRing' = OnRing
  BY DEF is_ring_ready, InsOf, OnRing
<1>3. Joining'
  <2>1. \A d \in siblings' : ins'[d] # "off"
    BY <1>0 DEF Joining
  <2>2. \A d \in Doms : ins'[d] = "off" => slot'[d] = 1 /\ rpc'[d] = "off"
    BY <1>0, <1>1 DEF Joining
  <2> QED
    BY <2>1, <2>2 DEF Joining
<1>4. Joined'
  <2> SUFFICES ASSUME NEW d \in Doms, ins[d] = "up", d # home, d \notin siblings'
               PROVE  rpc'[d] # "off" /\ slot'[d] <= d
    BY DEF Joined
  <2>1. rpc[d] # "off" /\ slot[d] <= d /\ d <= MAX_INS_COUNT
    BY <1>0 DEF Joined, Doms, is_ring_ready
  <2>2. CASE d = p
    BY <1>1, <2>1, <2>2
  <2>3. CASE d # p
    BY <1>1, <2>1, <2>3
  <2> QED
    BY <2>2, <2>3
<1>5. Answers'
  BY <1>0, <1>2 DEF Answers
<1>6. Covered'
  <2> SUFFICES ASSUME inbound = <<>>, NEW d \in Doms, Visited(d)', is_ring_ready(d)
               PROVE  /\ d = home => User \in accepting
                      /\ d \in siblings' =>
                           \/ d \in accepting
                           \/ \E q \in Procs : rpc'[q] = "setup" /\ slot'[q] = d
    BY <1>2 DEF Covered
  <2>1. CASE Visited(d)
    <3>1. \A q \in Procs : rpc[q] = "setup" /\ slot[q] = d
                             => rpc'[q] = "setup" /\ slot'[q] = d
      OBVIOUS
    <3> QED
      BY <1>0, <2>1, <3>1 DEF Covered
  <2>2. CASE ~Visited(d)
    <3>1. p = User /\ d = slot[p] /\ slot'[p] # slot[p]
      BY <1>1, <2>2 DEF Visited
    <3> QED
      BY <3>1
  <2> QED
    BY <2>1, <2>2
<1>7. Blocked'
  BY <1>0 DEF Blocked
<1> QED
  BY <1>3, <1>4, <1>5, <1>6, <1>7 DEF CoverInv

\* The steps of a replicator.
LEMMA ReplicatorKeepsCover ==
    ASSUME Orderly, CoverInv, NEW p \in Procs, Replicator(p)
    PROVE  CoverInv'
<1>0. /\ TypeInv /\ BaseTypes /\ Positions /\ Flags /\ home \notin siblings /\ NoSocketYet
      /\ rpc \in [Procs -> {"off", "next", "lock", "create", "setup"}]
      /\ slot \in [Procs -> 1..(MAX_INS_COUNT + 1)]
      /\ \A q \in Procs : slot[q] \in Int
  BY Counters DEF Orderly, TypeInv, AcceptInv, ReplicaInv
<1>1. CASE LookAtSlot(p)
  <2>1. /\ UNCHANGED <<ins, home, siblings, accepting, inbound, pending, answered,
                       sockinst, pc>>
        /\ rpc[p] = "next" /\ ~(slot[p] > MAX_INS_COUNT)
    BY <1>1 DEF LookAtSlot, PastLastSlot, sockVars, userVars, reqVars, ringVars, history
  <2>2. slot[p] \in Doms
    BY <1>0, <2>1, ListenersAssumption DEF Doms
  <2>3. CASE is_ring_ready(slot[p]) /\ rpc' = [rpc EXCEPT ![p] = "lock"] /\ slot' = slot
    BY <1>0, <2>1, <2>3, MoveKeepsCover
  <2>4. CASE ~is_ring_ready(slot[p]) /\ slot' = [slot EXCEPT ![p] = @ + 1] /\ rpc' = rpc
    <3>1. ins[slot[p]] # "up"
      BY <2>4 DEF is_ring_ready
    <3> QED
      BY <1>0, <2>1, <2>2, <2>4, <3>1, MoveKeepsCover
  <2> QED
    BY <1>1, <2>3, <2>4 DEF LookAtSlot
<1>2. CASE Replicate(p)
  <2>1. CASE BeginCreate(p)
    <3>1. /\ UNCHANGED <<ins, home, siblings, accepting, inbound, pending, answered,
                         sockinst, pc, slot>>
          /\ rpc[p] = "lock" /\ rpc' = [rpc EXCEPT ![p] = "create"]
      BY <2>1 DEF BeginCreate, sockVars, userVars, reqVars, ringVars, history
    <3> QED
      BY <1>0, <3>1, MoveKeepsCover
  <2>2. ASSUME slot[p] = home, SendStep(p, User) PROVE CoverInv'
    BY <2>2, SendKeepsCover DEF InsOf
  <2>3. ASSUME slot[p] # home, slot[p] \in siblings, SendStep(p, slot[p])
        PROVE  CoverInv'
    <3>1. slot[p] # User
      BY <1>0, <2>3, Numbers DEF BaseTypes
    <3> QED
      BY <2>3, <3>1, SendKeepsCover DEF InsOf
  <2> QED
    BY <1>0, <1>2, <2>1, <2>2, <2>3, ReplicateSteps
<1>3. CASE CreateReplica(p)
  <2>1. /\ UNCHANGED <<ins, home, accepting, inbound, sockinst, pending, answered, slot, pc>>
        /\ rpc[p] = "create" /\ siblings' = siblings \cup {slot[p]}
        /\ rpc' = [rpc EXCEPT ![p] = "setup"] /\ ins[slot[p]] = "up"
    BY <1>3 DEF CreateReplica, userVars, reqVars, ringVars, history
  <2> QED
    BY <1>0, <2>1, MoveKeepsCover
<1>4. CASE SetUpReplica(p)
  <2>1. rpc[p] = "setup" /\ SendStep(p, slot[p])
    BY <1>0, <1>4, SetUpSends
  <2>2. slot[p] \in siblings /\ slot[p] # User
    BY <1>0, <2>1, Numbers DEF Flags, BaseTypes
  <2> QED
    BY <2>1, <2>2, SendKeepsCover DEF InsOf
<1>5. CASE ReplicaFails(p)
  <2>1. /\ UNCHANGED <<ins, home, accepting, inbound, sockinst, pending, answered, pc>>
        /\ rpc' = [rpc EXCEPT ![p] = "next"] /\ slot' = [slot EXCEPT ![p] = @ + 1]
        /\ \/ rpc[p] = "create" /\ ins[slot[p]] # "up"
           \/ rpc[p] = "setup" /\ ~is_ring_ready(slot[p])
        /\ siblings' = siblings \/ siblings' = siblings \ {slot[p]}
    BY <1>5 DEF ReplicaFails, NextSlot, userVars, reqVars, ringVars, history
  <2>2. slot[p] \in Doms /\ ins[slot[p]] # "up"
    BY <1>0, <2>1 DEF Positions, Looking, is_ring_ready
  <2>3. is_ring_ready(slot[p]) => slot[p] # home /\ slot[p] \notin siblings'
    BY <1>0, <2>1 DEF NoSocketYet
  <2>4. \A d \in siblings : d \in siblings' \/ ~is_ring_ready(d)
    BY <1>0, <2>1 DEF NoSocketYet
  <2> QED
    BY <1>0, <2>1, <2>2, <2>3, <2>4, MoveKeepsCover
<1>6. CASE EndWorkItem(p)
  <2>1. /\ UNCHANGED <<ins, home, siblings, accepting, inbound, pending, answered,
                       sockinst, pc, slot>>
        /\ rpc[p] = "next" /\ rpc' = [rpc EXCEPT ![p] = "off"] /\ slot[p] > MAX_INS_COUNT
    BY <1>6 DEF EndWorkItem, PastLastSlot, sockVars, userVars, reqVars, ringVars, history
  <2> QED
    BY <1>0, <2>1, MoveKeepsCover
<1> QED
  BY <1>1, <1>2, <1>3, <1>4, <1>5, <1>6 DEF Replicator

\* The steps of the user's thread: it has been at every slot when it begins to
\* wait, and waits only if its accept is outstanding or something is queued.
LEMMA UserKeepsCover ==
    ASSUME Orderly, CoverInv, BeginWrite \/ EndWrite \/ BeginRead \/ TakeInbound
    PROVE  CoverInv'
<1>0. /\ BaseTypes /\ Flags /\ Sent /\ Rings /\ Queued
      /\ Joining /\ Joined /\ Answers /\ Covered /\ Blocked
      /\ rpc \in [Procs -> {"off", "next", "lock", "create", "setup"}]
      /\ slot \in [Procs -> 1..(MAX_INS_COUNT + 1)]
      /\ \A q \in Procs : slot[q] \in Int
      /\ User \in Procs /\ Doms \subseteq Procs /\ User \notin Doms /\ Doms \subseteq Int
      /\ MAX_INS_COUNT \in Int
  BY Counters, Numbers DEF Orderly, TypeInv, AcceptInv, CoverInv
<1>1. UNCHANGED <<ins, home, siblings, accepting, pending, answered, blockid>>
  BY DEF BeginWrite, EndWrite, BeginRead, TakeInbound, sockVars, ringVars
<1>2. /\ \A d : is_ring_ready(d)' <=> is_ring_ready(d)
      /\ \A s : InsOf(s)' = InsOf(s)
      /\ OnRing' = OnRing
  BY <1>1 DEF is_ring_ready, InsOf, OnRing
<1>3. \A d \in Doms : rpc'[d] = rpc[d] /\ slot'[d] = slot[d]
  BY <1>0 DEF BeginWrite, EndWrite, BeginRead, TakeInbound, replVars
<1>4. Joining' /\ Joined'
  BY <1>0, <1>1, <1>3 DEF Joining, Joined
<1>5. Answers'
  <2>1. \A i \in OnRing : sockinst'[i] = sockinst[i]
    <3>1. CASE BeginWrite \/ EndWrite
      BY <3>1 DEF BeginWrite, EndWrite, reqVars
    <3>2. CASE TakeInbound
      <4>1. Destroy({Head(inbound)}) /\ inbound # <<>>
        BY <3>2 DEF TakeInbound
      <4>2. Head(inbound) \in ToSet(inbound)
        BY <1>0, <4>1, EntriesOfTail DEF BaseTypes, Queued
      <4>3. Head(inbound) \notin OnRing /\ OnRing \subseteq Ids
        BY <1>0, <4>2 DEF Rings, Outstanding, OnRing, BaseTypes
      <4> QED
        BY <4>1, <4>3 DEF Destroy
    <3>3. CASE BeginRead
      BY <3>3, UndeliveredGoes DEF Orderly
    <3> QED
      BY <3>1, <3>2, <3>3
  <2> QED
    BY <1>0, <1>1, <1>2, <2>1 DEF Answers
<1>6. Covered'
  <2>1. CASE pc' = "idle"
    BY <2>1 DEF Covered, Visited
  <2>2. CASE BeginWrite
    <3>1. pc' = "write" /\ slot'[User] = 1
      BY <1>0, <2>2 DEF BeginWrite
    <3>2. \A d \in Doms : ~(d < 1)
      BY ListenersAssumption DEF Doms
    <3> QED
      BY <3>1, <3>2 DEF Covered, Visited
  <2>3. CASE pc' # "idle" /\ (EndWrite \/ BeginRead)
    <3>1. \A d \in Doms : Visited(d)
      BY <1>0, <2>3 DEF Visited, EndWrite, BeginRead, PastLastSlot, Doms
    <3>2. /\ inbound' = inbound /\ slot' = slot
          /\ \A q \in Procs : rpc[q] = "setup" => rpc'[q] = "setup"
      BY <1>0, <2>3 DEF EndWrite, BeginRead, replVars
    <3> QED
      BY <1>0, <1>1, <1>2, <3>1, <3>2 DEF Covered
  <2> QED
    BY <2>1, <2>2, <2>3 DEF TakeInbound
<1>7. Blocked'
  <2> SUFFICES ASSUME pc' = "await", inbound' = <<>> PROVE User \in accepting
    BY <1>1 DEF Blocked
  <2>1. BeginRead /\ blockid \in active /\ inbound = <<>>
    BY DEF BeginWrite, EndWrite, BeginRead, TakeInbound
  <2>2. blockid \in Outstanding
    BY <2>1 DEF Outstanding, ToSet
  <2> QED
    BY <1>0, <2>1, <2>2 DEF Sent
<1> QED
  BY <1>4, <1>5, <1>6, <1>7 DEF CoverInv

\* The consumer queues something to return.
LEMMA ConsumerKeepsCover ==
    ASSUME Orderly, CoverInv, NEW id \in Ids, mwsocket_postproc_no_context(id)
    PROVE  CoverInv'
<1>0. /\ BaseTypes /\ Sent /\ Rings /\ Joining /\ Joined /\ Answers
  BY DEF Orderly, TypeInv, AcceptInv, CoverInv
<1>1. /\ id \in answered /\ id \in Outstanding
      /\ accepting' = accepting \ {sockinst[id]}
      /\ answered' = answered \ {id} /\ inbound' = Append(inbound, id)
      /\ UNCHANGED <<ins, home, siblings, sockinst, pending, pc, rpc, slot>>
  BY ConsumerKeepsAccepts DEF Orderly
<1>2. inbound' # <<>>
  <2>1. inbound \in Seq(Ids \cup {Unset}) /\ id \in Ids \cup {Unset}
    BY <1>0 DEF BaseTypes
  <2> QED
    BY <1>1, <2>1, AppendProperties
<1>3. Joining' /\ Joined'
  BY <1>0, <1>1 DEF Joining, Joined
<1>4. Answers'
  <2> SUFFICES ASSUME NEW s \in accepting, s # sockinst[id], is_ring_ready(InsOf(s))
               PROVE  \E i \in OnRing' : sockinst[i] = s
    BY <1>1 DEF Answers, is_ring_ready, InsOf
  <2>1. PICK i \in OnRing : sockinst[i] = s
    BY <1>0 DEF Answers
  <2> QED
    BY <1>1, <2>1 DEF OnRing
<1> QED
  BY <1>2, <1>3, <1>4 DEF CoverInv, Covered, Blocked

\* It comes back to the request, or mitigation closes a socket: what is on the
\* rings, and the flags, stay.
LEMMA QuietKeepsCover ==
    ASSUME Orderly, CoverInv,
           FinishResponse \/ \E sock \in Socks : mwsocket_close_remote(sock)
    PROVE  CoverInv'
<1>0. Joining /\ Joined /\ Answers /\ Covered /\ Blocked
  BY DEF CoverInv
<1>1. /\ UNCHANGED <<ins, home, siblings, accepting, inbound, pending, answered, pc, rpc,
                     slot>>
      /\ OnRing' = OnRing /\ \A i \in OnRing : sockinst'[i] = sockinst[i]
  <2>1. CASE FinishResponse
    BY <2>1, UndeliveredGoes DEF Orderly, FinishResponse, userVars
  <2>2. CASE \E sock \in Socks : mwsocket_close_remote(sock)
    BY <2>2, CloseKeepsAccepts DEF Orderly, OnRing
  <2> QED
    BY <2>1, <2>2
<1>2. \A s : InsOf(s)' = InsOf(s)
  BY <1>1 DEF InsOf
<1>3. Joining' /\ Joined' /\ Blocked'
  BY <1>0, <1>1 DEF Joining, Joined, Blocked
<1>4. Answers'
  BY <1>0, <1>1, <1>2 DEF Answers, is_ring_ready
<1>5. Covered'
  BY <1>0, <1>1 DEF Covered, Visited, is_ring_ready
<1> QED
  BY <1>3, <1>4, <1>5 DEF CoverInv

\* INSs join, answer, crash and are released.
LEMMA InsKeepsCover ==
    ASSUME Orderly, CoverInv, NEW d \in Doms,
           Ins(d) \/ InsCrashes(d) \/ mw_xen_release_ins(d) \/ mw_xen_ins_found(d)
    PROVE  CoverInv'
<1>0. /\ BaseTypes /\ Flags /\ Sent /\ Rings /\ ins[home] # "off"
      /\ Joining /\ Joined /\ Answers /\ Covered /\ Blocked
      /\ rpc \in [Procs -> {"off", "next", "lock", "create", "setup"}]
      /\ User \in Procs /\ Doms \subseteq Procs /\ User \notin Doms /\ Doms \subseteq Int
      /\ home \in Doms /\ siblings \subseteq Doms /\ OnRing \subseteq Outstanding
      /\ ins \in [Doms -> {"off", "up", "crashed", "released", "reaped"}]
  BY Counters, Numbers DEF Orderly, TypeInv, AcceptInv, CoverInv, BaseTypes, Rings
<1>1. UNCHANGED <<home, siblings, accepting, inbound, sockinst, sent_to, pc, slot>>
  BY DEF Ins, InsAccepts, InsCrashes, mw_xen_release_ins, mw_xen_ins_found, sockVars,
     userVars, reqVars, replVars
<1>2. \A s : InsOf(s)' = InsOf(s)
  BY <1>1 DEF InsOf
<1>3. Blocked'
  BY <1>0, <1>1 DEF Blocked
<1>4. CASE Ins(d)
  <2>1. OnRing' = OnRing /\ UNCHANGED <<ins, rpc>>
    BY <1>4 DEF Ins, InsAccepts, OnRing, replVars
  <2>2. Joining' /\ Joined'
    BY <1>0, <1>1, <2>1 DEF Joining, Joined
  <2>3. Answers' /\ Covered'
    BY <1>0, <1>1, <1>2, <2>1 DEF Answers, Covered, Visited, is_ring_ready
  <2> QED
    BY <1>3, <2>2, <2>3 DEF CoverInv
<1>5. CASE InsCrashes(d)
  <2>1. /\ OnRing' = OnRing /\ UNCHANGED rpc
        /\ ins[d] = "up" /\ ins' = [ins EXCEPT ![d] = "crashed"]
    BY <1>5 DEF InsCrashes, OnRing, ringVars, replVars
  <2>2. /\ \A e \in Doms : ins'[e] = "off" <=> ins[e] = "off"
        /\ \A e \in Doms : ins'[e] = "up" => ins[e] = "up"
        /\ \A e \in Doms : is_ring_ready(e)' <=> is_ring_ready(e)
    BY <1>0, <2>1 DEF is_ring_ready
  <2>3. Joining' /\ Joined'
    BY <1>0, <1>1, <2>1, <2>2 DEF Joining, Joined
  <2>4. \A s \in accepting : InsOf(s) \in Doms
    BY <1>0 DEF Flags, InsOf
  <2>5. \A s \in accepting : is_ring_ready(InsOf(s))' => is_ring_ready(InsOf(s))
    BY <1>2, <2>2, <2>4 DEF is_ring_ready
  <2>6. Answers'
    BY <1>0, <1>1, <2>1, <2>5 DEF Answers
  <2>7. Covered'
    BY <1>0, <1>1, <2>1, <2>2 DEF Covered, Visited
  <2> QED
    BY <1>3, <2>3, <2>6, <2>7 DEF CoverInv
<1>6. CASE mw_xen_release_ins(d)
  <2>1. /\ UNCHANGED rpc /\ is_ring_ready(d) /\ ins' = [ins EXCEPT ![d] = "released"]
        /\ OnRing' = {id \in OnRing : sent_to[id] # d}
    BY <1>6 DEF mw_xen_release_ins, OnRing, replVars
  <2>2. /\ \A e \in Doms : ins'[e] = "off" <=> ins[e] = "off"
        /\ \A e \in Doms : ins'[e] = "up" => ins[e] = "up"
        /\ \A e \in Doms : is_ring_ready(e)' <=> (is_ring_ready(e) /\ e # d)
    BY <1>0, <2>1 DEF is_ring_ready
  <2>3. Joining' /\ Joined'
    BY <1>0, <1>1, <2>1, <2>2 DEF Joining, Joined
  <2>4. \A s \in accepting : InsOf(s) \in Doms
    BY <1>0 DEF Flags, InsOf
  <2>5. \A s \in accepting : is_ring_ready(InsOf(s))' => is_ring_ready(InsOf(s))
                                                          /\ InsOf(s) # d
    BY <1>2, <2>2, <2>4 DEF is_ring_ready
  <2>6. Answers'
    <3> SUFFICES ASSUME NEW s \in accepting, is_ring_ready(InsOf(s)), InsOf(s) # d
                 PROVE  \E i \in OnRing' : sockinst[i] = s
      BY <1>1, <2>5 DEF Answers
    <3>1. PICK i \in OnRing : sockinst[i] = s
      BY <1>0 DEF Answers
    <3>2. sent_to[i] # d
      BY <1>0, <3>1 DEF Sent, Outstanding
    <3> QED
      BY <2>1, <3>1, <3>2
  <2>7. Covered'
    BY <1>0, <1>1, <2>1, <2>2 DEF Covered, Visited
  <2> QED
    BY <1>3, <2>3, <2>6, <2>7 DEF CoverInv
<1>7. CASE mw_xen_ins_found(d)
  <2>1. /\ OnRing' = OnRing /\ ins[d] = "off" /\ ins' = [ins EXCEPT ![d] = "up"]
        /\ rpc' = [rpc EXCEPT ![d] = "next"]
    BY <1>7 DEF mw_xen_ins_found, OnRing, ringVars
  <2>2. /\ d # home /\ d \notin siblings /\ slot[d] = 1 /\ 1 <= d /\ rpc[d] = "off"
    BY <1>0, <2>1 DEF Joining, Doms
  <2>3. \A e \in Doms \ {d} : ins'[e] = ins[e] /\ rpc'[e] = rpc[e]
    BY <1>0, <2>1
  <2>4. ins'[d] = "up" /\ rpc'[d] = "next"
    BY <1>0, <2>1
  <2>5. Joining' /\ Joined'
    BY <1>0, <1>1, <2>2, <2>3, <2>4 DEF Joining, Joined
  <2>6. \A s \in accepting : InsOf(s) \in Doms \ {d}
    BY <1>0, <2>2 DEF Flags, InsOf
  <2>7. \A s \in accepting : is_ring_ready(InsOf(s))' => is_ring_ready(InsOf(s))
    BY <1>2, <2>3, <2>6 DEF is_ring_ready
  <2>8. Answers'
    BY <1>0, <1>1, <2>1, <2>7 DEF Answers
  <2>9. \A q \in Procs : rpc[q] = "setup" => rpc'[q] = "setup"
    BY <1>0, <2>1, <2>2
  <2>10. Covered'
    BY <1>0, <1>1, <2>2, <2>3, <2>9 DEF Covered, Visited, is_ring_ready
  <2> QED
    BY <1>3, <2>5, <2>8, <2>10 DEF CoverInv
<1> QED
  BY <1>4, <1>5, <1>6, <1>7

\* The monitor thread: a replica that takes the place of the user's own socket
\* accepts, or the thread that is setting it up uses it after it was freed.
LEMMA ReaperKeepsCover ==
    ASSUME Orderly, CoverInv, mwsocket_reap_dead_sock_instances, ~oops'
    PROVE  CoverInv'
<1>0. /\ TypeInv /\ BaseTypes /\ Flags /\ Sent /\ Rings /\ home \notin siblings
      /\ Joining /\ Joined /\ Answers /\ Covered /\ Blocked
      /\ home \in Doms /\ siblings \subseteq Doms /\ OnRing \subseteq Ids
      /\ User \notin Doms /\ Doms \subseteq Procs /\ DeadIns \subseteq Doms
      /\ UNCHANGED <<pc, pending, answered, rpc, slot>>
  BY ReaperEffect, Numbers
     DEF Orderly, TypeInv, BaseTypes, AcceptInv, ReplicaInv, CoverInv, OnRing
<1>1. /\ \A d \in Doms : is_ring_ready(d)' <=> is_ring_ready(d)
      /\ \A d \in Doms \ DeadIns : ins'[d] = ins[d]
      /\ \A d \in DeadIns : ~is_ring_ready(d) /\ ins[d] = "released" /\ ins'[d] = "reaped"
      /\ \A i \in OnRing :
           /\ i \in active /\ sockinst[i] \notin DeadIns /\ i \notin Reaped
           /\ sockinst[i] = User => home \notin DeadIns
  BY DeadRings, ReaperEffect DEF Orderly, DeadIns
<1>2. OnRing' = OnRing
  BY <1>0 DEF OnRing
<1>3. ASSUME siblings' \subseteq siblings,
             \A d \in siblings : d \in siblings' \/ d \in DeadIns \/ d = home',
             home' = home \/ home \in DeadIns
      PROVE  Joining' /\ Joined'
  <2>1. Joining'
    BY <1>0, <1>1, <1>3 DEF Joining
  <2>2. Joined'
    BY <1>0, <1>1, <1>3 DEF Joined
  <2> QED
    BY <2>1, <2>2
<1>4. ASSUME home \in DeadIns, User \in accepting, NEW s \in Replacements, Promote(s)
      PROVE  CoverInv'
  <2>1. /\ s \in siblings /\ s \notin DeadIns /\ s # home /\ s \in Doms /\ s # User
        /\ is_ring_ready(s)
    BY <1>0, <1>1 DEF Replacements
  <2>2. /\ TakeOverRequests(s) /\ home' = s /\ inbound' = inbound
        /\ accepting' = (accepting \ (DeadIns \cup {User, s}))
                          \cup {t \in {User} : s \in accepting}
        /\ siblings' = siblings \ ((DeadIns \cap accepting) \cup {s})
        /\ \A p \in Procs : ~(rpc[p] = "setup" /\ slot[p] = s)
    BY <1>4 DEF Promote
  <2>3. \A i \in OnRing : sockinst'[i] = IF sockinst[i] = s THEN User ELSE sockinst[i]
    <3> SUFFICES ASSUME NEW i \in OnRing
                 PROVE  sockinst'[i] = IF sockinst[i] = s THEN User ELSE sockinst[i]
      OBVIOUS
    <3>1. /\ i \in active /\ i \in Ids /\ sockinst[i] # User /\ sockinst[i] \notin DeadIns
          /\ i \notin Requests({User}) \cup Reaped
      <4>1. i \in Ids
        BY <1>0
      <4>2. /\ i \in active /\ sockinst[i] # User /\ sockinst[i] \notin DeadIns
            /\ i \notin Reaped
        BY <1>1, <1>4
      <4> QED
        BY <4>1, <4>2 DEF Requests
    <3>2. i \in Requests({s}) <=> sockinst[i] = s
      BY <3>1 DEF Requests
    <3> QED
      BY <2>2, <3>1, <3>2 DEF TakeOverRequests
  <2>4. Joining' /\ Joined'
    BY <1>3, <1>4, <2>2
  <2>5. Answers'
    <3> SUFFICES ASSUME NEW t \in accepting', is_ring_ready(InsOf(t))'
                 PROVE  \E i \in OnRing : sockinst'[i] = t
      BY <1>2 DEF Answers
    <3>1. CASE t = User
      <4>1. s \in accepting /\ is_ring_ready(InsOf(s))
        BY <2>1, <2>2, <3>1 DEF InsOf
      <4>2. PICK i \in OnRing : sockinst[i] = s
        BY <1>0, <4>1 DEF Answers
      <4> QED
        BY <2>3, <3>1, <4>2
    <3>2. CASE t # User
      <4>1. t \in accepting /\ t # s /\ t \in Doms
        BY <1>0, <2>2, <3>2 DEF Flags
      <4>2. is_ring_ready(InsOf(t))
        BY <1>1, <3>2, <4>1 DEF InsOf, is_ring_ready
      <4>3. PICK i \in OnRing : sockinst[i] = t
        BY <1>0, <4>1, <4>2 DEF Answers
      <4> QED
        BY <2>3, <4>1, <4>3
    <3> QED
      BY <3>1, <3>2
  <2>6. inbound = <<>> /\ Visited(s) => s \in accepting
    BY <1>0, <2>1, <2>2 DEF Covered
  <2>7. Covered'
    <3> SUFFICES ASSUME inbound = <<>>, NEW d \in Doms, Visited(d), is_ring_ready(d)
                 PROVE  /\ d = home' => User \in accepting'
                        /\ d \in siblings' =>
                             \/ d \in accepting'
                             \/ \E p \in Procs : rpc[p] = "setup" /\ slot[p] = d
      BY <1>0, <1>1, <2>2 DEF Covered, Visited
    <3>1. d = home' => User \in accepting'
      BY <2>2, <2>6
    <3>2. d \in siblings /\ d # s /\ d \in accepting => d \in accepting'
      BY <1>0, <1>1, <2>2
    <3> QED
      BY <1>0, <2>2, <3>1, <3>2 DEF Covered
  <2>8. Blocked'
    BY <1>0, <2>2, <2>6 DEF Blocked, Visited
  <2> QED
    BY <2>4, <2>5, <2>7, <2>8 DEF CoverInv
<1>5. ASSUME Destroy(Reaped), home' = home, accepting' \subseteq accepting,
             siblings' = siblings \ (DeadIns \cap accepting)
      PROVE  Joining' /\ Joined' /\ Answers'
  <2>1. \A i \in OnRing : sockinst'[i] = sockinst[i]
    <3> SUFFICES ASSUME NEW i \in OnRing PROVE sockinst'[i] = sockinst[i]
      OBVIOUS
    <3>1. i \in Ids /\ i \notin Reaped
      BY <1>0, <1>1
    <3> QED
      BY <1>5, <3>1 DEF Destroy
  <2>2. \A s \in accepting : InsOf(s) \in Doms /\ InsOf(s)' = InsOf(s)
    BY <1>0, <1>5 DEF InsOf, Flags
  <2>3. \A s \in accepting : is_ring_ready(InsOf(s))' => is_ring_ready(InsOf(s))
    BY <1>1, <2>2 DEF is_ring_ready
  <2> QED
    BY <1>0, <1>2, <1>3, <1>5, <2>1, <2>3 DEF Answers
<1>6. ASSUME FailAccept PROVE CoverInv'
  <2>1. /\ Destroy(Reaped) /\ home' = home
        /\ accepting' = accepting \ (DeadIns \cup {User})
        /\ siblings' = siblings \ (DeadIns \cap accepting)
        /\ inbound' = Append(inbound, blockid)
    BY <1>6 DEF FailAccept
  <2>2. inbound' # <<>>
    <3>1. inbound \in Seq(Ids \cup {Unset}) /\ blockid \in Ids \cup {Unset}
      BY <1>0 DEF BaseTypes
    <3> QED
      BY <2>1, <3>1, AppendProperties
  <2> QED
    BY <1>5, <2>1, <2>2 DEF CoverInv, Covered, Blocked
<1>7. ASSUME ~(home \in DeadIns /\ User \in accepting), DropReplicas PROVE CoverInv'
  <2>1. /\ Destroy(Reaped) /\ home' = home
        /\ accepting' = accepting \ DeadIns
        /\ siblings' = siblings \ (DeadIns \cap accepting)
        /\ inbound' = inbound
    BY <1>7 DEF DropReplicas
  <2>2. Covered'
    <3> SUFFICES ASSUME inbound = <<>>, NEW d \in Doms, Visited(d), is_ring_ready(d)
                 PROVE  /\ d = home => User \in accepting'
                        /\ d \in siblings' =>
                             \/ d \in accepting'
                             \/ \E p \in Procs : rpc[p] = "setup" /\ slot[p] = d
      BY <1>0, <1>1, <2>1 DEF Covered, Visited
    <3>1. d \notin DeadIns
      BY <1>1
    <3> QED
      BY <1>0, <2>1, <3>1 DEF Covered
  <2>3. Blocked'
    BY <1>0, <2>1 DEF Blocked
  <2> QED
    BY <1>5, <2>1, <2>2, <2>3 DEF CoverInv
<1> QED
  BY <1>0, <1>4, <1>6, <1>7, ReaperEffect

\* At first nothing has been visited, and the only INS has the socket.
LEMMA CoverInitially == Init => CoverInv
<1> SUFFICES ASSUME Init PROVE CoverInv
  OBVIOUS
<1>1. /\ ins = [d \in Doms |-> IF d = 1 THEN "up" ELSE "off"]
      /\ home = 1 /\ siblings = {} /\ accepting = {} /\ pc = "idle"
      /\ rpc = [p \in Procs |-> "off"] /\ slot = [p \in Procs |-> 1]
  BY DEF Init
<1>2. Joining /\ Joined
  BY <1>1, Numbers DEF Joining, Joined
<1> QED
  BY <1>1, <1>2 DEF CoverInv, Answers, Covered, Blocked, Visited

\* Every step keeps the INSs covered, unless the driver goes wrong.
LEMMA CoverNext ==
    AcceptsInOrder /\ (~oops => CoverInv) /\ [Next]_vars => (~oops' => CoverInv')
<1> SUFFICES ASSUME AcceptsInOrder, ~oops => CoverInv, [Next]_vars, ~oops'
             PROVE  CoverInv'
  OBVIOUS
<1>0. ~oops => Orderly /\ CoverInv
  BY DEF AcceptsInOrder, Orderly
<1>1. CASE UNCHANGED vars
  <2>1. UNCHANGED <<ins, home, siblings, accepting, inbound, pending, answered, sockinst, pc,
                    rpc, slot, oops>>
    BY <1>1 DEF vars, sockVars, userVars, reqVars, ringVars, replVars, history
  <2>2. CoverInv
    BY <1>0, <2>1
  <2>3. Joining' /\ Joined' /\ Blocked'
    BY <2>1, <2>2 DEF CoverInv, Joining, Joined, Blocked
  <2>4. Answers' /\ Covered'
    BY <2>1, <2>2 DEF CoverInv, Answers, Covered, Visited, InsOf, OnRing, is_ring_ready
  <2> QED
    BY <2>3, <2>4 DEF CoverInv
<1>2. CASE Running /\ (BeginWrite \/ EndWrite \/ BeginRead \/ TakeInbound)
  BY <1>0, <1>2, UserKeepsCover DEF Running
<1>3. ASSUME Running, NEW p \in Procs, Replicator(p) PROVE CoverInv'
  BY <1>0, <1>3, ReplicatorKeepsCover DEF Running
<1>4. CASE Running /\ (Consumer \/ \E sock \in Socks : mwsocket_close_remote(sock))
  BY <1>0, <1>4, ConsumerKeepsCover, QuietKeepsCover DEF Running, Consumer
<1>5. ASSUME Running, NEW d \in Doms,
             Ins(d) \/ InsCrashes(d) \/ mw_xen_release_ins(d) \/ mw_xen_ins_found(d)
      PROVE  CoverInv'
  BY <1>0, <1>5, InsKeepsCover DEF Running
<1>6. CASE Running /\ mwsocket_reap_dead_sock_instances
  BY <1>0, <1>6, ReaperKeepsCover DEF Running
<1> QED
  BY <1>1, <1>2, <1>3, <1>4, <1>5, <1>6 DEF Next, Accept

\* They are covered in every state in which it has not.
LEMMA CoverAlways == Spec => [](~oops => Orderly /\ CoverInv)
<1>1. Init => (~oops => CoverInv)
  BY CoverInitially
<1>2. AcceptsInOrder /\ (~oops => CoverInv) => (~oops => Orderly /\ CoverInv)
  BY DEF AcceptsInOrder, Orderly
<1> QED
  BY <1>1, <1>2, CoverNext, AcceptsAlways, PTL DEF Spec

\* accept() never blocks on a socket whose INS has been reaped, with any number of
\* INSs: when its INS dies a replica that accepts takes its place, for every slot
\* the write() has been at is covered, or the accept is completed with an error.
THEOREM NeverBlockedOnDeadIns == Spec => []BlockedOnLiveIns
<1>1. (~oops => Orderly /\ CoverInv) => BlockedOnLiveIns
  BY DEF BlockedOnLiveIns, Orderly, AcceptInv, Flags, CoverInv, Blocked
<1> QED
  BY <1>1, CoverAlways, PTL

\* While accept() blocks and no replicator is at work, every INS that runs has an
\* accept of the socket, whatever the order in which INSs joined, died and were
\* replaced.
THEOREM NoInsStaysDeaf == Spec => []NoDeafIns
<1>1. (~oops => Orderly /\ CoverInv) => NoDeafIns
  <2> SUFFICES ASSUME ~oops => Orderly /\ CoverInv, pc = "await", inbound = <<>>, ~oops,
                      \A p \in Procs : rpc[p] = "off", NEW d \in Doms, ins[d] = "up"
               PROVE  \E id \in OnRing : sent_to[id] = d
    BY DEF NoDeafIns, OnRing
  <2>0. /\ BaseTypes /\ Sent /\ Rings /\ Joined /\ Answers /\ Covered /\ User \notin Doms
        /\ Doms \subseteq Procs
    BY Numbers DEF Orderly, TypeInv, AcceptInv, CoverInv
  <2>1. d = home \/ d \in siblings
    BY <2>0 DEF Joined
  <2>2. is_ring_ready(d) /\ Visited(d)
    BY DEF is_ring_ready, Visited
  <2>3. PICK s \in accepting : InsOf(s) = d
    BY <2>0, <2>1, <2>2 DEF Covered, InsOf
  <2>4. PICK i \in OnRing : sockinst[i] = s
    BY <2>0, <2>2, <2>3 DEF Answers
  <2>5. sent_to[i] = d
    BY <2>0, <2>3, <2>4 DEF Sent, Rings, Outstanding
  <2> QED
    BY <2>4, <2>5
<1> QED
  BY <1>1, CoverAlways, PTL
-----------------------------------------------------------------------------
(* Why accept() fails.                                                     *)

Healthy == \A d \in Doms : ins[d] \in {"off", "up"}

\* The user's thread has sent its accept: it is past the slot of its own socket.
HasSent == (pc = "write" /\ slot[User] > home) \/ pc = "mustread"

\* No replicator has failed, and blockid is the accept of the user's socket.
NoFault ==
    /\ result # "error" /\ failed = {} /\ \A p \in Procs : rc[p] = 0
    /\ User \in accepting => blockid \in Outstanding
    /\ HasSent => blockid \in active
    /\ pc = "mustread" => read_expected

CauseInv == Healthy /\ closing = {} /\ ~silent => NoFault

\* Then nothing has been given up either.
LEMMA HealthyIsUndisturbed == Healthy /\ closing = {} => Undisturbed
  BY DEF Healthy, Undisturbed

\* An INS in the table is ready as long as all are healthy.
LEMMA HealthyIsReady ==
    ASSUME Healthy, NEW d \in Doms, ins[d] # "off"
    PROVE  ins[d] = "up" /\ is_ring_ready(d)
  BY DEF Healthy, is_ring_ready

\* An accept is sent by the user's thread, or on a replica.
LEMMA SendKeepsCause ==
    ASSUME Orderly, CauseInv, NEW p \in Procs, NEW sock \in {User} \cup siblings,
           SendStep(p, sock), slot[p] = InsOf(sock)
    PROVE  CauseInv'
<1> SUFFICES ASSUME Healthy', closing' = {}, ~silent' PROVE NoFault'
  BY DEF CauseInv
<1>0. /\ BaseTypes /\ Positions /\ Sent /\ home \notin siblings
      /\ \A q \in Procs : slot[q] \in Int
      /\ slot \in [Procs -> 1..(MAX_INS_COUNT + 1)]
      /\ User \in Procs /\ Doms \subseteq Int /\ home \in Doms
      /\ User \notin Doms /\ siblings \subseteq Doms
  BY Counters, Numbers DEF Orderly, TypeInv, AcceptInv, ReplicaInv, BaseTypes
<1>1. /\ UNCHANGED <<ins, home, siblings, closing, pc, result, inbound, failed>>
      /\ rpc[p] \in {"lock", "setup"}
      /\ slot' = [slot EXCEPT ![p] = @ + 1]
      /\ rc' = [rc EXCEPT ![p] =
                  IF sock \notin accepting /\ ~is_ring_ready(slot[p]) THEN 1 ELSE @]
  BY DEF SendStep, NextSlot
<1>2. slot[p] \in Doms /\ ins[slot[p]] # "off"
  BY <1>0, <1>1 DEF Positions, Looking
<1>3. Healthy /\ ~silent
  <2>1. CASE NoAccept(sock, slot[p])
    BY <1>1, <2>1 DEF Healthy, NoAccept
  <2>2. CASE \E n \in Ids \ Known : NewAccept(p, n, sock, slot[p])
    BY <1>1, <2>2 DEF Healthy, NewAccept
  <2> QED
    BY <2>1, <2>2 DEF SendStep
<1>4. NoFault /\ is_ring_ready(slot[p])
  BY <1>1, <1>2, <1>3, HealthyIsReady DEF CauseInv
<1>5. \A q \in Procs : rc'[q] = 0
  BY <1>0, <1>1, <1>4 DEF NoFault, BaseTypes
<1>6. /\ HasSent' => HasSent \/ (p = User /\ sock = User)
  <2>1. CASE p = User /\ slot[p] = home
    <3>1. sock = User
      BY <1>0, <2>1 DEF InsOf
    <3> QED
      BY <2>1, <3>1
  <2>2. CASE p = User /\ slot[p] # home
    BY <1>0, <1>1, <2>2 DEF HasSent
  <2>3. CASE p # User
    BY <1>0, <1>1, <2>3 DEF HasSent
  <2> QED
    BY <2>1, <2>2, <2>3
<1>7. CASE NoAccept(sock, slot[p])
  <2>1. /\ sock \in accepting
        /\ UNCHANGED <<accepting, active, blockid, read_expected>>
    BY <1>4, <1>7 DEF NoAccept
  <2>2. Outstanding' = Outstanding
    BY <1>1, <2>1 DEF Outstanding
  <2>3. HasSent' => blockid \in active
    BY <1>4, <1>6, <2>1 DEF NoFault, Outstanding
  <2> QED
    BY <1>1, <1>4, <1>5, <2>1, <2>2, <2>3 DEF NoFault
<1>8. CASE \E n \in Ids \ Known : NewAccept(p, n, sock, slot[p])
  <2>1. PICK n \in Ids \ Known : NewAccept(p, n, sock, slot[p])
    BY <1>8
  <2>2. /\ accepting' = accepting \cup {sock} /\ active' = active \cup {n}
        /\ sock = User => p = User
    BY <1>3, <2>1 DEF NewAccept
  <2>3. n \notin ToSet(inbound)
    BY DEF Known
  <2>4. Outstanding' = Outstanding \cup {n}
    BY <1>1, <2>2, <2>3 DEF Outstanding
  <2>5. CASE sock = User
    <3>1. blockid' = n /\ read_expected' = TRUE
      BY <2>1, <2>2, <2>5 DEF NewAccept, CallerWaits
    <3> QED
      BY <1>1, <1>4, <1>5, <2>2, <2>4, <3>1 DEF NoFault
  <2>6. CASE sock # User
    <3>1. UNCHANGED <<blockid, read_expected>>
      BY <2>1, <2>6 DEF NewAccept, CallerWaits
    <3> QED
      BY <1>1, <1>4, <1>5, <1>6, <2>2, <2>4, <2>6, <3>1 DEF NoFault
  <2> QED
    BY <2>5, <2>6
<1> QED
  BY <1>7, <1>8 DEF SendStep

\* A replicator moves on: it skips slots that are not in use, and never the one of
\* the user's socket.
LEMMA ReplicatorKeepsCause ==
    ASSUME Orderly, CauseInv, NEW p \in Procs, Replicator(p)
    PROVE  CauseInv'
<1>0. /\ TypeInv /\ BaseTypes /\ Positions /\ Flags /\ ins[home] # "off" /\ home \in Doms
      /\ slot \in [Procs -> 1..(MAX_INS_COUNT + 1)]
      /\ \A q \in Procs : slot[q] \in Int
      /\ User \in Procs /\ Doms \subseteq Int
  BY Counters, Numbers DEF Orderly, TypeInv, BaseTypes, AcceptInv
<1>1. ASSUME UNCHANGED <<ins, home, accepting, closing, blockid, read_expected, pc, result,
                         inbound, active, failed, silent>>,
             rc' = rc \/ rc' = [rc EXCEPT ![p] = 0],
             \/ slot' = slot
             \/ slot' = [slot EXCEPT ![p] = @ + 1] /\ ~is_ring_ready(slot[p])
      PROVE  CauseInv'
  <2> SUFFICES ASSUME Healthy', closing' = {}, ~silent' PROVE NoFault'
    BY DEF CauseInv
  <2>1. Healthy /\ NoFault
    BY <1>1 DEF CauseInv, Healthy
  <2>6. \A q \in Procs : rc'[q] = 0
    BY <1>0, <1>1, <2>1 DEF NoFault, BaseTypes
  <2>2. is_ring_ready(home)
    BY <1>0, <2>1, HealthyIsReady
  <2>3. slot'[User] > home => slot[User] > home
    BY <1>0, <1>1, <2>2
  <2>4. HasSent' => HasSent
    BY <1>1, <2>3 DEF HasSent
  <2>5. Outstanding' = Outstanding
    BY <1>1 DEF Outstanding
  <2> QED
    BY <1>1, <2>1, <2>4, <2>5, <2>6 DEF NoFault
<1>2. CASE LookAtSlot(p)
  BY <1>1, <1>2 DEF LookAtSlot, sockVars, userVars, reqVars, history
<1>3. CASE Replicate(p)
  <2>1. CASE BeginCreate(p)
    BY <1>1, <2>1 DEF BeginCreate, sockVars, userVars, reqVars, history
  <2>2. ASSUME slot[p] = home, SendStep(p, User) PROVE CauseInv'
    BY <2>2, SendKeepsCause DEF InsOf
  <2>3. ASSUME slot[p] # home, slot[p] \in siblings, SendStep(p, slot[p])
        PROVE  CauseInv'
    <3>1. slot[p] # User
      BY <1>0, <2>3, Numbers DEF BaseTypes
    <3> QED
      BY <2>3, <3>1, SendKeepsCause DEF InsOf
  <2> QED
    BY <1>0, <1>3, <2>1, <2>2, <2>3, ReplicateSteps
<1>4. CASE CreateReplica(p)
  BY <1>1, <1>4 DEF CreateReplica, userVars, reqVars, history
<1>5. CASE SetUpReplica(p)
  <2>1. rpc[p] = "setup" /\ SendStep(p, slot[p])
    BY <1>0, <1>5, SetUpSends
  <2>2. slot[p] \in siblings /\ slot[p] # User
    BY <1>0, <2>1, Numbers DEF Flags, BaseTypes
  <2> QED
    BY <2>1, <2>2, SendKeepsCause DEF InsOf
<1>6. CASE ReplicaFails(p)
  <2>1. ins' = ins /\ ins[slot[p]] # "up" /\ rpc[p] \in {"create", "setup"}
    BY <1>6 DEF ReplicaFails, is_ring_ready
  <2>2. slot[p] \in Doms /\ ins[slot[p]] # "off"
    BY <1>0, <2>1 DEF Positions, Looking
  <2>3. ~Healthy'
    BY <2>1, <2>2 DEF Healthy
  <2> QED
    BY <2>3 DEF CauseInv
<1>7. CASE EndWorkItem(p)
  BY <1>1, <1>7 DEF EndWorkItem, sockVars, userVars, reqVars, history
<1> QED
  BY <1>2, <1>3, <1>4, <1>5, <1>6, <1>7 DEF Replicator

\* The user's thread finds what it needs.
LEMMA UserKeepsCause ==
    ASSUME Orderly, CauseInv, BeginWrite \/ EndWrite \/ BeginRead \/ TakeInbound
    PROVE  CauseInv'
<1> SUFFICES ASSUME Healthy', closing' = {}, ~silent' PROVE NoFault'
  BY DEF CauseInv
<1>0. /\ BaseTypes /\ Queued /\ home \in Doms
      /\ slot \in [Procs -> 1..(MAX_INS_COUNT + 1)] /\ User \in Procs
      /\ rc \in [Procs -> 0..1] /\ 0 \in 0..1
      /\ \A d \in Doms : d \in Int /\ 1 <= d /\ d <= MAX_INS_COUNT
      /\ MAX_INS_COUNT \in Int
  <2>1. BaseTypes /\ Queued
    BY DEF Orderly, TypeInv, AcceptInv
  <2>2. /\ home \in Doms /\ slot \in [Procs -> 1..(MAX_INS_COUNT + 1)]
        /\ rc \in [Procs -> 0..1]
    BY <2>1 DEF BaseTypes
  <2>3. /\ 0 \in 0..1 /\ MAX_INS_COUNT \in Int
        /\ \A d \in Doms : d \in Int /\ 1 <= d /\ d <= MAX_INS_COUNT
    BY ListenersAssumption DEF Doms
  <2> QED
    BY <2>1, <2>2, <2>3, Numbers
<1>1. UNCHANGED <<ins, home, accepting, closing, blockid, silent>>
  BY DEF BeginWrite, EndWrite, BeginRead, TakeInbound, sockVars, history
<1>2. NoFault /\ Undisturbed /\ undelivered = {}
  BY <1>0, <1>1, HealthyIsUndisturbed DEF CauseInv, Healthy, Queued
<1>3. CASE BeginWrite
  <2>1. /\ UNCHANGED <<inbound, active, failed, rc>> /\ result' = "none" /\ pc' = "write"
        /\ slot' = [slot EXCEPT ![User] = 1]
    BY <1>3 DEF BeginWrite, reqVars
  <2>2. ~HasSent'
    BY <1>0, <1>1, <2>1 DEF HasSent
  <2>3. \A p \in Procs : rc'[p] = 0
    BY <1>0, <1>2, <2>1 DEF NoFault
  <2>4. Outstanding' = Outstanding
    BY <2>1 DEF Outstanding
  <2> QED
    BY <1>1, <1>2, <2>1, <2>2, <2>3, <2>4 DEF NoFault
<1>4. CASE EndWrite
  <2>1. rc[User] = 0 /\ HasSent
    BY <1>0, <1>2, <1>4 DEF NoFault, EndWrite, PastLastSlot, HasSent
  <2>2. /\ UNCHANGED <<inbound, active, failed, result>> /\ pc' = "mustread"
        /\ read_expected' /\ rc' = [rc EXCEPT ![User] = 0]
    BY <1>4, <2>1 DEF EndWrite, reqVars
  <2>3. Outstanding' = Outstanding
    BY <2>2 DEF Outstanding
  <2>4. \A p \in Procs : rc'[p] = 0
    BY <1>0, <1>2, <2>2 DEF NoFault
  <2> QED
    BY <1>1, <1>2, <2>1, <2>2, <2>3, <2>4 DEF NoFault
<1>5. CASE BeginRead
  <2>1. HasSent /\ pc = "mustread"
    BY <1>5 DEF BeginRead, HasSent
  <2>2. /\ UNCHANGED <<inbound, active, result, rc>> /\ pc' = "await"
        /\ failed' \subseteq failed
    <3>1. UNCHANGED <<inbound, rc>> /\ failed' \subseteq failed
      BY <1>5 DEF BeginRead, replVars
    <3>2. active' = active
      BY <1>2, <1>5, UndeliveredGoes DEF Orderly
    <3>3. read_expected /\ blockid \in active
      BY <1>2, <2>1 DEF NoFault
    <3>4. pc' = "await" /\ result' = result
      BY <1>2, <1>5, <3>3 DEF BeginRead
    <3> QED
      BY <3>1, <3>2, <3>4
  <2>3. Outstanding' = Outstanding /\ ~HasSent'
    BY <2>2 DEF Outstanding, HasSent
  <2> QED
    BY <1>1, <1>2, <2>2, <2>3 DEF NoFault
<1>6. CASE TakeInbound
  <2>1. /\ inbound # <<>> /\ active' = active \ {Head(inbound)} /\ inbound' = Tail(inbound)
        /\ failed' = failed \ {Head(inbound)} /\ pc' = "idle" /\ rc' = rc
        /\ result' = "ok" \/ Head(inbound) \in failed
    BY <1>1, <1>6 DEF TakeInbound, Destroy, replVars
  <2>2. ToSet(inbound) = ToSet(inbound') \cup {Head(inbound)}
    <3>1. inbound \in Seq(Ids \cup {Unset}) /\ NoRepeats(inbound)
      BY <1>0 DEF BaseTypes, Queued
    <3> QED
      BY <2>1, <3>1, EntriesOfTail
  <2>3. Outstanding' = Outstanding /\ ~HasSent'
    BY <2>1, <2>2 DEF Outstanding, HasSent
  <2>4. result' = "ok" /\ failed' = {}
    BY <1>2, <2>1 DEF NoFault
  <2> QED
    BY <1>1, <1>2, <2>1, <2>3, <2>4 DEF NoFault
<1> QED
  BY <1>3, <1>4, <1>5, <1>6

\* The consumer takes the flag with the accept, and an INS that joins is healthy.
LEMMA OthersKeepCause ==
    ASSUME Orderly, CauseInv,
           \/ Consumer
           \/ \E d \in Doms : Ins(d) \/ InsCrashes(d) \/ mw_xen_release_ins(d)
                                     \/ mw_xen_ins_found(d)
           \/ mwsocket_reap_dead_sock_instances
           \/ \E sock \in Socks : mwsocket_close_remote(sock)
    PROVE  CauseInv'
<1>0. TypeInv /\ BaseTypes /\ AcceptInv /\ Sent
      /\ ins \in [Doms -> {"off", "up", "crashed", "released", "reaped"}]
  BY DEF Orderly, TypeInv, BaseTypes, AcceptInv
<1>1. ASSUME NEW id \in Ids, mwsocket_postproc_no_context(id) PROVE CauseInv'
  <2> SUFFICES ASSUME Healthy', closing' = {}, ~silent' PROVE NoFault'
    BY DEF CauseInv
  <2>2. /\ id \in Outstanding /\ accepting' = accepting \ {sockinst[id]}
        /\ inbound' = Append(inbound, id)
        /\ UNCHANGED <<ins, home, closing, blockid, read_expected, active, failed, pc,
                       result, slot, rc, silent>>
    BY <1>0, <1>1, ConsumerKeepsAccepts
  <2>3. NoFault
    BY <2>2 DEF CauseInv, Healthy
  <2>4. ToSet(inbound') = ToSet(inbound) \cup {id}
    <3>1. /\ inbound \in Seq(Ids \cup {Unset}) /\ id \in Ids \cup {Unset}
          /\ NoRepeats(inbound) /\ id \notin ToSet(inbound)
      BY <1>0, <2>2 DEF BaseTypes, AcceptInv, Queued, Outstanding
    <3> QED
      BY <2>2, <3>1, EntriesOfAppend
  <2>5. User \in accepting' => blockid \in Outstanding'
    <3> SUFFICES ASSUME User \in accepting' PROVE blockid \in Outstanding'
      OBVIOUS
    <3>1. blockid \in Outstanding /\ sockinst[id] # User
      BY <2>2, <2>3 DEF NoFault
    <3>2. blockid # id
      BY <1>0, <3>1 DEF Sent, Outstanding
    <3> QED
      BY <2>2, <2>4, <3>1, <3>2 DEF Outstanding
  <2>6. HasSent' <=> HasSent
    BY <2>2 DEF HasSent
  <2> QED
    BY <2>2, <2>3, <2>5, <2>6 DEF NoFault
<1>2. ASSUME NEW d \in Doms, Ins(d) \/ mw_xen_ins_found(d) PROVE CauseInv'
  <2> SUFFICES ASSUME Healthy', closing' = {}, ~silent' PROVE NoFault'
    BY DEF CauseInv
  <2>1. /\ UNCHANGED <<home, accepting, closing, blockid, read_expected, inbound, active, failed, pc,
                       result, slot, rc, silent>>
    BY <1>2 DEF Ins, InsAccepts, mw_xen_ins_found, sockVars, userVars, reqVars, replVars,
       history
  <2>2. Healthy
    <3>1. CASE Ins(d)
      BY <3>1 DEF Ins, InsAccepts, Healthy
    <3>2. CASE mw_xen_ins_found(d)
      BY <1>0, <3>2 DEF mw_xen_ins_found, Healthy
    <3> QED
      BY <1>2, <3>1, <3>2
  <2>3. NoFault
    BY <2>1, <2>2 DEF CauseInv
  <2>4. Outstanding' = Outstanding /\ (HasSent' <=> HasSent)
    BY <2>1 DEF Outstanding, HasSent
  <2> QED
    BY <2>1, <2>3, <2>4 DEF NoFault
<1>3. ASSUME NEW d \in Doms, InsCrashes(d) \/ mw_xen_release_ins(d) PROVE CauseInv'
  <2>1. ins'[d] \in {"crashed", "released"}
    BY <1>0, <1>3 DEF InsCrashes, mw_xen_release_ins
  <2> QED
    BY <2>1 DEF CauseInv, Healthy
<1>4. CASE mwsocket_reap_dead_sock_instances
  <2>1. \E d \in Doms : ins'[d] = "reaped"
    BY <1>0, <1>4, DeadRings
  <2> QED
    BY <2>1 DEF CauseInv, Healthy
<1>5. CASE FinishResponse
  <2> SUFFICES ASSUME Healthy', closing' = {}, ~silent' PROVE NoFault'
    BY DEF CauseInv
  <2>1. /\ UNCHANGED <<ins, home, accepting, closing, blockid, inbound, slot, rc, silent>>
        /\ Outstanding' = Outstanding /\ (Undisturbed => active' = active)
    BY <1>0, <1>5, UndeliveredGoes
  <2>2. UNCHANGED <<read_expected, failed, pc, result>>
    BY <1>5 DEF FinishResponse, userVars
  <2>3. NoFault /\ active' = active
    BY <2>1, HealthyIsUndisturbed DEF CauseInv, Healthy
  <2>4. HasSent' <=> HasSent
    BY <2>1, <2>2 DEF HasSent
  <2> QED
    BY <2>1, <2>2, <2>3, <2>4 DEF NoFault
<1>6. ASSUME NEW sock \in Socks, mwsocket_close_remote(sock) PROVE CauseInv'
  BY <1>0, <1>6, CloseKeepsAccepts DEF CauseInv
<1> QED
  BY <1>1, <1>2, <1>3, <1>4, <1>5, <1>6 DEF Consumer

\* Every step keeps it.
LEMMA CauseNext == AcceptsInOrder /\ CauseInv /\ [Next]_vars => CauseInv'
<1> SUFFICES ASSUME AcceptsInOrder, CauseInv, [Next]_vars PROVE CauseInv'
  OBVIOUS
<1>0. Running => Orderly
  BY DEF AcceptsInOrder, Orderly, Running
<1>1. CASE UNCHANGED vars
  <2>1. UNCHANGED <<ins, home, accepting, closing, blockid, read_expected, inbound, active,
                    failed, pc, result, slot, rc, silent>>
    BY <1>1 DEF vars, sockVars, userVars, reqVars, replVars, history
  <2>2. Outstanding' = Outstanding /\ (HasSent' <=> HasSent) /\ (Healthy' <=> Healthy)
    BY <2>1 DEF Outstanding, HasSent, Healthy
  <2> QED
    BY <2>1, <2>2 DEF CauseInv, NoFault
<1>2. CASE Next
  BY <1>0, <1>2, Numbers, ReplicatorKeepsCause, UserKeepsCause, OthersKeepCause
     DEF Next, Accept
<1> QED
  BY <1>1, <1>2

\* accept() fails only if an INS has died, mitigation has closed a socket, or a work
\* item has sent the accept that the user's thread would wait for, with any number
\* of INSs joining at any time.
THEOREM FailuresAlwaysHaveCause == Spec => []FailuresHaveCause
<1>1. Init => CauseInv
  BY Numbers DEF Init, CauseInv, NoFault, HasSent
<1>2. CauseInv => FailuresHaveCause
  BY DEF CauseInv, NoFault, Healthy, FailuresHaveCause
<1> QED
  BY <1>1, <1>2, CauseNext, AcceptsAlways, PTL DEF Spec
=============================================================================
