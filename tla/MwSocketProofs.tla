--------------------------- MODULE MwSocketProofs ---------------------------
(***************************************************************************)
(* Proofs about MwSocket: its types, its reference count, that nothing is  *)
(* used after it is freed, that a thread reads its own response, and that  *)
(* Close waits for the requests before it.                                 *)
(*                                                                         *)
(* None of the properties is inductive.  The invariant is built in layers, *)
(* each proved from the ones before.  Some hold whatever the time-outs and *)
(* the reaper do:                                                          *)
(*                                                                         *)
(*   ThreadInv   the steps of a thread fit its request, the ring's lock    *)
(*               and the closing of the file, which one thread does alone; *)
(*   SemInv      request_sem is a mutex, and blockid and read_expected are *)
(*               its holder's;                                             *)
(*   WalkInv     the reaper walks when the INS is given up and its ring is *)
(*               empty;                                                    *)
(*   RefCounted  every destruction is that of an active request;           *)
(*                                                                         *)
(* the others until the reaper touches a request that is being sent or     *)
(* completed:                                                              *)
(*                                                                         *)
(*   RequestInv  each request is at one place (a sender, the ring, the     *)
(*               consumer, its waiter) and has one owner;                  *)
(*   CloseInv    the close lock counts at least the requests that hold it, *)
(*               and close_blockid names the last of them in the ring;     *)
(*   LateInv     the consumer's request is active unless a wait timed out. *)
(***************************************************************************)
EXTENDS MwSocket, FiniteSetTheorems, SequenceTheorems, TLAPS

\* A thread works on an active request it has still to send.
Sending(t) == pc[t] \in {"slot", "prepare", "trylock", "push"}

\* A thread is in a call.
Busy(t) == pc[t] \notin {"idle", "mustread"}

\* A thread is in mwsocket_release, after its start.
Closing(t) ==
    \/ pc[t] \in {"closed", "done"}
    \/ (Sending(t) \/ pc[t] = "await") /\ Kind(t) = "Close"

Writers == {u \in Threads : pc[u] = "write"}

Consumes == FindRequest \/ mwsocket_postproc_no_context \/ DecideFate

Answers == \E n \in Ids, closed \in BOOLEAN : InsAnswers(n, closed)

\* The steps, oops left aside.
Calm ==
    \/ \E t \in Threads :
         \/ \E c \in Calls : BeginWrite(t, c)
         \/ BeginRead(t) \/ BeginAttrib(t) \/ mwsocket_release(t)
         \/ /\ ~Dangling(t)
            /\ StartWrite(t) \/ Send(t) \/ EndRead(t) \/ AwaitResponse(t)
                 \/ mwsocket_put_sockinst(t)
    \/ ~ConsumerDangling /\ Consumes
    \/ Answers
    \/ InsCrashes
    \/ mw_xen_release_ins
    \/ ~ReaperDangling /\ mwsocket_reap_dead_sock_instances
    \/ Exit
    \/ UNCHANGED stateVars

\* Every step is one of them.
LEMMA StepsAreCalm == [Next]_vars => Calm
<1> SUFFICES ASSUME [Next]_vars
             PROVE  Calm
  OBVIOUS
<1>1. ASSUME NEW t \in Threads, InCall(t) \/ Reads(t)
      PROVE  Calm
  BY <1>1, Zenon DEF InCall, Reads, UseFreed, Calm
<1>2. CASE \/ \E t \in Threads : \/ \E c \in Calls : BeginWrite(t, c)
                                \/ BeginAttrib(t)
                                \/ mwsocket_release(t)
           \/ InsCrashes
           \/ Exit
  BY <1>2, Zenon DEF Calm
<1>3. CASE Ins \/ ReleaseIns \/ Consumer \/ Reaper
  BY <1>3, Zenon DEF Ins, ReleaseIns, Consumer, Reaper, UseFreed, Calm, Answers, Consumes
<1>4. CASE UNCHANGED vars
  BY <1>4 DEF vars, Calm
<1> QED
  BY <1>1, <1>2, <1>3, <1>4 DEF Next
-----------------------------------------------------------------------------
(* The threads.                                                            *)

FlagTypes ==
    /\ state_valid \in BOOLEAN /\ read_expected \in BOOLEAN
    /\ close_writer \in BOOLEAN /\ remote_close_requested \in BOOLEAN
    /\ remote_surprise_close \in BOOLEAN /\ ins_alive \in BOOLEAN
    /\ released \in BOOLEAN /\ exiting \in BOOLEAN /\ ins_runs \in BOOLEAN
    /\ ins_up \in BOOLEAN /\ forced \in BOOLEAN

RingTypes ==
    /\ sent \in Seq(Ids)
    /\ responses \in Seq([id : Ids, closed : BOOLEAN])
    /\ cpc \in {"idle", "found", "decide"}
    /\ response \in [id : Ids \cup {Unset}, closed : BOOLEAN]
    /\ cpc # "idle" => response.id \in Ids

PcValues == {"idle", "write", "slot", "prepare", "trylock", "push", "mustread",
             "read", "await", "closed", "done"}

ThreadTypes ==
    /\ next_id \in Nat \ {0}
    /\ request_sem \in Nat
    /\ request_lock \in Callers \cup {Nobody}
    /\ pc \in [Callers -> PcValues]
    /\ call \in [Callers -> Calls \cup {NoCall}]
    /\ type \in [Ids -> RequestTypes \cup {"none"}]

\* Every identifier in use has been given out.
IdsGiven ==
    /\ active \cup deliver_response \subseteq 1..(next_id - 1)
    /\ blockid \in 0..(next_id - 1) /\ close_blockid \in 0..(next_id - 1)
    /\ actreq \in [Callers -> 0..(next_id - 1)]
    /\ own \in [Callers -> 0..(next_id - 1)]

\* The bound on requests leaves one for the Close.
Bounded ==
    next_id + Cardinality(Writers) <= MaxRequests + (IF released THEN 1 ELSE 0)

\* The steps of the threads, what they send, and the ring's lock.
Steps ==
    /\ pc[Mitigator] = "idle"
    /\ \A t \in Threads :
         /\ pc[t] = "write" => call[t] \in Calls
         /\ Sending(t) => actreq[t] # Unset /\ Kind(t) \in RequestTypes
         /\ pc[t] = "trylock" => Kind(t) = "Close"
         /\ pc[t] = "await" => actreq[t] # Unset /\ Kind(t) \in {"Attrib", "Close"}
         /\ pc[t] \in {"prepare", "trylock", "push"} => request_lock = t

\* After release() has begun, or the process exits, only the closing of the
\* socket goes on, in one thread.
ClosingAlone ==
    /\ \A t \in Threads : Closing(t) => released
    /\ released \/ exiting => \A t \in Threads : Busy(t) => Closing(t)
    /\ released => \A t, u \in Threads : Busy(t) /\ Busy(u) => t = u

ThreadInv == ThreadTypes /\ IdsGiven /\ Bounded /\ Steps /\ ClosingAlone

\* Flags stay Boolean.
LEMMA FlagsNext == FlagTypes /\ RingTypes /\ Calm => FlagTypes'
<1> SUFFICES ASSUME FlagTypes, RingTypes, Calm
             PROVE  FlagTypes'
  OBVIOUS
<1> USE DEF FlagTypes, readVars, closeVars, flagVars, insVars, ringVars, threadVars
<1>1. ASSUME NEW t \in Threads, StartWrite(t)
      PROVE  FlagTypes'
  BY <1>1 DEF StartWrite
<1>2. ASSUME NEW t \in Threads, Send(t)
      PROVE  FlagTypes'
  <2>1. CASE mw_xen_get_next_request_slot(t)
    BY <2>1, ZenonT(30) DEF mw_xen_get_next_request_slot, SendFailed
  <2>2. CASE PrepareRequest(t)
    BY <2>2 DEF PrepareRequest, ExpectRead
  <2>3. CASE PrepareClose(t)
    BY <2>3 DEF PrepareClose
  <2>4. CASE TryCloseLock(t)
    BY <2>4 DEF TryCloseLock
  <2>5. CASE mw_xen_release_request(t)
    BY <2>5, ZenonT(30) DEF mw_xen_release_request, SendFailed
  <2> QED
    BY <1>2, <2>1, <2>2, <2>3, <2>4, <2>5 DEF Send
<1>3. ASSUME NEW t \in Threads, \/ \E c \in Calls : BeginWrite(t, c)
                                \/ BeginRead(t) \/ BeginAttrib(t)
                                \/ EndRead(t) \/ AwaitResponse(t)
                                \/ mwsocket_put_sockinst(t)
      PROVE  FlagTypes'
  <2>1. CASE BeginRead(t)
    BY <2>1 DEF BeginRead
  <2>2. CASE \/ \E c \in Calls : BeginWrite(t, c)
             \/ BeginAttrib(t) \/ EndRead(t) \/ AwaitResponse(t)
             \/ mwsocket_put_sockinst(t)
    <3>1. UNCHANGED <<state_valid, read_expected, close_writer, flagVars, ins_runs,
                      ins_up, forced>>
      BY <2>2 DEF BeginWrite, BeginAttrib, EndRead, AwaitResponse,
         mwsocket_put_sockinst
    <3> QED
      BY <3>1
  <2> QED
    BY <1>3, <2>1, <2>2
<1>4. ASSUME NEW t \in Threads, mwsocket_release(t)
      PROVE  FlagTypes'
  BY <1>4 DEF mwsocket_release, mwsocket_close_remote
<1>5. CASE Consumes
  <2>1. CASE mwsocket_postproc_no_context
    BY <2>1 DEF mwsocket_postproc_no_context
  <2> QED
    BY <1>5, <2>1 DEF Consumes, FindRequest, DecideFate
<1>6. CASE Answers \/ InsCrashes \/ mw_xen_release_ins \/ Exit
             \/ mwsocket_reap_dead_sock_instances
  <2>1. CASE Answers
    BY <2>1 DEF Answers, InsAnswers
  <2>2. CASE InsCrashes
    BY <2>2 DEF InsCrashes
  <2>3. CASE mw_xen_release_ins
    BY <2>3 DEF mw_xen_release_ins
  <2>4. CASE Exit
    BY <2>4 DEF Exit
  <2>5. CASE mwsocket_reap_dead_sock_instances
    <3>1. CASE BeginWalk
      BY <3>1 DEF BeginWalk
    <3>2. CASE ReapRequest
      <4>1. UNCHANGED <<state_valid, read_expected, close_writer, flagVars, ins_runs,
                        ins_up, forced>>
        BY <3>2 DEF ReapRequest
      <4> QED
        BY <4>1
    <3>3. CASE ReapSocket
      BY <3>3 DEF ReapSocket
    <3> QED
      BY <2>5, <3>1, <3>2, <3>3 DEF mwsocket_reap_dead_sock_instances
  <2> QED
    BY <1>6, <2>1, <2>2, <2>3, <2>4, <2>5
<1>7. CASE UNCHANGED stateVars
  BY <1>7 DEF stateVars
<1> QED
  BY <1>1, <1>2, <1>3, <1>4, <1>5, <1>6, <1>7 DEF Calm
-----------------------------------------------------------------------------
\* The writers are finitely many, so the identifiers given out are in range.
LEMMA IdsInRange ==
    ASSUME ThreadInv, FlagTypes
    PROVE  /\ Cardinality(Writers) \in Nat /\ IsFiniteSet(Writers)
           /\ MaxRequests \in Nat /\ next_id \in 1..(MaxRequests + 1)
           /\ 1..(next_id - 1) \subseteq Ids
           /\ 0..(next_id - 1) \subseteq Ids \cup {Unset}
           /\ ~released => next_id + Cardinality(Writers) <= MaxRequests
<1>1. IsFiniteSet(Writers)
  BY SocketAssumption, FS_Subset DEF Writers
<1>2. Cardinality(Writers) \in Nat
  BY <1>1, FS_CardinalityType
<1>3. MaxRequests \in Nat /\ next_id \in Nat \ {0} /\ released \in BOOLEAN
  BY SocketAssumption DEF ThreadInv, ThreadTypes, FlagTypes
<1>4. /\ next_id + Cardinality(Writers) <= MaxRequests + 1
      /\ ~released => next_id + Cardinality(Writers) <= MaxRequests
  BY <1>2, <1>3 DEF ThreadInv, Bounded
<1> QED
  BY <1>1, <1>2, <1>3, <1>4 DEF Ids, Unset

\* A thread that works on the request a goes on to the step x of the closing.
ClosingAt(x, a) ==
    \/ x \in {"closed", "done"}
    \/ x \in {"slot", "prepare", "trylock", "push", "await"} /\ type[a] = "Close"

\* What a thread may do next: the step x, with the request a.
StepAllowed(t, x, a) ==
    /\ x \in PcValues \ {"write"} /\ a \in 0..(next_id - 1)
    /\ x \in {"slot", "prepare", "trylock", "push"} =>
         a # Unset /\ type[a] \in RequestTypes
    /\ x = "trylock" => type[a] = "Close"
    /\ x = "await" => a # Unset /\ type[a] \in {"Attrib", "Close"}
    /\ ClosingAt(x, a) => released
    /\ released \/ exiting =>
         x \in {"idle", "mustread"} \/ (Busy(t) /\ ClosingAt(x, a))

\* A step of one thread that creates no request and starts no write keeps the
\* invariant, if the thread may go there.
LEMMA MoveKeeps ==
    ASSUME ThreadInv, FlagTypes, NEW t \in Threads, NEW x, NEW a, StepAllowed(t, x, a),
           pc' = [pc EXCEPT ![t] = x], actreq' = [actreq EXCEPT ![t] = a],
           UNCHANGED <<next_id, type, released, exiting>>,
           request_sem' \in Nat, active' \subseteq active,
           deliver_response' \subseteq 1..(next_id - 1),
           blockid' \in 0..(next_id - 1), close_blockid' \in 0..(next_id - 1),
           call' \in [Callers -> Calls \cup {NoCall}],
           \A u \in Callers \ {t} : call'[u] = call[u],
           own' \in [Callers -> 0..(next_id - 1)],
           request_lock' \in Callers \cup {Nobody},
           request_lock' = request_lock \/ request_lock \in {t, Nobody},
           x \in {"prepare", "trylock", "push"} => request_lock' = t
    PROVE  ThreadInv'
<1>1. /\ t \in Callers /\ pc \in [Callers -> PcValues] /\ Threads \subseteq Callers
      /\ actreq \in [Callers -> 0..(next_id - 1)] /\ Mitigator # t
      /\ Mitigator \in Callers
  BY SocketAssumption DEF ThreadInv, ThreadTypes, IdsGiven, Callers
<1>2. ThreadTypes'
  BY <1>1 DEF ThreadInv, ThreadTypes, StepAllowed
<1>3. IdsGiven'
  BY <1>1 DEF ThreadInv, IdsGiven, StepAllowed
<1>4. Bounded'
  <2>1. Writers' \subseteq Writers
    BY <1>1 DEF Writers, StepAllowed
  <2>2. IsFiniteSet(Writers) /\ Cardinality(Writers) \in Nat /\ MaxRequests \in Nat
        /\ next_id \in Nat
    BY IdsInRange
  <2>3. Cardinality(Writers') <= Cardinality(Writers) /\ Cardinality(Writers') \in Nat
    BY <2>1, <2>2, FS_Subset, FS_CardinalityType
  <2> QED
    BY <2>2, <2>3 DEF ThreadInv, Bounded
<1>5. \A u \in Threads \ {t} :
        /\ pc'[u] = pc[u] /\ actreq'[u] = actreq[u] /\ call'[u] = call[u]
        /\ Kind(u)' = Kind(u)
        /\ (Sending(u)' <=> Sending(u)) /\ (Busy(u)' <=> Busy(u))
        /\ (Closing(u)' <=> Closing(u))
  BY <1>1 DEF Kind, Sending, Busy, Closing
<1>6. /\ pc'[t] = x /\ actreq'[t] = a /\ Kind(t)' = type[a]
      /\ (Closing(t)' <=> ClosingAt(x, a))
      /\ (Busy(t)' <=> x \notin {"idle", "mustread"})
      /\ (Sending(t)' <=> x \in {"slot", "prepare", "trylock", "push"})
  BY <1>1 DEF Kind, Sending, Busy, Closing, ClosingAt
<1>7. Steps'
  <2>1. pc'[Mitigator] = "idle"
    BY <1>1 DEF ThreadInv, Steps
  <2>2. ASSUME NEW u \in Threads \ {t}
        PROVE  /\ pc'[u] = "write" => call'[u] \in Calls
               /\ Sending(u)' => actreq'[u] # Unset /\ Kind(u)' \in RequestTypes
               /\ pc'[u] = "trylock" => Kind(u)' = "Close"
               /\ pc'[u] = "await" => actreq'[u] # Unset /\ Kind(u)' \in {"Attrib", "Close"}
    BY <1>5 DEF ThreadInv, Steps
  <2>3. ASSUME NEW u \in Threads \ {t}, pc'[u] \in {"prepare", "trylock", "push"}
        PROVE  request_lock' = u
    <3>1. request_lock = u
      BY <1>5, <2>3 DEF ThreadInv, Steps
    <3>2. u # Nobody
      BY <1>1, SocketAssumption
    <3> QED
      BY <3>1, <3>2
  <2>4. /\ pc'[t] = "write" => call'[t] \in Calls
        /\ Sending(t)' => actreq'[t] # Unset /\ Kind(t)' \in RequestTypes
        /\ pc'[t] = "trylock" => Kind(t)' = "Close"
        /\ pc'[t] = "await" => actreq'[t] # Unset /\ Kind(t)' \in {"Attrib", "Close"}
        /\ pc'[t] \in {"prepare", "trylock", "push"} => request_lock' = t
    BY <1>6 DEF StepAllowed
  <2> QED
    BY <2>1, <2>2, <2>3, <2>4 DEF Steps
<1>8. ClosingAlone'
  BY <1>5, <1>6 DEF ThreadInv, ClosingAlone, StepAllowed
<1> QED
  BY <1>2, <1>3, <1>4, <1>7, <1>8 DEF ThreadInv

\* The creation of a request keeps the invariant, if an identifier is left, and
\* if it is the first step of the closing or nothing is being closed.
LEMMA CreateKeeps ==
    ASSUME ThreadInv, FlagTypes, NEW t \in Threads, NEW kind \in RequestTypes,
           mwsocket_create_active_request(t, kind), Goto(t, "slot"),
           next_id \in Ids, request_sem' \in Nat,
           deliver_response' \subseteq deliver_response \cup {next_id},
           UNCHANGED <<blockid, close_blockid, call, request_lock, exiting>>,
           own' = own \/ own' = [own EXCEPT ![t] = next_id],
           next_id + 1 + Cardinality(Writers')
             <= MaxRequests + (IF released' THEN 1 ELSE 0),
           \/ kind # "Close" /\ ~released /\ ~exiting /\ UNCHANGED released
           \/ kind = "Close" /\ released' /\ \A u \in Threads : ~Busy(u)
    PROVE  ThreadInv'
<1>1. /\ t \in Callers /\ pc \in [Callers -> PcValues] /\ Threads \subseteq Callers
      /\ actreq \in [Callers -> 0..(next_id - 1)] /\ Mitigator # t
      /\ Mitigator \in Callers /\ next_id \in Nat \ {0}
      /\ type \in [Ids -> RequestTypes \cup {"none"}]
      /\ 1..(next_id - 1) \subseteq Ids
  BY SocketAssumption, IdsInRange DEF ThreadInv, ThreadTypes, IdsGiven, Callers
<1>2. /\ active' = active \cup {next_id} /\ next_id' = next_id + 1
      /\ type' = [type EXCEPT ![next_id] = kind]
      /\ actreq' = [actreq EXCEPT ![t] = next_id]
      /\ pc' = [pc EXCEPT ![t] = "slot"]
  BY DEF mwsocket_create_active_request, Goto
<1>3. ThreadTypes'
  BY <1>1, <1>2 DEF ThreadInv, ThreadTypes, PcValues
<1>4. IdsGiven'
  <2>1. 0..(next_id' - 1) = 0..(next_id - 1) \cup {next_id}
        /\ 1..(next_id' - 1) = 1..(next_id - 1) \cup {next_id}
    BY <1>1, <1>2
  <2> QED
    BY <1>1, <1>2, <2>1 DEF ThreadInv, IdsGiven
<1>5. Bounded'
  BY <1>2 DEF Bounded
<1>6. ASSUME NEW u \in Threads \ {t}
      PROVE  /\ pc'[u] = pc[u] /\ actreq'[u] = actreq[u]
             /\ Sending(u) => Kind(u)' = Kind(u)
             /\ (Sending(u)' <=> Sending(u)) /\ (Busy(u)' <=> Busy(u))
  <2>1. pc'[u] = pc[u] /\ actreq'[u] = actreq[u] /\ actreq[u] \in 0..(next_id - 1)
    BY <1>1, <1>2
  <2>2. ASSUME Sending(u)
        PROVE  Kind(u)' = Kind(u)
    <3>1. actreq[u] # Unset
      BY <2>2 DEF ThreadInv, Steps
    <3>2. actreq[u] \in Ids /\ actreq[u] # next_id
      BY <1>1, <2>1, <3>1 DEF Unset
    <3> QED
      BY <1>1, <1>2, <2>1, <3>2 DEF Kind
  <2> QED
    BY <2>1, <2>2 DEF Sending, Busy
<1>7. pc'[t] = "slot" /\ actreq'[t] = next_id /\ Kind(t)' = kind
  BY <1>1, <1>2 DEF Kind
<1>8. Steps'
  <2>1. pc'[Mitigator] = "idle"
    BY <1>1, <1>2 DEF ThreadInv, Steps
  <2>2. ASSUME NEW u \in Threads \ {t}, pc[u] = "await"
        PROVE  Kind(u)' \in {"Attrib", "Close"}
    <3>1. actreq[u] # Unset /\ Kind(u) \in {"Attrib", "Close"}
      BY <2>2 DEF ThreadInv, Steps
    <3>2. actreq'[u] = actreq[u] /\ actreq[u] \in Ids /\ actreq[u] # next_id
      BY <1>1, <1>2, <3>1 DEF Unset
    <3> QED
      BY <1>1, <1>2, <3>1, <3>2 DEF Kind
  <2>3. ASSUME NEW u \in Threads \ {t}
        PROVE  /\ pc'[u] = "write" => call'[u] \in Calls
               /\ Sending(u)' => actreq'[u] # Unset /\ Kind(u)' \in RequestTypes
               /\ pc'[u] = "trylock" => Kind(u)' = "Close"
               /\ pc'[u] = "await" => actreq'[u] # Unset
               /\ pc'[u] \in {"prepare", "trylock", "push"} => request_lock' = u
    BY <1>6 DEF ThreadInv, Steps, Sending
  <2> QED
    BY <1>1, <1>6, <1>7, <2>1, <2>2, <2>3 DEF Steps, Sending, Unset
<1>9. ClosingAlone'
  <2>1. CASE kind # "Close" /\ ~released /\ ~exiting /\ UNCHANGED released
    <3>1. \A u \in Threads : ~Closing(u)
      BY <2>1 DEF ThreadInv, ClosingAlone
    <3>2. ASSUME NEW u \in Threads \ {t}
          PROVE  ~Closing(u)'
      <4>1. pc[u] = "await" => Kind(u) = "Attrib"
        BY <3>1 DEF ThreadInv, Steps, Closing
      <4>2. pc[u] = "await" => Kind(u)' = "Attrib"
        <5>1. pc[u] = "await" => actreq[u] # Unset
          BY DEF ThreadInv, Steps
        <5>2. pc[u] = "await" => actreq[u] \in Ids /\ actreq[u] # next_id
          BY <1>1, <5>1 DEF Unset
        <5> QED
          BY <1>1, <1>2, <4>1, <5>2 DEF Kind
      <4> QED
        BY <1>6, <3>1, <4>2 DEF Closing
    <3>3. ~Closing(t)'
      BY <1>7, <2>1 DEF Closing
    <3> QED
      BY <2>1, <3>2, <3>3 DEF ClosingAlone
  <2>2. CASE kind = "Close" /\ released' /\ \A u \in Threads : ~Busy(u)
    <3>1. \A u \in Threads \ {t} : ~Busy(u)' /\ ~Closing(u)'
      BY <1>6, <2>2 DEF Busy, Closing, Sending
    <3>2. Closing(t)'
      BY <1>7, <2>2 DEF Closing, Sending
    <3> QED
      BY <2>2, <3>1, <3>2 DEF ClosingAlone
  <2> QED
    BY <2>1, <2>2
<1> QED
  BY <1>3, <1>4, <1>5, <1>8, <1>9 DEF ThreadInv

\* What the types say of one thread.
LEMMA ThreadFacts ==
    ASSUME ThreadInv, NEW t \in Threads
    PROVE  /\ t \in Callers /\ pc \in [Callers -> PcValues]
           /\ actreq \in [Callers -> 0..(next_id - 1)]
           /\ own \in [Callers -> 0..(next_id - 1)]
           /\ call \in [Callers -> Calls \cup {NoCall}]
           /\ next_id \in Nat /\ 0 \in 0..(next_id - 1) /\ request_sem \in Nat
           /\ actreq = [actreq EXCEPT ![t] = actreq[t]]
           /\ actreq[t] \in 0..(next_id - 1)
           /\ blockid \in 0..(next_id - 1) /\ close_blockid \in 0..(next_id - 1)
           /\ deliver_response \subseteq 1..(next_id - 1)
           /\ request_lock \in Callers \cup {Nobody}
  BY DEF ThreadInv, ThreadTypes, IdsGiven, Callers

\* A call that returns keeps the invariant; so does one that destroys its
\* request, and a Close that is done.
LEMMA ReturnKeeps ==
    ASSUME ThreadInv, FlagTypes, NEW t \in Threads, NEW x,
           Return(t, x),
           x = "idle" \/ (x = "closed" /\ Closing(t)),
           UNCHANGED <<next_id, type, released, exiting>>,
           request_sem' \in Nat, active' \subseteq active,
           deliver_response' \subseteq deliver_response,
           blockid' = blockid, close_blockid' \in {close_blockid, Unset},
           request_lock' \in {request_lock, Nobody},
           request_lock' = request_lock \/ request_lock = t
    PROVE  ThreadInv'
<1>1. /\ pc' = [pc EXCEPT ![t] = x] /\ actreq' = [actreq EXCEPT ![t] = Unset]
      /\ call' = [call EXCEPT ![t] = NoCall] /\ own' = [own EXCEPT ![t] = Unset]
  BY DEF Return, Goto
<1>2. StepAllowed(t, x, Unset)
  <2>1. x = "closed" => released /\ Busy(t)
    BY DEF ThreadInv, ClosingAlone, Closing, Busy, Sending
  <2> QED
    BY <2>1, ThreadFacts DEF StepAllowed, ClosingAt, PcValues, Unset
<1>3. /\ deliver_response' \subseteq 1..(next_id - 1)
      /\ blockid' \in 0..(next_id - 1) /\ close_blockid' \in 0..(next_id - 1)
      /\ call' \in [Callers -> Calls \cup {NoCall}]
      /\ \A u \in Callers \ {t} : call'[u] = call[u]
      /\ own' \in [Callers -> 0..(next_id - 1)]
      /\ request_lock' \in Callers \cup {Nobody}
  BY <1>1, ThreadFacts DEF Unset
<1>4. x \notin {"prepare", "trylock", "push"}
  OBVIOUS
<1> QED
  BY <1>1, <1>2, <1>3, <1>4, MoveKeeps

\* A send that fails keeps the invariant.
LEMMA SendFailedKeeps ==
    ASSUME ThreadInv, FlagTypes, NEW t \in Threads, Sending(t), SendFailed(t),
           UNCHANGED <<released, exiting, blockid>>,
           request_lock' \in {request_lock, Nobody},
           request_lock' = request_lock \/ request_lock = t
    PROVE  ThreadInv'
<1>1. /\ close_blockid' \in {close_blockid, Unset} /\ active' \subseteq active
      /\ deliver_response' \subseteq deliver_response /\ UNCHANGED <<next_id, type>>
  BY DEF SendFailed, mwsocket_destroy_active_request, ClearCloseBlock
<1>2. request_sem' \in Nat
  BY ThreadFacts DEF SendFailed
<1>3. CASE Kind(t) = "Close"
  <2>1. Return(t, "closed") /\ Closing(t)
    BY <1>3 DEF SendFailed, Closing
  <2> QED
    BY <1>1, <1>2, <2>1, ReturnKeeps
<1>4. CASE Kind(t) # "Close"
  <2>1. Return(t, "idle")
    BY <1>4 DEF SendFailed
  <2> QED
    BY <1>1, <1>2, <2>1, ReturnKeeps
<1> QED
  BY <1>3, <1>4

\* A thread that goes on with its request, on the same call.
LEMMA GoOnKeeps ==
    ASSUME ThreadInv, FlagTypes, NEW t \in Threads, NEW x, Goto(t, x),
           StepAllowed(t, x, actreq[t]),
           UNCHANGED <<next_id, type, released, exiting, active, call, actreq, own>>,
           request_sem' \in Nat,
           deliver_response' \subseteq deliver_response \cup {actreq[t]},
           actreq[t] # Unset \/ UNCHANGED deliver_response,
           blockid' \in {blockid, actreq[t]},
           close_blockid' \in {close_blockid, actreq[t], Unset},
           request_lock' = request_lock \/ request_lock \in {t, Nobody},
           request_lock' \in {request_lock, t, Nobody},
           x \in {"prepare", "trylock", "push"} => request_lock' = t
    PROVE  ThreadInv'
<1>1. pc' = [pc EXCEPT ![t] = x] /\ actreq' = [actreq EXCEPT ![t] = actreq[t]]
  BY ThreadFacts DEF Goto
<1>2. /\ deliver_response' \subseteq 1..(next_id - 1)
      /\ blockid' \in 0..(next_id - 1) /\ close_blockid' \in 0..(next_id - 1)
      /\ call' \in [Callers -> Calls \cup {NoCall}]
      /\ \A u \in Callers \ {t} : call'[u] = call[u]
      /\ own' \in [Callers -> 0..(next_id - 1)]
      /\ request_lock' \in Callers \cup {Nobody}
  BY ThreadFacts DEF Unset
<1> QED
  BY <1>1, <1>2, MoveKeeps

\* The steps of mwsocket_send_request keep the invariant.
LEMMA SendKeeps ==
    ASSUME ThreadInv, FlagTypes, NEW t \in Threads, Send(t)
    PROVE  ThreadInv'
<1>0. Sending(t)
  BY DEF Send, mw_xen_get_next_request_slot, PrepareRequest, PrepareClose,
     TryCloseLock, mw_xen_release_request, Sending
<1>1. /\ Sending(t) /\ actreq[t] # Unset /\ Kind(t) \in RequestTypes /\ Busy(t)
      /\ actreq[t] \in 0..(next_id - 1) /\ type[actreq[t]] = Kind(t)
      /\ Kind(t) = "Close" => released
      /\ released \/ exiting => Kind(t) = "Close"
  BY <1>0, ThreadFacts
  DEF ThreadInv, Steps, ClosingAlone, Closing, Busy, Sending, Kind
<1>2. ASSUME NEW x \in {"prepare", "push"}
      PROVE  StepAllowed(t, x, actreq[t])
  BY <1>1 DEF StepAllowed, ClosingAt, PcValues
<1>3. CASE mw_xen_get_next_request_slot(t)
  <2>1. UNCHANGED <<released, exiting, blockid>>
    BY <1>3 DEF mw_xen_get_next_request_slot
  <2>2. CASE ins_alive /\ ins_up
    <3>1. /\ Goto(t, "prepare") /\ request_lock = Nobody /\ request_lock' = t
          /\ UNCHANGED <<next_id, type, active, call, actreq, own, request_sem,
                         deliver_response, close_blockid>>
      BY <1>3, <2>2 DEF mw_xen_get_next_request_slot, refVars
    <3> QED
      BY <1>2, <2>1, <3>1, ThreadFacts, GoOnKeeps
  <2>3. CASE ~(ins_alive /\ ins_up)
    <3>1. SendFailed(t) /\ request_lock' = request_lock
      BY <1>3, <2>3 DEF mw_xen_get_next_request_slot
    <3> QED
      BY <1>0, <2>1, <3>1, SendFailedKeeps
  <2> QED
    BY <2>2, <2>3
<1>4. CASE PrepareRequest(t)
  <2>1. /\ Goto(t, "push") /\ pc[t] = "prepare"
        /\ UNCHANGED <<next_id, type, released, exiting, active, call, actreq, own,
                       request_sem, request_lock>>
        /\ deliver_response' \subseteq deliver_response \cup {actreq[t]}
        /\ blockid' \in {blockid, actreq[t]}
        /\ close_blockid' \in {close_blockid, actreq[t]}
    BY <1>4 DEF PrepareRequest, ExpectRead, refVars, flagVars, ringVars
  <2>2. request_lock = t
    BY <2>1 DEF ThreadInv, Steps
  <2> QED
    BY <1>1, <1>2, <2>1, <2>2, ThreadFacts, GoOnKeeps
<1>5. CASE PrepareClose(t)
  <2>1. /\ pc[t] = "prepare" /\ Kind(t) = "Close"
        /\ UNCHANGED <<next_id, type, released, exiting, active, call, actreq, own,
                       request_sem, request_lock, deliver_response, blockid,
                       close_blockid>>
        /\ Goto(t, "push") \/ Goto(t, "trylock")
    BY <1>5 DEF PrepareClose, refVars, flagVars, ringVars, readVars, closeVars,
       deliverVars
  <2>2. request_lock = t
    BY <2>1 DEF ThreadInv, Steps
  <2>3. StepAllowed(t, "trylock", actreq[t])
    BY <1>1, <2>1 DEF StepAllowed, ClosingAt, PcValues
  <2> QED
    BY <1>2, <2>1, <2>2, <2>3, ThreadFacts, GoOnKeeps
<1>6. CASE TryCloseLock(t)
  <2>1. /\ pc[t] = "trylock" /\ Goto(t, "push") /\ close_blockid' = Unset
        /\ UNCHANGED <<next_id, type, released, exiting, active, call, actreq, own,
                       request_sem, request_lock, deliver_response, blockid>>
    BY <1>6 DEF TryCloseLock, refVars, flagVars, ringVars, readVars, deliverVars
  <2>2. request_lock = t
    BY <2>1 DEF ThreadInv, Steps
  <2> QED
    BY <1>2, <2>1, <2>2, ThreadFacts, GoOnKeeps
<1>7. CASE mw_xen_release_request(t)
  <2>1. /\ pc[t] = "push" /\ request_lock' = Nobody
        /\ UNCHANGED <<released, exiting, blockid>>
    BY <1>7 DEF mw_xen_release_request, flagVars
  <2>2. request_lock = t
    BY <2>1 DEF ThreadInv, Steps
  <2>3. CASE ins_up
    <3>1. /\ EndSend(t)
          /\ UNCHANGED <<next_id, type, active, close_blockid, deliver_response>>
      BY <1>7, <2>3 DEF mw_xen_release_request, refVars
    <3>2. CASE Kind(t) \notin UserTypes
      <4>1. Goto(t, "await") /\ UNCHANGED <<request_sem, call, actreq, own>>
        BY <3>1, <3>2 DEF EndSend
      <4>2. StepAllowed(t, "await", actreq[t])
        BY <1>1, <3>2 DEF StepAllowed, ClosingAt, PcValues, RequestTypes
      <4> QED
        BY <2>1, <2>2, <3>1, <4>1, <4>2, ThreadFacts, GoOnKeeps
    <3>3. CASE Kind(t) \in UserTypes
      <4>1. request_sem' \in Nat
        BY <3>1, <3>3, ThreadFacts DEF EndSend
      <4>2. CASE call[t].waits
        <5>1. Goto(t, "mustread") /\ UNCHANGED <<call, actreq, own>>
          BY <3>1, <3>3, <4>2 DEF EndSend
        <5>2. StepAllowed(t, "mustread", actreq[t])
          BY <1>1 DEF StepAllowed, ClosingAt, PcValues
        <5> QED
          BY <2>1, <2>2, <3>1, <4>1, <5>1, <5>2, GoOnKeeps
      <4>3. CASE ~call[t].waits
        <5>1. Return(t, "idle")
          BY <3>1, <3>3, <4>3 DEF EndSend
        <5> QED
          BY <2>1, <2>2, <3>1, <4>1, <5>1, ReturnKeeps
      <4> QED
        BY <4>2, <4>3
    <3> QED
      BY <3>2, <3>3
  <2>4. CASE ~ins_up
    <3>1. SendFailed(t)
      BY <1>7, <2>4 DEF mw_xen_release_request
    <3> QED
      BY <1>0, <2>1, <2>2, <3>1, SendFailedKeeps
  <2> QED
    BY <2>3, <2>4
<1> QED
  BY <1>3, <1>4, <1>5, <1>6, <1>7 DEF Send

\* A new write counts among the writers, which the bound allows for.
LEMMA BeginWriteKeeps ==
    ASSUME ThreadInv, FlagTypes, NEW t \in Threads, NEW c \in Calls, BeginWrite(t, c)
    PROVE  ThreadInv'
<1>1. /\ pc[t] = "idle" /\ ~released /\ ~exiting
      /\ next_id + Cardinality(Writers) < MaxRequests
      /\ call' = [call EXCEPT ![t] = c] /\ pc' = [pc EXCEPT ![t] = "write"]
      /\ UNCHANGED <<next_id, active, type, request_sem, blockid, close_blockid,
                     released, exiting, deliver_response, request_lock, actreq, own>>
  BY DEF BeginWrite, MayCall, Goto, Writers, refVars, closeVars, readVars, flagVars,
     deliverVars, ringVars
<1>2. /\ t \in Callers /\ pc \in [Callers -> PcValues] /\ Threads \subseteq Callers
      /\ call \in [Callers -> Calls \cup {NoCall}] /\ Mitigator \in Callers
      /\ Mitigator # t
  BY ThreadFacts, SocketAssumption DEF Callers
<1>3. ThreadTypes' /\ IdsGiven'
  BY <1>1, <1>2 DEF ThreadInv, ThreadTypes, IdsGiven, PcValues
<1>4. Bounded'
  <2>1. Writers' = Writers \cup {t} /\ t \notin Writers
    BY <1>1, <1>2 DEF Writers
  <2>2. /\ IsFiniteSet(Writers) /\ Cardinality(Writers) \in Nat
        /\ MaxRequests \in Nat /\ next_id \in Nat
    BY IdsInRange
  <2>3. Cardinality(Writers') = Cardinality(Writers) + 1
    BY <2>1, <2>2, FS_AddElement
  <2> QED
    BY <1>1, <2>2, <2>3 DEF Bounded
<1>5. \A u \in Threads \ {t} :
        /\ pc'[u] = pc[u] /\ call'[u] = call[u] /\ Kind(u)' = Kind(u)
        /\ (Sending(u)' <=> Sending(u)) /\ (Closing(u)' <=> Closing(u))
  BY <1>1, <1>2 DEF Kind, Sending, Closing
<1>6. pc'[t] = "write" /\ call'[t] = c /\ ~Sending(t)' /\ ~Closing(t)'
  BY <1>1, <1>2 DEF Sending, Closing
<1>7. Steps' /\ ClosingAlone'
  BY <1>1, <1>2, <1>5, <1>6 DEF ThreadInv, Steps, ClosingAlone
<1> QED
  BY <1>3, <1>4, <1>7 DEF ThreadInv

\* A write that starts creates its request, or ends with an error.
LEMMA StartWriteKeeps ==
    ASSUME ThreadInv, FlagTypes, NEW t \in Threads, StartWrite(t)
    PROVE  ThreadInv'
<1> DEFINE fails == \/ state_valid /\ read_expected
                    \/ ~ins_alive
                    \/ mwsocket_pending_error(call[t].type)
<1>1. /\ pc[t] = "write" /\ request_sem > 0
      /\ UNCHANGED <<close_blockid, blockid, released, exiting, deliver_response,
                     request_lock>>
  BY DEF StartWrite, closeVars, flagVars, deliverVars, ringVars
<1>2. CASE fails
  <2>1. Return(t, "idle") /\ UNCHANGED <<next_id, type, active, request_sem>>
    BY <1>2 DEF StartWrite, refVars
  <2> QED
    BY <1>1, <2>1, ThreadFacts, ReturnKeeps
<1>3. CASE ~fails
  <2>1. /\ mwsocket_create_active_request(t, call[t].type)
        /\ request_sem' = request_sem - 1
        /\ own' = [own EXCEPT ![t] = next_id]
        /\ Goto(t, "slot") /\ call' = call
    BY <1>3 DEF StartWrite
  <2>2. call[t].type \in UserTypes /\ ~released /\ ~exiting
    BY <1>1, SocketAssumption
    DEF ThreadInv, Steps, ClosingAlone, Busy, Closing, Sending
  <2>3. call[t].type \in RequestTypes /\ call[t].type # "Close"
    BY <2>2 DEF RequestTypes, UserTypes
  <2>4. /\ IsFiniteSet(Writers) /\ Cardinality(Writers) \in Nat
        /\ MaxRequests \in Nat /\ next_id \in Nat \ {0}
        /\ next_id + Cardinality(Writers) <= MaxRequests
    BY <2>2, IdsInRange
  <2>5. t \in Writers /\ Writers' = Writers \ {t}
    BY <1>1, <2>1, ThreadFacts DEF Writers, Goto, Callers
  <2>6. Cardinality(Writers') = Cardinality(Writers) - 1 /\ Cardinality(Writers') \in Nat
    BY <2>4, <2>5, FS_RemoveElement, FS_CardinalityType
  <2>7. next_id + 1 + Cardinality(Writers') <= MaxRequests /\ next_id \in Ids
    BY <2>4, <2>6 DEF Ids
  <2>8. request_sem' \in Nat
    BY <1>1, <2>1, ThreadFacts
  <2>9. next_id + 1 + Cardinality(Writers')
          <= MaxRequests + (IF released' THEN 1 ELSE 0)
    BY <1>1, <2>2, <2>4, <2>7
  <2> QED
    BY <1>1, <2>1, <2>2, <2>3, <2>7, <2>8, <2>9, CreateKeeps
<1> QED
  BY <1>2, <1>3

\* An attribute request keeps the invariant.
LEMMA BeginAttribKeeps ==
    ASSUME ThreadInv, FlagTypes, NEW t \in Threads, BeginAttrib(t)
    PROVE  ThreadInv'
<1>1. /\ pc[t] = "idle" /\ ~released /\ ~exiting
      /\ next_id + Cardinality(Writers) < MaxRequests
      /\ mwsocket_create_active_request(t, "Attrib") /\ Goto(t, "slot")
      /\ deliver_response' = deliver_response \cup {next_id}
      /\ UNCHANGED <<request_sem, blockid, close_blockid, released, exiting,
                     request_lock, call, own>>
  BY DEF BeginAttrib, MayCall, Writers, closeVars, readVars, flagVars, ringVars
<1>2. /\ Cardinality(Writers) \in Nat /\ MaxRequests \in Nat /\ next_id \in Nat \ {0}
  BY IdsInRange
<1>3. Writers' = Writers
  BY <1>1, ThreadFacts DEF Writers, Goto, Callers
<1>4. next_id + 1 + Cardinality(Writers') <= MaxRequests /\ next_id \in Ids
  BY <1>1, <1>2, <1>3 DEF Ids
<1>5. next_id + 1 + Cardinality(Writers')
        <= MaxRequests + (IF released' THEN 1 ELSE 0)
  BY <1>1, <1>2, <1>4
<1>6. "Attrib" \in RequestTypes /\ request_sem' \in Nat
  BY <1>1, ThreadFacts DEF RequestTypes
<1> QED
  BY <1>1, <1>4, <1>5, <1>6, CreateKeeps

\* So does the release of the file: no thread is in a call.
LEMMA ReleaseKeeps ==
    ASSUME ThreadInv, FlagTypes, NEW t \in Threads, mwsocket_release(t)
    PROVE  ThreadInv'
<1>1. /\ pc[t] = "idle" /\ ~released /\ released' = TRUE
      /\ \A u \in Threads : pc[u] \in {"idle", "mustread"}
      /\ UNCHANGED <<request_sem, blockid, close_blockid, exiting, request_lock,
                     call, own>>
  BY DEF mwsocket_release, closeVars, readVars, ringVars
<1>2. /\ Cardinality(Writers) \in Nat /\ MaxRequests \in Nat /\ next_id \in Nat \ {0}
      /\ next_id + Cardinality(Writers) <= MaxRequests
  BY <1>1, IdsInRange
<1>3. CASE remote_close_requested \/ ~ins_alive
  <2>1. /\ pc' = [pc EXCEPT ![t] = "closed"]
        /\ UNCHANGED <<next_id, type, active, deliver_response, actreq>>
    BY <1>3 DEF mwsocket_release, mwsocket_close_remote, refVars, Goto
  <2>2. /\ t \in Callers /\ pc \in [Callers -> PcValues] /\ Threads \subseteq Callers
        /\ Mitigator \in Callers /\ Mitigator # t
    BY ThreadFacts, SocketAssumption DEF Callers
  <2>3. ThreadTypes' /\ IdsGiven'
    BY <1>1, <2>1, <2>2 DEF ThreadInv, ThreadTypes, IdsGiven, PcValues
  <2>4. Bounded'
    <3>1. Writers' = Writers
      BY <1>1, <2>1, <2>2 DEF Writers
    <3> QED
      BY <1>1, <1>2, <2>1, <3>1 DEF Bounded
  <2>5. /\ \A u \in Threads \ {t} : pc'[u] \in {"idle", "mustread"}
        /\ pc'[t] = "closed" /\ pc'[Mitigator] = pc[Mitigator]
    BY <1>1, <2>1, <2>2
  <2>6. Steps' /\ ClosingAlone'
    BY <1>1, <2>5 DEF ThreadInv, Steps, ClosingAlone, Closing, Busy, Sending
  <2> QED
    BY <2>3, <2>4, <2>6 DEF ThreadInv
<1>4. CASE ~(remote_close_requested \/ ~ins_alive)
  <2>1. /\ mwsocket_create_active_request(t, "Close") /\ Goto(t, "slot")
        /\ deliver_response' = deliver_response \cup {next_id}
    BY <1>4 DEF mwsocket_release, mwsocket_close_remote
  <2>2. Writers' = Writers
    BY <1>1, <2>1, ThreadFacts DEF Writers, Goto, Callers
  <2>3. next_id + 1 + Cardinality(Writers')
          <= MaxRequests + (IF released' THEN 1 ELSE 0)
    BY <1>1, <1>2, <2>2
  <2>4. "Close" \in RequestTypes /\ request_sem' \in Nat /\ next_id \in Ids
    BY <1>1, <1>2, ThreadFacts DEF RequestTypes, Ids
  <2>5. \A u \in Threads : ~Busy(u)
    BY <1>1 DEF Busy
  <2> QED
    BY <1>1, <2>1, <2>3, <2>4, <2>5, CreateKeeps
<1> QED
  BY <1>3, <1>4

\* The steps of a read, of a wait for the kernel, and the last of release().
LEMMA WaitKeeps ==
    ASSUME ThreadInv, FlagTypes, NEW t \in Threads,
           BeginRead(t) \/ EndRead(t) \/ AwaitResponse(t) \/ mwsocket_put_sockinst(t)
    PROVE  ThreadInv'
<1>1. CASE BeginRead(t)
  <2>1. /\ pc[t] = "mustread" /\ ~released /\ ~exiting
        /\ UNCHANGED <<next_id, type, active, blockid, close_blockid, released,
                       exiting, deliver_response, request_lock>>
    BY <1>1 DEF BeginRead, refVars, closeVars, flagVars, deliverVars, ringVars
  <2>2. CASE (state_valid /\ ~read_expected) \/ blockid \notin active
    <3>1. request_sem' = request_sem + 1 /\ Return(t, "idle")
      BY <1>1, <2>2 DEF BeginRead
    <3> QED
      BY <2>1, <3>1, ThreadFacts, ReturnKeeps
  <2>3. CASE ~((state_valid /\ ~read_expected) \/ blockid \notin active)
    <3>1. /\ actreq' = [actreq EXCEPT ![t] = blockid] /\ pc' = [pc EXCEPT ![t] = "read"]
          /\ UNCHANGED <<request_sem, call, own>>
      BY <1>1, <2>3 DEF BeginRead, Goto
    <3>2. StepAllowed(t, "read", blockid)
      BY <2>1, ThreadFacts DEF StepAllowed, ClosingAt, PcValues
    <3> QED
      BY <2>1, <3>1, <3>2, ThreadFacts, MoveKeeps
  <2> QED
    BY <2>2, <2>3
<1>2. CASE EndRead(t)
  <2>1. /\ Return(t, "idle") /\ request_sem' = request_sem + 1
        /\ mwsocket_destroy_active_request(actreq[t])
        /\ UNCHANGED <<blockid, released, exiting, request_lock>>
    BY <1>2 DEF EndRead, flagVars, ringVars
  <2> QED
    BY <2>1, ThreadFacts, ReturnKeeps DEF mwsocket_destroy_active_request, ClearCloseBlock
<1>3. CASE AwaitResponse(t)
  <2>1. /\ Return(t, IF Kind(t) = "Close" THEN "closed" ELSE "idle") /\ pc[t] = "await"
        /\ mwsocket_destroy_active_request(actreq[t])
        /\ UNCHANGED <<request_sem, blockid, released, exiting, request_lock>>
    BY <1>3 DEF AwaitResponse, flagVars, readVars, ringVars
  <2>2. Kind(t) = "Close" => Closing(t)
    BY <2>1 DEF Closing
  <2>3. /\ close_blockid' \in {close_blockid, Unset} /\ active' \subseteq active
        /\ deliver_response' \subseteq deliver_response /\ UNCHANGED <<next_id, type>>
    BY <2>1 DEF mwsocket_destroy_active_request, ClearCloseBlock
  <2>4. CASE Kind(t) = "Close"
    BY <2>1, <2>2, <2>3, <2>4, ThreadFacts, ReturnKeeps
  <2>5. CASE Kind(t) # "Close"
    BY <2>1, <2>3, <2>5, ThreadFacts, ReturnKeeps
  <2> QED
    BY <2>4, <2>5
<1>4. CASE mwsocket_put_sockinst(t)
  <2>1. /\ pc[t] = "closed" /\ Goto(t, "done")
        /\ UNCHANGED <<next_id, type, released, exiting, active, call, actreq, own,
                       request_sem, deliver_response, blockid, close_blockid,
                       request_lock>>
    BY <1>4 DEF mwsocket_put_sockinst, closeVars, readVars, flagVars, deliverVars,
       ringVars
  <2>2. StepAllowed(t, "done", actreq[t])
    BY <2>1, ThreadFacts
    DEF StepAllowed, ClosingAt, PcValues, Busy, ThreadInv, ClosingAlone, Closing
  <2> QED
    BY <2>1, <2>2, ThreadFacts, GoOnKeeps
<1> QED
  BY <1>1, <1>2, <1>3, <1>4

\* Nobody but the threads moves them.
LEMMA OthersKeepThreads ==
    ASSUME ThreadInv, FlagTypes, Consumes \/ Answers \/ InsCrashes \/ mw_xen_release_ins
             \/ mwsocket_reap_dead_sock_instances \/ Exit \/ UNCHANGED stateVars
    PROVE  ThreadInv'
<1>1. /\ UNCHANGED <<next_id, request_sem, request_lock, pc, call, type, blockid,
                     actreq, own, released>>
      /\ active' \subseteq active /\ deliver_response' \subseteq deliver_response
      /\ close_blockid' \in {close_blockid, Unset}
      /\ \/ exiting' = exiting
         \/ \A u \in Threads : pc[u] \in {"idle", "mustread"}
  <2> USE DEF refVars, readVars, closeVars, flagVars, deliverVars, ringVars, threadVars
  <2>1. CASE Consumes
    BY <2>1 DEF Consumes, FindRequest, mwsocket_postproc_no_context, DecideFate,
       mwsocket_destroy_active_request, ClearCloseBlock
  <2>2. CASE Answers \/ InsCrashes \/ mw_xen_release_ins \/ Exit
    BY <2>2 DEF Answers, InsAnswers, InsCrashes, mw_xen_release_ins, Exit
  <2>3. CASE mwsocket_reap_dead_sock_instances
    BY <2>3 DEF mwsocket_reap_dead_sock_instances, BeginWalk, ReapRequest,
       ReapSocket, mwsocket_destroy_active_request, ClearCloseBlock
  <2>4. CASE UNCHANGED stateVars
    BY <2>4 DEF stateVars
  <2> QED
    BY <2>1, <2>2, <2>3, <2>4
<1>2. ThreadTypes' /\ IdsGiven'
  <2>1. next_id \in Nat \ {0}
    BY DEF ThreadInv, ThreadTypes
  <2> QED
    BY <1>1, <2>1 DEF ThreadInv, ThreadTypes, IdsGiven, Unset
<1>3. Bounded' /\ Steps'
  BY <1>1 DEF ThreadInv, Bounded, Steps, Writers, Sending, Kind
<1>4. ClosingAlone'
  BY <1>1 DEF ThreadInv, ClosingAlone, Closing, Busy, Sending, Kind
<1> QED
  BY <1>2, <1>3, <1>4 DEF ThreadInv

\* Every step keeps the invariant on the threads.
LEMMA ThreadsNext == ThreadInv /\ FlagTypes /\ Calm => ThreadInv'
  BY BeginWriteKeeps, StartWriteKeeps, BeginAttribKeeps, ReleaseKeeps, WaitKeeps,
     SendKeeps, OthersKeepThreads DEF Calm
-----------------------------------------------------------------------------
SentIds == {sent[n] : n \in 1..Len(sent)}
AnsweredIds == {responses[n].id : n \in 1..Len(responses)}

\* What RemoveAt leaves.
LEMMA RemoveAtElements ==
    ASSUME NEW S, NEW s \in Seq(S), NEW n \in 1..Len(s)
    PROVE  /\ RemoveAt(s, n) \in Seq(S)
           /\ Len(RemoveAt(s, n)) = Len(s) - 1
           /\ \A i \in 1..(Len(s) - 1) :
                RemoveAt(s, n)[i] = IF i < n THEN s[i] ELSE s[i + 1]
<1>1. /\ SubSeq(s, 1, n - 1) \in Seq(S) /\ Len(SubSeq(s, 1, n - 1)) = n - 1
      /\ \A i \in 1..(n - 1) : SubSeq(s, 1, n - 1)[i] = s[i]
  BY SubSeqProperties
<1>2. /\ SubSeq(s, n + 1, Len(s)) \in Seq(S)
      /\ Len(SubSeq(s, n + 1, Len(s))) = Len(s) - n
      /\ \A i \in 1..(Len(s) - n) : SubSeq(s, n + 1, Len(s))[i] = s[n + i]
  BY SubSeqProperties
<1> DEFINE a == SubSeq(s, 1, n - 1)
           b == SubSeq(s, n + 1, Len(s))
<1>3. RemoveAt(s, n) = a \o b
  BY DEF RemoveAt
<1> HIDE DEF a, b
<1>4. /\ a \in Seq(S) /\ Len(a) = n - 1 /\ \A i \in 1..(n - 1) : a[i] = s[i]
      /\ b \in Seq(S) /\ Len(b) = Len(s) - n
      /\ \A i \in 1..(Len(s) - n) : b[i] = s[n + i]
  BY <1>1, <1>2 DEF a, b
<1>5. /\ a \o b \in Seq(S) /\ Len(a \o b) = Len(s) - 1
  <2>1. a \o b \in Seq(S) /\ Len(a \o b) = Len(a) + Len(b)
    BY <1>4, ConcatProperties
  <2>2. Len(s) \in Nat /\ n \in Nat
    BY LenProperties
  <2> QED
    BY <1>4, <2>1, <2>2
<1>6. ASSUME NEW i \in 1..(Len(s) - 1)
      PROVE  (a \o b)[i] = IF i < n THEN s[i] ELSE s[i + 1]
  <2>1. (a \o b)[i] = IF i <= Len(a) THEN a[i] ELSE b[i - Len(a)]
    BY <1>4, ConcatProperties
  <2>2. CASE i < n
    BY <1>4, <2>1, <2>2
  <2>3. CASE ~(i < n)
    <3>1. i - Len(a) \in 1..(Len(s) - n) /\ n + (i - Len(a)) = i + 1
      BY <1>4, <2>3
    <3> QED
      BY <1>4, <2>1, <2>3, <3>1
  <2> QED
    BY <2>2, <2>3
<1> QED
  BY <1>3, <1>5, <1>6

\* The ring's queues keep their types.
LEMMA RingTypesNext ==
    ThreadInv /\ FlagTypes /\ RingTypes /\ Calm => RingTypes'
<1> SUFFICES ASSUME ThreadInv, FlagTypes, RingTypes, Calm
             PROVE  RingTypes'
  OBVIOUS
<1>1. ASSUME NEW t \in Threads, mw_xen_release_request(t)
      PROVE  RingTypes'
  <2>1. actreq[t] \in Ids
    <3>1. Sending(t)
      BY <1>1 DEF mw_xen_release_request, Sending
    <3>2. actreq[t] # Unset /\ actreq[t] \in 0..(next_id - 1)
      BY <3>1, ThreadFacts DEF ThreadInv, Steps
    <3> QED
      BY <3>2, IdsInRange
  <2>2. /\ UNCHANGED <<responses, cpc, response>>
        /\ sent' = sent \/ sent' = Append(sent, actreq[t])
    BY <1>1 DEF mw_xen_release_request, consumerVars
  <2>3. sent' \in Seq(Ids)
    BY <2>1, <2>2, AppendProperties DEF RingTypes
  <2> QED
    BY <2>2, <2>3 DEF RingTypes
<1>2. ASSUME NEW n \in Ids, NEW closed \in BOOLEAN, InsAnswers(n, closed)
      PROVE  RingTypes'
  <2>1. /\ UNCHANGED <<cpc, response>> /\ n \in 1..Len(sent)
        /\ sent' = RemoveAt(sent, n)
        /\ responses' = Append(responses, [id |-> sent[n], closed |-> closed])
    BY <1>2 DEF InsAnswers, consumerVars, RingTypes
  <2>2. sent' \in Seq(Ids)
    BY <2>1, RemoveAtElements DEF RingTypes
  <2>3. [id |-> sent[n], closed |-> closed] \in [id : Ids, closed : BOOLEAN]
    BY <2>1 DEF RingTypes
  <2>4. responses' \in Seq([id : Ids, closed : BOOLEAN])
    BY <2>1, <2>3, AppendProperties DEF RingTypes
  <2> QED
    BY <2>1, <2>2, <2>4 DEF RingTypes
<1>3. CASE FindRequest
  <2>1. /\ responses \in Seq([id : Ids, closed : BOOLEAN]) /\ responses # << >>
        /\ responses' = Tail(responses) /\ sent' = sent
        /\ \/ cpc' = "found" /\ response' = Head(responses)
           \/ UNCHANGED <<cpc, response>>
    BY <1>3 DEF FindRequest, RingTypes, consumerVars
  <2>2. /\ Tail(responses) \in Seq([id : Ids, closed : BOOLEAN])
        /\ Head(responses) \in [id : Ids, closed : BOOLEAN]
    BY <2>1, HeadTailProperties
  <2> QED
    BY <2>1, <2>2 DEF RingTypes
<1>4. CASE mwsocket_postproc_no_context \/ DecideFate
  <2>1. /\ UNCHANGED <<sent, responses>>
        /\ \/ cpc = "found" /\ cpc' = "decide" /\ response' = response
           \/ cpc' = "idle" /\ response' = NoResponse
    BY <1>4 DEF mwsocket_postproc_no_context, DecideFate, ringVars
  <2>2. NoResponse \in [id : Ids \cup {Unset}, closed : BOOLEAN]
    BY DEF NoResponse
  <2> QED
    BY <2>1, <2>2 DEF RingTypes
<1>5. CASE mw_xen_release_ins
  <2>1. sent' = << >> /\ responses' = << >> /\ UNCHANGED <<cpc, response>>
    BY <1>5 DEF mw_xen_release_ins, consumerVars
  <2> QED
    BY <2>1 DEF RingTypes
<1>6. CASE UNCHANGED <<sent, responses, cpc, response>>
  BY <1>6 DEF RingTypes
<1>7. ASSUME NEW t \in Threads, Send(t), ~mw_xen_release_request(t)
      PROVE  UNCHANGED <<sent, responses, cpc, response>>
  BY <1>7 DEF Send, mw_xen_get_next_request_slot, PrepareRequest, PrepareClose,
     TryCloseLock, ringVars, consumerVars
<1>8. ASSUME NEW t \in Threads,
             \/ \E c \in Calls : BeginWrite(t, c)
             \/ BeginRead(t) \/ BeginAttrib(t) \/ mwsocket_release(t)
             \/ StartWrite(t) \/ EndRead(t) \/ AwaitResponse(t)
             \/ mwsocket_put_sockinst(t)
      PROVE  UNCHANGED <<sent, responses, cpc, response>>
  BY <1>8 DEF BeginWrite, BeginRead, BeginAttrib, mwsocket_release, StartWrite,
     EndRead, AwaitResponse, mwsocket_put_sockinst, ringVars, consumerVars
<1>9. ASSUME InsCrashes \/ mwsocket_reap_dead_sock_instances \/ Exit
               \/ UNCHANGED stateVars
      PROVE  UNCHANGED <<sent, responses, cpc, response>>
  BY <1>9 DEF InsCrashes, mwsocket_reap_dead_sock_instances, BeginWalk,
     ReapRequest, ReapSocket, Exit, ringVars, consumerVars, stateVars
<1> QED
  BY <1>1, <1>2, <1>3, <1>4, <1>5, <1>6, <1>7, <1>8, <1>9
  DEF Calm, Consumes, Answers
-----------------------------------------------------------------------------
(* The reaper.                                                             *)

\* It walks when the INS is given up, with nothing left in its ring; only then
\* can it touch a request that somebody else works on.
WalkInv ==
    /\ rpc \in {"idle", "walk", "done"}
    /\ curr_ar \in Ids \cup {Unset} /\ next_ar \in Ids \cup {Unset}
    /\ race \subseteq {"timeout", "reaper"}
    /\ arrived \subseteq Ids /\ close_readers \in Int
    /\ rpc # "idle" => ~ins_up
    /\ "reaper" \in race => rpc # "idle"
    /\ ~ins_up => sent = << >>

\* Every step keeps it.
LEMMA WalkNext ==
    ASSUME ThreadInv, FlagTypes, RingTypes, WalkInv, Calm
    PROVE  WalkInv'
<1> USE DEF walkVars, insVars, ringVars, closeVars, deliverVars
<1>0. active \subseteq Ids
  BY IdsInRange DEF ThreadInv, IdsGiven
<1>1. ASSUME NEW t \in Threads, Send(t)
      PROVE  WalkInv'
  <2>1. /\ UNCHANGED <<rpc, curr_ar, next_ar, race, arrived, ins_up>>
        /\ close_readers' \in {close_readers, close_readers + 1}
        /\ ~ins_up => sent' = sent
    <3>1. CASE mw_xen_get_next_request_slot(t)
      BY <3>1 DEF mw_xen_get_next_request_slot
    <3>2. CASE PrepareRequest(t)
      BY <3>2 DEF PrepareRequest
    <3>3. CASE PrepareClose(t) \/ TryCloseLock(t)
      BY <3>3 DEF PrepareClose, TryCloseLock
    <3>4. CASE mw_xen_release_request(t)
      BY <3>4 DEF mw_xen_release_request
    <3> QED
      BY <1>1, <3>1, <3>2, <3>3, <3>4 DEF Send
  <2> QED
    BY <2>1 DEF WalkInv
<1>2. ASSUME NEW t \in Threads, AwaitResponse(t)
      PROVE  WalkInv'
  <2>1. /\ UNCHANGED <<rpc, curr_ar, next_ar, ins_up, sent, close_readers>>
        /\ race' = race \/ race' = race \cup {"timeout"}
        /\ arrived' = arrived \ {actreq[t]}
    BY <1>2 DEF AwaitResponse
  <2> QED
    BY <2>1 DEF WalkInv
<1>3. ASSUME NEW t \in Threads, \/ \E c \in Calls : BeginWrite(t, c)
                                \/ BeginRead(t) \/ BeginAttrib(t)
                                \/ mwsocket_release(t) \/ StartWrite(t)
                                \/ EndRead(t) \/ mwsocket_put_sockinst(t)
      PROVE  WalkInv'
  <2>1. /\ UNCHANGED <<rpc, curr_ar, next_ar, race, ins_up, sent, close_readers>>
        /\ arrived' \subseteq arrived
    BY <1>3 DEF BeginWrite, BeginRead, BeginAttrib, mwsocket_release, StartWrite,
       EndRead, mwsocket_put_sockinst
  <2> QED
    BY <2>1 DEF WalkInv
<1>4. CASE ~ConsumerDangling /\ Consumes
  <2>1. /\ UNCHANGED <<rpc, curr_ar, next_ar, race, ins_up, sent>>
        /\ close_readers' \in {close_readers, close_readers - 1}
        /\ arrived' \subseteq arrived \cup active
    <3>1. CASE FindRequest
      BY <3>1 DEF FindRequest
    <3>2. CASE mwsocket_postproc_no_context
      BY <3>2 DEF mwsocket_postproc_no_context
    <3>3. CASE DecideFate
      BY <1>4, <3>3 DEF DecideFate, ConsumerDangling
    <3> QED
      BY <1>4, <3>1, <3>2, <3>3 DEF Consumes
  <2> QED
    BY <1>0, <2>1 DEF WalkInv
<1>5. CASE Answers
  <2>1. PICK n \in Ids, closed \in BOOLEAN : InsAnswers(n, closed)
    BY <1>5 DEF Answers
  <2>2. /\ UNCHANGED <<rpc, curr_ar, next_ar, race, ins_up, arrived, close_readers>>
        /\ n \in DOMAIN sent
    BY <2>1 DEF InsAnswers
  <2>3. sent # << >>
    BY <2>2
  <2> QED
    BY <2>2, <2>3 DEF WalkInv
<1>6. CASE mw_xen_release_ins
  <2>1. /\ UNCHANGED <<rpc, curr_ar, next_ar, race, arrived, close_readers>>
        /\ sent' = << >> /\ ins_up /\ ins_up' = FALSE
    BY <1>6 DEF mw_xen_release_ins
  <2> QED
    BY <2>1 DEF WalkInv
<1>7. CASE ~ReaperDangling /\ mwsocket_reap_dead_sock_instances
  <2>1. /\ rpc' \in {"walk", "done"} /\ ~ins_up /\ UNCHANGED <<ins_up, sent>>
        /\ curr_ar' \in Ids \cup {Unset} /\ next_ar' \in Ids \cup {Unset}
        /\ race' \subseteq race \cup {"reaper"} /\ arrived' \subseteq arrived \cup active
        /\ close_readers' \in {close_readers, close_readers - 1}
    <3>1. CASE BeginWalk
      BY <3>1 DEF BeginWalk, WalkInv
    <3>2. CASE ReapRequest
      <4>1. curr_ar \in active
        BY <1>7, <3>2 DEF ReapRequest, ReaperDangling
      <4>2. /\ rpc = "walk" /\ rpc' = rpc /\ UNCHANGED <<ins_up, sent>>
            /\ curr_ar' = next_ar /\ next_ar' \in Ids \cup {Unset}
            /\ race' \subseteq race \cup {"reaper"}
            /\ arrived' \subseteq arrived \cup {curr_ar}
            /\ close_readers' \in {close_readers, close_readers - 1}
        BY <3>2 DEF ReapRequest
      <4> QED
        BY <4>1, <4>2 DEF WalkInv
    <3>3. CASE ReapSocket
      BY <3>3 DEF ReapSocket, WalkInv
    <3> QED
      BY <1>7, <3>1, <3>2, <3>3 DEF mwsocket_reap_dead_sock_instances
  <2> QED
    BY <1>0, <2>1 DEF WalkInv
<1>8. CASE InsCrashes \/ Exit \/ UNCHANGED stateVars
  <2>1. UNCHANGED <<rpc, curr_ar, next_ar, race, ins_up, sent, close_readers, arrived>>
    BY <1>8 DEF InsCrashes, Exit, stateVars
  <2> QED
    BY <2>1 DEF WalkInv
<1> QED
  BY <1>1, <1>2, <1>3, <1>4, <1>5, <1>6, <1>7, <1>8 DEF Calm
-----------------------------------------------------------------------------
(* Where the active requests are, and whose they are.                      *)

InRing == SentIds \cup AnsweredIds

\* The request the consumer works on, unless it was destroyed.
Handled == IF cpc # "idle" /\ response.id \in active THEN {response.id} ELSE {}

Places == InRing \cup arrived \cup Handled

\* Each request is at one place of the ring, or with the consumer, or its
\* completion is signalled; the ring of a dead INS is empty.
OnePlace ==
    /\ \A m, n \in 1..Len(sent) : sent[m] = sent[n] => m = n
    /\ \A m, n \in 1..Len(responses) : responses[m].id = responses[n].id => m = n
    /\ SentIds \cap AnsweredIds = {}
    /\ InRing \cap arrived = {}
    /\ Handled \cap (InRing \cup arrived) = {}
    /\ InRing \cup arrived \subseteq 1..(next_id - 1)
    /\ cpc # "idle" => response.id \in 1..(next_id - 1)
    /\ ~ins_up => sent = << >> /\ responses = << >>

\* A thread has a request of its own.
Has(t) == Sending(t) \/ pc[t] \in {"mustread", "read", "await"}

\* A thread has acquired request_sem.
Holds(t) ==
    pc[t] \in {"mustread", "read"} \/ (Sending(t) /\ Kind(t) \in UserTypes)

\* The request that a thread works on is active, and to be delivered to whoever
\* waits for it; one that is still to be sent is at no place yet.  The fields
\* that request_sem protects are those of the thread that has acquired it.
OwnRequest(t) ==
    /\ Sending(t) => actreq[t] \notin Places
    /\ Sending(t) \/ pc[t] \in {"read", "await"} => actreq[t] \in active
    /\ pc[t] \in {"read", "await"} => actreq[t] \in deliver_response
    /\ Sending(t) /\ Kind(t) \notin UserTypes => actreq[t] \in deliver_response
    /\ pc[t] = "mustread" /\ actreq[t] \in active =>
         actreq[t] \in deliver_response
    /\ Holds(t) => request_sem = 0 /\ own[t] = actreq[t]
    /\ pc[t] = "mustread" => blockid = actreq[t]
    /\ pc[t] = "push" /\ Kind(t) \in UserTypes /\ call[t].waits =>
         read_expected /\ blockid = actreq[t] /\ actreq[t] \in deliver_response

\* No two threads have the same request, or request_sem.
Apart ==
    \A t, u \in Threads : t # u =>
        /\ Has(t) /\ Has(u) => actreq[t] # actreq[u]
        /\ ~(Holds(t) /\ Holds(u))

RequestInv ==
    /\ OnePlace
    /\ \A t \in Threads : OwnRequest(t)
    /\ Apart
    /\ state_valid /\ request_sem \in {0, 1}

\* Nobody but t moves.
MovesOnly(t) ==
    \A u \in Threads \ {t} :
        /\ pc'[u] = pc[u] /\ actreq'[u] = actreq[u] /\ call'[u] = call[u]
        /\ own'[u] = own[u]
        /\ Sending(u) => Kind(u)' = Kind(u)

\* A step of one thread leaves the others alone.
LEMMA MovesOneThread ==
    ASSUME ThreadInv, FlagTypes, NEW t \in Threads, NEW x, Goto(t, x),
           actreq' = actreq \/ \E a : actreq' = [actreq EXCEPT ![t] = a],
           call' = call \/ \E c : call' = [call EXCEPT ![t] = c],
           own' = own \/ \E o : own' = [own EXCEPT ![t] = o],
           type' = type \/ \E k : type' = [type EXCEPT ![next_id] = k]
    PROVE  MovesOnly(t)
<1> SUFFICES ASSUME NEW u \in Threads \ {t}
             PROVE  /\ pc'[u] = pc[u] /\ actreq'[u] = actreq[u] /\ call'[u] = call[u]
                    /\ own'[u] = own[u]
                    /\ Sending(u) => Kind(u)' = Kind(u)
  BY DEF MovesOnly
<1>1. /\ pc \in [Callers -> PcValues] /\ actreq \in [Callers -> 0..(next_id - 1)]
      /\ own \in [Callers -> 0..(next_id - 1)] /\ u \in Callers
      /\ call \in [Callers -> Calls \cup {NoCall}] /\ next_id \in Nat
  BY ThreadFacts
<1>2. pc'[u] = pc[u] /\ actreq'[u] = actreq[u] /\ call'[u] = call[u] /\ own'[u] = own[u]
  BY <1>1 DEF Goto
<1>3. ASSUME Sending(u)
      PROVE  Kind(u)' = Kind(u)
  <2>1. actreq[u] # Unset
    BY <1>3 DEF ThreadInv, Steps
  <2>2. actreq[u] \in Ids /\ actreq[u] # next_id
    BY <1>1, <2>1, IdsInRange DEF Unset
  <2>3. type \in [Ids -> RequestTypes \cup {"none"}]
    BY DEF ThreadInv, ThreadTypes
  <2> QED
    BY <1>2, <2>2, <2>3 DEF Kind
<1> QED
  BY <1>2, <1>3

\* What a thread may do without disturbing the others, given that its own facts
\* hold again.
LEMMA ThreadStep ==
    ASSUME ThreadInv, FlagTypes, RequestInv, NEW t \in Threads, MovesOnly(t),
           \A id \in active : id \in active' \/ (Has(t) /\ id = actreq[t]),
           \A id \in deliver_response :
             id \in deliver_response' \/ (Has(t) /\ id = actreq[t]),
           \A id \in Places' : id \in Places \/ (Has(t) /\ id = actreq[t]),
           active' \subseteq active \cup {next_id},
           \/ Holds(t) \/ request_sem # 0
           \/ UNCHANGED <<request_sem, blockid, read_expected>>,
           Has(t)' => actreq'[t] = next_id \/ (Has(t) /\ actreq'[t] = actreq[t]),
           Holds(t)' => Holds(t) \/ request_sem # 0,
           OnePlace', OwnRequest(t)', state_valid' = state_valid,
           request_sem' \in {0, 1}
    PROVE  RequestInv'
<1>1. ASSUME NEW u \in Threads \ {t}
      PROVE  /\ pc'[u] = pc[u] /\ actreq'[u] = actreq[u] /\ call'[u] = call[u]
             /\ own'[u] = own[u] /\ (Sending(u)' <=> Sending(u))
             /\ (Has(u)' <=> Has(u)) /\ (Holds(u)' <=> Holds(u))
             /\ (Sending(u) => Kind(u)' = Kind(u))
             /\ actreq[u] # next_id
             /\ Has(t) /\ Has(u) => actreq[t] # actreq[u]
             /\ ~(Holds(t) /\ Holds(u)) /\ OwnRequest(u)
  <2>1. actreq[u] # next_id
    BY ThreadFacts
  <2>2. /\ pc'[u] = pc[u] /\ actreq'[u] = actreq[u] /\ call'[u] = call[u]
        /\ own'[u] = own[u] /\ (Sending(u)' <=> Sending(u))
        /\ (Sending(u) => Kind(u)' = Kind(u))
    BY DEF MovesOnly, Sending
  <2> QED
    BY <2>1, <2>2 DEF Has, Holds, RequestInv, Apart
<1>2. ASSUME NEW u \in Threads \ {t}
      PROVE  OwnRequest(u)'
  <2>1. Has(u) => /\ actreq[u] \in active <=> actreq[u] \in active'
                  /\ actreq[u] \in deliver_response => actreq[u] \in deliver_response'
                  /\ actreq[u] \notin Places => actreq[u] \notin Places'
    BY <1>1
  <2>2. Holds(u) => UNCHANGED <<request_sem, blockid, read_expected>>
    BY <1>1 DEF OwnRequest
  <2>3. Sending(u)' => actreq'[u] \notin Places'
    BY <1>1, <2>1 DEF OwnRequest, Has
  <2>4. Sending(u)' \/ pc'[u] \in {"read", "await"} => actreq'[u] \in active'
    BY <1>1, <2>1 DEF OwnRequest, Has
  <2>5. /\ pc'[u] \in {"read", "await"} => actreq'[u] \in deliver_response'
        /\ Sending(u)' /\ Kind(u)' \notin UserTypes => actreq'[u] \in deliver_response'
        /\ pc'[u] = "mustread" /\ actreq'[u] \in active' =>
             actreq'[u] \in deliver_response'
    BY <1>1, <2>1 DEF OwnRequest, Has
  <2>6. Holds(u)' => request_sem' = 0 /\ own'[u] = actreq'[u]
    BY <1>1, <2>2 DEF OwnRequest
  <2>7. pc'[u] = "mustread" => blockid' = actreq'[u]
    BY <1>1, <2>2 DEF OwnRequest, Holds
  <2>8. pc'[u] = "push" /\ Kind(u)' \in UserTypes /\ call'[u].waits =>
          read_expected' /\ blockid' = actreq'[u] /\ actreq'[u] \in deliver_response'
    BY <1>1, <2>1, <2>2 DEF OwnRequest, Holds, Has, Sending
  <2> QED
    BY <2>3, <2>4, <2>5, <2>6, <2>7, <2>8 DEF OwnRequest
<1>3. \A u \in Threads : OwnRequest(u)'
  BY <1>2
<1>4. \A u \in Threads \ {t} : ~(Holds(t)' /\ Holds(u)')
                               /\ (Has(t)' /\ Has(u)' => actreq'[t] # actreq'[u])
  BY <1>1 DEF OwnRequest
<1>5. \A u, w \in Threads \ {t} : u # w =>
        ~(Holds(w)' /\ Holds(u)') /\ (Has(w)' /\ Has(u)' => actreq'[w] # actreq'[u])
  BY <1>1 DEF RequestInv, Apart
<1>6. Apart'
  BY <1>4, <1>5 DEF Apart
<1> QED
  BY <1>3, <1>6 DEF RequestInv
-----------------------------------------------------------------------------
\* The ring does not change, and no request but a new one gets active.
LEMMA PlacesStay ==
    ASSUME OnePlace, ThreadInv, UNCHANGED <<sent, responses, cpc, response, ins_up>>,
           arrived' \subseteq arrived, next_id' \in {next_id, next_id + 1},
           active' \subseteq active \cup {next_id}
    PROVE  OnePlace' /\ Places' \subseteq Places
<1>1. /\ SentIds' = SentIds /\ AnsweredIds' = AnsweredIds /\ InRing' = InRing
      /\ Handled' \subseteq Handled
  <2>1. SentIds' = SentIds /\ AnsweredIds' = AnsweredIds /\ InRing' = InRing
    BY DEF SentIds, AnsweredIds, InRing
  <2>2. next_id \in Nat /\ (cpc # "idle" => response.id # next_id)
    BY DEF OnePlace, ThreadInv, ThreadTypes
  <2> QED
    BY <2>1, <2>2 DEF Handled
<1>2. 1..(next_id - 1) \subseteq 1..(next_id' - 1)
  <2>1. next_id \in Nat
    BY DEF ThreadInv, ThreadTypes
  <2>2. CASE next_id' = next_id
    BY <2>2
  <2>3. CASE next_id' = next_id + 1
    BY <2>1, <2>3
  <2> QED
    BY <2>2, <2>3
<1>3. /\ \A m, n \in 1..Len(sent') : sent'[m] = sent'[n] => m = n
      /\ \A m, n \in 1..Len(responses') : responses'[m].id = responses'[n].id => m = n
      /\ ~ins_up' => sent' = << >> /\ responses' = << >>
  BY DEF OnePlace
<1>4. /\ SentIds' \cap AnsweredIds' = {} /\ InRing' \cap arrived' = {}
      /\ Handled' \cap (InRing' \cup arrived') = {}
      /\ InRing' \cup arrived' \subseteq 1..(next_id' - 1)
      /\ cpc' # "idle" => response'.id \in 1..(next_id' - 1)
  BY <1>1, <1>2 DEF OnePlace
<1> QED
  BY <1>1, <1>3, <1>4 DEF OnePlace, Places

\* A request that is at no place is pushed on the ring.
LEMMA PushPlaces ==
    ASSUME OnePlace, RingTypes, NEW a \in Ids, a \notin Places, a \in 1..(next_id - 1),
           ins_up, sent' = Append(sent, a), next_id' = next_id,
           UNCHANGED <<responses, cpc, response, ins_up, arrived, active>>
    PROVE  OnePlace' /\ Places' = Places \cup {a}
<1>1. /\ Len(sent) \in Nat /\ Len(sent') = Len(sent) + 1
      /\ \A i \in 1..Len(sent) : sent'[i] = sent[i]
      /\ sent'[Len(sent) + 1] = a
  BY AppendProperties, LenProperties DEF RingTypes
<1>2. SentIds' = SentIds \cup {a}
  BY <1>1 DEF SentIds
<1>3. \A i \in 1..Len(sent) : sent[i] \in Places
  BY DEF Places, InRing, SentIds
<1>4. \A m, n \in 1..Len(sent') : sent'[m] = sent'[n] => m = n
  BY <1>1, <1>3 DEF OnePlace
<1>5. AnsweredIds' = AnsweredIds /\ InRing' = InRing \cup {a} /\ Handled' = Handled
  BY <1>2 DEF AnsweredIds, InRing, Handled
<1>6. a \notin SentIds /\ a \notin AnsweredIds /\ a \notin arrived /\ a \notin Handled
  BY DEF Places, InRing
<1>7. /\ SentIds' \cap AnsweredIds' = {} /\ InRing' \cap arrived' = {}
      /\ Handled' \cap (InRing' \cup arrived') = {}
      /\ cpc' # "idle" => response'.id \in 1..(next_id' - 1)
      /\ InRing' \cup arrived' \subseteq 1..(next_id' - 1)
  BY <1>2, <1>5, <1>6 DEF OnePlace
<1>8. /\ \A m, n \in 1..Len(responses') : responses'[m].id = responses'[n].id => m = n
      /\ ~ins_up' => sent' = << >> /\ responses' = << >>
  BY DEF OnePlace
<1> QED
  BY <1>4, <1>5, <1>7, <1>8 DEF OnePlace, Places

\* A sender that creates its request: it is new, so it is at no place.
LEMMA CreateRequest ==
    ASSUME ThreadInv, FlagTypes, RequestInv, NEW t \in Threads, NEW kind,
           mwsocket_create_active_request(t, kind), Goto(t, "slot"), ~Has(t),
           next_id \in Ids,
           UNCHANGED <<sent, responses, cpc, response, ins_up, arrived, state_valid,
                       blockid, read_expected, call>>,
           \/ /\ kind \in UserTypes /\ request_sem # 0
              /\ request_sem' = request_sem - 1
              /\ own' = [own EXCEPT ![t] = next_id]
              /\ UNCHANGED deliver_response
           \/ /\ kind \notin UserTypes /\ UNCHANGED <<request_sem, own>>
              /\ deliver_response' = deliver_response \cup {next_id}
    PROVE  RequestInv'
<1>1. /\ active' = active \cup {next_id} /\ next_id' = next_id + 1
      /\ type' = [type EXCEPT ![next_id] = kind]
      /\ actreq' = [actreq EXCEPT ![t] = next_id]
      /\ pc' = [pc EXCEPT ![t] = "slot"]
  BY DEF mwsocket_create_active_request, Goto
<1>2. MovesOnly(t)
  BY <1>1, MovesOneThread
<1>3. OnePlace' /\ Places' \subseteq Places
  BY <1>1, PlacesStay DEF RequestInv
<1>4. /\ pc'[t] = "slot" /\ actreq'[t] = next_id /\ Sending(t)' /\ Has(t)'
      /\ Kind(t)' = kind
  BY <1>1, ThreadFacts DEF Sending, Has, Kind, ThreadInv, ThreadTypes
<1>5. next_id \notin Places
  <2>1. next_id \in Nat /\ active \subseteq 1..(next_id - 1)
    BY DEF ThreadInv, ThreadTypes, IdsGiven
  <2>2. Places \subseteq 1..(next_id - 1)
    BY <2>1 DEF RequestInv, OnePlace, Places, Handled
  <2> QED
    BY <2>1, <2>2
<1>6. request_sem' \in {0, 1}
  BY DEF RequestInv
<1>7. OwnRequest(t)'
  <2>1. actreq'[t] \notin Places' /\ actreq'[t] \in active'
    BY <1>1, <1>3, <1>4, <1>5
  <2>2. Kind(t)' \notin UserTypes => actreq'[t] \in deliver_response'
    BY <1>4
  <2>3. Holds(t)' => request_sem' = 0 /\ own'[t] = actreq'[t]
    <3>1. Holds(t)' => kind \in UserTypes
      BY <1>4 DEF Holds
    <3> QED
      BY <1>4, <3>1, ThreadFacts DEF RequestInv
  <2> QED
    BY <1>4, <2>1, <2>2, <2>3 DEF OwnRequest
<1>8. Holds(t)' => request_sem # 0
  BY <1>4 DEF Holds
<1> QED
  BY <1>1, <1>2, <1>3, <1>4, <1>6, <1>7, <1>8, ThreadStep

\* A call that returns gives up its request, and request_sem if it has it.
LEMMA ReturnRequest ==
    ASSUME ThreadInv, FlagTypes, RequestInv, NEW t \in Threads, NEW x,
           x \in {"idle", "closed"}, Return(t, x),
           UNCHANGED <<sent, responses, cpc, response, ins_up, state_valid, blockid,
                       type, next_id>>,
           arrived' \subseteq arrived,
           \/ UNCHANGED <<active, deliver_response>>
           \/ Has(t) /\ active' = active \ {actreq[t]}
              /\ deliver_response' = deliver_response \ {actreq[t]},
           \/ request_sem' = request_sem
           \/ Holds(t) /\ request_sem' = request_sem + 1,
           Holds(t) \/ request_sem # 0 \/ UNCHANGED read_expected
    PROVE  RequestInv'
<1>1. /\ pc' = [pc EXCEPT ![t] = x] /\ actreq' = [actreq EXCEPT ![t] = Unset]
      /\ call' = [call EXCEPT ![t] = NoCall] /\ own' = [own EXCEPT ![t] = Unset]
  BY DEF Return, Goto
<1>2. MovesOnly(t)
  BY <1>1, MovesOneThread DEF Return
<1>3. OnePlace' /\ Places' \subseteq Places
  BY PlacesStay DEF RequestInv
<1>4. pc'[t] = x /\ ~Sending(t)' /\ ~Has(t)' /\ ~Holds(t)'
  BY <1>1, ThreadFacts DEF Sending, Has, Holds
<1>5. OwnRequest(t)'
  BY <1>4 DEF OwnRequest, Holds
<1>6. request_sem' \in {0, 1}
  BY DEF RequestInv, OwnRequest
<1> QED
  BY <1>2, <1>3, <1>4, <1>5, <1>6, ThreadStep

\* What a thread that sends knows of its request.
LEMMA SenderFacts ==
    ASSUME ThreadInv, FlagTypes, RequestInv, NEW t \in Threads, Sending(t)
    PROVE  /\ Has(t) /\ actreq[t] \in Ids /\ actreq[t] \in 1..(next_id - 1)
           /\ actreq[t] \in active /\ actreq[t] \notin Places
           /\ actreq[t] \notin Handled /\ Kind(t) \in RequestTypes
           /\ (Holds(t) <=> Kind(t) \in UserTypes)
<1>1. actreq[t] \in 0..(next_id - 1) /\ actreq[t] # Unset /\ Kind(t) \in RequestTypes
  BY ThreadFacts DEF ThreadInv, Steps
<1>2. actreq[t] \in 1..(next_id - 1) /\ actreq[t] \in Ids
  BY <1>1, IdsInRange DEF Unset
<1>3. pc[t] \notin {"mustread", "read"}
  BY DEF Sending
<1> QED
  BY <1>1, <1>2, <1>3 DEF RequestInv, OwnRequest, Has, Holds, Places

\* A send that fails destroys a request that nobody else has.
LEMMA SendFailedRequest ==
    ASSUME ThreadInv, FlagTypes, RequestInv, NEW t \in Threads, Sending(t),
           SendFailed(t),
           UNCHANGED <<sent, responses, cpc, response, ins_up, state_valid, blockid,
                       arrived>>
    PROVE  RequestInv'
<1>1. /\ active' = active \ {actreq[t]} /\ UNCHANGED <<type, next_id>>
      /\ deliver_response' = deliver_response \ {actreq[t]}
  BY DEF SendFailed, mwsocket_destroy_active_request
<1>2. \/ Kind(t) \in UserTypes /\ request_sem' = request_sem + 1
      \/ Kind(t) \notin UserTypes /\ UNCHANGED <<request_sem, read_expected>>
  BY DEF SendFailed
<1>3. \/ request_sem' = request_sem
      \/ Holds(t) /\ request_sem' = request_sem + 1
  BY <1>2, SenderFacts
<1>4. Holds(t) \/ UNCHANGED read_expected
  BY <1>2, SenderFacts
<1>5. Has(t)
  BY SenderFacts
<1>6. CASE Kind(t) = "Close"
  <2>1. Return(t, "closed")
    BY <1>6 DEF SendFailed
  <2> QED
    BY <1>1, <1>3, <1>4, <1>5, <2>1, ReturnRequest
<1>7. CASE Kind(t) # "Close"
  <2>1. Return(t, "idle")
    BY <1>7 DEF SendFailed
  <2> QED
    BY <1>1, <1>3, <1>4, <1>5, <2>1, ReturnRequest
<1> QED
  BY <1>6, <1>7

\* A thread goes on with its request, which is not yet sent.
LEMMA GoOnSending ==
    ASSUME ThreadInv, FlagTypes, RequestInv, NEW t \in Threads, Sending(t),
           NEW x, x \in {"prepare", "trylock", "push"}, Goto(t, x),
           UNCHANGED <<sent, responses, cpc, response, ins_up, state_valid, arrived,
                       type, next_id, active, call, actreq, own, request_sem>>,
           \/ UNCHANGED <<blockid, read_expected, deliver_response>>
           \/ /\ Kind(t) \in UserTypes /\ read_expected' = TRUE /\ blockid' = actreq[t]
              /\ deliver_response' = deliver_response \cup {actreq[t]},
           x = "push" /\ Kind(t) \in UserTypes /\ call[t].waits =>
             read_expected' /\ blockid' = actreq[t] /\ actreq[t] \in deliver_response'
    PROVE  RequestInv'
<1>1. pc' = [pc EXCEPT ![t] = x]
  BY DEF Goto
<1>2. MovesOnly(t)
  BY MovesOneThread
<1>3. OnePlace' /\ Places' \subseteq Places
  BY PlacesStay DEF RequestInv
<1>4. pc'[t] = x /\ Sending(t)' /\ Has(t)' /\ Has(t) /\ Kind(t)' = Kind(t)
      /\ (Holds(t)' <=> Holds(t)) /\ (Holds(t) <=> Kind(t) \in UserTypes)
  BY <1>1, ThreadFacts, SenderFacts DEF Sending, Has, Holds, Kind
<1>5. OwnRequest(t)'
  <2>1. OwnRequest(t)
    BY DEF RequestInv
  <2>2. /\ actreq'[t] \notin Places' /\ actreq'[t] \in active'
        /\ Kind(t)' \notin UserTypes => actreq'[t] \in deliver_response'
    <3>1. actreq' = actreq /\ active' = active /\ deliver_response \subseteq deliver_response'
      OBVIOUS
    <3>2. /\ actreq[t] \notin Places /\ actreq[t] \in active
          /\ Kind(t) \notin UserTypes => actreq[t] \in deliver_response
      BY <2>1 DEF OwnRequest
    <3> QED
      BY <1>3, <1>4, <3>1, <3>2
  <2>3. Holds(t)' => request_sem' = 0 /\ own'[t] = actreq'[t]
    BY <1>4, <2>1 DEF OwnRequest
  <2> QED
    BY <1>4, <2>2, <2>3 DEF OwnRequest
<1>6. request_sem' \in {0, 1}
  BY DEF RequestInv
<1>7. Holds(t) \/ UNCHANGED <<request_sem, blockid, read_expected>>
  BY <1>4
<1> QED
  BY <1>2, <1>3, <1>4, <1>5, <1>6, <1>7, ThreadStep

\* The request is on the ring: the kernel waits, or the user is to read, or
\* nobody waits.
LEMMA SentRequest ==
    ASSUME ThreadInv, FlagTypes, RingTypes, RequestInv, NEW t \in Threads,
           mw_xen_release_request(t), ins_up
    PROVE  RequestInv'
<1>1. /\ pc[t] = "push" /\ sent' = Append(sent, actreq[t]) /\ EndSend(t)
      /\ UNCHANGED <<responses, cpc, response, ins_up, state_valid, arrived,
                     type, next_id, active, blockid, read_expected, deliver_response>>
  BY DEF mw_xen_release_request, refVars, consumerVars, insVars
<1>2. Sending(t)
  BY <1>1 DEF Sending
<1>3. OnePlace' /\ Places' = Places \cup {actreq[t]}
  BY <1>1, <1>2, SenderFacts, PushPlaces DEF RequestInv
<1>4. OwnRequest(t) /\ state_valid /\ request_sem \in {0, 1}
  BY DEF RequestInv
<1>5. CASE Kind(t) \notin UserTypes
  <2>1. Goto(t, "await") /\ UNCHANGED <<request_sem, call, actreq, own>>
    BY <1>1, <1>5 DEF EndSend
  <2>2. MovesOnly(t)
    BY <1>1, <2>1, MovesOneThread
  <2>3. pc'[t] = "await" /\ Has(t) /\ ~Sending(t)' /\ ~Holds(t)'
    BY <1>2, <2>1, ThreadFacts DEF Goto, Has, Sending, Holds
  <2>4. OwnRequest(t)'
    BY <1>1, <1>2, <1>4, <1>5, <2>1, <2>3 DEF OwnRequest
  <2> QED
    BY <1>1, <1>3, <1>4, <2>1, <2>2, <2>3, <2>4, ThreadStep
<1>6. CASE Kind(t) \in UserTypes /\ call[t].waits
  <2>1. /\ Goto(t, "mustread") /\ UNCHANGED <<call, actreq, own>>
        /\ request_sem' = IF KeepsSemaphore THEN request_sem ELSE request_sem + 1
    BY <1>1, <1>6 DEF EndSend
  <2>2. MovesOnly(t)
    BY <1>1, <2>1, MovesOneThread
  <2>3. pc'[t] = "mustread" /\ Has(t) /\ Holds(t) /\ ~Sending(t)'
    BY <1>2, <1>6, <2>1, ThreadFacts DEF Goto, Has, Sending, Holds
  <2>4. /\ read_expected /\ blockid = actreq[t] /\ actreq[t] \in deliver_response
        /\ request_sem = 0 /\ own[t] = actreq[t]
    BY <1>1, <1>4, <1>6, <2>3 DEF OwnRequest
  <2>5. request_sem' = 0
    BY <1>4, <2>1, <2>4 DEF KeepsSemaphore
  <2>6. OwnRequest(t)'
    BY <1>1, <2>1, <2>3, <2>4, <2>5 DEF OwnRequest
  <2> QED
    BY <1>1, <1>3, <1>4, <2>1, <2>2, <2>3, <2>4, <2>5, <2>6, ThreadStep
<1>7. CASE Kind(t) \in UserTypes /\ ~call[t].waits
  <2>1. /\ Return(t, "idle")
        /\ request_sem' = IF KeepsSemaphore THEN request_sem ELSE request_sem + 1
    BY <1>1, <1>7 DEF EndSend
  <2>2. MovesOnly(t)
    BY <1>1, <2>1, MovesOneThread DEF Return
  <2>3. pc'[t] = "idle" /\ Has(t) /\ Holds(t) /\ ~Has(t)' /\ ~Holds(t)'
    BY <1>2, <1>7, <2>1, ThreadFacts DEF Return, Goto, Has, Sending, Holds
  <2>4. request_sem' \in {0, 1}
    BY <1>4, <2>1, <2>3 DEF OwnRequest
  <2>5. OwnRequest(t)'
    BY <2>3 DEF OwnRequest, Holds, Has
  <2> QED
    BY <1>1, <1>3, <1>4, <2>2, <2>3, <2>4, <2>5, ThreadStep
<1> QED
  BY <1>5, <1>6, <1>7

\* The steps of mwsocket_send_request keep requests apart.
LEMMA SendRequest ==
    ASSUME ThreadInv, FlagTypes, RingTypes, RequestInv, NEW t \in Threads, Send(t)
    PROVE  RequestInv'
<1>1. Sending(t)
  BY DEF Send, mw_xen_get_next_request_slot, PrepareRequest, PrepareClose,
     TryCloseLock, mw_xen_release_request, Sending
<1>2. CASE mw_xen_get_next_request_slot(t)
  <2>1. UNCHANGED <<sent, responses, cpc, response, ins_up, state_valid, blockid,
                    arrived>>
    BY <1>2 DEF mw_xen_get_next_request_slot, consumerVars, insVars
  <2>2. CASE ins_alive /\ ins_up
    <3>1. /\ Goto(t, "prepare")
          /\ UNCHANGED <<type, next_id, active, call, actreq, own, request_sem,
                         read_expected, deliver_response>>
      BY <1>2, <2>2 DEF mw_xen_get_next_request_slot, refVars
    <3> QED
      BY <1>1, <2>1, <3>1, GoOnSending
  <2>3. CASE ~(ins_alive /\ ins_up)
    <3>1. SendFailed(t)
      BY <1>2, <2>3 DEF mw_xen_get_next_request_slot
    <3> QED
      BY <1>1, <2>1, <3>1, SendFailedRequest
  <2> QED
    BY <2>2, <2>3
<1>3. CASE PrepareRequest(t)
  <2>1. /\ Goto(t, "push") /\ ExpectRead(t)
        /\ UNCHANGED <<sent, responses, cpc, response, ins_up, state_valid, arrived,
                       type, next_id, active, call, actreq, own, request_sem>>
    BY <1>3 DEF PrepareRequest, consumerVars, insVars, ringVars, refVars
  <2>2. CASE Kind(t) \in UserTypes /\ call[t].waits
    <3>1. /\ read_expected' = TRUE /\ blockid' = actreq[t]
          /\ deliver_response' = deliver_response \cup {actreq[t]}
      BY <2>1, <2>2 DEF ExpectRead
    <3> QED
      BY <1>1, <2>1, <2>2, <3>1, GoOnSending
  <2>3. CASE ~(Kind(t) \in UserTypes /\ call[t].waits)
    <3>1. UNCHANGED <<blockid, read_expected, deliver_response>>
      BY <2>1, <2>3 DEF ExpectRead
    <3> QED
      BY <1>1, <2>1, <2>3, <3>1, GoOnSending
  <2> QED
    BY <2>2, <2>3
<1>4. CASE PrepareClose(t) \/ TryCloseLock(t)
  <2>1. UNCHANGED <<sent, responses, cpc, response, ins_up, state_valid, arrived,
                    type, next_id, active, call, actreq, own, request_sem, blockid,
                    read_expected, deliver_response>>
    BY <1>4 DEF PrepareClose, TryCloseLock, consumerVars, insVars, ringVars, refVars,
       readVars, deliverVars
  <2>2. Kind(t) \notin UserTypes
    BY <1>4 DEF PrepareClose, TryCloseLock, ThreadInv, Steps, UserTypes
  <2>3. Goto(t, "push") \/ Goto(t, "trylock")
    BY <1>4 DEF PrepareClose, TryCloseLock
  <2> QED
    BY <1>1, <2>1, <2>2, <2>3, GoOnSending
<1>5. CASE mw_xen_release_request(t)
  <2>1. CASE ins_up
    BY <1>5, <2>1, SentRequest
  <2>2. CASE ~ins_up
    <3>1. /\ SendFailed(t)
          /\ UNCHANGED <<sent, responses, cpc, response, ins_up, state_valid, blockid,
                         arrived>>
      BY <1>5, <2>2 DEF mw_xen_release_request, consumerVars, insVars
    <3> QED
      BY <1>1, <3>1, SendFailedRequest
  <2> QED
    BY <2>1, <2>2
<1> QED
  BY <1>2, <1>3, <1>4, <1>5 DEF Send

\* The steps that begin and end a call.
LEMMA CallRequest ==
    ASSUME ThreadInv, FlagTypes, RingTypes, RequestInv,
           NEW t \in Threads,
           \/ \E c \in Calls : BeginWrite(t, c)
           \/ BeginRead(t) \/ BeginAttrib(t) \/ mwsocket_release(t)
           \/ StartWrite(t) \/ EndRead(t) \/ AwaitResponse(t)
           \/ mwsocket_put_sockinst(t)
    PROVE  RequestInv'
<1>0. /\ UNCHANGED <<sent, responses, cpc, response, ins_up, state_valid, blockid>>
      /\ OwnRequest(t) /\ request_sem \in {0, 1}
  <2>1. UNCHANGED <<sent, responses, cpc, response, ins_up, state_valid, blockid>>
    BY DEF BeginWrite, BeginRead, BeginAttrib, mwsocket_release, StartWrite,
       EndRead, AwaitResponse, mwsocket_put_sockinst, ringVars, insVars, consumerVars,
       readVars
  <2> QED
    BY <2>1 DEF RequestInv
<1>1. ASSUME NEW c \in Calls, BeginWrite(t, c)
      PROVE  RequestInv'
  <2>1. /\ Goto(t, "write") /\ call' = [call EXCEPT ![t] = c]
        /\ UNCHANGED <<type, next_id, active, actreq, own, request_sem, read_expected,
                       deliver_response, arrived>>
    BY <1>1 DEF BeginWrite, refVars, readVars, deliverVars
  <2>2. MovesOnly(t)
    BY <2>1, MovesOneThread
  <2>3. ~Has(t)' /\ ~Holds(t)' /\ pc'[t] = "write"
    BY <2>1, ThreadFacts DEF Goto, Has, Holds, Sending
  <2>4. OnePlace' /\ Places' \subseteq Places
    BY <1>0, <2>1, PlacesStay DEF RequestInv, OnePlace
  <2>5. OwnRequest(t)'
    BY <2>3 DEF OwnRequest, Has
  <2> QED
    BY <1>0, <2>1, <2>2, <2>3, <2>4, <2>5, ThreadStep
<1>2. CASE BeginRead(t)
  <2>1. /\ pc[t] = "mustread" /\ read_expected' = FALSE
        /\ UNCHANGED <<type, next_id, active, deliver_response, arrived>>
    BY <1>2 DEF BeginRead, refVars, deliverVars
  <2>2. Has(t) /\ Holds(t) /\ request_sem = 0 /\ blockid = actreq[t] /\ own[t] = actreq[t]
    BY <1>0, <2>1 DEF Has, Holds, OwnRequest
  <2>3. CASE (state_valid /\ ~read_expected) \/ blockid \notin active
    <3>1. request_sem' = request_sem + 1 /\ Return(t, "idle")
      BY <1>2, <2>3 DEF BeginRead
    <3> QED
      BY <1>0, <2>1, <2>2, <3>1, ReturnRequest
  <2>4. CASE ~((state_valid /\ ~read_expected) \/ blockid \notin active)
    <3>1. /\ actreq' = [actreq EXCEPT ![t] = blockid] /\ Goto(t, "read")
          /\ UNCHANGED <<request_sem, call, own>>
      BY <1>2, <2>4 DEF BeginRead
    <3>2. MovesOnly(t)
      BY <2>1, <3>1, MovesOneThread
    <3>3. /\ Has(t)' /\ Holds(t)' /\ ~Sending(t)' /\ pc'[t] = "read"
          /\ actreq'[t] = actreq[t]
      BY <2>2, <3>1, ThreadFacts DEF Goto, Has, Holds, Sending
    <3>4. OnePlace' /\ Places' \subseteq Places
      BY <1>0, <2>1, PlacesStay DEF RequestInv, OnePlace
    <3>5. actreq[t] \in active /\ actreq[t] \in deliver_response
      BY <1>0, <2>1, <2>2, <2>4 DEF OwnRequest
    <3>6. OwnRequest(t)'
      BY <2>1, <2>2, <3>1, <3>3, <3>5 DEF OwnRequest
    <3> QED
      BY <1>0, <2>1, <2>2, <3>1, <3>2, <3>3, <3>4, <3>6, ThreadStep
  <2> QED
    BY <2>3, <2>4
<1>3. CASE BeginAttrib(t)
  <2>1. /\ pc[t] = "idle" /\ ~released
        /\ mwsocket_create_active_request(t, "Attrib") /\ Goto(t, "slot")
        /\ deliver_response' = deliver_response \cup {next_id}
        /\ next_id + Cardinality(Writers) < MaxRequests
        /\ UNCHANGED <<request_sem, own, read_expected, arrived, call>>
    BY <1>3 DEF BeginAttrib, MayCall, readVars, Writers
  <2>2. next_id \in Ids /\ ~Has(t) /\ "Attrib" \notin UserTypes
    BY <2>1, IdsInRange DEF Ids, Has, Sending, UserTypes
  <2> QED
    BY <1>0, <2>1, <2>2, CreateRequest
<1>4. CASE mwsocket_release(t)
  <2>1. /\ pc[t] = "idle" /\ ~released /\ mwsocket_close_remote(t)
        /\ UNCHANGED <<request_sem, own, read_expected, arrived, call>>
    BY <1>4 DEF mwsocket_release, readVars
  <2>2. CASE remote_close_requested \/ ~ins_alive
    <3>1. /\ Goto(t, "closed")
          /\ UNCHANGED <<type, next_id, active, deliver_response, actreq>>
      BY <2>1, <2>2 DEF mwsocket_close_remote, refVars
    <3>2. MovesOnly(t)
      BY <2>1, <3>1, MovesOneThread
    <3>3. ~Has(t)' /\ ~Holds(t)' /\ pc'[t] = "closed"
      BY <3>1, ThreadFacts DEF Goto, Has, Holds, Sending
    <3>4. OnePlace' /\ Places' \subseteq Places
      BY <1>0, <2>1, <3>1, PlacesStay DEF RequestInv, OnePlace
    <3>5. OwnRequest(t)'
      BY <3>3 DEF OwnRequest, Has
    <3> QED
      BY <1>0, <2>1, <3>1, <3>2, <3>3, <3>4, <3>5, ThreadStep
  <2>3. CASE ~(remote_close_requested \/ ~ins_alive)
    <3>1. /\ mwsocket_create_active_request(t, "Close") /\ Goto(t, "slot")
          /\ deliver_response' = deliver_response \cup {next_id}
      BY <2>1, <2>3 DEF mwsocket_close_remote
    <3>2. next_id \in Ids /\ ~Has(t) /\ "Close" \notin UserTypes
      BY <2>1, IdsInRange DEF Ids, Has, Sending, UserTypes
    <3> QED
      BY <1>0, <2>1, <3>1, <3>2, CreateRequest
  <2> QED
    BY <2>2, <2>3
<1>5. CASE StartWrite(t)
  <2> DEFINE fails == \/ state_valid /\ read_expected
                      \/ ~ins_alive
                      \/ mwsocket_pending_error(call[t].type)
  <2>1. pc[t] = "write" /\ request_sem > 0 /\ UNCHANGED <<deliver_response, arrived>>
    BY <1>5 DEF StartWrite, deliverVars
  <2>2. CASE fails
    <3>1. Return(t, "idle") /\ UNCHANGED <<next_id, type, active, request_sem>>
      BY <1>5, <2>2 DEF StartWrite, refVars
    <3>2. request_sem # 0
      BY <2>1
    <3> QED
      BY <1>0, <2>1, <3>1, <3>2, ReturnRequest
  <2>3. CASE ~fails
    <3>1. /\ mwsocket_create_active_request(t, call[t].type)
          /\ request_sem' = request_sem - 1
          /\ own' = [own EXCEPT ![t] = next_id]
          /\ Goto(t, "slot") /\ UNCHANGED <<read_expected, call>>
      BY <1>5, <2>3 DEF StartWrite
    <3>2. call[t].type \in UserTypes /\ ~released /\ ~Has(t) /\ t \in Writers
      BY <2>1, SocketAssumption
      DEF ThreadInv, Steps, ClosingAlone, Busy, Closing, Sending, Has, Writers
    <3>3. next_id \in Ids
      <4>1. /\ IsFiniteSet(Writers) /\ Cardinality(Writers) \in Nat
            /\ next_id + Cardinality(Writers) <= MaxRequests
            /\ MaxRequests \in Nat /\ next_id \in 1..(MaxRequests + 1)
        BY <3>2, IdsInRange
      <4> QED
        BY <4>1 DEF Ids
    <3>4. request_sem # 0
      BY <2>1
    <3> QED
      BY <1>0, <2>1, <3>1, <3>2, <3>3, <3>4, CreateRequest
  <2> QED
    BY <2>2, <2>3
<1>6. CASE EndRead(t)
  <2>1. /\ pc[t] = "read" /\ actreq[t] \in arrived
        /\ mwsocket_destroy_active_request(actreq[t])
        /\ arrived' = arrived \ {actreq[t]} /\ request_sem' = request_sem + 1
        /\ Return(t, "idle") /\ UNCHANGED read_expected
    BY <1>6 DEF EndRead
  <2>2. /\ active' = active \ {actreq[t]} /\ UNCHANGED <<type, next_id>>
        /\ deliver_response' = deliver_response \ {actreq[t]}
    BY <2>1 DEF mwsocket_destroy_active_request
  <2>3. Has(t) /\ Holds(t)
    BY <2>1 DEF Has, Holds
  <2> QED
    BY <1>0, <2>1, <2>2, <2>3, ReturnRequest
<1>7. CASE AwaitResponse(t)
  <2>1. /\ pc[t] = "await"
        /\ mwsocket_destroy_active_request(actreq[t])
        /\ arrived' = arrived \ {actreq[t]}
        /\ Return(t, "closed") \/ Return(t, "idle")
        /\ UNCHANGED <<read_expected, request_sem>>
    BY <1>7 DEF AwaitResponse, readVars
  <2>2. /\ active' = active \ {actreq[t]} /\ UNCHANGED <<type, next_id>>
        /\ deliver_response' = deliver_response \ {actreq[t]}
    BY <2>1 DEF mwsocket_destroy_active_request
  <2>3. Has(t)
    BY <2>1 DEF Has
  <2> QED
    BY <1>0, <2>1, <2>2, <2>3, ReturnRequest
<1>8. CASE mwsocket_put_sockinst(t)
  <2>1. /\ pc[t] = "closed" /\ Goto(t, "done")
        /\ UNCHANGED <<type, next_id, active, deliver_response, actreq, arrived,
                       request_sem, own, read_expected, call>>
    BY <1>8 DEF mwsocket_put_sockinst, readVars, deliverVars
  <2>2. MovesOnly(t)
    BY <2>1, MovesOneThread
  <2>3. ~Has(t)' /\ ~Holds(t)' /\ pc'[t] = "done"
    BY <2>1, ThreadFacts DEF Goto, Has, Holds, Sending
  <2>4. OnePlace' /\ Places' \subseteq Places
    BY <1>0, <2>1, PlacesStay DEF RequestInv, OnePlace
  <2>5. OwnRequest(t)'
    BY <2>3 DEF OwnRequest, Has
  <2> QED
    BY <1>0, <2>1, <2>2, <2>3, <2>4, <2>5, ThreadStep
<1> QED
  BY <1>1, <1>2, <1>3, <1>4, <1>5, <1>6, <1>7, <1>8

\* A step of the consumer, the INS or the monitor, which moves no thread.
LEMMA OtherStep ==
    ASSUME ThreadInv, RequestInv, OnePlace',
           UNCHANGED <<pc, actreq, call, own, type, request_sem, blockid,
                       read_expected, state_valid>>,
           active' \subseteq active, deliver_response' \subseteq deliver_response,
           \A t \in Threads : Sending(t) => actreq[t] \notin Places',
           \A t \in Threads : Sending(t) \/ pc[t] \in {"read", "await"} =>
             actreq[t] \in active',
           \A id \in active' \cap deliver_response : id \in deliver_response'
    PROVE  RequestInv'
<1>1. ASSUME NEW t \in Threads
      PROVE  /\ (Sending(t)' <=> Sending(t)) /\ (Has(t)' <=> Has(t))
             /\ (Holds(t)' <=> Holds(t)) /\ Kind(t)' = Kind(t)
  BY DEF Sending, Has, Holds, Kind
<1>2. ASSUME NEW t \in Threads
      PROVE  OwnRequest(t)'
  <2>1. OwnRequest(t)
    BY DEF RequestInv
  <2>2. pc[t] = "push" => Sending(t)
    BY DEF Sending
  <2>3. /\ Sending(t)' => actreq'[t] \notin Places'
        /\ Sending(t)' \/ pc'[t] \in {"read", "await"} => actreq'[t] \in active'
        /\ pc'[t] \in {"read", "await"} => actreq'[t] \in deliver_response'
        /\ Sending(t)' /\ Kind(t)' \notin UserTypes => actreq'[t] \in deliver_response'
        /\ pc'[t] = "mustread" /\ actreq'[t] \in active' =>
             actreq'[t] \in deliver_response'
    BY <1>1, <2>1 DEF OwnRequest
  <2>4. /\ Holds(t)' => request_sem' = 0 /\ own'[t] = actreq'[t]
        /\ pc'[t] = "mustread" => blockid' = actreq'[t]
    BY <1>1, <2>1 DEF OwnRequest
  <2>5. pc'[t] = "push" /\ Kind(t)' \in UserTypes /\ call'[t].waits =>
          read_expected' /\ blockid' = actreq'[t] /\ actreq'[t] \in deliver_response'
    BY <1>1, <2>1, <2>2 DEF OwnRequest
  <2> QED
    BY <2>3, <2>4, <2>5 DEF OwnRequest
<1>3. Apart'
  BY <1>1 DEF RequestInv, Apart
<1> QED
  BY <1>2, <1>3 DEF RequestInv

\* The INS takes a request off the ring and puts its response there.
LEMMA AnswerPlaces ==
    ASSUME OnePlace, RingTypes, NEW n \in 1..Len(sent), NEW closed \in BOOLEAN,
           sent' = RemoveAt(sent, n),
           responses' = Append(responses, [id |-> sent[n], closed |-> closed]),
           UNCHANGED <<cpc, response, arrived, active, ins_up, next_id>>
    PROVE  /\ OnePlace' /\ Places' = Places
           /\ SentIds' = SentIds \ {sent[n]}
           /\ AnsweredIds' = AnsweredIds \cup {sent[n]}
<1> DEFINE r == [id |-> sent[n], closed |-> closed]
<1>1. /\ sent \in Seq(Ids) /\ Len(sent) \in Nat /\ Len(responses) \in Nat
      /\ responses \in Seq([id : Ids, closed : BOOLEAN])
      /\ r \in [id : Ids, closed : BOOLEAN] /\ r.id = sent[n]
  BY LenProperties DEF RingTypes
<1> HIDE DEF r
<1>2. /\ Len(sent') = Len(sent) - 1
      /\ \A i \in 1..(Len(sent) - 1) : sent'[i] = IF i < n THEN sent[i] ELSE sent[i + 1]
  BY <1>1, RemoveAtElements
<1>3. responses' = Append(responses, r)
  BY DEF r
<1>4. /\ Len(responses') = Len(responses) + 1
      /\ \A i \in 1..Len(responses) : responses'[i] = responses[i]
      /\ responses'[Len(responses) + 1] = r
  BY <1>1, <1>3, AppendProperties
<1>5. SentIds' = SentIds \ {sent[n]}
  <2>1. \A i \in 1..Len(sent') : sent'[i] \in SentIds \ {sent[n]}
    <3> SUFFICES ASSUME NEW i \in 1..Len(sent')
                 PROVE  sent'[i] \in SentIds \ {sent[n]}
      OBVIOUS
    <3>0. i \in 1..(Len(sent) - 1)
      BY <1>2
    <3>1. \E j \in 1..Len(sent) : j # n /\ sent'[i] = sent[j]
      <4>1. CASE i < n
        <5>0. i \in 1..Len(sent) /\ i # n
          BY <1>1, <3>0, <4>1
        <5>1. i \in 1..Len(sent) /\ i # n /\ sent'[i] = sent[i]
          BY <1>2, <3>0, <4>1, <5>0
        <5> QED
          BY <5>1
      <4>2. CASE ~(i < n)
        <5>0. i + 1 \in 1..Len(sent) /\ i + 1 # n
          BY <1>1, <3>0, <4>2
        <5>1. i + 1 \in 1..Len(sent) /\ i + 1 # n /\ sent'[i] = sent[i + 1]
          BY <1>2, <3>0, <4>2, <5>0
        <5> QED
          BY <5>1
      <4> QED
        BY <4>1, <4>2
    <3> QED
      BY <3>1 DEF SentIds, OnePlace
  <2>2. \A j \in 1..Len(sent) : sent[j] # sent[n] => sent[j] \in SentIds'
    <3> SUFFICES ASSUME NEW j \in 1..Len(sent), sent[j] # sent[n]
                 PROVE  \E i \in 1..Len(sent') : sent[j] = sent'[i]
      BY DEF SentIds
    <3>1. CASE j < n
      <4>1. j \in 1..Len(sent') /\ sent'[j] = sent[j]
        BY <1>1, <1>2, <3>1
      <4> QED
        BY <4>1
    <3>2. CASE ~(j < n)
      <4>1. j - 1 \in 1..(Len(sent) - 1) /\ ~(j - 1 < n) /\ (j - 1) + 1 = j
        BY <1>1, <3>2
      <4>2. sent'[j - 1] = sent[j] /\ j - 1 \in 1..Len(sent')
        BY <1>2, <4>1
      <4> QED
        BY <4>2
    <3> QED
      BY <3>1, <3>2
  <2> QED
    BY <2>1, <2>2 DEF SentIds
<1>6. AnsweredIds' = AnsweredIds \cup {sent[n]}
  BY <1>1, <1>4 DEF AnsweredIds
<1>7. sent[n] \in SentIds /\ \A i \in 1..Len(responses) : responses[i].id \in AnsweredIds
  BY DEF SentIds, AnsweredIds
<1>8. \A i, j \in 1..Len(sent') : sent'[i] = sent'[j] => i = j
  <2> SUFFICES ASSUME NEW i \in 1..Len(sent'), NEW j \in 1..Len(sent'), sent'[i] = sent'[j]
               PROVE  i = j
    OBVIOUS
  <2> DEFINE at(k) == IF k < n THEN k ELSE k + 1
  <2>1. /\ at(i) \in 1..Len(sent) /\ at(j) \in 1..Len(sent)
        /\ sent'[i] = sent[at(i)] /\ sent'[j] = sent[at(j)]
    BY <1>1, <1>2
  <2>2. at(i) = at(j)
    BY <2>1 DEF OnePlace
  <2> QED
    BY <1>1, <1>2, <2>2
<1>9. \A i, j \in 1..Len(responses') : responses'[i].id = responses'[j].id => i = j
  BY <1>1, <1>4, <1>7 DEF OnePlace
<1>10. InRing' = InRing /\ Handled' = Handled
  BY <1>5, <1>6, <1>7 DEF InRing, Handled
<1>11. SentIds' \cap AnsweredIds' = {}
  BY <1>5, <1>6 DEF OnePlace
<1>12. ins_up
  BY <1>1 DEF OnePlace
<1> QED
  BY <1>5, <1>6, <1>8, <1>9, <1>10, <1>11, <1>12 DEF OnePlace, Places

\* The consumer takes the first response off the ring.
LEMMA TakePlaces ==
    ASSUME OnePlace, RingTypes, FindRequest
    PROVE  /\ OnePlace' /\ Places' \subseteq Places
           /\ AnsweredIds' \subseteq AnsweredIds
<1>1. /\ cpc = "idle" /\ responses # << >> /\ responses' = Tail(responses)
      /\ IF Head(responses).id \in active
           THEN cpc' = "found" /\ response' = Head(responses)
           ELSE cpc' = "idle"
      /\ UNCHANGED <<sent, arrived, active, ins_up, next_id>>
  BY DEF FindRequest, consumerVars, refVars, deliverVars, insVars
<1>2. /\ responses \in Seq([id : Ids, closed : BOOLEAN]) /\ Len(responses) \in Nat
      /\ Len(responses) # 0
      /\ Len(responses') = Len(responses) - 1
      /\ \A i \in 1..Len(responses') : responses'[i] = responses[i + 1]
  BY <1>1, HeadTailProperties, EmptySeq, LenProperties DEF RingTypes
<1>3. Head(responses) = responses[1] /\ 1 \in 1..Len(responses)
  BY <1>1, <1>2
<1> DEFINE h == responses[1].id
<1>4. h \in AnsweredIds
  BY <1>3 DEF AnsweredIds
<1>5. \A i \in 1..Len(responses') : i + 1 \in 1..Len(responses) /\ i + 1 # 1
  BY <1>2
<1>6. AnsweredIds' \subseteq AnsweredIds \ {h}
  <2>1. \A i \in 1..Len(responses') : responses'[i].id \in AnsweredIds \ {h}
    BY <1>2, <1>3, <1>5 DEF AnsweredIds, OnePlace
  <2> QED
    BY <2>1 DEF AnsweredIds
<1>7. \A i, j \in 1..Len(responses') : responses'[i].id = responses'[j].id => i = j
  <2> SUFFICES ASSUME NEW i \in 1..Len(responses'), NEW j \in 1..Len(responses'),
                      responses'[i].id = responses'[j].id
               PROVE  i = j
    OBVIOUS
  <2>1. i + 1 = j + 1
    BY <1>2, <1>5 DEF OnePlace
  <2> QED
    BY <2>1
<1>8. SentIds' = SentIds /\ Handled = {} /\ Handled' \subseteq {h}
      /\ (cpc' # "idle" => response'.id = h)
  BY <1>1, <1>3 DEF SentIds, Handled
<1>9. InRing' \subseteq InRing /\ h \notin InRing' /\ h \notin arrived /\ h \in InRing
  BY <1>4, <1>6, <1>8 DEF InRing, OnePlace
<1>10. ins_up
  BY <1>1 DEF OnePlace
<1> HIDE DEF h
<1>11. /\ SentIds' \cap AnsweredIds' = {} /\ InRing' \cap arrived' = {}
       /\ Handled' \cap (InRing' \cup arrived') = {}
       /\ cpc' # "idle" => response'.id \in 1..(next_id' - 1)
       /\ InRing' \cup arrived' \subseteq 1..(next_id' - 1)
  BY <1>1, <1>6, <1>8, <1>9 DEF OnePlace
<1>12. OnePlace'
  BY <1>1, <1>7, <1>10, <1>11 DEF OnePlace
<1>13. Places' \subseteq Places
  BY <1>1, <1>8, <1>9 DEF Places
<1> QED
  BY <1>6, <1>12, <1>13

\* The steps of the INS, the consumer and the monitor keep requests apart.
LEMMA OthersRequest ==
    ASSUME ThreadInv, FlagTypes, RingTypes, WalkInv, RequestInv,
           "reaper" \notin race',
           \/ ~ConsumerDangling /\ Consumes
           \/ Answers \/ InsCrashes \/ mw_xen_release_ins
           \/ ~ReaperDangling /\ mwsocket_reap_dead_sock_instances
           \/ Exit \/ UNCHANGED stateVars
    PROVE  RequestInv'
<1>0. /\ UNCHANGED <<pc, actreq, call, own, type, request_sem, blockid,
                     read_expected, state_valid, next_id>>
      /\ OnePlace
  <2>1. UNCHANGED <<pc, actreq, call, own, type, request_sem, blockid,
                    read_expected, state_valid, next_id>>
    <3> USE DEF refVars, readVars, threadVars
    <3>1. CASE Consumes
      BY <3>1 DEF Consumes, FindRequest, mwsocket_postproc_no_context, DecideFate,
         mwsocket_destroy_active_request
    <3>2. CASE Answers \/ InsCrashes \/ mw_xen_release_ins \/ Exit
      BY <3>2 DEF Answers, InsAnswers, InsCrashes, mw_xen_release_ins, Exit
    <3>3. CASE mwsocket_reap_dead_sock_instances
      BY <3>3 DEF mwsocket_reap_dead_sock_instances, BeginWalk, ReapRequest,
         ReapSocket, mwsocket_destroy_active_request
    <3>4. CASE UNCHANGED stateVars
      BY <3>4 DEF stateVars
    <3> QED
      BY <3>1, <3>2, <3>3, <3>4
  <2> QED
    BY <2>1 DEF RequestInv
<1>1. ASSUME NEW t \in Threads
      PROVE  /\ Sending(t) => actreq[t] \notin Places
             /\ Sending(t) \/ pc[t] \in {"read", "await"} => actreq[t] \in active
             /\ pc[t] \in {"read", "await"} => actreq[t] \in deliver_response
  BY DEF RequestInv, OwnRequest
<1>2. CASE FindRequest
  <2>1. UNCHANGED <<active, deliver_response>>
    BY <1>2 DEF FindRequest, refVars, deliverVars
  <2> QED
    BY <1>0, <1>1, <1>2, <2>1, TakePlaces, OtherStep
<1>3. CASE mwsocket_postproc_no_context
  <2>1. /\ UNCHANGED <<active, deliver_response, arrived, sent, responses, ins_up>>
        /\ cpc = "found" /\ cpc' = "decide" /\ response' = response
    BY <1>3 DEF mwsocket_postproc_no_context, refVars, deliverVars, ringVars, insVars
  <2>2. SentIds' = SentIds /\ AnsweredIds' = AnsweredIds /\ Handled' = Handled
        /\ InRing' = InRing
    BY <2>1 DEF SentIds, AnsweredIds, Handled, InRing
  <2>3. OnePlace' /\ Places' = Places
    BY <1>0, <2>1, <2>2 DEF OnePlace, Places
  <2> QED
    BY <1>0, <1>1, <2>1, <2>3, OtherStep
<1>4. CASE ~ConsumerDangling /\ DecideFate
  <2>1. /\ UNCHANGED <<sent, responses, ins_up, exiting>>
        /\ cpc = "decide" /\ cpc' = "idle"
    BY <1>4 DEF DecideFate, ringVars, insVars, flagVars
  <2>2. Handled = {response.id} /\ Handled' = {} /\ InRing' = InRing /\ SentIds' = SentIds
        /\ AnsweredIds' = AnsweredIds /\ response.id \in active
    BY <1>0, <1>4, <2>1 DEF Handled, InRing, SentIds, AnsweredIds, ConsumerDangling
  <2>3. CASE Undelivered(response.id)
    <3>1. /\ active' = active \ {response.id} /\ arrived' = arrived
          /\ deliver_response' = deliver_response \ {response.id}
      BY <1>4, <2>3 DEF DecideFate, mwsocket_destroy_active_request
    <3>2. OnePlace' /\ Places' \subseteq Places
      BY <1>0, <2>1, <2>2, <3>1 DEF OnePlace, Places
    <3>3. ASSUME NEW t \in Threads, Sending(t) \/ pc[t] \in {"read", "await"}
          PROVE  actreq[t] # response.id
      <4>1. CASE Sending(t)
        BY <1>1, <2>2, <4>1 DEF Places
      <4>2. CASE pc[t] = "read"
        <5>1. ~exiting
          BY <4>2 DEF ThreadInv, ClosingAlone, Closing, Busy, Sending
        <5> QED
          BY <1>1, <2>3, <4>2, <5>1 DEF Undelivered
      <4>3. CASE pc[t] = "await"
        <5>1. Kind(t) \notin UserTypes
          BY <4>3 DEF ThreadInv, Steps, UserTypes
        <5> QED
          BY <1>1, <2>3, <4>3, <5>1 DEF Undelivered, Kind
      <4> QED
        BY <3>3, <4>1, <4>2, <4>3
    <3> QED
      BY <1>0, <1>1, <3>1, <3>2, <3>3, OtherStep
  <2>4. CASE ~Undelivered(response.id)
    <3>1. arrived' = arrived \cup {response.id} /\ UNCHANGED <<active, deliver_response>>
      BY <1>4, <2>4 DEF DecideFate, refVars
    <3>2. response.id \in 1..(next_id - 1)
      BY <2>2 DEF ThreadInv, IdsGiven
    <3>3. OnePlace' /\ Places' = Places
      BY <1>0, <2>1, <2>2, <3>1, <3>2 DEF OnePlace, Places
    <3> QED
      BY <1>0, <1>1, <3>1, <3>3, OtherStep
  <2> QED
    BY <2>3, <2>4
<1>5. ASSUME NEW n \in Ids, NEW closed \in BOOLEAN, InsAnswers(n, closed)
      PROVE  RequestInv'
  <2>1. /\ n \in 1..Len(sent) /\ sent' = RemoveAt(sent, n)
        /\ responses' = Append(responses, [id |-> sent[n], closed |-> closed])
        /\ UNCHANGED <<cpc, response, arrived, active, ins_up, deliver_response>>
    BY <1>5 DEF InsAnswers, RingTypes, refVars, deliverVars, insVars, consumerVars
  <2>2. OnePlace' /\ Places' = Places
    BY <1>0, <2>1, AnswerPlaces
  <2> QED
    BY <1>0, <1>1, <2>1, <2>2, OtherStep
<1>6. CASE mw_xen_release_ins
  <2>1. /\ sent' = << >> /\ responses' = << >>
        /\ UNCHANGED <<cpc, response, arrived, active, deliver_response>>
    BY <1>6 DEF mw_xen_release_ins, refVars, deliverVars, consumerVars
  <2>2. SentIds' = {} /\ AnsweredIds' = {} /\ InRing' = {} /\ Handled' = Handled
    BY <2>1 DEF SentIds, AnsweredIds, InRing, Handled
  <2>3. OnePlace' /\ Places' \subseteq Places
    BY <1>0, <2>1, <2>2 DEF OnePlace, Places
  <2> QED
    BY <1>0, <1>1, <2>1, <2>3, OtherStep
<1>7. CASE ~ReaperDangling /\ ReapRequest
  <2>1. /\ rpc = "walk" /\ curr_ar # Unset /\ ~Handles(curr_ar)
        /\ \A t \in Callers : ~Sends(t, curr_ar)
        /\ UNCHANGED <<sent, responses, ins_up, cpc, response>>
        /\ \/ arrived' = arrived \cup {curr_ar} /\ UNCHANGED <<active, deliver_response>>
           \/ UNCHANGED <<active, arrived, deliver_response>>
           \/ /\ curr_ar \notin deliver_response /\ active' = active \ {curr_ar}
              /\ arrived' = arrived /\ deliver_response' = deliver_response \ {curr_ar}
    BY <1>7 DEF ReapRequest, consumerVars, refVars, deliverVars,
       mwsocket_destroy_active_request
  <2>2. curr_ar \in active /\ curr_ar \in 1..(next_id - 1)
    BY <1>7, <2>1 DEF ReaperDangling, ThreadInv, IdsGiven
  <2>3. /\ sent = << >> /\ responses = << >> /\ SentIds' = {} /\ AnsweredIds' = {}
        /\ InRing' = {}
    BY <1>0, <2>1 DEF OnePlace, WalkInv, SentIds, AnsweredIds, InRing
  <2>4. Handled' \subseteq Handled /\ curr_ar \notin Handled
    BY <2>1 DEF Handled, Handles
  <2>5. OnePlace' /\ Places' \subseteq Places \cup {curr_ar}
    BY <1>0, <2>1, <2>2, <2>3, <2>4 DEF OnePlace, Places
  <2>6. ASSUME NEW t \in Threads
        PROVE  /\ Sending(t) => actreq[t] # curr_ar
               /\ pc[t] \in {"read", "await"} /\ curr_ar \notin deliver_response =>
                    actreq[t] # curr_ar
    BY <1>1, <2>1 DEF Sends, Sending, Callers
  <2>7. \A t \in Threads : Sending(t) => actreq[t] \notin Places'
    BY <1>1, <2>5, <2>6
  <2>8. \A t \in Threads : Sending(t) \/ pc[t] \in {"read", "await"} => actreq[t] \in active'
    BY <1>1, <2>1, <2>6
  <2>9. /\ active' \subseteq active /\ deliver_response' \subseteq deliver_response
        /\ \A id \in active' \cap deliver_response : id \in deliver_response'
    BY <2>1
  <2> QED
    BY <1>0, <2>5, <2>7, <2>8, <2>9, OtherStep
<1>8. CASE InsCrashes \/ Exit \/ BeginWalk \/ ReapSocket \/ UNCHANGED stateVars
  <2>1. UNCHANGED <<sent, responses, ins_up, deliver_response, active, arrived, cpc,
                    response>>
    BY <1>8 DEF InsCrashes, Exit, BeginWalk, ReapSocket, stateVars, refVars,
       deliverVars, ringVars, insVars, consumerVars
  <2>2. OnePlace' /\ Places' \subseteq Places
    BY <1>0, <2>1, PlacesStay DEF OnePlace
  <2> QED
    BY <1>0, <1>1, <2>1, <2>2, OtherStep
<1> QED
  BY <1>2, <1>3, <1>4, <1>5, <1>6, <1>7, <1>8
  DEF Consumes, Answers, mwsocket_reap_dead_sock_instances

Base == FlagTypes /\ RingTypes /\ ThreadInv /\ RequestInv

\* The invariant so far holds in the initial states.
LEMMA BaseInit == Init => Base
<1> SUFFICES ASSUME Init
             PROVE  Base
  OBVIOUS
<1>1. FlagTypes
  BY DEF Init, FlagTypes
<1>2. RingTypes
  <2>1. NoResponse \in [id : Ids \cup {Unset}, closed : BOOLEAN]
    BY DEF NoResponse
  <2> QED
    BY <2>1 DEF Init, RingTypes
<1>3. /\ \A t \in Callers : pc[t] = "idle" /\ actreq[t] = 0
      /\ Threads \subseteq Callers /\ Mitigator \in Callers
  BY DEF Init, Callers, Unset
<1>4. Writers = {}
  BY <1>3 DEF Writers
<1>5. Bounded
  BY <1>4, FS_EmptySet, SocketAssumption DEF Init, Bounded
<1>6. ThreadTypes /\ IdsGiven
  BY DEF Init, ThreadTypes, IdsGiven, PcValues, Unset
<1>7. \A t \in Threads : ~Sending(t) /\ ~Has(t) /\ ~Holds(t) /\ ~Closing(t) /\ ~Busy(t)
  BY <1>3 DEF Sending, Has, Holds, Closing, Busy
<1>8. Steps /\ ClosingAlone
  BY <1>3, <1>7 DEF Steps, ClosingAlone
<1>9. OnePlace
  BY DEF Init, OnePlace, InRing, SentIds, AnsweredIds, Handled
<1>10. (\A t \in Threads : OwnRequest(t)) /\ Apart
  BY <1>3, <1>7 DEF OwnRequest, Apart
<1>11. state_valid /\ request_sem \in {0, 1}
  BY DEF Init
<1> QED
  BY <1>1, <1>2, <1>5, <1>6, <1>8, <1>9, <1>10, <1>11 DEF Base, ThreadInv, RequestInv

\* And every step keeps it, unless the reaper touches a request that somebody
\* else works on.
LEMMA BaseNext ==
    ASSUME Base, WalkInv, Calm, "reaper" \notin race'
    PROVE  Base'
<1>1. FlagTypes' /\ RingTypes' /\ ThreadInv'
  BY FlagsNext, RingTypesNext, ThreadsNext DEF Base
<1>2. ASSUME NEW t \in Threads, Send(t)
      PROVE  RequestInv'
  BY <1>2, SendRequest DEF Base
<1>3. ASSUME NEW t \in Threads,
             \/ \E c \in Calls : BeginWrite(t, c)
             \/ BeginRead(t) \/ BeginAttrib(t) \/ mwsocket_release(t)
             \/ StartWrite(t) \/ EndRead(t) \/ AwaitResponse(t)
             \/ mwsocket_put_sockinst(t)
      PROVE  RequestInv'
  BY <1>3, CallRequest DEF Base
<1>4. ASSUME \/ ~ConsumerDangling /\ Consumes
             \/ Answers \/ InsCrashes \/ mw_xen_release_ins
             \/ ~ReaperDangling /\ mwsocket_reap_dead_sock_instances
             \/ Exit \/ UNCHANGED stateVars
      PROVE  RequestInv'
  BY <1>4, OthersRequest DEF Base
<1>5. RequestInv'
  BY <1>2, <1>3, <1>4 DEF Calm
<1> QED
  BY <1>1, <1>5 DEF Base
-----------------------------------------------------------------------------
(* The references to the socket instance.                                  *)

\* The reference of the file is given up.
Done == \E t \in Threads : pc[t] = "done"

\* What a step does to the references: it creates a request, destroys one that
\* is active, or gives up the reference of the file.
RefEffect ==
    \/ UNCHANGED <<refct, active>> /\ (Done' <=> Done)
    \/ /\ refct' = refct + 1 /\ active' = active \cup {next_id}
       /\ (Done' <=> Done)
    \/ /\ \E id \in active : refct' = refct - 1 /\ active' = active \ {id}
       /\ (Done' <=> Done)
    \/ refct' = refct - 1 /\ active' = active /\ ~Done /\ Done'

\* A thread that is not done, and does not get done.
LEMMA NotDone ==
    ASSUME ThreadInv, NEW t \in Threads, NEW x, Goto(t, x), pc[t] # "done", x # "done"
    PROVE  Done' <=> Done
<1>1. pc' = [pc EXCEPT ![t] = x] /\ t \in Callers /\ pc \in [Callers -> PcValues]
      /\ Threads \subseteq Callers
  BY ThreadFacts DEF Goto, Callers
<1> QED
  BY <1>1 DEF Done

\* Each step has one of these effects.
LEMMA RefEffects ==
    ASSUME ThreadInv, Calm
    PROVE  RefEffect
<1>0. ThreadInv
  OBVIOUS
<1>1. ASSUME NEW t \in Threads, ~Dangling(t), Send(t)
      PROVE  RefEffect
  <2>1. Sending(t) /\ pc[t] # "done" /\ actreq[t] \in active
    <3>1. Sending(t)
      BY <1>1 DEF Send, mw_xen_get_next_request_slot, PrepareRequest, PrepareClose,
         TryCloseLock, mw_xen_release_request, Sending
    <3> QED
      BY <1>1, <3>1 DEF Sending, Dangling
  <2>2. CASE SendFailed(t)
    <3>1. refct' = refct - 1 /\ active' = active \ {actreq[t]}
      BY <2>2 DEF SendFailed, mwsocket_destroy_active_request
    <3>2. Goto(t, "closed") \/ Goto(t, "idle")
      BY <2>2 DEF SendFailed, Return
    <3>3. Done' <=> Done
      BY <1>0, <2>1, <3>2, NotDone
    <3> QED
      BY <2>1, <3>1, <3>3 DEF RefEffect
  <2>3. CASE ~SendFailed(t)
    <3>1. UNCHANGED <<refct, active>>
      BY <1>1, <2>3 DEF Send, mw_xen_get_next_request_slot, PrepareRequest,
         PrepareClose, TryCloseLock, mw_xen_release_request, refVars
    <3>2. \E x \in {"prepare", "push", "trylock", "await", "mustread", "idle"} : Goto(t, x)
      BY <1>1, <2>3 DEF Send, mw_xen_get_next_request_slot, PrepareRequest,
         PrepareClose, TryCloseLock, mw_xen_release_request, EndSend, Return
    <3>3. Done' <=> Done
      BY <1>0, <2>1, <3>2, NotDone
    <3> QED
      BY <3>1, <3>3 DEF RefEffect
  <2> QED
    BY <2>2, <2>3
<1>2. ASSUME NEW t \in Threads, \/ \E c \in Calls : BeginWrite(t, c)
                                \/ BeginRead(t)
      PROVE  RefEffect
  <2>1. UNCHANGED <<refct, active>> /\ pc[t] # "done"
    BY <1>2 DEF BeginWrite, MayCall, BeginRead, refVars
  <2>2. \E x \in {"write", "read", "idle"} : Goto(t, x)
    BY <1>2 DEF BeginWrite, BeginRead, Return
  <2>3. Done' <=> Done
    BY <1>0, <2>1, <2>2, NotDone
  <2> QED
    BY <2>1, <2>3 DEF RefEffect
<1>3. ASSUME NEW t \in Threads, BeginAttrib(t) \/ mwsocket_release(t) \/ StartWrite(t)
      PROVE  RefEffect
  <2>1. /\ pc[t] # "done"
        /\ \/ UNCHANGED <<refct, active>>
           \/ refct' = refct + 1 /\ active' = active \cup {next_id}
    BY <1>3 DEF BeginAttrib, MayCall, mwsocket_release, mwsocket_close_remote,
       StartWrite, mwsocket_create_active_request, refVars
  <2>2. \E x \in {"slot", "closed", "idle"} : Goto(t, x)
    BY <1>3 DEF BeginAttrib, mwsocket_release, mwsocket_close_remote, StartWrite, Return
  <2>3. Done' <=> Done
    BY <1>0, <2>1, <2>2, NotDone
  <2> QED
    BY <2>1, <2>3 DEF RefEffect
<1>4. ASSUME NEW t \in Threads, ~Dangling(t), EndRead(t) \/ AwaitResponse(t)
      PROVE  RefEffect
  <2>1. /\ pc[t] \in {"read", "await"}
        /\ refct' = refct - 1 /\ active' = active \ {actreq[t]}
    BY <1>4 DEF EndRead, AwaitResponse, mwsocket_destroy_active_request
  <2>2. \E x \in {"closed", "idle"} : Goto(t, x)
    BY <1>4 DEF EndRead, AwaitResponse, Return
  <2>3. Done' <=> Done
    BY <1>0, <2>1, <2>2, NotDone
  <2>4. actreq[t] \in active
    BY <1>4, <2>1 DEF Dangling
  <2> QED
    BY <2>1, <2>3, <2>4 DEF RefEffect
<1>5. ASSUME NEW t \in Threads, mwsocket_put_sockinst(t)
      PROVE  RefEffect
  <2>1. /\ pc[t] = "closed" /\ pc' = [pc EXCEPT ![t] = "done"] /\ refct' = refct - 1
        /\ active' = active
    BY <1>5 DEF mwsocket_put_sockinst, Goto
  <2>2. ~Done
    BY <1>0, <2>1 DEF ThreadInv, ClosingAlone, Closing, Busy, Done
  <2>3. Done'
    BY <1>0, <2>1, ThreadFacts DEF Done
  <2> QED
    BY <2>1, <2>2, <2>3 DEF RefEffect
<1>6. CASE ~ConsumerDangling /\ DecideFate
  <2>1. cpc = "decide" /\ (Done' <=> Done)
    BY <1>6 DEF DecideFate, threadVars, Done
  <2>2. response.id \in active
    BY <1>6, <2>1 DEF ConsumerDangling
  <2>3. \/ UNCHANGED <<refct, active>>
        \/ refct' = refct - 1 /\ active' = active \ {response.id}
    BY <1>6 DEF DecideFate, mwsocket_destroy_active_request, refVars
  <2> QED
    BY <2>1, <2>2, <2>3 DEF RefEffect
<1>7. CASE ~ReaperDangling /\ ReapRequest
  <2>1. (Done' <=> Done)
    BY <1>7 DEF ReapRequest, threadVars, Done
  <2>2. curr_ar \in active
    BY <1>7 DEF ReapRequest, ReaperDangling
  <2>3. \/ UNCHANGED <<refct, active>>
        \/ refct' = refct - 1 /\ active' = active \ {curr_ar}
    BY <1>7 DEF ReapRequest, mwsocket_destroy_active_request, refVars
  <2> QED
    BY <2>1, <2>2, <2>3 DEF RefEffect
<1>8. CASE FindRequest \/ mwsocket_postproc_no_context \/ Answers \/ InsCrashes
             \/ mw_xen_release_ins \/ Exit \/ BeginWalk \/ ReapSocket
             \/ UNCHANGED stateVars
  <2>1. UNCHANGED <<refct, active, pc>>
    BY <1>8 DEF FindRequest, mwsocket_postproc_no_context, Answers, InsAnswers,
       InsCrashes, mw_xen_release_ins, Exit, BeginWalk, ReapSocket, stateVars,
       refVars, threadVars
  <2> QED
    BY <2>1 DEF RefEffect, Done
<1> QED
  BY <1>1, <1>2, <1>3, <1>4, <1>5, <1>6, <1>7, <1>8
  DEF Calm, Consumes, mwsocket_reap_dead_sock_instances

\* The active requests are finitely many, and the next one is not among them.
LEMMA ActiveFinite ==
    ASSUME ThreadInv
    PROVE  /\ IsFiniteSet(active) /\ Cardinality(active) \in Nat
           /\ next_id \notin active
<1>1. next_id \in Nat /\ active \subseteq 1..(next_id - 1)
  BY DEF ThreadInv, ThreadTypes, IdsGiven
<1>2. IsFiniteSet(1..(next_id - 1)) /\ active \in SUBSET (1..(next_id - 1))
  BY <1>1, FS_Interval
<1>3. IsFiniteSet(active)
  BY <1>2, FS_Subset
<1> QED
  BY <1>1, <1>3, FS_CardinalityType

\* Hence the count stays that of the active requests and of the file.
LEMMA RefCountedNext ==
    ASSUME ThreadInv, RefCounted, Calm
    PROVE  RefCounted'
<1>1. /\ IsFiniteSet(active) /\ Cardinality(active) \in Nat /\ next_id \notin active
  BY ActiveFinite
<1>2. refct = Cardinality(active) + (IF Done THEN 0 ELSE 1)
  BY DEF RefCounted, Done
<1> SUFFICES refct' = Cardinality(active') + (IF Done' THEN 0 ELSE 1)
  BY DEF RefCounted, Done
<1>3. CASE UNCHANGED <<refct, active>> /\ (Done' <=> Done)
  BY <1>2, <1>3
<1>4. CASE refct' = refct + 1 /\ active' = active \cup {next_id} /\ (Done' <=> Done)
  <2>1. Cardinality(active') = Cardinality(active) + 1
    BY <1>1, <1>4, FS_AddElement
  <2> QED
    BY <1>1, <1>2, <1>4, <2>1
<1>5. ASSUME NEW id \in active, refct' = refct - 1, active' = active \ {id},
             Done' <=> Done
      PROVE  refct' = Cardinality(active') + (IF Done' THEN 0 ELSE 1)
  <2>1. Cardinality(active') = Cardinality(active) - 1
    BY <1>1, <1>5, FS_RemoveElement
  <2> QED
    BY <1>1, <1>2, <1>5, <2>1
<1>6. CASE refct' = refct - 1 /\ active' = active /\ ~Done /\ Done'
  BY <1>1, <1>2, <1>6
<1> QED
  BY <1>3, <1>4, <1>5, <1>6, RefEffects DEF RefEffect

\* A thread works on an active request, and on a socket instance that is not
\* freed.
LEMMA NotFreed ==
    ASSUME Base, RefCounted, NEW t \in Threads
    PROVE  ~Dangling(t)
<1>0. ThreadInv /\ RequestInv
  BY DEF Base
<1>1. Cardinality(active) \in Nat
  BY <1>0, ActiveFinite
<1>2. refct = Cardinality(active) + (IF Done THEN 0 ELSE 1)
  BY DEF RefCounted, Done
<1>3. ASSUME pc[t] \in {"write", "closed"}
      PROVE  ~Freed
  <2>1. ~Done
    BY <1>0, <1>3 DEF ThreadInv, ClosingAlone, Closing, Busy, Done
  <2> QED
    BY <1>1, <1>2, <2>1 DEF Freed
<1>4. pc[t] \in {"slot", "prepare", "trylock", "push", "read", "await"} =>
        actreq[t] \in active
  BY <1>0 DEF RequestInv, OwnRequest, Sending
<1> QED
  BY <1>3, <1>4 DEF Dangling
-----------------------------------------------------------------------------
(* The close lock, and what Close waits for.                               *)

\* The requests that hold the close lock as readers.
Locked ==
    {id \in active \ arrived :
        /\ type[id] \in CLOSE_WAITS
        /\ \A t \in Threads : pc[t] \in {"slot", "prepare"} => actreq[t] # id
        /\ ~(cpc = "decide" /\ response.id = id)}

\* Each of them is counted.
LocksCounted == close_readers \in Int /\ close_readers >= Cardinality(Locked)

\* A user's request that is in the ring is active.
UserActive == \A id \in InRing : type[id] \in UserTypes => id \in active

\* A request that close() has to wait for is the blocking one when it is pushed
\* on the ring.
BlockPushed ==
    /\ close_blockid # Unset => type[close_blockid] \in CLOSE_WAITS
    /\ \A t \in Threads :
         pc[t] = "push" /\ Kind(t) \in CLOSE_WAITS => close_blockid = actreq[t]

\* The blocking request is behind every request in the ring that close() has
\* to wait for, or about to be.
BlockIsLast ==
    ~forced => \A n \in 1..Len(sent) : type[sent[n]] \in CLOSE_WAITS =>
        \/ \E m \in n..Len(sent) : sent[m] = close_blockid
        \/ \E t \in Threads : pc[t] = "push" /\ actreq[t] = close_blockid

\* When Close is pushed on the ring, there is no such request.
CloseUnblocked ==
    ~forced => \A t \in Threads : pc[t] = "push" /\ Kind(t) = "Close" =>
        \A n \in 1..Len(sent) : type[sent[n]] \notin CLOSE_WAITS

CloseOrder ==
    /\ UserActive /\ BlockPushed /\ BlockIsLast /\ CloseUnblocked
    /\ CloseWaitsForRequests

\* The type of a request that was created does not change.
LEMMA TypesFixed ==
    ASSUME Base, Calm
    PROVE  \A id \in 1..(next_id - 1) : type'[id] = type[id]
<1>1. /\ type \in [Ids -> RequestTypes \cup {"none"}] /\ 1..(next_id - 1) \subseteq Ids
      /\ next_id \in Nat
  BY IdsInRange DEF Base, ThreadInv, ThreadTypes
<1>2. type' = type \/ \E k : type' = [type EXCEPT ![next_id] = k]
  <2> USE DEF refVars
  <2>1. ASSUME NEW t \in Threads, Send(t)
        PROVE  type' = type
    BY <2>1 DEF Send, mw_xen_get_next_request_slot, PrepareRequest, PrepareClose,
       TryCloseLock, mw_xen_release_request, SendFailed, mwsocket_destroy_active_request
  <2>2. ASSUME NEW t \in Threads, BeginAttrib(t) \/ mwsocket_release(t) \/ StartWrite(t)
        PROVE  type' = type \/ \E k : type' = [type EXCEPT ![next_id] = k]
    BY <2>2 DEF BeginAttrib, mwsocket_release, mwsocket_close_remote, StartWrite,
       mwsocket_create_active_request
  <2>3. ASSUME NEW t \in Threads, \/ \E c \in Calls : BeginWrite(t, c)
                                  \/ BeginRead(t) \/ EndRead(t) \/ AwaitResponse(t)
                                  \/ mwsocket_put_sockinst(t)
        PROVE  type' = type
    BY <2>3 DEF BeginWrite, BeginRead, EndRead, AwaitResponse, mwsocket_put_sockinst,
       mwsocket_destroy_active_request
  <2>4. ASSUME Consumes \/ Answers \/ InsCrashes
        PROVE  type' = type
    BY <2>4 DEF Consumes, FindRequest, mwsocket_postproc_no_context, DecideFate,
       mwsocket_destroy_active_request, Answers, InsAnswers, InsCrashes
  <2>5. ASSUME mw_xen_release_ins \/ mwsocket_reap_dead_sock_instances
                 \/ Exit \/ UNCHANGED stateVars
        PROVE  type' = type
    BY <2>5 DEF mw_xen_release_ins, mwsocket_reap_dead_sock_instances, BeginWalk,
       ReapRequest, ReapSocket, mwsocket_destroy_active_request, Exit, stateVars
  <2> QED
    BY <2>1, <2>2, <2>3, <2>4, <2>5 DEF Calm
<1> QED
  BY <1>1, <1>2

\* What a step that is not one of mwsocket_send_request does to the requests.
LEMMA CallFrame ==
    ASSUME Base, NEW t \in Threads,
           \/ \E c \in Calls : BeginWrite(t, c)
           \/ BeginRead(t) \/ BeginAttrib(t) \/ mwsocket_release(t)
           \/ StartWrite(t) \/ EndRead(t) \/ AwaitResponse(t)
           \/ mwsocket_put_sockinst(t)
    PROVE  /\ MovesOnly(t) /\ ~Sending(t) /\ pc'[t] # "push"
           /\ UNCHANGED <<sent, responses, forced, close_readers, cpc, response>>
           /\ \/ UNCHANGED <<active, arrived, close_blockid>>
              \/ /\ active' = active \cup {next_id} /\ pc'[t] = "slot"
                 /\ actreq'[t] = next_id /\ UNCHANGED <<arrived, close_blockid>>
              \/ /\ pc[t] \in {"read", "await"}
                 /\ pc[t] = "read" => actreq[t] \in arrived
                 /\ active' = active \ {actreq[t]}
                 /\ arrived' = arrived \ {actreq[t]}
                 /\ close_blockid' = ClearCloseBlock(actreq[t])
<1>0. ThreadInv /\ FlagTypes
  BY DEF Base
<1>1. ~Sending(t) /\ UNCHANGED <<sent, responses, forced, close_readers, cpc, response>>
  <2>1. CASE BeginRead(t) \/ BeginAttrib(t) \/ mwsocket_release(t) \/ StartWrite(t)
    BY <2>1 DEF BeginRead, BeginAttrib, MayCall, mwsocket_release,
       StartWrite, ringVars, consumerVars, closeVars, Sending
  <2>2. CASE \/ \E c \in Calls : BeginWrite(t, c)
             \/ EndRead(t) \/ AwaitResponse(t) \/ mwsocket_put_sockinst(t)
    BY <2>2 DEF BeginWrite, MayCall, EndRead, AwaitResponse, mwsocket_put_sockinst,
       ringVars, consumerVars, closeVars, Sending
  <2> QED
    BY <2>1, <2>2
<1>2. /\ \E x \in {"idle", "write", "slot", "read", "closed", "done"} : Goto(t, x)
      /\ actreq' = actreq \/ \E a : actreq' = [actreq EXCEPT ![t] = a]
      /\ call' = call \/ \E c : call' = [call EXCEPT ![t] = c]
      /\ own' = own \/ \E o : own' = [own EXCEPT ![t] = o]
      /\ type' = type \/ \E k : type' = [type EXCEPT ![next_id] = k]
  <2> USE DEF refVars
  <2>1. ASSUME NEW x, Return(t, x)
        PROVE  /\ actreq' = [actreq EXCEPT ![t] = Unset]
               /\ call' = [call EXCEPT ![t] = NoCall]
               /\ own' = [own EXCEPT ![t] = Unset] /\ Goto(t, x)
    BY <2>1 DEF Return
  <2>2. ASSUME NEW k, mwsocket_create_active_request(t, k)
        PROVE  /\ actreq' = [actreq EXCEPT ![t] = next_id]
               /\ type' = [type EXCEPT ![next_id] = k]
    BY <2>2 DEF mwsocket_create_active_request
  <2>3. CASE BeginRead(t)
    BY <2>1, <2>3 DEF BeginRead
  <2>4. CASE BeginAttrib(t)
    BY <2>2, <2>4 DEF BeginAttrib
  <2>5. CASE mwsocket_release(t)
    BY <2>2, <2>5 DEF mwsocket_release, mwsocket_close_remote
  <2>6. CASE StartWrite(t)
    BY <2>1, <2>2, <2>6 DEF StartWrite
  <2>7. CASE \E c \in Calls : BeginWrite(t, c)
    BY <2>7 DEF BeginWrite
  <2>8. CASE EndRead(t)
    <3>1. Return(t, "idle") /\ type' = type
      BY <2>8 DEF EndRead, mwsocket_destroy_active_request
    <3> QED
      BY <2>1, <3>1
  <2>9. CASE AwaitResponse(t)
    <3>1. (Return(t, "idle") \/ Return(t, "closed")) /\ type' = type
      BY <2>9 DEF AwaitResponse, mwsocket_destroy_active_request
    <3> QED
      BY <2>1, <3>1
  <2>10. CASE mwsocket_put_sockinst(t)
    BY <2>10 DEF mwsocket_put_sockinst
  <2> QED
    BY <2>3, <2>4, <2>5, <2>6, <2>7, <2>8, <2>9, <2>10
<1>3. MovesOnly(t) /\ pc'[t] # "push"
  BY <1>0, <1>2, MovesOneThread, ThreadFacts DEF Goto
<1>4. \/ UNCHANGED <<active, arrived, close_blockid>>
      \/ /\ mwsocket_create_active_request(t, call[t].type)
            \/ mwsocket_create_active_request(t, "Attrib")
            \/ mwsocket_create_active_request(t, "Close")
         /\ Goto(t, "slot") /\ UNCHANGED <<arrived, close_blockid>>
      \/ /\ pc[t] \in {"read", "await"}
         /\ pc[t] = "read" => actreq[t] \in arrived
         /\ mwsocket_destroy_active_request(actreq[t])
         /\ arrived' = arrived \ {actreq[t]}
  <2> USE DEF refVars, closeVars, deliverVars
  <2>1. CASE BeginRead(t)
    BY <2>1 DEF BeginRead
  <2>2. CASE BeginAttrib(t)
    BY <2>2 DEF BeginAttrib
  <2>3. CASE mwsocket_release(t)
    BY <2>3 DEF mwsocket_release, mwsocket_close_remote
  <2>4. CASE StartWrite(t)
    BY <2>4 DEF StartWrite
  <2>5. CASE \E c \in Calls : BeginWrite(t, c)
    BY <2>5 DEF BeginWrite
  <2>6. CASE EndRead(t)
    BY <2>6 DEF EndRead
  <2>7. CASE AwaitResponse(t)
    BY <2>7 DEF AwaitResponse
  <2>8. CASE mwsocket_put_sockinst(t)
    BY <2>8 DEF mwsocket_put_sockinst
  <2> QED
    BY <2>1, <2>2, <2>3, <2>4, <2>5, <2>6, <2>7, <2>8
<1> QED
  BY <1>0, <1>1, <1>3, <1>4, ThreadFacts
  DEF mwsocket_create_active_request, mwsocket_destroy_active_request, Goto

\* The requests that hold the close lock are finitely many.
LEMMA LockedFinite ==
    ASSUME ThreadInv
    PROVE  IsFiniteSet(Locked) /\ Cardinality(Locked) \in Nat
<1>1. IsFiniteSet(active) /\ Locked \in SUBSET active
  BY ActiveFinite DEF Locked
<1>2. IsFiniteSet(Locked)
  BY <1>1, FS_Subset
<1> QED
  BY <1>2, FS_CardinalityType

\* A step that lets no new request hold the close lock.
LEMMA LockedStep ==
    ASSUME Base, LocksCounted, close_readers' = close_readers,
           \A id \in 1..(next_id - 1) : type'[id] = type[id],
           \A id \in active' \ arrived' :
             \/ id \in active \ arrived
             \/ \E u \in Threads : pc'[u] = "slot" /\ actreq'[u] = id,
           \A u \in Threads : pc[u] \in {"slot", "prepare"} =>
             \/ pc'[u] \in {"slot", "prepare"} /\ actreq'[u] = actreq[u]
             \/ actreq[u] \notin active'
             \/ type[actreq[u]] \notin CLOSE_WAITS,
           cpc = "decide" => \/ response.id \notin active' \ arrived'
                             \/ cpc' = "decide" /\ response' = response
    PROVE  LocksCounted'
<1>1. active \subseteq 1..(next_id - 1)
  BY DEF Base, ThreadInv, IdsGiven
<1>2. Locked' \subseteq Locked
  <2> SUFFICES ASSUME NEW id \in Locked'
               PROVE  id \in Locked
    OBVIOUS
  <2>1. /\ id \in active' \ arrived' /\ type'[id] \in CLOSE_WAITS
        /\ \A u \in Threads : pc'[u] \in {"slot", "prepare"} => actreq'[u] # id
        /\ ~(cpc' = "decide" /\ response'.id = id)
    BY DEF Locked
  <2>2. id \in active \ arrived
    BY <2>1
  <2>3. type[id] \in CLOSE_WAITS
    BY <1>1, <2>1, <2>2
  <2>4. \A u \in Threads : pc[u] \in {"slot", "prepare"} => actreq[u] # id
    BY <2>1, <2>3
  <2>5. ~(cpc = "decide" /\ response.id = id)
    BY <2>1
  <2> QED
    BY <2>2, <2>3, <2>4, <2>5 DEF Locked
<1>3. IsFiniteSet(Locked) /\ Cardinality(Locked) \in Nat /\ Locked' \in SUBSET Locked
  BY <1>2, LockedFinite DEF Base
<1>4. Cardinality(Locked') <= Cardinality(Locked) /\ Cardinality(Locked') \in Nat
  BY <1>3, FS_Subset, FS_CardinalityType
<1> QED
  BY <1>3, <1>4 DEF LocksCounted

\* A step that sends nothing, where nobody gets to the point of sending, and
\* that forgets only a blocking request which is not in the ring.
LEMMA OrderStep ==
    ASSUME Base, CloseOrder, sent' = sent, InRing' \subseteq InRing, forced' = forced,
           \A id \in 1..(next_id - 1) : type'[id] = type[id],
           \A id \in InRing :
             type[id] \in UserTypes /\ id \in active => id \in active',
           \A u \in Threads : pc'[u] = "push" =>
             pc[u] = "push" /\ actreq'[u] = actreq[u],
           \A u \in Threads : pc[u] = "push" =>
             pc'[u] = "push" /\ actreq'[u] = actreq[u],
           \/ close_blockid' = close_blockid
           \/ /\ close_blockid' = Unset /\ close_blockid \notin SentIds
              /\ \A u \in Threads : pc[u] = "push" => actreq[u] # close_blockid
    PROVE  CloseOrder'
<1>1. InRing \subseteq 1..(next_id - 1) /\ \A n \in 1..Len(sent) : sent[n] \in InRing
  BY DEF Base, RequestInv, OnePlace, InRing, SentIds
<1>2. /\ \A n \in 1..Len(sent) : type'[sent[n]] = type[sent[n]]
      /\ \A id \in InRing : type'[id] = type[id]
  BY <1>1
<1>3. ASSUME NEW u \in Threads, pc[u] = "push"
      PROVE  type'[actreq[u]] = type[actreq[u]] /\ Kind(u)' = Kind(u)
  <2>1. actreq[u] \in 1..(next_id - 1) /\ actreq'[u] = actreq[u]
    BY <1>3, SenderFacts DEF Base, Sending
  <2> QED
    BY <2>1 DEF Kind
<1>4. UserActive'
  BY <1>2 DEF CloseOrder, UserActive
<1>5. CloseUnblocked'
  BY <1>2, <1>3 DEF CloseOrder, CloseUnblocked
<1>6. CloseWaitsForRequests'
  <2>1. DOMAIN sent = 1..Len(sent) /\ Len(sent) \in Nat
    BY LenProperties DEF Base, RingTypes
  <2>2. \A n \in DOMAIN sent : \A m \in 1..(n - 1) : m \in 1..Len(sent)
    BY <2>1
  <2> QED
    BY <1>2, <2>1, <2>2 DEF CloseOrder, CloseWaitsForRequests
<1>7. CASE close_blockid' = close_blockid
  <2>1. close_blockid # Unset => type'[close_blockid] = type[close_blockid]
    <3>1. close_blockid \in 0..(next_id - 1)
      BY DEF Base, ThreadInv, IdsGiven
    <3>2. close_blockid # Unset => close_blockid \in 1..(next_id - 1)
      BY <3>1 DEF Unset
    <3> QED
      BY <3>2
  <2>2. BlockPushed'
    BY <1>3, <1>7, <2>1 DEF CloseOrder, BlockPushed
  <2>3. BlockIsLast'
    BY <1>2, <1>7 DEF CloseOrder, BlockIsLast
  <2> QED
    BY <1>4, <1>5, <1>6, <2>2, <2>3 DEF CloseOrder
<1>8. CASE /\ close_blockid' = Unset /\ close_blockid \notin SentIds
           /\ \A u \in Threads : pc[u] = "push" => actreq[u] # close_blockid
  <2>1. BlockPushed'
    BY <1>3, <1>8 DEF CloseOrder, BlockPushed
  <2>2. \A n \in 1..Len(sent) : \A m \in n..Len(sent) : sent[m] # close_blockid
    <3>1. Len(sent) \in Nat
      BY LenProperties DEF Base, RingTypes
    <3>2. \A n \in 1..Len(sent) : \A m \in n..Len(sent) : m \in 1..Len(sent)
      BY <3>1
    <3> QED
      BY <1>8, <3>2 DEF SentIds
  <2>3. BlockIsLast'
    BY <1>2, <1>8, <2>2 DEF CloseOrder, BlockIsLast
  <2> QED
    BY <1>4, <1>5, <1>6, <2>1, <2>3 DEF CloseOrder
<1> QED
  BY <1>7, <1>8

\* A step after which the ring is empty.
LEMMA EmptyOrder ==
    ASSUME sent' = << >>, responses' = << >>, BlockPushed'
    PROVE  CloseOrder'
<1>1. InRing' = {}
  BY DEF InRing, SentIds, AnsweredIds
<1>2. 1..Len(sent') = {} /\ DOMAIN sent' = {}
  OBVIOUS
<1> QED
  BY <1>1, <1>2
  DEF CloseOrder, UserActive, BlockIsLast, CloseUnblocked, CloseWaitsForRequests

CloseInv == LocksCounted /\ CloseOrder

\* The steps of a call outside mwsocket_send_request.
LEMMA CallClose ==
    ASSUME Base, CloseInv, NEW t \in Threads,
           \A id \in 1..(next_id - 1) : type'[id] = type[id],
           \/ \E c \in Calls : BeginWrite(t, c)
           \/ BeginRead(t) \/ BeginAttrib(t) \/ mwsocket_release(t)
           \/ StartWrite(t) \/ EndRead(t) \/ AwaitResponse(t)
           \/ mwsocket_put_sockinst(t)
    PROVE  CloseInv'
<1>1. /\ MovesOnly(t) /\ ~Sending(t) /\ pc'[t] # "push"
      /\ UNCHANGED <<sent, responses, forced, close_readers, cpc, response>>
  BY CallFrame
<1>2. /\ ThreadInv /\ RequestInv /\ OnePlace /\ OwnRequest(t) /\ Apart
  BY DEF Base, RequestInv
<1>3. /\ \A u \in Threads \ {t} : pc'[u] = pc[u] /\ actreq'[u] = actreq[u]
      /\ pc[t] \notin {"slot", "prepare", "trylock", "push"}
  BY <1>1 DEF MovesOnly, Sending
<1>4. InRing' = InRing
  BY <1>1 DEF InRing, SentIds, AnsweredIds
<1>5. CASE UNCHANGED <<active, arrived, close_blockid>>
  <2>1. LocksCounted'
    BY <1>1, <1>3, <1>5, LockedStep DEF CloseInv
  <2>2. CloseOrder'
    BY <1>1, <1>3, <1>4, <1>5, OrderStep DEF CloseInv
  <2> QED
    BY <2>1, <2>2 DEF CloseInv
<1>6. CASE /\ active' = active \cup {next_id} /\ pc'[t] = "slot"
           /\ actreq'[t] = next_id /\ UNCHANGED <<arrived, close_blockid>>
  <2>1. LocksCounted'
    BY <1>1, <1>3, <1>6, LockedStep DEF CloseInv
  <2>2. CloseOrder'
    BY <1>1, <1>3, <1>4, <1>6, OrderStep DEF CloseInv
  <2> QED
    BY <2>1, <2>2 DEF CloseInv
<1>7. CASE /\ pc[t] \in {"read", "await"}
           /\ pc[t] = "read" => actreq[t] \in arrived
           /\ active' = active \ {actreq[t]}
           /\ arrived' = arrived \ {actreq[t]}
           /\ close_blockid' = ClearCloseBlock(actreq[t])
  <2>1. LocksCounted'
    BY <1>1, <1>3, <1>7, LockedStep DEF CloseInv
  <2>2. ASSUME NEW id \in InRing, type[id] \in UserTypes
        PROVE  id # actreq[t]
    <3>1. CASE pc[t] = "read"
      BY <1>2, <1>7, <3>1 DEF OnePlace
    <3>2. CASE pc[t] = "await"
      BY <1>2, <2>2, <3>2 DEF ThreadInv, Steps, Kind, UserTypes
    <3> QED
      BY <1>7, <3>1, <3>2
  <2>3. \/ close_blockid' = close_blockid
        \/ /\ close_blockid' = Unset /\ close_blockid \notin SentIds
           /\ \A u \in Threads : pc[u] = "push" => actreq[u] # close_blockid
    <3>1. CASE close_blockid # actreq[t]
      BY <1>7, <3>1 DEF ClearCloseBlock
    <3>2. CASE close_blockid = actreq[t] /\ pc[t] = "read"
      <4>1. close_blockid' = Unset /\ close_blockid \notin SentIds
        BY <1>2, <1>7, <3>2 DEF ClearCloseBlock, OnePlace, InRing
      <4>2. \A u \in Threads : pc[u] = "push" => actreq[u] # close_blockid
        BY <1>2, <3>2 DEF Apart, Has, Sending
      <4> QED
        BY <4>1, <4>2
    <3>3. CASE close_blockid = actreq[t] /\ pc[t] = "await"
      <4>1. actreq[t] # Unset /\ type[actreq[t]] \in {"Attrib", "Close"}
        BY <1>2, <3>3 DEF ThreadInv, Steps, Kind
      <4>2. type[close_blockid] \in CLOSE_WAITS
        BY <3>3, <4>1 DEF CloseInv, CloseOrder, BlockPushed
      <4> QED
        BY <3>3, <4>1, <4>2 DEF CLOSE_WAITS
    <3> QED
      BY <1>7, <3>1, <3>2, <3>3
  <2>4. CloseOrder'
    BY <1>1, <1>3, <1>4, <1>7, <2>2, <2>3, OrderStep DEF CloseInv
  <2> QED
    BY <2>1, <2>4 DEF CloseInv
<1> QED
  BY <1>5, <1>6, <1>7, CallFrame

\* A thread that holds the ring's lock is the only one that prepares or pushes
\* a request.
LEMMA LockAlone ==
    ASSUME Base, NEW t \in Threads, pc[t] \in {"prepare", "trylock", "push"}
    PROVE  \A u \in Threads \ {t} : pc[u] \notin {"prepare", "trylock", "push"}
  BY DEF Base, ThreadInv, Steps

\* What a step of mwsocket_send_request moves.
LEMMA SendFrame ==
    ASSUME Base, NEW t \in Threads, Send(t)
    PROVE  /\ Sending(t)
           /\ \A u \in Threads \ {t} : pc'[u] = pc[u] /\ actreq'[u] = actreq[u]
           /\ UNCHANGED <<arrived, responses, cpc, response, ins_up>>
<1>1. Sending(t)
  BY DEF Send, mw_xen_get_next_request_slot, PrepareRequest, PrepareClose,
     TryCloseLock, mw_xen_release_request, Sending
<1>2. UNCHANGED <<arrived, responses, cpc, response, ins_up>>
  BY DEF Send, mw_xen_get_next_request_slot, PrepareRequest, PrepareClose,
     TryCloseLock, mw_xen_release_request, deliverVars, ringVars, insVars, consumerVars
<1>3. /\ \E x \in PcValues : pc' = [pc EXCEPT ![t] = x]
      /\ actreq' = actreq \/ \E a : actreq' = [actreq EXCEPT ![t] = a]
  <2> USE DEF Goto, Return, PcValues
  <2>1. CASE mw_xen_get_next_request_slot(t)
    BY <2>1, SMTT(30) DEF mw_xen_get_next_request_slot, SendFailed
  <2>2. CASE PrepareRequest(t)
    BY <2>2 DEF PrepareRequest
  <2>3. CASE PrepareClose(t)
    BY <2>3 DEF PrepareClose
  <2>4. CASE TryCloseLock(t)
    BY <2>4 DEF TryCloseLock
  <2>5. CASE mw_xen_release_request(t)
    BY <2>5 DEF mw_xen_release_request, SendFailed, EndSend
  <2> QED
    BY <2>1, <2>2, <2>3, <2>4, <2>5 DEF Send
<1>4. \A u \in Threads \ {t} : pc'[u] = pc[u] /\ actreq'[u] = actreq[u]
  <2>1. /\ pc \in [Callers -> PcValues] /\ actreq \in [Callers -> 0..(next_id - 1)]
        /\ Threads \subseteq Callers
    BY ThreadFacts DEF Base, Callers
  <2> QED
    BY <1>3, <2>1
<1> QED
  BY <1>1, <1>2, <1>4

\* A send that fails: no request is in the ring, or this one never was.
LEMMA SendFailedClose ==
    ASSUME Base, CloseInv, NEW t \in Threads, Send(t), SendFailed(t),
           \A id \in 1..(next_id - 1) : type'[id] = type[id],
           UNCHANGED <<sent, forced, close_readers>>, pc[t] = "slot" \/ ~ins_up
    PROVE  CloseInv'
<1>0. ThreadInv /\ FlagTypes /\ RequestInv /\ OnePlace /\ Apart
  BY DEF Base, RequestInv
<1>1. /\ Sending(t) /\ \A u \in Threads \ {t} : pc'[u] = pc[u] /\ actreq'[u] = actreq[u]
      /\ UNCHANGED <<arrived, responses, cpc, response, ins_up>>
  BY SendFrame
<1>2. /\ active' = active \ {actreq[t]} /\ close_blockid' = ClearCloseBlock(actreq[t])
      /\ pc'[t] \in {"idle", "closed"}
  BY <1>0, ThreadFacts
  DEF SendFailed, mwsocket_destroy_active_request, Return, Goto
<1>3. LocksCounted'
  BY <1>1, <1>2, LockedStep DEF CloseInv
<1>4. actreq[t] \notin InRing /\ Has(t)
  BY <1>0, <1>1, SenderFacts DEF Places
<1>5. CASE pc[t] = "slot"
  <2>1. InRing' = InRing
    BY <1>1 DEF InRing, SentIds, AnsweredIds
  <2>2. \A u \in Threads : pc[u] = "push" => actreq[u] # actreq[t]
    BY <1>0, <1>4, <1>5 DEF Apart, Has, Sending
  <2>3. \/ close_blockid' = close_blockid
        \/ /\ close_blockid' = Unset /\ close_blockid \notin SentIds
           /\ \A u \in Threads : pc[u] = "push" => actreq[u] # close_blockid
    BY <1>2, <1>4, <2>2 DEF ClearCloseBlock, InRing
  <2>4. /\ \A u \in Threads : pc'[u] = "push" => pc[u] = "push" /\ actreq'[u] = actreq[u]
        /\ \A u \in Threads : pc[u] = "push" => pc'[u] = "push" /\ actreq'[u] = actreq[u]
    BY <1>1, <1>2, <1>5
  <2>5. CloseOrder'
    BY <1>1, <1>2, <1>4, <2>1, <2>3, <2>4, OrderStep DEF CloseInv
  <2> QED
    BY <1>3, <2>5 DEF CloseInv
<1>6. CASE ~ins_up
  <2>1. sent' = << >> /\ responses' = << >>
    BY <1>0, <1>1, <1>6 DEF OnePlace
  <2>2. close_blockid' # Unset => type'[close_blockid'] \in CLOSE_WAITS
    <3>1. close_blockid' # Unset => close_blockid' = close_blockid
      BY <1>2 DEF ClearCloseBlock
    <3>2. close_blockid # Unset => close_blockid \in 1..(next_id - 1)
      BY <1>0 DEF ThreadInv, IdsGiven, ThreadTypes, Unset
    <3> QED
      BY <3>1, <3>2 DEF CloseInv, CloseOrder, BlockPushed
  <2>3. ASSUME NEW u \in Threads, pc'[u] = "push", Kind(u)' \in CLOSE_WAITS
        PROVE  close_blockid' = actreq'[u]
    <3>1. u # t /\ pc[u] = "push" /\ actreq'[u] = actreq[u]
      BY <1>1, <1>2, <2>3
    <3>2. actreq[u] # actreq[t] /\ actreq[u] \in 1..(next_id - 1)
      BY <1>0, <1>4, <3>1, SenderFacts DEF Apart, Has, Sending
    <3>3. Kind(u) \in CLOSE_WAITS
      BY <2>3, <3>1, <3>2 DEF Kind
    <3> QED
      BY <1>2, <3>1, <3>2, <3>3 DEF CloseInv, CloseOrder, BlockPushed, ClearCloseBlock
  <2>4. BlockPushed'
    BY <2>2, <2>3 DEF BlockPushed
  <2> QED
    BY <1>3, <2>1, <2>4, EmptyOrder DEF CloseInv
<1> QED
  BY <1>5, <1>6

\* With the close lock free of readers, or no blocking request known and nobody
\* about to push one, the ring holds no request that close() has to wait for.
LEMMA NothingToWaitFor ==
    ASSUME Base, CloseInv, NEW t \in Threads, pc[t] \in {"prepare", "trylock"},
           ~forced, close_readers = 0 \/ close_blockid = Unset,
           NEW n \in 1..Len(sent)
    PROVE  type[sent[n]] \notin CLOSE_WAITS
<1>0. ThreadInv /\ FlagTypes /\ RequestInv /\ OnePlace
  BY DEF Base, RequestInv
<1> SUFFICES ASSUME type[sent[n]] \in CLOSE_WAITS
             PROVE  FALSE
  OBVIOUS
<1>1. sent[n] \in InRing
  BY DEF InRing, SentIds
<1>2. CASE close_readers = 0
  <2>1. sent[n] \in active
    BY <1>1 DEF CloseInv, CloseOrder, UserActive, CLOSE_WAITS, UserTypes
  <2>2. sent[n] \notin arrived /\ ~(cpc = "decide" /\ response.id = sent[n])
    BY <1>0, <1>1, <2>1 DEF OnePlace, Handled
  <2>3. \A u \in Threads : pc[u] \in {"slot", "prepare"} => actreq[u] # sent[n]
    BY <1>0, <1>1 DEF RequestInv, OwnRequest, Sending, Places
  <2>4. sent[n] \in Locked
    BY <2>1, <2>2, <2>3 DEF Locked
  <2>5. IsFiniteSet(Locked) /\ Cardinality(Locked) \in Nat
    BY <1>0, LockedFinite
  <2>6. Cardinality(Locked) # 0
    BY <2>4, <2>5, FS_EmptySet
  <2> QED
    BY <1>2, <2>5, <2>6 DEF CloseInv, LocksCounted
<1>3. CASE close_blockid = Unset
  <2>1. \A u \in Threads : pc[u] # "push"
    BY LockAlone
  <2>2. PICK m \in n..Len(sent) : sent[m] = Unset
    BY <1>3, <2>1 DEF CloseInv, CloseOrder, BlockIsLast
  <2>3. m \in 1..Len(sent)
    BY LenProperties DEF Base, RingTypes
  <2>4. Unset \in InRing
    BY <2>2, <2>3 DEF InRing, SentIds
  <2> QED
    BY <1>0, <2>4 DEF OnePlace, Unset
<1> QED
  BY <1>2, <1>3

\* Close gets to the point of sending.
LEMMA PrepareCloseOrder ==
    ASSUME Base, CloseInv, NEW t \in Threads, pc[t] \in {"prepare", "trylock"},
           Kind(t) = "Close",
           \A u \in Threads \ {t} : pc'[u] = pc[u] /\ actreq'[u] = actreq[u],
           pc'[t] = "push", actreq'[t] = actreq[t],
           UNCHANGED <<sent, responses, active, type>>,
           close_blockid' = Unset,
           forced' \/ (forced' = forced
                         /\ (close_readers = 0 \/ close_blockid = Unset))
    PROVE  CloseOrder'
<1>1. \A u \in Threads \ {t} : pc'[u] # "push"
  BY LockAlone
<1>2. Kind(t)' = "Close" /\ InRing' = InRing
  BY DEF Kind, InRing, SentIds, AnsweredIds
<1>3. UserActive'
  BY <1>2 DEF CloseInv, CloseOrder, UserActive
<1>4. BlockPushed'
  BY <1>1, <1>2 DEF BlockPushed, CLOSE_WAITS
<1>5. ~forced' => \A n \in 1..Len(sent') : type'[sent'[n]] \notin CLOSE_WAITS
  BY NothingToWaitFor
<1>6. BlockIsLast' /\ CloseUnblocked'
  BY <1>5 DEF BlockIsLast, CloseUnblocked
<1>7. CloseWaitsForRequests'
  <2>1. DOMAIN sent = 1..Len(sent) /\ Len(sent) \in Nat
    BY LenProperties DEF Base, RingTypes
  <2>2. \A n \in DOMAIN sent : \A m \in 1..(n - 1) : m \in 1..Len(sent)
    BY <2>1
  <2> QED
    BY <1>5, <2>1, <2>2 DEF CloseWaitsForRequests
<1> QED
  BY <1>3, <1>4, <1>6, <1>7 DEF CloseOrder

\* A request gets to the point of sending.
LEMMA PrepareRequestClose ==
    ASSUME Base, CloseInv, NEW t \in Threads, PrepareRequest(t)
    PROVE  CloseInv'
<1>0. ThreadInv /\ FlagTypes /\ RequestInv
  BY DEF Base, RequestInv
<1>1. /\ pc[t] = "prepare" /\ Kind(t) # "Close" /\ pc' = [pc EXCEPT ![t] = "push"]
      /\ UNCHANGED <<sent, responses, active, type, actreq, forced, arrived, cpc,
                     response>>
  BY DEF PrepareRequest, Goto, refVars, ringVars, consumerVars
<1>2. /\ \A u \in Threads \ {t} : pc'[u] = pc[u] /\ pc'[u] # "push"
      /\ pc'[t] = "push" /\ Kind(t)' = Kind(t) /\ InRing' = InRing
      /\ \A u \in Threads : pc[u] # "push"
  BY <1>0, <1>1, LockAlone, ThreadFacts
  DEF Kind, InRing, SentIds, AnsweredIds, Callers
<1>3. Sending(t) /\ actreq[t] \in 1..(next_id - 1)
  BY <1>0, <1>1, SenderFacts DEF Sending
<1>4. UserActive' /\ CloseUnblocked'
  BY <1>1, <1>2 DEF CloseInv, CloseOrder, UserActive, CloseUnblocked
<1>5. CloseWaitsForRequests'
  BY <1>1 DEF CloseInv, CloseOrder, CloseWaitsForRequests
<1>6. CASE Kind(t) \in CLOSE_WAITS
  <2>1. close_readers' = close_readers + 1 /\ close_blockid' = actreq[t]
    BY <1>6 DEF PrepareRequest
  <2>2. BlockPushed' /\ BlockIsLast'
    BY <1>1, <1>2, <1>6, <2>1 DEF BlockPushed, BlockIsLast, Kind
  <2>3. Locked' \subseteq Locked \cup {actreq[t]}
    <3>1. ASSUME NEW id \in Locked', id # actreq[t]
          PROVE  id \in Locked
      <4>1. /\ id \in active \ arrived /\ type[id] \in CLOSE_WAITS
            /\ ~(cpc = "decide" /\ response.id = id)
            /\ \A u \in Threads : pc'[u] \in {"slot", "prepare"} => actreq[u] # id
        BY <1>1, <3>1 DEF Locked
      <4>2. \A u \in Threads : pc[u] \in {"slot", "prepare"} => actreq[u] # id
        BY <1>2, <3>1, <4>1
      <4> QED
        BY <4>1, <4>2 DEF Locked
    <3> QED
      BY <3>1
  <2>4. /\ IsFiniteSet(Locked) /\ Cardinality(Locked) \in Nat
    BY <1>0, LockedFinite
  <2>5. /\ IsFiniteSet(Locked \cup {actreq[t]})
        /\ Cardinality(Locked \cup {actreq[t]}) <= Cardinality(Locked) + 1
        /\ Locked' \in SUBSET (Locked \cup {actreq[t]})
    BY <2>3, <2>4, FS_AddElement
  <2>6. /\ Cardinality(Locked') <= Cardinality(Locked \cup {actreq[t]})
        /\ Cardinality(Locked') \in Nat /\ Cardinality(Locked \cup {actreq[t]}) \in Nat
    BY <2>5, FS_Subset, FS_CardinalityType
  <2>7. LocksCounted'
    BY <2>1, <2>4, <2>5, <2>6 DEF CloseInv, LocksCounted
  <2> QED
    BY <1>4, <1>5, <2>2, <2>7 DEF CloseInv, CloseOrder
<1>7. CASE Kind(t) \notin CLOSE_WAITS
  <2>1. UNCHANGED <<close_readers, close_blockid>>
    BY <1>7 DEF PrepareRequest
  <2>2. BlockPushed' /\ BlockIsLast'
    BY <1>1, <1>2, <1>7, <2>1 DEF CloseInv, CloseOrder, BlockPushed, BlockIsLast
  <2>3. LocksCounted'
    BY <1>1, <1>2, <1>7, <2>1, LockedStep DEF CloseInv, Kind
  <2> QED
    BY <1>4, <1>5, <2>2, <2>3 DEF CloseInv, CloseOrder
<1> QED
  BY <1>6, <1>7

\* A request is pushed on the ring.
LEMMA PushClose ==
    ASSUME Base, CloseInv, NEW t \in Threads, mw_xen_release_request(t), ins_up
    PROVE  CloseInv'
<1>0. ThreadInv /\ FlagTypes /\ RequestInv
  BY DEF Base, RequestInv
<1>1. /\ pc[t] = "push" /\ sent' = Append(sent, actreq[t]) /\ EndSend(t)
      /\ UNCHANGED <<responses, cpc, response, arrived, type, next_id, active, forced,
                     close_blockid, close_readers>>
  BY DEF mw_xen_release_request, refVars, consumerVars
<1>2. /\ Sending(t) /\ \A u \in Threads \ {t} : pc'[u] = pc[u] /\ actreq'[u] = actreq[u]
  BY SendFrame DEF Send
<1>3. pc'[t] # "push"
  BY <1>0, <1>1, ThreadFacts DEF EndSend, Goto, Return
<1>4. \A u \in Threads : pc'[u] # "push"
  BY <1>1, <1>2, <1>3, LockAlone
<1>5. actreq[t] \in Ids /\ actreq[t] \in active
  BY <1>0, <1>2, SenderFacts
<1>6. /\ Len(sent) \in Nat /\ Len(sent') = Len(sent) + 1
      /\ \A i \in 1..Len(sent) : sent'[i] = sent[i]
      /\ sent'[Len(sent) + 1] = actreq[t]
      /\ DOMAIN sent = 1..Len(sent) /\ DOMAIN sent' = 1..Len(sent')
  <2>1. sent \in Seq(Ids)
    BY DEF Base, RingTypes
  <2>2. sent' \in Seq(Ids)
    BY <1>1, <1>5, <2>1, AppendProperties
  <2> QED
    BY <1>1, <1>5, <2>1, <2>2, AppendProperties, LenProperties
<1>7. LocksCounted'
  BY <1>1, <1>2, LockedStep DEF CloseInv
<1>8. UserActive'
  <2>1. InRing' = InRing \cup {actreq[t]}
    BY <1>1, <1>6 DEF InRing, SentIds, AnsweredIds
  <2> QED
    BY <1>1, <1>5, <2>1 DEF CloseInv, CloseOrder, UserActive
<1>9. BlockPushed' /\ CloseUnblocked'
  BY <1>1, <1>4 DEF CloseInv, CloseOrder, BlockPushed, CloseUnblocked
<1>10. BlockIsLast'
  <2> SUFFICES ASSUME ~forced, NEW n \in 1..Len(sent'), type[sent'[n]] \in CLOSE_WAITS
               PROVE  \E m \in n..Len(sent') : sent'[m] = close_blockid
    BY <1>1 DEF BlockIsLast
  <2>1. CASE close_blockid = actreq[t]
    BY <1>6, <2>1
  <2>2. CASE close_blockid # actreq[t]
    <3>1. type[actreq[t]] \notin CLOSE_WAITS
      BY <1>1, <2>2 DEF CloseInv, CloseOrder, BlockPushed, Kind
    <3>2. n \in 1..Len(sent) /\ sent'[n] = sent[n]
      BY <1>6, <3>1
    <3>3. \A u \in Threads : pc[u] = "push" => actreq[u] # close_blockid
      BY <1>1, <2>2, LockAlone
    <3>4. PICK m \in n..Len(sent) : sent[m] = close_blockid
      BY <3>2, <3>3 DEF CloseInv, CloseOrder, BlockIsLast
    <3>5. m \in n..Len(sent') /\ m \in 1..Len(sent)
      BY <1>6, <3>2, <3>4
    <3> QED
      BY <1>6, <3>4, <3>5
  <2> QED
    BY <2>1, <2>2
<1>11. CloseWaitsForRequests'
  <2> SUFFICES ASSUME ~forced, NEW n \in 1..Len(sent'), type[sent'[n]] = "Close",
                      NEW m \in 1..(n - 1)
               PROVE  type[sent'[m]] \notin CLOSE_WAITS
    BY <1>1, <1>6 DEF CloseWaitsForRequests
  <2>1. m \in 1..Len(sent) /\ sent'[m] = sent[m]
    BY <1>6
  <2>2. CASE n = Len(sent) + 1
    <3>1. Kind(t) = "Close"
      BY <1>6, <2>2 DEF Kind
    <3> QED
      BY <1>1, <2>1, <3>1 DEF CloseInv, CloseOrder, CloseUnblocked
  <2>3. CASE n \in 1..Len(sent)
    BY <1>6, <2>1, <2>3 DEF CloseInv, CloseOrder, CloseWaitsForRequests
  <2> QED
    BY <1>6, <2>2, <2>3
<1> QED
  BY <1>7, <1>8, <1>9, <1>10, <1>11 DEF CloseInv, CloseOrder

\* The steps of mwsocket_send_request.
LEMMA SendClose ==
    ASSUME Base, CloseInv, NEW t \in Threads, Send(t),
           \A id \in 1..(next_id - 1) : type'[id] = type[id]
    PROVE  CloseInv'
<1>0. ThreadInv /\ FlagTypes /\ RequestInv
  BY DEF Base, RequestInv
<1>1. /\ Sending(t) /\ \A u \in Threads \ {t} : pc'[u] = pc[u] /\ actreq'[u] = actreq[u]
      /\ UNCHANGED <<arrived, responses, cpc, response, ins_up>>
  BY SendFrame
<1>2. CASE mw_xen_get_next_request_slot(t)
  <2>1. pc[t] = "slot" /\ UNCHANGED <<sent, forced, close_readers>>
    BY <1>2 DEF mw_xen_get_next_request_slot
  <2>2. CASE ins_alive /\ ins_up
    <3>1. /\ Goto(t, "prepare") /\ UNCHANGED <<type, active, actreq, close_blockid>>
      BY <1>2, <2>2 DEF mw_xen_get_next_request_slot, refVars
    <3>2. pc'[t] = "prepare" /\ InRing' = InRing
      BY <1>0, <1>1, <2>1, <3>1, ThreadFacts DEF Goto, InRing, SentIds, AnsweredIds
    <3>3. LocksCounted'
      BY <1>1, <2>1, <3>1, <3>2, LockedStep DEF CloseInv
    <3>4. CloseOrder'
      BY <1>1, <2>1, <3>1, <3>2, OrderStep DEF CloseInv
    <3> QED
      BY <3>3, <3>4 DEF CloseInv
  <2>3. CASE ~(ins_alive /\ ins_up)
    <3>1. SendFailed(t)
      BY <1>2, <2>3 DEF mw_xen_get_next_request_slot
    <3> QED
      BY <2>1, <3>1, SendFailedClose
  <2> QED
    BY <2>2, <2>3
<1>3. CASE PrepareRequest(t)
  BY <1>3, PrepareRequestClose
<1>4. CASE PrepareClose(t)
  <2>1. /\ pc[t] = "prepare" /\ Kind(t) = "Close"
        /\ UNCHANGED <<sent, type, active, actreq, forced, close_blockid, close_readers>>
        /\ Goto(t, IF close_blockid = Unset THEN "push" ELSE "trylock")
    BY <1>4 DEF PrepareClose, refVars, ringVars, closeVars
  <2>2. type[actreq[t]] \notin CLOSE_WAITS /\ InRing' = InRing
    BY <1>1, <2>1 DEF Kind, CLOSE_WAITS, InRing, SentIds, AnsweredIds
  <2>3. LocksCounted'
    BY <1>1, <2>1, <2>2, LockedStep DEF CloseInv
  <2>4. CASE close_blockid = Unset
    <3>1. pc'[t] = "push"
      BY <1>0, <2>1, <2>4, ThreadFacts DEF Goto
    <3>2. CloseOrder'
      BY <1>1, <2>1, <2>4, <3>1, PrepareCloseOrder
    <3> QED
      BY <2>3, <3>2 DEF CloseInv
  <2>5. CASE close_blockid # Unset
    <3>1. pc'[t] = "trylock"
      BY <1>0, <2>1, <2>5, ThreadFacts DEF Goto
    <3>2. CloseOrder'
      BY <1>1, <2>1, <2>2, <3>1, OrderStep DEF CloseInv
    <3> QED
      BY <2>3, <3>2 DEF CloseInv
  <2> QED
    BY <2>4, <2>5
<1>5. CASE TryCloseLock(t)
  <2>1. /\ pc[t] = "trylock" /\ Goto(t, "push") /\ close_blockid' = Unset
        /\ UNCHANGED <<sent, type, active, actreq, close_readers>>
        /\ forced' = TRUE \/ (forced' = forced /\ close_readers = 0)
    BY <1>5 DEF TryCloseLock, refVars, ringVars
  <2>2. pc'[t] = "push" /\ Kind(t) = "Close"
    BY <1>0, <2>1, ThreadFacts DEF Goto, ThreadInv, Steps
  <2>3. LocksCounted'
    BY <1>1, <2>1, <2>2, LockedStep DEF CloseInv
  <2>4. CloseOrder'
    BY <1>1, <2>1, <2>2, PrepareCloseOrder
  <2> QED
    BY <2>3, <2>4 DEF CloseInv
<1>6. CASE mw_xen_release_request(t)
  <2>1. CASE ins_up
    BY <1>6, <2>1, PushClose
  <2>2. CASE ~ins_up
    <3>1. SendFailed(t) /\ UNCHANGED <<sent, forced, close_readers>>
      BY <1>6, <2>2 DEF mw_xen_release_request
    <3> QED
      BY <2>2, <3>1, SendFailedClose
  <2> QED
    BY <2>1, <2>2
<1> QED
  BY <1>2, <1>3, <1>4, <1>5, <1>6 DEF Send

\* The INS answers a request: those of one worker in order, so that the
\* blocking one is answered last of those that close() has to wait for.
LEMMA AnswerOrder ==
    ASSUME Base, CloseInv, NEW n \in Ids, NEW closed \in BOOLEAN, InsAnswers(n, closed)
    PROVE  CloseOrder'
<1>1. /\ n \in 1..Len(sent) /\ sent' = RemoveAt(sent, n)
      /\ responses' = Append(responses, [id |-> sent[n], closed |-> closed])
      /\ type[sent[n]] \in QueuedTypes =>
           \A m \in 1..(n - 1) : type[sent[m]] \notin QueuedTypes
      /\ UNCHANGED <<cpc, response, arrived, active, ins_up, next_id, type, pc, actreq,
                     close_blockid, forced>>
  BY DEF InsAnswers, Base, RingTypes, refVars, deliverVars, insVars, consumerVars,
     threadVars, closeVars
<1>2. OnePlace /\ RingTypes
  BY DEF Base, RequestInv
<1>3. SentIds' = SentIds \ {sent[n]} /\ AnsweredIds' = AnsweredIds \cup {sent[n]}
  BY <1>1, <1>2, AnswerPlaces
<1>4. InRing' \subseteq InRing
  <2>1. sent[n] \in SentIds
    BY <1>1 DEF SentIds
  <2> QED
    BY <1>3, <2>1 DEF InRing
<1>5. UserActive' /\ BlockPushed'
  BY <1>1, <1>4 DEF CloseInv, CloseOrder, UserActive, BlockPushed, Kind
<1> DEFINE at(k) == IF k < n THEN k ELSE k + 1
<1>6. /\ Len(sent) \in Nat /\ n \in Nat /\ Len(sent') = Len(sent) - 1
      /\ sent' \in Seq(Ids)
      /\ \A k \in 1..Len(sent') : sent'[k] = IF k < n THEN sent[k] ELSE sent[k + 1]
  <2>1. sent \in Seq(Ids)
    BY <1>2 DEF RingTypes
  <2>2. Len(sent) \in Nat /\ n \in Nat
    BY <1>1, <2>1, LenProperties
  <2>3. /\ Len(sent') = Len(sent) - 1 /\ sent' \in Seq(Ids)
        /\ \A k \in 1..(Len(sent) - 1) :
             sent'[k] = IF k < n THEN sent[k] ELSE sent[k + 1]
    BY <1>1, <2>1, RemoveAtElements
  <2> QED
    BY <2>2, <2>3
<1>7. ASSUME NEW k \in 1..Len(sent')
      PROVE  at(k) \in 1..Len(sent) /\ at(k) # n /\ sent'[k] = sent[at(k)]
  BY <1>1, <1>6
<1>8. ASSUME NEW m \in 1..Len(sent), m # n
      PROVE  \E k \in 1..Len(sent') : at(k) = m
  <2>1. CASE m < n
    <3>1. m \in 1..Len(sent') /\ at(m) = m
      BY <1>1, <1>6, <2>1
    <3> QED
      BY <3>1
  <2>2. CASE ~(m < n)
    <3>1. m - 1 \in 1..Len(sent') /\ at(m - 1) = m
      BY <1>1, <1>6, <1>8, <2>2
    <3> QED
      BY <3>1
  <2> QED
    BY <2>1, <2>2
<1>9. \A j, k \in 1..Len(sent') : j < k <=> at(j) < at(k)
  BY <1>6
<1> HIDE DEF at
<1>10. CloseUnblocked'
  BY <1>1, <1>7 DEF CloseInv, CloseOrder, CloseUnblocked, Kind
<1>11. CloseWaitsForRequests'
  <2> SUFFICES ASSUME ~forced, NEW k \in 1..Len(sent'), type[sent'[k]] = "Close",
                      NEW j \in 1..(k - 1)
               PROVE  type[sent'[j]] \notin CLOSE_WAITS
    <3>1. DOMAIN sent' = 1..Len(sent')
      BY <1>6, LenProperties
    <3> QED
      BY <1>1, <3>1 DEF CloseWaitsForRequests
  <2>1. j \in 1..Len(sent') /\ j < k
    BY <1>6
  <2>2. /\ at(j) \in 1..Len(sent) /\ at(k) \in 1..Len(sent) /\ at(j) < at(k)
        /\ sent'[j] = sent[at(j)] /\ sent'[k] = sent[at(k)]
    BY <1>7, <1>9, <2>1
  <2>3. at(j) \in 1..(at(k) - 1) /\ at(k) \in DOMAIN sent
    <3>1. DOMAIN sent = 1..Len(sent)
      BY <1>2, LenProperties DEF RingTypes
    <3> QED
      BY <1>6, <2>2, <3>1
  <2> QED
    BY <2>2, <2>3 DEF CloseInv, CloseOrder, CloseWaitsForRequests
<1>12. BlockIsLast'
  <2> SUFFICES ASSUME ~forced, NEW k \in 1..Len(sent'), type[sent'[k]] \in CLOSE_WAITS
               PROVE  \/ \E m \in k..Len(sent') : sent'[m] = close_blockid
                      \/ \E t \in Threads : pc[t] = "push" /\ actreq[t] = close_blockid
    BY <1>1 DEF BlockIsLast
  <2>1. at(k) \in 1..Len(sent) /\ at(k) # n /\ sent'[k] = sent[at(k)]
    BY <1>7
  <2>2. \/ \E m \in at(k)..Len(sent) : sent[m] = close_blockid
        \/ \E t \in Threads : pc[t] = "push" /\ actreq[t] = close_blockid
    BY <2>1 DEF CloseInv, CloseOrder, BlockIsLast
  <2>3. ASSUME NEW m \in at(k)..Len(sent), sent[m] = close_blockid
        PROVE  \E i \in k..Len(sent') : sent'[i] = close_blockid
    <3>1. m \in 1..Len(sent) /\ at(k) <= m
      BY <1>6, <2>1
    <3>2. m # n
      <4> SUFFICES ASSUME m = n
                   PROVE  FALSE
        OBVIOUS
      <4>1. at(k) \in 1..(n - 1)
        BY <1>6, <2>1, <3>1
      <4>2. close_blockid # Unset
        <5>1. close_blockid \in InRing
          BY <1>1, <2>3 DEF InRing, SentIds
        <5> QED
          BY <1>2, <5>1 DEF OnePlace, Unset
      <4>3. type[sent[n]] \in CLOSE_WAITS
        BY <2>3, <4>2 DEF CloseInv, CloseOrder, BlockPushed
      <4> QED
        BY <1>1, <2>1, <4>1, <4>3 DEF CLOSE_WAITS, QueuedTypes
    <3>3. PICK i \in 1..Len(sent') : at(i) = m
      BY <1>8, <3>1, <3>2
    <3>4. ~(i < k)
      BY <1>6, <1>9, <2>1, <3>1, <3>3
    <3>5. i \in k..Len(sent')
      BY <1>6, <3>4
    <3> QED
      BY <1>7, <2>3, <3>3, <3>5
  <2> QED
    BY <2>2, <2>3
<1> QED
  BY <1>5, <1>10, <1>11, <1>12 DEF CloseOrder

\* The consumer releases the close lock for a request that holds it.
LEMMA PostprocLocks ==
    ASSUME Base, CloseInv, ~ConsumerDangling, mwsocket_postproc_no_context
    PROVE  LocksCounted'
<1>0. ThreadInv /\ RequestInv /\ OnePlace
  BY DEF Base, RequestInv
<1>1. /\ cpc = "found" /\ cpc' = "decide"
      /\ UNCHANGED <<active, arrived, type, pc, actreq, response>>
  BY DEF mwsocket_postproc_no_context, refVars, deliverVars, threadVars
<1>2. CASE type[response.id] \notin CLOSE_WAITS
  <2>1. close_readers' = close_readers
    BY <1>2 DEF mwsocket_postproc_no_context, ReleasesCloseLock
  <2> QED
    BY <1>1, <2>1, LockedStep DEF CloseInv
<1>3. CASE type[response.id] \in CLOSE_WAITS
  <2>1. close_readers' = close_readers - 1
    BY <1>3 DEF mwsocket_postproc_no_context, ReleasesCloseLock
  <2>2. response.id \in active \ arrived /\ response.id \in Places
    BY <1>0, <1>1 DEF OnePlace, Handled, Places, ConsumerDangling
  <2>3. response.id \in Locked
    BY <1>0, <1>1, <1>3, <2>2 DEF Locked, RequestInv, OwnRequest, Sending
  <2>4. Locked' = Locked \ {response.id}
    BY <1>1, <2>3 DEF Locked
  <2>5. IsFiniteSet(Locked) /\ Cardinality(Locked) \in Nat
    BY <1>0, LockedFinite
  <2>6. Cardinality(Locked') = Cardinality(Locked) - 1
    BY <2>3, <2>4, <2>5, FS_RemoveElement
  <2> QED
    BY <2>1, <2>5, <2>6 DEF CloseInv, LocksCounted
<1> QED
  BY <1>2, <1>3

\* The steps of the consumer.
LEMMA ConsumerClose ==
    ASSUME Base, CloseInv, ~ConsumerDangling, Consumes
    PROVE  CloseInv'
<1>0. ThreadInv /\ FlagTypes /\ RingTypes /\ RequestInv /\ OnePlace
  BY DEF Base, RequestInv
<1>1. UNCHANGED <<sent, pc, actreq, forced, type>>
  BY DEF Consumes, FindRequest, mwsocket_postproc_no_context, DecideFate, ringVars,
     threadVars, refVars, mwsocket_destroy_active_request
<1>2. cpc # "idle" =>
        /\ response.id \notin InRing
        /\ \A u \in Threads : pc[u] = "push" => actreq[u] # response.id
  BY <1>0 DEF OnePlace, Handled, RequestInv, OwnRequest, Sending, Places,
     ConsumerDangling
<1>3. ASSUME cpc # "idle", close_blockid' = ClearCloseBlock(response.id)
      PROVE  \/ close_blockid' = close_blockid
             \/ /\ close_blockid' = Unset /\ close_blockid \notin SentIds
                /\ \A u \in Threads : pc[u] = "push" => actreq[u] # close_blockid
  BY <1>2, <1>3 DEF ClearCloseBlock, InRing
<1>4. CASE FindRequest
  <2>1. /\ UNCHANGED <<active, arrived, close_blockid, close_readers>> /\ cpc = "idle"
    BY <1>4 DEF FindRequest, refVars, closeVars, deliverVars
  <2>2. InRing' \subseteq InRing
    BY <1>0, <1>1, <1>4, TakePlaces DEF InRing, SentIds
  <2>3. LocksCounted'
    BY <1>1, <2>1, LockedStep DEF CloseInv
  <2>4. CloseOrder'
    BY <1>1, <2>1, <2>2, OrderStep DEF CloseInv
  <2> QED
    BY <2>3, <2>4 DEF CloseInv
<1>5. CASE mwsocket_postproc_no_context
  <2>1. /\ cpc = "found" /\ UNCHANGED <<active, responses>>
        /\ close_blockid' = close_blockid \/ close_blockid' = ClearCloseBlock(response.id)
    BY <1>5 DEF mwsocket_postproc_no_context, refVars, ringVars
  <2>2. InRing' = InRing
    BY <1>1, <2>1 DEF InRing, SentIds, AnsweredIds
  <2>3. CloseOrder'
    BY <1>1, <1>3, <2>1, <2>2, OrderStep DEF CloseInv
  <2> QED
    BY <1>5, <2>3, PostprocLocks DEF CloseInv
<1>6. CASE DecideFate
  <2>1. /\ cpc = "decide" /\ UNCHANGED <<responses, close_readers>>
        /\ \/ /\ active' = active \ {response.id} /\ arrived' = arrived
              /\ close_blockid' = ClearCloseBlock(response.id)
           \/ /\ arrived' = arrived \cup {response.id}
              /\ UNCHANGED <<active, close_blockid>>
    BY <1>6 DEF DecideFate, refVars, ringVars, mwsocket_destroy_active_request
  <2>2. InRing' = InRing
    BY <1>1, <2>1 DEF InRing, SentIds, AnsweredIds
  <2>3. LocksCounted'
    BY <1>1, <2>1, LockedStep DEF CloseInv
  <2>4. CloseOrder'
    BY <1>1, <1>2, <1>3, <2>1, <2>2, OrderStep DEF CloseInv
  <2> QED
    BY <2>3, <2>4 DEF CloseInv
<1> QED
  BY <1>4, <1>5, <1>6 DEF Consumes

\* The reaper releases the close lock for a request that holds it.
LEMMA ReaperClose ==
    ASSUME Base, WalkInv, CloseInv, ~ReaperDangling, ReapRequest,
           "reaper" \notin race'
    PROVE  CloseInv'
<1>0. ThreadInv /\ RequestInv /\ OnePlace
  BY DEF Base, RequestInv
<1>1. /\ rpc = "walk" /\ curr_ar # Unset /\ ~Handles(curr_ar)
      /\ \A u \in Threads : ~Sends(u, curr_ar)
      /\ close_blockid' \in {close_blockid, Unset}
      /\ UNCHANGED <<type, sent, responses, cpc, response, pc, actreq>>
  BY DEF ReapRequest, consumerVars, threadVars, refVars, ClearCloseBlock,
     mwsocket_destroy_active_request, Callers
<1>2. curr_ar \in active
  BY <1>1 DEF ReaperDangling
<1>3. CloseOrder'
  <2>1. sent' = << >> /\ responses' = << >>
    BY <1>0, <1>1 DEF OnePlace, WalkInv
  <2>2. close_blockid' = close_blockid \/ close_blockid = curr_ar
    BY DEF ReapRequest, ClearCloseBlock, mwsocket_destroy_active_request
  <2>3. \A t \in Threads : pc[t] = "push" /\ Kind(t) \in CLOSE_WAITS =>
          close_blockid = actreq[t]
    BY DEF CloseInv, CloseOrder, BlockPushed
  <2>4. BlockPushed'
    BY <1>1, <2>2, <2>3 DEF CloseInv, CloseOrder, BlockPushed, Sends, Kind
  <2> QED
    BY <2>1, <2>4, EmptyOrder
<1>4. IsFiniteSet(Locked) /\ Cardinality(Locked) \in Nat
  BY <1>0, LockedFinite
<1>5. CASE FailedByReaper(curr_ar) /\ ReleasesCloseLock(curr_ar)
  <2>1. /\ arrived' = arrived \cup {curr_ar} /\ active' = active
        /\ close_readers' = close_readers - 1
    BY <1>5 DEF ReapRequest, FailedByReaper, refVars
  <2>2. curr_ar \in Locked
    BY <1>1, <1>2, <1>5
    DEF Locked, FailedByReaper, ReleasesCloseLock, Sends, Handles
  <2>3. Locked' = Locked \ {curr_ar}
    BY <1>1, <2>1 DEF Locked
  <2>4. Cardinality(Locked') = Cardinality(Locked) - 1
    BY <1>4, <2>2, <2>3, FS_RemoveElement
  <2>5. LocksCounted'
    BY <1>4, <2>1, <2>4 DEF CloseInv, LocksCounted
  <2> QED
    BY <1>3, <2>5 DEF CloseInv
<1>6. CASE ~(FailedByReaper(curr_ar) /\ ReleasesCloseLock(curr_ar))
  <2>1. /\ close_readers' = close_readers /\ active' \subseteq active
        /\ arrived \subseteq arrived'
    BY <1>6 DEF ReapRequest, refVars, deliverVars, mwsocket_destroy_active_request
  <2>2. Locked' \in SUBSET Locked
    BY <1>1, <2>1 DEF Locked
  <2>3. Cardinality(Locked') <= Cardinality(Locked) /\ Cardinality(Locked') \in Nat
    BY <1>4, <2>2, FS_Subset, FS_CardinalityType
  <2>4. LocksCounted'
    BY <1>4, <2>1, <2>3 DEF CloseInv, LocksCounted
  <2> QED
    BY <1>3, <2>4 DEF CloseInv
<1> QED
  BY <1>5, <1>6

\* Every step keeps what Close relies on.
LEMMA CloseNext ==
    ASSUME Base, WalkInv, CloseInv, Calm, "reaper" \notin race'
    PROVE  CloseInv'
<1>0. \A id \in 1..(next_id - 1) : type'[id] = type[id]
  BY TypesFixed
<1>1. ASSUME NEW n \in Ids, NEW closed \in BOOLEAN, InsAnswers(n, closed)
      PROVE  CloseInv'
  <2>1. UNCHANGED <<close_readers, active, arrived, pc, actreq, cpc, response>>
    BY <1>1 DEF InsAnswers, refVars, closeVars, deliverVars, threadVars, consumerVars
  <2>2. LocksCounted'
    BY <1>0, <2>1, LockedStep DEF CloseInv
  <2> QED
    BY <1>1, <2>2, AnswerOrder DEF CloseInv
<1>2. CASE InsCrashes \/ Exit \/ BeginWalk \/ ReapSocket \/ UNCHANGED stateVars
  <2>1. UNCHANGED <<close_readers, active, arrived, pc, actreq, cpc, response, sent,
                    responses, close_blockid, forced>>
    BY <1>2 DEF InsCrashes, Exit, BeginWalk, ReapSocket, stateVars, refVars, closeVars, deliverVars, threadVars,
       consumerVars, ringVars
  <2>2. InRing' = InRing
    BY <2>1 DEF InRing, SentIds, AnsweredIds
  <2>3. LocksCounted'
    BY <1>0, <2>1, LockedStep DEF CloseInv
  <2>4. CloseOrder'
    BY <1>0, <2>1, <2>2, OrderStep DEF CloseInv
  <2> QED
    BY <2>3, <2>4 DEF CloseInv
<1>3. CASE mw_xen_release_ins
  <2>1. /\ sent' = << >> /\ responses' = << >>
        /\ UNCHANGED <<close_readers, active, arrived, pc, actreq, cpc, response, type,
                       close_blockid>>
    BY <1>3 DEF mw_xen_release_ins, refVars, closeVars, deliverVars, threadVars,
       consumerVars
  <2>2. LocksCounted'
    BY <1>0, <2>1, LockedStep DEF CloseInv
  <2>3. BlockPushed'
    BY <2>1 DEF CloseInv, CloseOrder, BlockPushed, Kind
  <2> QED
    BY <2>1, <2>2, <2>3, EmptyOrder DEF CloseInv
<1>4. ASSUME NEW t \in Threads, Send(t)
      PROVE  CloseInv'
  BY <1>0, <1>4, SendClose
<1>5. ASSUME NEW t \in Threads,
             \/ \E c \in Calls : BeginWrite(t, c)
             \/ BeginRead(t) \/ BeginAttrib(t) \/ mwsocket_release(t)
             \/ StartWrite(t) \/ EndRead(t) \/ AwaitResponse(t)
             \/ mwsocket_put_sockinst(t)
      PROVE  CloseInv'
  BY <1>0, <1>5, CallClose
<1>6. CASE ~ConsumerDangling /\ Consumes
  BY <1>6, ConsumerClose
<1>7. CASE ~ReaperDangling /\ ReapRequest
  BY <1>7, ReaperClose
<1>8. CASE Answers
  BY <1>1, <1>8 DEF Answers
<1>9. CASE ~ReaperDangling /\ mwsocket_reap_dead_sock_instances
  BY <1>2, <1>7, <1>9 DEF mwsocket_reap_dead_sock_instances
<1> QED
  BY <1>2, <1>3, <1>4, <1>5, <1>6, <1>8, <1>9, Zenon DEF Calm
-----------------------------------------------------------------------------
(* The semaphore of the socket.                                            *)

\* The fields that request_sem protects are those of the thread that has
\* acquired it.
SemOf(t) ==
    /\ Holds(t) => request_sem = 0 /\ own[t] = actreq[t]
    /\ pc[t] = "mustread" => blockid = actreq[t]
    /\ pc[t] = "push" /\ Kind(t) \in UserTypes /\ call[t].waits =>
         read_expected /\ blockid = actreq[t]

SemInv ==
    /\ state_valid /\ request_sem \in {0, 1}
    /\ \A t \in Threads : SemOf(t)
    /\ \A t, u \in Threads : t # u => ~(Holds(t) /\ Holds(u))

\* What a thread may do to the semaphore without disturbing the others.
LEMMA SemStep ==
    ASSUME ThreadInv, FlagTypes, SemInv, NEW t \in Threads, MovesOnly(t),
           \/ Holds(t) \/ request_sem # 0
           \/ UNCHANGED <<request_sem, blockid, read_expected>>,
           Holds(t)' => Holds(t) \/ request_sem # 0,
           SemOf(t)', state_valid' = state_valid, request_sem' \in {0, 1}
    PROVE  SemInv'
<1>1. ASSUME NEW u \in Threads \ {t}
      PROVE  /\ pc'[u] = pc[u] /\ actreq'[u] = actreq[u] /\ call'[u] = call[u]
             /\ own'[u] = own[u] /\ (Holds(u)' <=> Holds(u))
             /\ (Sending(u) => Kind(u)' = Kind(u))
             /\ ~(Holds(t) /\ Holds(u)) /\ SemOf(u)
  <2>1. /\ pc'[u] = pc[u] /\ actreq'[u] = actreq[u] /\ call'[u] = call[u]
        /\ own'[u] = own[u] /\ (Sending(u)' <=> Sending(u))
        /\ (Sending(u) => Kind(u)' = Kind(u))
    BY DEF MovesOnly, Sending
  <2> QED
    BY <2>1 DEF Holds, SemInv
<1>2. ASSUME NEW u \in Threads \ {t}
      PROVE  SemOf(u)'
  <2>1. Holds(u) => UNCHANGED <<request_sem, blockid, read_expected>>
    BY <1>1 DEF SemOf
  <2>2. Holds(u)' => request_sem' = 0 /\ own'[u] = actreq'[u]
    BY <1>1, <2>1 DEF SemOf
  <2>3. pc'[u] = "mustread" => blockid' = actreq'[u]
    BY <1>1, <2>1 DEF SemOf, Holds
  <2>4. pc'[u] = "push" /\ Kind(u)' \in UserTypes /\ call'[u].waits =>
          read_expected' /\ blockid' = actreq'[u]
    BY <1>1, <2>1 DEF SemOf, Holds, Sending
  <2> QED
    BY <2>2, <2>3, <2>4 DEF SemOf
<1>3. \A u \in Threads : SemOf(u)'
  BY <1>2
<1>4. \A u \in Threads \ {t} : ~(Holds(t)' /\ Holds(u)')
  BY <1>1 DEF SemOf
<1>5. \A u, w \in Threads \ {t} : u # w => ~(Holds(w)' /\ Holds(u)')
  BY <1>1 DEF SemInv
<1>6. \A u, w \in Threads : u # w => ~(Holds(w)' /\ Holds(u)')
  BY <1>4, <1>5
<1>7. state_valid'
  BY DEF SemInv
<1> QED
  BY <1>3, <1>6, <1>7 DEF SemInv

\* A call that ends releases the semaphore if its thread held it.
LEMMA SemReturn ==
    ASSUME ThreadInv, FlagTypes, SemInv, NEW t \in Threads,
           NEW x \in {"idle", "closed"}, Return(t, x),
           UNCHANGED <<type, state_valid, blockid>>,
           \/ UNCHANGED <<request_sem, read_expected>>
           \/ Holds(t) /\ request_sem' = request_sem + 1
           \/ request_sem # 0 /\ UNCHANGED request_sem
    PROVE  SemInv'
<1>1. MovesOnly(t)
  BY MovesOneThread DEF Return
<1>2. pc'[t] = x
  BY ThreadFacts DEF Return, Goto
<1>3. ~Holds(t)' /\ SemOf(t)'
  BY <1>2 DEF Holds, Sending, SemOf
<1>4. request_sem' \in {0, 1}
  BY DEF SemInv, SemOf
<1> QED
  BY <1>1, <1>3, <1>4, SemStep

\* The steps of mwsocket_send_request keep it.
LEMMA SemSend ==
    ASSUME ThreadInv, FlagTypes, SemInv, NEW t \in Threads, Send(t)
    PROVE  SemInv'
<1>0. Sending(t) /\ pc[t] \in PcValues /\ (Holds(t) <=> Kind(t) \in UserTypes)
  <2>1. Sending(t)
    BY DEF Send, mw_xen_get_next_request_slot, PrepareRequest, PrepareClose,
       TryCloseLock, mw_xen_release_request, Sending
  <2> QED
    BY <2>1, ThreadFacts DEF Sending, Holds, PcValues
<1>1. ASSUME SendFailed(t), UNCHANGED <<state_valid, blockid>>
      PROVE  SemInv'
  <2>1. /\ UNCHANGED type
        /\ \/ UNCHANGED <<request_sem, read_expected>>
           \/ Holds(t) /\ request_sem' = request_sem + 1
    BY <1>0, <1>1 DEF SendFailed, mwsocket_destroy_active_request
  <2>2. \E x \in {"idle", "closed"} : Return(t, x)
    BY <1>1 DEF SendFailed
  <2> QED
    BY <1>1, <2>1, <2>2, SemReturn
<1>2. ASSUME NEW x \in {"prepare", "trylock", "push"}, Goto(t, x),
             UNCHANGED <<state_valid, request_sem, type, call, actreq, own>>,
             \/ UNCHANGED <<blockid, read_expected>>
             \/ Kind(t) \in UserTypes,
             x = "push" /\ Kind(t) \in UserTypes /\ call[t].waits =>
               read_expected' /\ blockid' = actreq[t]
      PROVE  SemInv'
  <2>1. MovesOnly(t)
    BY <1>2, MovesOneThread
  <2>2. pc'[t] = x /\ Kind(t)' = Kind(t) /\ Sending(t)'
    BY <1>2, ThreadFacts DEF Goto, Kind, Sending
  <2>3. Holds(t)' <=> Holds(t)
    BY <1>0, <1>2, <2>2 DEF Holds
  <2>4. SemOf(t)
    BY DEF SemInv
  <2>5. SemOf(t)'
    BY <1>2, <2>2, <2>3, <2>4 DEF SemOf
  <2>6. request_sem' \in {0, 1}
    BY <1>2 DEF SemInv
  <2> QED
    BY <1>0, <1>2, <2>1, <2>3, <2>5, <2>6, SemStep
<1>3. CASE mw_xen_get_next_request_slot(t)
  <2>1. UNCHANGED <<state_valid, blockid>>
    BY <1>3 DEF mw_xen_get_next_request_slot
  <2>2. CASE SendFailed(t)
    BY <1>1, <2>1, <2>2
  <2>3. CASE ~SendFailed(t)
    <3>1. /\ Goto(t, "prepare")
          /\ UNCHANGED <<request_sem, type, call, actreq, own, read_expected>>
      BY <1>3, <2>3 DEF mw_xen_get_next_request_slot, refVars
    <3> QED
      BY <1>2, <2>1, <3>1
  <2> QED
    BY <2>2, <2>3
<1>4. CASE PrepareRequest(t)
  <2>1. /\ Goto(t, "push") /\ ExpectRead(t)
        /\ UNCHANGED <<state_valid, request_sem, type, call, actreq, own>>
    BY <1>4 DEF PrepareRequest, refVars
  <2>2. \/ UNCHANGED <<blockid, read_expected>>
        \/ Kind(t) \in UserTypes
    BY <2>1 DEF ExpectRead
  <2>3. Kind(t) \in UserTypes /\ call[t].waits => read_expected' /\ blockid' = actreq[t]
    BY <2>1 DEF ExpectRead
  <2> QED
    BY <1>2, <2>1, <2>2, <2>3
<1>5. CASE PrepareClose(t) \/ TryCloseLock(t)
  <2>1. Kind(t) = "Close"
    BY <1>5 DEF PrepareClose, TryCloseLock, ThreadInv, Steps
  <2>2. "Close" \notin UserTypes
    BY DEF UserTypes
  <2>3. /\ UNCHANGED <<state_valid, request_sem, blockid, read_expected, type, call,
                       actreq, own>>
        /\ \E x \in {"push", "trylock"} : Goto(t, x)
    BY <1>5 DEF PrepareClose, TryCloseLock, readVars, refVars
  <2> QED
    BY <1>2, <2>1, <2>2, <2>3
<1>6. CASE mw_xen_release_request(t)
  <2>1. UNCHANGED <<state_valid, blockid>> /\ pc[t] = "push"
    BY <1>6 DEF mw_xen_release_request
  <2>2. CASE SendFailed(t)
    BY <1>1, <2>1, <2>2
  <2>3. CASE ~SendFailed(t)
    <3>1. EndSend(t) /\ UNCHANGED <<type, read_expected>>
      BY <1>6, <2>3 DEF mw_xen_release_request, refVars
    <3>2. CASE Kind(t) \notin UserTypes
      <4>1. Goto(t, "await") /\ UNCHANGED <<request_sem, call, actreq, own>>
        BY <3>1, <3>2 DEF EndSend
      <4>2. MovesOnly(t)
        BY <3>1, <4>1, MovesOneThread
      <4>3. pc'[t] = "await"
        BY <4>1, ThreadFacts DEF Goto
      <4>4. ~Holds(t)' /\ SemOf(t)'
        BY <4>3 DEF Holds, Sending, SemOf
      <4>5. request_sem' \in {0, 1}
        BY <4>1 DEF SemInv
      <4> QED
        BY <2>1, <3>1, <4>1, <4>2, <4>4, <4>5, SemStep
    <3>3. CASE Kind(t) \in UserTypes /\ call[t].waits
      <4>1. SemOf(t) /\ Holds(t) /\ state_valid
        BY <1>0, <3>3 DEF SemInv
      <4>2. read_expected /\ blockid = actreq[t] /\ request_sem = 0 /\ own[t] = actreq[t]
        BY <2>1, <3>3, <4>1 DEF SemOf
      <4>3. /\ Goto(t, "mustread") /\ UNCHANGED <<call, actreq, own>>
            /\ request_sem' = request_sem
        BY <3>1, <3>3, <4>1, <4>2 DEF EndSend, KeepsSemaphore
      <4>4. MovesOnly(t)
        BY <3>1, <4>3, MovesOneThread
      <4>5. pc'[t] = "mustread"
        BY <4>3, ThreadFacts DEF Goto
      <4>6. SemOf(t)'
        BY <2>1, <4>2, <4>3, <4>5 DEF SemOf
      <4> QED
        BY <2>1, <4>1, <4>2, <4>3, <4>4, <4>6, SemStep
    <3>4. CASE Kind(t) \in UserTypes /\ ~call[t].waits
      <4>1. /\ Return(t, "idle")
            /\ request_sem' = request_sem \/ request_sem' = request_sem + 1
        BY <3>1, <3>4 DEF EndSend
      <4> QED
        BY <1>0, <2>1, <3>1, <3>4, <4>1, SemReturn
    <3> QED
      BY <3>2, <3>3, <3>4
  <2> QED
    BY <2>2, <2>3
<1> QED
  BY <1>3, <1>4, <1>5, <1>6 DEF Send

\* The other steps of a thread keep it.
LEMMA SemCall ==
    ASSUME ThreadInv, FlagTypes, SemInv, NEW t \in Threads,
           \/ \E c \in Calls : BeginWrite(t, c)
           \/ BeginRead(t) \/ BeginAttrib(t) \/ mwsocket_release(t)
           \/ StartWrite(t) \/ EndRead(t) \/ AwaitResponse(t)
           \/ mwsocket_put_sockinst(t)
    PROVE  SemInv'
<1> USE DEF refVars, readVars
<1>0. SemOf(t) /\ state_valid /\ request_sem \in {0, 1}
  BY DEF SemInv
<1>1. CASE StartWrite(t)
  <2>1. request_sem = 1 /\ pc[t] = "write" /\ UNCHANGED <<state_valid, blockid>>
    BY <1>0, <1>1 DEF StartWrite
  <2>2. CASE Return(t, "idle") /\ UNCHANGED <<refVars, request_sem>>
    BY <2>1, <2>2, SemReturn
  <2>3. CASE ~(Return(t, "idle") /\ UNCHANGED <<refVars, request_sem>>)
    <3>1. /\ mwsocket_create_active_request(t, call[t].type)
          /\ request_sem' = request_sem - 1 /\ own' = [own EXCEPT ![t] = next_id]
          /\ Goto(t, "slot") /\ UNCHANGED <<read_expected, call>>
      BY <1>1, <2>3 DEF StartWrite
    <3>2. /\ actreq' = [actreq EXCEPT ![t] = next_id]
          /\ type' = [type EXCEPT ![next_id] = call[t].type]
      BY <3>1 DEF mwsocket_create_active_request
    <3>3. MovesOnly(t)
      BY <3>1, <3>2, MovesOneThread
    <3>4. pc'[t] = "slot" /\ actreq'[t] = next_id /\ own'[t] = next_id
      BY <3>1, <3>2, ThreadFacts DEF Goto
    <3>5. request_sem' = 0
      BY <2>1, <3>1
    <3>6. SemOf(t)'
      BY <3>4, <3>5 DEF SemOf
    <3> QED
      BY <2>1, <3>3, <3>5, <3>6, SemStep
  <2> QED
    BY <2>2, <2>3
<1>2. CASE BeginRead(t)
  <2>1. pc[t] = "mustread" /\ UNCHANGED <<state_valid, blockid, type>>
    BY <1>2 DEF BeginRead
  <2>2. /\ Holds(t) /\ request_sem = 0 /\ own[t] = actreq[t] /\ blockid = actreq[t]
    BY <1>0, <2>1 DEF Holds, SemOf
  <2>3. CASE Return(t, "idle") /\ request_sem' = request_sem + 1
    BY <2>1, <2>2, <2>3, SemReturn
  <2>4. CASE ~(Return(t, "idle") /\ request_sem' = request_sem + 1)
    <3>1. /\ actreq' = [actreq EXCEPT ![t] = blockid] /\ Goto(t, "read")
          /\ UNCHANGED <<request_sem, call, own>>
      BY <1>2, <2>4 DEF BeginRead
    <3>2. MovesOnly(t)
      BY <2>1, <3>1, MovesOneThread
    <3>3. pc'[t] = "read" /\ actreq'[t] = actreq[t] /\ own'[t] = own[t]
      BY <2>2, <3>1, ThreadFacts DEF Goto
    <3>4. SemOf(t)'
      BY <2>2, <3>1, <3>3 DEF SemOf
    <3> QED
      BY <2>1, <2>2, <3>1, <3>2, <3>4, SemStep
  <2> QED
    BY <2>3, <2>4
<1>3. CASE EndRead(t)
  <2>1. /\ pc[t] = "read" /\ Return(t, "idle") /\ request_sem' = request_sem + 1
        /\ UNCHANGED <<type, state_valid, blockid>>
    BY <1>3 DEF EndRead, mwsocket_destroy_active_request
  <2>2. Holds(t)
    BY <2>1 DEF Holds
  <2> QED
    BY <2>1, <2>2, SemReturn
<1>4. CASE AwaitResponse(t)
  <2>1. /\ UNCHANGED <<type, readVars>>
        /\ \E x \in {"idle", "closed"} : Return(t, x)
    BY <1>4 DEF AwaitResponse, mwsocket_destroy_active_request
  <2> QED
    BY <2>1, SemReturn
<1>5. CASE \/ \E c \in Calls : BeginWrite(t, c)
           \/ BeginAttrib(t) \/ mwsocket_release(t) \/ mwsocket_put_sockinst(t)
  <2>1. /\ UNCHANGED readVars
        /\ \/ \E x \in {"write", "closed", "done"} :
                Goto(t, x) /\ UNCHANGED <<type, actreq>>
           \/ \E k \in {"Attrib", "Close"} :
                Goto(t, "slot") /\ mwsocket_create_active_request(t, k)
    BY <1>5 DEF BeginWrite, BeginAttrib, mwsocket_release, mwsocket_put_sockinst,
       mwsocket_close_remote, threadVars
  <2>2. own' = own /\ (call' = call \/ \E c : call' = [call EXCEPT ![t] = c])
    BY <1>5 DEF BeginWrite, BeginAttrib, mwsocket_release, mwsocket_put_sockinst
  <2>3. ASSUME NEW x \in {"write", "closed", "done"}, Goto(t, x),
               UNCHANGED <<type, actreq>>
        PROVE  SemInv'
    <3>1. MovesOnly(t)
      BY <2>2, <2>3, MovesOneThread
    <3>2. pc'[t] = x
      BY <2>3, ThreadFacts DEF Goto
    <3>3. ~Holds(t)' /\ SemOf(t)'
      BY <3>2 DEF Holds, Sending, SemOf
    <3> QED
      BY <1>0, <2>1, <3>1, <3>3, SemStep
  <2>4. ASSUME NEW k \in {"Attrib", "Close"}, Goto(t, "slot"),
               mwsocket_create_active_request(t, k)
        PROVE  SemInv'
    <3>1. /\ actreq' = [actreq EXCEPT ![t] = next_id]
          /\ type' = [type EXCEPT ![next_id] = k]
      BY <2>4 DEF mwsocket_create_active_request
    <3>2. MovesOnly(t)
      BY <2>2, <2>4, <3>1, MovesOneThread
    <3>3. pc'[t] = "slot" /\ actreq'[t] = next_id
      BY <2>4, <3>1, ThreadFacts DEF Goto
    <3>4. next_id \in Ids
      <4>1. ~released
        BY <1>5, <2>4, <3>3, ThreadFacts
        DEF BeginAttrib, MayCall, mwsocket_release, BeginWrite, mwsocket_put_sockinst, Goto
      <4> QED
        BY <4>1, IdsInRange DEF Ids
    <3>5. Kind(t)' = k
      BY <3>1, <3>3, <3>4 DEF Kind, ThreadInv, ThreadTypes
    <3>6. ~Holds(t)' /\ SemOf(t)'
      BY <3>3, <3>5 DEF Holds, Sending, SemOf, UserTypes
    <3> QED
      BY <1>0, <2>1, <3>2, <3>6, SemStep
  <2> QED
    BY <2>1, <2>3, <2>4
<1> QED
  BY <1>1, <1>2, <1>3, <1>4, <1>5

\* Every step keeps it.
LEMMA SemNext ==
    ASSUME ThreadInv, FlagTypes, SemInv, Calm
    PROVE  SemInv'
<1>1. ASSUME \/ Consumes \/ Answers \/ InsCrashes \/ mw_xen_release_ins
             \/ mwsocket_reap_dead_sock_instances \/ Exit \/ UNCHANGED stateVars
      PROVE  SemInv'
  <2> USE DEF refVars
  <2>1. UNCHANGED <<readVars, threadVars, type>>
    <3>1. CASE Consumes
      BY <3>1 DEF Consumes, FindRequest, mwsocket_postproc_no_context, DecideFate,
         mwsocket_destroy_active_request
    <3>2. CASE Answers \/ InsCrashes \/ mw_xen_release_ins \/ Exit
      BY <3>2 DEF Answers, InsAnswers, InsCrashes, mw_xen_release_ins, Exit
    <3>3. CASE mwsocket_reap_dead_sock_instances
      BY <3>3 DEF mwsocket_reap_dead_sock_instances, BeginWalk, ReapRequest,
         ReapSocket, mwsocket_destroy_active_request
    <3>4. CASE UNCHANGED stateVars
      BY <3>4 DEF stateVars
    <3> QED
      BY <1>1, <3>1, <3>2, <3>3, <3>4
  <2> QED
    BY <2>1 DEF SemInv, SemOf, Holds, Sending, Kind, readVars, threadVars
<1> QED
  BY <1>1, SemSend, SemCall DEF Calm
-----------------------------------------------------------------------------
(* The consumer's request.                                                 *)

\* It is active, unless a wait for it timed out.
LateInv == ConsumerDangling => race # {}

\* What happened stays recorded.
LEMMA RaceGrows == Calm => race \subseteq race'
<1> SUFFICES ASSUME Calm
             PROVE  race \subseteq race'
  OBVIOUS
<1> USE DEF walkVars, insVars, ringVars
<1>1. ASSUME NEW t \in Threads, Send(t)
      PROVE  race' = race
  BY <1>1 DEF Send, mw_xen_get_next_request_slot, PrepareRequest, PrepareClose,
     TryCloseLock, mw_xen_release_request
<1>2. ASSUME NEW t \in Threads, AwaitResponse(t)
      PROVE  race \subseteq race'
  BY <1>2 DEF AwaitResponse
<1>3. ASSUME NEW t \in Threads, \/ \E c \in Calls : BeginWrite(t, c)
                                \/ BeginRead(t) \/ BeginAttrib(t)
                                \/ mwsocket_release(t) \/ StartWrite(t)
                                \/ EndRead(t) \/ mwsocket_put_sockinst(t)
      PROVE  race' = race
  BY <1>3 DEF BeginWrite, BeginRead, BeginAttrib, mwsocket_release, StartWrite,
     EndRead, mwsocket_put_sockinst
<1>4. CASE Consumes \/ Answers \/ InsCrashes \/ mw_xen_release_ins \/ Exit
  BY <1>4 DEF Consumes, FindRequest, mwsocket_postproc_no_context, DecideFate,
     Answers, InsAnswers, InsCrashes, mw_xen_release_ins, Exit
<1>5. CASE mwsocket_reap_dead_sock_instances
  BY <1>5 DEF mwsocket_reap_dead_sock_instances, BeginWalk, ReapRequest, ReapSocket
<1>6. CASE UNCHANGED stateVars
  BY <1>6 DEF stateVars
<1> QED
  BY <1>1, <1>2, <1>3, <1>4, <1>5, <1>6 DEF Calm

\* Every step keeps it, unless the reaper touches a request that somebody else
\* works on.
LEMMA LateNext ==
    ASSUME Base, WalkInv, LateInv, Calm, "reaper" \notin race'
    PROVE  LateInv'
<1>0. ThreadInv /\ FlagTypes /\ RequestInv /\ OnePlace
  BY DEF Base, RequestInv
<1>1. race \subseteq race'
  BY RaceGrows
<1>2. ASSUME cpc' # "idle" => cpc # "idle" /\ response' = response,
             \A id \in Handled : id \in active'
      PROVE  LateInv'
  BY <1>1, <1>2 DEF LateInv, ConsumerDangling, Handled
<1>3. ASSUME NEW t \in Threads, Send(t)
      PROVE  LateInv'
  <2>1. Sending(t)
    BY <1>3 DEF Send, mw_xen_get_next_request_slot, PrepareRequest, PrepareClose,
       TryCloseLock, mw_xen_release_request, Sending
  <2>2. actreq[t] \notin Handled
    BY <1>0, <2>1, SenderFacts
  <2>3. UNCHANGED <<cpc, response>>
    BY <1>3 DEF Send, mw_xen_get_next_request_slot, PrepareRequest, PrepareClose,
       TryCloseLock, mw_xen_release_request, consumerVars
  <2>4. active' = active \/ active' = active \ {actreq[t]}
    BY <1>3 DEF Send, mw_xen_get_next_request_slot, PrepareRequest, PrepareClose,
       TryCloseLock, mw_xen_release_request, SendFailed,
       mwsocket_destroy_active_request, refVars
  <2>5. Handled \subseteq active
    BY DEF Handled
  <2> QED
    BY <1>2, <2>2, <2>3, <2>4, <2>5
<1>4. ASSUME NEW t \in Threads,
             \/ \E c \in Calls : BeginWrite(t, c)
             \/ BeginRead(t) \/ BeginAttrib(t) \/ mwsocket_release(t)
             \/ StartWrite(t) \/ EndRead(t) \/ AwaitResponse(t)
             \/ mwsocket_put_sockinst(t)
      PROVE  LateInv'
  <2>1. UNCHANGED <<cpc, response>>
    BY <1>4, CallFrame
  <2>2. CASE active \subseteq active'
    BY <1>2, <2>1, <2>2 DEF Handled
  <2>3. CASE EndRead(t)
    <3>1. actreq[t] \in arrived /\ active' = active \ {actreq[t]}
      BY <2>3 DEF EndRead, mwsocket_destroy_active_request
    <3>2. actreq[t] \notin Handled /\ Handled \subseteq active
      BY <1>0, <3>1 DEF OnePlace, Handled
    <3> QED
      BY <1>2, <2>1, <3>1, <3>2
  <2>4. CASE AwaitResponse(t)
    <3>1. /\ active' = active \ {actreq[t]}
          /\ actreq[t] \in arrived \/ (Handles(actreq[t]) => race' # {})
      BY <2>4 DEF AwaitResponse, mwsocket_destroy_active_request
    <3>2. CASE actreq[t] \in arrived
      <4>1. actreq[t] \notin Handled /\ Handled \subseteq active
        BY <1>0, <3>2 DEF OnePlace, Handled
      <4> QED
        BY <1>2, <2>1, <3>1, <4>1
    <3>3. CASE Handles(actreq[t]) => race' # {}
      BY <1>1, <2>1, <3>1, <3>3 DEF LateInv, ConsumerDangling, Handles
    <3> QED
      BY <3>1, <3>2, <3>3
  <2>5. ASSUME ~(EndRead(t) \/ AwaitResponse(t))
        PROVE  active \subseteq active'
    BY <1>4, <2>5 DEF BeginWrite, BeginRead, BeginAttrib, mwsocket_release,
       mwsocket_close_remote, StartWrite, mwsocket_put_sockinst,
       mwsocket_create_active_request, refVars
  <2> QED
    BY <2>2, <2>3, <2>4, <2>5
<1>5. CASE ~ConsumerDangling /\ Consumes
  <2>1. CASE FindRequest
    BY <2>1 DEF FindRequest, LateInv, ConsumerDangling, consumerVars, refVars
  <2>2. CASE mwsocket_postproc_no_context
    BY <1>5, <2>2 DEF mwsocket_postproc_no_context, LateInv, ConsumerDangling, refVars
  <2>3. CASE DecideFate
    BY <2>3 DEF DecideFate, LateInv, ConsumerDangling
  <2> QED
    BY <1>5, <2>1, <2>2, <2>3 DEF Consumes
<1>6. CASE ~ReaperDangling /\ ReapRequest
  <2>1. /\ UNCHANGED <<cpc, response>> /\ ~Handles(curr_ar)
        /\ active' = active \/ active' = active \ {curr_ar}
    BY <1>6 DEF ReapRequest, mwsocket_destroy_active_request, refVars, consumerVars
  <2>2. curr_ar \notin Handled /\ Handled \subseteq active
    BY <2>1 DEF Handled, Handles
  <2> QED
    BY <1>2, <2>1, <2>2
<1>7. CASE Answers \/ InsCrashes \/ mw_xen_release_ins \/ Exit \/ BeginWalk
             \/ ReapSocket \/ UNCHANGED stateVars
  <2>1. UNCHANGED <<cpc, response, active>>
    BY <1>7 DEF Answers, InsAnswers, InsCrashes, mw_xen_release_ins, Exit, BeginWalk,
       ReapSocket, stateVars, consumerVars, refVars
  <2> QED
    BY <1>2, <2>1 DEF Handled
<1> QED
  BY <1>3, <1>4, <1>5, <1>6, <1>7 DEF Calm, mwsocket_reap_dead_sock_instances
-----------------------------------------------------------------------------
\* What holds until the reaper touches a request that somebody else works on.
OwnersInv == RequestInv /\ CloseInv /\ LateInv

SocketInv ==
    /\ FlagTypes /\ RingTypes /\ ThreadInv /\ WalkInv /\ RefCounted /\ SemInv
    /\ oops \in Callers \cup KernelThreads \cup {Nobody}
    /\ "reaper" \notin race => OwnersInv
    /\ NoUseAfterFree

\* It holds in the initial states.
LEMMA SocketInit == Init => SocketInv
<1> SUFFICES ASSUME Init
             PROVE  SocketInv
  OBVIOUS
<1>1. Base
  BY BaseInit
<1>2. RefCounted
  <2>1. active = {} /\ refct = 1 /\ ~\E t \in Threads : pc[t] = "done"
    BY DEF Init, Callers
  <2> QED
    BY <2>1, FS_EmptySet DEF RefCounted
<1>3. LocksCounted
  <2>1. Locked = {} /\ close_readers = 0
    BY DEF Init, Locked
  <2> QED
    BY <2>1, FS_EmptySet DEF LocksCounted
<1>4. CloseOrder
  <2>1. InRing = {} /\ sent = << >> /\ close_blockid = Unset
    BY DEF Init, InRing, SentIds, AnsweredIds
  <2>2. \A t \in Threads : pc[t] = "idle"
    BY DEF Init, Callers
  <2>3. 1..Len(sent) = {} /\ DOMAIN sent = {}
    BY <2>1
  <2> QED
    BY <2>1, <2>2, <2>3
    DEF CloseOrder, UserActive, BlockPushed, BlockIsLast, CloseUnblocked,
        CloseWaitsForRequests
<1>5. WalkInv
  BY DEF Init, WalkInv
<1>6. LateInv
  BY DEF Init, LateInv, ConsumerDangling
<1>7. SemInv
  BY <1>1 DEF Base, RequestInv, OwnRequest, Apart, SemInv, SemOf
<1>8. NoUseAfterFree /\ oops \in Callers \cup KernelThreads \cup {Nobody}
  BY SocketAssumption DEF Init, NoUseAfterFree, Nobody
<1> QED
  BY <1>1, <1>2, <1>3, <1>4, <1>5, <1>6, <1>7, <1>8
  DEF Base, SocketInv, OwnersInv, CloseInv

\* A step records at most one use of freed memory, and does nothing else then.
LEMMA OopsStep ==
    ASSUME [Next]_vars
    PROVE  \/ oops' = oops
           \/ /\ race' = race
              /\ \/ \E t \in Threads : Dangling(t) /\ oops' = t
                 \/ ConsumerDangling /\ oops' = "consumer"
                 \/ oops' = "reaper"
<1>1. ASSUME NEW who, UseFreed(who)
      PROVE  oops' = who /\ race' = race
  BY <1>1 DEF UseFreed, stateVars, ringVars, insVars, walkVars
<1>2. CASE \E t \in Threads : InCall(t) \/ Reads(t)
  BY <1>1, <1>2, Zenon DEF InCall, Reads, Unharmed
<1>3. CASE Ins \/ ReleaseIns \/ Consumer \/ Reaper
  BY <1>1, <1>3, Zenon DEF Ins, ReleaseIns, Consumer, Reaper, Unharmed
<1>4. CASE Unharmed \/ UNCHANGED vars
  BY <1>4 DEF vars, Unharmed
<1> QED
  BY <1>2, <1>3, <1>4 DEF Next

\* Every step keeps it.
LEMMA SocketNext == SocketInv /\ [Next]_vars => SocketInv'
<1> SUFFICES ASSUME SocketInv, [Next]_vars
             PROVE  SocketInv'
  OBVIOUS
<1>1. Calm
  BY StepsAreCalm
<1>2. race \subseteq race'
  BY <1>1, RaceGrows
<1>3. FlagTypes' /\ RingTypes' /\ ThreadInv' /\ WalkInv' /\ RefCounted' /\ SemInv'
  BY <1>1, FlagsNext, RingTypesNext, ThreadsNext, WalkNext, RefCountedNext, SemNext
  DEF SocketInv
<1>4. ASSUME "reaper" \notin race'
      PROVE  OwnersInv'
  <2>1. Base /\ CloseInv /\ LateInv /\ WalkInv
    BY <1>2, <1>4 DEF SocketInv, OwnersInv, Base
  <2> QED
    BY <1>1, <1>4, <2>1, BaseNext, CloseNext, LateNext DEF Base, OwnersInv
<1>5. NoUseAfterFree' /\ oops' \in Callers \cup KernelThreads \cup {Nobody}
  <2>1. CASE oops' = oops
    BY <1>2, <2>1 DEF SocketInv, NoUseAfterFree
  <2>2. ASSUME race' = race, NEW t \in Threads, Dangling(t), oops' = t
        PROVE  NoUseAfterFree' /\ oops' \in Callers \cup KernelThreads \cup {Nobody}
    <3>1. t \in Callers /\ t # "consumer"
      BY SocketAssumption DEF Callers, KernelThreads
    <3>2. "reaper" \in race
      BY <2>2, NotFreed DEF SocketInv, OwnersInv, Base
    <3> QED
      BY <2>2, <3>1, <3>2 DEF NoUseAfterFree
  <2>3. ASSUME race' = race, ConsumerDangling, oops' = "consumer"
        PROVE  NoUseAfterFree' /\ oops' \in Callers \cup KernelThreads \cup {Nobody}
    <3>1. "consumer" \notin Callers /\ "consumer" \in KernelThreads
      BY SocketAssumption DEF KernelThreads
    <3>2. race # {}
      BY <2>3 DEF SocketInv, OwnersInv, LateInv
    <3> QED
      BY <2>3, <3>1, <3>2 DEF NoUseAfterFree
  <2>4. ASSUME oops' = "reaper"
        PROVE  NoUseAfterFree' /\ oops' \in Callers \cup KernelThreads \cup {Nobody}
    BY <2>4, SocketAssumption DEF NoUseAfterFree, KernelThreads
  <2> QED
    BY <2>1, <2>2, <2>3, <2>4, OopsStep
<1> QED
  BY <1>3, <1>4, <1>5 DEF SocketInv

\* The inductive invariant.
LEMMA SocketInvariant == Spec => []SocketInv
  BY SocketInit, SocketNext, PTL DEF Spec

\* What the invariant says of the variables' types.
LEMMA SocketTypes == SocketInv => TypeOK
<1> SUFFICES ASSUME SocketInv
             PROVE  TypeOK
  OBVIOUS
<1>1. FlagTypes /\ RingTypes /\ ThreadInv /\ ThreadTypes /\ IdsGiven /\ WalkInv
  BY DEF SocketInv, ThreadInv
<1>2. /\ 1..(next_id - 1) \subseteq Ids /\ 0..(next_id - 1) \subseteq Ids \cup {Unset}
      /\ next_id \in 1..(MaxRequests + 1)
  BY <1>1, IdsInRange
<1>3. refct \in Nat
  <2>1. Cardinality(active) \in Nat
    BY <1>1, ActiveFinite
  <2> QED
    BY <2>1 DEF SocketInv, RefCounted
<1>4. close_readers \in (IF "reaper" \in race THEN Int ELSE Nat)
  <2>1. Cardinality(Locked) \in Nat
    BY <1>1, LockedFinite
  <2>2. "reaper" \notin race => LocksCounted
    BY DEF SocketInv, OwnersInv, CloseInv
  <2> QED
    BY <1>1, <2>1, <2>2 DEF LocksCounted, WalkInv
<1>5. {state_valid, read_expected, close_writer, remote_close_requested,
       remote_surprise_close, ins_alive, released, exiting, ins_runs, ins_up,
       forced}
        \subseteq BOOLEAN
  BY <1>1, Zenon DEF FlagTypes
<1>6. /\ {blockid, close_blockid, curr_ar, next_ar} \subseteq Ids \cup {Unset}
      /\ active \subseteq Ids /\ deliver_response \subseteq Ids /\ arrived \subseteq Ids
  BY <1>1, <1>2 DEF IdsGiven, WalkInv
<1>7. /\ actreq \in [Callers -> Ids \cup {Unset}] /\ own \in [Callers -> Ids \cup {Unset}]
  BY <1>1, <1>2 DEF IdsGiven
<1>8. /\ request_sem \in Nat /\ request_lock \in Callers \cup {Nobody}
      /\ pc \in [Callers -> {"idle", "write", "slot", "prepare", "trylock",
                   "push", "mustread", "read", "await", "closed", "done"}]
      /\ call \in [Callers -> Calls \cup {NoCall}]
      /\ type \in [Ids -> RequestTypes \cup {"none"}]
  BY <1>1 DEF ThreadTypes, PcValues
<1>9. /\ sent \in Seq(Ids) /\ responses \in Seq([id : Ids, closed : BOOLEAN])
      /\ cpc \in {"idle", "found", "decide"}
      /\ response \in [id : Ids \cup {Unset}, closed : BOOLEAN]
  BY <1>1 DEF RingTypes
<1>10. /\ rpc \in {"idle", "walk", "done"}
       /\ race \subseteq {"timeout", "reaper"}
       /\ oops \in Callers \cup KernelThreads \cup {Nobody}
  BY <1>1 DEF WalkInv, SocketInv
<1> QED
  BY <1>2, <1>3, <1>4, <1>5, <1>6, <1>7, <1>8, <1>9, <1>10 DEF TypeOK

\* The variables keep their types; in particular the reference count never
\* drops below zero, whoever destroys requests, and the close lock's count of
\* readers does not as long as the reaper leaves alone what others work on.
THEOREM SocketTypeCorrect == Spec => []TypeOK
  BY SocketInvariant, SocketTypes, PTL

\* The reference count of a socket is that of its active requests and of its
\* open file, whoever creates and destroys the requests, and in whatever order:
\* the threads, the response consumer or the reaper of a dead INS.
THEOREM ReferencesAlwaysCounted == Spec => []RefCounted
<1>1. SocketInv => RefCounted
  BY DEF SocketInv
<1> QED
  BY <1>1, SocketInvariant, PTL

\* Freed memory is used by the consumer only if a wait timed out on the request
\* the consumer had found, or the reaper touched it; and by a thread of the
\* process only if the reaper touched a request that was being sent or
\* completed.
THEOREM NeverUsedAfterFree == Spec => []NoUseAfterFree
<1>1. SocketInv => NoUseAfterFree
  BY DEF SocketInv
<1> QED
  BY <1>1, SocketInvariant, PTL

\* A thread that reads gets the response to the request it wrote, although the
\* socket remembers one blockid for all its threads: request_sem is held from
\* the write to the read.
THEOREM AlwaysReadsOwnResponse == Spec => []ReadsOwnResponse
<1>1. SocketInv => ReadsOwnResponse
  BY DEF SocketInv, SemInv, SemOf, Holds, ReadsOwnResponse
<1> QED
  BY <1>1, SocketInvariant, PTL

\* A Close that did not give up waiting is pushed on the ring only when every
\* request before it that close() has to wait for is answered, although the
\* socket remembers only the latest of them.
THEOREM CloseAlwaysWaits == Spec => []CloseWaitsForRequests
<1>1. SocketInv => CloseWaitsForRequests
  <2> SUFFICES ASSUME SocketInv
               PROVE  CloseWaitsForRequests
    OBVIOUS
  <2>1. CASE "reaper" \notin race
    BY <2>1 DEF SocketInv, OwnersInv, CloseInv, CloseOrder
  <2>2. CASE "reaper" \in race
    <3>1. sent = << >>
      BY <2>2 DEF SocketInv, WalkInv, FlagTypes
    <3>2. DOMAIN sent = {}
      BY <3>1
    <3> QED
      BY <3>2 DEF CloseWaitsForRequests
  <2> QED
    BY <2>1, <2>2
<1> QED
  BY <1>1, SocketInvariant, PTL
=============================================================================
