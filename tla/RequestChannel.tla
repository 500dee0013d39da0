-------------------------- MODULE RequestChannel --------------------------
(***************************************************************************)
(* What the shared ring between the protected VM (PVM) and one isolated    *)
(* network stack (INS) promises its two users.  A request is sent once,    *)
(* reaches the INS in the order of sending, is answered once, in any       *)
(* order, and its response reaches the PVM in the order of answering.      *)
(***************************************************************************)
EXTENDS Naturals, Sequences

CONSTANT Ids          \* request identifiers

VARIABLES requests,   \* sent, not yet read by the INS
          open,       \* read by the INS, not yet answered
          responses,  \* answered, not yet consumed by the PVM
          done        \* consumed by the PVM

vars == <<requests, open, responses, done>>

Elements(seq) == {seq[n] : n \in DOMAIN seq}

Init == requests = << >> /\ open = {} /\ responses = << >> /\ done = {}

Send(id) ==
    /\ id \notin Elements(requests) \cup open \cup Elements(responses) \cup done
    /\ requests' = Append(requests, id)
    /\ UNCHANGED <<open, responses, done>>

Take ==
    /\ requests # << >>
    /\ open' = open \cup {Head(requests)}
    /\ requests' = Tail(requests)
    /\ UNCHANGED <<responses, done>>

Answer(id) ==
    /\ id \in open
    /\ open' = open \ {id}
    /\ responses' = Append(responses, id)
    /\ UNCHANGED <<requests, done>>

Deliver ==
    /\ responses # << >>
    /\ done' = done \cup {Head(responses)}
    /\ responses' = Tail(responses)
    /\ UNCHANGED <<requests, open>>

Next == Take \/ Deliver \/ \E id \in Ids : Send(id) \/ Answer(id)

Spec == Init /\ [][Next]_vars
=============================================================================
