---------------------------- MODULE MCMwSocket ----------------------------
(* Small instances of MwSocket.                                            *)
EXTENDS MwSocket

\* A send that is not waited for, and requests whose responses are read: one
\* that close() waits for, one that it does not, and one that is exempt from
\* pending errors.
MCCalls == {[type |-> "Send", waits |-> FALSE],
            [type |-> "GetName", waits |-> TRUE],
            [type |-> "Recv", waits |-> TRUE],
            [type |-> "Shutdown", waits |-> TRUE]}

\* The same without the exempt one, for the run with temporal properties.
MCLiveCalls == MCCalls \ {[type |-> "Shutdown", waits |-> TRUE]}
===========================================================================
