----------------------------- MODULE MCXenRing -----------------------------
(* Small instances of XenRing.  Two slots and index arithmetic modulo four   *)
(* make the ring fill up, and the indices wrap, within a few requests.       *)
EXTENDS XenRing, TLC

\* The only states without a successor are the finished ones.
MCNext == Next \/ (Finished /\ UNCHANGED vars)

MCSpec == Init /\ [][MCNext]_vars
MCFairSpec == MCSpec /\ Fairness

Symmetry == Permutations(Senders)
=============================================================================
