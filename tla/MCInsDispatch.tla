--------------------------- MODULE MCInsDispatch ---------------------------
(* Small instances of InsDispatch.                                          *)
EXTENDS InsDispatch

\* The only states without a successor are the finished ones.
MCNext == Next \/ (Finished /\ UNCHANGED vars)

MCSpec == Init /\ [][MCNext]_vars
MCFairSpec == MCSpec /\ Fairness
=============================================================================
