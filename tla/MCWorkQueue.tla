---------------------------- MODULE MCWorkQueue ----------------------------
(* Small instance of WorkQueue: three slots, so that both indices wrap      *)
(* many times and the queue is met empty, partly filled and full.           *)
EXTENDS WorkQueue
=============================================================================
