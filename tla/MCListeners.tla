---------------------------- MODULE MCListeners ----------------------------
(* Small instances of Listeners.                                           *)
EXTENDS Listeners
============================================================================
