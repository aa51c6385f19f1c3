---------------------------- MODULE MCThreadLock ----------------------------
(* Three threads, so that a release can wake the wrong one of two waiters  *)
(* while a third barges in; two levels of nesting, the second one at the   *)
(* threshold of the recursion warning.                                     *)
EXTENDS ThreadLock, TLC
=============================================================================
