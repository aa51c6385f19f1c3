----------------------------- MODULE MCSmartLock -----------------------------
(* Three Loxes, so that a registration finds zero, one, two and more       *)
(* acquirers, with up to two anonymous ones among them.                    *)
EXTENDS SmartLock

CONSTANTS t1, t2, t3, lox1, lox2, lox3

Symmetry == Permutations({t1, t2, t3}) \cup Permutations({lox1, lox2, lox3})
=============================================================================
