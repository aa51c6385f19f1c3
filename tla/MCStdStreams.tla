----------------------------- MODULE MCStdStreams -----------------------------
(* Two loggers: screen is shared by lox1 and lox2, printer has lox3 alone.  *)
EXTENDS StdStreams

CONSTANTS t1, t2, t3, lox1, lox2, lox3, screen, printer

SharedLoxes == [g \in Loggers |-> IF g = screen THEN {lox1, lox2} ELSE {lox3}]
Symmetry    == Permutations({t1, t2, t3}) \cup Permutations({lox1, lox2})
=============================================================================
