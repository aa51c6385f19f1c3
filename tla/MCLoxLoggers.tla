---------------------------- MODULE MCLoxLoggers ----------------------------
(* Three loggers, two of them of the same name, and two more domains in    *)
(* the main tree, /NET and /NET/TCP, of which the configuration knows the  *)
(* inner one. One client asks for three settings in three calls, another   *)
(* one for a single setting in four.                                       *)
EXTENDS LoxLoggers, TLC

CONSTANTS l1, l2, l3

MCNameOf   == [l \in Loggers |-> IF l = l3 THEN "FILE" ELSE "CONSOLE"]
MCWithin   == [d \in Domains |->
                 CASE d = "/NET"     -> {"/", "/NET"}
                   [] d = "/NET/TCP" -> {"/", "/NET", "/NET/TCP"}
                   [] OTHER          -> {d}]
MCConfig   == [n \in {"CONSOLE", "FILE"} |-> [d \in Domains |->
                 IF n = "CONSOLE" /\ d \in {"/NET/TCP", "$"} THEN "Info" ELSE NoRule]]
MCClients  == [n \in 3..4 |->
                 IF n = 3 THEN {[verbosity |-> "Off", priority |-> 100],
                                [verbosity |-> "Verbose", priority |-> 100],
                                [verbosity |-> "Verbose", priority |-> 1000]}
                          ELSE {[verbosity |-> "Verbose", priority |-> 100]}]

\* l1 and l2 differ in nothing.
Symmetry == Permutations({l1, l2})
=============================================================================
