---------------------------- MODULE MCLogStatements ----------------------------
(* Domain /a/b below /a below the root, two loggers for /a and /a/b, one    *)
(* for the root and one for reports; calls of Once that share a line, a     *)
(* group, a file or nothing.                                                *)
EXTENDS LogStatements

MCParentOf  == [d \in {"/", "/a", "/a/b", "$/"} |->
                  CASE d = "/a/b" -> "/a" [] d = "/a" -> "/" [] OTHER -> "none"]
MCLoggersOf == [d \in {"/", "/a", "/a/b", "$/"} |-> IF d \in {"/", "$/"} THEN 1 ELSE 2]

Call(scope, file, line, group, quantity) ==
    [scope |-> scope, file |-> file, line |-> line, group |-> group,
     quantity |-> quantity, dom |-> "/a"]

MCOnceCalls == {Call("Global",   "f", "1", "none", 2),
                Call("Global",   "f", "2", "none", -2),
                Call("Global",   "e", "1", "none", 1),
                Call("Filename", "f", "2", "none", 1),
                Call("Filename", "f", "1", "g", 1),
                Call("Filename", "f", "2", "g", 2),
                Call("Global",   "f", "1", "g", -3),
                Call("Global",   "e", "2", "g", -3)}

MCDataKeys  == {[scope |-> "global", key |-> "none"], [scope |-> "global", key |-> "k"],
                [scope |-> "file",   key |-> "k"]}
MCClients   == [prefix |-> 4, once |-> 4, data |-> 6]
=============================================================================
