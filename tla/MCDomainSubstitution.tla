------------------------- MODULE MCDomainSubstitution -------------------------
(* Two letters, one of them in both cases, and d, the internal domain of    *)
(* reports. The rules swap names, grow a path, cut it, move it below        *)
(* another domain or divert the reports.                                    *)
EXTENDS DomainSubstitution

MCFold == [c \in {"/", "$", "a", "A", "b", "d"} |-> IF c = "A" THEN "a" ELSE c]

Rule(type, search) == [type |-> type, search |-> search]

MCSearchPaths == {Rule("Exact",      <<"/", "a">>),
                  Rule("StartsWith", <<"/", "b">>),
                  Rule("EndsWith",   <<"a">>),
                  Rule("EndsWith",   <<"/">>),
                  Rule("Substring",  <<"d">>)}
MCReplacements == {<<"/", "b">>, <<"a">>, <<"/", "A", "/", "a">>}
\* A path of its own, one below a thread's and a file's domain, a reset to the
\* root and an internal one.
MCRequests     == {[path |-> <<"b", "/">>, inner |-> <<>>, outer |-> <<>>],
                   [path |-> <<"b">>, inner |-> <<>>, outer |-> <<<<"/", "A">>, <<"b">>>>],
                   [path |-> <<>>, inner |-> <<<<"a">>>>, outer |-> <<>>],
                   [path |-> <<"$", "/", "a">>, inner |-> <<<<"a">>>>, outer |-> <<>>]}
MCReport       == <<"d">>
=============================================================================
