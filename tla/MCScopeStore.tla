---------------------------- MODULE MCScopeStore ----------------------------
(* Source files whose paths share directories, and the beginning of a name. *)
EXTENDS ScopeStore

Place(path) == [path |-> path, file |-> <<"f">>, method |-> <<"m">>]

\* /x/a, /x/ab, /y, and a directory with the name of a file's key, /y/f#
MCPlaces == {Place(<<"/", "x", "/", "a">>), Place(<<"/", "x", "/", "a", "b">>), Place(<<"/", "y">>),
             Place(<<"/", "y", "/", "f", "#">>)}
=============================================================================
