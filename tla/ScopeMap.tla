------------------------------ MODULE ScopeMap ------------------------------
(***************************************************************************)
(* What a ScopeStore promises, without the tree of paths: every scope has  *)
(* a list of values of its own, the last one stored being the innermost.   *)
(* What is done to a scope leaves all others alone.                        *)
(***************************************************************************)
EXTENDS Naturals, SequencesExt

CONSTANTS Scopes,      \* all scopes that there are or could be
          Objects      \* the values

VARIABLES values,      \* values[s]: the values of scope s, outer ones first
          stacks       \* the scopes that keep several values

Stored == UNION {ToSet(values[s]) : s \in Scopes}

Init == values = [s \in Scopes |-> <<>>] /\ stacks \in SUBSET Scopes

\* Values of scope s change, and of no other scope: one is added or one taken away.
Others(s)  == values' = [values EXCEPT ![s] = values'[s]]

Put(s, o)  == /\ values'[s] = IF s \in stacks THEN Append(values[s], o) ELSE <<o>>
              /\ o \notin Stored

Take(s, i) == values'[s] = RemoveAt(values[s], i)

Change(s)  == /\ values'[s] # values[s]
              /\ (\E o \in Objects : Put(s, o)) \/ (\E i \in DOMAIN values[s] : Take(s, i))
              /\ Others(s)

Clear == values' = [s \in Scopes |-> <<>>]

Next == /\ Clear \/ \E s \in Scopes : Change(s)
        /\ UNCHANGED stacks

Spec == Init /\ [][Next]_<<values, stacks>>
=============================================================================
