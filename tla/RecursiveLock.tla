--------------------------- MODULE RecursiveLock ---------------------------
(***************************************************************************)
(* What the lock of alib/threads promises its clients, and nothing about   *)
(* how: an acquirement is granted only while no other thread holds one,    *)
(* nested acquirements of the holder are counted (or, in mode SingleLocks, *)
(* not counted), and the holder gives them back one release at a time.     *)
(***************************************************************************)
EXTENDS Naturals

CONSTANTS Threads,   \* the threads of the process
          MaxDepth   \* bound on the nesting of acquirements

LockModes == {"Recursive", "SingleLocks"}   \* enums::LockMode

VARIABLES lockMode,  \* fixed by the constructor
          held       \* the acquirements each thread was granted and has not given back

vars == <<lockMode, held>>

\* The counter after one more and after one less acquirement.
Nested(n)   == IF lockMode = "Recursive" THEN n + 1 ELSE 1
Unnested(n) == IF lockMode = "Recursive" THEN n - 1 ELSE 0

Init == /\ lockMode \in LockModes
        /\ held = [t \in Threads |-> 0]

Acquire(t) == /\ \A u \in Threads \ {t} : held[u] = 0
              /\ held[t] < MaxDepth
              /\ held' = [held EXCEPT ![t] = Nested(@)]
              /\ UNCHANGED lockMode

Release(t) == /\ held[t] > 0
              /\ held' = [held EXCEPT ![t] = Unnested(@)]
              /\ UNCHANGED lockMode

Next == \E t \in Threads : Acquire(t) \/ Release(t)

Spec == Init /\ [][Next]_vars
=============================================================================
