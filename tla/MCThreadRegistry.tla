--------------------------- MODULE MCThreadRegistry ---------------------------
(* The main thread, two foreign ones and three objects, with fewer platform *)
(* ids than threads: ids are given again.                                    *)
EXTENDS ThreadRegistry, TLC
CONSTANTS main, f1, f2, o1, o2, o3, p1, p2, p3
Symmetry == Permutations({f1, f2}) \cup Permutations({o1, o2, o3}) \cup Permutations({p1, p2, p3})
=============================================================================
