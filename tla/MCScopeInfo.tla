------------------------------ MODULE MCScopeInfo ------------------------------
(* Four files, more than the cache has entries, one of them without a path,  *)
(* two rules for two of the others each, and one that is detected.           *)
EXTENDS ScopeInfo

MCMatched  == [r \in {"r1", "r2", "auto"} |->
                 CASE r = "r1" -> {"a", "b"} [] r = "r2" -> {"b", "c"} [] r = "auto" -> {"a", "c"}]
MCAutoRule == [f \in {"a", "b", "c"} |-> IF f = "b" THEN "whole" ELSE "auto"]
=============================================================================
