------------------------------- MODULE MCReports -------------------------------
(* Three threads. *)
EXTENDS Reports
=============================================================================
