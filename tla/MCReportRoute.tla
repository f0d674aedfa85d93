---------------------------- MODULE MCReportRoute ---------------------------
(***************************************************************************)
(* The instance of ReportRoute that TLC checks: two handlers, two reports  *)
(* of two editions, and a cache with room for one of them.                 *)
(***************************************************************************)
EXTENDS ReportRoute, TLC

CONSTANTS t1, t2, r1, r2

Names == Permutations(Task) \cup Permutations(Id)
=============================================================================
