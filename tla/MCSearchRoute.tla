---------------------------- MODULE MCSearchRoute ---------------------------
(***************************************************************************)
(* The instance of SearchRoute that TLC checks: two handlers, one query on *)
(* two pages, one sitting, and a cache with room for three of the four     *)
(* entries.                                                                *)
(***************************************************************************)
EXTENDS SearchRoute, TLC

CONSTANTS t1, t2

Names == Permutations(Task)
=============================================================================
