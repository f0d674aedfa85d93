---------------------------- MODULE MCIndexSystem ---------------------------
(***************************************************************************)
(* The instance of IndexSystem that TLC checks: one crawler and the server *)
(* over one or two sitting days.                                           *)
(***************************************************************************)
EXTENDS IndexSystem, TLC

CONSTANTS i1, i2, i3, i4, i5, b1, b2, b3, b4, k1, k2

Files == Permutations(Inode) \cup Permutations(Build)
=============================================================================
