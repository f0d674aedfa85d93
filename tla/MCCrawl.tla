------------------------------- MODULE MCCrawl ------------------------------
(***************************************************************************)
(* The instance of Crawl that TLC checks: two sitting days, so that a run  *)
(* can fetch one and skip the other.                                       *)
(***************************************************************************)
EXTENDS Crawl, TLC

CONSTANTS i1, i2, i3, i4, i5, b1, b2, b3, b4, k1, k2

Files == Permutations(Inode) \cup Permutations(Build)
=============================================================================
