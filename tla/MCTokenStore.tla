---------------------------- MODULE MCTokenStore ----------------------------
(***************************************************************************)
(* The instance of TokenStore that TLC checks: two labels, as many tokens  *)
(* as the configuration gives, and the files that the names and the open   *)
(* descriptors can refer to.                                               *)
(***************************************************************************)
EXTENDS TokenStore, TLC

CONSTANTS a, b, k1, k2, k3, k4, i1, i2, i3

Names == Permutations(Label) \cup Permutations(Token) \cup Permutations(Inode)
=============================================================================
