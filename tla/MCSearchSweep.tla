---------------------------- MODULE MCSearchSweep ---------------------------
(***************************************************************************)
(* The instance of SearchSweep that TLC checks: two nodes, pages of two    *)
(* rows, up to seven rows that the nodes hold rotated, reversed, cut short *)
(* and with one that has no reportId.                                      *)
(***************************************************************************)
EXTENDS SearchSweep

CONSTANTS n1, n2

Rotated(k) == [i \in 1..7 |-> ((i + k) % 7) + 1]

Whole == {Rotated(k) : k \in 0..6} \cup {Reverse(Rotated(0))}

Unnamed(s) == [i \in 1..7 |-> IF s[i] = 1 THEN NoId ELSE s[i]]

MCOrders ==
  {SubSeq(s, 1, n) : s \in Whole \cup {Unnamed(w) : w \in Whole}, n \in {0, 1, 6, 7}}
=============================================================================
