---------------------------- MODULE MCSprsClient ----------------------------
(***************************************************************************)
(* The instance of SprsClient that TLC checks: two calls of one token and  *)
(* one of another, so that both limits refuse calls.                       *)
(***************************************************************************)
EXTENDS SprsClient, TLC

CONSTANTS c1, c2, c3, l1, l2

MCOpOf == [c \in Call |-> IF c = c1 THEN "search" ELSE "topic"]
MCLabelOf == [c \in Call |-> IF c = c3 THEN l2 ELSE l1]
=============================================================================
