------------------------------- MODULE Orders -------------------------------
(***************************************************************************)
(* Orders: the elements of a set in an order (ORDER BY, sorted), some of   *)
(* the elements of a sequence in its own order (WHERE, a comprehension),   *)
(* and the order of texts.  An order is a set of pairs, and a place in it  *)
(* is found by counting what comes before it: what SetToSortSeq and        *)
(* SelectSeq give, in terms that can be reasoned about.                    *)
(***************************************************************************)
EXTENDS Integers, FiniteSets, Sequences

\* The elements of S: the k-th has k - 1 before it.
InOrder(S, order) ==
  [k \in 1..Cardinality(S) |->
     CHOOSE x \in S : Cardinality({y \in S : <<y, x>> \in order}) = k - 1]

Upwards == {p \in Int \X Int : p[1] < p[2]}

\* The elements of a sequence at some of its places, and those that are in S.
At(s, places) ==
  LET at == InOrder(places, Upwards) IN [k \in DOMAIN at |-> s[at[k]]]
Among(s, S) == At(s, {i \in DOMAIN s : s[i] \in S})

\* Compared element by element; of two that differ only in length, the shorter first.
Lexical(s, t, order) ==
  \E i \in 1..Len(t) :
    /\ i <= Len(s) + 1 /\ SubSeq(s, 1, i - 1) = SubSeq(t, 1, i - 1)
    /\ i = Len(s) + 1 \/ <<s[i], t[i]>> \in order
=============================================================================
