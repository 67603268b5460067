-------------------------------- MODULE Lists --------------------------------
(***************************************************************************)
(* Lists as the code keeps them (smartlist_t): the elements of one, the    *)
(* ones that pass a test, and the first of them.  Without recursion, so    *)
(* that the proofs can reason about them.                                  *)
(***************************************************************************)
EXTENDS Naturals, Sequences, FiniteSets

In(q) == {q[i] : i \in DOMAIN q}

\* The elements of q that are in S, in the order of q.
Only(q, S) ==
  LET kept == {i \in DOMAIN q : q[i] \in S}
      Rank(i) == Cardinality({j \in kept : j <= i})
  IN  [n \in 1 .. Cardinality(kept) |-> q[CHOOSE i \in kept : Rank(i) = n]]

\* The first n elements of q, or all of them.
Upto(q, n) == [i \in 1 .. (IF n < Len(q) THEN n ELSE Len(q)) |-> q[i]]
=============================================================================
