------------------------------- MODULE Order --------------------------------
(* Rows in order: what ORDER BY and LIMIT of a query and sorted() of the    *)
(* program give, for an order in which of two rows one is ahead.  It is     *)
(* given as the set of pairs of the row ahead and the row behind.           *)
EXTENDS Integers, Sequences, FiniteSets

Ascending == {p \in Int \X Int : p[1] < p[2]}
Descending == {p \in Int \X Int : p[1] > p[2]}

\* How many of S are ahead of x.
Place(x, S, ahead) == Cardinality({y \in S : <<y, x>> \in ahead})

\* The elements of S, each behind those that are ahead of it.
InOrder(S, ahead) ==
  [k \in 1..Cardinality(S) |-> CHOOSE x \in S : Place(x, S, ahead) = k - 1]

\* The first n of them.
FirstOf(S, n, ahead) == {x \in S : Place(x, S, ahead) < n}
=============================================================================
