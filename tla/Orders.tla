------------------------------- MODULE Orders -------------------------------
(***************************************************************************)
(* Elements of a finite set in order, and parts of a list, each element    *)
(* told by how many others come before it. (SelectSeq and SortSeq say the  *)
(* same; the proof system knows no definition of them.)                    *)
(***************************************************************************)
EXTENDS Naturals, Sequences, FiniteSets

\* How many elements of S come before x or are x, if R is the pairs in order.
Rank(S, R, x) == Cardinality({y \in S : y = x \/ <<y, x>> \in R})

Sorted(S, R) == [n \in 1 .. Cardinality(S) |-> CHOOSE x \in S : Rank(S, R, x) = n]

Ascending(S) == Sorted(S, {p \in S \X S : p[1] < p[2]})

\* What is left of a list when only the elements in keys stay.
Sublist(list, keys) ==
  LET places == {i \in 1 .. Len(list) : list[i] \in keys}
  IN [n \in 1 .. Cardinality(places) |-> list[Ascending(places)[n]]]
=============================================================================
