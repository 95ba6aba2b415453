----------------------------- MODULE Ascending -----------------------------
(***************************************************************************)
(* Numbers in ascending order: the heights a loop goes through, the places *)
(* of a sequence that are kept.                                            *)
(***************************************************************************)
EXTENDS Integers, Sequences, FiniteSets

\* How many elements of S come before x.
Rank(S, x) == Cardinality({y \in S : y < x})

\* The elements of S in ascending order.
Ascending(S) ==
  [i \in 1 .. Cardinality(S) |-> CHOOSE x \in S : Rank(S, x) = i - 1]

\* What is left of the sequence s, in its order, without the elements in gone.
Without(s, gone) ==
  LET kept == {i \in 1 .. Len(s) : s[i] \notin gone}
  IN  [k \in 1 .. Cardinality(kept) |-> s[Ascending(kept)[k]]]
=============================================================================
