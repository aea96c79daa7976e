------------------------------ MODULE SortedSet -------------------------------
(***************************************************************************)
(* Sets of numbers as the ascending vectors src/webgraph-v2.1 keeps them   *)
(* in: the links of a page, the values that get a code.                    *)
(***************************************************************************)
EXTENDS Integers, FiniteSets

\* The place of a number in the ascending list of a set.
Position(S, x) == Cardinality({y \in S : y < x}) + 1

\* The vector that lists a set of numbers in ascending order.
Ascending(S) == [k \in 1..Cardinality(S) |-> CHOOSE x \in S : Position(S, x) = k]
===============================================================================
