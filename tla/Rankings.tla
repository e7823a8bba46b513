------------------------------ MODULE Rankings ------------------------------
(***************************************************************************)
(* The sorts of the listings: what is sorted has no two members that the   *)
(* order leaves equal, so that each has a place.                           *)
(***************************************************************************)
EXTENDS Integers, Sequences, FiniteSets

\* The members of S in a strict order, which is given by its pairs.
Ranked(S, before) ==
    [n \in 1..Cardinality(S) |->
        CHOOSE x \in S : Cardinality({y \in S : <<y, x>> \in before}) = n - 1]

Ascending(S) == Ranked(S, {ss \in S \X S : ss[1] < ss[2]})

=============================================================================
