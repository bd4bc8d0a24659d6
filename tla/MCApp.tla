------------------------------- MODULE MCApp -------------------------------
(***************************************************************************)
(* Small instances of the application for TLC.                             *)
(***************************************************************************)
EXTENDS AppProperties, TLC

CONSTANTS v1, v2, d1, j1, j2, o1, o2

\* Two validators: the second one's vote alone passes the threshold.
MCBondsTwo == [a \in Addrs |-> IF a = v1 THEN 12000 ELSE IF a = v2 THEN 40000 ELSE 0]

MCBondsOne == [a \in Addrs |-> IF a = v1 THEN 12000 ELSE 0]

\* Amounts of either sign.
MCAmounts == {1000, - 1000}

\* Jobs and outputs are interchangeable.
MCSymmetry == Permutations(JobIDs) \cup Permutations(Outputs)
=============================================================================
