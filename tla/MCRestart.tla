----------------------------- MODULE MCRestart -----------------------------
(* A small instance of Restart for TLC.                                    *)
EXTENDS Restart, TLC

CONSTANTS v1, v2, d1, j1, j2, o1, o2

MCBonds == [a \in Addrs |-> IF a = v1 THEN 12000 ELSE 0]

\* Amounts of either sign.
MCAmounts == {30000, - 30000}

MCSymmetry == Permutations(JobIDs) \cup Permutations(Outputs)
=============================================================================
