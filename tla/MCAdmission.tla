---------------------------- MODULE MCAdmission ----------------------------
(***************************************************************************)
(* Small instances of the admission of jobs for TLC.                       *)
(***************************************************************************)
EXTENDS Admission, TLC

CONSTANTS u1, m1, a1, a2, a3, j1, j2, j3, basic, enterprise

MCFee == [p \in Plans |-> IF p = basic THEN 1 ELSE 2]

MCLimit == [p \in Plans |-> IF p = basic THEN 1 ELSE 0]

\* Jobs and approving addresses are interchangeable.
MCSymmetry == Permutations(JobIDs) \cup Permutations(Approvers)
=============================================================================
