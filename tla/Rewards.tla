------------------------------ MODULE Rewards ------------------------------
(***************************************************************************)
(* chain/modules/rewards: the per-validator, per-epoch counters.           *)
(*                                                                         *)
(*   stats[a][e]  the record under "epoch_stats/<e>/<a>"; a missing record *)
(*                reads as zeros                                           *)
(*                                                                         *)
(* No handler calls RecordDisputeWon, so DisputesWon stays 0.              *)
(***************************************************************************)
EXTENDS ChainTypes

VARIABLE stats

EpochStats ==
    [JobsServed: Nat, JobsObserved: Nat, JobsSlashed: Nat, BlocksReverted: Nat,
     DisputesWon: Nat]

NoStats ==
    [JobsServed |-> 0, JobsObserved |-> 0, JobsSlashed |-> 0,
     BlocksReverted |-> 0, DisputesWon |-> 0]

RewardsInit == stats = [a \in Servers |-> [e \in Epochs |-> NoStats]]

RecordJobServed(a, e) == stats' = [stats EXCEPT ![a][e].JobsServed = @ + 1]

RecordJobObserved(a, e) == stats' = [stats EXCEPT ![a][e].JobsObserved = @ + 1]

\* RecordJobSlashed and RecordBlockReverted, n times: the two counters always
\* move together.
AddSlashes(r, n) ==
    [r EXCEPT !.JobsSlashed = @ + n, !.BlocksReverted = @ + n]

\* The slash events of a tally or a dispute, count[a] of them for validator a.
RecordSlashes(count, e) ==
    stats' = [a \in Servers |-> [stats[a] EXCEPT ![e] = AddSlashes(@, count[a])]]
=============================================================================
