---------------------------- MODULE MCAlgorithms ----------------------------
(* The bounded inputs of Algorithms.                                       *)
EXTENDS Algorithms, TLC

CONSTANTS v1, v2, v3, k1, k2, k3

\* Three validators for the election, whose reward counters differ in what the
\* distribution tells apart; a slash counts a reverted block as well.
MCCounters ==
    {[JobsServed |-> served, JobsObserved |-> seen, JobsSlashed |-> slashed,
      BlocksReverted |-> slashed, DisputesWon |-> won] :
        served \in {0, 3}, seen \in {0, 2}, slashed \in 0 .. 2, won \in 0 .. 1}

MCPools == {<<73000, 0>>, <<73000, 7>>}

MCCommission == (v1 :> 2500) @@ (v2 :> 10000) @@ (v3 :> 15000)

MCStakes == (0 .. 30) \cup (80500 .. 80526)

MCAddress == (k1 :> 20) @@ (k2 :> 10) @@ (k3 :> 30)

MCRecoveryCode == (k1 :> 27) @@ (k2 :> 28) @@ (k3 :> 27)

MCBlockHashes == {<<"hash", "b1">>, <<"hash", "b2">>}
=============================================================================
