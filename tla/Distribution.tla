---------------------------- MODULE Distribution ----------------------------
(***************************************************************************)
(* chain/modules/rewards, DistributeEpoch: what the counters of an epoch   *)
(* pay.  endEpoch calls it for the epoch that ended; the result reaches no *)
(* store, so it is a function of the counters and not an action.           *)
(*                                                                         *)
(*   s[a]           the counters of validator a for the epoch              *)
(*   Commission[a]  the part of the delegators' share a keeps, in basis    *)
(*                  points; nothing checks that it is at most 10000        *)
(***************************************************************************)
EXTENDS ChainTypes, Functions

CONSTANTS JobFeeUBIGT,  \* 1_000_000 uBIGT
          Commission

ASSUME DistributionAssumption ==
    /\ JobFeeUBIGT \in Nat
    /\ Commission \in [Addrs -> Int]

InflationRateBPS == 500
RewardServingBPS == 5000
RewardObserverBPS == 3000
RewardDelegatorBPS == 1500
RewardBountyBPS == 500

Pool(totalSupply, jobCount) ==
    ((totalSupply * InflationRateBPS) \div 10000) \div 365 + jobCount * JobFeeUBIGT

EffectiveServed_MayBeNegative(r) == r.JobsServed - r.JobsSlashed - r.BlocksReverted

EffectiveServed(r) ==
    LET effective == r.JobsServed - r.JobsSlashed - r.BlocksReverted
    IN IF effective < 0 THEN 0 ELSE effective

Share(pool, n, total) ==
    IF n > 0 /\ total > 0 THEN (pool * n) \div total ELSE 0

\* What the validators did, and the shares of a pool it earns them.
effectiveServed(s) == [a \in DOMAIN s |-> EffectiveServed(s[a])]

observed(s) == [a \in DOMAIN s |-> s[a].JobsObserved]

disputesWon(s) == [a \in DOMAIN s |-> s[a].DisputesWon]

ShareOf(pool, bps, work, a) ==
    Share((pool * bps) \div 10000, work[a], SumFunction(work))

\* The validator keeps its commission of the delegators' share.
Reward(s, pool, a) ==
    LET delShare == ShareOf(pool, RewardDelegatorBPS, effectiveServed(s), a)
        valCommission == Quot(delShare * Commission[a], 10000)
    IN [ServingReward |-> ShareOf(pool, RewardServingBPS, effectiveServed(s), a)
                            + valCommission,
        ObserverReward |-> ShareOf(pool, RewardObserverBPS, observed(s), a),
        DelegatorReward |-> delShare - valCommission,
        BountyReward |-> ShareOf(pool, RewardBountyBPS, disputesWon(s), a)]

\* Only a reward with a positive part is returned.
IsPaid(r) ==
    \/ r.ServingReward > 0 \/ r.ObserverReward > 0
    \/ r.DelegatorReward > 0 \/ r.BountyReward > 0

NoActivity_EitherPool(totalEffectiveServed, totalObserved) ==
    totalEffectiveServed = 0 \/ totalObserved = 0

NoActivity(totalEffectiveServed, totalObserved) ==
    totalEffectiveServed = 0 /\ totalObserved = 0

\* The rewards of an epoch, for the validators that get any.  The counters of
\* every validator on record are read, the jailed ones' included.
DistributeEpoch(s, pool) ==
    IF NoActivity(SumFunction(effectiveServed(s)), SumFunction(observed(s)))
    THEN [a \in {} |-> 0]
    ELSE [a \in {b \in DOMAIN s : IsPaid(Reward(s, pool, b))} |-> Reward(s, pool, a)]
=============================================================================
