----------------------------- MODULE Algorithms -----------------------------
(***************************************************************************)
(* The pure algorithms of the repository on every input of a bounded set:  *)
(* the distribution of an epoch's rewards, the election of a slot, the     *)
(* vote threshold, the signature over a checkpoint and the call that       *)
(* carries it.  A behaviour picks one input and keeps it.                  *)
(***************************************************************************)
EXTENDS Vrf, Distribution, Calldata, FiniteSets

CONSTANTS Counters,          \* bound: the counters of a validator in an epoch
          Pools,             \* bound: <<supply, jobs>> a pool is computed from
          Weights,           \* bound: stakes of a validator
          Stakes,            \* bound: total stakes
          CheckpointEpochs,  \* bound: epochs of a checkpoint
          BlockHashes        \* bound: block hashes of a checkpoint

ASSUME AlgorithmsAssumption ==
    /\ IsFiniteSet(Addrs)
    /\ Counters \subseteq [JobsServed: Nat, JobsObserved: Nat, JobsSlashed: Nat,
                            BlocksReverted: Nat, DisputesWon: Nat]
    /\ Pools \subseteq Nat \X Nat
    /\ Weights \subseteq Int
    /\ Stakes \subseteq Nat

VARIABLE input

Validators ==
    [Address: Addrs, Status: {"active", "jailed"}, TotalStake: Weights]

ValidatorSets ==
    {vs \in SUBSET Validators : \A v, w \in vs : v.Address = w.Address => v = w}

Checkpoints ==
    {New(e, b, <<"hash", "validators">>) : e \in CheckpointEpochs, b \in BlockHashes}

\* Keys without repetition, in any order.
Signings ==
    {ks \in UNION {[1 .. n -> Keys] : n \in 0 .. Cardinality(Keys)} : IsInjective(ks)}

Input ==
    \/ \E s \in [Addrs -> Counters], p \in Pools :
         input = [of |-> "rewards", stats |-> s, pool |-> Pool(p[1], p[2])]
    \/ \E vs \in ValidatorSets :
         input = [of |-> "election", validators |-> vs]
    \/ \E stake \in Stakes :
         input = [of |-> "threshold", stake |-> stake]
    \/ \E cp \in Checkpoints, ks \in Signings :
         input = [of |-> "call", checkpoint |-> cp, keys |-> ks]

Init == currentSlot = 0 /\ Input

Next == UNCHANGED <<currentSlot, input>>

Spec == Init /\ [][Next]_<<currentSlot, input>>

-----------------------------------------------------------------------------
Zero ==
    [ServingReward |-> 0, ObserverReward |-> 0, DelegatorReward |-> 0,
     BountyReward |-> 0]

RewardOf(r, a) == IF a \in DOMAIN r THEN r[a] ELSE Zero

Paid(r) ==
    r.ServingReward + r.ObserverReward + r.DelegatorReward + r.BountyReward

\* In basis points, at most 100%.
IsRate(bps) == 0 <= bps /\ bps <= 10000

\* The rewards DistributeEpoch computes never add up to more than the pool,
\* whatever was slashed, however the shares round and whatever commissions the
\* validators named, and no reward is negative under a commission of up to 100%.
RewardsWithinPool ==
    input.of = "rewards" =>
       LET r == DistributeEpoch(input.stats, input.pool)
       IN /\ SumFunction([a \in DOMAIN r |-> Paid(r[a])]) <= input.pool
          /\ \A a \in DOMAIN r, f \in DOMAIN Zero :
                IsRate(Commission[a]) => r[a][f] >= 0

\* One more slash, which the application records as a slashed job and a
\* reverted block, never raises what DistributeEpoch pays the validator, and
\* never lowers what another one, whose commission is at most 100%, gets for
\* serving, observing or its delegators.
SlashNeverPays ==
    input.of = "rewards" =>
       \A a \in Addrs :
          LET more == [input.stats EXCEPT ![a].JobsSlashed = @ + 1,
                                          ![a].BlocksReverted = @ + 1]
              r == DistributeEpoch(input.stats, input.pool)
              s == DistributeEpoch(more, input.pool)
          IN /\ Paid(RewardOf(s, a)) <= Paid(RewardOf(r, a))
             /\ \A b \in Addrs \ {a}, f \in DOMAIN Zero \ {"BountyReward"} :
                   IsRate(Commission[b]) => RewardOf(s, b)[f] >= RewardOf(r, b)[f]

\* Over all hashes, ElectSlot returns exactly the pairs of Elections, which the
\* application chooses from: active validators only, the server another one
\* than the proposer unless there is only one, and no validator shut out.
ElectionsAreExact ==
    input.of = "election" =>
       Elections({v.Address : v \in {w \in input.validators : w.Status = "active"}})
          = {ElectSlot(hash, input.validators) :
               hash \in [Addrs -> 1 .. Cardinality(Addrs)]}

\* Below the stake at which totalStake * 6667 leaves int64, a dispute is upheld
\* exactly by more than 66.67% of the stake, hence only by more than two
\* thirds, and all of the stake together can uphold it.
ThresholdIsTwoThirds ==
    (input.of = "threshold" /\ input.stake <= Int64Max \div DisputeVoteThresholdBPS) =>
       LET t == VoteThreshold(input.stake)
       IN /\ \A votes \in (t - 1) .. (t + 2) :
                /\ votes > t <=> 10000 * votes > DisputeVoteThresholdBPS * input.stake
                /\ votes > t => 3 * votes > 2 * input.stake
          /\ input.stake > 0 => input.stake > t

\* What Sign makes over a checkpoint recovers to its signer for that checkpoint
\* and for no other, in Go and in the parts the contract splits it into.
SignatureIsOfCheckpoint ==
    input.of = "call" =>
       \A cp \in Checkpoints, k \in Keys :
          LET sig == Sign(input.checkpoint, k)
              parts == splitSignature(SigWords(sig))
              onChain == RecoverCompact(<<parts.v[2], parts.r, parts.s>>,
                                        EthSignHash(Hash(cp)))
          IN /\ RecoverSigner(cp, sig) = onChain
             /\ onChain = AddressFromPrivKey(k) <=> cp = input.checkpoint

SubmittedData ==
    LET ks == input.keys
    IN encodeSubmitCheckpoint(input.checkpoint,
          [i \in DOMAIN ks |-> AddressFromPrivKey(ks[i])],
          [i \in DOMAIN ks |-> Sign(input.checkpoint, ks[i])])

EnoughRelayersSign ==
    /\ Len(input.keys) >= QuorumRequired
    /\ \A i \in DOMAIN input.keys : Address[input.keys[i]] \in IsRelayer

\* checkpoint.go:3 "so that signatures produced here are verifiable on-chain",
\* relayer.go:44 "The real implementation encodes the calldata for
\* CheckpointAnchor.submitCheckpoint": the contract accepts what enough of its
\* relayers signed.
CallIsAccepted ==
    (input.of = "call" /\ EnoughRelayersSign) => verifyRelayerSignatures(SubmittedData)

\* The element offsets of the signatures array are the only thing wrong with
\* the call: with each one word shorter, the contract reads the checkpoint,
\* the signers in ascending order and beside each signer its own signature,
\* and accepts exactly the calls enough relayers signed.
CallIsRightButForOffsets ==
    input.of = "call" =>
       LET n == Len(input.keys)
           data == SubmittedData
           base == SigsOffset(n) + 1
           shifted == [i \in DOMAIN data |->
                         IF i \in (base + 1) .. (base + n) THEN Num(data[i][2] - 1)
                                                           ELSE data[i]]
       IN /\ DecodedCheckpoint(shifted) = input.checkpoint
          /\ verifyRelayerSignatures(shifted) <=> EnoughRelayersSign
=============================================================================
