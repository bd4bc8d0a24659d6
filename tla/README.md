# A TLA+ model of BIGT

BIGT is a CometBFT application for paid AI inference: validators bond stake, are
elected to serve jobs, commit to outputs on chain, and lose stake when a dispute
against them is proven or voted through. Relayers anchor a checkpoint per epoch
in an L1 contract. This directory holds TLA+ modules for the on-chain logic, the
relayer and the contract, the TLC configurations that check them on small
instances, and TLAPS proofs for every instance. Paths below are relative to the
root of the repository.

## The system and its models

| Part | Code | Module | Modelled |
|---|---|---|---|
| constants, slot and epoch | `chain/types` | `ChainTypes` | what the others use |
| staking | `chain/modules/staking` | `Staking` | all |
| jobs and disputes | `chain/modules/jobs` | `Jobs` | all |
| slashing and votes | `chain/modules/slashing` | `Slashing` | all |
| epoch counters | `chain/modules/rewards` | `Rewards` | all the application calls |
| epoch rewards | `chain/modules/rewards` | `Distribution` | `DistributeEpoch` as a function |
| slot election | `chain/modules/vrf` | `Vrf` | all |
| ABCI application | `chain/app` | `App` | genesis, the block, eleven handlers |
| crash and restart | `cmd/bigt`, `chain/store` | `Restart` | a node that dies anywhere and starts again |
| model registry | `chain/registry` | `Registry` | all |
| balances, plans, quota | `chain/modules/subscription` | `Subscription` | all |
| admission of jobs | `chain/app` | `Admission` | the other five handlers, and job requests in full |
| L1 contract | `contracts/src` | `CheckpointAnchor` | all |
| relayer | `cmd/relayer` | `Relayer` | the poll loop, restarts |
| chain, relayers, L1 | | `Anchoring` | their composition |
| checkpoint signatures | `chain/modules/checkpoint` | `Checkpoint` | all |
| the relayer's call | `cmd/relayer`, `contracts/src` | `Calldata` | ABI encoder, decoder, signature check |

`JobLifecycle` and `CheckpointLog` are abstract specifications: what the pipeline
promises about one job, and what the contract promises to a node that bootstraps
from it. `AppProperties` states the properties of `App`, the properties of the
other systems are at the end of `Admission`, `Anchoring` and `Restart`, and those of
the pure algorithms in `Algorithms`.
`SumTheorems` and the `*Proofs` modules hold the theorems.
`RegistrationHistory` adds one history variable to `App` for a property that
speaks of the past. The `MC*` modules give constants to TLC.

### Chain

`App` composes the modules by `EXTENDS`: a handler is the conjunction of the
calls it makes. `FinalizeBlock` is sequential, but it loops over unbondings,
validators and disputes, and an error or an intermediate state inside a loop
matters. So it is cut at loop iterations and `phase` says where it stands:

    genesis -> idle -> unbond -> drain -> tally -> txs -> idle

* `idle -> unbond` (`BeginBlock`): the height grows, `activeVals` and `server` are
  taken. The hash order of `ElectSlot` is any order: `Elections` is the set of what
  `ElectSlot` returns over all hashes, which run `algorithms` checks.
* `unbond`: `ProcessMatureUnbondings`, one record a step, then the release.
* `drain`: the loop of `endEpoch` over `activeVals`, empty unless the block ends
  an epoch. `DistributeEpoch` runs before it and its result is discarded, so it is a
  function (`Distribution`) and no step.
* `tally`: `TallyExpiredDisputes`, one dispute a step, with the early return when
  `SlashBond` fails, then the counters of the events it returned.
* `txs`: any transactions in any order. What a handler rejects changes nothing and
  is a stuttering step.
* `EndBlock`: the sweep of `FinaliseSlot` and `IncrementMissed`.

A record of the store is an element of a function indexed by its key, with a
status that says "no record"; the unbonding queue is a set of entries of which
`Undelegate` replaces the one with the same key, as the store does. Hashes of
outputs are the outputs. Amounts are unbounded integers. Those of delegations and
undelegations have either sign, since neither `Delegate` nor `Undelegate` looks at it;
bonds, which are checked, and the totals that are divided stay non-negative in the
instances, where `\div` and Go's division agree. The one product that may leave int64
at a scale the protocol names, that of the vote threshold, is taken modulo
`2 * (Int64Max + 1)`.

Whether a job request passes the registry and the quota is left open in `App`, and
what happens to a job after it is accepted is left out of `Admission`: each allows
more than the code does where the other one is exact. Nothing calls `DeprecateModel`
and `ProcessAutoRenewals`: neither is part of the block or of a transaction. They are an
action of their own, `Uncalled`, which the constant `CallUncalled` enables: then the first
is called at any time and the second at epoch boundaries, where its comment places it.
The violation run of `Admission` goes without them; what `admission` shows about
renewal, or about a deprecated model that is proposed again, is about callers to come.

### Restart

`Info` never reports a height, so consensus takes every start for the first one: it
calls `InitChain` and then `FinalizeBlock` from height 1, over the store the last
process left. `Restart` adds to `App`

* `Crash`, at every step of a block: memory is lost, the store stays. Each `Torn*`
  action is the store after a proper prefix of one handler's writes, in the order of
  the code; `Store.Set` is one write, only `ProcessMatureUnbondings` uses a batch. When
  LevelDB also loses a tail of writes it had not synced, the store is that of an
  earlier crash;
* `InitChainFails`: a genesis validator is already registered, `InitChain` returns the
  error and the process exits;
* blocks executed again with any transactions, those of the first time among them.

`Admission` has a `Crash` of its own, with the prefixes of its handlers that write
two records: `Subscribe` (the balance, then the subscription), a job request (the
quota, then the job) and a series of renewals. It describes the chain without genesis
validators, the only one that executes blocks after a restart.

### Anchoring

A poll of the relayer has two network calls. `Fetch` is the answer of the chain's
RPC; `Submit`, `SubmitNoAnswer` and `SubmitFails` are what may become of the call
to L1. The block height can grow and the process can restart in between; `lastEpoch`
is in memory and a restart clears it. The hash of a block is its height, and the
relayer submits the hash found in the header of the latest block, its parent's.
The mempool is a bag of transactions that L1 executes in any order, drops, or
reverts. The contract's owner acts at any time.

`Anchoring` takes a submitter that delivers the checkpoint, signers and signatures it
is given, as the interface `L1Submitter` says. What `HTTPSubmitter` really sends is
`Calldata`: words of 32 bytes, tagged by what they hold, and the decoder that the
Solidity compiler generates. There keccak is injective, and a signature is two halves
that only its key and its message give.

## Properties and runs

Every run finishes in about three minutes or less.

| Run | Instance |
|---|---|
| `disputes` | 2 validators, 2 jobs, 2 outputs, 3 blocks |
| `staking` | 1 validator, 1 delegator, 1 job, 4 blocks, unbonding after 2 |
| `drain` | 1 genesis validator and one that registers later, 10 one-slot epochs |
| `restart` | 2 validators, genesis with one of them or none, 1 delegator, 1 job, 5 one-slot epochs, 7 transactions, 1 crash |
| `admission` | 1 user, 2 plans, 1 model, 3 jobs, 3 approvers, 4 blocks, 1 crash |
| `anchoring` | 2 relayers, 3 epochs, up to 2 transactions in the mempool |
| `algorithms` | 3 validators, 24 counter values each, 2 pools; 58 stakes; 3 keys in every order |

* `disputes`. A job carries its elected server's commitment exactly while it is
  served or disputed (`CommitmentMatchesState`). An open dispute is an observer's,
  against the server of a job that is still disputed (`OpenDisputeIsLive`): a user
  dispute that is proven while a vote is open closes the vote. Hence every reverted
  job is counted once against its server (`OneSlashPerRevertedJob`), whichever way
  it was contested. When a tally ends, no dispute is past its deadline (`ExpiredDisputesResolved`); the
  exceptions of that property need a job without a server, as in `restart`.
  The pipeline implements `JobLifecycle` (`ImplementsLifecycle`), the life cycle the
  code has: failed and reverted jobs are not queued again, against the documents below.
* `staking`. Call what the total stake exceeds the sum of the validators' stake and the
  amounts unbonding its surplus. A step changes the surplus in two ways and in no other
  (`StakeIsAccounted`): an undelegation that writes over the record of another one in
  its block leaves that record's amount in the total, and a release whose amounts do not
  add up to a positive number deletes its records and leaves the total as it is. The
  queue keeps a record under an entry's key until the entry matures
  (`ReleasedWhenMature`) and not after (`NothingOverdue`).
* `drain`. A validator is active exactly while its bond is at least the minimum
  (`StatusMatchesBond`). The drain spares those who served in the last four epochs,
  by the counters of the rewards module (`DrainSparesServers`). Since nothing raises
  a bond, jail is for ever (`JailIsForever`). Both the first and the last are what the
  code does and not what the documents below plan.
* `restart`. A chain with genesis validators never executes a block twice: its first
  block follows the genesis state alone (`FirstBlockFollowsGenesis`), because a
  restarted node fails in `InitChain` and stays down. Without genesis validators every
  block is executed again over the filled store. Even then a job keeps its life cycle
  (`ImplementsLifecycle`) and its commitment (`CommitmentMatchesState`), jail is for
  ever, tallies leave nothing overdue, and no reverted job is counted twice against
  its server (`SlashesNeverCountedTwice`). The votes on a dispute weigh the stake each
  voter had when voting, each voter once (`VotersWeighOnce`), also when the block with
  the vote is executed again; here validators register, delegate, undelegate and are
  slashed between votes. Stake that moves from one validator to another between two
  votes does weigh in both: nothing weighs a vote again. A crash parts the total stake
  from the sum of stake and unbondings by the one operation it cut short, and nothing
  else does but the two ways of `staking` (`DriftOnlyByCrash`). What does not survive,
  and is not claimed: `StakeIsAccounted`, `OpenDisputeIsLive` and `OneSlashPerRevertedJob` as they stand; a
  tally cut short slashes the bond a second time. An expired dispute about a job
  without a server, accepted before any validator registered, ends every tally early
  and keeps the others waiting.
* `admission`. Over renewals, replacements and a restart, no more jobs are accepted
  than were paid for (`JobsArePaidFor`). Deposits are spent on subscriptions or still
  in the balance, but for at most one fee a crash (`CrashCostsOneFee`). A model is active only with votes of `quorumRequired`
  different addresses since it was last proposed (`ActiveModelHasQuorum`). Were
  auto-renewal called, it would charge only users whose period is over, and give them
  a running one at once (`RenewalBuysService`).
* `anchoring`. The contract implements an append-only log without gaps
  (`ImplementsLog`), and the block anchored for an epoch is the parent of a block of
  that epoch (`AnchoredBlockIsOfEpoch`), which the contract itself cannot check.
  What is written has the signatures of a quorum of relayers, by the relayer list and
  the quorum of that moment (`AnchoredUnderCurrentQuorum`), though the owner may change
  both while a transaction waits. Under a quorum above one that means nothing is
  written: a relayer sends its own signature only (see below).
* `algorithms`. Rewards stay within the pool, and are not negative
  (`RewardsWithinPool`); being slashed never pays, and takes nothing from the others'
  serving, observer and delegator rewards (`SlashNeverPays`). Nothing in the code bounds
  a commission: above 100% the delegators' reward is negative and the validator's
  larger by as much, so what is said of single rewards is for commissions up to 100%;
  one validator of the instance has 150%. The election gives
  exactly the pairs `App` chooses from (`ElectionsAreExact`). While the product is an
  int64, the threshold is what it should be (`ThresholdIsTwoThirds`). A
  signature recovers to its signer for its checkpoint only, in Go and in the contract
  (`SignatureIsOfCheckpoint`), and but for the element offsets the encoded call
  is what the contract reads (`CallIsRightButForOffsets`).

### Where the code and its documents disagree

Each run below checks a sentence of the repository and TLC finds a behaviour of the
code that violates it; `PROJECT.json` quotes the sentences.

| Run | Behaviour |
|---|---|
| `call_is_accepted` | the offsets in the relayer's call are one word too large; the contract reverts every call with a signature |
| `votes_are_kept` | a second observer dispute erases the votes of the open one |
| `drain_needs_four_epochs` | a validator that registers late is drained at the end of its first epoch |
| `subscription_stays_active` | renewing early suspends the subscription until the old expiry |
| `every_epoch_is_anchored` | once an epoch is skipped, nothing is anchored any more |

Some properties say what the code does where a document says something else. They pass,
and the disagreement is this:

* *Re-queuing* (`ImplementsLifecycle`). `dai/whitepaper.md:66` and `:162` and
  `dai/implementation-plan.md:168`, `:184`, `:266` and `:267` put late and reverted jobs
  back into the queue for the next slot's server, and `jobs.go:248` has `RevertJob`
  return the job "for re-queuing". No caller uses what it returns and there is no queue.
* *Jail* (`StatusMatchesBond`, `JailIsForever`). `dai/implementation-plan.md:249` jails
  for one epoch after an upheld vote; `SlashBond` jails only below the minimum stake, and
  for no stated time. `dai/implementation-plan.md:307`, `staking.go:79`, `:239` and `:252`
  ("top up first") let a validator back once its bond is topped up; no transaction raises
  a bond, and `Unjail` never succeeds.
* *Quorum* (`AnchoredUnderCurrentQuorum`). `README.md:147` has checkpoints signed by a
  quorum of N relayers, and `CheckpointAnchor.t.sol:29` and `:80-94` anchor with two
  signatures. The contract accepts them; `cmd/relayer` never collects a second one, so with
  a quorum of two this system anchors nothing.
* *Boundary block* (`AnchoredBlockIsOfEpoch`). `CheckpointAnchor.sol:97` calls the hash
  that of the epoch boundary block. The relayer sends the parent of whichever block it
  polled first in the epoch.
* *Signs* (`StakeIsAccounted`). `staking.go:40` makes `TotalStake` bond plus delegations,
  but `Delegate` (`:153`) and `Undelegate` (`:172`) take negative amounts, and
  `ProcessMatureUnbondings` (`:231`) adjusts the total for positive releases only.

Met on the way and not given a run: `staking.go:357` speaks of the current total stake,
but two undelegations of one delegator from one validator in one slot share a store
key and one amount stays in `total_stake`; `types.go:38` makes the threshold a share
of the active stake, but it is taken of all stake, that of jailed validators
included; `dai/whitepaper.md:124` and `dai/implementation-plan.md:334` have a slashed
validator forfeit the rewards of the epoch, but `DistributeEpoch` subtracts two jobs a
slash (one as slashed, one as reverted) and leaves the observer reward;
`jobs.go:20` says of a disputed job that it is in
the dispute or vote window, but a dismissed dispute leaves it disputed;
`slashing.go:174` says a dispute is resolved regardless of the outcome, but not when
`SlashBond` fails (the exception in `ExpiredDisputesResolved`); `staking.go:40` says
`TotalStake` is bond plus delegations, but `Undelegate` does not check that there is
a delegation; `types.go:19` has a vote window, but `CastVote` takes votes from the
opening of a dispute on; `FinaliseSlot` leaves jobs that were never revealed as they
are; `subscription.go:130` says auto-renewals are processed at epoch boundaries, but
nothing calls them; `registry.go:31` speaks of votes of validators, but any address
votes; `DeprecateModel` accepts a model that was never approved, which is then valid
during the grace period; bounties are not paid in an epoch whose served jobs were all
slashed and nobody observed; `doInit` writes the application's genesis where CometBFT
expects its own document around it.

A dispute about a job without a server (one requested while no validator was active)
makes `SlashBond` fail: the tally ends early, the disputes after it stay open and the
events of those before it are dropped. `ExpiredDisputesResolved` and
`OneSlashPerRevertedJob` leave this case out, and no other property says what should
hold in it.

### Bounds

`MaxSlot`, `MaxHeight` end an instance (`Halt` in `App`); `StakeCap`, `StakeFloor`,
`MaxObserved`, `MaxBalance`, `MaxUsed`, `MaxExpiry` and `MaxPending` keep counters
finite; `MaxRestarts`, `MaxTxs` and `LastTxSlot` bound what happens around a crash. They guard environment actions only. Windows of one slot and epochs of one
or two let a dispute be opened, voted and tallied, an unbonding mature and the
drain reach jailing within the bound: four idle epochs, then a few of growing rate.
Amounts are scaled so that products with basis points fit TLC's 32-bit integers;
rates are the code's, and bonds are chosen on both sides of what one slash takes
below the minimum. `StakeFloor` and `StakeCap` leave room for delegations and
undelegations of 1000 and -1000 in `staking`, two of them in one block among them, of
30000 and -30000 in `restart`, and for releases of
positive and of negative amounts. Three epochs are enough for the contract's rule on successors to
accept, reject a repetition and reject a gap. One crash is enough for a block to be
executed again after any prefix of writes; seven transactions are enough to
register both validators and bring a job to a dispute and a vote, before the crash,
after it, or across it. `Int64Max` is 2^29 - 1 in the instances, so that stakes on both
sides of the limit fit; the proofs hold for every value. Jobs, outputs and approvers are
interchangeable and declared symmetric where only safety is checked.

### Fairness

Only `every_epoch_is_anchored` needs fairness. `Anchoring!FairSpec` assumes that the chain makes blocks, that the loop of a
relayer polls, that its submissions are not refused for ever, and that L1 executes
what it took.

## Proofs

Every invariant, action property and refinement that a passing run checks is proved.
The theorems hold for all sets of
validators, delegators, users, relayers, models, plans and outputs, all parameters of the
protocol and all bounds, under the named assumptions of the modules: positive minimum
stake, epoch and unbonding lengths; bonds and amounts that are any integers; genesis
bonds that `InitChain` accepts; finitely many validators, jobs and plans; in
`Distribution`, commissions that are any integers,
for the code checks none; in `Checkpoint`, different addresses for different keys.

| Module | Theorem | States |
|---|---|---|
| `AppProofs` | `TypeCorrectness` | `Spec => []TypeOK` |
| | `RestartInvariant` | `RestartSpec => []RestartInv` |
| `StakingProofs` | `StatusTheorem` | `Spec => []StatusMatchesBond` |
| | `JailTheorem` | `Spec => JailIsForever` |
| | `UnbondInvariant` | `Spec => []UnbondInv` |
| | `NothingOverdueTheorem` | `Spec => []NothingOverdue` |
| | `ReleaseTheorem` | `Spec => ReleasedWhenMature` |
| | `StakeTheorem` | `Spec => StakeIsAccounted` |
| | `RestartStatusTheorem` | `RestartSpec => []StatusMatchesBond` |
| | `RestartJailTheorem` | `RestartSpec => JailIsForever` |
| | `RestartBooksTheorem` | `RestartSpec => []RestartBooks` |
| | `DriftTheorem` | `RestartSpec => DriftOnlyByCrash` |
| | `FirstBlockTheorem` | `RestartSpec => []FirstBlockFollowsGenesis` |
| `JobProofs` | `JobsInvariant` | `Spec => []JobsInv` |
| | `CommitmentTheorem` | `Spec => []CommitmentMatchesState` |
| | `OpenDisputeTheorem` | `Spec => []OpenDisputeIsLive` |
| | `LifecycleTheorem` | `Spec => ImplementsLifecycle` |
| | `ExpiredTheorem` | `Spec => []ExpiredDisputesResolved` |
| | `RestartJobsInvariant` | `RestartSpec => []RestartJobs` |
| | `RestartCommitmentTheorem` | `RestartSpec => []CommitmentMatchesState` |
| | `RestartExpiredTheorem` | `RestartSpec => []ExpiredDisputesResolved` |
| | `RestartLifecycleTheorem` | `RestartSpec => ImplementsLifecycle` |
| | `DrainTheorem` | `Spec => DrainSparesServers` |
| | `VotesTheorem` | `Spec => VotersWeighOnce` |
| | `RestartVotesTheorem` | `RestartSpec => VotersWeighOnce` |
| `SlashingProofs` | `SlashTheorem` | `Spec => []OneSlashPerRevertedJob` |
| | `RestartSlashTheorem` | `RestartSpec => []SlashesNeverCountedTwice` |
| `AdmissionProofs` | `AdmissionInvariant` | `Spec => []AdmissionInv` |
| | `AdmissionTypeCorrectness` | `Spec => []TypeOK` |
| | `JobsPaidTheorem` | `Spec => []JobsArePaidFor` |
| | `CrashCostTheorem` | `Spec => []CrashCostsOneFee` |
| | `QuorumOfModelTheorem` | `Spec => []ActiveModelHasQuorum` |
| | `RenewalTheorem` | `Spec => RenewalBuysService` |
| `AnchoringProofs` | `AnchoringInvariant` | `Spec => []AnchorInv` |
| | `AnchoringTypeCorrectness` | `Spec => []TypeOK` |
| | `AnchoredBlockTheorem` | `Spec => []AnchoredBlockIsOfEpoch` |
| | `QuorumTheorem` | `Spec => AnchoredUnderCurrentQuorum` |
| | `LogTheorem` | `Spec => ImplementsLog` |
| `AlgorithmProofs` | `ThresholdIsExact` | votes pass the threshold exactly above 66.67% of the stake |
| | `ThresholdIsTwoThirdsMajority` | they are then above two thirds, and the rest does not pass |
| | `ThresholdTheorem` | `Spec => []ThresholdIsTwoThirds` |
| | `SignatureTheorem` | `Spec => []SignatureIsOfCheckpoint` |
| | `CallTheorem` | `Spec => []CallIsRightButForOffsets` |
| | `ElectionTheorem` | `Spec => []ElectionsAreExact` |
| | `RewardsTheorem` | `Spec => []RewardsWithinPool` |
| | `SlashRewardTheorem` | `Spec => []SlashNeverPays` |

*Sums.* `SumTheorems` derives what the others need of a sum over a finite set (adding,
removing or changing one member, order, sums of sums and multiples) from the
definition by folding. The induction is over the subsets of a finite set, for a set of
"good" subsets in place of a predicate: this form the provers can instantiate.

*Types.* `TypeOK` is inductive. It is split by module, and each operation preserves
the part of its module; `SlashAmountBounds` (a slash takes no more than the bond,
whatever the rate) keeps bonds natural.

*Status.* Every step changes a validator's record in one of four ways
(`ValidatorStep`): it is created with at least the minimum, slashed with the status
that goes with its new bond, unjailed with at least the minimum, or keeps bond and
status. Both theorems follow: a jailed validator has a bond below the minimum, no
step raises it, so `Unjail` changes nothing.

*Unbonding and the total stake.* What the scan has marked for deletion is in the
queue and mature (`ScanIsSound`); with it `NothingOverdue` is inductive, since an
undelegation matures later than its own block. For `StakeIsAccounted` the books
(`BooksOK`) say that the amount counted so far is the sum of the marked records, and that
no two records share a key (`QueueOK`), so that an undelegation replaces at most one.
Every other step moves the total and the sums by the same amount.

*Jobs.* `OpenDisputeIsLive` is not inductive alone. A tally step on a job that is no
longer disputed would revert it all the same; that the disputes still to be tallied
are open (`TallyVisitsOpen`) excludes it, and `CommitmentMatchesState` is
what an observer dispute needs to move only a served or disputed job. `JobsInv` is
the conjunction of the three. For each operation, `JobOK` is shown for the job it
touches and is untouched for the others.

*Life cycle.* With `JobsInv`, each step of `App` maps to one step of `JobLifecycle` or
to a stutter: a commit and a reveal are both pending, a second dispute and a
dismissed one leave the job contested.

*Slashing.* The server of a job is registered (`ServersRegistered`), so a job that is
served leaves its epoch in staking, and that epoch is at least the last one rewards
counted a served job in (`ServiceIsKnown`): the drain spares it. A tally has in its queue
every overdue dispute, or has returned early (`TallyIsComplete`). For
`OneSlashPerRevertedJob` every step changes the slashes counted, together with those
the tally has still to record, and the reverted jobs by the same number (`CountStep`). For
`VotersWeighOnce` a vote adds to the record an address that was not in it and the stake of
that address; every other step leaves a record's votes alone or writes a new record.

*Restart.* A step of the restarted system is one of `App`, a stop, or a crash
(`RestartCases`), and a crash does to each part of the store one of a few things
(`CrashStaking`, `CrashJobs`, `CrashStats`): the prefixes of the writes of all
handlers, reduced to what each module sees of them. So the lemmas about `App` serve
again, and only the crashes are new. `RestartInv` are the types, and that an address
without a validator has an empty record, so that a registration that is cut
short adds its bond and nothing else to the recorded stake. A crash moves the surplus of the total by one
bond, amount, slash or release (`CrashDrift`), and every other step is one of `App`. `OpenDisputeIsLive` fails, since a crash can
revert a job and leave its dispute open; `JobsSound` is the weaker form, in which
the job of an open dispute may be reverted already. For `SlashesNeverCountedTwice`, a job is settled once it is
reverted and its dispute closed: the counters and what a tally has still to record
are never more than the settled jobs (`SlashesSettled`), because the counters are written last.
`FirstBlockFollowsGenesis` rests on three situations of a chain with genesis validators
(`GenesisInv`): `InitChain` works on a fresh store; a validator it has still to register
has a record, so that it cannot finish; or blocks are executed and some genesis validator
is registered, which every crash from there turns into the second.

*Admission.* The jobs accepted and those left of the present subscription are within
what was bought (`RestIsPaidFor`); a subscription has its plan's limit (`MatchesPlan`);
deposits less fees differ from the balance by at most one fee a crash (`FeesAreSpent`);
the votes recorded for a model are those of different addresses (`VotesAreApprovals`).

*Anchoring.* `AnchorInv` adds to the properties that a fetched block is past epoch 0,
that each transaction in the mempool carries the parent of a block of its epoch and its
sender's signature alone, and that the latest epoch is an anchored one. With it each step of the system is a step of `CheckpointLog` or a stutter.

*Threshold.* For stakes whose product with 6667 is at most `Int64Max` the conversion
is the identity (`Int64Identity`), the threshold is the rounded quotient, and since
votes are integers the rounding decides nothing. With the code's 2^63 - 1 that is
every stake up to 1.38e15 units; the supply of the genesis document is 1e14.

*The relayer's call.* An ascending order of the signers exists (`SortingExists`: of a
finite set of places the one with the greatest address goes last), and since addresses
differ it is strict. The call is then a concatenation whose words are found by their
places: the head, the signers, the offsets, four words a signature. With each element
offset one word shorter the decoder lands on the length word of the right signature,
`ecrecover` gives back its signer (`RecoveredSigner`), and what remains of the contract's
check is the quorum and the relayer list.

*Election.* Both inclusions: what `ElectSlot` returns is a pair of `Elections`, and a
pair of `Elections` is returned under hashes that put the two first.

*Rewards.* A share is a rounded part, so the shares of a pool add up to no more than it
(`SharesWithinPool`), and the four pools to no more than the whole; a commission moves
an amount between two rewards of one validator. A slash of one validator lowers its work
and the total by the same number: its part of the total falls, the others' parts grow
(`ShareGrows`, on cross products), and a commission of at most 100% grows by no more than
the share it is taken from (`CommissionGrows`).

### Only model-checked

The violations of the table above are counterexamples TLC finds. One of them is of a
liveness property under fairness, which TLAPS does not handle.

## Not modelled

* `ProcessEquivocation` and `RecordDisputeWon`: they have no caller and no comment says
  when one would call them. `DistributeEpoch` is checked for any number of disputes
  won.
* A second crash, in the instances of TLC; the theorems are for any number of crashes.
* 64-bit overflow elsewhere: amounts in messages are at most the supply in size, which
  the code does not check; with them the products with percentages and
  basis points stay below 2^63 at the genesis supply of 1e14 units. Above 1.38e15 units of
  total stake the product of the vote threshold overflows; nothing is claimed there.
* `Query`, `CheckTx`, `Commit` (no state), reading and writing genesis files, flags and
  network configuration of the binaries.
* The validator client: the packages it drives are not in the repository, and its two
  attempts at an inference and one broadcast have no effect on the chain other than a
  transaction, which `App` admits at any time.

## Plan

1. `Admission` in front of `App`, so that the job a request creates is the pipeline's.
2. An abstract ledger of stake that `Staking` implements but for the two steps of
   `StakeIsAccounted`.
