----------------------------- MODULE AppProofs ------------------------------
(***************************************************************************)
(* Types of the application and of the node over its restarts, for every   *)
(* set of validators, jobs and outputs, every value of the protocol        *)
(* parameters and any number of crashes; and what a step, or a crash,      *)
(* does to the validators, the jobs and the counters.                      *)
(*                                                                         *)
(* A step of the running node is a step of the application, so the lemmas  *)
(* about Next carry over.  What a crash leaves behind is split by store:   *)
(* CrashStaking, CrashJobs and CrashStats.                                 *)
(***************************************************************************)
EXTENDS Restart, FiniteSetTheorems, TLAPS

-----------------------------------------------------------------------------
(* Operators                                                               *)

\* SlashBond takes no more than the bond, for every rate.
LEMMA SlashAmountBounds ==
    ASSUME NEW bond \in Nat, NEW bps \in Nat
    PROVE  SlashAmount(bond, bps) \in 0 .. bond
<1>1. bond * bps \in Nat
  OBVIOUS
<1>2. (bond * bps) \div 10000 \in Nat
  BY <1>1
<1> QED
  BY <1>2 DEF SlashAmount

\* A bond that RegisterValidator takes is no negative number.
LEMMA RegisteredBond ==
    ASSUME NEW bond \in Int, bond >= MinStake
    PROVE  bond \in Nat
  BY TypesAssumption

\* The record SlashBond writes is a validator record with a smaller bond, and
\* it is jailed exactly when that bond is below MinStake.
LEMMA SlashedRecord ==
    ASSUME NEW v \in Validator, NEW bps \in Nat
    PROVE  /\ Slashed(v, bps) \in Validator
           /\ Slashed(v, bps).Bond \in 0 .. v.Bond
           /\ Slashed(v, bps).Bond < MinStake => Slashed(v, bps).Status = "jailed"
           /\ ~ (Slashed(v, bps).Bond < MinStake) => Slashed(v, bps).Status = v.Status
           /\ v.Bond - SlashAmount(v.Bond, bps) = Slashed(v, bps).Bond
<1> DEFINE amount == SlashAmount(v.Bond, bps)
<1>1. v.Bond \in Nat
  BY DEF Validator
<1>2. amount \in 0 .. v.Bond
  BY <1>1, SlashAmountBounds
<1>3. amount \in Int /\ v.Bond - amount \in 0 .. v.Bond
  BY <1>1, <1>2
<1> HIDE DEF amount
<1>4. Slashed(v, bps) =
        [v EXCEPT !.Bond = @ - amount,
                  !.TotalStake = @ - amount,
                  !.Status = IF v.Bond - amount < MinStake THEN "jailed" ELSE @]
  BY DEF Slashed, amount
<1>5. Slashed(v, bps).Bond = v.Bond - amount
  BY <1>4 DEF Validator
<1>6. Slashed(v, bps).Status =
        IF v.Bond - amount < MinStake THEN "jailed" ELSE v.Status
  BY <1>4 DEF Validator
<1>7. Slashed(v, bps) \in Validator
  <2>1. v.TotalStake - amount \in Int
    BY <1>3 DEF Validator
  <2>2. v.Bond - amount \in Nat
    BY <1>3
  <2>3. (IF v.Bond - amount < MinStake THEN "jailed" ELSE v.Status) \in Statuses
    BY DEF Validator, Statuses
  <2> QED
    BY <1>4, <2>1, <2>2, <2>3, Zenon DEF Validator
<1> QED
  BY <1>3, <1>5, <1>6, <1>7 DEF amount

\* The rate of the inactivity drain is a rate.
LEMMA DrainBPSType ==
    ASSUME NEW idle \in Int
    PROVE  DrainBPS(idle) \in Nat
<1> DEFINE excess == idle - InactivityThresholdEpochs
<1>1. excess \in Int
  BY DEF InactivityThresholdEpochs
<1> HIDE DEF excess
<1>2. excess * excess \in Nat
  BY <1>1
<1> DEFINE sq == excess * excess
<1>3. sq \in Nat
  BY <1>2
<1>4. DrainBPS(idle) = IF (sq * 100) \div 1000 > 10000 THEN 10000
                                                       ELSE (sq * 100) \div 1000
  BY DEF DrainBPS, excess
<1> HIDE DEF sq
<1> QED
  BY <1>3, <1>4

\* Heights and epochs are natural numbers.
LEMMA EpochType ==
    ASSUME currentSlot \in 0 .. MaxSlot
    PROVE  currentEpoch \in Nat
  BY TypesAssumption DEF currentEpoch, EpochOf

-----------------------------------------------------------------------------
(* Type correctness, module by module                                      *)

StakingType ==
    /\ val \in [Addrs -> Validator]
    /\ ub \subseteq UnbondingEntry
    /\ total_stake \in Int
    /\ released \in Int
    /\ toDelete \subseteq UnbondingEntry

JobsType ==
    /\ jobs \in [JobIDs -> Job]
    /\ disputes \in [JobIDs -> DisputeRecord]

TallyType ==
    /\ tallyQ \subseteq JobIDs
    /\ tallyStake \in Int
    /\ tallyEvents \subseteq JobIDs

StatsType == stats \in [Servers -> [Epochs -> EpochStats]]

AppType ==
    /\ currentSlot \in 0 .. MaxSlot
    /\ phase \in Phases
    /\ genesisQ \subseteq Addrs
    /\ activeVals \subseteq Addrs
    /\ server \in Servers
    /\ drainQ \subseteq Addrs

\* Together these are TypeOK, in the state before a step and in the one after.
LEMMA TypeParts ==
    /\ TypeOK <=> StakingType /\ JobsType /\ TallyType /\ StatsType /\ AppType
    /\ StakingType' /\ JobsType' /\ TallyType' /\ StatsType' /\ AppType' => TypeOK'
  BY DEF TypeOK, StakingType, JobsType, TallyType, StatsType, AppType

\* A step that leaves the variables of a module alone keeps their types.
LEMMA UnchangedTypes ==
    /\ StakingType /\ UNCHANGED stakingVars => StakingType'
    /\ JobsType /\ UNCHANGED jobsVars => JobsType'
    /\ TallyType /\ UNCHANGED slashingVars => TallyType'
    /\ StatsType /\ UNCHANGED stats => StatsType'
    /\ AppType /\ UNCHANGED appVars => AppType'
<1>1. StakingType /\ UNCHANGED stakingVars => StakingType'
  BY DEF StakingType, stakingVars
<1>2. JobsType /\ UNCHANGED jobsVars => JobsType'
  BY DEF JobsType, jobsVars
<1>3. TallyType /\ UNCHANGED slashingVars => TallyType'
  BY DEF TallyType, slashingVars
<1>4. StatsType /\ UNCHANGED stats => StatsType'
  BY DEF StatsType
<1>5. AppType /\ UNCHANGED appVars => AppType'
  BY DEF AppType, appVars
<1> QED
  BY <1>1, <1>2, <1>3, <1>4, <1>5

\* The missed counters of the servers whose jobs the sweep failed.
LEMMA IncrementMissedType ==
    ASSUME StakingType, NEW missed, IncrementMissed(missed)
    PROVE  StakingType'
<1>1. \A a \in Addrs : [val[a] EXCEPT !.ConsecutiveMissed = @ + 1] \in Validator
  BY DEF StakingType, Validator
<1> QED
  BY <1>1 DEF StakingType, IncrementMissed

\* A commitment resets the missed counter of its server.
LEMMA ResetMissedType ==
    ASSUME StakingType, NEW a \in Servers, NEW epoch \in Nat, ResetMissed(a, epoch)
    PROVE  StakingType'
<1>1. CASE a \in Registered
  <2>1. a \in Addrs
    BY <1>1 DEF Registered
  <2>2. [val[a] EXCEPT !.ConsecutiveMissed = 0, !.LastActiveEpoch = epoch]
           \in Validator
    BY <2>1, Zenon DEF StakingType, Validator
  <2>3. val' = [val EXCEPT ![a] = [val[a] EXCEPT !.ConsecutiveMissed = 0,
                                                 !.LastActiveEpoch = epoch]]
    BY <1>1, <2>1, Zenon DEF StakingType, ResetMissed
  <2> QED
    BY <2>2, <2>3, Zenon DEF StakingType, ResetMissed
<1>2. CASE a \notin Registered
  BY <1>2 DEF StakingType, ResetMissed
<1> QED
  BY <1>1, <1>2

\* What OpenDispute writes is a dispute record.
LEMMA NewDisputeType ==
    ASSUME NEW s \in Servers, NEW type \in {"none", "user", "observer"},
           NEW slot \in Nat, NEW immediate \in BOOLEAN
    PROVE  NewDispute(s, type, slot, immediate) \in DisputeRecord
<1>1. slot + DisputeWindow \in Nat /\ slot + DisputeWindow + VoteWindow \in Nat
  BY TypesAssumption
<1> QED
  BY <1>1 DEF NewDispute, DisputeRecord

\* A record of jobs with another state is a record of jobs.
LEMMA WithState ==
    ASSUME JobsType, NEW j \in JobIDs, NEW s \in JobStates,
           NEW c \in OutputCommitment \cup {NoCommitment}
    PROVE  /\ [jobs[j] EXCEPT !.State = s] \in Job
           /\ [jobs[j] EXCEPT !.State = s, !.Commitment = c] \in Job
           /\ [jobs[j] EXCEPT !.Commitment = c, !.State = s] \in Job
  BY Zenon DEF JobsType, Job

\* AddCommitment writes a commitment of a server.
LEMMA AddCommitmentType ==
    ASSUME JobsType, NEW j \in JobIDs, NEW addr \in Servers, NEW o \in Outputs,
           AddCommitment(j, addr, o)
    PROVE  JobsType'
<1> DEFINE c == [ValidatorAddr |-> addr, OutputHash |-> o]
<1>1. c \in OutputCommitment
  BY DEF OutputCommitment
<1>2. jobs' = [jobs EXCEPT ![j] = [jobs[j] EXCEPT !.Commitment = c,
                                                  !.State = "served"]]
  BY Zenon DEF JobsType, AddCommitment
<1> HIDE DEF c
<1>3. [jobs[j] EXCEPT !.Commitment = c, !.State = "served"] \in Job
  BY <1>1, WithState, Zenon DEF JobStates
<1>4. jobs' \in [JobIDs -> Job]
  BY <1>2, <1>3, Zenon DEF JobsType
<1> QED
  BY <1>4, Zenon DEF JobsType, AddCommitment

\* RevertJob writes a job.
LEMMA RevertType ==
    ASSUME JobsType, NEW j \in JobIDs, RevertJob(j)
    PROVE  jobs' \in [JobIDs -> Job]
<1>1. [jobs[j] EXCEPT !.State = "reverted", !.Commitment = NoCommitment] \in Job
  BY WithState, Zenon DEF JobStates
<1>2. jobs' = [jobs EXCEPT ![j] = [jobs[j] EXCEPT !.State = "reverted",
                                                  !.Commitment = NoCommitment]]
  BY Zenon DEF JobsType, RevertJob
<1> QED
  BY <1>1, <1>2 DEF JobsType

\* A user dispute is closed at once and reverts its job.
LEMMA OpenDisputeAndRevertType ==
    ASSUME JobsType, NEW j \in JobIDs, NEW s \in Servers, NEW slot \in Nat,
           OpenDisputeAndRevert(j, s, "user", slot)
    PROVE  JobsType'
<1>1. jobs' \in [JobIDs -> Job]
  BY RevertType, Zenon DEF RevertJob, OpenDisputeAndRevert
<1>2. NewDispute(s, "user", slot, TRUE) \in DisputeRecord
  BY NewDisputeType, Zenon
<1> QED
  BY <1>1, <1>2, Zenon DEF JobsType, OpenDisputeAndRevert

\* The epoch of a height the model reaches is one of its epochs.
LEMMA EpochInRange ==
    ASSUME currentSlot \in 0 .. MaxSlot
    PROVE  currentEpoch \in Epochs
<1>1. /\ currentSlot \in Nat
      /\ MaxSlot \in Nat
      /\ EpochSlots \in Nat \ {0}
      /\ currentSlot <= MaxSlot
  BY TypesAssumption
<1>2. (currentSlot \div EpochSlots) <= (MaxSlot \div EpochSlots)
  BY <1>1
<1> QED
  BY <1>1, <1>2, EpochType DEF Epochs, currentEpoch, EpochOf

-----------------------------------------------------------------------------
(* Type correctness of the application                                     *)

\* A fresh store is well typed.
LEMMA FreshType ==
    ASSUME Fresh, genesisQ \subseteq Addrs
    PROVE  TypeOK

<1>JobsInitType.
      ASSUME JobsInit
      PROVE  JobsType
  <2> USE <1>JobsInitType
  <2>1. NoJob \in Job
    BY DEF NoJob, Job, JobStates, Servers
  <2>2. NewDispute(NoServer, "none", 0, TRUE) \in DisputeRecord
    BY NewDisputeType, Zenon DEF Servers
  <2>3. NoDispute \in DisputeRecord
    BY <2>2, Zenon DEF NoDispute, DisputeRecord
  <2> QED
    BY <2>1, <2>3 DEF JobsInit, JobsType

<1>1. NoValidator \in Validator
  BY DEF NoValidator, NewValidator, Validator, Statuses
<1>2. StakingType
  BY <1>1 DEF Fresh, StakingType
<1>3. JobsType
  BY <1>JobsInitType DEF Fresh
<1>4. TallyType
  BY DEF Fresh, TallyType
<1>5. StatsType
  BY DEF Fresh, RewardsInit, StatsType, NoStats, EpochStats
<1>6. AppType
  BY TypesAssumption DEF Fresh, AppType, Phases, Servers
<1> QED
  BY <1>2, <1>3, <1>4, <1>5, <1>6, TypeParts

\* The initial states are well typed.
LEMMA InitType ==
    Init => TypeOK
  BY FreshType DEF Init

\* Every step of the application keeps every variable's shape.
LEMMA NextType ==
    ASSUME TypeOK, [Next]_vars
    PROVE  TypeOK'

<1>RegisterValidatorType.
      ASSUME StakingType, NEW a \in Addrs, NEW bond \in Nat, RegisterValidator(a, bond)
      PROVE  StakingType'
  <2> USE <1>RegisterValidatorType
  <2>1. NewValidator(bond) \in Validator
    BY DEF NewValidator, Validator, Statuses
  <2> QED
    BY <2>1 DEF StakingType, RegisterValidator

<1>DelegateType.
      ASSUME StakingType, NEW a \in Addrs, NEW amount \in Int, Delegate(a, amount)
      PROVE  StakingType'
  <2> USE <1>DelegateType
  <2>1. [val[a] EXCEPT !.TotalStake = @ + amount] \in Validator
    BY DEF StakingType, Validator
  <2>2. val' = [val EXCEPT ![a] = [val[a] EXCEPT !.TotalStake = @ + amount]]
    BY DEF StakingType, Delegate
  <2> QED
    BY <2>1, <2>2 DEF StakingType, Delegate

<1>UndelegateType.
      ASSUME StakingType, NEW d \in Delegators, NEW a \in Addrs, NEW amount \in Int,
             NEW slot \in Nat, Undelegate(d, a, amount, slot)
      PROVE  StakingType'
  <2> USE <1>UndelegateType
  <2> DEFINE entry == [MatureSlot |-> slot + UnbondingEpochs * EpochSlots,
                       DelegatorAddr |-> d, ValidatorAddr |-> a, Amount |-> amount]
  <2>1. UnbondingEpochs * EpochSlots \in Nat
    BY TypesAssumption
  <2>2. entry \in UnbondingEntry
    BY <2>1 DEF UnbondingEntry
  <2>3. [val[a] EXCEPT !.TotalStake = @ - amount] \in Validator
    BY DEF StakingType, Validator
  <2>4. val' = [val EXCEPT ![a] = [val[a] EXCEPT !.TotalStake = @ - amount]]
    BY DEF StakingType, Undelegate
  <2>5. ub' = {e \in ub : ubKey(e) # ubKey(entry)} \cup {entry}
    BY DEF Undelegate
  <2> HIDE DEF entry
  <2> QED
    BY <2>2, <2>3, <2>4, <2>5 DEF StakingType, Undelegate

<1>UnjailType.
      ASSUME StakingType, NEW a \in Addrs, Unjail(a)
      PROVE  StakingType'
  <2> USE <1>UnjailType
  <2>1. [val[a] EXCEPT !.Status = "active", !.ConsecutiveMissed = 0] \in Validator
    BY Zenon DEF StakingType, Validator, Statuses
  <2>2. \/ val' = val
        \/ val' = [val EXCEPT ![a] = [val[a] EXCEPT !.Status = "active",
                                                    !.ConsecutiveMissed = 0]]
    BY Zenon DEF StakingType, Unjail
  <2> QED
    BY <2>1, <2>2 DEF StakingType, Unjail

<1>SlashBondType.
      ASSUME StakingType, NEW a \in Addrs, NEW bps \in Nat, SlashBond(a, bps)
      PROVE  StakingType'
  <2> USE <1>SlashBondType
  <2>1. val[a] \in Validator /\ val[a].Bond \in Nat
    BY DEF StakingType, Validator
  <2>2. Slashed(val[a], bps) \in Validator
    BY <2>1, SlashedRecord
  <2>3. SlashAmount(val[a].Bond, bps) \in Int
    BY <2>1, SlashAmountBounds
  <2> QED
    BY <2>2, <2>3 DEF StakingType, SlashBond

<1>ScanUnbondingType.
      ASSUME StakingType, NEW e \in ub, NEW slot, ScanUnbonding(e, slot)
      PROVE  StakingType'
  <2> USE <1>ScanUnbondingType
  <2>1. e \in UnbondingEntry /\ e.Amount \in Int
    BY DEF StakingType, UnbondingEntry
  <2> QED
    BY <2>1 DEF StakingType, ScanUnbonding

<1>ReleaseUnbondingsType.
      ASSUME StakingType, NEW slot, ReleaseUnbondings(slot)
      PROVE  StakingType'
  BY <1>ReleaseUnbondingsType DEF StakingType, ReleaseUnbondings

<1>CommitType.
      ASSUME JobsType, NEW j \in JobIDs, NEW slot \in Nat, NEW s \in Servers,
             Commit(j, slot, s)
      PROVE  JobsType'
  <2> USE <1>CommitType
  <2>1. [State |-> "committed", Slot |-> slot, Server |-> s,
         Commitment |-> NoCommitment] \in Job
    BY DEF Job, JobStates
  <2> QED
    BY <2>1 DEF JobsType, Commit

<1>RevealType.
      ASSUME JobsType, NEW j \in JobIDs, Reveal(j)
      PROVE  JobsType'
  <2> USE <1>RevealType
  <2>1. [jobs[j] EXCEPT !.State = "revealed"] \in Job
    BY WithState, Zenon DEF JobStates
  <2>2. jobs' = [jobs EXCEPT ![j] = [jobs[j] EXCEPT !.State = "revealed"]]
    BY DEF JobsType, Reveal
  <2> QED
    BY <2>1, <2>2 DEF JobsType, Reveal

<1>FinaliseSlotType.
      ASSUME JobsType, NEW slot, FinaliseSlot(slot)
      PROVE  JobsType'
  <2> USE <1>FinaliseSlotType
  <2>1. \A j \in JobIDs : [jobs[j] EXCEPT !.State = "failed"] \in Job
    BY WithState, Zenon DEF JobStates
  <2> QED
    BY <2>1 DEF JobsType, FinaliseSlot

<1>OpenDisputeType.
      ASSUME JobsType, NEW j \in JobIDs, NEW s \in Servers, NEW slot \in Nat,
             OpenDispute(j, s, "observer", slot)
      PROVE  JobsType'
  <2> USE <1>OpenDisputeType
  <2>1. [jobs[j] EXCEPT !.State = "disputed"] \in Job
    BY WithState, Zenon DEF JobStates
  <2>2. NewDispute(s, "observer", slot, FALSE) \in DisputeRecord
    BY NewDisputeType, Zenon
  <2>3. jobs' = [jobs EXCEPT ![j] = [jobs[j] EXCEPT !.State = "disputed"]]
    BY DEF JobsType, OpenDispute
  <2> QED
    BY <2>1, <2>2, <2>3, Zenon DEF JobsType, OpenDispute

<1>CastVoteType.
      ASSUME JobsType, NEW j \in JobIDs, NEW voter \in Addrs, NEW vote,
             NEW stake \in Int, CastVote(j, voter, vote, stake)
      PROVE  JobsType'
  <2> USE <1>CastVoteType
  <2> DEFINE uphold == IF vote = "uphold" THEN disputes[j].VotesUphold + stake
                                          ELSE disputes[j].VotesUphold
             dismiss == IF vote = "dismiss" THEN disputes[j].VotesDismiss + stake
                                            ELSE disputes[j].VotesDismiss
             d == [disputes[j] EXCEPT !.Voters = @ \cup {voter},
                                      !.VotesUphold = uphold,
                                      !.VotesDismiss = dismiss]
  <2>1. uphold \in Int /\ dismiss \in Int
    BY DEF JobsType, DisputeRecord
  <2>2. disputes' = [disputes EXCEPT ![j] = d]
    BY Zenon DEF JobsType, CastVote
  <2> HIDE DEF uphold, dismiss
  <2>3. d \in DisputeRecord
    BY <2>1, Zenon DEF JobsType, DisputeRecord
  <2>4. UNCHANGED jobs
    BY DEF CastVote
  <2> HIDE DEF d
  <2> QED
    BY <2>2, <2>3, <2>4 DEF JobsType

<1>ResolveDisputeType.
      ASSUME JobsType, NEW j \in JobIDs, ResolveDispute(j)
      PROVE  disputes' \in [JobIDs -> DisputeRecord]
  <2> USE <1>ResolveDisputeType
  <2>1. [disputes[j] EXCEPT !.Resolved = TRUE] \in DisputeRecord
    BY Zenon DEF JobsType, DisputeRecord
  <2> QED
    BY <2>1 DEF JobsType, ResolveDispute

<1>RecordSlashesType.
      ASSUME StatsType, NEW count \in [Servers -> Nat], NEW e, RecordSlashes(count, e)
      PROVE  StatsType'
  <2> USE <1>RecordSlashesType
  <2>1. ASSUME NEW r \in EpochStats, NEW n \in Nat
        PROVE  AddSlashes(r, n) \in EpochStats
    <3>1. r.JobsSlashed + n \in Nat /\ r.BlocksReverted + n \in Nat
      BY <2>1 DEF EpochStats
    <3>2. AddSlashes(r, n) = [r EXCEPT !.JobsSlashed = r.JobsSlashed + n,
                                       !.BlocksReverted = r.BlocksReverted + n]
      BY <2>1 DEF AddSlashes, EpochStats
    <3> DEFINE x == r.JobsSlashed + n
               y == r.BlocksReverted + n
    <3>3. x \in Nat /\ y \in Nat
      BY <3>1
    <3>4. AddSlashes(r, n) = [r EXCEPT !.JobsSlashed = x, !.BlocksReverted = y]
      BY <3>2
    <3> HIDE DEF x, y
    <3> QED
      BY <2>1, <3>3, <3>4, Zenon DEF EpochStats
  <2>2. ASSUME NEW a \in Servers
        PROVE  [stats[a] EXCEPT ![e] = AddSlashes(@, count[a])]
                  \in [Epochs -> EpochStats]
    BY <2>1, <2>2, Zenon DEF StatsType
  <2> QED
    BY <2>2 DEF StatsType, RecordSlashes

<1>RecordJobServedType.
      ASSUME StatsType, NEW a \in Servers, NEW e \in Epochs,
             RecordJobServed(a, e) \/ RecordJobObserved(a, e)
      PROVE  StatsType'
  <2> USE <1>RecordJobServedType
  <2>1. PICK r \in EpochStats : stats' = [stats EXCEPT ![a][e] = r]
    <3>1. /\ [stats[a][e] EXCEPT !.JobsServed = @ + 1] \in EpochStats
          /\ [stats[a][e] EXCEPT !.JobsObserved = @ + 1] \in EpochStats
      BY DEF StatsType, EpochStats
    <3> QED
      BY <3>1 DEF RecordJobServed, RecordJobObserved
  <2> QED
    BY <2>1 DEF StatsType

<1>InitChainType.
      ASSUME TypeOK, InitChain
      PROVE  TypeOK'
  <2> USE <1>InitChainType
  <2>1. /\ StakingType /\ JobsType /\ TallyType /\ StatsType /\ AppType
        /\ JobsType' /\ TallyType' /\ StatsType'
    BY TypeParts, UnchangedTypes DEF InitChain
  <2>2. StakingType'
    <3>1. ASSUME NEW a \in genesisQ, RegisterValidator(a, GenesisBond[a])
          PROVE  StakingType'
      <4>1. a \in Addrs /\ GenesisBond[a] \in Nat
        BY <2>1, StakingAssumption DEF AppType
      <4> QED
        BY <2>1, <3>1, <4>1, <1>RegisterValidatorType
    <3> QED
      BY <2>1, <3>1, UnchangedTypes DEF InitChain
  <2>3. AppType'
    BY <2>1 DEF AppType, InitChain, Phases
  <2> QED
    BY <2>1, <2>2, <2>3, TypeParts

<1>BeginBlockType.
      ASSUME TypeOK, BeginBlock
      PROVE  TypeOK'
  <2> USE <1>BeginBlockType
  <2>1. /\ StakingType /\ JobsType /\ TallyType /\ StatsType /\ AppType
        /\ StakingType' /\ JobsType' /\ TallyType' /\ StatsType'
    BY TypeParts, UnchangedTypes DEF BeginBlock
  <2>2. \A r \in Elections(ListActive) : r[2] \in Servers
    BY DEF Elections, ListActive, Servers
  <2>3. AppType'
    BY <2>1, <2>2, TypesAssumption DEF AppType, BeginBlock, ListActive, Phases
  <2> QED
    BY <2>1, <2>3, TypeParts

<1>ProcessMatureUnbondingsType.
      ASSUME TypeOK, ProcessMatureUnbondings
      PROVE  TypeOK'
  <2> USE <1>ProcessMatureUnbondingsType
  <2>1. /\ StakingType /\ JobsType /\ TallyType /\ StatsType /\ AppType
        /\ JobsType' /\ TallyType' /\ StatsType'
    BY TypeParts, UnchangedTypes DEF ProcessMatureUnbondings
  <2>2. StakingType'
    BY <2>1, <1>ScanUnbondingType, <1>ReleaseUnbondingsType DEF ProcessMatureUnbondings
  <2>3. AppType'
    BY <2>1 DEF AppType, ProcessMatureUnbondings, Phases
  <2> QED
    BY <2>1, <2>2, <2>3, TypeParts

<1>EndEpochType.
      ASSUME TypeOK, EndEpoch
      PROVE  TypeOK'
  <2> USE <1>EndEpochType
  <2>1. /\ StakingType /\ JobsType /\ TallyType /\ StatsType /\ AppType
        /\ JobsType' /\ TallyType' /\ StatsType'
    BY TypeParts, UnchangedTypes DEF EndEpoch
  <2>2. PICK a \in drainQ :
          LET idle == currentEpoch - 1 - val[a].LastActiveEpoch
          IN /\ drainQ' = drainQ \ {a}
             /\ IF idle >= InactivityThresholdEpochs /\ val[a].Bond > 0
                THEN SlashBond(a, DrainBPS(idle))
                ELSE UNCHANGED stakingVars
    BY DEF EndEpoch
  <2> DEFINE idle == currentEpoch - 1 - val[a].LastActiveEpoch
  <2>3. a \in Addrs
    BY <2>1 DEF AppType
  <2>4. idle \in Int
    BY <2>1, <2>3, EpochType DEF AppType, StakingType, Validator
  <2>5. SlashBond(a, DrainBPS(idle)) \/ UNCHANGED stakingVars
    BY <2>2
  <2> HIDE DEF idle
  <2>6. DrainBPS(idle) \in Nat
    BY <2>4, DrainBPSType
  <2>7. StakingType'
    BY <2>1, <2>3, <2>5, <2>6, <1>SlashBondType, UnchangedTypes
  <2>8. AppType'
    BY <2>1 DEF AppType, EndEpoch
  <2> QED
    BY <2>1, <2>7, <2>8, TypeParts

<1>BeginTallyType.
      ASSUME TypeOK, BeginTally
      PROVE  TypeOK'
  <2> USE <1>BeginTallyType
  <2>1. /\ StakingType /\ JobsType /\ TallyType /\ StatsType /\ AppType
        /\ StakingType' /\ JobsType' /\ StatsType'
    BY TypeParts, UnchangedTypes DEF BeginTally
  <2>2. TallyType'
    BY <2>1 DEF TallyType, StakingType, BeginTally, StartTally, ListOpenDisputes
  <2>3. AppType'
    BY <2>1 DEF AppType, BeginTally, Phases
  <2> QED
    BY <2>1, <2>2, <2>3, TypeParts

<1>TallyDisputeType.
      ASSUME TypeOK, NEW j \in tallyQ, TallyDispute(j)
      PROVE  StakingType' /\ JobsType' /\ TallyType'
  <2> USE <1>TallyDisputeType
  <2> DEFINE s == disputes[j].ServingValidator
  <2>1. StakingType /\ JobsType /\ TallyType /\ j \in JobIDs
    BY TypeParts DEF TallyType
  <2>2. TallyType'
    BY <2>1 DEF TallyType, TallyDispute
  <2>3. CASE ~ Upheld(j)
    <3>1. /\ ResolveDispute(j)
          /\ UNCHANGED <<stakingVars, jobs>>
      BY <2>3 DEF TallyDispute
    <3> QED
      BY <2>1, <2>2, <3>1, UnchangedTypes, <1>ResolveDisputeType DEF JobsType
  <2>4. CASE Upheld(j) /\ s \in Registered
    <3>1. SlashBond(s, SlashMismatch) /\ RevertJob(j) /\ ResolveDispute(j)
      BY <2>4 DEF TallyDispute
    <3>2. StakingType'
      BY <2>1, <2>4, <3>1, <1>SlashBondType DEF Registered, SlashMismatch
    <3>3. JobsType'
      BY <2>1, <3>1, <1>ResolveDisputeType, RevertType DEF JobsType
    <3> QED
      BY <2>2, <3>2, <3>3
  <2>5. CASE Upheld(j) /\ s \notin Registered
    BY <2>1, <2>2, <2>5, UnchangedTypes DEF TallyDispute
  <2> QED
    BY <2>3, <2>4, <2>5

<1>TallyExpiredDisputesType.
      ASSUME TypeOK, TallyExpiredDisputes
      PROVE  TypeOK'
  <2> USE <1>TallyExpiredDisputesType
  <2>1. /\ StatsType /\ AppType
        /\ StatsType' /\ AppType'
    BY TypeParts, UnchangedTypes DEF TallyExpiredDisputes
  <2>2. StakingType' /\ JobsType' /\ TallyType'
    BY <1>TallyDisputeType DEF TallyExpiredDisputes
  <2> QED
    BY <2>1, <2>2, TypeParts

<1>RecordTallyType.
      ASSUME TypeOK, RecordTally
      PROVE  TypeOK'
  <2> USE <1>RecordTallyType
  <2>1. /\ StakingType /\ JobsType /\ TallyType /\ StatsType /\ AppType
        /\ StakingType' /\ JobsType'
    BY TypeParts, UnchangedTypes DEF RecordTally
  <2> DEFINE count == [a \in Servers |->
                         Cardinality({j \in tallyEvents :
                                        disputes[j].ServingValidator = a})]
  <2>2. count \in [Servers -> Nat]
    <3>1. ASSUME NEW a \in Servers
          PROVE  Cardinality({j \in tallyEvents : disputes[j].ServingValidator = a})
                    \in Nat
      <4>1. {j \in tallyEvents : disputes[j].ServingValidator = a} \subseteq JobIDs
        BY <2>1 DEF TallyType
      <4>2. IsFiniteSet({j \in tallyEvents : disputes[j].ServingValidator = a})
        BY <4>1, AppAssumption, FS_Subset
      <4> QED
        BY <4>2, FS_CardinalityType
    <3> QED
      BY <3>1
  <2>3. RecordSlashes(count, currentEpoch)
    BY DEF RecordTally
  <2> HIDE DEF count
  <2>4. StatsType'
    BY <2>1, <2>2, <2>3, <1>RecordSlashesType
  <2>5. TallyType' /\ AppType'
    BY <2>1 DEF TallyType, AppType, RecordTally, Phases
  <2> QED
    BY <2>1, <2>4, <2>5, TypeParts

<1>EndBlockType.
      ASSUME TypeOK, EndBlock
      PROVE  TypeOK'
  <2> USE <1>EndBlockType
  <2>1. /\ StakingType /\ JobsType /\ TallyType /\ StatsType /\ AppType
        /\ TallyType' /\ StatsType'
    BY TypeParts, UnchangedTypes DEF EndBlock
  <2>2. StakingType' /\ JobsType'
    BY <2>1, <1>FinaliseSlotType, IncrementMissedType DEF EndBlock
  <2>3. AppType'
    BY <2>1 DEF AppType, EndBlock, Phases
  <2> QED
    BY <2>1, <2>2, <2>3, TypeParts

<1>JobTxType.
      ASSUME TypeOK, JobTx, UNCHANGED <<slashingVars, appVars>>
      PROVE  TypeOK'
  <2> USE <1>JobTxType
  <2>1. /\ StakingType /\ JobsType /\ TallyType /\ StatsType /\ AppType
        /\ TallyType' /\ AppType'
    BY TypeParts, UnchangedTypes
  <2>2. /\ currentSlot \in Nat /\ currentEpoch \in Nat /\ currentEpoch \in Epochs
        /\ server \in Servers
    BY <2>1, EpochType, EpochInRange DEF AppType
  <2>3. PICK j \in JobIDs :
           \/ handleJobRequest(j)
           \/ handleReveal(j)
           \/ \E a \in Servers, o \in Outputs : handleCommitment(j, a, o)
           \/ \E a \in Servers, o \in Outputs : handleDispute(j, a, o)
           \/ \E a \in Addrs : handleObserverDispute(j, a)
           \/ \E a \in Addrs, v \in {"uphold", "dismiss"} : handleDisputeVote(j, a, v)
    BY DEF JobTx
  <2>4. CASE handleJobRequest(j)
    <3>1. JobsType' /\ StakingType' /\ StatsType'
      BY <2>1, <2>2, <2>4, <1>CommitType, UnchangedTypes DEF handleJobRequest
    <3> QED
      BY <2>1, <3>1, TypeParts
  <2>5. CASE handleReveal(j)
    <3>1. JobsType' /\ StakingType' /\ StatsType'
      BY <2>1, <2>5, <1>RevealType, UnchangedTypes DEF handleReveal
    <3> QED
      BY <2>1, <3>1, TypeParts
  <2>6. ASSUME NEW a \in Servers, NEW o \in Outputs, handleCommitment(j, a, o)
        PROVE  TypeOK'
    <3>1. JobsType'
      BY <2>1, <2>6, AddCommitmentType DEF handleCommitment
    <3>2. StakingType'
      BY <2>1, <2>2, <2>6, ResetMissedType DEF handleCommitment
    <3>3. StatsType'
      BY <2>1, <2>2, <2>6, <1>RecordJobServedType DEF handleCommitment
    <3> QED
      BY <2>1, <3>1, <3>2, <3>3, TypeParts
  <2>7. ASSUME NEW a \in Servers, NEW o \in Outputs, handleDispute(j, a, o)
        PROVE  TypeOK'
    <3>1. ProcessUserDispute(j, a, o, currentSlot)
      BY <2>7 DEF handleDispute
    <3>2. JobsType'
      BY <2>1, <2>2, <3>1, OpenDisputeAndRevertType DEF ProcessUserDispute
    <3>3. StakingType'
      <4>1. a \in Addrs /\ SlashBond(a, SlashMalicious) /\ SlashMalicious \in Nat
        BY <3>1 DEF ProcessUserDispute, Registered, SlashMalicious
      <4> QED
        BY <2>1, <4>1, <1>SlashBondType
    <3>4. StatsType'
      <4> DEFINE count == [b \in Servers |-> IF b = a THEN 1 ELSE 0]
      <4>1. count \in [Servers -> Nat]
        OBVIOUS
      <4>2. RecordSlashes(count, currentEpoch)
        BY <2>7 DEF handleDispute
      <4> HIDE DEF count
      <4> QED
        BY <2>1, <4>1, <4>2, <1>RecordSlashesType
    <3> QED
      BY <2>1, <3>2, <3>3, <3>4, TypeParts
  <2>8. ASSUME NEW a \in Addrs, handleObserverDispute(j, a)
        PROVE  TypeOK'
    <3>1. /\ OpenDispute(j, jobs[j].Server, "observer", currentSlot)
          /\ UNCHANGED stakingVars
          /\ UNCHANGED stats
      BY <2>8 DEF handleObserverDispute, ProcessObserverDispute
    <3>2. jobs[j].Server \in Servers
      BY <2>1 DEF JobsType, Job
    <3>3. JobsType' /\ StakingType' /\ StatsType'
      BY <2>1, <2>2, <3>1, <3>2, <1>OpenDisputeType, UnchangedTypes
    <3> QED
      BY <2>1, <3>3, TypeParts
  <2>9. ASSUME NEW a \in Addrs, NEW v \in {"uphold", "dismiss"},
               handleDisputeVote(j, a, v)
        PROVE  TypeOK'
    <3>1. /\ CastVote(j, a, v, val[a].TotalStake)
          /\ UNCHANGED stakingVars
          /\ UNCHANGED stats
      BY <2>9 DEF handleDisputeVote, CastDisputeVote
    <3>2. val[a].TotalStake \in Int
      BY <2>1 DEF StakingType, Validator
    <3>3. JobsType' /\ StakingType' /\ StatsType'
      BY <2>1, <3>1, <3>2, <1>CastVoteType, UnchangedTypes, Zenon
    <3> QED
      BY <2>1, <3>3, TypeParts
  <2> QED
    BY <2>3, <2>4, <2>5, <2>6, <2>7, <2>8, <2>9

<1>StakingTxType.
      ASSUME TypeOK, StakingTx, UNCHANGED <<slashingVars, appVars>>
      PROVE  TypeOK'
  <2> USE <1>StakingTxType
  <2>1. /\ StakingType /\ JobsType /\ TallyType /\ StatsType /\ AppType
        /\ TallyType' /\ AppType'
    BY TypeParts, UnchangedTypes
  <2>2. currentSlot \in Nat
    BY <2>1 DEF AppType
  <2>3. PICK a \in Addrs :
           \/ \E bond \in Bonds : handleRegisterValidator(a, bond)
           \/ \E amount \in Amounts, d \in Delegators : handleDelegate(a, amount)
           \/ \E amount \in Amounts, d \in Delegators : handleUndelegate(d, a, amount)
           \/ handleUnjail(a)
    BY DEF StakingTx
  <2>4. StakingType'
    <3>1. ASSUME NEW bond \in Bonds, handleRegisterValidator(a, bond)
          PROVE  StakingType'
      <4>1. RegisterValidator(a, bond)
        BY <3>1 DEF handleRegisterValidator
      <4>2. bond \in Nat
        BY <4>1, StakingAssumption, RegisteredBond DEF RegisterValidator
      <4> QED
        BY <2>1, <4>1, <4>2, <1>RegisterValidatorType
    <3>2. ASSUME NEW amount \in Amounts, handleDelegate(a, amount)
          PROVE  StakingType'
      BY <2>1, <3>2, StakingAssumption, <1>DelegateType DEF handleDelegate
    <3>3. ASSUME NEW amount \in Amounts, NEW d \in Delegators,
                 handleUndelegate(d, a, amount)
          PROVE  StakingType'
      BY <2>1, <2>2, <3>3, StakingAssumption, <1>UndelegateType, Zenon DEF handleUndelegate
    <3>4. CASE handleUnjail(a)
      BY <2>1, <3>4, <1>UnjailType DEF handleUnjail
    <3> QED
      BY <2>3, <3>1, <3>2, <3>3, <3>4
  <2>5. JobsType' /\ StatsType'
    BY <2>1, <2>3, UnchangedTypes, Zenon
    DEF handleRegisterValidator, handleDelegate, handleUndelegate, handleUnjail
  <2> QED
    BY <2>1, <2>4, <2>5, TypeParts

<1>RewardsTxType.
      ASSUME TypeOK, RewardsTx, UNCHANGED <<slashingVars, appVars>>
      PROVE  TypeOK'
  <2> USE <1>RewardsTxType
  <2>1. /\ StakingType /\ JobsType /\ TallyType /\ StatsType /\ AppType
        /\ TallyType' /\ AppType'
    BY TypeParts, UnchangedTypes
  <2>2. PICK a \in Addrs, e \in Epochs : handleProtocolAttestation(a, e)
    BY DEF RewardsTx
  <2>3. StakingType' /\ JobsType'
    BY <2>1, <2>2, UnchangedTypes, Zenon DEF handleProtocolAttestation
  <2>4. StatsType'
    BY <2>1, <2>2, <1>RecordJobServedType, Zenon DEF handleProtocolAttestation, Servers
  <2> QED
    BY <2>1, <2>3, <2>4, TypeParts

<1>StutterType.
      ASSUME TypeOK, UNCHANGED vars
      PROVE  TypeOK'
  <2> USE <1>StutterType
  <2>1. /\ StakingType /\ JobsType /\ TallyType /\ StatsType /\ AppType
    BY TypeParts
  <2>2. /\ UNCHANGED stakingVars /\ UNCHANGED jobsVars /\ UNCHANGED slashingVars
        /\ UNCHANGED stats /\ UNCHANGED appVars
    BY DEF vars
  <2>3. StakingType' /\ JobsType' /\ TallyType' /\ StatsType' /\ AppType'
    BY <2>1, <2>2, UnchangedTypes
  <2> QED
    BY <2>3, TypeParts

<1>1. CASE DeliverTx
  BY <1>1, <1>JobTxType, <1>StakingTxType, <1>RewardsTxType DEF DeliverTx
<1>2. CASE UNCHANGED vars
  BY <1>2, <1>StutterType
<1> QED
  BY <1>1, <1>2, <1>InitChainType, <1>BeginBlockType, <1>ProcessMatureUnbondingsType,
     <1>EndEpochType, <1>BeginTallyType, <1>TallyExpiredDisputesType, <1>RecordTallyType,
     <1>EndBlockType
  DEF Next, Halt

\* Every variable keeps the shape its Go type and the store give it, whatever
\* blocks, transactions, disputes and slashes come: in particular no sequence of
\* slashes and drains makes a bond negative.
THEOREM TypeCorrectness == Spec => []TypeOK
<1>1. TypeOK /\ [Next]_vars => TypeOK'
  BY NextType
<1> QED
  BY <1>1, InitType, PTL DEF Spec

-----------------------------------------------------------------------------
(* Validators                                                              *)

\* What a step may do to the record of a validator.  Everything that is proved
\* about bonds and jail follows from it.
ValidatorStep(a) ==
    \/ val'[a].Status = val[a].Status /\ val'[a].Bond = val[a].Bond
    \/ /\ val[a].Status = "none"
       /\ val'[a].Status = "active"
       /\ val'[a].Bond >= MinStake
    \/ /\ val[a].Status = "jailed"
       /\ val[a].Bond >= MinStake
       /\ val'[a].Status = "active"
       /\ val'[a].Bond = val[a].Bond
    \/ /\ val[a].Status # "none"
       /\ val'[a].Bond \in 0 .. val[a].Bond
       /\ val'[a].Bond < MinStake => val'[a].Status = "jailed"
       /\ ~ (val'[a].Bond < MinStake) => val'[a].Status = val[a].Status

\* A step that touches no validator is a step of each of them.
LEMMA UnchangedStep ==
    ASSUME UNCHANGED val, NEW a \in Addrs
    PROVE  ValidatorStep(a)
  BY DEF ValidatorStep

\* What a step of the application does to the variables of staking.
StakingCases ==
    \/ UNCHANGED stakingVars
    \/ \E a \in Addrs, bond \in Nat :
          /\ bond = GenesisBond[a] \/ bond \in Bonds
          /\ RegisterValidator(a, bond)
    \/ \E a \in Addrs, amount \in Int : Delegators # {} /\ Delegate(a, amount)
    \/ \E a \in Addrs, amount \in Int, d \in Delegators :
          phase = "txs" /\ Undelegate(d, a, amount, currentSlot)
    \/ \E a \in Addrs : Unjail(a)
    \/ \E a \in Addrs, bps \in Nat : SlashBond(a, bps)
    \/ \E missed : IncrementMissed(missed)
    \/ \E a \in Servers : ResetMissed(a, currentEpoch)
    \/ phase = "unbond" /\ \E e \in ub : ScanUnbonding(e, currentSlot)
    \/ phase = "unbond" /\ phase' = "drain" /\ ReleaseUnbondings(currentSlot)

\* Every step of the application is one of the staking operations.
LEMMA NextStakingCases ==
    ASSUME TypeOK, [Next]_vars
    PROVE  StakingCases
<1>1. CASE InitChain
  <2>1. ASSUME NEW b \in genesisQ, RegisterValidator(b, GenesisBond[b])
        PROVE  StakingCases
    <3>1. b \in Addrs /\ GenesisBond[b] \in Nat
      BY StakingAssumption DEF TypeOK
    <3> QED
      BY <2>1, <3>1 DEF StakingCases
  <2> QED
    BY <1>1, <2>1, Zenon DEF InitChain, StakingCases
<1>2. CASE EndEpoch
  <2>1. PICK b \in drainQ :
          \/ SlashBond(b, DrainBPS(currentEpoch - 1 - val[b].LastActiveEpoch))
          \/ UNCHANGED stakingVars
    BY <1>2, Zenon DEF EndEpoch
  <2>2. b \in Addrs
    BY DEF TypeOK
  <2>3. currentEpoch - 1 - val[b].LastActiveEpoch \in Int
    BY <2>2, EpochType DEF TypeOK, Validator
  <2>4. DrainBPS(currentEpoch - 1 - val[b].LastActiveEpoch) \in Nat
    BY <2>3, DrainBPSType
  <2> QED
    BY <2>1, <2>2, <2>4, Zenon DEF StakingCases
<1>3. CASE TallyExpiredDisputes
  <2>1. PICK j \in tallyQ : TallyDispute(j)
    BY <1>3 DEF TallyExpiredDisputes
  <2>2. CASE SlashBond(disputes[j].ServingValidator, SlashMismatch)
    <3>1. disputes[j].ServingValidator \in Addrs /\ SlashMismatch \in Nat
      BY <2>2 DEF SlashBond, Registered, SlashMismatch
    <3> QED
      BY <2>2, <3>1, Zenon DEF StakingCases
  <2>3. CASE UNCHANGED stakingVars
    BY <2>3 DEF StakingCases
  <2> QED
    BY <2>1, <2>2, <2>3 DEF TallyDispute
<1>4. CASE EndBlock
  BY <1>4, Zenon DEF EndBlock, StakingCases
<1>5. CASE DeliverTx /\ JobTx
  <2>1. ASSUME NEW j \in JobIDs, NEW b \in Servers, NEW o \in Outputs,
               handleCommitment(j, b, o)
        PROVE  StakingCases
    BY <2>1 DEF handleCommitment, StakingCases
  <2>2. ASSUME NEW j \in JobIDs, NEW b \in Servers, NEW o \in Outputs,
               handleDispute(j, b, o)
        PROVE  StakingCases
    <3>1. b \in Registered /\ SlashBond(b, SlashMalicious)
      BY <2>2, Zenon DEF handleDispute, ProcessUserDispute
    <3>2. b \in Addrs
      BY <3>1 DEF Registered
    <3>3. SlashMalicious \in Nat
      BY DEF SlashMalicious
    <3> QED
      BY <3>1, <3>2, <3>3, Zenon DEF StakingCases
  <2>3. \/ UNCHANGED stakingVars
        \/ \E j \in JobIDs, b \in Servers, o \in Outputs :
              handleCommitment(j, b, o) \/ handleDispute(j, b, o)
    BY <1>5, Zenon DEF JobTx, handleJobRequest, handleReveal, handleObserverDispute,
       ProcessObserverDispute, handleDisputeVote, CastDisputeVote
  <2> QED
    BY <2>1, <2>2, <2>3, Zenon DEF StakingCases
<1>6. CASE DeliverTx /\ StakingTx
  <2>1. PICK b \in Addrs :
         \/ \E bond \in Bonds : RegisterValidator(b, bond)
         \/ \E amount \in Amounts, d \in Delegators : Delegate(b, amount)
         \/ \E amount \in Amounts, d \in Delegators :
               Undelegate(d, b, amount, currentSlot)
         \/ Unjail(b)
    BY <1>6, Zenon DEF StakingTx, handleRegisterValidator, handleDelegate,
       handleUndelegate, handleUnjail
  <2>2. /\ phase = "txs" /\ Amounts \subseteq Int
        /\ \A bond \in Bonds : RegisterValidator(b, bond) => bond \in Nat
    BY <1>6, StakingAssumption, RegisteredBond DEF DeliverTx, RegisterValidator
  <2> QED
    BY <2>1, <2>2 DEF StakingCases
<1>7. CASE ProcessMatureUnbondings
  BY <1>7 DEF ProcessMatureUnbondings, StakingCases
<1>8. CASE UNCHANGED stakingVars
  BY <1>8 DEF StakingCases
<1> QED
  BY <1>1, <1>2, <1>3, <1>4, <1>5, <1>6, <1>7, <1>8, Zenon
  DEF Next, vars, BeginBlock, BeginTally, RecordTally, DeliverTx, RewardsTx,
      handleProtocolAttestation, Halt

\* Every step of the application treats every validator so.
LEMMA NextValidatorStep ==
    ASSUME TypeOK, [Next]_vars, NEW a \in Addrs
    PROVE  ValidatorStep(a)

<1> StakingType
  BY TypeParts

<1>RegisterStep.
      ASSUME NEW b \in Addrs, NEW bond \in Nat, RegisterValidator(b, bond)
      PROVE  ValidatorStep(a)
  <2> USE <1>RegisterStep
  <2>1. CASE a = b
    <3>1. val'[a] = NewValidator(bond) /\ bond >= MinStake /\ val[a].Status = "none"
      BY <2>1 DEF RegisterValidator, StakingType, Registered
    <3>2. NewValidator(bond).Status = "active" /\ NewValidator(bond).Bond = bond
      BY DEF NewValidator
    <3> QED
      BY <3>1, <3>2, Zenon DEF ValidatorStep
  <2>2. CASE a # b
    BY <2>2 DEF RegisterValidator, StakingType, ValidatorStep
  <2> QED
    BY <2>1, <2>2

<1>SlashStep.
      ASSUME NEW b \in Addrs, NEW bps \in Nat, SlashBond(b, bps)
      PROVE  ValidatorStep(a)
  <2> USE <1>SlashStep
  <2>1. CASE a = b
    <3>1. val[a] \in Validator /\ val[a].Status # "none"
      BY <2>1 DEF SlashBond, StakingType, Registered
    <3>2. val'[a] = Slashed(val[a], bps)
      BY <2>1 DEF SlashBond, StakingType
    <3>3. /\ Slashed(val[a], bps).Bond \in 0 .. val[a].Bond
          /\ Slashed(val[a], bps).Bond < MinStake => Slashed(val[a], bps).Status = "jailed"
          /\ ~ (Slashed(val[a], bps).Bond < MinStake) =>
                Slashed(val[a], bps).Status = val[a].Status
      BY <3>1, SlashedRecord, Zenon
    <3> QED
      BY <3>1, <3>2, <3>3, Zenon DEF ValidatorStep
  <2>2. CASE a # b
    BY <2>2 DEF SlashBond, StakingType, ValidatorStep
  <2> QED
    BY <2>1, <2>2

<1>UnjailStep.
      ASSUME NEW b \in Addrs, Unjail(b)
      PROVE  ValidatorStep(a)
  <2> USE <1>UnjailStep
  <2>1. val[b] \in Validator /\ val[b].Bond \in Nat /\ MinStake \in Nat
    BY TypesAssumption DEF StakingType, Validator
  <2>2. CASE val[b].Bond < MinStake
    BY <2>2 DEF Unjail, ValidatorStep
  <2>3. CASE ~ (val[b].Bond < MinStake)
    <3>1. val' = [val EXCEPT ![b] = [val[b] EXCEPT !.Status = "active",
                                                   !.ConsecutiveMissed = 0]]
      BY <2>3, Zenon DEF Unjail, StakingType
    <3>2. /\ [val[b] EXCEPT !.Status = "active", !.ConsecutiveMissed = 0].Status = "active"
          /\ [val[b] EXCEPT !.Status = "active", !.ConsecutiveMissed = 0].Bond = val[b].Bond
      BY <2>1 DEF Validator
    <3>3. val[b].Bond >= MinStake /\ val[b].Status = "jailed"
      BY <2>1, <2>3 DEF Unjail
    <3> QED
      BY <3>1, <3>2, <3>3 DEF StakingType, ValidatorStep
  <2> QED
    BY <2>2, <2>3

\* Delegate and Undelegate move TotalStake only.
<1>DelegationStep.
      ASSUME NEW b \in Addrs, NEW amount \in Int, NEW d, NEW slot,
             Delegate(b, amount) \/ Undelegate(d, b, amount, slot)
      PROVE  ValidatorStep(a)
  <2> USE <1>DelegationStep
  <2>1. PICK x : val' = [val EXCEPT ![b].TotalStake = x]
    BY Zenon DEF Delegate, Undelegate
  <2> QED
    BY <2>1 DEF StakingType, Validator, ValidatorStep

\* IncrementMissed and ResetMissed touch neither status nor bond.
<1>MissedStep.
      ASSUME NEW missed, NEW s, NEW epoch,
             IncrementMissed(missed) \/ ResetMissed(s, epoch)
      PROVE  ValidatorStep(a)
  <2> USE <1>MissedStep
  <2>1. CASE IncrementMissed(missed)
    BY <2>1 DEF IncrementMissed, StakingType, Validator, ValidatorStep
  <2>2. CASE ResetMissed(s, epoch)
    BY <2>2 DEF ResetMissed, StakingType, Validator, ValidatorStep
  <2> QED
    BY <2>1, <2>2

<1>1. StakingCases
  BY NextStakingCases
<1>2. CASE UNCHANGED val
  BY <1>2, UnchangedStep
<1>3. CASE \E e \in ub : ScanUnbonding(e, currentSlot)
  BY <1>2, <1>3 DEF ScanUnbonding
<1> QED
  BY <1>1, <1>2, <1>3, <1>RegisterStep, <1>DelegationStep, <1>UnjailStep, <1>SlashStep, <1>MissedStep, Zenon
  DEF StakingCases, stakingVars, ReleaseUnbondings

\* The stake SlashBond takes from a validator.
LEMMA SlashedStake ==
    ASSUME NEW v \in Validator, NEW bps
    PROVE  Slashed(v, bps).TotalStake = v.TotalStake - SlashAmount(v.Bond, bps)
<1> DEFINE amount == SlashAmount(v.Bond, bps)
           status == IF v.Bond - amount < MinStake THEN "jailed" ELSE v.Status
<1>1. Slashed(v, bps) = [v EXCEPT !.Bond = @ - amount, !.TotalStake = @ - amount,
                                  !.Status = status]
  BY DEF Slashed
<1> HIDE DEF amount, status
<1>2. Slashed(v, bps).TotalStake = v.TotalStake - amount
  BY <1>1 DEF Validator
<1> QED
  BY <1>2 DEF amount

\* Only RegisterValidator writes the record of an address without a validator.
LEMMA EmptyRecordStays ==
    ASSUME StakingType, StakingCases, NEW a \in Addrs, val[a].Status = "none"
    PROVE  \/ val'[a] = val[a]
           \/ val'[a].Status = "active" /\ val'[a].LastActiveEpoch = 0
<1>1. ASSUME NEW b \in Addrs, NEW bond, RegisterValidator(b, bond)
      PROVE  \/ val'[a] = val[a]
             \/ val'[a].Status = "active" /\ val'[a].LastActiveEpoch = 0
  <2>1. val' = [val EXCEPT ![b] = NewValidator(bond)]
    BY <1>1 DEF RegisterValidator
  <2>2. NewValidator(bond).Status = "active" /\ NewValidator(bond).LastActiveEpoch = 0
    BY DEF NewValidator
  <2> QED
    BY <2>1, <2>2 DEF StakingType
<1>2. a \notin Registered
  BY DEF Registered
<1>3. ASSUME NEW b \in Addrs, NEW x, b \in Registered, val' = [val EXCEPT ![b] = x]
      PROVE  val'[a] = val[a]
  BY <1>2, <1>3 DEF StakingType
<1>4. ASSUME NEW b \in Addrs, NEW x, b \in Registered,
             val' = [val EXCEPT ![b].TotalStake = x]
      PROVE  val'[a] = val[a]
  BY <1>2, <1>4 DEF StakingType
<1>5. ASSUME NEW b \in Addrs, Unjail(b)
      PROVE  val'[a] = val[a]
  <2>1. b # a
    BY <1>5 DEF Unjail
  <2> QED
    BY <1>5, <2>1 DEF Unjail, StakingType
<1>6. ASSUME NEW missed, IncrementMissed(missed)
      PROVE  val'[a] = val[a]
  BY <1>2, <1>6 DEF IncrementMissed, StakingType
<1>7. ASSUME NEW b \in Servers, ResetMissed(b, currentEpoch)
      PROVE  val'[a] = val[a]
  BY <1>2, <1>7 DEF ResetMissed, StakingType
<1>8. CASE UNCHANGED val
  BY <1>8
<1>9. ASSUME NEW b \in Addrs, NEW amount, NEW d,
             Delegate(b, amount) \/ Undelegate(d, b, amount, currentSlot)
      PROVE  val'[a] = val[a]
  BY <1>4, <1>9 DEF Delegate, Undelegate
<1>10. ASSUME NEW b \in Addrs, NEW bps, SlashBond(b, bps)
       PROVE  val'[a] = val[a]
  BY <1>3, <1>10, Zenon DEF SlashBond
<1> QED
  BY <1>1, <1>5, <1>6, <1>7, <1>8, <1>9, <1>10, Zenon
  DEF StakingCases, stakingVars, ScanUnbonding, ReleaseUnbondings

\* A registered validator stays registered.
LEMMA RegisteredGrows ==
    ASSUME \A a \in Addrs : ValidatorStep(a)
    PROVE  Registered \subseteq Registered'
<1> SUFFICES ASSUME NEW a \in Addrs, val[a].Status # "none"
             PROVE  val'[a].Status # "none"
  BY DEF Registered
<1> QED
  BY Zenon DEF ValidatorStep

-----------------------------------------------------------------------------
(* What a crash leaves behind                                              *)

\* The shape of the variables.  The process that is down holds nothing.
RestartTypeOK ==
    /\ StakingType /\ JobsType /\ TallyType /\ StatsType
    /\ phase # "down" => AppType
    /\ genesis \subseteq {a \in Addrs : GenesisBond[a] > 0}
    /\ genesisQ \subseteq genesis
    /\ restarts \in Nat

\* A step of the running node is one of the application.
LEMMA RunIsNext ==
    ASSUME RestartTypeOK, Run
    PROVE  TypeOK /\ Next /\ phase # "down"
<1>1. Next /\ phase # "down"
  BY Zenon DEF Run, BlockStep, Next, InitChain, BeginBlock, ProcessMatureUnbondings, EndEpoch,
     BeginTally, TallyExpiredDisputes, RecordTally, DeliverTx, EndBlock, Halt
<1> QED
  BY <1>1, TypeParts DEF RestartTypeOK

\* An address without a validator has an empty record.
EmptyRecords == \A a \in Addrs : val[a].Status = "none" => val[a] = NoValidator

\* The bonds a registration may bring.
BondsOf(a) ==
    {bond \in Nat :
       /\ bond >= MinStake
       /\ \/ phase = "genesis" /\ a \in genesis /\ bond = GenesisBond[a]
          \/ phase = "txs" /\ bond \in Bonds}

\* What a crash leaves of staking: a validator whose bond or whose change of stake
\* is not in the total yet, or records deleted and not yet taken from it.
CrashStaking ==
    \/ UNCHANGED <<val, ub, total_stake>>
    \/ \E a \in Addrs, bond \in Nat :
          /\ a \notin Registered
          /\ bond \in BondsOf(a)
          /\ val' = [val EXCEPT ![a] = NewValidator(bond)]
          /\ UNCHANGED <<ub, total_stake>>
    \/ \E a \in Registered, amount \in Amounts :
          /\ phase = "txs"
          /\ \/ val' = [val EXCEPT ![a] = [val[a] EXCEPT !.TotalStake = @ + amount]]
             \/ val' = [val EXCEPT ![a] = [val[a] EXCEPT !.TotalStake = @ - amount]]
          /\ UNCHANGED <<ub, total_stake>>
    \/ \E a \in Registered, bps \in Nat :
          /\ phase \in {"drain", "tally", "txs"}
          /\ val' = [val EXCEPT ![a] = Slashed(val[a], bps)]
          /\ total_stake' \in {total_stake, total_stake - SlashAmount(val[a].Bond, bps)}
          /\ UNCHANGED ub
    \/ phase = "unbond" /\ ub' = ub \ toDelete /\ UNCHANGED <<val, total_stake>>
    \/ \E missed : IncrementMissed(missed)
    \/ \E s \in Servers : ResetMissed(s, currentEpoch)

\* The records that FinaliseSlot writes when the missed jobs are those of failed.
FailsJobs(failed) ==
    jobs' = [j \in JobIDs |-> IF j \in failed THEN [jobs[j] EXCEPT !.State = "failed"]
                                              ELSE jobs[j]]

\* The record of a job when a dispute on it is opened.
ContestsJob(i) == jobs' = [jobs EXCEPT ![i].State = "disputed"]

CrashJobs ==
    \/ UNCHANGED jobsVars
    \/ \E i \in tallyQ : RevertJob(i) /\ UNCHANGED disputes
    \/ \E i \in JobIDs, a \in Addrs :
          /\ jobs[i].Commitment # NoCommitment
          /\ jobs[i].Commitment.ValidatorAddr = a
          /\ \/ ContestsJob(i) /\ UNCHANGED disputes
             \/ /\ ContestsJob(i)
                /\ disputes' = [disputes EXCEPT
                                  ![i] = NewDispute(a, "user", currentSlot, TRUE)]
             \/ OpenDisputeAndRevert(i, a, "user", currentSlot)
    \/ \E i \in JobIDs :
          /\ jobs[i].Commitment # NoCommitment
          /\ ContestsJob(i)
          /\ UNCHANGED disputes
    \/ \E i \in JobIDs, a \in Servers, o \in Outputs : AddCommitment(i, a, o)
    \/ \E failed \in SUBSET MissedJobs(currentSlot) :
          FailsJobs(failed) /\ UNCHANGED disputes

\* The counters of the current epoch go up: the slashes of validator a by p[a],
\* its reverted blocks by q[a].
CountsUp(p, q) ==
    /\ stats' \in [Servers -> [Epochs -> EpochStats]]
    /\ \A a \in Servers :
          /\ \A e \in Epochs \ {currentEpoch} :
                /\ stats'[a][e].JobsSlashed = stats[a][e].JobsSlashed
                /\ stats'[a][e].BlocksReverted = stats[a][e].BlocksReverted
          /\ stats'[a][currentEpoch].JobsSlashed
               = stats[a][currentEpoch].JobsSlashed + p[a]
          /\ stats'[a][currentEpoch].BlocksReverted
               = stats[a][currentEpoch].BlocksReverted + q[a]

\* How many of the events in J are about validator a.
EventsOf(J) == [a \in Servers |-> Cardinality({j \in J : disputes[j].ServingValidator = a})]

\* The slash events of a tally, counted by server.
LEMMA EventsOfType ==
    ASSUME tallyEvents \subseteq JobIDs, NEW J \in SUBSET tallyEvents
    PROVE  EventsOf(J) \in [Servers -> Nat]
<1>1. ASSUME NEW a \in Servers
      PROVE  Cardinality({j \in J : disputes[j].ServingValidator = a}) \in Nat
  <2>1. IsFiniteSet({j \in J : disputes[j].ServingValidator = a})
    BY AppAssumption, FS_Subset, Zenon
  <2> QED
    BY <2>1, FS_CardinalityType
<1> QED
  BY <1>1 DEF EventsOf

\* What a crash leaves of the counters.
CrashStats ==
    \/ UNCHANGED stats
    \/ \E done \in SUBSET tallyEvents, half \in SUBSET tallyEvents :
          /\ CountsUp(EventsOf(done \cup half), EventsOf(done))
          /\ UNCHANGED jobsVars
    \/ \E j \in JobIDs, a \in Addrs :
          /\ jobs[j].Commitment # NoCommitment
          /\ jobs[j].Commitment.ValidatorAddr = a
          /\ OpenDisputeAndRevert(j, a, "user", currentSlot)
          /\ CountsUp([b \in Servers |-> IF b = a THEN 1 ELSE 0], [b \in Servers |-> 0])

-----------------------------------------------------------------------------
(* Type correctness over restarts                                          *)

\* A crash moves a validator the way a step of the application may, and writes
\* nothing to the record of an address but a new validator.
LEMMA CrashValidatorStep ==
    ASSUME StakingType, CrashStaking, NEW a \in Addrs
    PROVE  /\ ValidatorStep(a)
           /\ val'[a].Status = "none" => val'[a] = val[a]
<1>1. /\ \A b \in Addrs : val[b] \in Validator /\ val[b].Bond \in Nat
      /\ Registered \subseteq Addrs
      /\ Amounts \subseteq Int
  BY StakingAssumption DEF StakingType, Validator, Registered
<1>2. CASE UNCHANGED val
  BY <1>2, UnchangedStep
<1>3. ASSUME NEW b \in Addrs, NEW bond \in Nat, b \notin Registered, bond \in BondsOf(b),
             val' = [val EXCEPT ![b] = NewValidator(bond)]
      PROVE  /\ ValidatorStep(a)
             /\ val'[a].Status = "none" => val'[a] = val[a]
  <2>1. bond >= MinStake
    BY <1>3 DEF BondsOf
  <2>2. NewValidator(bond).Status = "active" /\ NewValidator(bond).Bond = bond
    BY DEF NewValidator
  <2>3. a # b => val'[a] = val[a]
    BY <1>3 DEF StakingType
  <2>4. a = b => val'[a] = NewValidator(bond)
    BY <1>3 DEF StakingType
  <2>5. val[b].Status = "none"
    BY <1>3 DEF Registered
  <2> QED
    BY <2>1, <2>2, <2>3, <2>4, <2>5, Zenon DEF ValidatorStep
<1>4. ASSUME NEW b \in Registered, NEW amount \in Amounts,
             \/ val' = [val EXCEPT ![b] = [val[b] EXCEPT !.TotalStake = @ + amount]]
             \/ val' = [val EXCEPT ![b] = [val[b] EXCEPT !.TotalStake = @ - amount]]
      PROVE  /\ ValidatorStep(a)
             /\ val'[a].Status = "none" => val'[a] = val[a]
  <2>1. a # b => val'[a] = val[a]
    BY <1>1, <1>4 DEF StakingType
  <2>2. a = b => val'[a].Status = val[a].Status /\ val'[a].Bond = val[a].Bond
    BY <1>1, <1>4 DEF StakingType, Validator
  <2>3. val[b].Status # "none"
    BY DEF Registered
  <2>4. CASE a # b
    BY <2>1, <2>4, Zenon DEF ValidatorStep
  <2>5. CASE a = b
    BY <2>2, <2>3, <2>5, Zenon DEF ValidatorStep
  <2> QED
    BY <2>4, <2>5, Zenon
<1>5. ASSUME NEW b \in Registered, NEW bps \in Nat,
             val' = [val EXCEPT ![b] = Slashed(val[b], bps)]
      PROVE  /\ ValidatorStep(a)
             /\ val'[a].Status = "none" => val'[a] = val[a]
  <2>1. a # b => val'[a] = val[a]
    BY <1>1, <1>5 DEF StakingType
  <2>2. a = b => val'[a] = Slashed(val[a], bps)
    BY <1>1, <1>5 DEF StakingType
  <2>3. val[b].Status # "none"
    BY DEF Registered
  <2>4. /\ Slashed(val[a], bps).Bond \in 0 .. val[a].Bond
        /\ Slashed(val[a], bps).Bond < MinStake => Slashed(val[a], bps).Status = "jailed"
        /\ ~ (Slashed(val[a], bps).Bond < MinStake) =>
              Slashed(val[a], bps).Status = val[a].Status
    BY <1>1, SlashedRecord, Zenon
  <2>5. CASE a # b
    BY <2>1, <2>5, Zenon DEF ValidatorStep
  <2>6. CASE a = b
    BY <2>2, <2>3, <2>4, <2>6, Zenon DEF ValidatorStep
  <2> QED
    BY <2>5, <2>6, Zenon
<1>6. ASSUME NEW missed, IncrementMissed(missed)
      PROVE  /\ val'[a].Status = val[a].Status /\ val'[a].Bond = val[a].Bond
             /\ val'[a].Status = "none" => val'[a] = val[a]
  BY <1>1, <1>6 DEF IncrementMissed, StakingType, Validator, Registered
<1>7. ASSUME NEW s \in Servers, ResetMissed(s, currentEpoch)
      PROVE  /\ val'[a].Status = val[a].Status /\ val'[a].Bond = val[a].Bond
             /\ val'[a].Status = "none" => val'[a] = val[a]
  BY <1>1, <1>7 DEF ResetMissed, StakingType, Validator, Registered
<1>8. CASE (\E missed : IncrementMissed(missed))
             \/ \E s \in Servers : ResetMissed(s, currentEpoch)
  BY <1>6, <1>7, <1>8, Zenon DEF ValidatorStep
<1> QED
  BY <1>2, <1>3, <1>4, <1>5, <1>8 DEF CrashStaking

\* The shape of the store, and what it holds for an address without a validator.
RestartInv == RestartTypeOK /\ EmptyRecords

\* A step of the restarted system: of the application, or one that changes
\* nothing in its store, or a crash.
StopsOnly ==
    /\ \/ UNCHANGED phase
       \/ /\ phase = "genesis"
          /\ \E a \in genesisQ : a \in Registered
          /\ phase' = "down"
    /\ UNCHANGED <<storeVars, released, toDelete, slashingVars, currentSlot,
                   genesisQ, activeVals, server, drainQ, genesis, restarts>>

\* Every step is one of the application, a crash, or a stop.
LEMMA RestartCases ==
    ASSUME [RestartNext]_restartVars
    PROVE  \/ Run /\ UNCHANGED <<genesis, restarts>>
           \/ Crash
           \/ StopsOnly
<1>1. CASE InitChainFails
  BY <1>1 DEF InitChainFails, StopsOnly
<1>2. CASE UNCHANGED restartVars
  <2>1. UNCHANGED <<val, ub, total_stake, jobs, disputes, stats, released, toDelete,
                    tallyQ, tallyStake, tallyEvents, currentSlot, phase, genesisQ, activeVals,
                    server, drainQ, genesis, restarts>>
    BY <1>2, Zenon DEF restartVars, vars, stakingVars, jobsVars, slashingVars, appVars
  <2> QED
    BY <2>1 DEF StopsOnly, storeVars, jobsVars, slashingVars
<1>3. CASE Run
  BY <1>3 DEF Run
<1> QED
  BY <1>1, <1>2, <1>3 DEF RestartNext, Down

\* A crash leaves a well typed store, and in each part of it one of a few things.
LEMMA CrashTypes ==
    ASSUME RestartTypeOK, EmptyRecords, Crash
    PROVE  TypeOK /\ TypeOK' /\ RestartTypeOK' /\ CrashStaking /\ CrashJobs /\ CrashStats

<1>CrashStakingCases.
      ASSUME RestartTypeOK, EmptyRecords, Crash
      PROVE  CrashStaking
  <2> USE <1>CrashStakingCases
  <2>1. /\ StakingType /\ AppType
        /\ Bonds \subseteq Int /\ Amounts \subseteq Int
    BY StakingAssumption DEF RestartTypeOK, Crash
  <2>2. ASSUME NEW a \in Registered, NEW bps \in Nat, phase \in {"drain", "tally", "txs"},
               val' = [val EXCEPT ![a] = Slashed(@, bps)],
               total_stake' \in {total_stake, total_stake - SlashAmount(val[a].Bond, bps)},
               UNCHANGED ub
        PROVE  CrashStaking
    <3>1. val' = [val EXCEPT ![a] = Slashed(val[a], bps)]
      BY <2>1, <2>2 DEF StakingType
    <3> QED
      BY <2>2, <3>1, Zenon DEF CrashStaking
  <2>3. CASE TornGenesis
    <3>1. PICK a \in genesisQ \ Registered : PutValidator(a, NewValidator(GenesisBond[a]))
      BY <2>3 DEF TornGenesis
    <3>2. a \in Addrs /\ GenesisBond[a] \in BondsOf(a) /\ GenesisBond[a] \in Nat
      BY <2>3, StakingAssumption DEF RestartTypeOK, TornGenesis, BondsOf
    <3> QED
      BY <3>1, <3>2, Zenon DEF CrashStaking, PutValidator
  <2>4. CASE TornRelease
    BY <2>4 DEF TornRelease, CrashStaking
  <2>5. CASE TornDrain
    <3>1. PICK a \in drainQ :
            /\ val[a].Bond > 0
            /\ PutValidator(a, Slashed(val[a], DrainBPS(currentEpoch - 1
                                                          - val[a].LastActiveEpoch)))
      BY <2>5, Zenon DEF TornDrain
    <3>2. a \in Addrs
      BY <2>1 DEF AppType
    <3>3. currentEpoch - 1 - val[a].LastActiveEpoch \in Int
      BY <2>1, <3>2, EpochType DEF AppType, StakingType, Validator
    <3>4. DrainBPS(currentEpoch - 1 - val[a].LastActiveEpoch) \in Nat
      BY <3>3, DrainBPSType
    <3>5. NoValidator.Bond = 0
      BY DEF NoValidator, NewValidator
    <3>6. a \in Registered
      BY <3>1, <3>2, <3>5 DEF EmptyRecords, Registered
    <3> QED
      BY <2>5, <3>1, <3>4, <3>6, Zenon DEF CrashStaking, PutValidator, TornDrain
  <2>6. CASE TornTally
    <3>1. PICK j \in tallyQ, n \in 1 .. 3 : TornVisit(j, n)
      BY <2>6 DEF TornTally
    <3>2. PICK a : a = disputes[j].ServingValidator
      OBVIOUS
    <3>3. /\ a \in Registered
          /\ val' = [val EXCEPT ![a] = Slashed(@, SlashMismatch)]
          /\ n >= 2 => total_stake' = total_stake - SlashAmount(val[a].Bond, SlashMismatch)
          /\ ~ (n >= 2) => total_stake' = total_stake - 0
      BY <3>1, <3>2, Zenon DEF TornVisit
    <3>4. total_stake' \in {total_stake, total_stake - SlashAmount(val[a].Bond, SlashMismatch)}
      BY <2>1, <3>3 DEF StakingType
    <3>5. SlashMismatch \in Nat /\ UNCHANGED ub /\ phase \in {"drain", "tally", "txs"}
      BY <2>6 DEF TornTally, SlashMismatch
    <3> QED
      BY <2>2, <3>3, <3>4, <3>5, Zenon
  <2>7. CASE TornRecord
    BY <2>7 DEF TornRecord, CrashStaking
  <2>8. CASE TornSweep
    BY <2>8 DEF TornSweep, CrashStaking
  <2>9. CASE TornTx
    <3>0. phase = "txs" /\ phase \in {"drain", "tally", "txs"}
      BY <2>9 DEF TornTx, TxAllowed
    <3>1. ASSUME NEW a \in Addrs, TornRegister(a)
          PROVE  CrashStaking
      <4>1. PICK bond \in Bonds : bond >= MinStake /\ PutValidator(a, NewValidator(bond))
        BY <3>1 DEF TornRegister
      <4>2. bond \in Nat /\ bond \in BondsOf(a)
        BY <2>1, <3>0, <4>1, RegisteredBond DEF BondsOf
      <4> QED
        BY <3>1, <4>1, <4>2, Zenon DEF TornRegister, CrashStaking, PutValidator
    <3>2. ASSUME NEW a \in Addrs, TornDelegate(a) \/ TornUndelegate(a)
          PROVE  CrashStaking
      <4>1. a \in Registered
        BY <3>2 DEF TornDelegate, TornUndelegate, ListActive, Registered
      <4> QED
        BY <3>0, <3>2, <4>1 DEF TornDelegate, TornUndelegate, PutValidator, CrashStaking
    <3>3. ASSUME NEW j \in JobIDs, NEW a \in Servers, TornUserDispute(j, a)
          PROVE  CrashStaking
      <4>1. PICK n \in 1 .. 6 : TornDispute(j, a, n)
        BY <3>3 DEF TornUserDispute
      <4>2. /\ a \in Registered
            /\ val' = [val EXCEPT ![a] = Slashed(@, SlashMalicious)]
            /\ n >= 2 => total_stake' = total_stake - SlashAmount(val[a].Bond, SlashMalicious)
            /\ ~ (n >= 2) => total_stake' = total_stake - 0
            /\ UNCHANGED ub
        BY <4>1 DEF TornDispute
      <4>3. total_stake' \in {total_stake,
                              total_stake - SlashAmount(val[a].Bond, SlashMalicious)}
        BY <2>1, <4>2 DEF StakingType
      <4>4. SlashMalicious \in Nat
        BY DEF SlashMalicious
      <4> QED
        BY <2>2, <3>0, <4>2, <4>3, <4>4, Zenon
    <3>4. ASSUME NEW j \in JobIDs, NEW a \in Servers, TornCommitment(j, a)
          PROVE  CrashStaking
      BY <3>4 DEF TornCommitment, CrashStaking
    <3>5. ASSUME NEW j \in JobIDs, TornObserverDispute(j)
          PROVE  CrashStaking
      BY <3>5 DEF TornObserverDispute, CrashStaking
    <3> QED
      BY <2>9, <3>1, <3>2, <3>3, <3>4, <3>5 DEF TornTx
  <2>10. CASE UNCHANGED storeVars
    BY <2>10 DEF storeVars, CrashStaking
  <2> QED
    BY <2>3, <2>4, <2>5, <2>6, <2>7, <2>8, <2>9, <2>10 DEF Crash

\* The writes of a user dispute to the jobs.
<1>TornDisputeJobs.
      ASSUME NEW j \in JobIDs, NEW a, NEW n \in 1 .. 6, TornDispute(j, a, n)
      PROVE  /\ a \in Addrs
             /\ jobs[j].Commitment # NoCommitment
             /\ jobs[j].Commitment.ValidatorAddr = a
             /\ \/ UNCHANGED jobsVars
                \/ ContestsJob(j) /\ UNCHANGED disputes
                \/ /\ ContestsJob(j)
                   /\ disputes' = [disputes EXCEPT
                                     ![j] = NewDispute(a, "user", currentSlot, TRUE)]
                \/ OpenDisputeAndRevert(j, a, "user", currentSlot)
             /\ \/ UNCHANGED stats
                \/ /\ OpenDisputeAndRevert(j, a, "user", currentSlot)
                   /\ stats' = [stats EXCEPT ![a][currentEpoch].JobsSlashed = @ + 1]
  <2> USE <1>TornDisputeJobs
  <2>1. /\ a \in Addrs
        /\ jobs[j].Commitment # NoCommitment
        /\ jobs[j].Commitment.ValidatorAddr = a
    BY DEF TornDispute, Registered
  <2>2. n \in {1, 2, 3, 4, 5, 6}
    OBVIOUS
  <2>3. CASE n \in {1, 2}
    <3>1. UNCHANGED jobs
      <4>1. CASE n = 1
        BY <4>1 DEF TornDispute
      <4>2. CASE n = 2
        BY <4>2 DEF TornDispute
      <4> QED
        BY <2>3, <4>1, <4>2
    <3>2. n < 4 /\ n < 6
      BY <2>3
    <3>3. UNCHANGED disputes
      BY <3>2 DEF TornDispute
    <3>4. UNCHANGED stats
      BY <3>2 DEF TornDispute
    <3> QED
      BY <2>1, <3>1, <3>3, <3>4 DEF jobsVars
  <2>4. CASE n = 3
    <3>1. jobs' = [jobs EXCEPT ![j].State = "disputed"]
      BY <2>4 DEF TornDispute
    <3>2. UNCHANGED <<disputes, stats>>
      BY <2>4 DEF TornDispute
    <3> QED
      BY <2>1, <3>1, <3>2 DEF ContestsJob
  <2>5. CASE n = 4
    <3>1. /\ jobs' = [jobs EXCEPT ![j].State = "disputed"]
          /\ disputes' = [disputes EXCEPT ![j] = NewDispute(a, "user", currentSlot, TRUE)]
          /\ UNCHANGED stats
      BY <2>5 DEF TornDispute
    <3> QED
      BY <2>1, <3>1 DEF ContestsJob
  <2>6. CASE n \in {5, 6}
    <3>1. RevertJob(j)
      BY <2>6 DEF TornDispute
    <3>2. disputes' = [disputes EXCEPT ![j] = NewDispute(a, "user", currentSlot, TRUE)]
      BY <2>6 DEF TornDispute
    <3>3. \/ UNCHANGED stats
          \/ stats' = [stats EXCEPT ![a][currentEpoch].JobsSlashed = @ + 1]
      BY <2>6 DEF TornDispute
    <3>4. OpenDisputeAndRevert(j, a, "user", currentSlot)
      BY <3>1, <3>2 DEF OpenDisputeAndRevert, RevertJob
    <3> QED
      BY <2>1, <3>3, <3>4, Zenon
  <2> QED
    BY <2>2, <2>3, <2>4, <2>5, <2>6, Zenon

<1>CrashJobsCases.
      ASSUME RestartTypeOK, Crash
      PROVE  CrashJobs
  <2> USE <1>CrashJobsCases
  <2>1. CASE TornTally
    <3>1. PICK j \in tallyQ, n \in 1 .. 3 : TornVisit(j, n)
      BY <2>1 DEF TornTally
    <3>2. RevertJob(j) \/ UNCHANGED jobs
      BY <3>1 DEF TornVisit
    <3> QED
      BY <2>1, <3>2, Zenon DEF TornTally, CrashJobs, jobsVars
  <2>2. CASE TornSweep
    BY <2>2, Zenon DEF TornSweep, FailsJobs, CrashJobs
  <2>3. CASE TornTx
    <3>1. ASSUME NEW j \in JobIDs, NEW a, TornUserDispute(j, a)
          PROVE  CrashJobs
      <4>1. PICK n \in 1 .. 6 : TornDispute(j, a, n)
        BY <3>1 DEF TornUserDispute
      <4> QED
        BY <4>1, <1>TornDisputeJobs, Zenon DEF CrashJobs
    <3>2. ASSUME NEW j \in JobIDs, TornObserverDispute(j)
          PROVE  CrashJobs
      BY <3>2, Zenon DEF TornObserverDispute, ContestsJob, CrashJobs
    <3>3. ASSUME NEW j \in JobIDs, NEW a \in Servers, TornCommitment(j, a)
          PROVE  CrashJobs
      BY <3>3, Zenon DEF TornCommitment, CrashJobs
    <3>4. CASE UNCHANGED jobsVars
      BY <3>4 DEF CrashJobs
    <3> QED
      BY <2>3, <3>1, <3>2, <3>3, <3>4
      DEF TornTx, TornRegister, TornDelegate, TornUndelegate, PutValidator
  <2>4. CASE UNCHANGED jobsVars
    BY <2>4 DEF CrashJobs
  <2> QED
    BY <2>1, <2>2, <2>3, <2>4, Zenon
    DEF Crash, storeVars, TornGenesis, TornRelease, TornDrain, TornRecord, PutValidator

<1>CountsUpBy.
      ASSUME StatsType, NEW p \in [Servers -> Nat], NEW q \in [Servers -> Nat],
             currentEpoch \in Epochs,
             stats' = [a \in Servers |->
                         [stats[a] EXCEPT ![currentEpoch].JobsSlashed = @ + p[a],
                                          ![currentEpoch].BlocksReverted = @ + q[a]]]
      PROVE  CountsUp(p, q)
  <2>1. ASSUME NEW a \in Servers
        PROVE  /\ stats'[a] \in [Epochs -> EpochStats]
               /\ \A e \in Epochs \ {currentEpoch} : stats'[a][e] = stats[a][e]
               /\ stats'[a][currentEpoch].JobsSlashed
                    = stats[a][currentEpoch].JobsSlashed + p[a]
               /\ stats'[a][currentEpoch].BlocksReverted
                    = stats[a][currentEpoch].BlocksReverted + q[a]
    <3> DEFINE r == stats[a][currentEpoch]
               x == r.JobsSlashed + p[a]
               y == r.BlocksReverted + q[a]
               s == [r EXCEPT !.JobsSlashed = x, !.BlocksReverted = y]
    <3>1. /\ currentEpoch \in Epochs
          /\ stats[a] \in [Epochs -> EpochStats] /\ r \in EpochStats
      BY <1>CountsUpBy DEF StatsType
    <3>2. x \in Nat /\ y \in Nat
      <4>1. r.JobsSlashed \in Nat /\ r.BlocksReverted \in Nat
        BY <3>1, Zenon DEF EpochStats
      <4>2. p[a] \in Nat /\ q[a] \in Nat
        BY <1>CountsUpBy, Zenon
      <4> HIDE DEF r
      <4> QED
        BY <4>1, <4>2
    <3>3. stats'[a] = [stats[a] EXCEPT ![currentEpoch].JobsSlashed = x,
                                       ![currentEpoch].BlocksReverted = y]
      BY <1>CountsUpBy, Zenon
    <3> HIDE DEF x, y
    <3>4. stats'[a] = [stats[a] EXCEPT ![currentEpoch] = s]
      BY <3>1, <3>3, Zenon
    <3>5. s \in EpochStats /\ s.JobsSlashed = x /\ s.BlocksReverted = y
      BY <3>1, <3>2, Zenon DEF EpochStats
    <3> HIDE DEF s, r
    <3>6. /\ stats'[a] \in [Epochs -> EpochStats]
          /\ \A e \in Epochs \ {currentEpoch} : stats'[a][e] = stats[a][e]
          /\ stats'[a][currentEpoch] = s
      BY <3>1, <3>4, <3>5, Zenon
    <3> QED
      BY <3>5, <3>6, Zenon DEF x, y, r
  <2>2. stats' = [a \in Servers |-> stats'[a]]
    BY <1>CountsUpBy, Zenon
  <2>3. stats' \in [Servers -> [Epochs -> EpochStats]]
    BY <2>1, <2>2, Zenon
  <2> QED
    BY <2>1, <2>3, Zenon DEF CountsUp

<1>TornRecordCounts.
      ASSUME StatsType, tallyEvents \subseteq JobIDs, currentSlot \in 0 .. MaxSlot, TornRecord
      PROVE  \E done \in SUBSET tallyEvents, half \in SUBSET tallyEvents :
                CountsUp(EventsOf(done \cup half), EventsOf(done))
  <2> USE <1>TornRecordCounts
  <2>1. PICK done \in SUBSET tallyEvents, half \in SUBSET tallyEvents :
          stats' = [a \in Servers |->
             [stats[a] EXCEPT
                ![currentEpoch].JobsSlashed
                   = @ + Cardinality({j \in done \cup half : disputes[j].ServingValidator = a}),
                ![currentEpoch].BlocksReverted
                   = @ + Cardinality({j \in done : disputes[j].ServingValidator = a})]]
    BY Zenon DEF TornRecord
  <2> DEFINE p == EventsOf(done \cup half)
             q == EventsOf(done)
  <2>2. p \in [Servers -> Nat] /\ q \in [Servers -> Nat]
    BY EventsOfType
  <2>3. ASSUME NEW a \in Servers
        PROVE  /\ Cardinality({j \in done \cup half : disputes[j].ServingValidator = a}) = p[a]
               /\ Cardinality({j \in done : disputes[j].ServingValidator = a}) = q[a]
    BY <2>3, Zenon DEF EventsOf
  <2>4. stats' = [a \in Servers |->
                    [stats[a] EXCEPT ![currentEpoch].JobsSlashed = @ + p[a],
                                     ![currentEpoch].BlocksReverted = @ + q[a]]]
    <3> HIDE DEF p, q
    <3> QED
      BY <2>1, <2>3, Zenon
  <2>5. currentEpoch \in Epochs
    BY EpochInRange
  <2> HIDE DEF p, q
  <2>6. CountsUp(p, q)
    BY <2>2, <2>4, <2>5, <1>CountsUpBy, Zenon
  <2> QED
    BY <2>6, Zenon DEF p, q

<1>TornDisputeCounts.
      ASSUME StatsType, NEW a \in Addrs, currentSlot \in 0 .. MaxSlot,
             stats' = [stats EXCEPT ![a][currentEpoch].JobsSlashed = @ + 1]
      PROVE  CountsUp([b \in Servers |-> IF b = a THEN 1 ELSE 0], [b \in Servers |-> 0])
  <2> USE <1>TornDisputeCounts
  <2> DEFINE r == stats[a][currentEpoch]
             x == r.JobsSlashed + 1
             s == [r EXCEPT !.JobsSlashed = x]
  <2>1. /\ a \in Servers /\ currentEpoch \in Epochs
        /\ stats[a] \in [Epochs -> EpochStats] /\ r \in EpochStats
        /\ \A b \in Servers, e \in Epochs :
              stats[b][e].JobsSlashed \in Nat /\ stats[b][e].BlocksReverted \in Nat
    BY EpochInRange DEF StatsType, Servers, EpochStats
  <2>2. x \in Nat
    BY <2>1 DEF EpochStats
  <2>3. stats' = [stats EXCEPT ![a] = [stats[a] EXCEPT ![currentEpoch] = s]]
    BY <2>1 DEF StatsType, EpochStats
  <2> HIDE DEF x
  <2>4. s \in EpochStats /\ s.JobsSlashed = x /\ s.BlocksReverted = r.BlocksReverted
    BY <2>1, <2>2 DEF EpochStats
  <2> HIDE DEF s
  <2>5. /\ stats' \in [Servers -> [Epochs -> EpochStats]]
        /\ stats'[a][currentEpoch] = s
        /\ \A b \in Servers, e \in Epochs :
              b # a \/ e # currentEpoch => stats'[b][e] = stats[b][e]
    <3>1. PICK f : f = [stats[a] EXCEPT ![currentEpoch] = s]
      BY Zenon
    <3>2. /\ f \in [Epochs -> EpochStats] /\ f[currentEpoch] = s
          /\ \A e \in Epochs : e # currentEpoch => f[e] = stats[a][e]
      BY <2>1, <2>4, <3>1
    <3>3. stats' = [stats EXCEPT ![a] = f]
      BY <2>3, <3>1, Zenon
    <3>4. stats' \in [Servers -> [Epochs -> EpochStats]] /\ stats'[a] = f
      BY <2>1, <3>2, <3>3, Zenon DEF StatsType
    <3>5. \A b \in Servers : b # a => stats'[b] = stats[b]
      BY <2>1, <3>3 DEF StatsType
    <3> QED
      BY <2>1, <3>2, <3>4, <3>5
  <2> DEFINE p == [b \in Servers |-> IF b = a THEN 1 ELSE 0]
             q == [b \in Servers |-> 0]
  <2>6. /\ stats'[a][currentEpoch].JobsSlashed = stats[a][currentEpoch].JobsSlashed + 1
        /\ stats'[a][currentEpoch].BlocksReverted = stats[a][currentEpoch].BlocksReverted + 0
    BY <2>1, <2>4, <2>5 DEF x
  <2>7. ASSUME NEW b \in Servers, b # a
        PROVE  /\ stats'[b][currentEpoch].JobsSlashed = stats[b][currentEpoch].JobsSlashed + 0
               /\ stats'[b][currentEpoch].BlocksReverted
                    = stats[b][currentEpoch].BlocksReverted + 0
    BY <2>1, <2>5, <2>7
  <2>8. p[a] = 1 /\ \A b \in Servers : q[b] = 0 /\ (b # a => p[b] = 0)
    BY <2>1
  <2> HIDE DEF p, q, r
  <2>9. CountsUp(p, q)
    BY <2>1, <2>5, <2>6, <2>7, <2>8 DEF CountsUp
  <2> QED
    BY <2>9 DEF p, q

<1>CrashStatsCases.
      ASSUME RestartTypeOK, Crash
      PROVE  CrashStats
  <2> USE <1>CrashStatsCases
  <2>1. StatsType /\ tallyEvents \subseteq JobIDs /\ currentSlot \in 0 .. MaxSlot
    BY DEF RestartTypeOK, AppType, TallyType, Crash
  <2>2. CASE TornRecord
    BY <2>1, <2>2, <1>TornRecordCounts, Zenon DEF TornRecord, CrashStats
  <2>3. ASSUME NEW j \in JobIDs, NEW a, TornUserDispute(j, a)
        PROVE  CrashStats
    <3>1. PICK n \in 1 .. 6 : TornDispute(j, a, n)
      BY <2>3 DEF TornUserDispute
    <3>2. CASE UNCHANGED stats
      BY <3>2 DEF CrashStats
    <3>3. CASE /\ OpenDisputeAndRevert(j, a, "user", currentSlot)
               /\ stats' = [stats EXCEPT ![a][currentEpoch].JobsSlashed = @ + 1]
      <4>1. a \in Addrs /\ jobs[j].Commitment # NoCommitment
            /\ jobs[j].Commitment.ValidatorAddr = a
        BY <3>1, <1>TornDisputeJobs, Zenon
      <4>2. CountsUp([b \in Servers |-> IF b = a THEN 1 ELSE 0], [b \in Servers |-> 0])
        BY <2>1, <3>3, <4>1, <1>TornDisputeCounts, Zenon
      <4> QED
        BY <3>3, <4>1, <4>2 DEF CrashStats
    <3> QED
      BY <3>1, <3>2, <3>3, <1>TornDisputeJobs, Zenon
  <2>4. CASE UNCHANGED stats
    BY <2>4 DEF CrashStats
  <2> QED
    BY <2>2, <2>3, <2>4, Zenon
    DEF Crash, storeVars, TornGenesis, TornRelease, TornDrain, TornTally, TornSweep, TornTx,
        TornRegister, TornDelegate, TornUndelegate, PutValidator, TornCommitment,
        TornObserverDispute

<1>CrashStakingType.
      ASSUME StakingType, currentSlot \in 0 .. MaxSlot, CrashStaking,
             released' = 0, toDelete' = {}
      PROVE  StakingType'
  <2> USE <1>CrashStakingType
  <2>1. \A a \in Addrs : val[a] \in Validator /\ val[a].Bond \in Nat
    BY DEF StakingType, Validator
  <2>2. ASSUME NEW a \in Addrs, NEW v \in Validator, val' = [val EXCEPT ![a] = v],
               UNCHANGED ub, total_stake' \in Int
        PROVE  StakingType'
    BY <2>2 DEF StakingType
  <2>3. Registered \subseteq Addrs /\ total_stake \in Int /\ Amounts \subseteq Int
    BY StakingAssumption DEF Registered, StakingType
  <2>4. ASSUME NEW a \in Addrs, NEW bond \in Nat,
               val' = [val EXCEPT ![a] = NewValidator(bond)], UNCHANGED <<ub, total_stake>>
        PROVE  StakingType'
    <3>1. NewValidator(bond) \in Validator
      BY DEF NewValidator, Validator, Statuses
    <3> QED
      BY <2>2, <2>3, <2>4, <3>1, Zenon
  <2>5. ASSUME NEW a \in Registered, NEW amount \in Amounts,
               \/ val' = [val EXCEPT ![a] = [val[a] EXCEPT !.TotalStake = @ + amount]]
               \/ val' = [val EXCEPT ![a] = [val[a] EXCEPT !.TotalStake = @ - amount]],
               UNCHANGED <<ub, total_stake>>
        PROVE  StakingType'
    <3>1. /\ [val[a] EXCEPT !.TotalStake = @ + amount] \in Validator
          /\ [val[a] EXCEPT !.TotalStake = @ - amount] \in Validator
      BY <2>1, <2>3 DEF Validator
    <3> QED
      BY <2>2, <2>3, <2>5, <3>1
  <2>6. ASSUME NEW a \in Registered, NEW bps \in Nat,
               val' = [val EXCEPT ![a] = Slashed(val[a], bps)],
               total_stake' \in {total_stake, total_stake - SlashAmount(val[a].Bond, bps)},
               UNCHANGED ub
        PROVE  StakingType'
    <3>1. Slashed(val[a], bps) \in Validator
      BY <2>1, <2>3, SlashedRecord, Zenon
    <3>2. SlashAmount(val[a].Bond, bps) \in 0 .. val[a].Bond
      BY <2>1, <2>3, SlashAmountBounds, Zenon
    <3>3. SlashAmount(val[a].Bond, bps) \in Int
      BY <3>2
    <3>4. total_stake' \in Int
      BY <2>3, <2>6, <3>3
    <3>5. a \in Addrs
      BY <2>3
    <3> QED
      BY <2>2, <2>6, <3>1, <3>4, <3>5, Zenon
  <2>7. CASE UNCHANGED <<val, ub, total_stake>> \/ (ub' = ub \ toDelete /\ UNCHANGED <<val, total_stake>>)
    BY <2>7 DEF StakingType
  <2>8. ASSUME NEW missed, IncrementMissed(missed)
        PROVE  StakingType'
    BY <2>8, IncrementMissedType
  <2>9. ASSUME NEW s \in Servers, ResetMissed(s, currentEpoch)
        PROVE  StakingType'
    BY <2>9, EpochType, ResetMissedType
  <2> QED
    BY <2>4, <2>5, <2>6, <2>7, <2>8, <2>9 DEF CrashStaking

<1>CrashJobsType.
      ASSUME JobsType, currentSlot \in Nat, tallyQ \subseteq JobIDs, CrashJobs
      PROVE  JobsType'
  <2> USE <1>CrashJobsType
  <2>1. ASSUME NEW i \in JobIDs, ContestsJob(i)
        PROVE  jobs' \in [JobIDs -> Job]
    <3>1. [jobs[i] EXCEPT !.State = "disputed"] \in Job
      BY WithState, Zenon DEF JobStates
    <3>2. jobs' = [jobs EXCEPT ![i] = [jobs[i] EXCEPT !.State = "disputed"]]
      BY <2>1 DEF JobsType, ContestsJob
    <3> QED
      BY <3>1, <3>2 DEF JobsType
  <2>2. ASSUME NEW a \in Addrs
        PROVE  a \in Servers /\ NewDispute(a, "user", currentSlot, TRUE) \in DisputeRecord
    BY <2>2, NewDisputeType, Zenon DEF Servers
  <2>3. ASSUME NEW failed, FailsJobs(failed), UNCHANGED disputes
        PROVE  JobsType'
    <3>1. \A j \in JobIDs : [jobs[j] EXCEPT !.State = "failed"] \in Job
      BY WithState, Zenon DEF JobStates
    <3> QED
      BY <2>3, <3>1 DEF JobsType, FailsJobs
  <2>4. CASE \E i \in tallyQ : RevertJob(i) /\ UNCHANGED disputes
    BY <2>4, RevertType DEF JobsType
  <2>5. ASSUME NEW i \in JobIDs, NEW a \in Addrs, ContestsJob(i),
               disputes' = [disputes EXCEPT ![i] = NewDispute(a, "user", currentSlot, TRUE)]
        PROVE  JobsType'
    BY <2>1, <2>2, <2>5, Zenon DEF JobsType
  <2>6. ASSUME NEW i \in JobIDs, ContestsJob(i), UNCHANGED disputes
        PROVE  JobsType'
    BY <2>1, <2>6 DEF JobsType
  <2>7. ASSUME NEW i \in JobIDs, NEW a \in Addrs,
               OpenDisputeAndRevert(i, a, "user", currentSlot)
        PROVE  JobsType'
    BY <2>2, <2>7, OpenDisputeAndRevertType, Zenon
  <2>8. CASE UNCHANGED jobsVars
    BY <2>8, UnchangedTypes
  <2> QED
    BY <2>3, <2>4, <2>5, <2>6, <2>7, <2>8, AddCommitmentType, Zenon DEF CrashJobs

<1>1. /\ StakingType /\ JobsType /\ TallyType /\ StatsType /\ AppType
      /\ Start
  BY DEF RestartTypeOK, Crash
<1>2. CrashStaking /\ CrashJobs /\ CrashStats
  BY <1>1, <1>CrashStakingCases, <1>CrashJobsCases, <1>CrashStatsCases
<1>3. /\ currentSlot \in 0 .. MaxSlot /\ currentSlot \in Nat
      /\ tallyQ \subseteq JobIDs
      /\ released' = 0 /\ toDelete' = {}
  BY <1>1, TypesAssumption DEF AppType, TallyType, Start
<1>4. StakingType'
  BY <1>1, <1>2, <1>3, <1>CrashStakingType
<1>5. JobsType'
  BY <1>1, <1>2, <1>3, <1>CrashJobsType
<1>6. StatsType'
  BY <1>1, <1>2, UnchangedTypes, Zenon DEF CrashStats, CountsUp, StatsType
<1>7. TallyType'
  BY <1>1 DEF Start, TallyType
<1>8. AppType' /\ restarts' \in Nat /\ genesis' = genesis /\ genesisQ' = genesis
  <2>1. genesis \subseteq Addrs
    BY DEF RestartTypeOK
  <2>2. 0 \in 0 .. MaxSlot
    BY TypesAssumption
  <2> QED
    BY <1>1, <2>1, <2>2 DEF Start, AppType, Phases, Servers, RestartTypeOK
<1> QED
  BY <1>1, <1>2, <1>4, <1>5, <1>6, <1>7, <1>8, TypeParts DEF RestartTypeOK

\* The store keeps its shape over crashes: every write of every handler leaves
\* one that InitChain and the blocks executed again can read.
THEOREM RestartInvariant == RestartSpec => []RestartInv

<1>NextRestartInv.
      ASSUME RestartInv, [RestartNext]_restartVars
      PROVE  RestartInv'
  <2> USE <1>NextRestartInv
  <2>1. ASSUME Run, UNCHANGED <<genesis, restarts>>
        PROVE  RestartInv'
    <3>1. TypeOK /\ [Next]_vars
      BY <2>1, RunIsNext DEF RestartInv
    <3>2. TypeOK'
      BY <3>1, NextType
    <3>3. StakingType /\ StakingCases
      BY <3>1, NextStakingCases DEF RestartInv, RestartTypeOK
    <3>4. ASSUME NEW a \in Addrs, val'[a].Status = "none"
          PROVE  val'[a] = NoValidator
      <4>1. ValidatorStep(a)
        BY <3>1, NextValidatorStep
      <4>2. val[a].Status = "none"
        BY <3>4, <4>1, Zenon DEF ValidatorStep
      <4>3. val'[a] = val[a]
        BY <3>3, <3>4, <4>2, EmptyRecordStays, Zenon
      <4> QED
        BY <4>2, <4>3, Zenon DEF RestartInv, EmptyRecords
    <3>5. genesisQ' \subseteq genesisQ
      BY <2>1, Zenon DEF Run, BlockStep, InitChain, BeginBlock, ProcessMatureUnbondings, EndEpoch,
         BeginTally, TallyExpiredDisputes, RecordTally, EndBlock, DeliverTx, Halt, vars, appVars
    <3>6. StakingType' /\ JobsType' /\ TallyType' /\ StatsType' /\ AppType'
      BY <3>2, Zenon DEF TypeOK, StakingType, JobsType, TallyType, StatsType, AppType
    <3> QED
      BY <2>1, <3>4, <3>5, <3>6, Zenon DEF RestartInv, RestartTypeOK, EmptyRecords
  <2>2. CASE Crash
    <3>1. StakingType /\ CrashStaking /\ RestartTypeOK'
      BY <2>2, CrashTypes DEF RestartInv, RestartTypeOK
    <3>2. ASSUME NEW a \in Addrs, val'[a].Status = "none"
          PROVE  val'[a] = NoValidator
      BY <3>1, <3>2, CrashValidatorStep, Zenon DEF RestartInv, EmptyRecords
    <3> QED
      BY <3>1, <3>2 DEF RestartInv, EmptyRecords
  <2>3. CASE StopsOnly
    <3>1. StakingType' /\ JobsType' /\ TallyType' /\ StatsType'
      BY <2>3, UnchangedTypes, Zenon
      DEF StopsOnly, storeVars, RestartInv, RestartTypeOK, stakingVars, jobsVars
    <3>2. phase' # "down" => AppType'
      BY <2>3 DEF StopsOnly, RestartInv, RestartTypeOK, AppType
    <3>3. EmptyRecords'
      BY <2>3, Zenon DEF StopsOnly, storeVars, RestartInv, EmptyRecords
    <3> QED
      BY <2>3, <3>1, <3>2, <3>3, Zenon DEF StopsOnly, RestartInv, RestartTypeOK
  <2> QED
    BY <2>1, <2>2, <2>3, RestartCases

<1>RestartInitInv.
      ASSUME RestartInit
      PROVE  RestartInv
  <2> USE <1>RestartInitInv
  <2>1. /\ Fresh /\ genesis \subseteq {a \in Addrs : GenesisBond[a] > 0}
        /\ genesisQ = genesis /\ restarts = 0
    BY DEF RestartInit
  <2>2. TypeOK
    BY <2>1, FreshType
  <2>3. EmptyRecords
    BY <2>1 DEF Fresh, EmptyRecords
  <2> QED
    BY <2>1, <2>2, <2>3, TypeParts DEF RestartInv, RestartTypeOK

<1> QED
  BY <1>RestartInitInv, <1>NextRestartInv, PTL DEF RestartSpec

\* Over restarts too a validator record changes in one of four ways.
LEMMA RestartValidatorStep ==
    ASSUME RestartInv, [RestartNext]_restartVars
    PROVE  \A a \in Addrs : ValidatorStep(a)
<1>1. CASE Run
  BY <1>1, RunIsNext, NextValidatorStep DEF RestartInv
<1>2. CASE Crash
  BY <1>2, CrashTypes, CrashValidatorStep, Zenon DEF RestartInv, RestartTypeOK
<1>3. CASE StopsOnly
  BY <1>3, UnchangedStep DEF StopsOnly, storeVars
<1> QED
  BY <1>1, <1>2, <1>3, RestartCases

=============================================================================
