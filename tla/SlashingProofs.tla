--------------------------- MODULE SlashingProofs ---------------------------
(***************************************************************************)
(* Slashing, where jobs and counters move together: each reverted job is   *)
(* counted as one slash, and none is counted twice over restarts.          *)
(***************************************************************************)
EXTENDS JobProofs

-----------------------------------------------------------------------------
(* One slash for each reverted job                                         *)

\* The slash events of a tally are about reverted jobs, and none is left over.
EventsAreReverted ==
    /\ phase # "tally" => tallyEvents = {}
    /\ \A j \in tallyEvents : jobs[j].State = "reverted"

\* The sets that are counted are finite.
LEMMA SlashSets ==
    ASSUME NEW a
    PROVE  /\ IsFiniteSet(RevertedJobs(a)) /\ Cardinality(RevertedJobs(a)) \in Nat
           /\ tallyEvents \subseteq JobIDs =>
                /\ IsFiniteSet(PendingSlashes(a))
                /\ Cardinality(PendingSlashes(a)) \in Nat
<1>1. IsFiniteSet(RevertedJobs(a))
  BY AppAssumption, FS_Subset DEF RevertedJobs
<1>2. ASSUME tallyEvents \subseteq JobIDs
      PROVE  IsFiniteSet(PendingSlashes(a))
  BY <1>2, AppAssumption, FS_Subset DEF PendingSlashes
<1> QED
  BY <1>1, <1>2, FS_CardinalityType

\* The slashes counted against a validator, over all epochs.
LEMMA SlashesCountedType ==
    ASSUME StatsType, NEW a \in Addrs
    PROVE  SlashesCounted(a) \in Nat
<1> DEFINE f == [e \in Epochs |-> stats[a][e].JobsSlashed]
<1>1. \A e \in Epochs : f[e] \in Nat
  BY DEF StatsType, EpochStats, Servers
<1>2. IsFiniteSet(Epochs)
  <2>1. EpochOf(MaxSlot) \in Int
    BY TypesAssumption DEF EpochOf
  <2> QED
    BY <2>1, FS_Interval DEF Epochs
<1> HIDE DEF f
<1>3. SumFunctionOnSet(f, Epochs) \in Nat
  BY <1>1, <1>2, SumNat
<1> QED
  BY <1>3 DEF f, SlashesCounted

\* RecordSlashes adds the events of a validator to what was counted against it.
LEMMA RecordSlashesCounts ==
    ASSUME StatsType, NEW count \in [Servers -> Nat], NEW n \in Epochs,
           RecordSlashes(count, n), NEW a \in Addrs
    PROVE  SlashesCounted(a)' = SlashesCounted(a) + count[a]
<1> DEFINE f == [e \in Epochs |-> stats[a][e].JobsSlashed]
           g == [e \in Epochs |-> stats'[a][e].JobsSlashed]
<1>1. /\ a \in Servers /\ stats[a] \in [Epochs -> EpochStats] /\ count[a] \in Nat
      /\ \A e \in Epochs : stats[a][e].JobsSlashed \in Nat
  BY DEF StatsType, Servers, EpochStats
<1>2. stats'[a] = [stats[a] EXCEPT ![n] = AddSlashes(stats[a][n], count[a])]
  BY <1>1 DEF RecordSlashes, StatsType
<1>3. AddSlashes(stats[a][n], count[a]).JobsSlashed = stats[a][n].JobsSlashed + count[a]
  BY <1>1 DEF AddSlashes, EpochStats
<1>4. /\ f[n] \in Int /\ g[n] = f[n] + count[a] /\ g[n] \in Int
      /\ \A e \in Epochs \ {n} : f[e] \in Int /\ g[e] = f[e]
  BY <1>1, <1>2, <1>3
<1>5. IsFiniteSet(Epochs)
  <2>1. EpochOf(MaxSlot) \in Int
    BY TypesAssumption DEF EpochOf
  <2> QED
    BY <2>1, FS_Interval DEF Epochs
<1>6. SlashesCounted(a) = SumFunctionOnSet(f, Epochs)
  BY DEF SlashesCounted
<1>7. SlashesCounted(a)' = SumFunctionOnSet(g, Epochs)
  BY DEF SlashesCounted
<1>8. SlashesCounted(a) \in Nat
  BY SlashesCountedType
<1> HIDE DEF f, g
<1>9. SumFunctionOnSet(g, Epochs) = SumFunctionOnSet(f, Epochs) + g[n] - f[n]
  BY <1>4, <1>5, SumUpdate
<1> QED
  BY <1>1, <1>4, <1>6, <1>7, <1>8, <1>9

\* The other counters are not slashes.
LEMMA SlashesCountedStay ==
    ASSUME StatsType, NEW a \in Addrs, NEW b \in Servers, NEW n \in Epochs,
           \/ UNCHANGED stats
           \/ RecordJobServed(b, n)
           \/ RecordJobObserved(b, n)
    PROVE  SlashesCounted(a)' = SlashesCounted(a)
<1>1. a \in Servers /\ \A e \in Epochs : stats[a][e] \in EpochStats
  BY DEF StatsType, Servers
<1>2. ASSUME NEW e \in Epochs
      PROVE  stats'[a][e].JobsSlashed = stats[a][e].JobsSlashed
  <2>1. CASE RecordJobServed(b, n)
    BY <1>1, <2>1 DEF RecordJobServed, StatsType, EpochStats
  <2>2. CASE RecordJobObserved(b, n)
    BY <1>1, <2>2 DEF RecordJobObserved, StatsType, EpochStats
  <2> QED
    BY <2>1, <2>2
<1>3. [e \in Epochs |-> stats'[a][e].JobsSlashed]
        = [e \in Epochs |-> stats[a][e].JobsSlashed]
  BY <1>2
<1> QED
  BY <1>3, Zenon DEF SlashesCounted

\* What a step may do to the reverted jobs of a validator, to the events about it
\* that are pending, and to the slashes counted against it.
CountStep(a) ==
    \/ /\ RevertedJobs(a)' = RevertedJobs(a)
       /\ PendingSlashes(a)' = PendingSlashes(a)
       /\ SlashesCounted(a)' = SlashesCounted(a)
    \/ \E i \in JobIDs \ RevertedJobs(a) :
          /\ RevertedJobs(a)' = RevertedJobs(a) \cup {i}
          /\ \/ /\ i \notin PendingSlashes(a)
                /\ PendingSlashes(a)' = PendingSlashes(a) \cup {i}
                /\ SlashesCounted(a)' = SlashesCounted(a)
             \/ /\ PendingSlashes(a)' = PendingSlashes(a)
                /\ SlashesCounted(a)' = SlashesCounted(a) + 1
    \/ /\ RevertedJobs(a)' = RevertedJobs(a)
       /\ PendingSlashes(a)' = {}
       /\ SlashesCounted(a)' = SlashesCounted(a) + Cardinality(PendingSlashes(a))

\* The end of the tally: the pending events are counted.
LEMMA RecordTallySums ==
    ASSUME TypeOK, RecordTally, NEW a \in Addrs
    PROVE  /\ SlashesCounted(a)' = SlashesCounted(a) + Cardinality(PendingSlashes(a))
           /\ PendingSlashes(a)' = {}
<1> DEFINE count == [b \in Servers |->
                       Cardinality({j \in tallyEvents : disputes[j].ServingValidator = b})]
<1>1. /\ StatsType /\ a \in Servers /\ currentEpoch \in Epochs
      /\ tallyEvents \subseteq JobIDs
  BY TypeParts, EpochInRange DEF TypeOK, AppType, Servers
<1>2. count \in [Servers -> Nat]
  <2>1. ASSUME NEW b \in Servers
        PROVE  Cardinality({j \in tallyEvents : disputes[j].ServingValidator = b}) \in Nat
    BY <1>1, SlashSets DEF PendingSlashes
  <2> QED
    BY <2>1
<1>3. RecordSlashes(count, currentEpoch)
  BY DEF RecordTally
<1>4. count[a] = Cardinality(PendingSlashes(a))
  BY <1>1, Zenon DEF PendingSlashes
<1> HIDE DEF count
<1>5. SlashesCounted(a)' = SlashesCounted(a) + count[a]
  BY <1>1, <1>2, <1>3, RecordSlashesCounts
<1>6. PendingSlashes(a)' = {}
  BY DEF RecordTally, PendingSlashes
<1> QED
  BY <1>4, <1>5, <1>6

\* At first nothing is reverted and nothing is counted.
LEMMA FreshSlashes ==
    ASSUME Fresh, NEW a \in Addrs
    PROVE  /\ SlashesCounted(a) = 0
           /\ Cardinality(PendingSlashes(a)) = 0
           /\ Cardinality(RevertedJobs(a)) = 0
<1>2. PendingSlashes(a) = {} /\ RevertedJobs(a) = {}
  BY DEF Fresh, JobsInit, NoJob, PendingSlashes, RevertedJobs
<1> DEFINE f == [e \in Epochs |-> stats[a][e].JobsSlashed]
<1>3. \A e \in Epochs : f[e] = 0
  BY DEF Fresh, RewardsInit, NoStats, Servers
<1>4. IsFiniteSet(Epochs)
  <2>1. EpochOf(MaxSlot) \in Int
    BY TypesAssumption DEF EpochOf
  <2> QED
    BY <2>1, FS_Interval DEF Epochs
<1>5. SlashesCounted(a) = SumFunctionOnSet(f, Epochs)
  BY DEF SlashesCounted
<1> HIDE DEF f
<1>6. SumFunctionOnSet(f, Epochs) = 0
  BY <1>3, <1>4, SumNat
<1> QED
  BY <1>2, <1>5, <1>6, FS_EmptySet

\* Every reverted job was counted against its server exactly once, be it reverted
\* by a user dispute, by a tally, or contested both ways, as long as every job of
\* the chain has a server.
THEOREM SlashTheorem == Spec => []OneSlashPerRevertedJob

\* Reverting a job adds it to the reverted jobs of its server.
<1>RevertAdds.
      ASSUME JobsType, NEW i \in JobIDs, RevertJob(i), NEW a
      PROVE  RevertedJobs(a)' = IF jobs[i].Server = a THEN RevertedJobs(a) \cup {i}
                                                      ELSE RevertedJobs(a) \ {i}
  <2> USE <1>RevertAdds
  <2>1. /\ jobs'[i].State = "reverted" /\ jobs'[i].Server = jobs[i].Server
        /\ \A j \in JobIDs \ {i} : jobs'[j] = jobs[j]
    BY DEF RevertJob, JobsType, Job
  <2> QED
    BY <2>1 DEF RevertedJobs

\* Any other operation of jobs leaves the reverted jobs as they are.
<1>RevertedStay.
      ASSUME TypeOK, CommitmentMatchesState, NEW a,
             \/ UNCHANGED jobs
             \/ FinaliseSlot(currentSlot)
             \/ \E i \in JobIDs : Commit(i, currentSlot, server)
             \/ \E i \in JobIDs : Reveal(i)
             \/ \E i \in JobIDs, b \in Servers, o \in Outputs : AddCommitment(i, b, o)
             \/ \E i \in JobIDs :
                  /\ jobs[i].Commitment # NoCommitment
                  /\ OpenDispute(i, jobs[i].Server, "observer", currentSlot)
      PROVE  RevertedJobs(a)' = RevertedJobs(a)
  <2> USE <1>RevertedStay
  <2>1. JobsType /\ \A j \in JobIDs : jobs[j] \in Job
    BY TypeParts DEF JobsType
  <2>2. CASE UNCHANGED jobs
    BY <2>2 DEF RevertedJobs
  <2>3. CASE FinaliseSlot(currentSlot)
    <3>1. ASSUME NEW j \in JobIDs
          PROVE  /\ jobs'[j].Server = jobs[j].Server
                 /\ jobs'[j].State = "reverted" <=> jobs[j].State = "reverted"
      BY <2>1, <2>3, <3>1 DEF FinaliseSlot, MissedJobs, Job
    <3> QED
      BY <3>1 DEF RevertedJobs
  <2>4. ASSUME NEW i \in JobIDs, jobs[i].State # "reverted", jobs'[i].State # "reverted",
               \A j \in JobIDs \ {i} : jobs'[j] = jobs[j]
        PROVE  RevertedJobs(a)' = RevertedJobs(a)
    BY <2>4 DEF RevertedJobs
  <2>5. ASSUME NEW i \in JobIDs, Commit(i, currentSlot, server)
        PROVE  RevertedJobs(a)' = RevertedJobs(a)
    BY <2>1, <2>4, <2>5 DEF Commit, JobsType
  <2>6. ASSUME NEW i \in JobIDs, Reveal(i)
        PROVE  RevertedJobs(a)' = RevertedJobs(a)
    BY <2>1, <2>4, <2>6 DEF Reveal, JobsType, Job
  <2>7. ASSUME NEW i \in JobIDs, NEW b, NEW o, AddCommitment(i, b, o)
        PROVE  RevertedJobs(a)' = RevertedJobs(a)
    BY <2>1, <2>4, <2>7 DEF AddCommitment, JobsType, Job
  <2>8. ASSUME NEW i \in JobIDs, jobs[i].Commitment # NoCommitment,
               OpenDispute(i, jobs[i].Server, "observer", currentSlot)
        PROVE  RevertedJobs(a)' = RevertedJobs(a)
    <3>1. jobs[i].State \in {"served", "disputed"}
      BY <2>8 DEF CommitmentMatchesState
    <3> QED
      BY <2>1, <2>4, <2>8, <3>1 DEF OpenDispute, JobsType, Job
  <2> QED
    BY <2>2, <2>3, <2>5, <2>6, <2>7, <2>8

\* A visit of the tally: both sets gain the job of an upheld dispute.
<1>TallyCounts.
      ASSUME TypeOK, JobsInv, EventsAreReverted, ServersRegistered,
             NEW i \in tallyQ, TallyDispute(i), UNCHANGED stats, jobs[i].Server # NoServer,
             NEW a \in Addrs
      PROVE  CountStep(a)
  <2> USE <1>TallyCounts
  <2>1. /\ JobsType /\ StatsType /\ i \in JobIDs /\ tallyEvents \subseteq JobIDs
        /\ jobs[i].State = "disputed" /\ disputes[i].ServingValidator = jobs[i].Server
    BY TypeParts, Zenon DEF TypeOK, JobsInv, OpenDisputeIsLive, TallyVisitsOpen
  <2>2. i \notin tallyEvents /\ i \notin RevertedJobs(a)
    BY <2>1 DEF EventsAreReverted, RevertedJobs
  <2>3. SlashesCounted(a)' = SlashesCounted(a)
    BY DEF SlashesCounted
  <2>4. ASSUME ResolveDispute(i)
        PROVE  \A j \in JobIDs : disputes'[j].ServingValidator = disputes[j].ServingValidator
    BY <2>1, <2>4 DEF ResolveDispute, JobsType, DisputeRecord
  <2>5. CASE ResolveDispute(i) /\ UNCHANGED <<jobs, tallyEvents>>
    <3>1. RevertedJobs(a)' = RevertedJobs(a)
      BY <2>5 DEF RevertedJobs
    <3>2. PendingSlashes(a)' = PendingSlashes(a)
      BY <2>1, <2>4, <2>5 DEF PendingSlashes
    <3> QED
      BY <2>3, <3>1, <3>2 DEF CountStep
  <2>6. CASE RevertJob(i) /\ ResolveDispute(i) /\ tallyEvents' = tallyEvents \cup {i}
    <3>1. RevertedJobs(a)' = IF jobs[i].Server = a THEN RevertedJobs(a) \cup {i}
                                                   ELSE RevertedJobs(a) \ {i}
      BY <2>1, <2>6, <1>RevertAdds
    <3>2. PendingSlashes(a)' = IF jobs[i].Server = a THEN PendingSlashes(a) \cup {i}
                                                     ELSE PendingSlashes(a)
      BY <2>1, <2>2, <2>4, <2>6 DEF PendingSlashes
    <3>3. i \notin PendingSlashes(a)
      BY <2>2 DEF PendingSlashes
    <3>4. CASE jobs[i].Server = a
      BY <2>1, <2>2, <2>3, <3>1, <3>2, <3>3, <3>4 DEF CountStep
    <3>5. CASE jobs[i].Server # a
      <4>1. RevertedJobs(a)' = RevertedJobs(a)
        BY <2>2, <3>1, <3>5
      <4> QED
        BY <2>3, <3>2, <3>5, <4>1 DEF CountStep
    <3> QED
      BY <3>4, <3>5
  <2>7. disputes[i].ServingValidator \in Registered
    BY <2>1 DEF ServersRegistered
  <2> QED
    BY <2>5, <2>6, <2>7, Zenon DEF TallyDispute

<1>RecordTallyCounts.
      ASSUME TypeOK, RecordTally, NEW a \in Addrs
      PROVE  CountStep(a)
  <2> USE <1>RecordTallyCounts
  <2>1. RevertedJobs(a)' = RevertedJobs(a)
    BY Zenon DEF RecordTally, RevertedJobs, jobsVars
  <2> QED
    BY <2>1, RecordTallySums DEF CountStep

\* A user dispute reverts the job and counts the slash in one step.
<1>UserDisputeCounts.
      ASSUME TypeOK, JobsInv, tallyEvents = {}, tallyEvents' = {},
             NEW i \in JobIDs, NEW b \in Servers, NEW o \in Outputs, handleDispute(i, b, o),
             NEW a \in Addrs
      PROVE  CountStep(a)
  <2> USE <1>UserDisputeCounts
  <2> DEFINE count == [c \in Servers |-> IF c = b THEN 1 ELSE 0]
  <2>1. /\ StatsType /\ JobsType /\ a \in Servers /\ currentEpoch \in Epochs
        /\ jobs[i].Server = b /\ jobs[i].State # "reverted"
        /\ RevertJob(i)
    BY TypeParts, EpochInRange
    DEF AppType, Servers, handleDispute, ProcessUserDispute, OpenDisputeAndRevert,
        RevertJob, JobsInv, CommitmentMatchesState
  <2>2. /\ count \in [Servers -> Nat]
        /\ count[a] = IF a = b THEN 1 ELSE 0
        /\ RecordSlashes(count, currentEpoch)
    BY <2>1 DEF handleDispute
  <2> HIDE DEF count
  <2>3. SlashesCounted(a)' = SlashesCounted(a) + count[a]
    BY <2>1, <2>2, RecordSlashesCounts
  <2>4. PendingSlashes(a)' = PendingSlashes(a)
    BY DEF PendingSlashes
  <2>5. i \notin RevertedJobs(a)
    BY <2>1 DEF RevertedJobs
  <2>6. RevertedJobs(a)' = IF b = a THEN RevertedJobs(a) \cup {i} ELSE RevertedJobs(a) \ {i}
    BY <2>1, <1>RevertAdds
  <2>7. CASE a = b
    BY <2>2, <2>3, <2>4, <2>5, <2>6, <2>7 DEF CountStep
  <2>8. CASE a # b
    <3>1. RevertedJobs(a)' = RevertedJobs(a)
      BY <2>5, <2>6, <2>8
    <3>2. SlashesCounted(a)' = SlashesCounted(a)
      BY <2>1, <2>2, <2>3, <2>8, SlashesCountedType
    <3> QED
      BY <2>4, <3>1, <3>2 DEF CountStep
  <2> QED
    BY <2>7, <2>8

<1>NextCountStep.
      ASSUME TypeOK, JobsInv, EventsAreReverted, ServersRegistered, Next,
             \A j \in JobIDs : jobs[j].State # "none" => jobs[j].Server # NoServer,
             NEW a \in Addrs
      PROVE  CountStep(a)
  <2> USE <1>NextCountStep
  <2>1. /\ StatsType /\ currentEpoch \in Epochs /\ tallyQ \subseteq JobIDs
        /\ \A j \in tallyQ : jobs[j].State = "disputed"
        /\ Addrs \subseteq Servers
    BY TypeParts, EpochInRange, Zenon
    DEF TypeOK, AppType, JobsInv, OpenDisputeIsLive, TallyVisitsOpen, Servers
  <2>2. CASE TallyExpiredDisputes
    <3>1. PICK i \in tallyQ : TallyDispute(i) /\ UNCHANGED stats
      BY <2>2 DEF TallyExpiredDisputes
    <3>2. jobs[i].Server # NoServer
      BY <2>1
    <3> QED
      BY <3>1, <3>2, <1>TallyCounts
  <2>3. CASE RecordTally
    BY <2>3, <1>RecordTallyCounts
  <2>4. CASE DeliverTx \/ BeginTally \/ EndBlock
    <3>1. tallyEvents = {} /\ tallyEvents' = {}
      BY <2>4, Zenon DEF EventsAreReverted, DeliverTx, BeginTally, EndBlock, StartTally, slashingVars
    <3>2. PendingSlashes(a)' = PendingSlashes(a)
      BY <3>1 DEF PendingSlashes
    <3>3. ASSUME NEW i \in JobIDs, NEW b \in Servers, NEW o \in Outputs, handleDispute(i, b, o)
          PROVE  CountStep(a)
      BY <3>1, <3>3, <1>UserDisputeCounts, Zenon
    <3>4. ASSUME NEW i \in JobIDs, NEW b \in Servers, NEW o \in Outputs,
                 handleCommitment(i, b, o)
          PROVE  CountStep(a)
      <4>1. AddCommitment(i, b, o) /\ RecordJobServed(b, currentEpoch)
        BY <3>4 DEF handleCommitment
      <4>2. RevertedJobs(a)' = RevertedJobs(a)
        BY <4>1, <1>RevertedStay, Zenon DEF JobsInv
      <4>3. SlashesCounted(a)' = SlashesCounted(a)
        BY <2>1, <4>1, SlashesCountedStay, Zenon
      <4> QED
        BY <3>2, <4>2, <4>3 DEF CountStep
    <3>5. ASSUME NEW b \in Addrs, NEW e \in Epochs, handleProtocolAttestation(b, e)
          PROVE  CountStep(a)
      <4>1. UNCHANGED jobs /\ RecordJobObserved(b, e)
        BY <3>5 DEF handleProtocolAttestation, jobsVars
      <4>2. RevertedJobs(a)' = RevertedJobs(a)
        BY <4>1 DEF RevertedJobs
      <4>3. SlashesCounted(a)' = SlashesCounted(a)
        BY <2>1, <4>1, SlashesCountedStay, Zenon
      <4> QED
        BY <3>2, <4>2, <4>3 DEF CountStep
    <3>6. ASSUME UNCHANGED stats,
                 \/ UNCHANGED jobs
                 \/ FinaliseSlot(currentSlot)
                 \/ \E i \in JobIDs : Commit(i, currentSlot, server)
                 \/ \E i \in JobIDs : Reveal(i)
                 \/ \E i \in JobIDs :
                      /\ jobs[i].Commitment # NoCommitment
                      /\ OpenDispute(i, jobs[i].Server, "observer", currentSlot)
          PROVE  CountStep(a)
      <4>1. RevertedJobs(a)' = RevertedJobs(a)
        BY <3>6, <1>RevertedStay, Zenon DEF JobsInv
      <4>2. SlashesCounted(a)' = SlashesCounted(a)
        BY <3>6, Zenon DEF SlashesCounted
      <4> QED
        BY <3>2, <4>1, <4>2 DEF CountStep
    <3>7. CASE BeginTally \/ EndBlock
      BY <3>6, <3>7, Zenon DEF BeginTally, EndBlock, jobsVars
    <3>8. CASE JobTx
      <4>1. ASSUME NEW i \in JobIDs,
                   \/ handleJobRequest(i)
                   \/ handleReveal(i)
                   \/ \E b \in Addrs : handleObserverDispute(i, b)
                   \/ \E b \in Addrs, v \in {"uphold", "dismiss"} : handleDisputeVote(i, b, v)
            PROVE  CountStep(a)
        BY <3>6, <4>1, Zenon
        DEF handleJobRequest, handleReveal, handleObserverDispute, handleDisputeVote,
            ProcessObserverDispute, CastDisputeVote, CastVote
      <4> QED
        BY <3>3, <3>4, <3>8, <4>1, Zenon DEF JobTx
    <3>9. CASE StakingTx
      BY <3>6, <3>9, Zenon
      DEF StakingTx, handleRegisterValidator, handleDelegate, handleUndelegate, handleUnjail,
          jobsVars
    <3>10. CASE RewardsTx
      BY <3>5, <3>10 DEF RewardsTx
    <3> QED
      BY <2>4, <3>7, <3>8, <3>9, <3>10 DEF DeliverTx
  <2>5. CASE UNCHANGED <<jobsVars, tallyEvents, stats>>
    BY <2>5, Zenon DEF CountStep, RevertedJobs, PendingSlashes, SlashesCounted, jobsVars
  <2> QED
    BY <2>2, <2>3, <2>4, <2>5, Zenon
    DEF Next, vars, InitChain, BeginBlock, ProcessMatureUnbondings, EndEpoch, Halt,
        slashingVars

\* The count stays even.
<1>CountStepKeeps.
      ASSUME TypeOK, TypeOK', NEW a \in Addrs, CountStep(a),
             SlashesCounted(a) + Cardinality(PendingSlashes(a)) = Cardinality(RevertedJobs(a))
      PROVE  SlashesCounted(a)' + Cardinality(PendingSlashes(a)')
               = Cardinality(RevertedJobs(a)')
  <2> USE <1>CountStepKeeps
  <2>1. SlashesCounted(a) \in Nat
    BY TypeParts, SlashesCountedType
  <2>2. /\ IsFiniteSet(RevertedJobs(a)) /\ Cardinality(RevertedJobs(a)) \in Nat
        /\ IsFiniteSet(PendingSlashes(a)) /\ Cardinality(PendingSlashes(a)) \in Nat
    BY SlashSets DEF TypeOK
  <2>3. CASE /\ RevertedJobs(a)' = RevertedJobs(a)
             /\ PendingSlashes(a)' = PendingSlashes(a)
             /\ SlashesCounted(a)' = SlashesCounted(a)
    BY <2>3
  <2>4. ASSUME NEW i \in JobIDs \ RevertedJobs(a),
               RevertedJobs(a)' = RevertedJobs(a) \cup {i}
        PROVE  Cardinality(RevertedJobs(a)') = Cardinality(RevertedJobs(a)) + 1
    BY <2>2, <2>4, FS_AddElement, Zenon
  <2>5. ASSUME NEW i \in JobIDs \ RevertedJobs(a),
               RevertedJobs(a)' = RevertedJobs(a) \cup {i},
               i \notin PendingSlashes(a),
               PendingSlashes(a)' = PendingSlashes(a) \cup {i},
               SlashesCounted(a)' = SlashesCounted(a)
        PROVE  SlashesCounted(a)' + Cardinality(PendingSlashes(a)')
                 = Cardinality(RevertedJobs(a)')
    <3>1. Cardinality(PendingSlashes(a)') = Cardinality(PendingSlashes(a)) + 1
      BY <2>2, <2>5, FS_AddElement, Zenon
    <3>2. Cardinality(RevertedJobs(a)') = Cardinality(RevertedJobs(a)) + 1
      BY <2>4, <2>5
    <3>3. SlashesCounted(a)' = SlashesCounted(a)
      BY <2>5
    <3> QED
      BY <2>1, <2>2, <3>1, <3>2, <3>3
  <2>6. ASSUME NEW i \in JobIDs \ RevertedJobs(a),
               RevertedJobs(a)' = RevertedJobs(a) \cup {i},
               PendingSlashes(a)' = PendingSlashes(a),
               SlashesCounted(a)' = SlashesCounted(a) + 1
        PROVE  SlashesCounted(a)' + Cardinality(PendingSlashes(a)')
                 = Cardinality(RevertedJobs(a)')
    BY <2>1, <2>2, <2>4, <2>6
  <2>7. CASE /\ RevertedJobs(a)' = RevertedJobs(a)
             /\ PendingSlashes(a)' = {}
             /\ SlashesCounted(a)' = SlashesCounted(a) + Cardinality(PendingSlashes(a))
    <3>1. Cardinality(PendingSlashes(a)') = 0
      BY <2>7, FS_EmptySet
    <3> QED
      BY <2>1, <2>2, <2>7, <3>1
  <2> QED
    BY <2>3, <2>5, <2>6, <2>7 DEF CountStep

<1>NextEventsAreReverted.
      ASSUME TypeOK, JobsInv, EventsAreReverted, [Next]_vars
      PROVE  EventsAreReverted'
  <2> USE <1>NextEventsAreReverted
  <2>1. CASE TallyExpiredDisputes
    <3>1. PICK i \in tallyQ : TallyDispute(i) /\ phase' = phase
      BY <2>1 DEF TallyExpiredDisputes, appVars
    <3>2. JobsType /\ i \in JobIDs
      BY TypeParts, Zenon DEF TypeOK
    <3>3. CASE UNCHANGED jobs /\ tallyEvents' \subseteq tallyEvents
      BY <2>1, <3>1, <3>3 DEF EventsAreReverted, TallyExpiredDisputes
    <3>4. CASE RevertJob(i) /\ tallyEvents' = tallyEvents \cup {i}
      <4>1. jobs'[i].State = "reverted" /\ \A j \in JobIDs \ {i} : jobs'[j] = jobs[j]
        BY <3>2, <3>4 DEF RevertJob, JobsType, Job
      <4>2. tallyEvents \subseteq JobIDs
        BY DEF TypeOK
      <4> QED
        BY <2>1, <3>1, <3>4, <4>1, <4>2 DEF EventsAreReverted, TallyExpiredDisputes
    <3> QED
      BY <3>1, <3>3, <3>4 DEF TallyDispute, jobsVars
  <2>2. CASE tallyEvents' = {}
    BY <2>2 DEF EventsAreReverted
  <2>3. CASE UNCHANGED vars
    BY <2>3, Zenon DEF vars, jobsVars, slashingVars, appVars, EventsAreReverted
  <2>4. CASE /\ Next
             /\ ~ TallyExpiredDisputes /\ ~ BeginTally /\ ~ RecordTally
    <3>1. phase # "tally" /\ tallyEvents' = tallyEvents
      BY <2>4, Zenon
      DEF Next, vars, slashingVars, InitChain, BeginBlock, ProcessMatureUnbondings, EndEpoch,
          DeliverTx, EndBlock, Halt
    <3> QED
      BY <2>2, <3>1 DEF EventsAreReverted
  <2> QED
    BY <2>1, <2>2, <2>3, <2>4 DEF BeginTally, StartTally, RecordTally

<1>NextOneSlash.
      ASSUME TypeOK, TypeOK', JobsInv, EventsAreReverted, ServersRegistered, [Next]_vars,
             OneSlashPerRevertedJob
      PROVE  OneSlashPerRevertedJob'
  <2> USE <1>NextOneSlash
  <2>1. CASE UNCHANGED vars
    BY <2>1 DEF vars, jobsVars, slashingVars, OneSlashPerRevertedJob, RevertedJobs,
       PendingSlashes, SlashesCounted
  <2>2. CASE Next
    <3>1. SUFFICES ASSUME \A j \in JobIDs : jobs'[j].State # "none" => jobs'[j].Server # NoServer,
                          NEW a \in Addrs
                   PROVE  SlashesCounted(a)' + Cardinality(PendingSlashes(a)')
                            = Cardinality(RevertedJobs(a)')
      BY DEF OneSlashPerRevertedJob
    <3>2. \A j \in JobIDs : JobStep(j)
      BY NextJobsCases, NextJobStep, JobsSoundParts
    <3>3. \A j \in JobIDs : jobs[j].State # "none" => jobs[j].Server # NoServer
      BY <3>1, <3>2 DEF JobStep
    <3>4. SlashesCounted(a) + Cardinality(PendingSlashes(a)) = Cardinality(RevertedJobs(a))
      BY <3>3 DEF OneSlashPerRevertedJob
    <3>5. CountStep(a)
      BY <2>2, <3>3, <1>NextCountStep
    <3> QED
      BY <3>4, <3>5, <1>CountStepKeeps
  <2> QED
    BY <2>1, <2>2

<1>1. Init => EventsAreReverted /\ OneSlashPerRevertedJob
  <2>1. Init => EventsAreReverted
    BY Zenon DEF Init, Fresh, EventsAreReverted
  <2> QED
    BY <2>1, FreshSlashes DEF Init, OneSlashPerRevertedJob
<1>2. TypeOK /\ JobsInv /\ EventsAreReverted /\ [Next]_vars => EventsAreReverted'
  BY <1>NextEventsAreReverted
<1>3. TypeOK /\ TypeOK' /\ JobsInv /\ EventsAreReverted /\ ServersRegistered
        /\ OneSlashPerRevertedJob /\ [Next]_vars => OneSlashPerRevertedJob'
  BY <1>NextOneSlash
<1> QED
  BY <1>1, <1>2, <1>3, TypeCorrectness, JobsInvariant, ServersInvariant, PTL DEF Spec

-----------------------------------------------------------------------------
(* No slash is counted twice                                               *)

\* The reverted jobs of a validator whose dispute is closed.  A job that a tally
\* reverted before it was cut short is not settled: its dispute is tallied again.
Settled(a) == {j \in RevertedJobs(a) : ~ IsOpen(j)}

\* The events of a tally are about settled jobs.
EventsAreSettled ==
    /\ phase # "tally" => tallyEvents = {}
    /\ \A j \in tallyEvents : jobs[j].State = "reverted" /\ ~ IsOpen(j)

\* What was counted against a validator and what is about to be.
Counted(a) == SlashesCounted(a) + Cardinality(PendingSlashes(a))

\* What a step may do to it: it grows by at most one, with a job that is settled.
SettleStep(a) ==
    /\ Settled(a) \subseteq Settled(a)'
    /\ \/ Counted(a)' <= Counted(a)
       \/ Counted(a)' <= Counted(a) + 1 /\ Settled(a)' # Settled(a)

\* Every reverted block that was counted is one of the slashes counted.
RevertsAreSlashes ==
    \A a \in Servers, e \in Epochs : stats[a][e].BlocksReverted <= stats[a][e].JobsSlashed

\* What is counted against a validator is at most its settled jobs.
SlashesSettled ==
    /\ EventsAreSettled
    /\ \A a \in Addrs : Counted(a) <= Cardinality(Settled(a))
    /\ RevertsAreSlashes

\* However often the process dies, in the middle of a tally, of its recording or
\* of a user dispute, no reverted job is counted against its server twice: a slash
\* cut short before the counters is lost, one applied again was not counted.
THEOREM RestartSlashTheorem == RestartSpec => []SlashesNeverCountedTwice

\* A settled job and its dispute stay as they are.
<1>SettledStays.
      ASSUME TypeOK, JobsSound, JobsCases \/ CrashJobs, NEW j \in JobIDs,
             jobs[j].State = "reverted", ~ IsOpen(j)
      PROVE  jobs'[j] = jobs[j] /\ disputes'[j] = disputes[j]
  <2> USE <1>SettledStays
  <2>1. /\ JobsType /\ jobs[j].Commitment = NoCommitment
        /\ \A i \in tallyQ : i \in JobIDs /\ i # j
    BY TypeParts, Zenon DEF TypeOK, JobsSound, CommitmentMatchesState, TallyVisitsOpen
  <2>2. ASSUME NEW i \in JobIDs, i # j,
               \/ RevertJob(i) \/ ContestsJob(i) \/ UNCHANGED jobs,
               \/ UNCHANGED disputes
               \/ ResolveDispute(i)
               \/ \E d : disputes' = [disputes EXCEPT ![i] = d]
        PROVE  jobs'[j] = jobs[j] /\ disputes'[j] = disputes[j]
    BY <2>1, <2>2 DEF JobsType, RevertJob, ContestsJob, ResolveDispute
  <2>3. CASE UNCHANGED jobsVars
    BY <2>3 DEF jobsVars
  <2>4. ASSUME NEW i \in JobIDs, NEW s, Commit(i, currentSlot, s)
        PROVE  jobs'[j] = jobs[j] /\ disputes'[j] = disputes[j]
    BY <2>1, <2>4 DEF Commit, JobsType
  <2>5. ASSUME NEW i \in JobIDs, Reveal(i)
        PROVE  jobs'[j] = jobs[j] /\ disputes'[j] = disputes[j]
    BY <2>1, <2>5 DEF Reveal, JobsType
  <2>6. ASSUME NEW i \in JobIDs, NEW a, NEW o, AddCommitment(i, a, o)
        PROVE  jobs'[j] = jobs[j] /\ disputes'[j] = disputes[j]
    BY <2>1, <2>6 DEF AddCommitment, JobsType
  <2>7. ASSUME NEW failed \in SUBSET MissedJobs(currentSlot), FailsJobs(failed),
               UNCHANGED disputes
        PROVE  jobs'[j] = jobs[j] /\ disputes'[j] = disputes[j]
    BY <2>7 DEF MissedJobs, FailsJobs
  <2>8. CASE FinaliseSlot(currentSlot)
    BY <2>7, <2>8 DEF FinaliseSlot, FailsJobs
  <2>9. ASSUME NEW i \in JobIDs, NEW a, NEW v, NEW stake, CastVote(i, a, v, stake)
        PROVE  jobs'[j] = jobs[j] /\ disputes'[j] = disputes[j]
    <3>1. i # j
      BY <2>9 DEF CastVote, IsOpen
    <3> QED
      BY <2>1, <2>9, <3>1 DEF CastVote, JobsType
  <2>10. ASSUME NEW i \in JobIDs, NEW a, OpenDisputeAndRevert(i, a, "user", currentSlot)
         PROVE  RevertJob(i) /\ \E d : disputes' = [disputes EXCEPT ![i] = d]
    BY <2>10, Zenon DEF OpenDisputeAndRevert, RevertJob
  <2>11. ASSUME NEW i \in JobIDs, OpenDispute(i, jobs[i].Server, "observer", currentSlot)
         PROVE  ContestsJob(i) /\ \E d : disputes' = [disputes EXCEPT ![i] = d]
    BY <2>11, Zenon DEF OpenDispute, ContestsJob
  <2>12. CASE JobsCases
    BY <2>1, <2>2, <2>3, <2>4, <2>5, <2>6, <2>8, <2>9, <2>10, <2>11, <2>12, Zenon DEF JobsCases
  <2>13. CASE CrashJobs
    BY <2>1, <2>2, <2>3, <2>6, <2>7, <2>10, <2>13, Zenon DEF CrashJobs
  <2> QED
    BY <2>12, <2>13

<1>SettledGrows.
      ASSUME TypeOK, JobsSound, JobsCases \/ CrashJobs, NEW a
      PROVE  Settled(a) \subseteq Settled(a)'
  <2> USE <1>SettledGrows
  <2> SUFFICES ASSUME NEW j \in JobIDs, jobs[j].State = "reverted", jobs[j].Server = a,
                      ~ IsOpen(j)
               PROVE  jobs'[j].State = "reverted" /\ jobs'[j].Server = a /\ ~ IsOpen(j)'
    BY DEF Settled, RevertedJobs
  <2>1. jobs'[j] = jobs[j] /\ disputes'[j] = disputes[j]
    BY <1>SettledStays
  <2> QED
    BY <2>1 DEF IsOpen

\* Reverting a job and closing its dispute settles it.
<1>RevertSettles.
      ASSUME JobsType, NEW i \in JobIDs, RevertJob(i),
             \/ ResolveDispute(i)
             \/ \E s, slot : disputes' = [disputes EXCEPT ![i] = NewDispute(s, "user", slot, TRUE)]
      PROVE  (\A a : jobs[i].Server = a => i \in Settled(a)') /\ jobs'[i].State = "reverted" /\ ~ IsOpen(i)'
  <2> USE <1>RevertSettles
  <2>1. jobs'[i].State = "reverted" /\ jobs'[i].Server = jobs[i].Server
    BY DEF RevertJob, JobsType, Job
  <2>2. disputes'[i].Resolved
    BY DEF JobsType, ResolveDispute, DisputeRecord, NewDispute
  <2> QED
    BY <2>1, <2>2 DEF Settled, RevertedJobs, IsOpen

<1>NextEventsAreSettled.
      ASSUME TypeOK, JobsSound, EventsAreSettled, Next
      PROVE  EventsAreSettled'
  <2> USE <1>NextEventsAreSettled
  <2>1. CASE TallyExpiredDisputes
    <3>1. PICK i \in tallyQ : TallyDispute(i) /\ phase' = phase
      BY <2>1 DEF TallyExpiredDisputes, appVars
    <3>2. JobsType /\ i \in JobIDs /\ tallyEvents \subseteq JobIDs
      BY TypeParts, Zenon DEF TypeOK
    <3>3. \A j \in tallyEvents : jobs'[j].State = "reverted" /\ ~ IsOpen(j)'
      BY <3>2, <1>SettledStays, NextJobsCases, Zenon DEF EventsAreSettled, IsOpen
    <3>4. CASE tallyEvents' \subseteq tallyEvents
      BY <2>1, <3>1, <3>3, <3>4, Zenon DEF EventsAreSettled, TallyExpiredDisputes
    <3>5. CASE RevertJob(i) /\ ResolveDispute(i) /\ tallyEvents' = tallyEvents \cup {i}
      BY <2>1, <3>1, <3>2, <3>3, <3>5, <1>RevertSettles, Zenon DEF EventsAreSettled, TallyExpiredDisputes
    <3> QED
      BY <3>1, <3>4, <3>5 DEF TallyDispute
  <2>2. CASE tallyEvents' = {}
    BY <2>2 DEF EventsAreSettled
  <2>3. CASE ~ TallyExpiredDisputes /\ ~ BeginTally /\ ~ RecordTally
    <3>1. phase # "tally" /\ tallyEvents' = tallyEvents
      BY <2>3, Zenon
      DEF Next, vars, slashingVars, InitChain, BeginBlock, ProcessMatureUnbondings, EndEpoch,
          DeliverTx, EndBlock, Halt
    <3> QED
      BY <2>2, <3>1 DEF EventsAreSettled
  <2> QED
    BY <2>1, <2>2, <2>3 DEF BeginTally, StartTally, RecordTally

<1>CountedType.
      ASSUME NEW a \in Addrs
      PROVE  /\ TypeOK => /\ SlashesCounted(a) \in Nat
                          /\ Cardinality(PendingSlashes(a)) \in Nat
                          /\ IsFiniteSet(PendingSlashes(a))
                          /\ Counted(a) \in Nat
             /\ TypeOK' => /\ SlashesCounted(a)' \in Nat
                           /\ Cardinality(PendingSlashes(a)') \in Nat
                           /\ Counted(a)' \in Nat
  <2> USE <1>CountedType
  <2>1. ASSUME TypeOK
        PROVE  /\ SlashesCounted(a) \in Nat
               /\ Cardinality(PendingSlashes(a)) \in Nat
               /\ IsFiniteSet(PendingSlashes(a))
    BY <2>1, TypeParts, SlashesCountedType, SlashSets, Zenon DEF TypeOK
  <2>2. ASSUME TypeOK'
        PROVE  /\ SlashesCounted(a)' \in Nat
               /\ Cardinality(PendingSlashes(a)') \in Nat
               /\ Counted(a)' \in Nat
    <3>1. SlashesCounted(a)' \in Nat
      <4>1. StatsType'
        BY <2>2 DEF TypeOK, StatsType
      <4> DEFINE f == [e \in Epochs |-> stats'[a][e].JobsSlashed]
      <4>2. \A e \in Epochs : f[e] \in Nat
        BY <4>1 DEF StatsType, EpochStats, Servers
      <4>3. IsFiniteSet(Epochs)
        <5>1. EpochOf(MaxSlot) \in Int
          BY TypesAssumption DEF EpochOf
        <5> QED
          BY <5>1, FS_Interval DEF Epochs
      <4> HIDE DEF f
      <4>4. SumFunctionOnSet(f, Epochs) \in Nat
        BY <4>2, <4>3, SumNat
      <4> QED
        BY <4>4 DEF f, SlashesCounted
    <3>2. Cardinality(PendingSlashes(a)') \in Nat
      <4>1. PendingSlashes(a)' \subseteq JobIDs
        BY <2>2 DEF PendingSlashes, TypeOK
      <4> QED
        BY <4>1, AppAssumption, FS_Subset, FS_CardinalityType
    <3> QED
      BY <3>1, <3>2 DEF Counted
  <2> QED
    BY <2>1, <2>2 DEF Counted

<1>SettleStepKeeps.
      ASSUME TypeOK, TypeOK', NEW a \in Addrs, SettleStep(a),
             Counted(a) <= Cardinality(Settled(a))
      PROVE  Counted(a)' <= Cardinality(Settled(a)')
  <2> USE <1>SettleStepKeeps
  <2>1. Counted(a) \in Nat /\ Counted(a)' \in Nat
    BY <1>CountedType
  <2>2. Settled(a) \subseteq JobIDs /\ Settled(a)' \subseteq JobIDs
    BY DEF Settled, RevertedJobs
  <2>3. PICK S, T : S = Settled(a) /\ T = Settled(a)'
    OBVIOUS
  <2>4. IsFiniteSet(S) /\ IsFiniteSet(T)
    BY <2>2, <2>3, AppAssumption, FS_Subset
  <2>5. S \in SUBSET T
    BY <2>3 DEF SettleStep
  <2>6. /\ Cardinality(S) \in Nat /\ Cardinality(T) \in Nat
        /\ Cardinality(S) <= Cardinality(T)
        /\ Cardinality(S) = Cardinality(T) => S = T
    BY <2>4, <2>5, FS_Subset, FS_CardinalityType
  <2>7. \/ Counted(a)' <= Counted(a)
        \/ Counted(a)' <= Counted(a) + 1 /\ T # S
    BY <2>3 DEF SettleStep
  <2>8. Counted(a)' <= Cardinality(T)
    BY <2>1, <2>3, <2>6, <2>7
  <2> QED
    BY <2>3, <2>8

\* The pending events after a step that drops or keeps them, or adds one.
<1>PendingMoves.
      ASSUME TypeOK, NEW a \in Addrs
      PROVE  /\ PendingSlashes(a)' = {} => Cardinality(PendingSlashes(a)') = 0
             /\ \A i : PendingSlashes(a)' = PendingSlashes(a) \cup {i} =>
                   Cardinality(PendingSlashes(a)') <= Cardinality(PendingSlashes(a)) + 1
  <2> USE <1>PendingMoves
  <2>1. Cardinality({}) = 0
    BY FS_EmptySet
  <2>2. IsFiniteSet(PendingSlashes(a)) /\ Cardinality(PendingSlashes(a)) \in Nat
    BY <1>CountedType
  <2>3. ASSUME NEW i, PendingSlashes(a)' = PendingSlashes(a) \cup {i}
        PROVE  Cardinality(PendingSlashes(a)') <= Cardinality(PendingSlashes(a)) + 1
    <3>1. PICK P : P = PendingSlashes(a)
      OBVIOUS
    <3>2. Cardinality(P \cup {i}) = IF i \in P THEN Cardinality(P) ELSE Cardinality(P) + 1
      BY <2>2, <3>1, FS_AddElement
    <3>3. Cardinality(PendingSlashes(a)') = Cardinality(P \cup {i})
      BY <2>3, <3>1, Zenon
    <3> QED
      BY <2>2, <3>1, <3>2, <3>3
  <2>4. PendingSlashes(a)' = {} => Cardinality(PendingSlashes(a)') = 0
    BY <2>1, Zenon
  <2> QED
    BY <2>3, <2>4

<1>TallySettles.
      ASSUME TypeOK, TypeOK', JobsSound, EventsAreSettled, TallyExpiredDisputes, NEW a \in Addrs
      PROVE  SettleStep(a)
  <2> USE <1>TallySettles
  <2>1. PICK i \in tallyQ : TallyDispute(i) /\ UNCHANGED stats
    BY DEF TallyExpiredDisputes
  <2>2. /\ JobsType /\ i \in JobIDs /\ tallyEvents \subseteq JobIDs
        /\ IsOpen(i) /\ disputes[i].ServingValidator = jobs[i].Server
    BY TypeParts, Zenon DEF TypeOK, JobsSound, TallyVisitsOpen
  <2>3. /\ SlashesCounted(a)' = SlashesCounted(a)
        /\ SlashesCounted(a) \in Nat /\ Cardinality(PendingSlashes(a)) \in Nat
    BY <2>1, <1>CountedType DEF SlashesCounted
  <2>4. Settled(a) \subseteq Settled(a)'
    BY <1>SettledGrows, NextJobsCases DEF Next
  <2>5. ASSUME Cardinality(PendingSlashes(a)') <= Cardinality(PendingSlashes(a))
        PROVE  SettleStep(a)
    <3>1. Cardinality(PendingSlashes(a)') \in Nat
      BY <1>CountedType
    <3> QED
      BY <2>3, <2>4, <2>5, <3>1 DEF SettleStep, Counted
  <2>6. ASSUME ResolveDispute(i)
        PROVE  \A j \in JobIDs : disputes'[j].ServingValidator = disputes[j].ServingValidator
    BY <2>2, <2>6 DEF ResolveDispute, JobsType, DisputeRecord
  <2>7. CASE ResolveDispute(i) /\ UNCHANGED tallyEvents
    <3>1. PendingSlashes(a)' = PendingSlashes(a)
      BY <2>2, <2>6, <2>7 DEF PendingSlashes
    <3> QED
      BY <2>3, <2>5, <3>1
  <2>8. CASE tallyEvents' = {}
    <3>1. PendingSlashes(a)' = {}
      BY <2>8 DEF PendingSlashes
    <3> QED
      BY <2>3, <2>5, <3>1, <1>PendingMoves
  <2>9. CASE RevertJob(i) /\ ResolveDispute(i) /\ tallyEvents' = tallyEvents \cup {i}
    <3>1. CASE jobs[i].Server = a
      <4>1. PendingSlashes(a)' = PendingSlashes(a) \cup {i}
        BY <2>2, <2>6, <2>9, <3>1, Zenon DEF PendingSlashes
      <4>2. i \in Settled(a)'
        BY <2>2, <2>9, <3>1, <1>RevertSettles, Zenon
      <4>3. i \notin Settled(a)
        BY <2>2 DEF Settled
      <4>4. Cardinality(PendingSlashes(a)') <= Cardinality(PendingSlashes(a)) + 1
        BY <4>1, <1>PendingMoves, Zenon
      <4>5. Cardinality(PendingSlashes(a)') \in Nat
        BY <1>CountedType
      <4> QED
        BY <2>3, <2>4, <4>2, <4>3, <4>4, <4>5 DEF SettleStep, Counted
    <3>2. CASE jobs[i].Server # a
      <4>1. PendingSlashes(a)' = PendingSlashes(a)
        BY <2>2, <2>6, <2>9, <3>2, Zenon DEF PendingSlashes
      <4> QED
        BY <2>3, <2>5, <4>1
    <3> QED
      BY <3>1, <3>2
  <2> QED
    BY <2>1, <2>7, <2>8, <2>9 DEF TallyDispute

<1>UserDisputeSettles.
      ASSUME TypeOK, TypeOK', JobsSound, tallyEvents = {}, tallyEvents' = {}, Next,
             NEW i \in JobIDs, NEW b \in Servers, NEW o \in Outputs, handleDispute(i, b, o),
             NEW a \in Addrs
      PROVE  SettleStep(a)
  <2> USE <1>UserDisputeSettles
  <2> DEFINE count == [c \in Servers |-> IF c = b THEN 1 ELSE 0]
  <2>1. /\ StatsType /\ JobsType /\ a \in Servers /\ currentEpoch \in Epochs
        /\ jobs[i].Server = b /\ jobs[i].State # "reverted"
        /\ RevertJob(i)
        /\ \E s, slot : disputes' = [disputes EXCEPT ![i] = NewDispute(s, "user", slot, TRUE)]
    BY TypeParts, EpochInRange, Zenon
    DEF AppType, Servers, handleDispute, ProcessUserDispute, OpenDisputeAndRevert,
        RevertJob, JobsSound, CommitmentMatchesState
  <2>2. /\ count \in [Servers -> Nat]
        /\ count[a] = IF a = b THEN 1 ELSE 0
        /\ RecordSlashes(count, currentEpoch)
    BY <2>1, Zenon DEF handleDispute
  <2> HIDE DEF count
  <2>3. SlashesCounted(a)' = SlashesCounted(a) + count[a]
    BY <2>1, <2>2, RecordSlashesCounts, Zenon
  <2>4. Cardinality(PendingSlashes(a)') = Cardinality(PendingSlashes(a))
    <3>1. PendingSlashes(a)' = PendingSlashes(a)
      BY Zenon DEF PendingSlashes
    <3> QED
      BY <3>1, Zenon
  <2>5. Settled(a) \subseteq Settled(a)'
    BY <1>SettledGrows, NextJobsCases
  <2>6. SlashesCounted(a) \in Nat /\ Cardinality(PendingSlashes(a)) \in Nat
    BY <1>CountedType
  <2>7. CASE a = b
    <3>1. i \in Settled(a)' /\ i \notin Settled(a)
      <4>1. i \in Settled(a)'
        BY <2>1, <2>7, <1>RevertSettles, Zenon
      <4>2. i \notin Settled(a)
        BY <2>1, Zenon DEF Settled, RevertedJobs
      <4> QED
        BY <4>1, <4>2
    <3>2. Counted(a)' <= Counted(a) + 1
      BY <2>2, <2>3, <2>4, <2>6, <2>7 DEF Counted
    <3> QED
      BY <2>5, <3>1, <3>2 DEF SettleStep
  <2>8. CASE a # b
    <3>1. Counted(a)' <= Counted(a)
      BY <2>2, <2>3, <2>4, <2>6, <2>8 DEF Counted
    <3> QED
      BY <2>5, <3>1 DEF SettleStep
  <2> QED
    BY <2>7, <2>8

<1>NextSettles.
      ASSUME TypeOK, TypeOK', JobsSound, EventsAreSettled, Next, NEW a \in Addrs
      PROVE  SettleStep(a)
  <2> USE <1>NextSettles
  <2>1. /\ StatsType /\ currentEpoch \in Epochs /\ Addrs \subseteq Servers
        /\ SlashesCounted(a) \in Nat /\ Cardinality(PendingSlashes(a)) \in Nat
        /\ Settled(a) \subseteq Settled(a)'
    BY TypeParts, EpochInRange, <1>CountedType, <1>SettledGrows, NextJobsCases, Zenon DEF AppType, Servers
  <2>2. CASE TallyExpiredDisputes
    BY <2>2, <1>TallySettles
  <2>3. CASE RecordTally
    <3>1. /\ SlashesCounted(a)' = SlashesCounted(a) + Cardinality(PendingSlashes(a))
          /\ Cardinality(PendingSlashes(a)') = 0
      BY <2>3, RecordTallySums, <1>PendingMoves
    <3> QED
      BY <2>1, <3>1 DEF SettleStep, Counted
  <2>4. CASE ~ TallyExpiredDisputes /\ ~ RecordTally
    <3>1. tallyEvents = {} /\ tallyEvents' = {}
      BY <2>4, Zenon
      DEF Next, vars, slashingVars, InitChain, BeginBlock, ProcessMatureUnbondings, EndEpoch,
          BeginTally, StartTally, DeliverTx, EndBlock, Halt, EventsAreSettled
    <3>2. Cardinality(PendingSlashes(a)') = Cardinality(PendingSlashes(a))
      <4>1. PendingSlashes(a)' = PendingSlashes(a)
        BY <3>1 DEF PendingSlashes
      <4> QED
        BY <4>1, Zenon
    <3>3. ASSUME SlashesCounted(a)' = SlashesCounted(a)
          PROVE  SettleStep(a)
      BY <2>1, <3>2, <3>3 DEF SettleStep, Counted
    <3>4. ASSUME NEW i \in JobIDs, NEW b \in Servers, NEW o \in Outputs, handleDispute(i, b, o)
          PROVE  SettleStep(a)
      BY <3>1, <3>4, <1>UserDisputeSettles
    <3>5. ASSUME NEW i, NEW b \in Servers, NEW o, handleCommitment(i, b, o)
          PROVE  SlashesCounted(a)' = SlashesCounted(a)
      BY <2>1, <3>5, SlashesCountedStay DEF handleCommitment
    <3>6. ASSUME NEW b \in Addrs, NEW e \in Epochs, handleProtocolAttestation(b, e)
          PROVE  SlashesCounted(a)' = SlashesCounted(a)
      BY <2>1, <3>6, SlashesCountedStay, Zenon DEF handleProtocolAttestation
    <3>7. CASE UNCHANGED stats
      BY <3>3, <3>7 DEF SlashesCounted
    <3> QED
      BY <2>4, <3>3, <3>4, <3>5, <3>6, <3>7, NextStatsCases, Zenon DEF StatsCases
  <2> QED
    BY <2>2, <2>3, <2>4

\* The slashes counted grow with the counter of the current epoch.
<1>CountsUpAt.
      ASSUME NEW p, NEW q, CountsUp(p, q), NEW a \in Servers
      PROVE  /\ \A e \in Epochs \ {currentEpoch} :
                   /\ stats'[a][e].JobsSlashed = stats[a][e].JobsSlashed
                   /\ stats'[a][e].BlocksReverted = stats[a][e].BlocksReverted
             /\ stats'[a][currentEpoch].JobsSlashed
                  = stats[a][currentEpoch].JobsSlashed + p[a]
             /\ stats'[a][currentEpoch].BlocksReverted
                  = stats[a][currentEpoch].BlocksReverted + q[a]
  BY <1>CountsUpAt, Zenon DEF CountsUp

<1>CountsUpSum.
      ASSUME StatsType, NEW p \in [Servers -> Nat], NEW q, CountsUp(p, q),
             currentSlot \in 0 .. MaxSlot, NEW a \in Addrs
      PROVE  SlashesCounted(a)' = SlashesCounted(a) + p[a]
  <2> USE <1>CountsUpSum
  <2> DEFINE n == currentEpoch
             f == [e \in Epochs |-> stats[a][e].JobsSlashed]
             g == [e \in Epochs |-> stats'[a][e].JobsSlashed]
  <2>1. /\ a \in Servers /\ p[a] \in Nat /\ n \in Epochs
        /\ \A e \in Epochs : stats[a][e].JobsSlashed \in Nat
    BY EpochInRange DEF StatsType, Servers, EpochStats
  <2>2. /\ f[n] \in Int /\ g[n] = f[n] + p[a] /\ g[n] \in Int
        /\ \A e \in Epochs \ {n} : f[e] \in Int /\ g[e] = f[e]
    <3>1. /\ \A e \in Epochs \ {n} : stats'[a][e].JobsSlashed = stats[a][e].JobsSlashed
          /\ stats'[a][n].JobsSlashed = stats[a][n].JobsSlashed + p[a]
      BY <2>1, <1>CountsUpAt, Zenon
    <3>2. \A e \in Epochs : /\ f[e] = stats[a][e].JobsSlashed
                             /\ g[e] = stats'[a][e].JobsSlashed
      BY Zenon
    <3> HIDE DEF f, g, n
    <3>3. /\ f[n] \in Nat /\ p[a] \in Nat /\ g[n] = f[n] + p[a]
          /\ \A e \in Epochs \ {n} : f[e] \in Nat /\ g[e] = f[e]
      BY <2>1, <3>1, <3>2, Zenon
    <3> QED
      BY <3>3
  <2>3. IsFiniteSet(Epochs)
    <3>1. EpochOf(MaxSlot) \in Int
      BY TypesAssumption DEF EpochOf
    <3> QED
      BY <3>1, FS_Interval DEF Epochs
  <2>4. /\ SlashesCounted(a) = SumFunctionOnSet(f, Epochs)
        /\ SlashesCounted(a)' = SumFunctionOnSet(g, Epochs)
    BY Zenon DEF SlashesCounted
  <2>5. SlashesCounted(a) \in Nat
    BY SlashesCountedType
  <2> HIDE DEF f, g, n
  <2>6. SumFunctionOnSet(g, Epochs) = SumFunctionOnSet(f, Epochs) + g[n] - f[n]
    <3>1. ASSUME NEW x \in Epochs, f[x] \in Int, g[x] \in Int,
                 \A y \in Epochs \ {x} : f[y] \in Int /\ g[y] = f[y]
          PROVE  SumFunctionOnSet(g, Epochs) = SumFunctionOnSet(f, Epochs) + g[x] - f[x]
      BY <2>3, <3>1, SumUpdate, Zenon
    <3> QED
      BY <2>1, <2>2, <3>1, Zenon
  <2>7. f[n] \in Int /\ g[n] = f[n] + p[a] /\ p[a] \in Nat
    BY <2>1, <2>2, Zenon
  <2> QED
    BY <2>4, <2>5, <2>6, <2>7

\* A crash counts at most the pending events, or a user dispute it completes.
<1>CrashSettles.
      ASSUME TypeOK, TypeOK', JobsSound, CrashJobs, CrashStats, tallyEvents' = {}, NEW a \in Addrs
      PROVE  SettleStep(a)
  <2> USE <1>CrashSettles
  <2>1. /\ StatsType /\ JobsType /\ Addrs \subseteq Servers
        /\ currentSlot \in 0 .. MaxSlot /\ tallyEvents \subseteq JobIDs
        /\ SlashesCounted(a) \in Nat /\ Cardinality(PendingSlashes(a)) \in Nat
        /\ IsFiniteSet(PendingSlashes(a))
        /\ Settled(a) \subseteq Settled(a)'
    BY TypeParts, <1>CountedType, <1>SettledGrows, Zenon DEF TypeOK, Servers
  <2>2. Cardinality(PendingSlashes(a)') = 0
    <3>1. PendingSlashes(a)' = {}
      BY DEF PendingSlashes
    <3> QED
      BY <3>1, <1>PendingMoves
  <2>3. CASE UNCHANGED stats
    <3>1. SlashesCounted(a)' = SlashesCounted(a)
      BY <2>3 DEF SlashesCounted
    <3> QED
      BY <2>1, <2>2, <3>1 DEF SettleStep, Counted
  <2>4. ASSUME NEW done \in SUBSET tallyEvents, NEW half \in SUBSET tallyEvents,
               CountsUp(EventsOf(done \cup half), EventsOf(done))
        PROVE  SettleStep(a)
    <3> DEFINE p == EventsOf(done \cup half)
               J == {j \in done \cup half : disputes[j].ServingValidator = a}
    <3>1. p \in [Servers -> Nat]
      BY <2>1, EventsOfType
    <3>2. p[a] = Cardinality(J)
      BY <2>1, Zenon DEF EventsOf
    <3>3. J \in SUBSET PendingSlashes(a)
      BY DEF PendingSlashes
    <3> HIDE DEF p, J
    <3>4. Cardinality(J) <= Cardinality(PendingSlashes(a))
      BY <2>1, <3>3, FS_Subset
    <3>5. SlashesCounted(a)' = SlashesCounted(a) + p[a]
      BY <2>1, <2>4, <3>1, <1>CountsUpSum, Zenon DEF p
    <3>6. p[a] \in Nat
      BY <2>1, <3>1
    <3> QED
      BY <2>1, <2>2, <3>2, <3>4, <3>5, <3>6 DEF SettleStep, Counted
  <2>5. ASSUME NEW j \in JobIDs, NEW b \in Addrs,
               jobs[j].Commitment # NoCommitment,
               jobs[j].Commitment.ValidatorAddr = b,
               OpenDisputeAndRevert(j, b, "user", currentSlot),
               CountsUp([c \in Servers |-> IF c = b THEN 1 ELSE 0], [c \in Servers |-> 0])
        PROVE  SettleStep(a)
    <3> DEFINE p == [c \in Servers |-> IF c = b THEN 1 ELSE 0]
    <3>1. p \in [Servers -> Nat] /\ p[a] = IF a = b THEN 1 ELSE 0
      BY <2>1
    <3> HIDE DEF p
    <3>2. SlashesCounted(a)' = SlashesCounted(a) + p[a]
      BY <2>1, <2>5, <3>1, <1>CountsUpSum, Zenon DEF p
    <3>3. jobs[j].State # "reverted" /\ jobs[j].Server = b
      BY <2>5, Zenon DEF JobsSound, CommitmentMatchesState
    <3>4. CASE a = b
      <4>1. j \in Settled(a)'
        BY <2>1, <2>5, <3>3, <3>4, <1>RevertSettles, Zenon DEF OpenDisputeAndRevert, RevertJob
      <4>2. j \notin Settled(a)
        BY <3>3, Zenon DEF Settled, RevertedJobs
      <4> QED
        BY <2>1, <2>2, <3>1, <3>2, <3>4, <4>1, <4>2 DEF SettleStep, Counted
    <3>5. CASE a # b
      BY <2>1, <2>2, <3>1, <3>2, <3>5 DEF SettleStep, Counted
    <3> QED
      BY <3>4, <3>5
  <2> QED
    BY <2>3, <2>4, <2>5, Zenon DEF CrashStats

<1>CountsUpReverts.
      ASSUME StatsType, NEW p, NEW q, CountsUp(p, q), RevertsAreSlashes,
             currentSlot \in 0 .. MaxSlot,
             \A a \in Servers : p[a] \in Nat /\ q[a] \in Nat /\ q[a] <= p[a]
      PROVE  RevertsAreSlashes'
  <2> USE <1>CountsUpReverts
  <2> SUFFICES ASSUME NEW a \in Servers, NEW e \in Epochs
               PROVE  stats'[a][e].BlocksReverted <= stats'[a][e].JobsSlashed
    BY Zenon DEF RevertsAreSlashes
  <2>1. /\ stats[a][e].JobsSlashed \in Nat /\ stats[a][e].BlocksReverted \in Nat
        /\ stats[a][e].BlocksReverted <= stats[a][e].JobsSlashed
    BY Zenon DEF StatsType, EpochStats, RevertsAreSlashes
  <2>2. CASE e = currentEpoch
    <3>1. /\ stats'[a][e].JobsSlashed = stats[a][e].JobsSlashed + p[a]
          /\ stats'[a][e].BlocksReverted = stats[a][e].BlocksReverted + q[a]
      <4>1. /\ stats'[a][currentEpoch].JobsSlashed
                = stats[a][currentEpoch].JobsSlashed + p[a]
            /\ stats'[a][currentEpoch].BlocksReverted
                = stats[a][currentEpoch].BlocksReverted + q[a]
        BY Zenon DEF CountsUp
      <4> QED
        BY <2>2, <4>1, Zenon
    <3>2. p[a] \in Nat /\ q[a] \in Nat /\ q[a] <= p[a]
      BY Zenon
    <3>3. \A x, y, u, v \in Nat : x <= y /\ u <= v => x + u <= y + v
      OBVIOUS
    <3> QED
      BY <2>1, <3>1, <3>2, <3>3, Zenon
  <2>3. CASE e # currentEpoch
    <3>1. e \in Epochs \ {currentEpoch}
      BY <2>3, Zenon
    <3>2. /\ stats'[a][e].JobsSlashed = stats[a][e].JobsSlashed
          /\ stats'[a][e].BlocksReverted = stats[a][e].BlocksReverted
      BY <3>1, <1>CountsUpAt, Zenon
    <3> QED
      BY <2>1, <3>2, Zenon
  <2> QED
    BY <2>2, <2>3, Zenon

<1>NextReverts.
      ASSUME TypeOK, RevertsAreSlashes, Next
      PROVE  RevertsAreSlashes'
  <2> USE <1>NextReverts
  <2>1. StatsType /\ currentEpoch \in Epochs /\ Addrs \subseteq Servers
        /\ tallyEvents \subseteq JobIDs
    BY TypeParts, EpochInRange, Zenon DEF TypeOK, AppType, Servers
  <2>2. ASSUME NEW count \in [Servers -> Nat], RecordSlashes(count, currentEpoch)
        PROVE  RevertsAreSlashes'
    <3> SUFFICES ASSUME NEW a \in Servers, NEW e \in Epochs
                 PROVE  stats'[a][e].BlocksReverted <= stats'[a][e].JobsSlashed
      BY Zenon DEF RevertsAreSlashes
    <3>1. /\ stats[a] \in [Epochs -> EpochStats] /\ stats[a][currentEpoch] \in EpochStats
          /\ count[a] \in Nat
      BY <2>1, <2>2 DEF StatsType
    <3>2. PICK r : r = AddSlashes(stats[a][currentEpoch], count[a])
      OBVIOUS
    <3>3. /\ r.JobsSlashed = stats[a][currentEpoch].JobsSlashed + count[a]
          /\ r.BlocksReverted = stats[a][currentEpoch].BlocksReverted + count[a]
      BY <3>1, <3>2 DEF AddSlashes, EpochStats
    <3>4. stats'[a] = [stats[a] EXCEPT ![currentEpoch] = r]
      BY <2>1, <2>2, <3>1, <3>2, Zenon DEF RecordSlashes
    <3>5. /\ stats[a][e].JobsSlashed \in Nat /\ stats[a][e].BlocksReverted \in Nat
          /\ stats[a][e].BlocksReverted <= stats[a][e].JobsSlashed
      BY <3>1, Zenon DEF EpochStats, RevertsAreSlashes
    <3>6. CASE e = currentEpoch
      <4>1. stats'[a][e] = r
        BY <2>1, <3>1, <3>4, <3>6, Zenon
      <4> QED
        BY <3>1, <3>3, <3>5, <3>6, <4>1
    <3>7. CASE e # currentEpoch
      <4>1. stats'[a][e] = stats[a][e]
        BY <2>1, <3>1, <3>4, <3>7, Zenon
      <4> QED
        BY <3>5, <4>1, Zenon
    <3> QED
      BY <3>6, <3>7, Zenon
  <2>3. ASSUME NEW b \in Servers, NEW n \in Epochs, RecordJobServed(b, n)
        PROVE  RevertsAreSlashes'
    <3>1. \A a \in Servers, e \in Epochs :
            /\ stats'[a][e].JobsSlashed = stats[a][e].JobsSlashed
            /\ stats'[a][e].BlocksReverted = stats[a][e].BlocksReverted
      BY <2>1, <2>3 DEF RecordJobServed, StatsType, EpochStats
    <3> QED
      BY <3>1 DEF RevertsAreSlashes
  <2>4. ASSUME NEW b \in Servers, NEW n \in Epochs, RecordJobObserved(b, n)
        PROVE  RevertsAreSlashes'
    <3>1. \A a \in Servers, e \in Epochs :
            /\ stats'[a][e].JobsSlashed = stats[a][e].JobsSlashed
            /\ stats'[a][e].BlocksReverted = stats[a][e].BlocksReverted
      BY <2>1, <2>4 DEF RecordJobObserved, StatsType, EpochStats
    <3> QED
      BY <3>1 DEF RevertsAreSlashes
  <2>5. CASE UNCHANGED stats
    BY <2>5 DEF RevertsAreSlashes
  <2>6. CASE RecordTally
    <3> DEFINE count == [b \in Servers |->
                           Cardinality({j \in tallyEvents : disputes[j].ServingValidator = b})]
    <3>1. count \in [Servers -> Nat]
      BY <2>1, EventsOfType DEF EventsOf
    <3>2. RecordSlashes(count, currentEpoch)
      BY <2>6 DEF RecordTally
    <3> QED
      BY <2>2, <3>1, <3>2, Zenon
  <2>7. ASSUME NEW j \in JobIDs, NEW b \in Servers, NEW o \in Outputs, handleDispute(j, b, o)
        PROVE  RevertsAreSlashes'
    <3>1. [c \in Servers |-> IF c = b THEN 1 ELSE 0] \in [Servers -> Nat]
      OBVIOUS
    <3> QED
      BY <2>2, <2>7, <3>1 DEF handleDispute
  <2> QED
    BY <2>1, <2>3, <2>4, <2>5, <2>6, <2>7, NextStatsCases, Zenon
    DEF StatsCases, handleCommitment, handleProtocolAttestation

<1>CrashReverts.
      ASSUME TypeOK, RevertsAreSlashes, CrashStats
      PROVE  RevertsAreSlashes'
  <2> USE <1>CrashReverts
  <2>1. /\ StatsType /\ currentSlot \in 0 .. MaxSlot /\ tallyEvents \subseteq JobIDs
    BY TypeParts, Zenon DEF TypeOK
  <2>2. ASSUME NEW done \in SUBSET tallyEvents, NEW half \in SUBSET tallyEvents,
               CountsUp(EventsOf(done \cup half), EventsOf(done))
        PROVE  RevertsAreSlashes'
    <3> DEFINE p == EventsOf(done \cup half)
               q == EventsOf(done)
    <3>1. p \in [Servers -> Nat] /\ q \in [Servers -> Nat]
      BY <2>1, EventsOfType
    <3>2. ASSUME NEW a \in Servers
          PROVE  q[a] <= p[a]
      <4> DEFINE K == {j \in done : disputes[j].ServingValidator = a}
                 J == {j \in done \cup half : disputes[j].ServingValidator = a}
      <4>1. p[a] = Cardinality(J) /\ q[a] = Cardinality(K)
        BY <3>2, Zenon DEF EventsOf
      <4>2. K \in SUBSET J
        OBVIOUS
      <4>3. IsFiniteSet(J)
        <5>1. J \subseteq JobIDs
          BY <2>1
        <5> HIDE DEF J
        <5> QED
          BY <5>1, AppAssumption, FS_Subset
      <4> HIDE DEF J, K, p, q
      <4>4. Cardinality(K) <= Cardinality(J)
        BY <4>2, <4>3, FS_Subset
      <4> QED
        BY <4>1, <4>4
    <3>3. CountsUp(p, q)
      BY <2>2
    <3> HIDE DEF p, q
    <3> QED
      BY <2>1, <3>1, <3>2, <3>3, <1>CountsUpReverts
  <2>3. ASSUME NEW b \in Addrs,
               CountsUp([c \in Servers |-> IF c = b THEN 1 ELSE 0], [c \in Servers |-> 0])
        PROVE  RevertsAreSlashes'
    <3> DEFINE p == [c \in Servers |-> IF c = b THEN 1 ELSE 0]
               q == [c \in Servers |-> 0]
    <3>1. \A a \in Servers : p[a] \in Nat /\ q[a] \in Nat /\ q[a] <= p[a]
      OBVIOUS
    <3>2. CountsUp(p, q)
      BY <2>3
    <3> HIDE DEF p, q
    <3> QED
      BY <2>1, <3>1, <3>2, <1>CountsUpReverts
  <2>4. CASE UNCHANGED stats
    BY <2>4 DEF RevertsAreSlashes
  <2> QED
    BY <2>2, <2>3, <2>4, Zenon DEF CrashStats

<1>NextSlashesSettled.
      ASSUME RestartInv, RestartInv', RestartJobs, SlashesSettled, [RestartNext]_restartVars
      PROVE  SlashesSettled'
  <2> USE <1>NextSlashesSettled
  <2>1. CASE Run
    <3>1. TypeOK /\ Next
      BY <2>1, RunIsNext DEF RestartInv
    <3>2. TypeOK'
      BY <3>1, NextType
    <3>3. \A a \in Addrs : SettleStep(a)
      BY <3>1, <3>2, <1>NextSettles DEF RestartJobs, SlashesSettled
    <3>4. \A a \in Addrs : Counted(a)' <= Cardinality(Settled(a)')
      BY <3>1, <3>2, <3>3, <1>SettleStepKeeps DEF SlashesSettled
    <3> QED
      BY <3>1, <3>4, <1>NextEventsAreSettled, <1>NextReverts DEF RestartJobs, SlashesSettled
  <2>2. CASE Crash
    <3>1. TypeOK /\ TypeOK' /\ CrashJobs /\ CrashStats /\ Start
      BY <2>2, CrashTypes DEF RestartInv, Crash
    <3>2. tallyEvents' = {}
      BY <3>1 DEF Start
    <3>3. \A a \in Addrs : SettleStep(a)
      BY <3>1, <3>2, <1>CrashSettles DEF RestartJobs
    <3>4. \A a \in Addrs : Counted(a)' <= Cardinality(Settled(a)')
      BY <3>1, <3>3, <1>SettleStepKeeps DEF SlashesSettled
    <3> QED
      BY <3>1, <3>2, <3>4, <1>CrashReverts, Zenon DEF SlashesSettled, EventsAreSettled
  <2>3. CASE StopsOnly
    <3>1. /\ UNCHANGED <<jobs, disputes, stats, tallyEvents>>
          /\ phase' = phase \/ (phase = "genesis" /\ phase' = "down")
      BY <2>3 DEF StopsOnly, storeVars, jobsVars, slashingVars
    <3>2. EventsAreSettled' /\ RevertsAreSlashes'
      BY <3>1, Zenon DEF SlashesSettled, EventsAreSettled, RevertsAreSlashes, IsOpen
    <3>3. ASSUME NEW a \in Addrs
          PROVE  Counted(a)' <= Cardinality(Settled(a)')
      BY <3>1, Zenon DEF SlashesSettled, Counted, SlashesCounted, PendingSlashes, Settled,
         RevertedJobs, IsOpen
    <3> QED
      BY <3>2, <3>3 DEF SlashesSettled
  <2> QED
    BY <2>1, <2>2, <2>3, RestartCases

<1>1. RestartInit => SlashesSettled
  <2> SUFFICES ASSUME RestartInit
               PROVE  SlashesSettled
    OBVIOUS
  <2>1. Fresh
    BY DEF RestartInit
  <2>2. EventsAreSettled
    BY <2>1 DEF Fresh, EventsAreSettled
  <2>3. RevertsAreSlashes
    <3>1. RewardsInit
      BY <2>1, Zenon DEF Fresh
    <3>2. ASSUME NEW a \in Servers, NEW e \in Epochs
          PROVE  stats[a][e].BlocksReverted = 0 /\ stats[a][e].JobsSlashed = 0
      BY <3>1 DEF RewardsInit, NoStats
    <3>3. ASSUME NEW a \in Servers, NEW e \in Epochs
          PROVE  stats[a][e].BlocksReverted <= stats[a][e].JobsSlashed
      BY <3>2
    <3> QED
      BY <3>3, Zenon DEF RevertsAreSlashes
  <2>4. ASSUME NEW a \in Addrs
        PROVE  Counted(a) <= Cardinality(Settled(a))
    <3>1. Counted(a) = 0
      BY <2>1, FreshSlashes DEF Counted
    <3>2. Cardinality(Settled(a)) \in Nat
      <4>1. Settled(a) \subseteq JobIDs
        BY DEF Settled, RevertedJobs
      <4> QED
        BY <4>1, AppAssumption, FS_Subset, FS_CardinalityType
    <3> QED
      BY <3>1, <3>2
  <2> QED
    BY <2>2, <2>3, <2>4 DEF SlashesSettled
<1>2. RestartInv /\ SlashesSettled => SlashesNeverCountedTwice
  <2> SUFFICES ASSUME RestartInv, SlashesSettled, NEW a \in Addrs
               PROVE  /\ Counted(a) <= Cardinality(RevertedJobs(a))
                      /\ \A e \in Epochs : stats[a][e].BlocksReverted <= stats[a][e].JobsSlashed
    BY Zenon DEF SlashesNeverCountedTwice, Counted
  <2>1. IsFiniteSet(RevertedJobs(a)) /\ Settled(a) \in SUBSET RevertedJobs(a)
    BY SlashSets DEF Settled
  <2>2. /\ Cardinality(Settled(a)) \in Nat /\ Cardinality(RevertedJobs(a)) \in Nat
        /\ Cardinality(Settled(a)) <= Cardinality(RevertedJobs(a))
    BY <2>1, FS_Subset, FS_CardinalityType
  <2>3. Counted(a) \in Nat
    <3>1. SlashesCounted(a) \in Nat
      BY SlashesCountedType DEF RestartInv, RestartTypeOK
    <3>2. Cardinality(PendingSlashes(a)) \in Nat
      BY SlashSets DEF RestartInv, RestartTypeOK, TallyType
    <3> QED
      BY <3>1, <3>2 DEF Counted
  <2>4. Counted(a) <= Cardinality(Settled(a))
    BY DEF SlashesSettled
  <2>5. \A e \in Epochs : stats[a][e].BlocksReverted <= stats[a][e].JobsSlashed
    BY Zenon DEF SlashesSettled, RevertsAreSlashes, Servers
  <2> QED
    BY <2>2, <2>3, <2>4, <2>5
<1> QED
  BY <1>1, <1>2, <1>NextSlashesSettled, RestartInvariant, RestartJobsInvariant, PTL
  DEF RestartSpec

=============================================================================
