--------------------------- MODULE AppProperties ---------------------------
(***************************************************************************)
(* What is stated of the application: first what holds, then what a        *)
(* comment or a document of the repository says and the code does not do.  *)
(***************************************************************************)
EXTENDS App, FiniteSetsExt

\* Every variable has the shape its Go type and the store give it.
TypeOK ==
    /\ val \in [Addrs -> Validator]
    /\ ub \subseteq UnbondingEntry
    /\ total_stake \in Int
    /\ released \in Int
    /\ toDelete \subseteq UnbondingEntry
    /\ jobs \in [JobIDs -> Job]
    /\ disputes \in [JobIDs -> DisputeRecord]
    /\ tallyQ \subseteq JobIDs
    /\ tallyStake \in Int
    /\ tallyEvents \subseteq JobIDs
    /\ stats \in [Servers -> [Epochs -> EpochStats]]
    /\ currentSlot \in 0 .. MaxSlot
    /\ phase \in Phases
    /\ genesisQ \subseteq Addrs
    /\ activeVals \subseteq Addrs
    /\ server \in Servers
    /\ drainQ \subseteq Addrs

-----------------------------------------------------------------------------
(* Staking                                                                 *)

\* A registered validator is active exactly while its bond is at least
\* MinStake, through registrations, drains, dispute slashes and unjailing:
\* the test at the end of SlashBond and the one in Unjail agree.  This is what
\* the code does; implementation-plan.md:249 would jail for one epoch after an
\* upheld vote, whatever bond is left.
StatusMatchesBond ==
    \A a \in Registered : val[a].Status = "active" <=> val[a].Bond >= MinStake

\* A jailed validator stays jailed and its bond never grows: no transaction
\* tops up a bond, so the check of Unjail never lets a validator back.  This is
\* what the code does; implementation-plan.md:307 ("must top up bond"), :249
\* ("jailed for 1 epoch") and staking.go:252 ("top up first") describe a way back.
JailIsForever ==
    [][\A a \in Addrs : val[a].Status = "jailed" =>
          /\ val'[a].Status = "jailed"
          /\ val'[a].Bond <= val[a].Bond]_vars

SumOfStake == SumFunctionOnSet([a \in Addrs |-> val[a].TotalStake], Addrs)

SumOfUnbonding == SumFunctionOnSet([e \in ub |-> e.Amount], ub)

\* What the total stake exceeds the stake it should be the sum of: that of the
\* validators and what is still unbonding.
Surplus == total_stake - SumOfStake - SumOfUnbonding

\* Undelegate writes over the record e of an earlier call in the same block.
ReplacesRecord(e) ==
    /\ phase = "txs"
    /\ e.MatureSlot = currentSlot + UnbondingEpochs * EpochSlots
    /\ \E f \in ub' : ubKey(f) = ubKey(e)
    /\ total_stake' = total_stake

StakeStepAccounted ==
    \/ Surplus' = Surplus
    \/ \E e \in ub : ReplacesRecord(e) /\ Surplus' = Surplus + e.Amount
    \/ /\ phase = "unbond" /\ phase' = "drain" /\ released <= 0
       /\ Surplus' = Surplus + released

\* No step parts the total stake from the sum of the validators' stake and the
\* amounts unbonding, though Undelegate lowers the one at once and the other when
\* the entry matures, and slashes fall in between; but for two: an undelegation
\* that writes over a record of its block leaves that record's amount in the
\* total for good, and a release that does not come to a positive amount (no
\* method looks at the sign) deletes its records and leaves the total as it is.
StakeIsAccounted == [][StakeStepAccounted]_vars

QueueKeepsUnmatured ==
    \A e \in ub : \/ ubKey(e) \in {ubKey(f) : f \in ub'}
                  \/ e.MatureSlot <= currentSlot

\* The queue keeps a record under an entry's key until the entry matures,
\* whatever is slashed, jailed or undelegated meanwhile; only an undelegation of
\* the same block and parties writes over it.
ReleasedWhenMature == [][QueueKeepsUnmatured]_vars

\* Once the prologue of a block has run, no matured entry is left in the queue.
NothingOverdue ==
    phase \in {"drain", "tally", "txs"} =>
       \A e \in ub : e.MatureSlot > currentSlot

\* The inactivity drain never takes from a validator that served a job in one of
\* the last InactivityThresholdEpochs epochs: LastActiveEpoch, kept by staking,
\* agrees with the counters, kept by rewards.
DrainSparesServers ==
    [][\A a \in Addrs, e \in Epochs :
          /\ phase = "drain"
          /\ val'[a].Bond < val[a].Bond
          /\ e + InactivityThresholdEpochs > currentEpoch - 1
          => stats[a][e].JobsServed = 0]_vars

-----------------------------------------------------------------------------
(* Jobs and disputes                                                       *)

\* A job carries a commitment exactly while it is served or disputed, and the
\* commitment is its elected server's.
CommitmentMatchesState ==
    \A j \in JobIDs :
       /\ jobs[j].Commitment # NoCommitment
            <=> jobs[j].State \in {"served", "disputed"}
       /\ jobs[j].Commitment # NoCommitment =>
            jobs[j].Commitment.ValidatorAddr = jobs[j].Server

\* An open dispute is an observer's, against the server of a job that is still
\* disputed: a proven user dispute closes the vote that was open on the job.
OpenDisputeIsLive ==
    \A j \in JobIDs : IsOpen(j) =>
       /\ disputes[j].DisputeType = "observer"
       /\ disputes[j].ServingValidator = jobs[j].Server
       /\ jobs[j].State = "disputed"

VoteWeight(d) == d.VotesUphold + d.VotesDismiss

StakeOf(voters) == SumFunctionOnSet([a \in Addrs |-> val[a].TotalStake], voters)

\* A dispute's votes weigh what each of its voters had staked when voting, and
\* count every voter once: the two sums of a record grow by the stake of the
\* addresses that join its voters, active ones, and by nothing else, whatever is
\* slashed, delegated or undelegated before, between and after the votes.  Only
\* a new dispute of the job starts from nothing.
VotersWeighOnce ==
    [][\A j \in JobIDs :
          \/ disputes'[j].Voters = {} /\ VoteWeight(disputes'[j]) = 0
          \/ LET joined == disputes'[j].Voters \ disputes[j].Voters
             IN /\ joined \subseteq ListActive
                /\ disputes[j].Voters \subseteq disputes'[j].Voters
                /\ VoteWeight(disputes'[j])
                     = VoteWeight(disputes[j]) + StakeOf(joined)]_vars

RevertedJobs(a) ==
    {j \in JobIDs : jobs[j].State = "reverted" /\ jobs[j].Server = a}

PendingSlashes(a) ==
    {j \in tallyEvents : disputes[j].ServingValidator = a}

SlashesCounted(a) ==
    SumFunctionOnSet([e \in Epochs |-> stats[a][e].JobsSlashed], Epochs)

\* Every reverted job was counted against its server exactly once, be it
\* reverted by a user dispute, by a tally, or contested both ways.  A job that
\* has no server is left out: its tally fails and loses the events.
OneSlashPerRevertedJob ==
    (\A j \in JobIDs : jobs[j].State # "none" => jobs[j].Server # NoServer) =>
       \A a \in Addrs :
          SlashesCounted(a) + Cardinality(PendingSlashes(a))
             = Cardinality(RevertedJobs(a))

Overdue(j) == IsOpen(j) /\ currentSlot >= disputes[j].VoteDeadline

\* When the tally of a block ends no dispute is past its vote deadline, unless the
\* network had no stake or an overdue dispute is about a job without a server.
ExpiredDisputesResolved ==
    phase = "tally" /\ tallyQ = {} =>
       \/ \A j \in JobIDs : ~ Overdue(j)
       \/ tallyStake = 0
       \/ \E j \in JobIDs : Overdue(j) /\ jobs[j].Server = NoServer

LifecycleStatus(state) ==
    CASE state = "none" -> "absent"
      [] state \in {"committed", "revealed"} -> "pending"
      [] state = "disputed" -> "contested"
      [] OTHER -> state

Lifecycle ==
    INSTANCE JobLifecycle
    WITH status <- [j \in JobIDs |-> LifecycleStatus(jobs[j].State)],
         assignee <- [j \in JobIDs |-> jobs[j].Server],
         Unassigned <- NoServer

\* The pipeline of commit, reveal, serve, dispute, vote, tally and sweep
\* implements the life cycle of a job.  It is the life cycle of the code: the
\* re-queuing of failed and reverted jobs that jobs.go:248 and the documents
\* describe is not part of it (see JobLifecycle).
ImplementsLifecycle == Lifecycle!Spec

-----------------------------------------------------------------------------
(* What the repository says                                                *)

\* jobs.go:200 "Returns error if already voted", jobs.go:50 "tracks who already
\* voted": while a dispute is open, a vote cast on it is not forgotten.
VotesAreKept ==
    [][\A j \in JobIDs : IsOpen(j) /\ IsOpen(j)' =>
          disputes[j].Voters \subseteq disputes'[j].Voters]_vars
=============================================================================
