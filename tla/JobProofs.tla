----------------------------- MODULE JobProofs ------------------------------
(***************************************************************************)
(* Jobs and disputes: the commitment of a job agrees with its state, an    *)
(* open dispute with its job, expired disputes are resolved, and the       *)
(* application implements JobLifecycle, in one life of the process and     *)
(* over crashes and restarts, for every set of jobs, validators and        *)
(* outputs; the drain spares the servers of jobs, and votes weigh the      *)
(* stake of their voters.                                                  *)
(***************************************************************************)
EXTENDS AppProofs, SumTheorems

\* What a step of the application does to the jobs and the disputes.
JobsCases ==
    \/ UNCHANGED jobsVars
    \/ \E i \in tallyQ : ResolveDispute(i) /\ UNCHANGED jobs
    \/ \E i \in tallyQ : ResolveDispute(i) /\ RevertJob(i)
    \/ FinaliseSlot(currentSlot)
    \/ \E i \in JobIDs : Commit(i, currentSlot, server)
    \/ \E i \in JobIDs : Reveal(i)
    \/ \E i \in JobIDs, a \in Servers, o \in Outputs : AddCommitment(i, a, o)
    \/ \E i \in JobIDs, a \in Addrs :
          /\ jobs[i].Commitment # NoCommitment
          /\ jobs[i].Commitment.ValidatorAddr = a
          /\ OpenDisputeAndRevert(i, a, "user", currentSlot)
    \/ \E i \in JobIDs :
          /\ jobs[i].Commitment # NoCommitment
          /\ OpenDispute(i, jobs[i].Server, "observer", currentSlot)
    \/ \E i \in JobIDs, a \in Addrs, v \in {"uphold", "dismiss"} :
          a \in ListActive /\ CastVote(i, a, v, val[a].TotalStake)

\* Every step of the application is one of the operations on jobs.
LEMMA NextJobsCases ==
    ASSUME [Next]_vars
    PROVE  JobsCases
<1>1. CASE UNCHANGED jobsVars
  BY <1>1 DEF JobsCases
<1>2. CASE TallyExpiredDisputes
  <2>1. PICK i \in tallyQ : TallyDispute(i)
    BY <1>2 DEF TallyExpiredDisputes
  <2>2. \/ ResolveDispute(i) /\ UNCHANGED jobs
        \/ RevertJob(i) /\ ResolveDispute(i)
        \/ UNCHANGED jobsVars
    BY <2>1 DEF TallyDispute
  <2> QED
    BY <2>2 DEF JobsCases
<1>3. CASE EndBlock
  BY <1>3 DEF EndBlock, JobsCases
<1>4. CASE DeliverTx /\ JobTx
  <2>1. PICK i \in JobIDs :
          \/ handleJobRequest(i)
          \/ handleReveal(i)
          \/ \E a \in Servers, o \in Outputs : handleCommitment(i, a, o)
          \/ \E a \in Servers, o \in Outputs : handleDispute(i, a, o)
          \/ \E a \in Addrs : handleObserverDispute(i, a)
          \/ \E a \in Addrs, v \in {"uphold", "dismiss"} : handleDisputeVote(i, a, v)
    BY <1>4 DEF JobTx
  <2>2. CASE handleJobRequest(i) \/ handleReveal(i)
    BY <2>2 DEF handleJobRequest, handleReveal, JobsCases
  <2>3. CASE \E a \in Servers, o \in Outputs : handleCommitment(i, a, o)
    BY <2>3 DEF handleCommitment, JobsCases
  <2>4. CASE \E a \in Servers, o \in Outputs : handleDispute(i, a, o)
    <3>1. PICK a \in Servers, o \in Outputs : handleDispute(i, a, o)
      BY <2>4
    <3>2. /\ a \in Addrs
          /\ jobs[i].Commitment # NoCommitment
          /\ jobs[i].Commitment.ValidatorAddr = a
          /\ OpenDisputeAndRevert(i, a, "user", currentSlot)
      BY <3>1 DEF handleDispute, ProcessUserDispute, Registered
    <3> QED
      BY <3>2 DEF JobsCases
  <2>5. CASE \E a \in Addrs : handleObserverDispute(i, a)
    BY <2>5 DEF handleObserverDispute, ProcessObserverDispute, JobsCases
  <2>6. CASE \E a \in Addrs, v \in {"uphold", "dismiss"} : handleDisputeVote(i, a, v)
    BY <2>6 DEF handleDisputeVote, CastDisputeVote, JobsCases
  <2> QED
    BY <2>1, <2>2, <2>3, <2>4, <2>5, <2>6
<1> QED
  BY <1>1, <1>2, <1>3, <1>4
  DEF Next, vars, InitChain, BeginBlock, ProcessMatureUnbondings, EndEpoch,
      BeginTally, RecordTally, DeliverTx, StakingTx, handleRegisterValidator,
      handleDelegate, handleUndelegate, handleUnjail, RewardsTx,
      handleProtocolAttestation, Halt

-----------------------------------------------------------------------------
(* Commitments and open disputes                                           *)

\* The disputes the tally has still to visit are open, and there are none
\* outside the tally.
TallyVisitsOpen ==
    /\ phase # "tally" => tallyQ = {}
    /\ \A j \in tallyQ : IsOpen(j)

\* The inductive invariant.
JobsInv == CommitmentMatchesState /\ OpenDisputeIsLive /\ TallyVisitsOpen

\* The part of the invariant that a crash leaves intact: a tally that was cut
\* short has reverted a job and not closed the dispute.
JobsSound ==
    /\ CommitmentMatchesState
    /\ \A j \in JobIDs : IsOpen(j) =>
          /\ disputes[j].DisputeType = "observer"
          /\ disputes[j].ServingValidator = jobs[j].Server
          /\ jobs[j].State \in {"disputed", "reverted"}
    /\ TallyVisitsOpen

\* S: the states a job with an open dispute may be in.
LiveStates(S) == "disputed" \in S /\ S \subseteq {"disputed", "reverted"}

\* The part of the invariants that is about one job and its dispute record.
JobOK(job, dispute, S) ==
    /\ job.Commitment # NoCommitment <=> job.State \in {"served", "disputed"}
    /\ job.Commitment # NoCommitment => job.Commitment.ValidatorAddr = job.Server
    /\ dispute.DisputeType # "none" /\ ~ dispute.Resolved =>
         /\ dispute.DisputeType = "observer"
         /\ dispute.ServingValidator = job.Server
         /\ job.State \in S

AllJobsOK(S) == \A j \in JobIDs : JobOK(jobs[j], disputes[j], S)

\* JobsSound is about the jobs and about the queue of the tally, and is weaker than
\* JobsInv.
LEMMA JobsSoundParts ==
    /\ JobsSound <=> AllJobsOK({"disputed", "reverted"}) /\ TallyVisitsOpen
    /\ JobsSound' <=> AllJobsOK({"disputed", "reverted"})' /\ TallyVisitsOpen'
    /\ JobsInv => JobsSound
  BY DEF JobsInv, JobsSound, JobOK, AllJobsOK, CommitmentMatchesState, OpenDisputeIsLive,
     IsOpen

\* Every step of the application keeps the invariant of every job, and so does
\* every write before a crash, but for a tally cut short: it leaves a reverted
\* job whose dispute is open.
LEMMA JobsStaySound ==
    ASSUME TypeOK, NEW S, LiveStates(S), AllJobsOK(S),
           JobsCases \/ (CrashJobs /\ "reverted" \in S)
    PROVE  AllJobsOK(S)'
<1> SUFFICES ASSUME NEW j \in JobIDs
             PROVE  JobOK(jobs'[j], disputes'[j], S)
  BY DEF AllJobsOK
<1>1. /\ JobsType /\ jobs[j] \in Job /\ JobOK(jobs[j], disputes[j], S)
      /\ tallyQ \subseteq JobIDs
  BY TypeParts DEF TallyType, AllJobsOK, JobsType
<1>2. CASE UNCHANGED jobsVars
  BY <1>1, <1>2 DEF jobsVars
<1>3. ASSUME NEW i \in JobIDs, NEW slot, NEW s, Commit(i, slot, s)
      PROVE  JobOK(jobs'[j], disputes'[j], S)
  <2>1. CASE j = i
    <3>1. /\ jobs'[j] = [State |-> "committed", Slot |-> slot, Server |-> s,
                         Commitment |-> NoCommitment]
          /\ disputes'[j] = disputes[j]
          /\ jobs[j].State = "none"
      BY <1>1, <1>3, <2>1 DEF JobsType, Commit
    <3> QED
      BY <1>1, <3>1 DEF JobOK, LiveStates
  <2>2. CASE j # i
    BY <1>1, <1>3, <2>2 DEF JobsType, Commit
  <2> QED
    BY <2>1, <2>2
<1>4. ASSUME NEW i \in JobIDs, Reveal(i)
      PROVE  JobOK(jobs'[j], disputes'[j], S)
  <2>1. CASE j = i
    <3>1. /\ jobs'[j] = [jobs[j] EXCEPT !.State = "revealed"]
          /\ disputes'[j] = disputes[j]
          /\ jobs[j].State = "committed"
      BY <1>1, <1>4, <2>1 DEF JobsType, Reveal
    <3> QED
      BY <1>1, <3>1 DEF JobOK, Job, LiveStates
  <2>2. CASE j # i
    BY <1>1, <1>4, <2>2 DEF JobsType, Reveal
  <2> QED
    BY <2>1, <2>2
<1>5. ASSUME NEW i \in JobIDs, NEW addr \in Servers, NEW o \in Outputs,
             AddCommitment(i, addr, o)
      PROVE  JobOK(jobs'[j], disputes'[j], S)
  <2> DEFINE c == [ValidatorAddr |-> addr, OutputHash |-> o]
  <2>1. CASE j = i
    <3>1. /\ jobs'[j] = [jobs[j] EXCEPT !.Commitment = c, !.State = "served"]
          /\ disputes'[j] = disputes[j]
          /\ jobs[j].State = "revealed"
          /\ addr = jobs[j].Server
      BY <1>1, <1>5, <2>1 DEF JobsType, AddCommitment
    <3>2. c # NoCommitment /\ c.ValidatorAddr = addr
      BY JobsAssumption DEF OutputCommitment
    <3> HIDE DEF c
    <3>3. /\ jobs'[j].Commitment = c /\ jobs'[j].State = "served"
          /\ jobs'[j].Server = jobs[j].Server
      BY <1>1, <3>1 DEF Job
    <3> QED
      BY <1>1, <3>1, <3>2, <3>3 DEF JobOK, LiveStates
  <2>2. CASE j # i
    BY <1>1, <1>5, <2>2 DEF JobsType, AddCommitment
  <2> QED
    BY <2>1, <2>2
\* The sweep, or the part of it that was done before a crash.
<1>6. ASSUME NEW slot, NEW failed \in SUBSET MissedJobs(slot), FailsJobs(failed),
             UNCHANGED disputes
      PROVE  JobOK(jobs'[j], disputes'[j], S)
  <2>1. CASE j \in failed
    <3>1. /\ jobs'[j] = [jobs[j] EXCEPT !.State = "failed"]
          /\ jobs[j].State = "revealed"
          /\ jobs[j].Commitment = NoCommitment
      BY <1>6, <2>1 DEF FailsJobs, MissedJobs
    <3> QED
      BY <1>1, <1>6, <3>1 DEF JobOK, Job, LiveStates
  <2>2. CASE j \notin failed
    BY <1>1, <1>6, <2>2 DEF FailsJobs
  <2> QED
    BY <2>1, <2>2
\* The dispute record of a contested job is the earlier one, an observer's, or
\* closed.
<1>7. ASSUME NEW i \in JobIDs, NEW slot, NEW s,
             jobs[i].Commitment # NoCommitment,
             ContestsJob(i),
             \/ UNCHANGED disputes
             \/ disputes' = [disputes EXCEPT
                               ![i] = NewDispute(jobs[i].Server, "observer", slot, FALSE)]
             \/ disputes' = [disputes EXCEPT ![i] = NewDispute(s, "user", slot, TRUE)]
      PROVE  JobOK(jobs'[j], disputes'[j], S)
  <2>1. CASE j = i
    <3>1. jobs'[j] = [jobs[j] EXCEPT !.State = "disputed"]
      BY <1>1, <1>7, <2>1 DEF JobsType, ContestsJob
    <3>2. /\ jobs'[j].State = "disputed" /\ jobs'[j].Commitment = jobs[j].Commitment
          /\ jobs'[j].Server = jobs[j].Server
      BY <1>1, <3>1 DEF Job
    <3>3. \/ disputes'[j] = disputes[j]
          \/ /\ disputes'[j].DisputeType = "observer"
             /\ disputes'[j].ServingValidator = jobs[j].Server
          \/ disputes'[j].Resolved
      BY <1>1, <1>7, <2>1 DEF NewDispute, JobsType
    <3> QED
      BY <1>1, <1>7, <2>1, <3>2, <3>3 DEF JobOK, LiveStates
  <2>2. CASE j # i
    BY <1>1, <1>7, <2>2, Zenon DEF JobsType, ContestsJob
  <2> QED
    BY <2>1, <2>2
\* A reverted job has no commitment; its dispute is closed, or the tally was cut
\* short.
<1>8. ASSUME NEW i \in JobIDs, RevertJob(i),
             \/ ResolveDispute(i)
             \/ \E s, slot : disputes' = [disputes EXCEPT ![i] = NewDispute(s, "user", slot, TRUE)]
             \/ "reverted" \in S /\ UNCHANGED disputes
      PROVE  JobOK(jobs'[j], disputes'[j], S)
  <2>1. CASE j = i
    <3>1. jobs'[j] = [jobs[j] EXCEPT !.State = "reverted", !.Commitment = NoCommitment]
      BY <1>1, <1>8, <2>1 DEF JobsType, RevertJob
    <3>2. /\ jobs'[j].State = "reverted" /\ jobs'[j].Commitment = NoCommitment
          /\ jobs'[j].Server = jobs[j].Server
      BY <1>1, <3>1 DEF Job
    <3>3. \/ disputes'[j].Resolved
          \/ "reverted" \in S /\ disputes'[j] = disputes[j]
      BY <1>1, <1>8, <2>1 DEF JobsType, ResolveDispute, DisputeRecord, NewDispute
    <3> QED
      BY <1>1, <3>2, <3>3 DEF JobOK
  <2>2. CASE j # i
    BY <1>1, <1>8, <2>2, Zenon DEF JobsType, RevertJob, ResolveDispute
  <2> QED
    BY <2>1, <2>2
<1>9. ASSUME NEW i \in JobIDs, ResolveDispute(i), UNCHANGED jobs
      PROVE  JobOK(jobs'[j], disputes'[j], S)
  <2>1. CASE j = i
    <3>1. disputes'[j].Resolved
      BY <1>1, <1>9, <2>1 DEF JobsType, ResolveDispute, DisputeRecord
    <3> QED
      BY <1>1, <1>9, <3>1 DEF JobOK
  <2>2. CASE j # i
    BY <1>1, <1>9, <2>2 DEF JobsType, ResolveDispute
  <2> QED
    BY <2>1, <2>2
<1>10. ASSUME NEW i \in JobIDs, NEW voter, NEW vote, NEW stake,
              CastVote(i, voter, vote, stake)
       PROVE  JobOK(jobs'[j], disputes'[j], S)
  <2>1. jobs' = jobs
    BY <1>10 DEF CastVote
  <2>2. /\ disputes'[j].DisputeType = disputes[j].DisputeType
        /\ disputes'[j].ServingValidator = disputes[j].ServingValidator
        /\ disputes'[j].Resolved = disputes[j].Resolved
    BY <1>1, <1>10 DEF JobsType, CastVote, DisputeRecord
  <2> QED
    BY <1>1, <2>1, <2>2 DEF JobOK
<1>11. ASSUME NEW i \in JobIDs, NEW a, OpenDisputeAndRevert(i, a, "user", currentSlot)
       PROVE  JobOK(jobs'[j], disputes'[j], S)
  <2>1. RevertJob(i)
    BY <1>11 DEF OpenDisputeAndRevert, RevertJob
  <2>2. disputes' = [disputes EXCEPT ![i] = NewDispute(a, "user", currentSlot, TRUE)]
    BY <1>11 DEF OpenDisputeAndRevert
  <2> QED
    BY <1>8, <2>1, <2>2, Zenon
<1>12. CASE JobsCases
  <2>1. CASE FinaliseSlot(currentSlot)
    <3>1. FailsJobs(MissedJobs(currentSlot)) /\ UNCHANGED disputes
      BY <2>1 DEF FinaliseSlot, FailsJobs
    <3> QED
      BY <1>6, <3>1
  <2>2. ASSUME NEW i \in JobIDs, jobs[i].Commitment # NoCommitment,
               OpenDispute(i, jobs[i].Server, "observer", currentSlot)
        PROVE  JobOK(jobs'[j], disputes'[j], S)
    <3>1. /\ ContestsJob(i)
          /\ disputes' = [disputes EXCEPT
                            ![i] = NewDispute(jobs[i].Server, "observer", currentSlot, FALSE)]
      BY <2>2 DEF OpenDispute, ContestsJob
    <3> QED
      BY <1>7, <2>2, <3>1, Zenon
  <2> QED
    BY <1>1, <1>2, <1>3, <1>4, <1>5, <1>8, <1>9, <1>10, <1>11, <1>12, <2>1, <2>2, Zenon
    DEF JobsCases
<1>13. CASE CrashJobs /\ "reverted" \in S
  BY <1>1, <1>2, <1>5, <1>6, <1>7, <1>8, <1>11, <1>13, Zenon DEF CrashJobs
<1> QED
  BY <1>12, <1>13

\* The disputes still in the queue of the tally are open.
LEMMA NextTallyVisitsOpen ==
    ASSUME TypeOK, TallyVisitsOpen, [Next]_vars
    PROVE  TallyVisitsOpen'
<1>1. CASE BeginTally
  BY <1>1 DEF BeginTally, StartTally, ListOpenDisputes, IsOpen, TallyVisitsOpen,
     jobsVars
<1>2. CASE TallyExpiredDisputes
  <2>1. PICK i \in tallyQ : TallyDispute(i)
    BY <1>2 DEF TallyExpiredDisputes
  <2>2. \/ tallyQ' = {}
        \/ tallyQ' = tallyQ \ {i} /\ ResolveDispute(i)
    BY <2>1 DEF TallyDispute
  <2>3. \A j \in tallyQ' : IsOpen(j)'
    BY <2>2 DEF TallyVisitsOpen, ResolveDispute, IsOpen, TypeOK
  <2>4. phase = "tally" /\ phase' = phase
    BY <1>2 DEF TallyExpiredDisputes, appVars
  <2> QED
    BY <2>3, <2>4 DEF TallyVisitsOpen
<1>3. CASE RecordTally
  BY <1>3 DEF RecordTally, TallyVisitsOpen
<1>4. CASE phase # "tally" /\ phase' # "tally" /\ UNCHANGED tallyQ
  BY <1>4 DEF TallyVisitsOpen
<1>5. CASE UNCHANGED vars
  BY <1>5 DEF vars, slashingVars, jobsVars, appVars, TallyVisitsOpen, IsOpen
<1> QED
  BY <1>1, <1>2, <1>3, <1>4, <1>5, Zenon
  DEF Next, slashingVars, InitChain, BeginBlock, ProcessMatureUnbondings,
      EndEpoch, DeliverTx, EndBlock, Halt, appVars

\* A fresh store has no jobs and no disputes.
LEMMA FreshJobs ==
    ASSUME Fresh
    PROVE  JobsInv
<1>1. NoJob.State = "none" /\ NoJob.Commitment = NoCommitment
  BY DEF NoJob
<1>2. NoDispute.Resolved
  BY DEF NoDispute, NewDispute
<1>3. /\ \A j \in JobIDs : jobs[j] = NoJob /\ disputes[j] = NoDispute
      /\ tallyQ = {}
  BY DEF Fresh, JobsInit
<1> QED
  BY <1>1, <1>2, <1>3
  DEF JobsInv, CommitmentMatchesState, OpenDisputeIsLive, TallyVisitsOpen, IsOpen

\* The invariant is inductive.
THEOREM JobsInvariant == Spec => []JobsInv

<1>JobsInvParts.
      /\ JobsInv <=> AllJobsOK({"disputed"}) /\ TallyVisitsOpen
      /\ JobsInv' <=> AllJobsOK({"disputed"})' /\ TallyVisitsOpen'
  BY DEF JobsInv, JobOK, AllJobsOK, CommitmentMatchesState, OpenDisputeIsLive, IsOpen

<1>1. Init => JobsInv
  BY FreshJobs DEF Init
<1>2. ASSUME TypeOK, JobsInv, [Next]_vars
      PROVE  JobsInv'
  <2>1. LiveStates({"disputed"})
    BY DEF LiveStates
  <2>2. AllJobsOK({"disputed"})'
    BY <1>2, <2>1, NextJobsCases, JobsStaySound, <1>JobsInvParts
  <2>3. TallyVisitsOpen'
    BY <1>2, NextTallyVisitsOpen DEF JobsInv
  <2> QED
    BY <2>2, <2>3, <1>JobsInvParts
<1> QED
  BY <1>1, <1>2, TypeCorrectness, PTL DEF Spec

\* A job carries a commitment exactly while it is served or disputed, and it is
\* its elected server's, whatever is disputed, voted, tallied or swept.
THEOREM CommitmentTheorem == Spec => []CommitmentMatchesState
<1>1. JobsInv => CommitmentMatchesState
  BY DEF JobsInv
<1> QED
  BY <1>1, JobsInvariant, PTL

\* An open dispute is an observer's, names the job's server and the job is still
\* disputed: reverting a job always closes the vote on it.
THEOREM OpenDisputeTheorem == Spec => []OpenDisputeIsLive
<1>1. JobsInv => OpenDisputeIsLive
  BY DEF JobsInv
<1> QED
  BY <1>1, JobsInvariant, PTL

-----------------------------------------------------------------------------
(* Accepting, serving, contesting and reverting change one job; the end of *)
(* a block may fail several; revealing a job, a vote, a second dispute and *)
(* the dismissal of a dispute are stuttering steps of the life cycle.      *)

\* The abstract state of the jobs, as the refinement mapping gives it.
absStatus == [j \in JobIDs |-> LifecycleStatus(jobs[j].State)]

absAssignee == [j \in JobIDs |-> jobs[j].Server]

\* The refinement mapping, state by state.
LEMMA StatusValues ==
    /\ LifecycleStatus("none") = "absent"
    /\ LifecycleStatus("committed") = "pending"
    /\ LifecycleStatus("revealed") = "pending"
    /\ LifecycleStatus("served") = "served"
    /\ LifecycleStatus("disputed") = "contested"
    /\ LifecycleStatus("reverted") = "reverted"
    /\ LifecycleStatus("failed") = "failed"
  BY DEF LifecycleStatus

\* The step gives job i the record r.
Writes(i, r) == jobs' = [jobs EXCEPT ![i] = r]

\* Every step of the application, and every write before a crash, is a step of
\* the life cycle or stutters.
LEMMA JobsImplement ==
    ASSUME TypeOK, JobsSound, JobsCases \/ CrashJobs
    PROVE  [Lifecycle!Next]_(Lifecycle!vars)
<1>1. /\ JobsType /\ server \in Servers
      /\ \A j \in JobIDs : jobs[j].Commitment # NoCommitment =>
                              jobs[j].State \in {"served", "disputed"}
      /\ \A j \in tallyQ : j \in JobIDs /\ jobs[j].State \in {"disputed", "reverted"}
  BY TypeParts, Zenon DEF TypeOK, JobsSound, CommitmentMatchesState, TallyVisitsOpen
\* What a step that writes the record of one job does to the abstract state.
<1>2. ASSUME NEW i \in JobIDs, NEW r, Writes(i, r)
      PROVE  /\ absStatus' = [absStatus EXCEPT ![i] = LifecycleStatus(r.State)]
             /\ absAssignee' = [absAssignee EXCEPT ![i] = r.Server]
             /\ absStatus[i] = LifecycleStatus(jobs[i].State)
             /\ r.Server = jobs[i].Server => absAssignee' = absAssignee
  BY <1>1, <1>2, Zenon DEF JobsType, absStatus, absAssignee, Writes
<1>3. CASE UNCHANGED jobs
  BY <1>3 DEF Lifecycle!vars
<1>4. ASSUME NEW i \in JobIDs, NEW slot, NEW s \in Servers, Commit(i, slot, s)
      PROVE  Lifecycle!Next
  <2> DEFINE r == [State |-> "committed", Slot |-> slot, Server |-> s,
                   Commitment |-> NoCommitment]
  <2>1. Writes(i, r) /\ jobs[i].State = "none"
    BY <1>4 DEF Commit, Writes
  <2>2. r.State = "committed" /\ r.Server = s
    OBVIOUS
  <2> HIDE DEF r
  <2>3. /\ absStatus' = [absStatus EXCEPT ![i] = "pending"]
        /\ absAssignee' = [absAssignee EXCEPT ![i] = s]
        /\ absStatus[i] = "absent"
    BY <1>2, <2>1, <2>2, StatusValues
  <2>4. Lifecycle!Accept(i)
    BY <2>3, Zenon DEF Lifecycle!Accept, absStatus, absAssignee
  <2> QED
    BY <2>4 DEF Lifecycle!Next
<1>5. ASSUME NEW i \in JobIDs, Reveal(i)
      PROVE  UNCHANGED Lifecycle!vars
  <2> DEFINE r == [jobs[i] EXCEPT !.State = "revealed"]
  <2>1. Writes(i, r) /\ jobs[i].State = "committed"
    BY <1>1, <1>5 DEF JobsType, Reveal, Writes
  <2>2. r.State = "revealed" /\ r.Server = jobs[i].Server
    BY <1>1 DEF JobsType, Job
  <2> HIDE DEF r
  <2>3. absStatus' = [absStatus EXCEPT ![i] = absStatus[i]] /\ absAssignee' = absAssignee
    BY <1>2, <2>1, <2>2, StatusValues
  <2>4. absStatus' = absStatus
    BY <2>3, Zenon DEF absStatus
  <2> QED
    BY <2>3, <2>4 DEF Lifecycle!vars, absStatus, absAssignee
<1>6. ASSUME NEW i \in JobIDs, NEW a, NEW o, AddCommitment(i, a, o)
      PROVE  Lifecycle!Next
  <2> DEFINE c == [ValidatorAddr |-> a, OutputHash |-> o]
             r == [jobs[i] EXCEPT !.Commitment = c, !.State = "served"]
  <2>1. Writes(i, r) /\ jobs[i].State = "revealed"
    BY <1>1, <1>6, Zenon DEF JobsType, AddCommitment, Writes
  <2> HIDE DEF c
  <2>2. r.State = "served" /\ r.Server = jobs[i].Server
    BY <1>1 DEF JobsType, Job
  <2> HIDE DEF r
  <2>3. /\ absStatus' = [absStatus EXCEPT ![i] = "served"]
        /\ absAssignee' = absAssignee
        /\ absStatus[i] = "pending"
    BY <1>2, <2>1, <2>2, StatusValues
  <2>4. Lifecycle!Serve(i)
    BY <2>3 DEF Lifecycle!Serve, absStatus, absAssignee
  <2> QED
    BY <2>4 DEF Lifecycle!Next
\* A dispute on a served job contests it; one on a disputed job stutters.
<1>7. ASSUME NEW i \in JobIDs, jobs[i].Commitment # NoCommitment, ContestsJob(i)
      PROVE  [Lifecycle!Next]_(Lifecycle!vars)
  <2> DEFINE r == [jobs[i] EXCEPT !.State = "disputed"]
  <2>1. Writes(i, r) /\ jobs[i].State \in {"served", "disputed"}
    BY <1>1, <1>7 DEF JobsType, ContestsJob, Writes
  <2>2. r.State = "disputed" /\ r.Server = jobs[i].Server
    BY <1>1 DEF JobsType, Job
  <2> HIDE DEF r
  <2>3. /\ absStatus' = [absStatus EXCEPT ![i] = "contested"]
        /\ absAssignee' = absAssignee
        /\ absStatus[i] = LifecycleStatus(jobs[i].State)
    BY <1>2, <2>1, <2>2, StatusValues
  <2>4. CASE jobs[i].State = "served"
    <3>1. Lifecycle!Contest(i)
      BY <2>3, <2>4, StatusValues DEF Lifecycle!Contest, absStatus, absAssignee
    <3> QED
      BY <3>1 DEF Lifecycle!Next
  <2>5. CASE jobs[i].State = "disputed"
    <3>1. absStatus' = [absStatus EXCEPT ![i] = absStatus[i]]
      BY <2>3, <2>5, StatusValues, Zenon
    <3>2. absStatus' = absStatus
      BY <3>1, Zenon DEF absStatus
    <3> QED
      BY <2>3, <3>2 DEF Lifecycle!vars, absStatus, absAssignee
  <2> QED
    BY <2>1, <2>4, <2>5
\* Reverting a job that is served or disputed is a Revert step; a job that a
\* tally cut short has reverted may be reverted again.
<1>8. ASSUME NEW i \in JobIDs, RevertJob(i),
             jobs[i].State \in {"served", "disputed", "reverted"}
      PROVE  [Lifecycle!Next]_(Lifecycle!vars)
  <2> DEFINE r == [jobs[i] EXCEPT !.State = "reverted", !.Commitment = NoCommitment]
  <2>1. Writes(i, r)
    BY <1>1, <1>8, Zenon DEF JobsType, RevertJob, Writes
  <2>2. r.State = "reverted" /\ r.Server = jobs[i].Server
    BY <1>1 DEF JobsType, Job
  <2> HIDE DEF r
  <2>3. /\ absStatus' = [absStatus EXCEPT ![i] = "reverted"]
        /\ absAssignee' = absAssignee
        /\ absStatus[i] \in {"served", "contested", "reverted"}
    BY <1>2, <1>8, <2>1, <2>2, StatusValues
  <2>4. CASE absStatus[i] \in {"served", "contested"}
    <3>1. Lifecycle!Revert(i)
      BY <2>3, <2>4 DEF Lifecycle!Revert, absStatus, absAssignee
    <3> QED
      BY <3>1 DEF Lifecycle!Next
  <2>5. CASE absStatus[i] = "reverted"
    <3>1. absStatus' = absStatus
      BY <2>3, <2>5, Zenon DEF absStatus
    <3> QED
      BY <2>3, <3>1 DEF Lifecycle!vars, absStatus, absAssignee
  <2> QED
    BY <2>3, <2>4, <2>5
<1>9. ASSUME NEW slot, NEW J \in SUBSET MissedJobs(slot), FailsJobs(J)
      PROVE  Lifecycle!Next
  <2>1. J \in SUBSET JobIDs /\ \A j \in J : jobs[j].State = "revealed"
    BY <1>9 DEF MissedJobs
  <2>2. ASSUME NEW j \in JobIDs
        PROVE  /\ jobs'[j].State = IF j \in J THEN "failed" ELSE jobs[j].State
               /\ jobs'[j].Server = jobs[j].Server
    BY <1>1, <1>9, <2>2 DEF FailsJobs, JobsType, Job
  <2>3. /\ absStatus' = [j \in JobIDs |-> IF j \in J THEN "failed" ELSE absStatus[j]]
        /\ absAssignee' = absAssignee
        /\ \A j \in J : absStatus[j] = "pending"
    BY <2>1, <2>2, StatusValues DEF absStatus, absAssignee
  <2>4. Lifecycle!Miss
    BY <2>1, <2>3, Zenon DEF Lifecycle!Miss, absStatus, absAssignee
  <2> QED
    BY <2>4 DEF Lifecycle!Next
<1>10. ASSUME NEW i \in JobIDs, NEW a, OpenDisputeAndRevert(i, a, "user", currentSlot)
       PROVE  RevertJob(i)
  BY <1>10 DEF OpenDisputeAndRevert, RevertJob
<1>11. CASE JobsCases
  <2>1. CASE FinaliseSlot(currentSlot)
    <3>1. FailsJobs(MissedJobs(currentSlot))
      BY <2>1 DEF FinaliseSlot, FailsJobs
    <3> QED
      BY <1>9, <3>1
  <2>2. ASSUME NEW i \in JobIDs, NEW a, OpenDispute(i, a, "observer", currentSlot)
        PROVE  ContestsJob(i)
    BY <2>2 DEF OpenDispute, ContestsJob
  <2>3. ASSUME NEW i \in JobIDs, NEW a, NEW v, CastVote(i, a, v, val[a].TotalStake)
        PROVE  UNCHANGED jobs
    BY <2>3 DEF CastVote
  <2> QED
    BY <1>1, <1>3, <1>4, <1>5, <1>6, <1>7, <1>8, <1>10, <1>11, <2>1, <2>2, <2>3, Zenon
    DEF JobsCases, jobsVars
<1>12. CASE CrashJobs
  BY <1>1, <1>3, <1>6, <1>7, <1>8, <1>9, <1>10, <1>12, Zenon DEF CrashJobs, jobsVars
<1> QED
  BY <1>11, <1>12

\* A fresh store maps to an initial state of JobLifecycle.
LEMMA FreshImplements ==
    ASSUME Fresh
    PROVE  Lifecycle!Init
<1>1. \A j \in JobIDs : jobs[j].State = "none" /\ jobs[j].Server = NoServer
  BY DEF Fresh, JobsInit, NoJob
<1> QED
  BY <1>1, StatusValues DEF Lifecycle!Init

\* The pipeline of commit, reveal, serve, dispute, vote, tally and sweep
\* implements the life cycle of a job: a job is assigned once, served or missed
\* once, contested only after it was served, and reverted or failed for good.
THEOREM LifecycleTheorem == Spec => ImplementsLifecycle
<1>1. Init => Lifecycle!Init
  BY FreshImplements DEF Init
<1>2. TypeOK /\ JobsInv /\ [Next]_vars => [Lifecycle!Next]_(Lifecycle!vars)
  BY NextJobsCases, JobsImplement, JobsSoundParts
<1> QED
  BY <1>1, <1>2, TypeCorrectness, JobsInvariant, PTL
  DEF Spec, ImplementsLifecycle, Lifecycle!Spec

-----------------------------------------------------------------------------
(* The servers of jobs                                                     *)

\* An elected server has a validator record, and so has the server of a job.
ServersRegistered ==
    /\ server \in Registered \cup {NoServer}
    /\ \A j \in JobIDs : jobs[j].Server \in Registered \cup {NoServer}

\* What a step may do to a job: accept it for the server of the slot, or keep
\* its server and its existence.
JobStep(j) ==
    \/ /\ jobs[j].State = "none"
       /\ jobs'[j].State = "committed"
       /\ jobs'[j].Server = server
    \/ /\ jobs'[j].Server = jobs[j].Server
       /\ jobs'[j].State = "none" <=> jobs[j].State = "none"

\* A job gets its server when it is created, and keeps it.
LEMMA NextJobStep ==
    ASSUME TypeOK, JobsSound, JobsCases, NEW j \in JobIDs
    PROVE  JobStep(j)
<1>1. /\ JobsType /\ jobs[j] \in Job
      /\ \A i \in JobIDs : jobs[i].Commitment # NoCommitment =>
                              jobs[i].State \in {"served", "disputed"}
      /\ \A i \in tallyQ : i \in JobIDs /\ jobs[i].State # "none"
  <2>1. JobsType /\ TallyType
    BY TypeParts
  <2>2. jobs[j] \in Job /\ tallyQ \subseteq JobIDs
    BY <2>1 DEF JobsType, TallyType
  <2> QED
    BY <2>1, <2>2 DEF JobsSound, CommitmentMatchesState, TallyVisitsOpen
<1>2. ASSUME NEW i \in JobIDs, Commit(i, currentSlot, server)
      PROVE  JobStep(j)
  BY <1>1, <1>2 DEF Commit, JobStep, JobsType
<1>3. ASSUME NEW i \in JobIDs, NEW s, jobs[i].State # "none", s # "none",
             jobs' = [jobs EXCEPT ![i].State = s]
      PROVE  JobStep(j)
  BY <1>1, <1>3 DEF JobStep, JobsType, Job
<1>4. ASSUME NEW i \in JobIDs, NEW s, NEW c, jobs[i].State # "none", s # "none",
             \/ jobs' = [jobs EXCEPT ![i].State = s, ![i].Commitment = c]
             \/ jobs' = [jobs EXCEPT ![i].Commitment = c, ![i].State = s]
      PROVE  JobStep(j)
  BY <1>1, <1>4 DEF JobStep, JobsType, Job
<1>5. ASSUME FinaliseSlot(currentSlot)
      PROVE  JobStep(j)
  BY <1>1, <1>5 DEF FinaliseSlot, MissedJobs, JobStep, JobsType, Job
<1>6. ASSUME NEW i \in JobIDs, Reveal(i)
      PROVE  JobStep(j)
  BY <1>3, <1>6, Zenon DEF Reveal
<1>7. ASSUME NEW i \in JobIDs, NEW a, NEW o, AddCommitment(i, a, o)
      PROVE  JobStep(j)
  BY <1>4, <1>7, Zenon DEF AddCommitment
<1>8. ASSUME NEW i \in JobIDs, jobs[i].Commitment # NoCommitment, NEW a,
             OpenDisputeAndRevert(i, a, "user", currentSlot)
      PROVE  JobStep(j)
  BY <1>1, <1>4, <1>8, Zenon DEF OpenDisputeAndRevert
<1>9. ASSUME NEW i \in JobIDs, jobs[i].Commitment # NoCommitment, NEW a,
             OpenDispute(i, a, "observer", currentSlot)
      PROVE  JobStep(j)
  BY <1>1, <1>3, <1>9, Zenon DEF OpenDispute
<1>10. ASSUME NEW i \in tallyQ, RevertJob(i)
       PROVE  JobStep(j)
  BY <1>1, <1>4, <1>10, Zenon DEF RevertJob
<1>11. CASE UNCHANGED jobs
  BY <1>11 DEF JobStep
<1> QED
  BY <1>2, <1>5, <1>6, <1>7, <1>8, <1>9, <1>10, <1>11, Zenon
  DEF JobsCases, jobsVars, CastVote

\* The server of a job is elected from the registered validators, and none is
\* removed.
LEMMA NextServersRegistered ==
    ASSUME TypeOK, JobsSound, ServersRegistered, [Next]_vars
    PROVE  ServersRegistered'
<1>1. Registered \subseteq Registered'
  BY NextValidatorStep, RegisteredGrows
<1>2. server' \in Registered' \cup {NoServer}
  <2>1. CASE BeginBlock
    <3>1. \A r \in Elections(ListActive) : r[2] \in ListActive \cup {NoServer}
      BY DEF Elections
    <3>2. ListActive \subseteq Registered
      BY DEF ListActive, Registered
    <3> QED
      BY <1>1, <2>1, <3>1, <3>2 DEF BeginBlock
  <2>2. CASE UNCHANGED server
    BY <1>1, <2>2 DEF ServersRegistered
  <2> QED
    BY <2>1, <2>2, Zenon
    DEF Next, vars, appVars, InitChain, ProcessMatureUnbondings, EndEpoch, BeginTally,
        TallyExpiredDisputes, RecordTally, DeliverTx, EndBlock, Halt
<1>3. ASSUME NEW j \in JobIDs
      PROVE  jobs'[j].Server \in Registered' \cup {NoServer}
  <2>1. jobs'[j].Server \in {jobs[j].Server, server}
    BY <1>3, NextJobsCases, NextJobStep DEF JobStep
  <2> QED
    BY <1>1, <2>1 DEF ServersRegistered
<1> QED
  BY <1>2, <1>3 DEF ServersRegistered

\* A fresh store has no servers of jobs.
LEMMA FreshServers ==
    ASSUME Fresh
    PROVE  ServersRegistered
<1>1. server = NoServer /\ \A j \in JobIDs : jobs[j] = NoJob
  BY DEF Fresh, JobsInit
<1>2. NoJob.Server = NoServer
  BY DEF NoJob
<1> QED
  BY <1>1, <1>2 DEF ServersRegistered

\* The server of a job is always registered.
LEMMA ServersInvariant == Spec => []ServersRegistered
<1>1. Init => ServersRegistered
  BY FreshServers DEF Init
<1>2. TypeOK /\ JobsInv /\ ServersRegistered /\ [Next]_vars => ServersRegistered'
  BY NextServersRegistered, JobsSoundParts
<1> QED
  BY <1>1, <1>2, TypeCorrectness, JobsInvariant, PTL DEF Spec

-----------------------------------------------------------------------------
(* The tally                                                               *)

\* While the tally runs its queue holds overdue disputes only, and all of them
\* unless it had nothing to tally or was left at a job without a server.
TallyIsComplete ==
    phase = "tally" =>
       /\ \A j \in tallyQ : Overdue(j)
       /\ \/ tallyStake = 0
          \/ \A j \in JobIDs : Overdue(j) => j \in tallyQ
          \/ tallyQ = {} /\ \E j \in JobIDs : Overdue(j) /\ jobs[j].Server = NoServer

\* A tally keeps every overdue dispute in its queue until it has resolved it.
LEMMA NextTallyIsComplete ==
    ASSUME TypeOK, JobsSound, ServersRegistered, TallyIsComplete, [Next]_vars
    PROVE  TallyIsComplete'
<1>1. CASE BeginTally
  <2>1. /\ tallyStake' = total_stake
        /\ tallyQ' = IF total_stake = 0 THEN {} ELSE {j \in JobIDs : Overdue(j)}
        /\ \A j \in JobIDs : Overdue(j)' = Overdue(j)
    BY <1>1 DEF BeginTally, StartTally, ListOpenDisputes, Overdue, IsOpen, jobsVars
  <2> QED
    BY <2>1 DEF TallyIsComplete
<1>2. CASE TallyExpiredDisputes
  <2>1. PICK i \in tallyQ : TallyDispute(i)
    BY <1>2 DEF TallyExpiredDisputes
  <2>2. /\ phase = "tally" /\ UNCHANGED <<phase, currentSlot, tallyStake>>
        /\ i \in JobIDs /\ Overdue(i) /\ tallyQ # {}
    BY <1>2, <2>1 DEF TallyExpiredDisputes, TallyDispute, appVars, TallyIsComplete, TypeOK
  <2>3. CASE ResolveDispute(i) /\ tallyQ' = tallyQ \ {i}
    <3>1. ASSUME NEW j \in JobIDs
          PROVE  Overdue(j)' <=> Overdue(j) /\ j # i
      <4>1. CASE j = i
        BY <2>3, <4>1 DEF ResolveDispute, TypeOK, DisputeRecord, Overdue, IsOpen
      <4>2. CASE j # i
        BY <2>2, <2>3, <4>2 DEF ResolveDispute, TypeOK, Overdue, IsOpen
      <4> QED
        BY <4>1, <4>2
    <3>2. tallyQ \subseteq JobIDs
      BY DEF TypeOK
    <3> QED
      BY <2>2, <2>3, <3>1, <3>2 DEF TallyIsComplete
  <2>4. CASE /\ disputes[i].ServingValidator \notin Registered
             /\ tallyQ' = {}
             /\ UNCHANGED jobsVars
    <3>1. jobs[i].Server \notin Registered
      BY <2>2, <2>4 DEF JobsSound, Overdue
    <3>2. jobs[i].Server = NoServer
      BY <2>2, <3>1 DEF ServersRegistered
    <3>3. Overdue(i)' /\ jobs'[i].Server = NoServer
      BY <2>2, <2>4, <3>2 DEF Overdue, IsOpen, jobsVars
    <3> QED
      BY <2>2, <2>4, <3>3 DEF TallyIsComplete
  <2> QED
    BY <2>1, <2>3, <2>4 DEF TallyDispute
<1>3. CASE UNCHANGED vars
  BY <1>3 DEF vars, slashingVars, jobsVars, appVars, TallyIsComplete, Overdue, IsOpen
<1>4. CASE phase' # "tally"
  BY <1>4 DEF TallyIsComplete
<1> QED
  BY <1>1, <1>2, <1>3, <1>4, Zenon
  DEF Next, appVars, InitChain, BeginBlock, ProcessMatureUnbondings, EndEpoch,
      RecordTally, DeliverTx, EndBlock, Halt

\* When the tally of a block ends no dispute is past its vote deadline, unless the
\* network had no stake or an overdue dispute is about a job without a server.
THEOREM ExpiredTheorem == Spec => []ExpiredDisputesResolved
<1>1. Init => TallyIsComplete
  BY DEF Init, Fresh, TallyIsComplete
<1>2. TypeOK /\ JobsInv /\ ServersRegistered /\ TallyIsComplete /\ [Next]_vars
        => TallyIsComplete'
  BY NextTallyIsComplete, JobsSoundParts
<1>3. TallyIsComplete => ExpiredDisputesResolved
  BY DEF TallyIsComplete, ExpiredDisputesResolved
<1> QED
  BY <1>1, <1>2, <1>3, TypeCorrectness, JobsInvariant, ServersInvariant, PTL DEF Spec

-----------------------------------------------------------------------------
(* Jobs over restarts                                                      *)

\* The invariant of the jobs over crashes.
RestartJobs == JobsSound /\ ServersRegistered /\ TallyIsComplete

\* The jobs, their servers and a tally that is under way fit together whatever
\* the processes before left in the store.
THEOREM RestartJobsInvariant == RestartSpec => []RestartJobs

\* A crash keeps the server of every job.
<1>CrashJobStep.
      ASSUME JobsType, tallyQ \subseteq JobIDs, CrashJobs, NEW j \in JobIDs
      PROVE  jobs'[j].Server = jobs[j].Server
  <2> USE <1>CrashJobStep
  <2>1. jobs[j] \in Job
    BY DEF JobsType
  <2>2. ASSUME NEW i \in JobIDs, RevertJob(i) \/ ContestsJob(i)
        PROVE  jobs'[j].Server = jobs[j].Server
    BY <2>1, <2>2 DEF RevertJob, ContestsJob, JobsType, Job
  <2>3. ASSUME NEW i \in JobIDs, NEW a, NEW o, AddCommitment(i, a, o)
        PROVE  jobs'[j].Server = jobs[j].Server
    BY <2>1, <2>3 DEF AddCommitment, JobsType, Job
  <2>4. ASSUME NEW i \in JobIDs, NEW a, OpenDisputeAndRevert(i, a, "user", currentSlot)
        PROVE  RevertJob(i)
    BY <2>4 DEF OpenDisputeAndRevert, RevertJob
  <2>5. ASSUME NEW failed, FailsJobs(failed)
        PROVE  jobs'[j].Server = jobs[j].Server
    BY <2>1, <2>5 DEF FailsJobs, JobsType, Job
  <2>6. CASE UNCHANGED jobsVars
    BY <2>6 DEF jobsVars
  <2> QED
    BY <2>2, <2>3, <2>4, <2>5, <2>6, Zenon DEF CrashJobs

<1>NextRestartJobs.
      ASSUME RestartInv, RestartJobs, [RestartNext]_restartVars
      PROVE  RestartJobs'
  <2> USE <1>NextRestartJobs
  <2>1. CASE Run
    <3>1. TypeOK /\ [Next]_vars
      BY <2>1, RunIsNext DEF RestartInv
    <3>2. JobsCases
      BY <3>1, NextJobsCases
    <3>3. JobsSound'
      <4>1. LiveStates({"disputed", "reverted"})
        BY DEF LiveStates
      <4> QED
        BY <3>1, <3>2, <4>1, JobsSoundParts, JobsStaySound, NextTallyVisitsOpen DEF RestartJobs
    <3> QED
      BY <3>1, <3>3, NextServersRegistered, NextTallyIsComplete DEF RestartJobs
  <2>2. CASE Crash
    <3>1. TypeOK /\ CrashJobs /\ Start
      BY <2>2, CrashTypes DEF RestartInv, Crash
    <3>2. phase' = "genesis" /\ tallyQ' = {} /\ server' = NoServer
      BY <3>1 DEF Start
    <3>3. JobsSound'
      <4>1. TallyVisitsOpen'
        BY <3>2 DEF TallyVisitsOpen
      <4>2. LiveStates({"disputed", "reverted"})
        BY DEF LiveStates
      <4> QED
        BY <3>1, <4>1, <4>2, JobsStaySound, JobsSoundParts DEF RestartJobs
    <3>4. ServersRegistered'
      <4>1. Registered \subseteq Registered'
        BY RestartValidatorStep, RegisteredGrows
      <4>2. \A j \in JobIDs : jobs'[j].Server = jobs[j].Server
        BY <3>1, TypeParts, <1>CrashJobStep DEF TallyType
      <4> QED
        BY <3>2, <4>1, <4>2 DEF ServersRegistered, RestartJobs
    <3>5. TallyIsComplete'
      BY <3>2 DEF TallyIsComplete
    <3> QED
      BY <3>3, <3>4, <3>5 DEF RestartJobs
  <2>3. CASE StopsOnly
    <3>1. /\ UNCHANGED <<val, jobs, disputes, server, tallyQ, tallyStake, currentSlot>>
          /\ phase' = phase \/ (phase = "genesis" /\ phase' = "down")
      BY <2>3 DEF StopsOnly, storeVars, jobsVars, slashingVars
    <3>2. JobsSound'
      BY <3>1, Zenon DEF RestartJobs, JobsSound, CommitmentMatchesState, IsOpen, TallyVisitsOpen
    <3>3. ServersRegistered'
      BY <3>1 DEF RestartJobs, ServersRegistered, Registered
    <3>4. TallyIsComplete'
      BY <3>1 DEF RestartJobs, TallyIsComplete, Overdue, IsOpen
    <3> QED
      BY <3>2, <3>3, <3>4 DEF RestartJobs
  <2> QED
    BY <2>1, <2>2, <2>3, RestartCases

<1>1. RestartInit => RestartJobs
  <2> SUFFICES ASSUME RestartInit
               PROVE  RestartJobs
    OBVIOUS
  <2>1. Fresh
    BY DEF RestartInit
  <2>2. TallyIsComplete
    BY <2>1 DEF Fresh, TallyIsComplete
  <2> QED
    BY <2>1, <2>2, FreshJobs, FreshServers, JobsSoundParts DEF RestartJobs
<1> QED
  BY <1>1, <1>NextRestartJobs, RestartInvariant, PTL DEF RestartSpec

\* Over crashes too a job has a commitment exactly while it is served or disputed:
\* state and commitment are fields of one record and written together.
THEOREM RestartCommitmentTheorem == RestartSpec => []CommitmentMatchesState
<1>1. RestartJobs => CommitmentMatchesState
  BY DEF RestartJobs, JobsSound
<1> QED
  BY <1>1, RestartJobsInvariant, PTL

\* A tally that ends leaves no overdue dispute, also after restarts that cut
\* earlier tallies short: the open disputes are read from the store again.
THEOREM RestartExpiredTheorem == RestartSpec => []ExpiredDisputesResolved
<1>1. RestartJobs => ExpiredDisputesResolved
  BY DEF RestartJobs, TallyIsComplete, ExpiredDisputesResolved
<1> QED
  BY <1>1, RestartJobsInvariant, PTL

\* The life cycle of a job survives crashes at any write and the execution of
\* blocks again: no job is assigned twice, or served or reverted out of turn.
THEOREM RestartLifecycleTheorem == RestartSpec => ImplementsLifecycle

<1>1. RestartInit => Lifecycle!Init
  BY FreshImplements DEF RestartInit
<1>2. ASSUME RestartInv, RestartJobs, [RestartNext]_restartVars
      PROVE  [Lifecycle!Next]_(Lifecycle!vars)
  <2>1. CASE Run
    BY <1>2, <2>1, RunIsNext, NextJobsCases, JobsImplement DEF RestartInv, RestartJobs
  <2>2. CASE Crash
    BY <1>2, <2>2, CrashTypes, JobsImplement DEF RestartInv, RestartJobs
  <2>3. CASE StopsOnly
    BY <2>3 DEF StopsOnly, storeVars, jobsVars, Lifecycle!vars
  <2> QED
    BY <1>2, <2>1, <2>2, <2>3, RestartCases
<1> QED
  BY <1>1, <1>2, RestartInvariant, RestartJobsInvariant, PTL
  DEF RestartSpec, ImplementsLifecycle, Lifecycle!Spec

-----------------------------------------------------------------------------
(* The inactivity drain                                                    *)

\* The last epoch in which a validator served is not in the future, and it is
\* none of the earlier ones its counters tell of.
ServiceIsKnown ==
    \A a \in Addrs :
       /\ val[a].LastActiveEpoch <= currentEpoch
       /\ \A e \in Epochs : stats[a][e].JobsServed # 0 =>
             e <= val[a].LastActiveEpoch /\ a \in Registered

\* What a step does to the counters.
StatsCases ==
    \/ UNCHANGED stats
    \/ \E j \in JobIDs, a \in Servers, o \in Outputs : handleCommitment(j, a, o)
    \/ \E j \in JobIDs, a \in Servers, o \in Outputs : handleDispute(j, a, o)
    \/ \E a \in Addrs, e \in Epochs : handleProtocolAttestation(a, e)
    \/ RecordTally

\* Every step of the application is one of the operations on the counters.
LEMMA NextStatsCases ==
    ASSUME [Next]_vars
    PROVE  StatsCases
<1>1. CASE UNCHANGED stats
  BY <1>1 DEF StatsCases
<1>2. CASE DeliverTx /\ JobTx
  <2>1. \/ UNCHANGED stats
        \/ \E j \in JobIDs, a \in Servers, o \in Outputs :
              handleCommitment(j, a, o) \/ handleDispute(j, a, o)
    BY <1>2 DEF JobTx, handleJobRequest, handleReveal, handleObserverDispute,
       handleDisputeVote
  <2> QED
    BY <2>1 DEF StatsCases
<1>3. CASE DeliverTx /\ RewardsTx
  BY <1>3 DEF RewardsTx, StatsCases
<1>4. CASE RecordTally
  BY <1>4 DEF StatsCases
<1> QED
  BY <1>1, <1>2, <1>3, <1>4, Zenon
  DEF Next, vars, InitChain, BeginBlock, ProcessMatureUnbondings, EndEpoch, BeginTally,
      TallyExpiredDisputes, DeliverTx, StakingTx, handleRegisterValidator,
      handleDelegate, handleUndelegate, handleUnjail, EndBlock, Halt

\* The drain of endEpoch takes from no validator that served a job in one of the
\* last InactivityThresholdEpochs epochs: the epoch staking remembers is never
\* older than the last one rewards counted a served job in.
THEOREM DrainTheorem == Spec => DrainSparesServers

\* LastActiveEpoch moves to the current epoch only, but for a registration.
<1>LastActiveStep.
      ASSUME StakingType, StakingCases, NEW a \in Registered
      PROVE  val'[a].LastActiveEpoch \in {val[a].LastActiveEpoch, currentEpoch}
  <2> USE <1>LastActiveStep
  <2>1. a \in Addrs /\ val[a] \in Validator
    BY DEF Registered, StakingType
  <2>2. CASE UNCHANGED val
    BY <2>2
  <2>3. ASSUME NEW b \in Addrs, NEW bond, RegisterValidator(b, bond)
        PROVE  val'[a] = val[a]
    BY <2>1, <2>3 DEF RegisterValidator, StakingType
  <2>4. ASSUME NEW b \in Addrs, NEW x, val' = [val EXCEPT ![b].TotalStake = x]
        PROVE  val'[a].LastActiveEpoch = val[a].LastActiveEpoch
    BY <2>1, <2>4 DEF StakingType, Validator
  <2>5. ASSUME NEW b \in Addrs, Unjail(b)
        PROVE  val'[a].LastActiveEpoch = val[a].LastActiveEpoch
    BY <2>1, <2>5 DEF Unjail, StakingType, Validator
  <2>6. ASSUME NEW b \in Addrs, NEW bps, SlashBond(b, bps)
        PROVE  val'[a].LastActiveEpoch = val[a].LastActiveEpoch
    <3>1. val' = [val EXCEPT ![b] = Slashed(val[b], bps)]
      BY <2>6 DEF SlashBond, StakingType
    <3>2. Slashed(val[b], bps).LastActiveEpoch = val[b].LastActiveEpoch
      BY <2>6 DEF Slashed, StakingType, Validator
    <3> QED
      BY <2>1, <3>1, <3>2 DEF StakingType
  <2>7. ASSUME NEW missed, IncrementMissed(missed)
        PROVE  val'[a].LastActiveEpoch = val[a].LastActiveEpoch
    BY <2>1, <2>7 DEF IncrementMissed, StakingType, Validator
  <2>8. ASSUME NEW b \in Servers, ResetMissed(b, currentEpoch)
        PROVE  val'[a].LastActiveEpoch \in {val[a].LastActiveEpoch, currentEpoch}
    BY <2>1, <2>8 DEF ResetMissed, StakingType, Validator
  <2>9. ASSUME NEW b \in Addrs, NEW amount, NEW d,
               Delegate(b, amount) \/ Undelegate(d, b, amount, currentSlot)
        PROVE  val'[a].LastActiveEpoch = val[a].LastActiveEpoch
    BY <2>4, <2>9 DEF Delegate, Undelegate
  <2> QED
    BY <2>2, <2>3, <2>5, <2>6, <2>7, <2>8, <2>9, Zenon
    DEF StakingCases, stakingVars, ScanUnbonding, ReleaseUnbondings

\* RecordSlashes leaves the served jobs alone.
<1>SlashesKeepServed.
      ASSUME StatsType, NEW count, NEW n \in Epochs, RecordSlashes(count, n),
             NEW a \in Servers, NEW e \in Epochs
      PROVE  stats'[a][e].JobsServed = stats[a][e].JobsServed
  <2> USE <1>SlashesKeepServed
  <2>1. stats[a] \in [Epochs -> EpochStats] /\ stats[a][e] \in EpochStats
    BY DEF StatsType
  <2>2. stats'[a] = [stats[a] EXCEPT ![n] = AddSlashes(stats[a][n], count[a])]
    BY <2>1 DEF RecordSlashes, StatsType
  <2>3. AddSlashes(stats[a][e], count[a]).JobsServed = stats[a][e].JobsServed
    BY <2>1 DEF AddSlashes, EpochStats
  <2> QED
    BY <2>1, <2>2, <2>3, Zenon

\* Only a server that has a validator record is counted a served job, in the
\* current epoch, and its record is marked with that epoch in the same step.
<1>NextServed.
      ASSUME TypeOK, ServersRegistered, [Next]_vars, NEW a \in Addrs, NEW e \in Epochs
      PROVE  \/ stats'[a][e].JobsServed = stats[a][e].JobsServed
             \/ /\ a \in Registered
                /\ e = currentEpoch
                /\ val'[a].LastActiveEpoch = currentEpoch
  <2> USE <1>NextServed
  <2>1. /\ StatsType /\ StakingType /\ a \in Servers
        /\ stats[a] \in [Epochs -> EpochStats] /\ stats[a][e] \in EpochStats
        /\ currentEpoch \in Epochs
    BY TypeParts, EpochInRange DEF StatsType, AppType, Servers
  <2>2. ASSUME NEW count, RecordSlashes(count, currentEpoch)
        PROVE  stats'[a][e].JobsServed = stats[a][e].JobsServed
    BY <2>1, <2>2, <1>SlashesKeepServed, Zenon
  <2>3. ASSUME NEW j \in JobIDs, NEW b \in Servers, NEW o \in Outputs,
               handleCommitment(j, b, o)
        PROVE  \/ stats'[a][e].JobsServed = stats[a][e].JobsServed
               \/ /\ a \in Registered
                  /\ e = currentEpoch
                  /\ val'[a].LastActiveEpoch = currentEpoch
    <3>1. /\ b = jobs[j].Server
          /\ ResetMissed(b, currentEpoch)
          /\ stats' = [stats EXCEPT ![b][currentEpoch].JobsServed = @ + 1]
      BY <2>3, Zenon DEF handleCommitment, AddCommitment, RecordJobServed
    <3>2. CASE b = a /\ e = currentEpoch
      <4>1. a \in Registered
        BY <3>1, <3>2, TypesAssumption, Zenon DEF ServersRegistered
      <4>2. val' = [val EXCEPT ![a] = [val[a] EXCEPT !.ConsecutiveMissed = 0,
                                                     !.LastActiveEpoch = currentEpoch]]
        BY <2>1, <3>1, <3>2, <4>1, Zenon DEF ResetMissed, StakingType
      <4>3. val'[a].LastActiveEpoch = currentEpoch
        BY <2>1, <4>2 DEF StakingType, Validator
      <4> QED
        BY <3>2, <4>1, <4>3
    <3>3. CASE ~ (b = a /\ e = currentEpoch)
      BY <2>1, <3>1, <3>3, Zenon DEF StatsType, EpochStats
    <3> QED
      BY <3>2, <3>3, Zenon
  <2>4. ASSUME NEW b \in Addrs, NEW n \in Epochs, handleProtocolAttestation(b, n)
        PROVE  stats'[a][e].JobsServed = stats[a][e].JobsServed
    <3>1. stats' = [stats EXCEPT ![b][n].JobsObserved = @ + 1]
      BY <2>4 DEF handleProtocolAttestation, RecordJobObserved
    <3> QED
      BY <2>1, <3>1 DEF StatsType, EpochStats
  <2>5. ASSUME NEW j \in JobIDs, NEW b \in Servers, NEW o \in Outputs,
               handleDispute(j, b, o)
        PROVE  stats'[a][e].JobsServed = stats[a][e].JobsServed
    BY <2>2, <2>5, Zenon DEF handleDispute
  <2>6. ASSUME RecordTally
        PROVE  stats'[a][e].JobsServed = stats[a][e].JobsServed
    BY <2>2, <2>6, Zenon DEF RecordTally
  <2>7. CASE UNCHANGED stats
    BY <2>7
  <2>8. StatsCases
    BY NextStatsCases
  <2> QED
    BY <2>3, <2>4, <2>5, <2>6, <2>7, <2>8, Zenon DEF StatsCases

<1>QuotientGrows.
      ASSUME NEW x \in Nat, NEW y \in Nat, x <= y, NEW n \in Nat \ {0}
      PROVE  x \div n \in Nat /\ y \div n \in Nat /\ x \div n <= y \div n
  <2> USE <1>QuotientGrows
  <2>1. x \div n \in Nat /\ y \div n \in Nat
    OBVIOUS
  <2>2. x \div n <= y \div n
    OBVIOUS
  <2> QED
    BY <2>1, <2>2

\* Heights, and so epochs, do not go down.
<1>NextEpoch.
      ASSUME TypeOK, [Next]_vars
      PROVE  /\ currentEpoch \in Nat /\ currentEpoch' \in Nat
             /\ currentEpoch <= currentEpoch'
  <2> USE <1>NextEpoch
  <2>1. /\ currentSlot \in Nat /\ currentSlot' \in Nat /\ currentSlot <= currentSlot'
        /\ EpochSlots \in Nat \ {0}
    <3>1. currentSlot' \in {currentSlot, currentSlot + 1}
      BY Zenon DEF Next, vars, appVars, InitChain, BeginBlock, ProcessMatureUnbondings,
         EndEpoch, BeginTally, TallyExpiredDisputes, RecordTally, DeliverTx, EndBlock, Halt
    <3>2. currentSlot \in Nat
      BY DEF TypeOK
    <3> QED
      BY <3>1, <3>2, TypesAssumption
  <2>2. /\ currentSlot \div EpochSlots \in Nat /\ currentSlot' \div EpochSlots \in Nat
        /\ currentSlot \div EpochSlots <= currentSlot' \div EpochSlots
    BY <2>1, <1>QuotientGrows, Zenon
  <2> QED
    BY <2>2 DEF currentEpoch, EpochOf

<1>NextServiceIsKnown.
      ASSUME TypeOK, TypeOK', ServersRegistered, ServiceIsKnown, [Next]_vars
      PROVE  ServiceIsKnown'
  <2> USE <1>NextServiceIsKnown
  <2> SUFFICES ASSUME NEW a \in Addrs
               PROVE  /\ val'[a].LastActiveEpoch <= currentEpoch'
                      /\ \A e \in Epochs : stats'[a][e].JobsServed # 0 =>
                            e <= val'[a].LastActiveEpoch /\ a \in Registered'
    BY Zenon DEF ServiceIsKnown
  <2>1. /\ StakingCases /\ StakingType
        /\ currentEpoch \in Nat /\ currentEpoch' \in Nat
        /\ currentEpoch <= currentEpoch'
        /\ Registered \subseteq Registered'
    BY NextStakingCases, <1>NextEpoch, NextValidatorStep, RegisteredGrows, TypeParts
  <2>2. /\ val[a].LastActiveEpoch \in Nat /\ val'[a].LastActiveEpoch \in Nat
        /\ val[a].LastActiveEpoch <= currentEpoch
    BY Zenon DEF TypeOK, Validator, ServiceIsKnown
  <2>3. CASE a \in Registered
    <3>1. val'[a].LastActiveEpoch \in {val[a].LastActiveEpoch, currentEpoch}
      BY <2>1, <2>3, <1>LastActiveStep, Zenon
    <3>2. val'[a].LastActiveEpoch <= currentEpoch'
      BY <2>1, <2>2, <3>1
    <3>3. ASSUME NEW e \in Epochs, stats'[a][e].JobsServed # 0
          PROVE  e <= val'[a].LastActiveEpoch
      <4>1. e \in Nat
        BY DEF Epochs
      <4>2. CASE stats[a][e].JobsServed # 0
        <5>1. e <= val[a].LastActiveEpoch
          BY <4>2, Zenon DEF ServiceIsKnown
        <5> QED
          BY <2>1, <2>2, <3>1, <4>1, <5>1
      <4>3. CASE stats[a][e].JobsServed = 0
        <5>1. e = currentEpoch /\ val'[a].LastActiveEpoch = currentEpoch
          BY <3>3, <4>3, <1>NextServed, Zenon
        <5> QED
          BY <2>1, <5>1
      <4> QED
        BY <4>2, <4>3, Zenon
    <3> QED
      BY <2>1, <2>3, <3>2, <3>3, Zenon
  <2>4. CASE a \notin Registered
    <3>1. val'[a].LastActiveEpoch \in {val[a].LastActiveEpoch, 0}
      BY <2>1, <2>4, EmptyRecordStays, Zenon DEF Registered
    <3>2. ASSUME NEW e \in Epochs
          PROVE  stats'[a][e].JobsServed = 0
      BY <2>4, <1>NextServed, Zenon DEF ServiceIsKnown
    <3> QED
      BY <2>1, <2>2, <3>1, <3>2
  <2> QED
    BY <2>3, <2>4, Zenon

<1>ServiceInvariant. Spec => []ServiceIsKnown
  <2>1. Init => ServiceIsKnown
    <3> SUFFICES ASSUME Init, NEW a \in Addrs
                 PROVE  /\ val[a].LastActiveEpoch <= currentEpoch
                        /\ \A e \in Epochs : stats[a][e].JobsServed = 0
      BY DEF ServiceIsKnown
    <3>1. val[a] = NoValidator /\ \A e \in Epochs : stats[a][e] = NoStats
      BY DEF Init, Fresh, RewardsInit, Servers
    <3>2. NoValidator.LastActiveEpoch = 0 /\ NoStats.JobsServed = 0
      BY DEF NoValidator, NewValidator, NoStats
    <3>3. currentEpoch \in Nat
      BY InitType, EpochType DEF TypeOK
    <3> QED
      BY <3>1, <3>2, <3>3
  <2>2. TypeOK /\ TypeOK' /\ ServersRegistered /\ ServiceIsKnown /\ [Next]_vars
          => ServiceIsKnown'
    BY <1>NextServiceIsKnown
  <2> QED
    BY <2>1, <2>2, TypeCorrectness, ServersInvariant, PTL DEF Spec

<1>1. ASSUME TypeOK, ServiceIsKnown, [Next]_vars
      PROVE  [\A a \in Addrs, e \in Epochs :
                /\ phase = "drain"
                /\ val'[a].Bond < val[a].Bond
                /\ e + InactivityThresholdEpochs > currentEpoch - 1
                => stats[a][e].JobsServed = 0]_vars
  <2> SUFFICES ASSUME NEW a \in Addrs, NEW e \in Epochs, phase = "drain",
                      val'[a].Bond < val[a].Bond,
                      e + InactivityThresholdEpochs > currentEpoch - 1,
                      stats[a][e].JobsServed # 0
               PROVE  FALSE
    OBVIOUS
  <2>1. /\ val[a].Bond \in Nat /\ val[a].LastActiveEpoch \in Nat
        /\ currentEpoch \in Nat /\ e \in Nat
    BY <1>1, EpochType DEF TypeOK, Validator, Epochs
  <2>2. val' # val
    BY <2>1
  <2>3. EndEpoch
    BY <1>1, <2>2, Zenon
    DEF Next, vars, stakingVars, InitChain, BeginBlock, ProcessMatureUnbondings,
        BeginTally, TallyExpiredDisputes, RecordTally, DeliverTx, EndBlock, Halt
  <2>4. PICK b \in drainQ :
          LET idle == currentEpoch - 1 - val[b].LastActiveEpoch
          IN IF idle >= InactivityThresholdEpochs /\ val[b].Bond > 0
             THEN SlashBond(b, DrainBPS(idle))
             ELSE UNCHANGED stakingVars
    BY <2>3, Zenon DEF EndEpoch
  <2>5. /\ currentEpoch - 1 - val[b].LastActiveEpoch >= InactivityThresholdEpochs
        /\ val' = [val EXCEPT ![b] =
                      Slashed(@, DrainBPS(currentEpoch - 1 - val[b].LastActiveEpoch))]
    BY <2>2, <2>4, Zenon DEF stakingVars, SlashBond
  <2>6. b = a
    <3>1. b # a => val'[a] = val[a]
      BY <1>1, <2>5, Zenon DEF TypeOK
    <3> QED
      BY <2>1, <3>1
  <2>7. e <= val[a].LastActiveEpoch
    BY <1>1, Zenon DEF ServiceIsKnown
  <2> QED
    BY <2>1, <2>5, <2>6, <2>7 DEF InactivityThresholdEpochs
<1> QED
  BY <1>1, TypeCorrectness, <1>ServiceInvariant, PTL DEF Spec, DrainSparesServers

-----------------------------------------------------------------------------
(* Votes                                                                   *)

\* What a step may do to the votes of one dispute record.
VotesMove(d, dd) ==
    \/ dd.Voters = {} /\ VoteWeight(dd) = 0
    \/ LET joined == dd.Voters \ d.Voters
       IN /\ joined \subseteq ListActive
          /\ d.Voters \subseteq dd.Voters
          /\ VoteWeight(dd) = VoteWeight(d) + StakeOf(joined)

\* A vote brings one voter and the voter's stake.
LEMMA CastVoteMoves ==
    ASSUME TypeOK, NEW i \in JobIDs, NEW voter \in ListActive,
           NEW vote \in {"uphold", "dismiss"},
           CastVote(i, voter, vote, val[voter].TotalStake)
    PROVE  VotesMove(disputes[i], disputes'[i])
<1> DEFINE d == disputes[i]
           stake == val[voter].TotalStake
           f == [a \in Addrs |-> val[a].TotalStake]
<1>1. /\ d \in DisputeRecord /\ voter \notin d.Voters /\ voter \in Addrs
      /\ d.VotesUphold \in Int /\ d.VotesDismiss \in Int
      /\ stake \in Int /\ f[voter] = stake
  BY DEF TypeOK, DisputeRecord, Validator, CastVote, ListActive
<1>2. /\ disputes'[i].Voters = d.Voters \cup {voter}
      /\ \/ /\ disputes'[i].VotesUphold = d.VotesUphold + stake
            /\ disputes'[i].VotesDismiss = d.VotesDismiss
         \/ /\ disputes'[i].VotesUphold = d.VotesUphold
            /\ disputes'[i].VotesDismiss = d.VotesDismiss + stake
  <2> DEFINE up == IF vote = "uphold" THEN d.VotesUphold + stake ELSE d.VotesUphold
             down == IF vote = "dismiss" THEN d.VotesDismiss + stake ELSE d.VotesDismiss
  <2>1. disputes'[i] = [d EXCEPT !.Voters = @ \cup {voter}, !.VotesUphold = up,
                                 !.VotesDismiss = down]
    BY DEF CastVote, TypeOK, DisputeRecord
  <2> HIDE DEF up, down, d, stake
  <2>2. /\ disputes'[i].Voters = d.Voters \cup {voter}
        /\ disputes'[i].VotesUphold = up /\ disputes'[i].VotesDismiss = down
    BY <1>1, <2>1 DEF DisputeRecord
  <2> QED
    BY <2>2, Zenon DEF up, down
<1>3. StakeOf({voter}) = stake
  <2>1. IsFiniteSet({}) /\ voter \notin {} /\ \A y \in {} \cup {voter} : f[y] \in Int
    BY <1>1, FS_EmptySet
  <2> HIDE DEF f
  <2>2. SumFunctionOnSet(f, {}) = 0 /\ SumFunctionOnSet(f, {} \cup {voter}) = 0 + f[voter]
    BY <2>1, SumAdd
  <2>3. {} \cup {voter} = {voter} /\ 0 + f[voter] = stake
    BY <1>1
  <2>4. SumFunctionOnSet(f, {voter}) = stake
    BY <2>2, <2>3
  <2> QED
    BY <2>4 DEF StakeOf, f
<1> DEFINE dd == disputes'[i]
<1>4. dd.Voters \ d.Voters = {voter} /\ d.Voters \subseteq dd.Voters /\ {voter} \subseteq ListActive
  BY <1>1, <1>2
<1>5. VoteWeight(dd) = VoteWeight(d) + StakeOf({voter})
  <2> HIDE DEF d, dd, stake
  <2>1. \/ dd.VotesUphold = d.VotesUphold + stake /\ dd.VotesDismiss = d.VotesDismiss
        \/ dd.VotesUphold = d.VotesUphold /\ dd.VotesDismiss = d.VotesDismiss + stake
    BY <1>2, Zenon DEF dd
  <2>2. dd.VotesUphold + dd.VotesDismiss = d.VotesUphold + d.VotesDismiss + stake
    BY <1>1, <2>1
  <2> QED
    BY <1>3, <2>2 DEF VoteWeight
<1> HIDE DEF d, dd
<1>6. VotesMove(d, dd)
  BY <1>4, <1>5, Zenon DEF VotesMove
<1> QED
  BY <1>6 DEF d, dd

\* A record whose votes stay as they are.
LEMMA SameVotesMove ==
    ASSUME JobsType, NEW j \in JobIDs,
           disputes'[j].Voters = disputes[j].Voters,
           disputes'[j].VotesUphold = disputes[j].VotesUphold,
           disputes'[j].VotesDismiss = disputes[j].VotesDismiss
    PROVE  VotesMove(disputes[j], disputes'[j])
<1>1. StakeOf({}) = 0
  <2> DEFINE f == [a \in Addrs |-> val[a].TotalStake]
  <2> HIDE DEF f
  <2>1. SumFunctionOnSet(f, {}) = 0
    BY FS_EmptySet, SumByPick
  <2> QED
    BY <2>1 DEF StakeOf, f
<1>2. disputes'[j].Voters \ disputes[j].Voters = {}
  OBVIOUS
<1>3. VoteWeight(disputes[j]) \in Int /\ VoteWeight(disputes'[j]) = VoteWeight(disputes[j])
  BY DEF JobsType, DisputeRecord, VoteWeight
<1>4. VoteWeight(disputes'[j]) = VoteWeight(disputes[j]) + StakeOf({})
  BY <1>1, <1>3
<1> QED
  BY <1>2, <1>4 DEF VotesMove

\* A new dispute starts without votes.
LEMMA NewRecordMoves ==
    ASSUME JobsType, NEW j \in JobIDs, NEW i \in JobIDs, NEW a, NEW t, NEW slot, NEW m,
           disputes' = [disputes EXCEPT ![i] = NewDispute(a, t, slot, m)]
    PROVE  VotesMove(disputes[j], disputes'[j])
<1>1. CASE i # j
  BY <1>1, SameVotesMove DEF JobsType
<1>2. CASE i = j
  <2>1. disputes'[j] = NewDispute(a, t, slot, m)
    BY <1>2 DEF JobsType
  <2>2. /\ NewDispute(a, t, slot, m).Voters = {}
        /\ NewDispute(a, t, slot, m).VotesUphold = 0
        /\ NewDispute(a, t, slot, m).VotesDismiss = 0
    BY Zenon DEF NewDispute
  <2>3. disputes'[j].Voters = {} /\ VoteWeight(disputes'[j]) = 0
    BY <2>1, <2>2 DEF VoteWeight
  <2> QED
    BY <2>3, Zenon DEF VotesMove
<1> QED
  BY <1>1, <1>2

\* Every step of the application moves the votes of every dispute so.
LEMMA NextVotesMove ==
    ASSUME TypeOK, JobsCases, NEW j \in JobIDs
    PROVE  VotesMove(disputes[j], disputes'[j])
<1>1. JobsType /\ tallyQ \subseteq JobIDs
  BY DEF TypeOK, JobsType
<1>2. ASSUME NEW i \in JobIDs, NEW a \in ListActive, NEW v \in {"uphold", "dismiss"},
             CastVote(i, a, v, val[a].TotalStake)
      PROVE  VotesMove(disputes[j], disputes'[j])
  <2>1. CASE i = j
    BY <1>2, <2>1, CastVoteMoves, Zenon
  <2>2. CASE i # j
    <3>1. disputes'[j] = disputes[j]
      BY <1>1, <1>2, <2>2 DEF CastVote, JobsType
    <3> QED
      BY <1>1, <3>1, SameVotesMove
  <2> QED
    BY <2>1, <2>2
<1>3. CASE \E i \in JobIDs, a \in Addrs : OpenDisputeAndRevert(i, a, "user", currentSlot)
  <2>1. PICK i \in JobIDs, a \in Addrs :
          disputes' = [disputes EXCEPT ![i] = NewDispute(a, "user", currentSlot, TRUE)]
    BY <1>3, Zenon DEF OpenDisputeAndRevert
  <2> QED
    BY <1>1, <2>1, NewRecordMoves
<1>4. CASE \E i \in JobIDs : OpenDispute(i, jobs[i].Server, "observer", currentSlot)
  <2>1. PICK i \in JobIDs :
          disputes' = [disputes EXCEPT
                         ![i] = NewDispute(jobs[i].Server, "observer", currentSlot, FALSE)]
    BY <1>4, Zenon DEF OpenDispute
  <2> QED
    BY <1>1, <2>1, NewRecordMoves
<1>5. CASE \E i \in tallyQ : ResolveDispute(i)
  <2>1. /\ disputes'[j].VotesUphold = disputes[j].VotesUphold
        /\ disputes'[j].VotesDismiss = disputes[j].VotesDismiss
        /\ disputes'[j].Voters = disputes[j].Voters
    BY <1>1, <1>5 DEF ResolveDispute, JobsType, DisputeRecord
  <2> QED
    BY <1>1, <2>1, SameVotesMove
<1>6. CASE UNCHANGED disputes
  BY <1>1, <1>6, SameVotesMove
<1> QED
  BY <1>2, <1>3, <1>4, <1>5, <1>6, Zenon
  DEF JobsCases, jobsVars, FinaliseSlot, Commit, Reveal, AddCommitment

\* The votes of a dispute weigh the stake of its voters when they voted, each
\* counted once, whatever happens to their stake before, between and after.
THEOREM VotesTheorem == Spec => VotersWeighOnce
<1>1. ASSUME TypeOK, [Next]_vars
      PROVE  \A j \in JobIDs : VotesMove(disputes[j], disputes'[j])
  BY <1>1, NextJobsCases, NextVotesMove
<1> QED
  BY <1>1, TypeCorrectness, PTL DEF Spec, VotersWeighOnce, VotesMove

\* So they do over crashes and blocks executed again: a vote is one write, and
\* a voter the store knows is not counted again.
THEOREM RestartVotesTheorem == RestartSpec => VotersWeighOnce
<1>1. ASSUME RestartInv, [RestartNext]_restartVars, NEW j \in JobIDs
      PROVE  VotesMove(disputes[j], disputes'[j])
  <2>1. JobsType
    BY <1>1 DEF RestartInv, RestartTypeOK
  <2>2. CASE Run
    BY <1>1, <2>2, RunIsNext, NextJobsCases, NextVotesMove DEF RestartInv
  <2>3. CASE Crash
    <3>1. CrashJobs
      BY <1>1, <2>3, CrashTypes DEF RestartInv
    <3>2. \/ UNCHANGED disputes
          \/ \E i \in JobIDs, a \in Addrs :
                disputes' = [disputes EXCEPT ![i] = NewDispute(a, "user", currentSlot, TRUE)]
      BY <3>1, Zenon DEF CrashJobs, jobsVars, OpenDisputeAndRevert, AddCommitment
    <3>3. CASE UNCHANGED disputes
      BY <2>1, <3>3, SameVotesMove
    <3>4. ASSUME NEW i \in JobIDs, NEW a \in Addrs,
                 disputes' = [disputes EXCEPT ![i] = NewDispute(a, "user", currentSlot, TRUE)]
          PROVE  VotesMove(disputes[j], disputes'[j])
      BY <1>1, <2>1, <3>4, NewRecordMoves, Zenon
    <3> QED
      BY <3>2, <3>3, <3>4, Zenon
  <2>4. CASE StopsOnly
    BY <2>1, <2>4, SameVotesMove DEF StopsOnly, storeVars, jobsVars
  <2> QED
    BY <1>1, <2>2, <2>3, <2>4, RestartCases
<1>2. ASSUME RestartInv, [RestartNext]_restartVars
      PROVE  \A j \in JobIDs : VotesMove(disputes[j], disputes'[j])
  BY <1>1, <1>2
<1> QED
  BY <1>2, RestartInvariant, PTL DEF RestartSpec, VotersWeighOnce, VotesMove
=============================================================================
