-------------------------------- MODULE Jobs --------------------------------
(***************************************************************************)
(* chain/modules/jobs: job records and dispute records.                    *)
(*                                                                         *)
(*   jobs[j]      the record under "job/<j>"; State "none" is no record    *)
(*   disputes[j]  the record under "dispute/<j>"; DisputeType "none" is no *)
(*                record                                                   *)
(*                                                                         *)
(* An output stands for its hash (keccak256 over output, job and the       *)
(* server's key), taken to be collision free.  The prompt, its hash and    *)
(* the request parameters are left out: a reveal with the wrong prompt is  *)
(* rejected and changes nothing.  So are a dispute's disputer and its      *)
(* Immediate flag, which nothing reads back.                               *)
(***************************************************************************)
EXTENDS ChainTypes

CONSTANTS JobIDs,        \* job identifiers
          Outputs,       \* outputs a validator may commit to
          NoCommitment   \* the nil commitment

OutputCommitment == [ValidatorAddr: Servers, OutputHash: Outputs]

ASSUME JobsAssumption == NoCommitment \notin OutputCommitment

VARIABLES jobs, disputes

jobsVars == <<jobs, disputes>>

JobStates == {"none", "committed", "revealed", "served", "disputed",
              "reverted", "failed"}

Job == [State: JobStates, Slot: Nat, Server: Servers,
        Commitment: OutputCommitment \cup {NoCommitment}]

NoJob == [State |-> "none", Slot |-> 0, Server |-> NoServer,
          Commitment |-> NoCommitment]

DisputeRecord ==
    [DisputeType: {"none", "user", "observer"}, ServingValidator: Servers,
     ExpiresAtSlot: Nat, VoteDeadline: Nat, Resolved: BOOLEAN,
     VotesUphold: Int, VotesDismiss: Int, Voters: SUBSET Addrs]

NewDispute_NeverResolved(server, type, slot, immediate) ==
    [DisputeType |-> type, ServingValidator |-> server,
     ExpiresAtSlot |-> slot + DisputeWindow,
     VoteDeadline |-> slot + DisputeWindow + VoteWindow,
     Resolved |-> FALSE,
     VotesUphold |-> 0, VotesDismiss |-> 0, Voters |-> {}]

NewDispute(server, type, slot, immediate) ==
    [DisputeType |-> type, ServingValidator |-> server,
     ExpiresAtSlot |-> slot + DisputeWindow,
     VoteDeadline |-> slot + DisputeWindow + VoteWindow,
     Resolved |-> immediate,
     VotesUphold |-> 0, VotesDismiss |-> 0, Voters |-> {}]

NoDispute == [NewDispute(NoServer, "none", 0, TRUE) EXCEPT
                !.ExpiresAtSlot = 0, !.VoteDeadline = 0]

JobsInit ==
    /\ jobs = [j \in JobIDs |-> NoJob]
    /\ disputes = [j \in JobIDs |-> NoDispute]

-----------------------------------------------------------------------------
Commit_OverEarlier(j, slot, server) ==
    /\ jobs[j].State \in {"none", "failed"}
    /\ jobs' = [jobs EXCEPT ![j] = [State |-> "committed", Slot |-> slot,
                                    Server |-> server,
                                    Commitment |-> NoCommitment]]
    /\ UNCHANGED disputes

Commit(j, slot, server) ==
    /\ jobs[j].State = "none"
    /\ jobs' = [jobs EXCEPT ![j] = [State |-> "committed", Slot |-> slot,
                                    Server |-> server,
                                    Commitment |-> NoCommitment]]
    /\ UNCHANGED disputes

Reveal(j) ==
    /\ jobs[j].State = "committed"
    /\ jobs' = [jobs EXCEPT ![j].State = "revealed"]
    /\ UNCHANGED disputes

AddCommitment(j, addr, output) ==
    /\ jobs[j].State = "revealed"
    /\ addr = jobs[j].Server
    /\ jobs[j].Commitment = NoCommitment
    /\ jobs' = [jobs EXCEPT ![j].Commitment = [ValidatorAddr |-> addr,
                                               OutputHash |-> output],
                            ![j].State = "served"]
    /\ UNCHANGED disputes

MissedJobs_AnyState(slot) ==
    {j \in JobIDs : /\ jobs[j].State # "none"
                    /\ jobs[j].Slot = slot
                    /\ jobs[j].Commitment = NoCommitment}

\* The revealed jobs of the slot that carry no commitment.
MissedJobs(slot) ==
    {j \in JobIDs : /\ jobs[j].State = "revealed"
                    /\ jobs[j].Slot = slot
                    /\ jobs[j].Commitment = NoCommitment}

FinaliseSlot(slot) ==
    /\ jobs' = [j \in JobIDs |->
                  IF j \in MissedJobs(slot)
                  THEN [jobs[j] EXCEPT !.State = "failed"]
                  ELSE jobs[j]]
    /\ UNCHANGED disputes

\* The new record is written over any earlier record of the job.
OpenDispute(j, server, type, slot) ==
    /\ jobs' = [jobs EXCEPT ![j].State = "disputed"]
    /\ disputes' = [disputes EXCEPT ![j] = NewDispute(server, type, slot, FALSE)]

OpenDisputeAndRevert_VoteLeftOpen(j, server, type, slot) ==
    /\ jobs' = [jobs EXCEPT ![j].State = "reverted",
                            ![j].Commitment = NoCommitment]
    /\ UNCHANGED disputes

\* OpenDispute with immediate = true, and the RevertJob that follows it.
OpenDisputeAndRevert(j, server, type, slot) ==
    /\ jobs' = [jobs EXCEPT ![j].State = "reverted",
                            ![j].Commitment = NoCommitment]
    /\ disputes' = [disputes EXCEPT ![j] = NewDispute(server, type, slot, TRUE)]

CastVote_Repeated(j, voter, vote, stake) ==
    /\ disputes[j].DisputeType # "none"
    /\ ~ disputes[j].Resolved
    /\ disputes' = [disputes EXCEPT
         ![j].Voters = @ \cup {voter},
         ![j].VotesUphold = IF vote = "uphold" THEN @ + stake ELSE @,
         ![j].VotesDismiss = IF vote = "dismiss" THEN @ + stake ELSE @]
    /\ UNCHANGED jobs

CastVote(j, voter, vote, stake) ==
    /\ disputes[j].DisputeType # "none"
    /\ ~ disputes[j].Resolved
    /\ voter \notin disputes[j].Voters
    /\ disputes' = [disputes EXCEPT
         ![j].Voters = @ \cup {voter},
         ![j].VotesUphold = IF vote = "uphold" THEN @ + stake ELSE @,
         ![j].VotesDismiss = IF vote = "dismiss" THEN @ + stake ELSE @]
    /\ UNCHANGED jobs

ResolveDispute(j) ==
    disputes' = [disputes EXCEPT ![j].Resolved = TRUE]

RevertJob_KeepsCommitment(j) ==
    jobs' = [jobs EXCEPT ![j].State = "reverted"]

RevertJob(j) ==
    jobs' = [jobs EXCEPT ![j].State = "reverted",
                         ![j].Commitment = NoCommitment]

IsOpen(j) == disputes[j].DisputeType # "none" /\ ~ disputes[j].Resolved

ListOpenDisputes_OneSlotLate(slot) ==
    {j \in JobIDs : IsOpen(j) /\ slot > disputes[j].VoteDeadline}

ListOpenDisputes(slot) ==
    {j \in JobIDs : IsOpen(j) /\ slot >= disputes[j].VoteDeadline}
=============================================================================
