------------------------------ MODULE Slashing ------------------------------
(***************************************************************************)
(* chain/modules/slashing: the handler that moves stake and jobs together. *)
(* It has no store of its own.  TallyExpiredDisputes is a loop over the    *)
(* expired disputes, taken one dispute a step; its local variables are     *)
(*                                                                         *)
(*   tallyQ       the disputes the loop has still to visit                 *)
(*   tallyStake   the total stake, read once before the loop               *)
(*   tallyEvents  the jobs of the slash events collected so far            *)
(*                                                                         *)
(* The loop visits disputes in key order; here in any order.               *)
(***************************************************************************)
EXTENDS Staking, Jobs

VARIABLES tallyQ, tallyStake, tallyEvents

slashingVars == <<tallyQ, tallyStake, tallyEvents>>

ProcessUserDispute(j, addr, plaintext, slot) ==
    /\ jobs[j].Commitment # NoCommitment
    /\ jobs[j].Commitment.ValidatorAddr = addr
    /\ addr \in Registered
    /\ plaintext # jobs[j].Commitment.OutputHash
    /\ SlashBond(addr, SlashMalicious)
    /\ OpenDisputeAndRevert(j, addr, "user", slot)

ProcessObserverDispute(j, observer, slot) ==
    /\ jobs[j].Commitment # NoCommitment
    /\ observer \in ListActive
    /\ observer # jobs[j].Server
    /\ OpenDispute(j, jobs[j].Server, "observer", slot)
    /\ UNCHANGED stakingVars

\* The weight of a vote is the voter's stake when the vote is cast.
CastDisputeVote(j, voter, vote) ==
    /\ voter \in ListActive
    /\ CastVote(j, voter, vote, val[voter].TotalStake)
    /\ UNCHANGED stakingVars

-----------------------------------------------------------------------------
Upheld(j) == disputes[j].VotesUphold > VoteThreshold(tallyStake)

\* The reads before the loop; a network without stake tallies nothing.
StartTally(slot) ==
    /\ tallyStake' = total_stake
    /\ tallyQ' = IF total_stake = 0 THEN {} ELSE ListOpenDisputes(slot)
    /\ tallyEvents' = {}

\* One iteration.  An upheld dispute whose server has no validator record
\* makes SlashBond fail: the loop is left and the events are dropped.
TallyDispute(j) ==
    /\ j \in tallyQ
    /\ UNCHANGED tallyStake
    /\ LET server == disputes[j].ServingValidator
       IN \/ /\ ~ Upheld(j)
             /\ ResolveDispute(j)
             /\ tallyQ' = tallyQ \ {j}
             /\ UNCHANGED <<stakingVars, jobs, tallyEvents>>
          \/ /\ Upheld(j)
             /\ server \in Registered
             /\ SlashBond(server, SlashMismatch)
             /\ RevertJob(j)
             /\ ResolveDispute(j)
             /\ tallyQ' = tallyQ \ {j}
             /\ tallyEvents' = tallyEvents \cup {j}
          \/ /\ Upheld(j)
             /\ server \notin Registered
             /\ tallyQ' = {}
             /\ tallyEvents' = {}
             /\ UNCHANGED <<stakingVars, jobsVars>>
=============================================================================
