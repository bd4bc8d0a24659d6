-------------------------------- MODULE App --------------------------------
(***************************************************************************)
(* chain/app: the ABCI application, which composes the modules.            *)
(*                                                                         *)
(* FinalizeBlock runs to completion in one goroutine.  It is cut into the  *)
(* iterations of its loops, and phase says where it stands:                *)
(*                                                                         *)
(*   "genesis"  InitChain is registering the genesis validators            *)
(*   "idle"     between two blocks                                         *)
(*   "unbond"   in ProcessMatureUnbondings                                 *)
(*   "drain"    in the loop of endEpoch                                    *)
(*   "tally"    in TallyExpiredDisputes                                    *)
(*   "txs"      in the loop over the transactions of the block             *)
(*                                                                         *)
(* A block carries any transactions in any order; a transaction a handler  *)
(* rejects changes nothing.  Whether a job request passes the registry and *)
(* the subscription check is left open here.                               *)
(***************************************************************************)
EXTENDS Slashing, Rewards, Vrf, FiniteSets

CONSTANTS StakeCap,     \* bound: (un)delegation stops at this stake above
          StakeFloor,   \* bound: and at this stake below
          MaxObserved   \* bound: attestations per validator and epoch

ASSUME AppAssumption ==
    /\ StakeCap \in Nat
    /\ StakeFloor \in Int
    /\ MaxObserved \in Nat
    /\ IsFiniteSet(JobIDs)
    /\ IsFiniteSet(Addrs)

VARIABLES phase,       \* where FinalizeBlock stands
          genesisQ,    \* genesis validators still to register
          activeVals,  \* addresses of the active validators at block start
          server,      \* serving validator elected for the slot
          drainQ       \* validators the loop of endEpoch has still to visit

appVars == <<currentSlot, phase, genesisQ, activeVals, server, drainQ>>

vars == <<stakingVars, jobsVars, slashingVars, stats, appVars>>

Phases == {"genesis", "idle", "unbond", "drain", "tally", "txs"}

\* An empty store, and the application New makes over it.
Fresh ==
    /\ val = [a \in Addrs |-> NoValidator]
    /\ ub = {}
    /\ total_stake = 0
    /\ released = 0
    /\ toDelete = {}
    /\ JobsInit
    /\ tallyQ = {}
    /\ tallyStake = 0
    /\ tallyEvents = {}
    /\ RewardsInit
    /\ currentSlot = 0
    /\ phase = "genesis"
    /\ activeVals = {}
    /\ server = NoServer
    /\ drainQ = {}

Init == Fresh /\ genesisQ = {a \in Addrs : GenesisBond[a] > 0}

-----------------------------------------------------------------------------
InitChain_SkipsRegistered ==
    /\ phase = "genesis"
    /\ \/ \E a \in genesisQ :
            /\ IF a \in Registered THEN UNCHANGED stakingVars
                                  ELSE RegisterValidator(a, GenesisBond[a])
            /\ genesisQ' = genesisQ \ {a}
            /\ UNCHANGED phase
       \/ /\ genesisQ = {}
          /\ phase' = "idle"
          /\ UNCHANGED <<stakingVars, genesisQ>>
    /\ UNCHANGED <<jobsVars, slashingVars, stats,
                   currentSlot, activeVals, server, drainQ>>

\* One iteration of the loop of InitChain, and its end.
InitChain ==
    /\ phase = "genesis"
    /\ \/ \E a \in genesisQ :
            /\ RegisterValidator(a, GenesisBond[a])
            /\ genesisQ' = genesisQ \ {a}
            /\ UNCHANGED phase
       \/ /\ genesisQ = {}
          /\ phase' = "idle"
          /\ UNCHANGED <<stakingVars, genesisQ>>
    /\ UNCHANGED <<jobsVars, slashingVars, stats,
                   currentSlot, activeVals, server, drainQ>>

BeginBlock ==
    /\ phase = "idle"
    /\ currentSlot < MaxSlot
    /\ currentSlot' = currentSlot + 1
    /\ activeVals' = ListActive
    /\ \E r \in Elections(ListActive) : server' = r[2]
    /\ phase' = "unbond"
    /\ UNCHANGED <<stakingVars, jobsVars, slashingVars, stats, genesisQ, drainQ>>

ProcessMatureUnbondings ==
    /\ phase = "unbond"
    /\ \/ /\ \E e \in ub : ScanUnbonding(e, currentSlot)
          /\ UNCHANGED <<phase, drainQ>>
       \/ /\ ReleaseUnbondings(currentSlot)
          /\ phase' = "drain"
          /\ drainQ' = IF currentSlot % EpochSlots = 0 THEN activeVals ELSE {}
    /\ UNCHANGED <<jobsVars, slashingVars, stats,
                   currentSlot, genesisQ, activeVals, server>>

DrainBPS(idle) ==
    LET excess == idle - InactivityThresholdEpochs
        bps == (excess * excess * 100) \div 1000
    IN IF bps > 10000 THEN 10000 ELSE bps

\* One iteration of the loop of endEpoch.  Nothing wrote the validator's record
\* since activeVals was read, so the record stands for the copy in activeVals.
EndEpoch ==
    /\ phase = "drain"
    /\ \E a \in drainQ :
         LET idle == currentEpoch - 1 - val[a].LastActiveEpoch
         IN /\ drainQ' = drainQ \ {a}
            /\ IF idle >= InactivityThresholdEpochs /\ val[a].Bond > 0
               THEN SlashBond(a, DrainBPS(idle))
               ELSE UNCHANGED stakingVars
    /\ UNCHANGED <<jobsVars, slashingVars, stats,
                   currentSlot, phase, genesisQ, activeVals, server>>

BeginTally ==
    /\ phase = "drain"
    /\ drainQ = {}
    /\ StartTally(currentSlot)
    /\ phase' = "tally"
    /\ UNCHANGED <<stakingVars, jobsVars, stats,
                   currentSlot, genesisQ, activeVals, server, drainQ>>

TallyExpiredDisputes ==
    /\ phase = "tally"
    /\ \E j \in tallyQ : TallyDispute(j)
    /\ UNCHANGED <<stats, appVars>>

\* The slash events the tally returned are recorded in the current epoch.
RecordTally ==
    /\ phase = "tally"
    /\ tallyQ = {}
    /\ LET count == [a \in Servers |->
                      Cardinality({j \in tallyEvents :
                                     disputes[j].ServingValidator = a})]
       IN RecordSlashes(count, currentEpoch)
    /\ tallyEvents' = {}
    /\ phase' = "txs"
    /\ UNCHANGED <<stakingVars, jobsVars, tallyQ, tallyStake,
                   currentSlot, genesisQ, activeVals, server, drainQ>>

EndBlock ==
    /\ phase = "txs"
    /\ FinaliseSlot(currentSlot)
    /\ IncrementMissed({jobs[j].Server : j \in MissedJobs(currentSlot)})
    /\ phase' = "idle"
    /\ UNCHANGED <<slashingVars, stats,
                   currentSlot, genesisQ, activeVals, server, drainQ>>

-----------------------------------------------------------------------------
(* The transaction handlers that deliverTx dispatches to.                  *)

handleJobRequest(j) ==
    /\ Commit(j, currentSlot, server)
    /\ UNCHANGED <<stakingVars, stats>>

handleReveal(j) ==
    /\ Reveal(j)
    /\ UNCHANGED <<stakingVars, stats>>

handleCommitment(j, addr, output) ==
    /\ AddCommitment(j, addr, output)
    /\ ResetMissed(addr, currentEpoch)
    /\ RecordJobServed(addr, currentEpoch)

handleDispute(j, addr, plaintext) ==
    /\ ProcessUserDispute(j, addr, plaintext, currentSlot)
    /\ LET count == [a \in Servers |-> IF a = addr THEN 1 ELSE 0]
       IN RecordSlashes(count, currentEpoch)

handleObserverDispute(j, observer) ==
    /\ ProcessObserverDispute(j, observer, currentSlot)
    /\ UNCHANGED stats

handleDisputeVote(j, voter, vote) ==
    /\ CastDisputeVote(j, voter, vote)
    /\ UNCHANGED stats

handleProtocolAttestation(a, e) ==
    /\ stats[a][e].JobsObserved < MaxObserved
    /\ RecordJobObserved(a, e)
    /\ UNCHANGED <<stakingVars, jobsVars>>

handleRegisterValidator(a, bond) ==
    /\ RegisterValidator(a, bond)
    /\ UNCHANGED <<jobsVars, stats>>

handleDelegate(a, amount) ==
    /\ total_stake + amount \in StakeFloor .. StakeCap
    /\ Delegate(a, amount)
    /\ UNCHANGED <<jobsVars, stats>>

handleUndelegate(d, a, amount) ==
    /\ val[a].TotalStake - amount \in StakeFloor .. StakeCap
    /\ Undelegate(d, a, amount, currentSlot)
    /\ UNCHANGED <<jobsVars, stats>>

handleUnjail(a) ==
    /\ Unjail(a)
    /\ UNCHANGED <<jobsVars, stats>>

JobTx ==
    \E j \in JobIDs :
       \/ handleJobRequest(j)
       \/ handleReveal(j)
       \/ \E a \in Servers, o \in Outputs : handleCommitment(j, a, o)
       \/ \E a \in Servers, o \in Outputs : handleDispute(j, a, o)
       \/ \E a \in Addrs : handleObserverDispute(j, a)
       \/ \E a \in Addrs, v \in {"uphold", "dismiss"} : handleDisputeVote(j, a, v)

StakingTx ==
    \E a \in Addrs :
       \/ \E bond \in Bonds : handleRegisterValidator(a, bond)
       \/ \E amount \in Amounts, d \in Delegators : handleDelegate(a, amount)
       \/ \E amount \in Amounts, d \in Delegators : handleUndelegate(d, a, amount)
       \/ handleUnjail(a)

RewardsTx == \E a \in Addrs, e \in Epochs : handleProtocolAttestation(a, e)

DeliverTx ==
    /\ phase = "txs"
    /\ JobTx \/ StakingTx \/ RewardsTx
    /\ UNCHANGED <<slashingVars, appVars>>

\* bound: after the block at MaxSlot the model stops.
Halt ==
    /\ phase = "idle"
    /\ currentSlot = MaxSlot
    /\ UNCHANGED vars

Next ==
    \/ InitChain
    \/ BeginBlock
    \/ ProcessMatureUnbondings
    \/ EndEpoch
    \/ BeginTally
    \/ TallyExpiredDisputes
    \/ RecordTally
    \/ DeliverTx
    \/ EndBlock
    \/ Halt

Spec == Init /\ [][Next]_vars

\* Everything FinalizeBlock does by itself once it was called.
BlockStep ==
    \/ ProcessMatureUnbondings
    \/ EndEpoch
    \/ BeginTally
    \/ TallyExpiredDisputes
    \/ RecordTally
    \/ EndBlock
=============================================================================
