------------------------------ MODULE Restart ------------------------------
(***************************************************************************)
(* The node process dying and being started again (cmd/bigt, runNode).     *)
(*                                                                         *)
(* The application keeps no height: Info always answers 0, so after every  *)
(* start consensus calls InitChain and then FinalizeBlock from height 1,   *)
(* over the store as the last process left it.  A process can die at every *)
(* step of FinalizeBlock and between the writes of one handler: each Torn  *)
(* action is the store after a proper prefix of a handler's writes, in the *)
(* order of the code.  A lost tail of unsynced writes leaves such a store  *)
(* as well.                                                                *)
(*                                                                         *)
(*   genesis   the validators the genesis document names                   *)
(*   restarts  how often the process was started again                     *)
(*   txs       how many transactions changed the store so far              *)
(*                                                                         *)
(* The blocks executed again carry any transactions, those of the first    *)
(* execution among them.  phase "down": InitChain failed, the process left *)
(* with an error.                                                          *)
(***************************************************************************)
EXTENDS AppProperties

CONSTANTS MaxRestarts,  \* bound: restarts
          MaxTxs,       \* bound: transactions
          LastTxSlot    \* bound: the last height of a block with transactions

ASSUME RestartAssumption ==
    /\ MaxRestarts \in Nat
    /\ MaxTxs \in Nat
    /\ LastTxSlot \in Nat

VARIABLES genesis, restarts, txs

storeVars == <<val, ub, total_stake, jobsVars, stats>>

RestartInit ==
    /\ Fresh
    /\ genesis \in {{}, {a \in Addrs : GenesisBond[a] > 0}}
    /\ genesisQ = genesis
    /\ restarts = 0
    /\ txs = 0

\* What the process held in memory is gone; New, Info, and InitChain begins.
Start ==
    /\ restarts < MaxRestarts
    /\ restarts' = restarts + 1
    /\ phase' = "genesis"
    /\ genesisQ' = genesis
    /\ currentSlot' = 0
    /\ activeVals' = {}
    /\ server' = NoServer
    /\ drainQ' = {}
    /\ tallyQ' = {}
    /\ tallyStake' = 0
    /\ tallyEvents' = {}
    /\ released' = 0
    /\ toDelete' = {}
    /\ UNCHANGED <<genesis, txs>>

\* RegisterValidator finds a record of the address: InitChain returns the
\* error, NewNode fails and runNode returns.
InitChainFails ==
    /\ phase = "genesis"
    /\ \E a \in genesisQ : a \in Registered
    /\ phase' = "down"
    /\ UNCHANGED <<storeVars, released, toDelete, slashingVars, currentSlot,
                   genesisQ, activeVals, server, drainQ,
                   genesis, restarts, txs>>

-----------------------------------------------------------------------------
(* Prefixes of the writes of one handler.                                  *)

\* Staking puts the validator's record first, then the total stake or the
\* unbonding record.
PutValidator(a, v) ==
    /\ val' = [val EXCEPT ![a] = v]
    /\ UNCHANGED <<ub, total_stake, jobsVars, stats>>

TornGenesis ==
    /\ phase = "genesis"
    /\ \E a \in genesisQ \ Registered : PutValidator(a, NewValidator(GenesisBond[a]))

TornRegister(a) ==
    /\ a \notin Registered
    /\ \E bond \in Bonds :
         /\ bond >= MinStake
         /\ TotalSupply > 0 => bond * 100 <= TotalSupply * MaxValidatorPct
         /\ PutValidator(a, NewValidator(bond))

TornDelegate(a) ==
    /\ a \in ListActive
    /\ \E amount \in Amounts :
         /\ total_stake + amount \in StakeFloor .. StakeCap
         /\ PutValidator(a, [val[a] EXCEPT !.TotalStake = @ + amount])

TornUndelegate(a) ==
    /\ a \in Registered
    /\ \E amount \in Amounts :
         /\ val[a].TotalStake - amount \in StakeFloor .. StakeCap
         /\ PutValidator(a, [val[a] EXCEPT !.TotalStake = @ - amount])

TornDrain ==
    /\ phase = "drain"
    /\ \E a \in drainQ :
         LET idle == currentEpoch - 1 - val[a].LastActiveEpoch
         IN /\ idle >= InactivityThresholdEpochs /\ val[a].Bond > 0
            /\ PutValidator(a, Slashed(val[a], DrainBPS(idle)))

\* The batch of deletions, before the total stake is lowered.
TornRelease ==
    /\ phase = "unbond"
    /\ Mature(currentSlot) \subseteq toDelete
    /\ ub' = ub \ toDelete
    /\ UNCHANGED <<val, total_stake, jobsVars, stats>>

\* SlashBond's record and total, then RevertJob, cut after n writes;
\* ResolveDispute is missing.
TornVisit(j, n) ==
    LET a == disputes[j].ServingValidator
    IN /\ Upheld(j)
       /\ a \in Registered
       /\ val' = [val EXCEPT ![a] = Slashed(@, SlashMismatch)]
       /\ total_stake' =
            total_stake
              - (IF n >= 2 THEN SlashAmount(val[a].Bond, SlashMismatch) ELSE 0)
       /\ IF n >= 3 THEN RevertJob(j) ELSE UNCHANGED jobs

TornTally ==
    /\ phase = "tally"
    /\ \E j \in tallyQ, n \in 1 .. 3 : TornVisit(j, n)
    /\ UNCHANGED <<ub, disputes, stats>>

\* Some of the events of the tally are counted, one of them perhaps as a slash
\* and not yet as a reverted block.
TornRecord ==
    /\ phase = "tally"
    /\ tallyQ = {}
    /\ \E done \in SUBSET tallyEvents, half \in SUBSET tallyEvents :
         /\ done \cap half = {}
         /\ Cardinality(half) <= 1
         /\ LET Count(J, a) ==
                  Cardinality({j \in J : disputes[j].ServingValidator = a})
            IN stats' = [a \in Servers |->
                 [stats[a] EXCEPT
                    ![currentEpoch].JobsSlashed = @ + Count(done \cup half, a),
                    ![currentEpoch].BlocksReverted = @ + Count(done, a)]]
    /\ UNCHANGED <<val, ub, total_stake, jobsVars>>

\* SlashBond's two writes, the job disputed, the dispute record, the job
\* reverted, the slash counted, cut after n writes; the reverted block is missing.
TornDispute(j, a, n) ==
    /\ jobs[j].Commitment # NoCommitment
    /\ jobs[j].Commitment.ValidatorAddr = a
    /\ a \in Registered
    /\ \E o \in Outputs : o # jobs[j].Commitment.OutputHash
    /\ val' = [val EXCEPT ![a] = Slashed(@, SlashMalicious)]
    /\ total_stake' =
         total_stake
           - (IF n >= 2 THEN SlashAmount(val[a].Bond, SlashMalicious) ELSE 0)
    /\ CASE n < 3 -> UNCHANGED jobs
         [] n \in 3 .. 4 -> jobs' = [jobs EXCEPT ![j].State = "disputed"]
         [] OTHER -> RevertJob(j)
    /\ disputes' = IF n < 4 THEN disputes
                   ELSE [disputes EXCEPT
                           ![j] = NewDispute(a, "user", currentSlot, TRUE)]
    /\ stats' = IF n < 6 THEN stats
                ELSE [stats EXCEPT ![a][currentEpoch].JobsSlashed = @ + 1]
    /\ UNCHANGED ub

TornUserDispute(j, a) == \E n \in 1 .. 6 : TornDispute(j, a, n)

\* The job is disputed, the dispute record is missing.
TornObserverDispute(j) ==
    /\ \E observer \in ListActive : observer # jobs[j].Server
    /\ jobs[j].Commitment # NoCommitment
    /\ jobs' = [jobs EXCEPT ![j].State = "disputed"]
    /\ UNCHANGED <<val, ub, total_stake, disputes, stats>>

\* The job is served; the server's record may be written, the counter is not.
TornCommitment(j, a) ==
    /\ \E o \in Outputs : AddCommitment(j, a, o)
    /\ ResetMissed(a, currentEpoch) \/ UNCHANGED <<val, ub, total_stake>>
    /\ UNCHANGED stats

\* Some of the missed jobs are failed, or all of them and some servers counted.
TornSweep ==
    /\ phase = "txs"
    /\ \E failed \in SUBSET MissedJobs(currentSlot) :
         /\ jobs' = [j \in JobIDs |->
                       IF j \in failed THEN [jobs[j] EXCEPT !.State = "failed"]
                                       ELSE jobs[j]]
         /\ \E missed \in SUBSET {jobs[j].Server : j \in failed} :
              /\ missed # {} => failed = MissedJobs(currentSlot)
              /\ IncrementMissed(missed)
    /\ UNCHANGED <<disputes, stats>>

TxAllowed == phase = "txs" /\ txs < MaxTxs /\ currentSlot <= LastTxSlot

TornTx ==
    /\ TxAllowed
    /\ \/ \E a \in Addrs : TornRegister(a) \/ TornDelegate(a) \/ TornUndelegate(a)
       \/ \E j \in JobIDs, a \in Servers : TornUserDispute(j, a) \/ TornCommitment(j, a)
       \/ \E j \in JobIDs : TornObserverDispute(j)

Crash ==
    /\ phase # "down"
    /\ Start
    /\ \/ UNCHANGED storeVars
       \/ TornGenesis
       \/ TornRelease
       \/ TornDrain
       \/ TornTally
       \/ TornRecord
       \/ TornTx
       \/ TornSweep

restartVars == <<vars, genesis, restarts, txs>>

\* A step of the running application.
Run ==
    /\ \/ (InitChain \/ BeginBlock \/ BlockStep \/ Halt) /\ UNCHANGED txs
       \/ TxAllowed /\ DeliverTx /\ txs' = txs + 1
    /\ UNCHANGED <<genesis, restarts>>

\* bound: a node that is down is left so.
Down == phase = "down" /\ UNCHANGED restartVars

RestartNext == Run \/ InitChainFails \/ Crash \/ Down

RestartSpec == RestartInit /\ [][RestartNext]_restartVars

-----------------------------------------------------------------------------
\* A chain whose genesis document names validators executes its first block on
\* the genesis state alone: over a store that holds anything more InitChain
\* fails, and no block is executed a second time.
FirstBlockFollowsGenesis ==
    (genesis # {} /\ phase = "idle" /\ currentSlot = 0) =>
       /\ val = [a \in Addrs |-> IF a \in genesis THEN NewValidator(GenesisBond[a])
                                                  ELSE NoValidator]
       /\ total_stake = SumFunctionOnSet(GenesisBond, genesis)
       /\ ub = {}
       /\ JobsInit
       /\ RewardsInit

\* How far a crash may move the surplus: by the one bond, amount or slash whose
\* second record is missing, or by what the scan had released.
CrashDrift(d) ==
    \/ d = 0
    \/ phase = "genesis" /\ \E a \in genesis : d = - GenesisBond[a]
    \/ phase = "unbond" /\ d = released
    \/ phase \in {"drain", "tally", "txs"} /\ \E a \in Addrs : d \in 0 .. val[a].Bond
    \/ phase = "txs" /\ \E x \in Bonds : d = - x
    \/ phase = "txs" /\ \E x \in Amounts : d \in {x, - x}

\* A crash parts the total stake from the stake it is the sum of by one operation
\* at most, whichever of its two records was written first; the restart and the
\* blocks executed again move them as the first execution did, so the gap neither
\* closes nor grows by itself.
DriftOnlyByCrash ==
    [][\/ StakeStepAccounted
       \/ restarts' = restarts + 1 /\ CrashDrift(Surplus' - Surplus)]_restartVars

\* No crash and no re-execution counts a reverted job against its server twice:
\* a slash cut short before the counters is lost, and one that is applied again
\* was not counted before.
SlashesNeverCountedTwice ==
    \A a \in Addrs :
       /\ SlashesCounted(a) + Cardinality(PendingSlashes(a))
             <= Cardinality(RevertedJobs(a))
       /\ \A e \in Epochs : stats[a][e].BlocksReverted <= stats[a][e].JobsSlashed
=============================================================================
