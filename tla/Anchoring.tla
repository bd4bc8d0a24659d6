------------------------------ MODULE Anchoring ------------------------------
(***************************************************************************)
(* The chain, its relayers, the L1 mempool and the L1 contract together.   *)
(* Of the chain only the height is kept.  The owner of the contract adds   *)
(* and removes relayers and changes the quorum while relayers run.         *)
(***************************************************************************)
EXTENDS CheckpointAnchor, Relayer

CONSTANTS InitialRelayers, InitialQuorum,  \* arguments of the constructor
          Managed,    \* relayers the owner adds and removes
          Quorums,    \* quorums the owner sets
          L1MayDrop,  \* whether L1 loses transactions
          MaxHeight   \* bound: the last block

ASSUME AnchoringAssumption ==
    /\ InitialRelayers \subseteq Relayers
    /\ Managed \subseteq Relayers
    /\ InitialQuorum \in Nat
    /\ Quorums \subseteq Nat
    /\ L1MayDrop \in BOOLEAN
    /\ MaxHeight \in Nat

VARIABLE height   \* height of the chain's latest block

vars == <<contractVars, relayerVars, height>>

Init ==
    /\ constructor(InitialRelayers, InitialQuorum)
    /\ RelayerInit
    /\ height = 0

NewBlock ==
    /\ height < MaxHeight
    /\ height' = height + 1
    /\ UNCHANGED <<contractVars, relayerVars>>

poll(r) ==
    /\ \/ Fetch(r, height)
       \/ Submit(r, height)
       \/ SubmitNoAnswer(r, height)
       \/ SubmitFails(r)
    /\ UNCHANGED <<contractVars, height>>

restart(r) ==
    /\ Restart(r)
    /\ UNCHANGED <<contractVars, height>>

LeavesMempool(tx) ==
    /\ pending' = BagRemove(pending, tx)
    /\ UNCHANGED <<lastEpoch, fetched, height>>

\* An L1 block executes the transaction; transactions execute in any order.
Execute(tx) ==
    /\ submitCheckpoint(tx.sender, tx.epoch, tx.blockHash, tx.signers)
    /\ LeavesMempool(tx)

Revert(tx) ==
    /\ ~ Accepted(tx.sender, tx.epoch, tx.signers)
    /\ LeavesMempool(tx)
    /\ UNCHANGED contractVars

\* L1 may drop a transaction it has taken.
Drop(tx) ==
    /\ L1MayDrop
    /\ LeavesMempool(tx)
    /\ UNCHANGED contractVars

Owner ==
    /\ \/ \E r \in Managed : addRelayer(r) \/ removeRelayer(r)
       \/ \E q \in Quorums : setQuorum(q)
    /\ UNCHANGED <<relayerVars, height>>

Next ==
    \/ NewBlock
    \/ \E r \in Relayers : poll(r) \/ restart(r)
    \/ \E tx \in BagToSet(pending) : Execute(tx) \/ Revert(tx) \/ Drop(tx)
    \/ Owner

Spec == Init /\ [][Next]_vars

\* The chain makes blocks, a relayer's loop keeps polling and its requests are
\* answered again and again, and L1 executes what it has taken.
Fairness ==
    /\ WF_vars(NewBlock)
    /\ \A r \in Relayers :
          /\ WF_vars(Fetch(r, height) /\ UNCHANGED <<contractVars, height>>)
          /\ SF_vars(Submit(r, height) /\ UNCHANGED <<contractVars, height>>)
    /\ WF_vars(\E tx \in BagToSet(pending) : Execute(tx) \/ Revert(tx))

FairSpec == Spec /\ Fairness

-----------------------------------------------------------------------------
Epochs == 1 .. EpochOf(MaxHeight)

BlockHashes == 0 .. MaxHeight

CheckpointTxs ==
    [sender: Relayers, epoch: Epochs, blockHash: BlockHashes,
     signers: SUBSET Relayers]

\* Every variable has the shape its declaration gives it.
TypeOK ==
    /\ DOMAIN checkpoints \subseteq Epochs
    /\ \A e \in DOMAIN checkpoints : checkpoints[e] \in BlockHashes
    /\ latestEpoch \in Epochs \cup {0}
    /\ isRelayer \subseteq Relayers
    /\ quorumRequired \in Nat
    /\ lastEpoch \in [Relayers -> Epochs \cup {0}]
    /\ fetched \in [Relayers -> 0 .. MaxHeight]
    /\ BagToSet(pending) \subseteq CheckpointTxs
    /\ height \in 0 .. MaxHeight

\* The block whose hash is anchored for an epoch is the parent of a block of
\* that epoch, however late, often or out of order the relayers' polls and
\* transactions are: submitCheckpoint takes the hash on trust.
AnchoredBlockIsOfEpoch ==
    \A e \in DOMAIN checkpoints : EpochOf(checkpoints[e] + 1) = e

\* What is written was signed by members of the relayer set of that moment, as
\* many as the quorum of that moment asks for: a transaction that waits in the
\* mempool while the owner removes its signer or raises the quorum anchors
\* nothing.
AnchoredUnderCurrentQuorum ==
    [][\A e \in DOMAIN checkpoints' \ DOMAIN checkpoints :
          \E tx \in BagToSet(pending) :
             /\ tx.epoch = e
             /\ tx.blockHash = checkpoints'[e]
             /\ tx.signers \subseteq isRelayer
             /\ MeetsQuorum(tx.signers)]_vars

Log == INSTANCE CheckpointLog WITH log <- checkpoints

\* The contract is an append-only log without gaps: two relayers, duplicates,
\* restarts, owner calls and reordering never change or skip an entry
\* (CheckpointAnchor.sol:20 "Checkpoints are append-only (cannot overwrite a
\* finalised epoch)").
ImplementsLog == Log!Spec

-----------------------------------------------------------------------------
\* README.md:18 "Every epoch (~24 hours, 14 400 slots) a checkpoint is anchored
\* to an EVM L1 contract": the contract catches up with every epoch the chain
\* reaches.
EveryEpochIsAnchored ==
    \A e \in Epochs : EpochOf(height) >= e ~> latestEpoch >= e
=============================================================================
