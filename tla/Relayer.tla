------------------------------ MODULE Relayer ------------------------------
(***************************************************************************)
(* cmd/relayer: each relayer polls the chain and sends one checkpoint per  *)
(* epoch to L1.  A poll is cut where it leaves the process: at the answer  *)
(* of the chain's RPC and at the answer of the L1 node's.                  *)
(*                                                                         *)
(*   lastEpoch[r]  the field of the same name, in memory only              *)
(*   fetched[r]    height of the block a poll is working on, 0 if none     *)
(*   pending       the transactions in the L1 mempool                      *)
(*                                                                         *)
(* The hash of a block is the height of that block.  A poll that finds     *)
(* nothing to do, or whose requests fail before they reach L1, changes     *)
(* nothing that lasts.                                                     *)
(***************************************************************************)
EXTENDS Integers, Bags, BagsExt

CONSTANTS Relayers,    \* addresses of the relayers' keys
          EpochSlots,  \* blocks per epoch
          MaxPending   \* bound: transactions in the mempool

ASSUME RelayerAssumption ==
    /\ EpochSlots \in Nat \ {0}
    /\ MaxPending \in Nat

VARIABLES lastEpoch, fetched, pending

relayerVars == <<lastEpoch, fetched, pending>>

RelayerInit ==
    /\ lastEpoch = [r \in Relayers |-> 0]
    /\ fetched = [r \in Relayers |-> 0]
    /\ pending = EmptyBag

EpochOf(h) == h \div EpochSlots

Due_NotStrict(r, height) == EpochOf(height) >= lastEpoch[r]

Due(r, height) == EpochOf(height) # 0 /\ EpochOf(height) > lastEpoch[r]

\* First half of poll: the latest block is of an epoch not yet submitted.
Fetch(r, height) ==
    /\ fetched[r] = 0
    /\ Due(r, height)
    /\ fetched' = [fetched EXCEPT ![r] = height]
    /\ UNCHANGED <<lastEpoch, pending>>

\* A relayer holds one key and sends its own signature only.
CheckpointTx(r, epoch, blockHash) ==
    [sender |-> r, epoch |-> epoch, blockHash |-> blockHash, signers |-> {r}]

Submitted_EpochAtSubmit(r, height) ==
    CheckpointTx(r, EpochOf(height), fetched[r] - 1)

\* The header of a block carries the hash of the block before it.  height is
\* the chain's height by now, which plays no part.
Submitted(r, height) == CheckpointTx(r, EpochOf(fetched[r]), fetched[r] - 1)

\* Second half of poll: the L1 node takes the transaction and its answer
\* arrives.
Submit(r, height) ==
    /\ fetched[r] # 0
    /\ BagCardinality(pending) < MaxPending
    /\ pending' = BagAdd(pending, Submitted(r, height))
    /\ lastEpoch' = [lastEpoch EXCEPT ![r] = EpochOf(fetched[r])]
    /\ fetched' = [fetched EXCEPT ![r] = 0]

\* The transaction is taken but the answer is lost or comes too late: poll
\* returns the error and the next poll submits again.
SubmitNoAnswer(r, height) ==
    /\ fetched[r] # 0
    /\ BagCardinality(pending) < MaxPending
    /\ pending' = BagAdd(pending, Submitted(r, height))
    /\ fetched' = [fetched EXCEPT ![r] = 0]
    /\ UNCHANGED lastEpoch

\* The L1 node refuses the transaction or cannot be reached.
SubmitFails(r) ==
    /\ fetched[r] # 0
    /\ fetched' = [fetched EXCEPT ![r] = 0]
    /\ UNCHANGED <<lastEpoch, pending>>

\* The process stops, at any point of a poll, and is started again.
Restart(r) ==
    /\ lastEpoch[r] # 0 \/ fetched[r] # 0
    /\ lastEpoch' = [lastEpoch EXCEPT ![r] = 0]
    /\ fetched' = [fetched EXCEPT ![r] = 0]
    /\ UNCHANGED pending
=============================================================================
