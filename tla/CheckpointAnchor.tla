-------------------------- MODULE CheckpointAnchor --------------------------
(***************************************************************************)
(* contracts/src/CheckpointAnchor.sol: the L1 contract.                    *)
(*                                                                         *)
(*   checkpoints  block hash of each epoch whose submittedAt is not zero   *)
(*   isRelayer    the addresses mapped to true                             *)
(*                                                                         *)
(* A transaction that reverts changes nothing, so every revert is a guard. *)
(* A signature is the pair of its signer and the checkpoint; a submission  *)
(* carries the set of its signers, which is what the check for an          *)
(* ascending list amounts to.  The validator set hash, which the relayer   *)
(* computes from the epoch, and the unused list relayers are left out.     *)
(***************************************************************************)
EXTENDS Integers, FiniteSets

VARIABLES checkpoints, latestEpoch, isRelayer, quorumRequired

contractVars == <<checkpoints, latestEpoch, isRelayer, quorumRequired>>

constructor(relayers, quorum) ==
    /\ checkpoints = [e \in {} |-> 0]
    /\ latestEpoch = 0
    /\ isRelayer = relayers
    /\ quorumRequired = quorum

EpochAccepted_NotOlder(epoch) == epoch >= latestEpoch

EpochAccepted(epoch) ==
    /\ epoch \notin DOMAIN checkpoints
    /\ latestEpoch # 0 => epoch = latestEpoch + 1

MeetsQuorum(signers) == Cardinality(signers) >= quorumRequired

verifyRelayerSignatures_NotCounted(signers) == signers \subseteq isRelayer

verifyRelayerSignatures(signers) ==
    /\ MeetsQuorum(signers)
    /\ signers \subseteq isRelayer

Accepted(sender, epoch, signers) ==
    /\ sender \in isRelayer
    /\ EpochAccepted(epoch)
    /\ verifyRelayerSignatures(signers)

submitCheckpoint(sender, epoch, blockHash, signers) ==
    /\ Accepted(sender, epoch, signers)
    /\ checkpoints' = [e \in DOMAIN checkpoints \cup {epoch} |->
                         IF e = epoch THEN blockHash ELSE checkpoints[e]]
    /\ latestEpoch' = epoch
    /\ UNCHANGED <<isRelayer, quorumRequired>>

addRelayer(relayer) ==
    /\ relayer \notin isRelayer
    /\ isRelayer' = isRelayer \cup {relayer}
    /\ UNCHANGED <<checkpoints, latestEpoch, quorumRequired>>

removeRelayer(relayer) ==
    /\ relayer \in isRelayer
    /\ isRelayer' = isRelayer \ {relayer}
    /\ UNCHANGED <<checkpoints, latestEpoch, quorumRequired>>

setQuorum(newQuorum) ==
    /\ quorumRequired' = newQuorum
    /\ UNCHANGED <<checkpoints, latestEpoch, isRelayer>>
=============================================================================
