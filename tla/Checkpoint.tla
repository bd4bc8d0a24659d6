----------------------------- MODULE Checkpoint -----------------------------
(***************************************************************************)
(* chain/modules/checkpoint: what a relayer signs and how the signature is *)
(* laid out.                                                               *)
(*                                                                         *)
(* keccak is taken to be injective, so a hash is a tuple of what went in,  *)
(* tagged with its prefix.  The halves r and s of a signature are tagged   *)
(* words; the third part, v, is RecoveryCode of the key.                   *)
(***************************************************************************)
EXTENDS Integers, Sequences

CONSTANTS Keys,          \* the relayers' private keys
          Address,       \* Address[k], a number: addresses are ordered
          RecoveryCode   \* RecoveryCode[k] \in {27, 28}

ASSUME CheckpointAssumption ==
    /\ Address \in [Keys -> Nat \ {0}]
    /\ \A k, l \in Keys : Address[k] = Address[l] => k = l
    /\ RecoveryCode \in [Keys -> {27, 28}]

New(epoch, blockHash, validatorSetHash) ==
    [Epoch |-> epoch, BlockHash |-> blockHash, ValidatorSetHash |-> validatorSetHash]

Hash(cp) == <<"BIGT Checkpoint", cp.Epoch, cp.BlockHash, cp.ValidatorSetHash>>

EthSignHash(cpHash) == <<"Ethereum Signed Message", cpHash>>

AddressFromPrivKey(key) == Address[key]

\* The signature library's [v || r || s], and the address a signature and a
\* hash give: 0, no relayer's address, when no relayer signed that hash so.
SignCompact(key, hash) ==
    <<RecoveryCode[key], <<"r", key, hash>>, <<"s", key, hash>>>>

RecoverCompact(compact, hash) ==
    IF \E k \in Keys : SignCompact(k, hash) = compact
    THEN Address[CHOOSE k \in Keys : SignCompact(k, hash) = compact]
    ELSE 0

Sign_Rotated(cp, key) ==
    LET compact == SignCompact(key, EthSignHash(Hash(cp)))
    IN <<compact[3], compact[2], compact[1]>>

\* Reordered to [r || s || v].
Sign(cp, key) ==
    LET compact == SignCompact(key, EthSignHash(Hash(cp)))
    IN <<compact[2], compact[3], compact[1]>>

RecoverSigner(cp, sig) ==
    RecoverCompact(<<sig[3], sig[1], sig[2]>>, EthSignHash(Hash(cp)))
=============================================================================
