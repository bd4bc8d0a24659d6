------------------------------ MODULE Calldata ------------------------------
(***************************************************************************)
(* The call the relayer's HTTPSubmitter sends: encodeSubmitCheckpoint of   *)
(* cmd/relayer, and what CheckpointAnchor.submitCheckpoint reads back.     *)
(*                                                                         *)
(* Calldata is a sequence of 32-byte words, the selector left out, and     *)
(* every offset counts words.  A word is a tuple: <<"num", n>> for a       *)
(* number, a hash, a half of a signature, or <<"v", n>> for n in its first *)
(* byte.  The contract's decoder is the one the Solidity compiler makes: a *)
(* dynamic array lies at its offset from the head, and an element of       *)
(* bytes[] at its own offset from the word after the array's length.       *)
(***************************************************************************)
EXTENDS Checkpoint, Functions

CONSTANTS IsRelayer,      \* the addresses the contract lists as relayers
          QuorumRequired  \* the contract's quorum

Num(n) == <<"num", n>>

\* 65 bytes, padded to 96.
SigWords(sig) == <<Num(65), sig[1], sig[2], <<"v", sig[3]>>>>

\* The places the signers come from once they are in ascending order.
Order(signers) ==
    CHOOSE p \in Bijection(DOMAIN signers, DOMAIN signers) :
       \A i, j \in DOMAIN signers : i < j => signers[p[i]] <= signers[p[j]]

\* The signers and their signatures, sorted together.
Paired_SignersOnly(signers, sigs) ==
    [i \in DOMAIN signers |-> [addr |-> signers[Order(signers)[i]], sig |-> sigs[i]]]

Paired(signers, sigs) ==
    LET p == Order(signers)
    IN [i \in DOMAIN signers |-> [addr |-> signers[p[i]], sig |-> sigs[p[i]]]]

\* Where the head says the two arrays begin, and where an array of n elements
\* says element i begins.
SignersOffset == 5

SigsOffset(n) == 5 + (1 + n)

SubOffset(n, i) == (1 + n) + (i - 1) * (1 + 3)

\* An empty sequence stands for the error.
encodeSubmitCheckpoint(cp, signers, sigs) ==
    LET n == Len(signers)
        paired == Paired(signers, sigs)
    IN IF n # Len(sigs)
       THEN <<>>
       ELSE <<Num(cp.Epoch), cp.BlockHash, cp.ValidatorSetHash,
              Num(SignersOffset), Num(SigsOffset(n))>>
            \o <<Num(n)>> \o [i \in 1 .. n |-> Num(paired[i].addr)]
            \o <<Num(n)>> \o [i \in 1 .. n |-> Num(SubOffset(n, i))]
            \o [k \in 1 .. 4 * n |->
                  SigWords(paired[1 + ((k - 1) \div 4)].sig)[1 + ((k - 1) % 4)]]

-----------------------------------------------------------------------------
(* The contract's side.                                                    *)

\* Word i from 0; calldata reads as zeros past its end.
Word(data, i) == IF i < Len(data) THEN data[i + 1] ELSE Num(0)

DecodedCheckpoint(data) == New(Word(data, 0)[2], Word(data, 1), Word(data, 2))

DecodedSigners(data) ==
    LET at == Word(data, 3)[2]
    IN [i \in 1 .. Word(data, at)[2] |-> Word(data, at + i)[2]]

\* The words of signatures[i], from its length word on.
SignatureAt(data, i) ==
    LET base == Word(data, 4)[2] + 1
        at == base + Word(data, base + i - 1)[2]
    IN [k \in 1 .. 4 |-> Word(data, at + k - 1)]

splitSignature(sig) == [v |-> sig[4], r |-> sig[2], s |-> sig[3]]

\* ecrecover of signature i, once its length and the place of v are right.
Recovered(data, i) ==
    LET sig == SignatureAt(data, i)
        parts == splitSignature(sig)
    IN IF sig[1] = Num(65) /\ parts.v[1] = "v"
       THEN RecoverCompact(<<parts.v[2], parts.r, parts.s>>,
                           EthSignHash(Hash(DecodedCheckpoint(data))))
       ELSE 0

verifyRelayerSignatures(data) ==
    LET signers == DecodedSigners(data)
    IN /\ Len(signers) = Word(data, Word(data, 4)[2])[2]
       /\ Len(signers) >= QuorumRequired
       /\ \A i \in DOMAIN signers :
             /\ i > 1 => signers[i - 1] < signers[i]
             /\ signers[i] \in IsRelayer
             /\ Recovered(data, i) = signers[i]
=============================================================================
