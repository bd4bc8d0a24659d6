----------------------------- MODULE ChainTypes -----------------------------
(***************************************************************************)
(* The protocol parameters of chain/types/types.go and the block height    *)
(* that every module of the application is handed.                         *)
(*                                                                         *)
(* Rates are the code's.  Amounts and window lengths are CONSTANTS, so     *)
(* that a small instance can give them small values; the code's value is   *)
(* in the comment.                                                         *)
(***************************************************************************)
EXTENDS Integers

CONSTANTS
    MinStake,         \* 5_000_000_000 uBIGT
    TotalSupply,      \* the supply the genesis document names
    Int64Max,         \* 2^63 - 1, the largest int64
    EpochSlots,       \* 14_400
    UnbondingEpochs,  \* 21
    DisputeWindow,    \* 7
    VoteWindow,       \* 3
    Addrs,            \* validator addresses
    NoServer,         \* "", the server of a slot with no active validator
    MaxSlot           \* bound: the last block height a model reaches

ASSUME TypesAssumption ==
    /\ MinStake \in Nat \ {0}
    /\ TotalSupply \in Nat
    /\ Int64Max \in Nat
    /\ EpochSlots \in Nat \ {0}
    /\ UnbondingEpochs \in Nat \ {0}
    /\ DisputeWindow \in Nat
    /\ VoteWindow \in Nat
    /\ NoServer \notin Addrs
    /\ MaxSlot \in Nat

MaxValidatorPct == 5
SlashMismatch == 1000
SlashMalicious == 10000
InactivityThresholdEpochs == 4
DisputeVoteThresholdBPS == 6667

\* What an int64 holds of the integer x, and Go's division, which rounds to 0.
Int64(x) ==
    ((x + (Int64Max + 1)) % (2 * (Int64Max + 1))) - (Int64Max + 1)

Quot(x, n) == IF x >= 0 THEN x \div n ELSE - ((- x) \div n)

VoteThreshold_DivideFirst(stake) ==
    Quot(stake, 10000) * DisputeVoteThresholdBPS

\* The uphold votes a dispute must exceed, computed in int64.
VoteThreshold(stake) == Quot(Int64(stake * DisputeVoteThresholdBPS), 10000)

Servers == Addrs \cup {NoServer}

VARIABLE currentSlot  \* height of the block being executed, 0 before the first

EpochOf(slot) == slot \div EpochSlots

currentEpoch == EpochOf(currentSlot)

Epochs == 0 .. EpochOf(MaxSlot)
=============================================================================
