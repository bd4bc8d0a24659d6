------------------------------ MODULE Staking ------------------------------
(***************************************************************************)
(* chain/modules/staking: validator records, the unbonding queue and the   *)
(* network's total stake.  One action per method that writes the store; a  *)
(* call the method rejects changes nothing and is a stuttering step.       *)
(*                                                                         *)
(*   val[a]       the record under "val/<a>"; Status "none" is no record   *)
(*   ub           the records under "ub/<mature>/<delegator>/<validator>"  *)
(*   total_stake  the value under "total_stake"                            *)
(*                                                                         *)
(* ProcessMatureUnbondings is a loop, taken one record a step: toDelete    *)
(* and released are its local variables.                                   *)
(***************************************************************************)
EXTENDS ChainTypes

CONSTANTS Delegators,  \* delegator addresses
          Bonds,       \* bonds a registration may carry
          Amounts,     \* amounts a delegation or undelegation may carry; the
                       \* code does not look at their sign
          GenesisBond  \* bond of each genesis validator, 0 for the others

ASSUME StakingAssumption ==
    /\ Bonds \subseteq Int
    /\ Amounts \subseteq Int
    /\ GenesisBond \in [Addrs -> Nat]
    /\ \A a \in Addrs :
          GenesisBond[a] > 0 =>
             /\ GenesisBond[a] >= MinStake
             /\ TotalSupply > 0 =>
                  GenesisBond[a] * 100 <= TotalSupply * MaxValidatorPct

VARIABLES val, ub, total_stake, released, toDelete

stakingVars == <<val, ub, total_stake, released, toDelete>>

Statuses == {"none", "active", "jailed"}

Validator ==
    [Status: Statuses, Bond: Nat, TotalStake: Int,
     ConsecutiveMissed: Nat, LastActiveEpoch: Nat]

UnbondingEntry ==
    [MatureSlot: Nat, DelegatorAddr: Delegators, ValidatorAddr: Addrs,
     Amount: Int]

ubKey(e) == <<e.MatureSlot, e.DelegatorAddr, e.ValidatorAddr>>

NewValidator(bond) ==
    [Status |-> "active", Bond |-> bond, TotalStake |-> bond,
     ConsecutiveMissed |-> 0, LastActiveEpoch |-> 0]

NoValidator == [NewValidator(0) EXCEPT !.Status = "none"]

Registered == {a \in Addrs : val[a].Status # "none"}

ListActive == {a \in Addrs : val[a].Status = "active"}

-----------------------------------------------------------------------------
RegisterValidator(a, bond) ==
    /\ bond >= MinStake
    /\ TotalSupply > 0 => bond * 100 <= TotalSupply * MaxValidatorPct
    /\ a \notin Registered
    /\ val' = [val EXCEPT ![a] = NewValidator(bond)]
    /\ total_stake' = total_stake + bond
    /\ UNCHANGED <<ub, released, toDelete>>

Delegate_TotalNotRaised(a, amount) ==
    /\ a \in Registered
    /\ val[a].Status # "jailed"
    /\ val' = [val EXCEPT ![a].TotalStake = @ + amount]
    /\ UNCHANGED <<ub, total_stake, released, toDelete>>

Delegate(a, amount) ==
    /\ a \in Registered
    /\ val[a].Status # "jailed"
    /\ val' = [val EXCEPT ![a].TotalStake = @ + amount]
    /\ total_stake' = total_stake + amount
    /\ UNCHANGED <<ub, released, toDelete>>

\* The record is written over any record with the same key.
Undelegate(d, a, amount, slot) ==
    LET entry == [MatureSlot |-> slot + UnbondingEpochs * EpochSlots,
                  DelegatorAddr |-> d, ValidatorAddr |-> a, Amount |-> amount]
    IN /\ a \in Registered
       /\ val' = [val EXCEPT ![a].TotalStake = @ - amount]
       /\ ub' = {e \in ub : ubKey(e) # ubKey(entry)} \cup {entry}
       /\ UNCHANGED <<total_stake, released, toDelete>>

Mature_OneSlotLate(slot) == {e \in ub : e.MatureSlot < slot}

Mature_OneSlotEarly(slot) == {e \in ub : e.MatureSlot <= slot + 1}

Mature(slot) == {e \in ub : e.MatureSlot <= slot}

\* The Scan callback of ProcessMatureUnbondings.
ScanUnbonding(e, slot) ==
    /\ e \in Mature(slot) \ toDelete
    /\ released' = released + e.Amount
    /\ toDelete' = toDelete \cup {e}
    /\ UNCHANGED <<val, ub, total_stake>>

\* What ProcessMatureUnbondings does once the scan is over.
ReleaseUnbondings(slot) ==
    /\ Mature(slot) \subseteq toDelete
    /\ ub' = ub \ toDelete
    /\ total_stake' = IF released > 0 THEN total_stake - released
                                      ELSE total_stake
    /\ released' = 0
    /\ toDelete' = {}
    /\ UNCHANGED val

Unjail_NoBondCheck(a) ==
    /\ val[a].Status = "jailed"
    /\ val' = [val EXCEPT ![a].Status = "active", ![a].ConsecutiveMissed = 0]
    /\ UNCHANGED <<ub, total_stake, released, toDelete>>

\* A validator below MinStake gets an error and stays jailed.
Unjail(a) ==
    /\ val[a].Status = "jailed"
    /\ val' = IF val[a].Bond < MinStake
              THEN val
              ELSE [val EXCEPT ![a].Status = "active",
                               ![a].ConsecutiveMissed = 0]
    /\ UNCHANGED <<ub, total_stake, released, toDelete>>

SlashAmount_PerMille(bond, bps) == (bond * bps) \div 1000

SlashAmount(bond, bps) ==
    LET amount == (bond * bps) \div 10000
    IN IF amount > bond THEN bond ELSE amount

Slashed_JailsAtMinStake(v, bps) ==
    LET amount == SlashAmount(v.Bond, bps)
    IN [v EXCEPT !.Bond = @ - amount,
                 !.TotalStake = @ - amount,
                 !.Status = IF v.Bond - amount <= MinStake THEN "jailed" ELSE @]

Slashed(v, bps) ==
    LET amount == SlashAmount(v.Bond, bps)
    IN [v EXCEPT !.Bond = @ - amount,
                 !.TotalStake = @ - amount,
                 !.Status = IF v.Bond - amount < MinStake THEN "jailed" ELSE @]

SlashBond(a, bps) ==
    /\ a \in Registered
    /\ val' = [val EXCEPT ![a] = Slashed(@, bps)]
    /\ total_stake' = total_stake - SlashAmount(val[a].Bond, bps)
    /\ UNCHANGED <<ub, released, toDelete>>

\* IncrementMissed for every server in missed; an address without a record
\* only produces a log line.
IncrementMissed(missed) ==
    /\ val' = [a \in Addrs |->
                 IF a \in missed \cap Registered
                 THEN [val[a] EXCEPT !.ConsecutiveMissed = @ + 1]
                 ELSE val[a]]
    /\ UNCHANGED <<ub, total_stake, released, toDelete>>

ResetMissed_EpochNotKept(a, epoch) ==
    /\ val' = IF a \in Registered
              THEN [val EXCEPT ![a].ConsecutiveMissed = 0]
              ELSE val
    /\ UNCHANGED <<ub, total_stake, released, toDelete>>

\* An address without a record only produces a log line.
ResetMissed(a, epoch) ==
    /\ val' = IF a \in Registered
              THEN [val EXCEPT ![a].ConsecutiveMissed = 0,
                               ![a].LastActiveEpoch = epoch]
              ELSE val
    /\ UNCHANGED <<ub, total_stake, released, toDelete>>
=============================================================================
