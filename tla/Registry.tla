------------------------------ MODULE Registry ------------------------------
(***************************************************************************)
(* chain/registry: the models that governance has approved.                *)
(*                                                                         *)
(*   models[m]  the record under "model/<m>"; Status "none" is no record   *)
(*                                                                         *)
(* A vote is taken from any address.  The hashes of a model are left out,  *)
(* and so is the slot of its approval, which nothing reads.  No handler of *)
(* the application calls DeprecateModel.                                   *)
(***************************************************************************)
EXTENDS Integers, Sequences

CONSTANTS Models,            \* model identifiers
          Approvers,         \* addresses that send approval votes
          quorumRequired,    \* votes a model needs, 3 in app.New
          GracePeriodSlots,  \* slots a deprecated model stays valid, 14_400
          Graces             \* grace periods of proposals, 0 for the default

ASSUME RegistryAssumption ==
    {quorumRequired, GracePeriodSlots} \cup Graces \subseteq Nat

VARIABLE models

Model ==
    [Status: {"none", "proposed", "active", "deprecated"}, Votes: Seq(Approvers),
     DeprecatedAtSlot: Nat, GraceSlots: Nat]

NoModel ==
    [Status |-> "none", Votes |-> <<>>, DeprecatedAtSlot |-> 0, GraceSlots |-> 0]

\* A deprecated model may be proposed again, from nothing.
ProposeModel(m, grace) ==
    /\ models[m].Status \in {"none", "deprecated"}
    /\ models' = [models EXCEPT
         ![m] = [NoModel EXCEPT
           !.Status = "proposed",
           !.GraceSlots = IF grace = 0 THEN GracePeriodSlots ELSE grace]]

HasVoted_LastOnly(m, addr) ==
    Len(models[m].Votes) > 0 /\ models[m].Votes[Len(models[m].Votes)] = addr

HasVoted(m, addr) == \E i \in DOMAIN models[m].Votes : models[m].Votes[i] = addr

ApproveModel(m, addr) ==
    /\ models[m].Status = "proposed"
    /\ ~ HasVoted(m, addr)
    /\ LET votes == Append(models[m].Votes, addr)
       IN models' = [models EXCEPT
            ![m].Status = IF Len(votes) >= quorumRequired THEN "active" ELSE @,
            ![m].Votes = votes]

DeprecateModel(m, slot) ==
    /\ models[m].Status # "none"
    /\ models' = [models EXCEPT ![m].Status = "deprecated",
                                ![m].DeprecatedAtSlot = slot]

IsValid(m, slot) ==
    \/ models[m].Status = "active"
    \/ /\ models[m].Status = "deprecated"
       /\ slot <= models[m].DeprecatedAtSlot + models[m].GraceSlots
=============================================================================
