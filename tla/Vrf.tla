-------------------------------- MODULE Vrf --------------------------------
(***************************************************************************)
(* chain/modules/vrf: the election of a slot's proposer and server.        *)
(*                                                                         *)
(* ElectSlot is the code's election for given hashes.  The hash of a slot  *)
(* is keccak over a seed no transaction chooses, so the application is     *)
(* modelled with Elections, every outcome some hashes give.                *)
(***************************************************************************)
EXTENDS ChainTypes

\* The order of the sort: the lower hash first, the higher stake on a tie.
Before(p, q) == p.Hash < q.Hash \/ (p.Hash = q.Hash /\ p.Stake > q.Stake)

First(proofs) == CHOOSE p \in proofs : \A q \in proofs : ~ Before(q, p)

Proofs(hash, validators) ==
    {[ValidatorAddr |-> v.Address, Hash |-> hash[v.Address], Stake |-> v.TotalStake] :
       v \in {w \in validators : w.Status = "active"}}

ElectSlot_ServerIsProposer(hash, validators) ==
    LET proofs == Proofs(hash, validators)
    IN IF proofs = {}
       THEN <<NoServer, NoServer>>
       ELSE <<First(proofs).ValidatorAddr, First(proofs).ValidatorAddr>>

ElectSlot(hash, validators) ==
    LET proofs == Proofs(hash, validators)
        proposer == First(proofs)
        others == proofs \ {proposer}
    IN IF proofs = {}
       THEN <<NoServer, NoServer>>
       ELSE <<proposer.ValidatorAddr,
              IF others = {} THEN proposer.ValidatorAddr
                             ELSE First(others).ValidatorAddr>>

\* Two of the active validators, or the only one twice.
Elections(active) ==
    IF active = {}
    THEN {<<NoServer, NoServer>>}
    ELSE {r \in active \X active : r[1] # r[2] \/ active = {r[1]}}
=============================================================================
