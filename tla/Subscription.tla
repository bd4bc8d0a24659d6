---------------------------- MODULE Subscription ----------------------------
(***************************************************************************)
(* chain/modules/subscription: balances, paid plans and their job quota.   *)
(*                                                                         *)
(*   balance[u]  the balance under "acct/<u>"; no account reads as zero,   *)
(*               since both make Subscribe fail                            *)
(*   subs[u]     the record under "sub/<u>"; Plan NoPlan is no record      *)
(*                                                                         *)
(* ProcessAutoRenewals, the only reader of AutoRenew, has no caller.       *)
(***************************************************************************)
EXTENDS Integers

CONSTANTS Users,                      \* user addresses
          Plans, NoPlan,              \* plan names
          Fee,                        \* fee of each plan
          Limit,                      \* job quota of each plan, 0 is unlimited
          SubscriptionDurationSlots,  \* 30 * EpochSlots
          Deposits                    \* amounts a deposit may carry

ASSUME SubscriptionAssumption ==
    /\ NoPlan \notin Plans
    /\ Fee \in [Plans -> Nat \ {0}]
    /\ Limit \in [Plans -> Nat]
    /\ SubscriptionDurationSlots \in Nat \ {0}
    /\ Deposits \subseteq Nat \ {0}

VARIABLES balance, subs

subscriptionVars == <<balance, subs>>

SubscriptionRecord ==
    [Plan: Plans \cup {NoPlan}, StartSlot: Nat, ExpiresSlot: Nat,
     JobsUsed: Nat, JobsLimit: Nat, AutoRenew: BOOLEAN]

NoSubscription ==
    [Plan |-> NoPlan, StartSlot |-> 0, ExpiresSlot |-> 0,
     JobsUsed |-> 0, JobsLimit |-> 0, AutoRenew |-> FALSE]

Deposit_Replaces(u, amount) ==
    /\ balance' = [balance EXCEPT ![u] = amount]
    /\ UNCHANGED subs

Deposit(u, amount) ==
    /\ balance' = [balance EXCEPT ![u] = @ + amount]
    /\ UNCHANGED subs

\* A renewal before the expiry starts at the expiry.
RenewalStart(u, slot) ==
    IF subs[u].ExpiresSlot > slot THEN subs[u].ExpiresSlot ELSE slot

Affordable_Always(u, plan) == TRUE

Affordable(u, plan) == balance[u] >= Fee[plan]

NewSubscription(u, plan, autoRenew, slot) ==
    LET start == RenewalStart(u, slot)
    IN [Plan |-> plan, StartSlot |-> start,
        ExpiresSlot |-> start + SubscriptionDurationSlots,
        JobsUsed |-> 0, JobsLimit |-> Limit[plan], AutoRenew |-> autoRenew]

Subscribe(u, plan, autoRenew, slot) ==
    /\ Affordable(u, plan)
    /\ balance' = [balance EXCEPT ![u] = @ - Fee[plan]]
    /\ subs' = [subs EXCEPT ![u] = NewSubscription(u, plan, autoRenew, slot)]

CancelAutoRenew(u) ==
    /\ subs[u].Plan # NoPlan
    /\ subs' = [subs EXCEPT ![u].AutoRenew = FALSE]
    /\ UNCHANGED balance

IsActive(u, slot) ==
    /\ subs[u].Plan # NoPlan
    /\ slot >= subs[u].StartSlot
    /\ slot < subs[u].ExpiresSlot

QuotaLeft_OneMore(u) ==
    subs[u].JobsLimit > 0 => subs[u].JobsUsed <= subs[u].JobsLimit

QuotaLeft(u) ==
    subs[u].JobsLimit > 0 => subs[u].JobsUsed < subs[u].JobsLimit

ConsumeJob(u, slot) ==
    /\ IsActive(u, slot)
    /\ QuotaLeft(u)
    /\ subs' = [subs EXCEPT ![u].JobsUsed = @ + 1]
    /\ UNCHANGED balance

toRenew_OneSlotEarly(slot) ==
    {u \in Users : subs[u].AutoRenew /\ slot + 1 >= subs[u].ExpiresSlot}

toRenew(slot) ==
    {u \in Users : subs[u].AutoRenew /\ slot >= subs[u].ExpiresSlot}

Renewed(slot) == {u \in toRenew(slot) : Affordable(u, subs[u].Plan)}

\* The renewals of toRenew as far as the charged users' balances and the written
\* users' subscriptions: renewed, or without AutoRenew when the balance does not
\* cover the fee.
Renew(charged, written, slot) ==
    /\ balance' = [u \in Users |->
                     IF u \in charged \cap Renewed(slot)
                     THEN balance[u] - Fee[subs[u].Plan] ELSE balance[u]]
    /\ subs' = [u \in Users |->
                  CASE u \in written \cap Renewed(slot) ->
                         NewSubscription(u, subs[u].Plan, TRUE, slot)
                    [] u \in written \ Renewed(slot) ->
                         [subs[u] EXCEPT !.AutoRenew = FALSE]
                    [] OTHER -> subs[u]]

ProcessAutoRenewals(slot) == Renew(toRenew(slot), toRenew(slot), slot)
=============================================================================
