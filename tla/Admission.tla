------------------------------ MODULE Admission ------------------------------
(***************************************************************************)
(* What stands between a user and the job pipeline: chain/app's handlers   *)
(* for models, deposits, subscriptions and job requests.  Of the pipeline  *)
(* only the jobs it has accepted are kept; what happens to them then is    *)
(* module App.                                                             *)
(*                                                                         *)
(* No code calls DeprecateModel and ProcessAutoRenewals.  With             *)
(* CallUncalled the action Uncalled calls them, the first at any time and  *)
(* the second where its comment says, at epoch boundaries; without it the  *)
(* model is the application as it is.                                      *)
(*                                                                         *)
(* The node may die and be started again, as in module Restart: without    *)
(* genesis validators execution begins again at height 1 over the store,   *)
(* in which the last handler may have written its first record and not its *)
(* second.                                                                 *)
(*                                                                         *)
(* quota, unlimited, credit and approved are auxiliary: what a user has    *)
(* bought so far and has left of the deposits, and who has approved a      *)
(* model since it was last proposed.  No action reads them.                *)
(***************************************************************************)
EXTENDS Registry, Subscription, FiniteSetsExt

CONSTANTS JobIDs, NoUser,
          EpochSlots,    \* 14_400
          CallUncalled,  \* whether the two methods without a caller are called
          MaxSlot,       \* bound: the last block height a model reaches
          MaxBalance,    \* bound: deposits stop at this balance
          MaxUsed,       \* bound: uses of one subscription
          MaxRestarts,   \* bound: restarts of the node
          MaxExpiry      \* bound: no renewal beyond this slot

ASSUME AdmissionAssumption ==
    /\ NoUser \notin Users
    /\ IsFiniteSet(JobIDs)
    /\ IsFiniteSet(Plans) /\ Plans # {}
    /\ EpochSlots \in Nat \ {0}
    /\ CallUncalled \in BOOLEAN
    /\ {MaxSlot, MaxBalance, MaxUsed, MaxRestarts, MaxExpiry} \subseteq Nat

VARIABLES currentSlot,  \* height of the block being executed, 0 before the first
          owner,        \* user of each accepted job, NoUser if not accepted
          quota,        \* jobs in all the limited plans a user has bought
          unlimited,    \* users that have bought an unlimited plan
          credit,       \* a user's deposits less the fees of all subscriptions
          approved,     \* addresses that approved a model since its proposal
          restarts      \* how often the node was started again

salesVars == <<quota, unlimited, credit>>

historyVars == <<salesVars, approved>>

vars == <<models, subscriptionVars, currentSlot, owner, historyVars, restarts>>

Init ==
    /\ models = [m \in Models |-> NoModel]
    /\ balance = [u \in Users |-> 0]
    /\ subs = [u \in Users |-> NoSubscription]
    /\ currentSlot = 0
    /\ owner = [j \in JobIDs |-> NoUser]
    /\ quota = [u \in Users |-> 0]
    /\ unlimited = {}
    /\ credit = [u \in Users |-> 0]
    /\ restarts = 0
    /\ approved = [m \in Models |-> {}]

\* The renewed users have bought their plans once more.
SoldAgain(users) ==
    /\ quota' = [u \in Users |->
                   quota[u] + (IF u \in users THEN Limit[subs[u].Plan] ELSE 0)]
    /\ credit' = [u \in Users |->
                    credit[u] - (IF u \in users THEN Fee[subs[u].Plan] ELSE 0)]
    /\ UNCHANGED unlimited

BeginBlock ==
    /\ currentSlot < MaxSlot
    /\ currentSlot' = currentSlot + 1
    /\ UNCHANGED <<models, subscriptionVars, owner, historyVars, restarts>>

AtEpochBoundary == currentSlot > 0 /\ currentSlot % EpochSlots = 0

autoRenewals ==
    /\ AtEpochBoundary
    /\ ProcessAutoRenewals(currentSlot)
    /\ SoldAgain(Renewed(currentSlot))
    /\ UNCHANGED <<models, owner, approved>>

deprecateModel(m) ==
    /\ DeprecateModel(m, currentSlot)
    /\ UNCHANGED <<subscriptionVars, owner, historyVars>>

handleProposeModel(m, grace) ==
    /\ ProposeModel(m, grace)
    /\ approved' = [approved EXCEPT ![m] = {}]
    /\ UNCHANGED <<subscriptionVars, owner, salesVars>>

handleApproveModel(m, addr) ==
    /\ ApproveModel(m, addr)
    /\ approved' = [approved EXCEPT ![m] = @ \cup {addr}]
    /\ UNCHANGED <<subscriptionVars, owner, salesVars>>

handleDeposit(u, amount) ==
    /\ balance[u] + amount <= MaxBalance
    /\ Deposit(u, amount)
    /\ credit' = [credit EXCEPT ![u] = @ + amount]
    /\ UNCHANGED <<models, owner, quota, unlimited, approved>>

handleSubscribe(u, plan, autoRenew) ==
    /\ RenewalStart(u, currentSlot) + SubscriptionDurationSlots <= MaxExpiry
    /\ Subscribe(u, plan, autoRenew, currentSlot)
    /\ quota' = [quota EXCEPT ![u] = @ + Limit[plan]]
    /\ unlimited' = IF Limit[plan] = 0 THEN unlimited \cup {u} ELSE unlimited
    /\ credit' = [credit EXCEPT ![u] = @ - Fee[plan]]
    /\ UNCHANGED <<models, owner, approved>>

handleCancelSubscription(u) ==
    /\ CancelAutoRenew(u)
    /\ UNCHANGED <<models, owner, historyVars>>

\* The job is consumed from the quota before jobs.Commit looks whether the
\* identifier is taken.
handleJobRequest(u, m, j) ==
    /\ subs[u].JobsUsed < MaxUsed
    /\ IsValid(m, currentSlot)
    /\ ConsumeJob(u, currentSlot)
    /\ owner' = IF owner[j] = NoUser THEN [owner EXCEPT ![j] = u] ELSE owner
    /\ UNCHANGED <<models, historyVars>>

DeliverTx ==
    /\ currentSlot > 0
    /\ \/ \E m \in Models, grace \in Graces : handleProposeModel(m, grace)
       \/ \E m \in Models, a \in Approvers : handleApproveModel(m, a)
       \/ \E u \in Users, amount \in Deposits : handleDeposit(u, amount)
       \/ \E u \in Users, p \in Plans, r \in BOOLEAN : handleSubscribe(u, p, r)
       \/ \E u \in Users : handleCancelSubscription(u)
       \/ \E u \in Users, m \in Models, j \in JobIDs : handleJobRequest(u, m, j)
    /\ UNCHANGED <<currentSlot, restarts>>

\* The calls that the application does not make.
Uncalled ==
    /\ CallUncalled
    /\ currentSlot > 0
    /\ autoRenewals \/ \E m \in Models : deprecateModel(m)
    /\ UNCHANGED <<currentSlot, restarts>>

\* The fee is taken, the subscription is not written.
TornSubscribe(u, plan) ==
    /\ currentSlot > 0
    /\ Affordable(u, plan)
    /\ balance' = [balance EXCEPT ![u] = @ - Fee[plan]]
    /\ UNCHANGED <<subs, salesVars>>

\* The quota is used, the job is not written.
TornJobRequest(u, m) ==
    /\ currentSlot > 0
    /\ subs[u].JobsUsed < MaxUsed
    /\ IsValid(m, currentSlot)
    /\ ConsumeJob(u, currentSlot)
    /\ UNCHANGED salesVars

\* Some users are renewed, of one the fee is taken only.
TornRenewals ==
    /\ CallUncalled
    /\ AtEpochBoundary
    /\ \E charged \in SUBSET toRenew(currentSlot) : \E written \in SUBSET charged :
         /\ Cardinality(charged \ written) <= 1
         /\ Renew(charged, written, currentSlot)
         /\ SoldAgain(written \cap Renewed(currentSlot))

Crash ==
    /\ restarts < MaxRestarts
    /\ restarts' = restarts + 1
    /\ currentSlot' = 0
    /\ \/ UNCHANGED <<subscriptionVars, salesVars>>
       \/ \E u \in Users, p \in Plans : TornSubscribe(u, p)
       \/ \E u \in Users, m \in Models : TornJobRequest(u, m)
       \/ TornRenewals
    /\ UNCHANGED <<models, owner, approved>>

Next == BeginBlock \/ DeliverTx \/ Uncalled \/ Crash

Spec == Init /\ [][Next]_vars

-----------------------------------------------------------------------------
\* Every variable has the shape its Go type and the store give it.
TypeOK ==
    /\ models \in [Models -> Model]
    /\ balance \in [Users -> Nat]
    /\ subs \in [Users -> SubscriptionRecord]
    /\ currentSlot \in 0 .. MaxSlot
    /\ owner \in [JobIDs -> Users \cup {NoUser}]
    /\ quota \in [Users -> Nat]
    /\ unlimited \subseteq Users
    /\ credit \in [Users -> Nat]
    /\ restarts \in 0 .. MaxRestarts
    /\ approved \in [Models -> SUBSET Approvers]

JobsOf(u) == {j \in JobIDs : owner[j] = u}

\* A user who never bought an unlimited plan has at most as many jobs accepted
\* as the plans they paid for allow, over all renewals, replacements and
\* restarts: no order of ConsumeJob and Subscribe lets a job through twice on
\* one payment.
JobsArePaidFor ==
    \A u \in Users \ unlimited : Cardinality(JobsOf(u)) <= quota[u]

\* A deposit is spent on subscriptions or still in the balance, but for at most
\* one fee a crash: Subscribe writes the balance before the subscription.
CrashCostsOneFee ==
    \A u \in Users :
       /\ balance[u] <= credit[u]
       /\ credit[u] <= balance[u] + restarts * Max({Fee[p] : p \in Plans})

\* A model is active only when quorumRequired different addresses have approved
\* it since it was last proposed: neither a repeated vote nor a vote from before
\* a deprecation counts.
ActiveModelHasQuorum ==
    \A m \in Models : models[m].Status = "active" =>
       Cardinality(approved[m]) >= quorumRequired

\* Were ProcessAutoRenewals called where its comment says, it would charge only
\* users whose paid period is over, and each of them would have an active
\* subscription at once.
RenewalBuysService ==
    [][\A u \in Users :
          autoRenewals /\ UNCHANGED currentSlot /\ balance'[u] < balance[u] =>
             /\ ~ IsActive(u, currentSlot)
             /\ IsActive(u, currentSlot)']_vars

-----------------------------------------------------------------------------
\* subscription.go:74 "renewal starts when current expires", subscription.go:96
\* "sub remains active until expiry": whatever the user does within a block, a
\* subscription that is active in that block stays active.
SubscriptionStaysActive ==
    [][\A u \in Users :
          IsActive(u, currentSlot) /\ currentSlot' = currentSlot =>
             IsActive(u, currentSlot)']_vars
=============================================================================
