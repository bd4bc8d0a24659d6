-------------------------- MODULE AdmissionProofs --------------------------
(***************************************************************************)
(* The admission of jobs, for every number of users, models, plans, jobs   *)
(* and restarts.                                                           *)
(***************************************************************************)
EXTENDS Admission, SumTheorems

MaxFee == Max({Fee[p] : p \in Plans})

\* A subscription with a plan has the plan's limit; without one it is empty,
\* and nothing renews it.  Who has an unlimited plan has bought one.
MatchesPlan(u) ==
    /\ subs[u].Plan = NoPlan =>
          /\ subs[u].JobsLimit = 0 /\ subs[u].JobsUsed = 0
          /\ ~ subs[u].AutoRenew
    /\ subs[u].Plan # NoPlan =>
          /\ subs[u].JobsLimit = Limit[subs[u].Plan]
          /\ Limit[subs[u].Plan] = 0 => u \in unlimited

\* Jobs accepted and jobs left of the present subscription are within what was
\* bought.
RestIsPaidFor(u) ==
    u \notin unlimited =>
       /\ subs[u].JobsUsed <= subs[u].JobsLimit
       /\ Cardinality(JobsOf(u)) + subs[u].JobsLimit - subs[u].JobsUsed <= quota[u]

FeesAreSpent(u) ==
    /\ balance[u] <= credit[u]
    /\ credit[u] <= balance[u] + restarts * MaxFee

UserOK(u) == MatchesPlan(u) /\ RestIsPaidFor(u) /\ FeesAreSpent(u)

\* The recorded votes are those of the different addresses that approved.
VotesAreApprovals(m) ==
    /\ approved[m] = {models[m].Votes[i] : i \in DOMAIN models[m].Votes}
    /\ IsFiniteSet(approved[m])
    /\ Cardinality(approved[m]) = Len(models[m].Votes)
    /\ models[m].Status = "active" => Len(models[m].Votes) >= quorumRequired

ModelsType ==
    /\ models \in [Models -> Model]
    /\ approved \in [Models -> SUBSET Approvers]

UsersType ==
    /\ balance \in [Users -> Nat]
    /\ subs \in [Users -> SubscriptionRecord]
    /\ quota \in [Users -> Nat]
    /\ unlimited \subseteq Users
    /\ credit \in [Users -> Nat]
    /\ owner \in [JobIDs -> Users \cup {NoUser}]

ModelsInv == ModelsType /\ \A m \in Models : VotesAreApprovals(m)

UsersInv == UsersType /\ \A u \in Users : UserOK(u)

\* The inductive invariant.
AdmissionInv ==
    /\ ModelsInv
    /\ UsersInv
    /\ currentSlot \in 0 .. MaxSlot
    /\ restarts \in 0 .. MaxRestarts

-----------------------------------------------------------------------------
(* Models                                                                  *)

\* A proposal starts its model without votes.
LEMMA ProposeInv ==
    ASSUME ModelsInv, NEW m \in Models, NEW grace \in Graces,
           handleProposeModel(m, grace)
    PROVE  ModelsInv'
<1> DEFINE g == IF grace = 0 THEN GracePeriodSlots ELSE grace
           new == [NoModel EXCEPT !.Status = "proposed", !.GraceSlots = g]
<1>1. /\ models' = [models EXCEPT ![m] = new]
      /\ approved' = [approved EXCEPT ![m] = {}]
  BY DEF handleProposeModel, ProposeModel
<1>2. new \in Model /\ new.Votes = <<>> /\ new.Status = "proposed"
  <2>1. g \in Nat
    BY RegistryAssumption
  <2> HIDE DEF g
  <2>2. NoModel \in Model /\ NoModel.Votes = <<>>
    <3>1. <<>> \in Seq(Approvers)
      OBVIOUS
    <3> QED
      BY <3>1 DEF Model, NoModel
  <2> QED
    BY <2>1, <2>2, Zenon DEF Model
<1> HIDE DEF new
<1>3. ModelsType'
  BY <1>1, <1>2 DEF ModelsInv, ModelsType
<1>4. ASSUME NEW n \in Models
      PROVE  VotesAreApprovals(n)'
  <2>1. CASE n = m
    BY <1>1, <1>2, <2>1, FS_EmptySet DEF VotesAreApprovals, ModelsInv, ModelsType
  <2>2. CASE n # m
    BY <1>1, <2>2 DEF VotesAreApprovals, ModelsInv, ModelsType
  <2> QED
    BY <2>1, <2>2
<1> QED
  BY <1>3, <1>4 DEF ModelsInv

\* An approval records one vote of a new address, and activates the model at the
\* quorum.
LEMMA ApproveInv ==
    ASSUME ModelsInv, NEW m \in Models, NEW a \in Approvers,
           handleApproveModel(m, a)
    PROVE  ModelsInv'
<1> DEFINE old == models[m]
           votes == Append(old.Votes, a)
           status == IF Len(votes) >= quorumRequired THEN "active" ELSE old.Status
           new == [old EXCEPT !.Status = status, !.Votes = votes]
<1>1. /\ models' = [models EXCEPT ![m] = new]
      /\ approved' = [approved EXCEPT ![m] = @ \cup {a}]
      /\ old.Status = "proposed" /\ ~ HasVoted(m, a)
  BY Zenon DEF handleApproveModel, ApproveModel
<1>2. old \in Model /\ approved[m] \subseteq Approvers
  BY DEF ModelsInv, ModelsType
<1>3. /\ votes \in Seq(Approvers)
      /\ Len(votes) = Len(old.Votes) + 1
      /\ {votes[i] : i \in DOMAIN votes} =
            {old.Votes[i] : i \in DOMAIN old.Votes} \cup {a}
  <2>1. old.Votes \in Seq(Approvers)
    BY <1>2 DEF Model
  <2> DEFINE old_votes == old.Votes
  <2> HIDE DEF old_votes, old
  <2>2. votes \in Seq(Approvers) /\ Len(votes) = Len(old_votes) + 1
    BY <2>1 DEF old_votes
  <2>3. /\ DOMAIN old_votes = 1 .. Len(old_votes)
        /\ DOMAIN votes = 1 .. Len(old_votes) + 1
        /\ Len(old_votes) \in Nat
        /\ votes[Len(old_votes) + 1] = a
        /\ \A i \in 1 .. Len(old_votes) : votes[i] = old_votes[i]
    BY <2>1, <2>2 DEF old_votes
  <2>4. \A i \in DOMAIN votes :
           votes[i] \in {old_votes[k] : k \in DOMAIN old_votes} \cup {a}
    <3> HIDE DEF votes
    <3> QED
      BY <2>3
  <2>5. {old_votes[k] : k \in DOMAIN old_votes} \cup {a} \subseteq
           {votes[i] : i \in DOMAIN votes}
    <3> HIDE DEF votes
    <3>1. DOMAIN old_votes \subseteq DOMAIN votes /\ Len(old_votes) + 1 \in DOMAIN votes
      BY <2>3
    <3> QED
      BY <2>3, <3>1
  <2> QED
    BY <2>2, <2>4, <2>5 DEF old_votes
<1>4. new \in Model /\ new.Votes = votes /\ new.Status = status
  BY <1>2, <1>3, Zenon DEF Model
<1>5. ModelsType'
  BY <1>1, <1>2, <1>4 DEF ModelsInv, ModelsType
<1>6. models'[m] = new /\ approved'[m] = approved[m] \cup {a}
  BY <1>1 DEF ModelsInv, ModelsType
<1>7. a \notin approved[m]
  BY <1>1 DEF HasVoted, ModelsInv, VotesAreApprovals
<1>8. /\ IsFiniteSet(approved'[m])
      /\ Cardinality(approved'[m]) = Cardinality(approved[m]) + 1
  <2>1. IsFiniteSet(approved[m])
    BY DEF ModelsInv, VotesAreApprovals
  <2> QED
    BY <1>6, <1>7, <2>1, FS_AddElement, Zenon
<1>9. VotesAreApprovals(m)'
  <2> HIDE DEF new, votes
  <2>1. approved'[m] = {models'[m].Votes[i] : i \in DOMAIN models'[m].Votes}
    BY <1>3, <1>4, <1>6, Zenon DEF ModelsInv, VotesAreApprovals
  <2>2. Cardinality(approved'[m]) = Len(models'[m].Votes)
    BY <1>3, <1>4, <1>6, <1>8 DEF ModelsInv, VotesAreApprovals
  <2>3. models'[m].Status = "active" => Len(models'[m].Votes) >= quorumRequired
    BY <1>1, <1>4, <1>6
  <2> QED
    BY <1>8, <2>1, <2>2, <2>3 DEF VotesAreApprovals
<1>10. ASSUME NEW n \in Models, n # m
       PROVE  VotesAreApprovals(n)'
  BY <1>1, <1>10 DEF VotesAreApprovals, ModelsInv, ModelsType
<1> QED
  BY <1>5, <1>9, <1>10 DEF ModelsInv

\* DeprecateModel leaves the votes as they are.
LEMMA DeprecateInv ==
    ASSUME ModelsInv, NEW m \in Models, currentSlot \in Nat, deprecateModel(m)
    PROVE  ModelsInv'
<1> DEFINE new == [models[m] EXCEPT !.Status = "deprecated",
                                    !.DeprecatedAtSlot = currentSlot]
<1>1. models' = [models EXCEPT ![m] = new] /\ UNCHANGED approved
  BY Zenon DEF deprecateModel, DeprecateModel, historyVars
<1>2. models[m] \in Model
  BY DEF ModelsInv, ModelsType
<1>3. new \in Model /\ new.Votes = models[m].Votes /\ new.Status = "deprecated"
  BY <1>2, Zenon DEF Model
<1>4. ModelsType'
  BY <1>1, <1>3 DEF ModelsInv, ModelsType
<1>5. ASSUME NEW n \in Models
      PROVE  VotesAreApprovals(n)'
  <2>1. /\ models'[n].Votes = models[n].Votes
        /\ models'[n].Status = "active" => models[n].Status = "active"
    <3> HIDE DEF new
    <3> QED
      BY <1>1, <1>3 DEF ModelsInv, ModelsType
  <2> QED
    BY <1>1, <2>1 DEF VotesAreApprovals, ModelsInv
<1> QED
  BY <1>4, <1>5 DEF ModelsInv

-----------------------------------------------------------------------------
(* Users                                                                   *)

\* No plan costs more than the greatest fee.
LEMMA MaxFeeBounds ==
    MaxFee \in Nat /\ \A p \in Plans : Fee[p] \in Nat /\ Fee[p] <= MaxFee
<1> DEFINE Fees == {Fee[p] : p \in Plans}
<1>1. Fees \subseteq Nat /\ Fees # {}
  BY SubscriptionAssumption, AdmissionAssumption
<1>2. IsFiniteSet(Fees)
  <2>1. Fee \in Surjection(Plans, Fees)
    BY SubscriptionAssumption DEF Surjection
  <2> QED
    BY <2>1, AdmissionAssumption, FS_Surjection
<1>3. Max(Fees) \in Fees /\ \A y \in Fees : Max(Fees) >= y
  <2> HIDE DEF Fees
  <2> QED
    BY <1>1, <1>2, MaxOfFinite
<1>4. \A p \in Plans : Fee[p] \in Fees
  OBVIOUS
<1> QED
  <2> HIDE DEF Fees
  <2>1. MaxFee = Max(Fees)
    BY DEF MaxFee, Fees
  <2> QED
    BY <1>1, <1>3, <1>4, <2>1, Zenon

\* The jobs of a user can be counted.
LEMMA JobsOfFinite ==
    ASSUME NEW u
    PROVE  /\ IsFiniteSet(JobsOf(u)) /\ Cardinality(JobsOf(u)) \in Nat
<1>1. JobsOf(u) \subseteq JobIDs
  BY DEF JobsOf
<1> QED
  BY <1>1, AdmissionAssumption, FS_Subset, FS_CardinalityType

\* A restart, and any step that takes the same from balance and credit, keeps
\* FeesAreSpent.
LEMMA FeesKept ==
    ASSUME UsersType, UsersType', NEW u \in Users, FeesAreSpent(u),
           balance'[u] - balance[u] = credit'[u] - credit[u],
           restarts \in Nat, restarts' \in {restarts, restarts + 1}
    PROVE  FeesAreSpent(u)'
<1>1. MaxFee \in Nat /\ MaxFee' = MaxFee
  BY MaxFeeBounds DEF MaxFee
<1>2. restarts' * MaxFee >= restarts * MaxFee /\ restarts * MaxFee \in Nat
      /\ restarts' * MaxFee \in Nat
  <2>1. (restarts + 1) * MaxFee = restarts * MaxFee + MaxFee
    BY <1>1
  <2>2. restarts * MaxFee \in Nat
    BY <1>1
  <2>3. CASE restarts' = restarts
    BY <2>2, <2>3
  <2>4. CASE restarts' = restarts + 1
    BY <1>1, <2>1, <2>2, <2>4
  <2> QED
    BY <2>3, <2>4
<1>3. /\ balance[u] \in Nat /\ balance'[u] \in Nat
      /\ credit[u] \in Nat /\ credit'[u] \in Nat
  BY DEF UsersType
<1>4. /\ balance[u] <= credit[u]
      /\ credit[u] <= balance[u] + restarts * MaxFee
  BY DEF FeesAreSpent
<1>5. /\ balance'[u] <= credit'[u]
      /\ credit'[u] <= balance'[u] + restarts' * MaxFee
  <2> DEFINE x == restarts * MaxFee
             y == restarts' * MaxFee
  <2> HIDE DEF x, y
  <2>1. x \in Nat /\ y \in Nat /\ y >= x /\ credit[u] <= balance[u] + x
    BY <1>2, <1>4 DEF x, y
  <2>2. balance'[u] <= credit'[u] /\ credit'[u] <= balance'[u] + y
    BY <1>3, <1>4, <2>1
  <2> QED
    BY <2>2 DEF y
<1> QED
  BY <1>1, <1>5 DEF FeesAreSpent

\* A step that leaves the records of a user alone, or only clears AutoRenew,
\* keeps what holds of the user.
LEMMA UserKept ==
    ASSUME UsersType, UsersType', NEW u \in Users, UserOK(u),
           balance'[u] = balance[u], quota'[u] = quota[u], credit'[u] = credit[u],
           \/ subs'[u] = subs[u]
           \/ subs'[u] = [subs[u] EXCEPT !.AutoRenew = FALSE],
           u \in unlimited' <=> u \in unlimited,
           JobsOf(u)' = JobsOf(u),
           restarts \in Nat, restarts' \in {restarts, restarts + 1}
    PROVE  UserOK(u)'
<1>1. FeesAreSpent(u)'
  BY FeesKept DEF UserOK, UsersType
<1>2. subs[u] \in SubscriptionRecord
  BY DEF UsersType
<1>3. /\ subs'[u].Plan = subs[u].Plan
      /\ subs'[u].JobsUsed = subs[u].JobsUsed
      /\ subs'[u].JobsLimit = subs[u].JobsLimit
      /\ subs'[u].AutoRenew => subs[u].AutoRenew
  BY <1>2 DEF SubscriptionRecord
<1>4. MatchesPlan(u)'
  BY <1>3 DEF UserOK, MatchesPlan
<1>5. RestIsPaidFor(u)'
  BY <1>3 DEF UserOK, RestIsPaidFor
<1> QED
  BY <1>1, <1>4, <1>5 DEF UserOK

\* A deposit adds the same to the balance and to what was paid in.
LEMMA DepositInv ==
    ASSUME UsersInv, restarts \in Nat, UNCHANGED restarts,
           NEW u \in Users, NEW amount \in Deposits, handleDeposit(u, amount)
    PROVE  UsersInv'
<1>1. /\ balance' = [balance EXCEPT ![u] = @ + amount]
      /\ credit' = [credit EXCEPT ![u] = @ + amount]
      /\ UNCHANGED <<subs, owner, quota, unlimited>>
  BY DEF handleDeposit, Deposit
<1>2. amount \in Nat
  BY SubscriptionAssumption
<1>3. UsersType'
  BY <1>1, <1>2 DEF UsersInv, UsersType
<1>4. ASSUME NEW v \in Users
      PROVE  UserOK(v)'
  <2>1. balance'[v] - balance[v] = credit'[v] - credit[v]
    BY <1>1, <1>2 DEF UsersInv, UsersType
  <2>2. FeesAreSpent(v)'
    BY <1>3, <2>1, FeesKept DEF UsersInv, UserOK
  <2> QED
    BY <1>1, <2>2 DEF UsersInv, UserOK, MatchesPlan, RestIsPaidFor, JobsOf
<1> QED
  BY <1>3, <1>4 DEF UsersInv

\* Cancelling touches the renewal flag alone.
LEMMA CancelInv ==
    ASSUME UsersInv, restarts \in Nat, UNCHANGED restarts,
           NEW u \in Users, handleCancelSubscription(u)
    PROVE  UsersInv'
<1> DEFINE new == [subs[u] EXCEPT !.AutoRenew = FALSE]
<1>1. /\ subs' = [subs EXCEPT ![u] = new]
      /\ UNCHANGED <<balance, credit, owner, quota, unlimited>>
  BY DEF handleCancelSubscription, CancelAutoRenew, historyVars, salesVars
<1>2. new \in SubscriptionRecord
  BY Zenon DEF UsersInv, UsersType, SubscriptionRecord
<1>3. UsersType'
  BY <1>1, <1>2 DEF UsersInv, UsersType
<1>4. ASSUME NEW v \in Users
      PROVE  UserOK(v)'
  <2>1. subs'[v] = subs[v] \/ subs'[v] = [subs[v] EXCEPT !.AutoRenew = FALSE]
    BY <1>1, Zenon DEF UsersInv, UsersType
  <2> QED
    BY <1>1, <1>3, <2>1, UserKept DEF UsersInv, JobsOf
<1> QED
  BY <1>3, <1>4 DEF UsersInv

\* A user who pays a fee and gets the plan's subscription.
LEMMA UserBought ==
    ASSUME UsersType, UsersType', NEW u \in Users, UserOK(u),
           NEW p \in Plans, NEW r \in BOOLEAN, NEW slot \in Nat,
           balance'[u] = balance[u] - Fee[p], credit'[u] = credit[u] - Fee[p],
           quota'[u] = quota[u] + Limit[p],
           subs'[u] = NewSubscription(u, p, r, slot),
           u \in unlimited' <=> u \in unlimited \/ Limit[p] = 0,
           JobsOf(u)' = JobsOf(u),
           restarts \in Nat, restarts' \in {restarts, restarts + 1}
    PROVE  UserOK(u)'
<1>1. FeesAreSpent(u)'
  <2>1. Fee[p] \in Nat
    BY MaxFeeBounds
  <2>2. balance'[u] - balance[u] = credit'[u] - credit[u]
    BY <2>1 DEF UsersType
  <2> QED
    BY <2>2, FeesKept DEF UserOK
<1>2. /\ subs'[u].Plan = p /\ p # NoPlan
      /\ subs'[u].JobsUsed = 0 /\ subs'[u].JobsLimit = Limit[p]
      /\ Limit[p] \in Nat
  BY SubscriptionAssumption DEF NewSubscription
<1>3. MatchesPlan(u)'
  BY <1>2 DEF MatchesPlan
<1>4. RestIsPaidFor(u)'
  <2> SUFFICES ASSUME u \notin unlimited'
               PROVE  /\ subs'[u].JobsUsed <= subs'[u].JobsLimit
                      /\ Cardinality(JobsOf(u)') + subs'[u].JobsLimit
                           - subs'[u].JobsUsed <= quota'[u]
    BY DEF RestIsPaidFor
  <2>1. /\ subs[u].JobsUsed <= subs[u].JobsLimit
        /\ Cardinality(JobsOf(u)) + subs[u].JobsLimit - subs[u].JobsUsed <= quota[u]
    BY DEF UserOK, RestIsPaidFor
  <2>2. /\ subs[u].JobsUsed \in Nat /\ subs[u].JobsLimit \in Nat /\ quota[u] \in Nat
        /\ Cardinality(JobsOf(u)) \in Nat
    BY JobsOfFinite DEF UsersType, SubscriptionRecord
  <2>3. Cardinality(JobsOf(u)) <= quota[u]
    BY <2>1, <2>2
  <2> QED
    BY <1>2, <2>2, <2>3
<1> QED
  BY <1>1, <1>3, <1>4 DEF UserOK

\* A user whose fee is taken by a handler that dies before it writes the
\* subscription.
LEMMA UserCharged ==
    ASSUME UsersType, UsersType', NEW u \in Users, UserOK(u), NEW p \in Plans,
           balance'[u] = balance[u] - Fee[p],
           subs'[u] = subs[u], quota'[u] = quota[u], credit'[u] = credit[u],
           u \in unlimited' <=> u \in unlimited,
           JobsOf(u)' = JobsOf(u),
           restarts \in Nat, restarts' = restarts + 1
    PROVE  UserOK(u)'
<1>1. MaxFee \in Nat /\ MaxFee' = MaxFee /\ Fee[p] \in Nat /\ Fee[p] <= MaxFee
  BY MaxFeeBounds DEF MaxFee
<1>2. FeesAreSpent(u)'
  <2> DEFINE x == restarts * MaxFee
             y == restarts' * MaxFee
  <2>1. x \in Nat /\ y = x + MaxFee
    BY <1>1
  <2>2. /\ balance[u] \in Nat /\ balance'[u] \in Nat /\ credit[u] \in Nat
        /\ balance[u] <= credit[u] /\ credit[u] <= balance[u] + x
    BY DEF UsersType, UserOK, FeesAreSpent
  <2> HIDE DEF x, y
  <2>3. balance'[u] <= credit'[u] /\ credit'[u] <= balance'[u] + y
    BY <1>1, <2>1, <2>2
  <2> QED
    BY <1>1, <2>3 DEF FeesAreSpent, y
<1>3. MatchesPlan(u)' /\ RestIsPaidFor(u)'
  BY DEF UserOK, MatchesPlan, RestIsPaidFor
<1> QED
  BY <1>2, <1>3 DEF UserOK

\* A user of whose quota a job is taken, whether or not the job is new.
LEMMA UserConsumed ==
    ASSUME UsersType, UsersType', NEW u \in Users, UserOK(u),
           NEW slot, IsActive(u, slot), QuotaLeft(u),
           subs'[u] = [subs[u] EXCEPT !.JobsUsed = @ + 1],
           balance'[u] = balance[u], quota'[u] = quota[u], credit'[u] = credit[u],
           u \in unlimited' <=> u \in unlimited,
           Cardinality(JobsOf(u)') <= Cardinality(JobsOf(u)) + 1,
           restarts \in Nat, restarts' \in {restarts, restarts + 1}
    PROVE  UserOK(u)'
<1>1. FeesAreSpent(u)'
  BY FeesKept DEF UserOK, UsersType
<1>2. subs[u] \in SubscriptionRecord /\ subs[u].Plan # NoPlan
  BY DEF UsersType, IsActive
<1>3. /\ subs'[u].Plan = subs[u].Plan
      /\ subs'[u].JobsUsed = subs[u].JobsUsed + 1
      /\ subs'[u].JobsLimit = subs[u].JobsLimit
  BY <1>2 DEF SubscriptionRecord
<1>4. MatchesPlan(u)'
  BY <1>2, <1>3 DEF UserOK, MatchesPlan
<1>5. RestIsPaidFor(u)'
  <2> SUFFICES ASSUME u \notin unlimited
               PROVE  /\ subs'[u].JobsUsed <= subs'[u].JobsLimit
                      /\ Cardinality(JobsOf(u)') + subs'[u].JobsLimit
                           - subs'[u].JobsUsed <= quota'[u]
    BY DEF RestIsPaidFor
  <2>1. /\ subs[u].JobsUsed <= subs[u].JobsLimit
        /\ Cardinality(JobsOf(u)) + subs[u].JobsLimit - subs[u].JobsUsed <= quota[u]
    BY DEF UserOK, RestIsPaidFor
  <2>2. /\ subs[u].JobsUsed \in Nat /\ subs[u].JobsLimit \in Nat /\ quota[u] \in Nat
        /\ Cardinality(JobsOf(u)) \in Nat
    BY JobsOfFinite DEF UsersType, SubscriptionRecord
  <2>3. Cardinality(JobsOf(u)') \in Nat
    <3>1. JobsOf(u)' \subseteq JobIDs
      BY DEF JobsOf
    <3> QED
      BY <3>1, AdmissionAssumption, FS_Subset, FS_CardinalityType
  <2>4. subs[u].JobsLimit # 0
    BY <1>2 DEF UserOK, MatchesPlan
  <2>5. subs[u].JobsUsed < subs[u].JobsLimit
    BY <2>2, <2>4 DEF QuotaLeft
  <2> QED
    BY <1>3, <2>1, <2>2, <2>3, <2>5
<1> QED
  BY <1>1, <1>4, <1>5 DEF UserOK

\* What Subscribe writes is a subscription.
LEMMA NewSubscriptionType ==
    ASSUME UsersType, NEW u \in Users, NEW p \in Plans, NEW r \in BOOLEAN,
           NEW slot \in Nat
    PROVE  NewSubscription(u, p, r, slot) \in SubscriptionRecord
<1>1. RenewalStart(u, slot) \in Nat
  BY DEF RenewalStart, UsersType, SubscriptionRecord
<1>2. RenewalStart(u, slot) + SubscriptionDurationSlots \in Nat /\ Limit[p] \in Nat
  BY <1>1, SubscriptionAssumption
<1> QED
  BY <1>1, <1>2 DEF NewSubscription, SubscriptionRecord

\* Subscribe takes the fee and sells the jobs of the plan.
LEMMA SubscribeInv ==
    ASSUME UsersInv, restarts \in Nat, UNCHANGED restarts, currentSlot \in Nat,
           NEW u \in Users, NEW p \in Plans, NEW r \in BOOLEAN,
           handleSubscribe(u, p, r)
    PROVE  UsersInv'
<1> DEFINE new == NewSubscription(u, p, r, currentSlot)
<1>1. /\ balance' = [balance EXCEPT ![u] = @ - Fee[p]]
      /\ subs' = [subs EXCEPT ![u] = new]
      /\ quota' = [quota EXCEPT ![u] = @ + Limit[p]]
      /\ unlimited' = IF Limit[p] = 0 THEN unlimited \cup {u} ELSE unlimited
      /\ credit' = [credit EXCEPT ![u] = @ - Fee[p]]
      /\ UNCHANGED owner
      /\ balance[u] >= Fee[p]
  BY DEF handleSubscribe, Subscribe, Affordable
<1>2. new \in SubscriptionRecord
  BY NewSubscriptionType DEF UsersInv
<1> HIDE DEF new
<1>3. UsersType'
  <2>1. Fee[p] \in Nat /\ Limit[p] \in Nat
    BY SubscriptionAssumption
  <2>2. balance[u] \in Nat /\ credit[u] \in Nat /\ balance[u] <= credit[u]
    BY DEF UsersInv, UsersType, UserOK, FeesAreSpent
  <2>3. balance[u] - Fee[p] \in Nat /\ credit[u] - Fee[p] \in Nat
    BY <1>1, <2>1, <2>2
  <2> QED
    BY <1>1, <1>2, <2>1, <2>3 DEF UsersInv, UsersType
<1>4. UserOK(u)'
  <2>1. JobsOf(u)' = JobsOf(u)
    BY <1>1 DEF JobsOf
  <2>2. /\ balance'[u] = balance[u] - Fee[p] /\ credit'[u] = credit[u] - Fee[p]
        /\ quota'[u] = quota[u] + Limit[p]
        /\ subs'[u] = NewSubscription(u, p, r, currentSlot)
        /\ u \in unlimited' <=> u \in unlimited \/ Limit[p] = 0
    BY <1>1 DEF UsersInv, UsersType, new
  <2> QED
    BY <1>3, <2>1, <2>2, UserBought DEF UsersInv
<1>5. ASSUME NEW v \in Users, v # u
      PROVE  UserOK(v)'
  <2>1. /\ balance'[v] = balance[v] /\ credit'[v] = credit[v]
        /\ quota'[v] = quota[v] /\ subs'[v] = subs[v]
        /\ v \in unlimited' <=> v \in unlimited
        /\ JobsOf(v)' = JobsOf(v)
    BY <1>1, <1>5 DEF UsersInv, UsersType, JobsOf
  <2> QED
    BY <1>3, <2>1, UserKept, Zenon DEF UsersInv
<1> QED
  BY <1>3, <1>4, <1>5 DEF UsersInv

\* A job request, with the job written or, in a crash, not.
LEMMA JobRequestInv ==
    ASSUME UsersInv, restarts \in Nat, restarts' \in {restarts, restarts + 1},
           NEW u \in Users, NEW j, NEW slot,
           ConsumeJob(u, slot), UNCHANGED salesVars,
           \/ owner' = owner
           \/ /\ j \in JobIDs /\ owner[j] = NoUser
              /\ owner' = [owner EXCEPT ![j] = u]
    PROVE  UsersInv'
<1> DEFINE new == [subs[u] EXCEPT !.JobsUsed = @ + 1]
<1>1. /\ subs' = [subs EXCEPT ![u] = new]
      /\ UNCHANGED <<balance, quota, unlimited, credit>>
      /\ IsActive(u, slot) /\ QuotaLeft(u)
  BY DEF ConsumeJob, salesVars
<1>2. new \in SubscriptionRecord
  BY DEF UsersInv, UsersType, SubscriptionRecord
<1>3. UsersType'
  <2>1. owner' \in [JobIDs -> Users \cup {NoUser}]
    BY DEF UsersInv, UsersType
  <2> HIDE DEF new
  <2> QED
    BY <1>1, <1>2, <2>1 DEF UsersInv, UsersType
<1>4. /\ JobsOf(u)' = JobsOf(u) \/ JobsOf(u)' = JobsOf(u) \cup {j}
      /\ \A v \in Users \ {u} : JobsOf(v)' = JobsOf(v)
  <2>1. CASE owner' = owner
    BY <2>1 DEF JobsOf
  <2>2. CASE /\ j \in JobIDs /\ owner[j] = NoUser
             /\ owner' = [owner EXCEPT ![j] = u]
    <3>1. \A i \in JobIDs : owner'[i] = IF i = j THEN u ELSE owner[i]
      BY <2>2 DEF UsersInv, UsersType
    <3>2. NoUser \notin Users
      BY AdmissionAssumption
    <3> QED
      BY <2>2, <3>1, <3>2 DEF JobsOf
  <2> QED
    BY <2>1, <2>2
<1>5. Cardinality(JobsOf(u)') <= Cardinality(JobsOf(u)) + 1
  <2>1. IsFiniteSet(JobsOf(u)) /\ Cardinality(JobsOf(u)) \in Nat
    BY JobsOfFinite
  <2>2. Cardinality(JobsOf(u) \cup {j}) <= Cardinality(JobsOf(u)) + 1
    <3>1. Cardinality(JobsOf(u) \cup {j}) = IF j \in JobsOf(u)
             THEN Cardinality(JobsOf(u)) ELSE Cardinality(JobsOf(u)) + 1
      BY <2>1, FS_AddElement, Zenon
    <3> QED
      BY <2>1, <3>1
  <2>3. Cardinality(JobsOf(u)') \in
           {Cardinality(JobsOf(u)), Cardinality(JobsOf(u) \cup {j})}
    BY <1>4, Zenon
  <2> QED
    BY <2>1, <2>2, <2>3
<1>6. UserOK(u)'
  <2>1. subs'[u] = [subs[u] EXCEPT !.JobsUsed = @ + 1]
    BY <1>1 DEF UsersInv, UsersType
  <2> QED
    BY <1>1, <1>3, <1>5, <2>1, UserConsumed DEF UsersInv
<1>7. ASSUME NEW v \in Users, v # u
      PROVE  UserOK(v)'
  <2>1. subs'[v] = subs[v] /\ JobsOf(v)' = JobsOf(v)
    BY <1>1, <1>4, <1>7 DEF UsersInv, UsersType
  <2> QED
    BY <1>1, <1>3, <2>1, UserKept, Zenon DEF UsersInv
<1> QED
  BY <1>3, <1>6, <1>7 DEF UsersInv

\* A crash between the two writes of Subscribe costs the fee and sells nothing.
LEMMA TornSubscribeInv ==
    ASSUME UsersInv, restarts \in Nat, restarts' = restarts + 1, UNCHANGED owner,
           NEW u \in Users, NEW p \in Plans, TornSubscribe(u, p)
    PROVE  UsersInv'
<1>1. /\ balance' = [balance EXCEPT ![u] = @ - Fee[p]]
      /\ UNCHANGED <<subs, quota, unlimited, credit, owner>>
      /\ balance[u] >= Fee[p]
  BY DEF TornSubscribe, Affordable, salesVars
<1>2. UsersType'
  <2>1. Fee[p] \in Nat /\ balance[u] \in Nat
    BY SubscriptionAssumption DEF UsersInv, UsersType
  <2>2. balance[u] - Fee[p] \in Nat
    BY <1>1, <2>1
  <2> QED
    BY <1>1, <2>2 DEF UsersInv, UsersType
<1>3. UserOK(u)'
  <2>1. balance'[u] = balance[u] - Fee[p]
    BY <1>1 DEF UsersInv, UsersType
  <2>2. JobsOf(u)' = JobsOf(u)
    BY <1>1 DEF JobsOf
  <2> QED
    BY <1>1, <1>2, <2>1, <2>2, UserCharged DEF UsersInv
<1>4. ASSUME NEW v \in Users, v # u
      PROVE  UserOK(v)'
  <2>1. balance'[v] = balance[v] /\ JobsOf(v)' = JobsOf(v)
    BY <1>1, <1>4 DEF UsersInv, UsersType, JobsOf
  <2> QED
    BY <1>1, <1>2, <2>1, UserKept DEF UsersInv
<1> QED
  BY <1>2, <1>3, <1>4 DEF UsersInv

\* Renewals, of all users at a boundary or, in a crash, of some.
LEMMA RenewInv ==
    ASSUME UsersInv, restarts \in Nat, UNCHANGED owner, NEW slot \in Nat,
           NEW charged \in SUBSET toRenew(slot), NEW written \in SUBSET charged,
           Renew(charged, written, slot), SoldAgain(written \cap Renewed(slot)),
           \/ restarts' = restarts + 1
           \/ restarts' = restarts /\ written = charged
    PROVE  UsersInv'
<1> DEFINE renewed == Renewed(slot)
           plan(v) == subs[v].Plan
           fresh(v) == NewSubscription(v, plan(v), TRUE, slot)
<1>0. ASSUME NEW v \in Users
      PROVE  /\ balance[v] \in Nat /\ credit[v] \in Nat /\ quota[v] \in Nat
             /\ balance[v] <= credit[v] /\ subs[v] \in SubscriptionRecord
  BY DEF UsersInv, UsersType, UserOK, FeesAreSpent
<1>1. ASSUME NEW v \in Users
      PROVE  /\ v \in charged \cap renewed => balance'[v] = balance[v] - Fee[plan(v)]
             /\ v \notin charged \cap renewed => balance'[v] = balance[v]
             /\ v \in written \cap renewed =>
                   /\ subs'[v] = fresh(v)
                   /\ quota'[v] = quota[v] + Limit[plan(v)]
                   /\ credit'[v] = credit[v] - Fee[plan(v)]
             /\ v \notin written \cap renewed =>
                   quota'[v] = quota[v] /\ credit'[v] = credit[v]
             /\ v \in written \ renewed =>
                   subs'[v] = [subs[v] EXCEPT !.AutoRenew = FALSE]
             /\ v \notin written => subs'[v] = subs[v]
             /\ JobsOf(v)' = JobsOf(v)
  <2>1. /\ balance'[v] = IF v \in charged \cap renewed
                          THEN balance[v] - Fee[plan(v)] ELSE balance[v]
        /\ quota'[v] = quota[v] + (IF v \in written \cap renewed
                                   THEN Limit[plan(v)] ELSE 0)
        /\ credit'[v] = credit[v] - (IF v \in written \cap renewed
                                     THEN Fee[plan(v)] ELSE 0)
    BY DEF Renew, SoldAgain
  <2>2. subs'[v] = CASE v \in written \cap renewed -> fresh(v)
                     [] v \in written \ renewed -> [subs[v] EXCEPT !.AutoRenew = FALSE]
                     [] OTHER -> subs[v]
    BY DEF Renew
  <2> HIDE DEF renewed, plan, fresh
  <2> QED
    BY <1>0, <2>1, <2>2 DEF JobsOf
<1>2. /\ balance' = [v \in Users |-> balance'[v]] /\ subs' = [v \in Users |-> subs'[v]]
      /\ quota' = [v \in Users |-> quota'[v]] /\ credit' = [v \in Users |-> credit'[v]]
      /\ unlimited' = unlimited
  BY DEF Renew, SoldAgain
<1>3. ASSUME NEW v \in Users, v \in charged \cap renewed
      PROVE  plan(v) \in Plans /\ balance[v] >= Fee[plan(v)]
  <2>1. subs[v].AutoRenew /\ balance[v] >= Fee[plan(v)]
    BY <1>3 DEF Renewed, toRenew, Affordable
  <2> QED
    BY <2>1 DEF UsersInv, UserOK, MatchesPlan, UsersType, SubscriptionRecord
<1>5. ASSUME NEW v \in Users
      PROVE  /\ balance'[v] \in Nat /\ credit'[v] \in Nat /\ quota'[v] \in Nat
             /\ subs'[v] \in SubscriptionRecord
  <2>1. CASE v \in charged \cap renewed
    <3>1. Fee[plan(v)] \in Nat /\ Limit[plan(v)] \in Nat
      BY <1>3, <2>1, SubscriptionAssumption
    <3>2. balance'[v] \in Nat /\ credit'[v] \in Nat /\ quota'[v] \in Nat
      <4> HIDE DEF renewed, plan, fresh
      <4>1. balance[v] >= Fee[plan(v)]
        BY <1>3, <2>1
      <4>2. /\ balance[v] - Fee[plan(v)] \in Nat /\ credit[v] - Fee[plan(v)] \in Nat
            /\ quota[v] + Limit[plan(v)] \in Nat
        BY <1>0, <3>1, <4>1
      <4> QED
        BY <1>0, <1>1, <2>1, <4>2, Zenon
    <3>3. fresh(v) \in SubscriptionRecord
      BY <1>3, <2>1, NewSubscriptionType, Zenon DEF UsersInv
    <3> HIDE DEF renewed, plan, fresh
    <3> QED
      BY <1>1, <1>0, <2>1, <3>2, <3>3, Zenon
  <2>2. CASE v \notin charged \cap renewed
    <3>1. [subs[v] EXCEPT !.AutoRenew = FALSE] \in SubscriptionRecord
      BY <1>0, Zenon DEF SubscriptionRecord
    <3> HIDE DEF renewed, plan, fresh
    <3> QED
      BY <1>1, <1>0, <2>2, <3>1
  <2> QED
    BY <2>1, <2>2
<1>6. UsersType'
  <2>1. balance' \in [Users -> Nat] /\ credit' \in [Users -> Nat]
        /\ quota' \in [Users -> Nat] /\ subs' \in [Users -> SubscriptionRecord]
    BY <1>2, <1>5
  <2> QED
    BY <1>2, <2>1 DEF UsersInv, UsersType
<1>7. ASSUME NEW v \in Users
      PROVE  UserOK(v)'
  <2>1. UserOK(v) /\ UsersType /\ JobsOf(v)' = JobsOf(v)
    BY <1>1, Zenon DEF UsersInv
  <2>2. CASE v \in written \cap renewed
    <3>1. plan(v) \in Plans
      BY <1>3, <2>2
    <3>2. plan(v) # NoPlan
      BY <3>1, SubscriptionAssumption
    <3>3. Limit[plan(v)] = 0 => v \in unlimited
      BY <2>1, <3>2 DEF UserOK, MatchesPlan
    <3>4. /\ balance'[v] = balance[v] - Fee[plan(v)]
          /\ credit'[v] = credit[v] - Fee[plan(v)]
          /\ quota'[v] = quota[v] + Limit[plan(v)]
          /\ subs'[v] = fresh(v)
      <4> HIDE DEF renewed, plan, fresh
      <4> QED
        BY <1>1, <2>2, Zenon
    <3>5. v \in unlimited' <=> v \in unlimited \/ Limit[plan(v)] = 0
      BY <1>2, <3>3
    <3> QED
      BY <1>6, <2>1, <3>1, <3>4, <3>5, UserBought, Zenon
  <2>3. CASE v \in (charged \ written) \cap renewed
    <3>1. plan(v) \in Plans /\ restarts' = restarts + 1
      BY <1>3, <2>3
    <3>2. /\ balance'[v] = balance[v] - Fee[plan(v)]
          /\ credit'[v] = credit[v] /\ quota'[v] = quota[v] /\ subs'[v] = subs[v]
      <4> HIDE DEF renewed, plan, fresh
      <4> QED
        BY <1>1, <1>0, <2>3, Zenon
    <3> QED
      BY <1>2, <1>6, <2>1, <3>1, <3>2, UserCharged
  <2>4. CASE v \notin charged \cap renewed
    <3>1. /\ balance'[v] = balance[v] /\ credit'[v] = credit[v]
          /\ quota'[v] = quota[v]
          /\ \/ subs'[v] = subs[v]
             \/ subs'[v] = [subs[v] EXCEPT !.AutoRenew = FALSE]
      <4> HIDE DEF renewed, plan, fresh
      <4> QED
        BY <1>1, <1>0, <2>4
    <3> QED
      BY <1>2, <1>6, <2>1, <3>1, UserKept
  <2> QED
    BY <2>2, <2>3, <2>4
<1> QED
  BY <1>6, <1>7 DEF UsersInv

-----------------------------------------------------------------------------
(* The invariant                                                           *)

\* The invariant holds of an empty store.
LEMMA InitAdmissionInv ==
    ASSUME Init
    PROVE  AdmissionInv
<1>1. ModelsInv
  <2>1. NoModel \in Model /\ NoModel.Votes = <<>> /\ NoModel.Status = "none"
    <3>1. <<>> \in Seq(Approvers)
      OBVIOUS
    <3> QED
      BY <3>1 DEF Model, NoModel
  <2>2. ModelsType
    BY <2>1 DEF Init, ModelsType
  <2>3. ASSUME NEW m \in Models
        PROVE  VotesAreApprovals(m)
    <3>1. models[m].Votes = <<>> /\ models[m].Status = "none" /\ approved[m] = {}
      BY <2>1 DEF Init
    <3> QED
      BY <3>1, FS_EmptySet DEF VotesAreApprovals
  <2> QED
    BY <2>2, <2>3 DEF ModelsInv
<1>2. UsersInv
  <2>1. NoSubscription \in SubscriptionRecord
    BY DEF NoSubscription, SubscriptionRecord
  <2>2. UsersType
    BY <2>1 DEF Init, UsersType
  <2>3. ASSUME NEW u \in Users
        PROVE  UserOK(u)
    <3>1. JobsOf(u) = {}
      BY AdmissionAssumption DEF Init, JobsOf
    <3>2. Cardinality(JobsOf(u)) = 0
      BY <3>1, FS_EmptySet, Zenon
    <3>3. /\ subs[u] = NoSubscription /\ balance[u] = 0 /\ credit[u] = 0
          /\ quota[u] = 0 /\ restarts = 0
      BY DEF Init
    <3>4. MatchesPlan(u) /\ RestIsPaidFor(u)
      BY <3>2, <3>3 DEF NoSubscription, MatchesPlan, RestIsPaidFor
    <3>5. FeesAreSpent(u)
      <4>1. restarts * MaxFee = 0
        BY <3>3, MaxFeeBounds
      <4> QED
        BY <3>3, <4>1 DEF FeesAreSpent
    <3> QED
      BY <3>4, <3>5 DEF UserOK
  <2> QED
    BY <2>2, <2>3 DEF UsersInv
<1> QED
  BY <1>1, <1>2, AdmissionAssumption DEF Init, AdmissionInv

\* A step that touches no model keeps their invariant.
LEMMA UnchangedModels ==
    ASSUME ModelsInv, UNCHANGED <<models, approved>>
    PROVE  ModelsInv'
  BY DEF ModelsInv, ModelsType, VotesAreApprovals

\* A step that touches no user keeps their invariant, a crash included.
LEMMA UnchangedUsers ==
    ASSUME UsersInv, UNCHANGED <<subscriptionVars, salesVars, owner>>,
           restarts \in Nat, restarts' \in {restarts, restarts + 1}
    PROVE  UsersInv'
<1>1. UNCHANGED <<balance, subs, quota, unlimited, credit, owner>>
  BY DEF subscriptionVars, salesVars
<1>2. UsersType'
  BY <1>1 DEF UsersInv, UsersType
<1>3. ASSUME NEW u \in Users
      PROVE  UserOK(u)'
  <2>1. JobsOf(u)' = JobsOf(u)
    BY <1>1 DEF JobsOf
  <2> QED
    BY <1>1, <1>2, <2>1, UserKept DEF UsersInv
<1> QED
  BY <1>2, <1>3 DEF UsersInv

\* The start of a block.
LEMMA BeginBlockInv ==
    ASSUME AdmissionInv, BeginBlock
    PROVE  AdmissionInv'
<1>1. /\ currentSlot' \in 0 .. MaxSlot
      /\ UNCHANGED <<models, approved, subscriptionVars, salesVars, owner, restarts>>
      /\ restarts \in Nat
  BY AdmissionAssumption DEF AdmissionInv, BeginBlock, historyVars
<1>2. ModelsInv'
  BY <1>1, UnchangedModels DEF AdmissionInv
<1>3. UsersInv'
  BY <1>1, UnchangedUsers DEF AdmissionInv
<1> QED
  BY <1>1, <1>2, <1>3 DEF AdmissionInv

\* A transaction or a call that no code makes: one case for each handler.
LEMMA DeliverTxInv ==
    ASSUME AdmissionInv, DeliverTx \/ Uncalled
    PROVE  AdmissionInv'
<1>1. /\ currentSlot \in Nat /\ restarts \in Nat
      /\ ModelsInv /\ UsersInv
      /\ UNCHANGED <<currentSlot, restarts>>
  BY DEF AdmissionInv, DeliverTx, Uncalled
<1>2. ASSUME ModelsInv', UsersInv'
      PROVE  AdmissionInv'
  BY <1>1, <1>2 DEF AdmissionInv
<1>3. ASSUME NEW m \in Models, NEW grace \in Graces, handleProposeModel(m, grace)
      PROVE  AdmissionInv'
  BY <1>1, <1>2, <1>3, ProposeInv, UnchangedUsers, Zenon DEF handleProposeModel
<1>4. ASSUME NEW m \in Models, deprecateModel(m)
      PROVE  AdmissionInv'
  BY <1>1, <1>2, <1>4, DeprecateInv, UnchangedUsers DEF deprecateModel, historyVars
<1>5. ASSUME NEW m \in Models, NEW a \in Approvers, handleApproveModel(m, a)
      PROVE  AdmissionInv'
  BY <1>1, <1>2, <1>5, ApproveInv, UnchangedUsers, Zenon DEF handleApproveModel
<1>6. ASSUME NEW u \in Users, NEW amount \in Deposits, handleDeposit(u, amount)
      PROVE  AdmissionInv'
  BY <1>1, <1>2, <1>6, DepositInv, UnchangedModels, Zenon DEF handleDeposit
<1>7. ASSUME NEW u \in Users, NEW p \in Plans, NEW r \in BOOLEAN,
             handleSubscribe(u, p, r)
      PROVE  AdmissionInv'
  BY <1>1, <1>2, <1>7, SubscribeInv, UnchangedModels, Zenon DEF handleSubscribe
<1>8. ASSUME NEW u \in Users, handleCancelSubscription(u)
      PROVE  AdmissionInv'
  BY <1>1, <1>2, <1>8, CancelInv, UnchangedModels
  DEF handleCancelSubscription, historyVars
<1>9. ASSUME NEW u \in Users, NEW m \in Models, NEW j \in JobIDs,
             handleJobRequest(u, m, j)
      PROVE  AdmissionInv'
  <2>1. /\ ConsumeJob(u, currentSlot)
        /\ UNCHANGED <<models, approved, salesVars>>
        /\ \/ owner' = owner
           \/ j \in JobIDs /\ owner[j] = NoUser /\ owner' = [owner EXCEPT ![j] = u]
    BY <1>9 DEF handleJobRequest, historyVars
  <2> QED
    BY <1>1, <1>2, <2>1, JobRequestInv, UnchangedModels
<1>10. ASSUME autoRenewals
       PROVE  AdmissionInv'
  <2> DEFINE due == toRenew(currentSlot)
  <2>1. /\ Renew(due, due, currentSlot) /\ SoldAgain(Renewed(currentSlot))
        /\ UNCHANGED <<models, owner, approved>>
    BY <1>10, Zenon DEF autoRenewals, ProcessAutoRenewals
  <2>2. due \cap Renewed(currentSlot) = Renewed(currentSlot)
    BY DEF Renewed
  <2> HIDE DEF due
  <2>3. SoldAgain(due \cap Renewed(currentSlot))
    BY <2>1, <2>2, Zenon
  <2> QED
    BY <1>1, <1>2, <2>1, <2>3, RenewInv, UnchangedModels DEF due
<1> QED
  BY <1>3, <1>4, <1>5, <1>6, <1>7, <1>8, <1>9, <1>10 DEF DeliverTx, Uncalled

\* A crash, at rest or between two writes of a handler.
LEMMA CrashInv ==
    ASSUME AdmissionInv, Crash
    PROVE  AdmissionInv'
<1>1. /\ currentSlot \in Nat /\ restarts \in Nat
      /\ currentSlot' = 0 /\ currentSlot' \in 0 .. MaxSlot
      /\ restarts' = restarts + 1 /\ restarts' \in 0 .. MaxRestarts
      /\ UNCHANGED <<models, owner, approved>>
      /\ ModelsInv /\ UsersInv
  BY AdmissionAssumption DEF AdmissionInv, Crash
<1>2. ASSUME UsersInv'
      PROVE  AdmissionInv'
  BY <1>1, <1>2, UnchangedModels DEF AdmissionInv
<1>3. CASE UNCHANGED <<subscriptionVars, salesVars>>
  BY <1>1, <1>2, <1>3, UnchangedUsers
<1>4. ASSUME NEW u \in Users, NEW p \in Plans, TornSubscribe(u, p)
      PROVE  AdmissionInv'
  BY <1>1, <1>2, <1>4, TornSubscribeInv
<1>5. ASSUME NEW u \in Users, NEW m \in Models, TornJobRequest(u, m)
      PROVE  AdmissionInv'
  <2>1. ConsumeJob(u, currentSlot) /\ UNCHANGED salesVars /\ owner' = owner
    BY <1>1, <1>5 DEF TornJobRequest
  <2> QED
    BY <1>1, <1>2, <2>1, JobRequestInv
<1>6. ASSUME TornRenewals
      PROVE  AdmissionInv'
  <2>1. PICK charged \in SUBSET toRenew(currentSlot) : \E written \in SUBSET charged :
           /\ Renew(charged, written, currentSlot)
           /\ SoldAgain(written \cap Renewed(currentSlot))
    BY <1>6, Zenon DEF TornRenewals
  <2>2. PICK written \in SUBSET charged :
           /\ Renew(charged, written, currentSlot)
           /\ SoldAgain(written \cap Renewed(currentSlot))
    BY <2>1
  <2> QED
    BY <1>1, <1>2, <2>2, RenewInv
<1> QED
  BY <1>3, <1>4, <1>5, <1>6 DEF Crash

\* Every step keeps the invariant.
LEMMA NextAdmissionInv ==
    ASSUME AdmissionInv, [Next]_vars
    PROVE  AdmissionInv'
<1>1. CASE UNCHANGED vars
  <2>1. /\ restarts \in Nat /\ restarts' = restarts /\ currentSlot' = currentSlot
        /\ UNCHANGED <<models, approved, subscriptionVars, salesVars, owner>>
    BY <1>1 DEF AdmissionInv, vars, historyVars
  <2> QED
    BY <2>1, UnchangedModels, UnchangedUsers DEF AdmissionInv
<1> QED
  BY <1>1, BeginBlockInv, DeliverTxInv, CrashInv DEF Next

\* The invariant holds in every state that the handlers, the renewals and the
\* crashes between their writes reach.
THEOREM AdmissionInvariant == Spec => []AdmissionInv
<1>1. Init => AdmissionInv
  BY InitAdmissionInv
<1>2. AdmissionInv /\ [Next]_vars => AdmissionInv'
  BY NextAdmissionInv
<1> QED
  BY <1>1, <1>2, PTL DEF Spec

\* The records of models and subscriptions keep their types; balance and credit
\* never fall below zero, since a fee is taken only from a balance that covers it.
THEOREM AdmissionTypeCorrectness == Spec => []TypeOK
<1>1. AdmissionInv => TypeOK
  BY DEF AdmissionInv, ModelsInv, ModelsType, UsersInv, UsersType, TypeOK
<1> QED
  BY <1>1, AdmissionInvariant, PTL

\* handleJobRequest never accepts more jobs of a user than the limited plans they
\* paid for allow, over all renewals, replacements and restarts.
THEOREM JobsPaidTheorem == Spec => []JobsArePaidFor
<1>1. ASSUME AdmissionInv, NEW u \in Users \ unlimited
      PROVE  Cardinality(JobsOf(u)) <= quota[u]
  <2>1. /\ subs[u].JobsUsed <= subs[u].JobsLimit
        /\ Cardinality(JobsOf(u)) + subs[u].JobsLimit - subs[u].JobsUsed <= quota[u]
    BY <1>1 DEF AdmissionInv, UsersInv, UserOK, RestIsPaidFor
  <2>2. /\ subs[u].JobsUsed \in Nat /\ subs[u].JobsLimit \in Nat /\ quota[u] \in Nat
        /\ Cardinality(JobsOf(u)) \in Nat
    BY <1>1, JobsOfFinite DEF AdmissionInv, UsersInv, UsersType, SubscriptionRecord
  <2> QED
    BY <2>1, <2>2
<1>2. AdmissionInv => JobsArePaidFor
  BY <1>1 DEF JobsArePaidFor
<1> QED
  BY <1>2, AdmissionInvariant, PTL

\* Between Subscribe's two writes a crash loses at most one fee, so a user's
\* deposits less the fees of their subscriptions exceed the balance by at most
\* one fee a restart.
THEOREM CrashCostTheorem == Spec => []CrashCostsOneFee
<1>1. AdmissionInv => CrashCostsOneFee
  BY Zenon DEF AdmissionInv, UsersInv, UserOK, FeesAreSpent, MaxFee, CrashCostsOneFee
<1> QED
  BY <1>1, AdmissionInvariant, PTL

\* ApproveModel activates a model only when quorumRequired different addresses
\* have approved it since its last proposal.
THEOREM QuorumOfModelTheorem == Spec => []ActiveModelHasQuorum
<1>1. AdmissionInv => ActiveModelHasQuorum
  BY DEF AdmissionInv, ModelsInv, VotesAreApprovals, ActiveModelHasQuorum
<1> QED
  BY <1>1, AdmissionInvariant, PTL

\* ProcessAutoRenewals, called at an epoch boundary, takes a fee only from a user
\* whose paid period is over, and leaves that user with an active subscription.
THEOREM RenewalTheorem == Spec => RenewalBuysService
<1>1. ASSUME AdmissionInv, NEW u \in Users,
             autoRenewals /\ UNCHANGED currentSlot /\ balance'[u] < balance[u]
      PROVE  ~ IsActive(u, currentSlot) /\ IsActive(u, currentSlot)'
  <2> DEFINE slot == currentSlot
  <2>1. slot \in Nat
    BY <1>1 DEF AdmissionInv
  <2>2. ~ (balance[u] < balance[u])
    BY <1>1 DEF AdmissionInv, UsersInv, UsersType
  <2>3. Renew(toRenew(slot), toRenew(slot), slot)
    BY <1>1, Zenon DEF autoRenewals, ProcessAutoRenewals
  <2> HIDE DEF slot
  <2>5. u \in Renewed(slot) /\ u \in toRenew(slot)
    BY <1>1, <2>2, <2>3 DEF Renew, Renewed
  <2>6. subs[u].AutoRenew /\ slot >= subs[u].ExpiresSlot
    BY <2>5 DEF toRenew
  <2>7. subs[u] \in SubscriptionRecord /\ subs[u].Plan # NoPlan
    BY <1>1, <2>6 DEF AdmissionInv, UsersInv, UserOK, MatchesPlan, UsersType
  <2>8. ~ IsActive(u, slot)
    BY <2>1, <2>6, <2>7 DEF IsActive, SubscriptionRecord
  <2>9. subs'[u] = NewSubscription(u, subs[u].Plan, TRUE, slot)
    BY <2>3, <2>5, Zenon DEF Renew
  <2>10. RenewalStart(u, slot) = slot
    BY <2>1, <2>6, <2>7 DEF RenewalStart, SubscriptionRecord
  <2>11. /\ subs'[u].Plan # NoPlan /\ subs'[u].StartSlot = slot
         /\ subs'[u].ExpiresSlot = slot + SubscriptionDurationSlots
    BY <2>7, <2>9, <2>10 DEF NewSubscription
  <2>12. slot >= subs'[u].StartSlot /\ slot < subs'[u].ExpiresSlot
    BY <2>1, <2>11, SubscriptionAssumption
  <2> QED
    BY <1>1, <2>8, <2>11, <2>12 DEF IsActive, slot
<1>2. AdmissionInv /\ [Next]_vars =>
        [\A u \in Users :
            autoRenewals /\ UNCHANGED currentSlot /\ balance'[u] < balance[u] =>
               /\ ~ IsActive(u, currentSlot)
               /\ IsActive(u, currentSlot)']_vars
  BY <1>1, Zenon
<1> QED
  BY <1>2, AdmissionInvariant, PTL DEF Spec, RenewalBuysService
=============================================================================
