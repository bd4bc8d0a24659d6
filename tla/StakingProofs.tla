--------------------------- MODULE StakingProofs ----------------------------
(***************************************************************************)
(* Validators, the unbonding queue and the total stake, in one life of the *)
(* process and over crashes and restarts, for every set of validators and  *)
(* every value of the protocol parameters.                                 *)
(***************************************************************************)
EXTENDS AppProofs, SumTheorems

-----------------------------------------------------------------------------
(* Validators                                                              *)

\* A step of each validator keeps status and bond in agreement.
LEMMA StatusStays ==
    ASSUME StakingType, StakingType', StatusMatchesBond, \A a \in Addrs : ValidatorStep(a)
    PROVE  StatusMatchesBond'
<1> SUFFICES ASSUME NEW a \in Addrs, val'[a].Status # "none"
             PROVE  val'[a].Status = "active" <=> val'[a].Bond >= MinStake
  BY DEF StatusMatchesBond, Registered
<1>1. /\ MinStake \in Nat
      /\ val[a].Bond \in Nat /\ val'[a].Bond \in Nat
      /\ val[a].Status \in Statuses /\ val'[a].Status \in Statuses
  BY TypesAssumption DEF StakingType, Validator
<1>2. val[a].Status # "none" =>
         (val[a].Status = "active" <=> val[a].Bond >= MinStake)
  BY DEF StatusMatchesBond, Registered
<1>3. ValidatorStep(a)
  OBVIOUS
<1> QED
  BY <1>1, <1>2, <1>3 DEF ValidatorStep, Statuses

\* Jail holds in a step.
JailHolds ==
    \A a \in Addrs : val[a].Status = "jailed" =>
       /\ val'[a].Status = "jailed"
       /\ val'[a].Bond <= val[a].Bond

\* A jailed validator stays jailed, and its bond does not grow.
LEMMA JailStays ==
    ASSUME StakingType, StakingType', StatusMatchesBond, \A a \in Addrs : ValidatorStep(a)
    PROVE  JailHolds
<1> SUFFICES ASSUME NEW a \in Addrs, val[a].Status = "jailed"
             PROVE  val'[a].Status = "jailed" /\ val'[a].Bond <= val[a].Bond
  BY DEF JailHolds
<1>1. MinStake \in Nat /\ val[a].Bond \in Nat /\ val'[a].Bond \in Nat
  BY TypesAssumption DEF StakingType, Validator
<1>2. ~ (val[a].Bond >= MinStake)
  BY DEF StatusMatchesBond, Registered
<1>3. ValidatorStep(a)
  OBVIOUS
<1> QED
  BY <1>1, <1>2, <1>3 DEF ValidatorStep

\* A registered validator is active exactly while its bond is at least MinStake:
\* the jailing test of SlashBond and the release test of Unjail agree, for every
\* bond and every sequence of registrations, slashes, drains and unjailings.
THEOREM StatusTheorem == Spec => []StatusMatchesBond
<1>1. Init => StatusMatchesBond
  BY DEF Init, Fresh, StatusMatchesBond, Registered, NoValidator, NewValidator
<1>2. ASSUME TypeOK, TypeOK', StatusMatchesBond, [Next]_vars
      PROVE  StatusMatchesBond'
  BY <1>2, NextValidatorStep, StatusStays DEF TypeOK, StakingType
<1> QED
  BY <1>1, <1>2, TypeCorrectness, PTL DEF Spec

\* Jail is for ever and a jailed bond never grows: Unjail asks for a bond of at
\* least MinStake, and no handler can raise the bond of a registered validator.
THEOREM JailTheorem == Spec => JailIsForever
<1>1. ASSUME TypeOK, TypeOK', StatusMatchesBond, [Next]_vars
      PROVE  [JailHolds]_vars
  BY <1>1, NextValidatorStep, JailStays DEF TypeOK, StakingType
<1> QED
  BY <1>1, TypeCorrectness, StatusTheorem, PTL DEF Spec, JailIsForever, JailHolds

-----------------------------------------------------------------------------
(* Unbonding                                                               *)

\* Outside ProcessMatureUnbondings its local variables are empty, and within
\* it the records to delete are records of the queue that have matured.
ScanIsSound ==
    /\ phase # "unbond" => toDelete = {} /\ released = 0
    /\ \A e \in toDelete : e \in ub /\ e.MatureSlot <= currentSlot

\* The inductive invariant of the unbonding queue.
UnbondInv == ScanIsSound /\ NothingOverdue

\* How the queue and the variables of the scan move.
LEMMA NextQueue ==
    ASSUME TypeOK, [Next]_vars
    PROVE  \/ UNCHANGED <<ub, released, toDelete>>
           \/ /\ phase = "txs" /\ UNCHANGED <<released, toDelete>>
              /\ \E a \in Addrs, amount \in Int, d \in Delegators :
                    Undelegate(d, a, amount, currentSlot)
           \/ phase = "unbond" /\ \E e \in ub : ScanUnbonding(e, currentSlot)
           \/ phase = "unbond" /\ ReleaseUnbondings(currentSlot)
<1>1. StakingCases
  BY NextStakingCases
<1> QED
  BY <1>1, Zenon DEF StakingCases, stakingVars, RegisterValidator, Delegate, Undelegate,
     Unjail, SlashBond, IncrementMissed, ResetMissed

\* Every step of the application keeps the invariant of the unbonding queue.
LEMMA NextUnbondInv ==
    ASSUME TypeOK, UnbondInv, [Next]_vars
    PROVE  UnbondInv'

\* Undelegate is the only handler that adds to the queue, and what it adds
\* matures later than the block it is in.
<1>UndelegateMatures.
      ASSUME TypeOK, NEW d, NEW a, NEW amount, Undelegate(d, a, amount, currentSlot),
             NEW e \in ub'
      PROVE  e \in ub \/ e.MatureSlot > currentSlot
  <2> USE <1>UndelegateMatures
  <2> DEFINE mature == currentSlot + UnbondingEpochs * EpochSlots
             entry == [MatureSlot |-> mature, DelegatorAddr |-> d, ValidatorAddr |-> a,
                       Amount |-> amount]
  <2>1. UnbondingEpochs * EpochSlots \in Nat \ {0}
    <3>1. UnbondingEpochs \in Nat \ {0} /\ EpochSlots \in Nat \ {0}
      BY TypesAssumption
    <3> QED
      BY <3>1
  <2>2. mature > currentSlot
    <3>1. currentSlot \in Nat
      BY DEF TypeOK
    <3> DEFINE n == UnbondingEpochs * EpochSlots
    <3>2. n \in Nat \ {0}
      BY <2>1
    <3> HIDE DEF n
    <3>3. currentSlot + n > currentSlot
      BY <3>1, <3>2
    <3> QED
      BY <3>3 DEF n
  <2>3. ub' = {f \in ub : ubKey(f) # ubKey(entry)} \cup {entry}
    BY DEF Undelegate
  <2> HIDE DEF mature
  <2>4. entry.MatureSlot = mature
    OBVIOUS
  <2> HIDE DEF entry
  <2> QED
    BY <2>2, <2>3, <2>4

<1>1. CASE BeginBlock
  <2>1. /\ phase = "idle" /\ phase' = "unbond"
        /\ UNCHANGED <<ub, released, toDelete>>
    BY <1>1 DEF BeginBlock, stakingVars
  <2> QED
    BY <2>1 DEF UnbondInv, ScanIsSound, NothingOverdue
<1>2. CASE ProcessMatureUnbondings
  <2>1. CASE \E e \in ub : ScanUnbonding(e, currentSlot) /\ UNCHANGED phase
    <3>1. PICK e \in ub : ScanUnbonding(e, currentSlot)
      BY <2>1
    <3>2. /\ UNCHANGED <<ub, phase, currentSlot>>
          /\ toDelete' = toDelete \cup {e}
          /\ e.MatureSlot <= currentSlot
          /\ phase = "unbond"
      BY <1>2, <2>1, <3>1 DEF ProcessMatureUnbondings, ScanUnbonding, Mature
    <3> QED
      BY <3>2 DEF UnbondInv, ScanIsSound, NothingOverdue
  <2>2. CASE ReleaseUnbondings(currentSlot) /\ phase' = "drain"
    <3>1. /\ UNCHANGED currentSlot
          /\ toDelete' = {} /\ released' = 0
          /\ ub' = ub \ toDelete
          /\ {e \in ub : e.MatureSlot <= currentSlot} \subseteq toDelete
      BY <1>2, <2>2 DEF ProcessMatureUnbondings, ReleaseUnbondings, Mature
    <3>2. \A e \in ub' : ~ (e.MatureSlot <= currentSlot)
      BY <3>1
    <3>3. \A e \in ub' : e.MatureSlot \in Nat /\ currentSlot \in Nat
      BY <3>1 DEF TypeOK, UnbondingEntry
    <3>4. \A e \in ub' : e.MatureSlot > currentSlot'
      BY <3>1, <3>2, <3>3
    <3> QED
      BY <3>1, <3>4 DEF UnbondInv, ScanIsSound, NothingOverdue
  <2> QED
    BY <1>2, <2>1, <2>2 DEF ProcessMatureUnbondings
<1>3. CASE /\ UNCHANGED currentSlot
           /\ phase # "unbond" /\ phase' # "unbond"
           /\ phase' \in {"drain", "tally", "txs"} => phase \in {"drain", "tally", "txs"}
  <2>1. /\ UNCHANGED <<released, toDelete>>
        /\ \A e \in ub' : e \in ub \/ e.MatureSlot > currentSlot
    BY <1>3, NextQueue, <1>UndelegateMatures
  <2>2. toDelete' = {} /\ released' = 0
    BY <1>3, <2>1 DEF UnbondInv, ScanIsSound
  <2> QED
    BY <1>3, <2>1, <2>2 DEF UnbondInv, ScanIsSound, NothingOverdue
<1>4. CASE UNCHANGED vars
  BY <1>4 DEF vars, stakingVars, appVars, UnbondInv, ScanIsSound, NothingOverdue
<1> QED
  BY <1>1, <1>2, <1>3, <1>4, Zenon
  DEF Next, InitChain, EndEpoch, BeginTally, TallyExpiredDisputes, RecordTally,
      DeliverTx, EndBlock, Halt, appVars

\* The invariant of the unbonding queue is inductive.
THEOREM UnbondInvariant == Spec => []UnbondInv
<1>1. Init => UnbondInv
  BY DEF Init, Fresh, UnbondInv, ScanIsSound, NothingOverdue
<1>2. TypeOK /\ UnbondInv /\ [Next]_vars => UnbondInv'
  BY NextUnbondInv
<1> QED
  BY <1>1, <1>2, TypeCorrectness, PTL DEF Spec

\* Once ProcessMatureUnbondings has run in a block no matured record is left in
\* the queue, and no undelegation of the block brings one in.
THEOREM NothingOverdueTheorem == Spec => []NothingOverdue
<1>1. UnbondInv => NothingOverdue
  BY DEF UnbondInv
<1> QED
  BY <1>1, UnbondInvariant, PTL

\* A record leaves the unbonding queue only at its maturity, or for a record
\* under the same key: nothing else that moves stake touches the queue.
THEOREM ReleaseTheorem == Spec => ReleasedWhenMature
<1>1. ASSUME TypeOK, UnbondInv, [Next]_vars
      PROVE  QueueKeepsUnmatured
  <2> SUFFICES ASSUME NEW e \in ub
               PROVE  ubKey(e) \in {ubKey(f) : f \in ub'} \/ e.MatureSlot <= currentSlot
    BY DEF QueueKeepsUnmatured
  <2>1. CASE e \in ub'
    BY <2>1
  <2>2. ASSUME NEW a, NEW amount, NEW d, Undelegate(d, a, amount, currentSlot)
        PROVE  ubKey(e) \in {ubKey(f) : f \in ub'}
    <3> DEFINE entry == [MatureSlot |-> currentSlot + UnbondingEpochs * EpochSlots,
                         DelegatorAddr |-> d, ValidatorAddr |-> a, Amount |-> amount]
    <3>1. ub' = {f \in ub : ubKey(f) # ubKey(entry)} \cup {entry}
      BY <2>2 DEF Undelegate
    <3> HIDE DEF entry
    <3> QED
      BY <3>1
  <2>3. CASE ReleaseUnbondings(currentSlot)
    BY <1>1, <2>1, <2>3 DEF ReleaseUnbondings, UnbondInv, ScanIsSound
  <2>4. ASSUME NEW f \in ub, ScanUnbonding(f, currentSlot)
        PROVE  e \in ub'
    BY <2>4 DEF ScanUnbonding
  <2> QED
    BY <1>1, <2>1, <2>2, <2>3, <2>4, NextQueue
<1> QED
  BY <1>1, TypeCorrectness, UnbondInvariant, PTL DEF Spec, ReleasedWhenMature

-----------------------------------------------------------------------------
(* The total stake                                                         *)

SumOfReleased == SumFunctionOnSet([e \in toDelete |-> e.Amount], toDelete)

\* The unbonding queue is a finite set of records with one record per key, as the
\* store has it.
QueueOK(Q) == IsFiniteSet(Q) /\ \A e, f \in Q : ubKey(e) = ubKey(f) => e = f

\* The queue is as it should be, released is the sum of the records to delete, and
\* an address without a validator has an empty record.
BooksOK ==
    /\ QueueOK(ub)
    /\ toDelete \subseteq ub
    /\ released = SumOfReleased
    /\ \A a \in Addrs : val[a].Status = "none" => val[a] = NoValidator

\* The sum of the validators' stake.
LEMMA StakeSumType ==
    /\ StakingType => SumOfStake \in Int
    /\ StakingType' => SumOfStake' \in Int
<1>1. ASSUME NEW v \in [Addrs -> Validator]
      PROVE  SumFunctionOnSet([a \in Addrs |-> v[a].TotalStake], Addrs) \in Int
  <2> DEFINE f == [a \in Addrs |-> v[a].TotalStake]
  <2>1. \A a \in Addrs : f[a] \in Int
    BY DEF Validator
  <2> HIDE DEF f
  <2>2. SumFunctionOnSet(f, Addrs) \in Int
    BY <2>1, AppAssumption, SumType
  <2> QED
    BY <2>2 DEF f
<1> QED
  BY <1>1 DEF StakingType, SumOfStake

\* The amounts over any part of the queue.
LEMMA AmountsType ==
    ASSUME NEW Q, Q \subseteq UnbondingEntry, IsFiniteSet(Q),
           NEW R \in SUBSET Q
    PROVE  /\ SumFunctionOnSet([e \in R |-> e.Amount], R) \in Int
           /\ SumFunctionOnSet([e \in R |-> e.Amount], R)
                = SumFunctionOnSet([e \in Q |-> e.Amount], R)
<1> DEFINE f == [e \in Q |-> e.Amount]
           g == [e \in R |-> e.Amount]
<1>1. \A e \in R : f[e] \in Int /\ g[e] \in Int /\ g[e] = f[e]
  BY DEF UnbondingEntry
<1>2. IsFiniteSet(R)
  BY FS_Subset
<1> HIDE DEF f, g
<1>3. SumFunctionOnSet(g, R) \in Int /\ SumFunctionOnSet(g, R) = SumFunctionOnSet(f, R)
  BY <1>1, <1>2, SumType, SumSame
<1> QED
  BY <1>3 DEF f, g

\* The three numbers the total stake is compared by.
LEMMA SurplusType ==
    /\ StakingType /\ BooksOK =>
         SumOfUnbonding \in Int /\ SumOfStake \in Int /\ total_stake \in Int
    /\ StakingType' /\ BooksOK' =>
         SumOfUnbonding' \in Int /\ SumOfStake' \in Int /\ total_stake' \in Int
<1>1. ASSUME StakingType, BooksOK
      PROVE  SumOfUnbonding \in Int
  BY <1>1, AmountsType DEF BooksOK, QueueOK, StakingType, SumOfUnbonding
<1>2. ASSUME StakingType', BooksOK'
      PROVE  SumOfUnbonding' \in Int
  BY <1>2, AmountsType DEF BooksOK, QueueOK, StakingType, SumOfUnbonding
<1> QED
  BY <1>1, <1>2, StakeSumType DEF StakingType

\* The stake of one validator changes: so does the sum.
LEMMA StakeMoves ==
    ASSUME StakingType, StakingType', NEW b \in Addrs, NEW d \in Int,
           val'[b].TotalStake = val[b].TotalStake + d,
           \A a \in Addrs \ {b} : val'[a].TotalStake = val[a].TotalStake
    PROVE  SumOfStake' = SumOfStake + d
<1> DEFINE f == [a \in Addrs |-> val[a].TotalStake]
           g == [a \in Addrs |-> val'[a].TotalStake]
<1>1. /\ \A a \in Addrs : val[a].TotalStake \in Int /\ val'[a].TotalStake \in Int
      /\ f[b] = val[b].TotalStake /\ g[b] = val'[b].TotalStake
      /\ \A a \in Addrs \ {b} : f[a] \in Int /\ g[a] = f[a]
  BY DEF StakingType, Validator
<1>2. SumOfStake = SumFunctionOnSet(f, Addrs) /\ SumOfStake' = SumFunctionOnSet(g, Addrs)
  BY DEF SumOfStake
<1> HIDE DEF f, g
<1>3. SumFunctionOnSet(g, Addrs) = SumFunctionOnSet(f, Addrs) + g[b] - f[b]
  BY <1>1, AppAssumption, SumUpdate
<1>4. SumOfStake \in Int
  BY StakeSumType
<1> QED
  BY <1>1, <1>2, <1>3, <1>4

\* A step that changes no stake keeps their sum.
LEMMA StakeStays ==
    ASSUME StakingType,
           \A a \in Addrs : val'[a].TotalStake = val[a].TotalStake
    PROVE  SumOfStake' = SumOfStake
  BY DEF SumOfStake

\* Every step of staking accounts for the stake it moves and keeps the books.
LEMMA StakingSurplus ==
    ASSUME TypeOK, TypeOK', BooksOK, phase # "unbond" => toDelete = {}, StakingCases,
           \A a \in Addrs : ValidatorStep(a)
    PROVE  StakeStepAccounted /\ BooksOK'

\* Registration, delegation and slashing move the total with the validator.
<1>TransferSurplus.
      ASSUME StakingType, StakingType', BooksOK, NEW b \in Addrs,
             \/ \E bond \in Nat : RegisterValidator(b, bond)
             \/ \E amount \in Int : Delegate(b, amount)
             \/ \E bps \in Nat : SlashBond(b, bps)
      PROVE  Surplus' = Surplus
  <2> USE <1>TransferSurplus
  <2>1. PICK d \in Int :
          /\ val'[b].TotalStake = val[b].TotalStake + d
          /\ total_stake' = total_stake + d
          /\ \A a \in Addrs \ {b} : val'[a] = val[a]
          /\ ub' = ub
    <3>1. val[b] \in Validator /\ val[b].TotalStake \in Int /\ val[b].Bond \in Nat
      BY DEF StakingType, Validator
    <3>2. ASSUME NEW bond \in Nat, RegisterValidator(b, bond)
          PROVE  /\ val'[b].TotalStake = val[b].TotalStake + bond
                 /\ total_stake' = total_stake + bond
                 /\ \A a \in Addrs \ {b} : val'[a] = val[a]
                 /\ ub' = ub
      <4>1. val[b].TotalStake = 0
        <5>1. val[b] = NoValidator
          BY <3>2 DEF RegisterValidator, Registered, BooksOK
        <5>2. NoValidator.TotalStake = 0
          BY DEF NoValidator, NewValidator
        <5> QED
          BY <5>1, <5>2
      <4>2. val'[b].TotalStake = bond
        BY <3>2, Zenon DEF RegisterValidator, StakingType, NewValidator
      <4> QED
        BY <3>2, <4>1, <4>2 DEF RegisterValidator, StakingType
    <3>3. ASSUME NEW amount \in Int, Delegate(b, amount)
          PROVE  /\ val'[b].TotalStake = val[b].TotalStake + amount
                 /\ total_stake' = total_stake + amount
                 /\ \A a \in Addrs \ {b} : val'[a] = val[a]
                 /\ ub' = ub
      BY <3>1, <3>3 DEF Delegate, StakingType, Validator
    <3>4. ASSUME NEW bps \in Nat, SlashBond(b, bps)
          PROVE  LET d == - SlashAmount(val[b].Bond, bps)
                 IN /\ d \in Int
                    /\ val'[b].TotalStake = val[b].TotalStake + d
                    /\ total_stake' = total_stake + d
                    /\ \A a \in Addrs \ {b} : val'[a] = val[a]
                    /\ ub' = ub
      <4> DEFINE amount == SlashAmount(val[b].Bond, bps)
      <4>1. amount \in Int
        <5>1. amount \in 0 .. val[b].Bond
          BY <3>1, SlashAmountBounds, Zenon
        <5> HIDE DEF amount
        <5> QED
          BY <3>1, <5>1
      <4>2. val'[b].TotalStake = val[b].TotalStake - amount
        BY <3>1, <3>4, SlashedStake DEF SlashBond, StakingType
      <4>3. total_stake' = total_stake - amount /\ total_stake \in Int
        BY <3>4 DEF SlashBond, StakingType
      <4>4. (\A a \in Addrs \ {b} : val'[a] = val[a]) /\ ub' = ub
        BY <3>4 DEF SlashBond, StakingType
      <4> HIDE DEF amount
      <4>5. /\ - amount \in Int
            /\ val'[b].TotalStake = val[b].TotalStake + (- amount)
            /\ total_stake' = total_stake + (- amount)
        BY <3>1, <4>1, <4>2, <4>3
      <4> QED
        BY <4>4, <4>5, Zenon DEF amount
    <3> QED
      BY <3>2, <3>3, <3>4
  <2>2. SumOfStake' = SumOfStake + d
    BY <2>1, StakeMoves, Zenon
  <2>3. SumOfUnbonding' = SumOfUnbonding
    BY <2>1, Zenon DEF SumOfUnbonding
  <2>4. SumOfStake \in Int /\ SumOfUnbonding \in Int /\ total_stake \in Int
    BY SurplusType
  <2> QED
    BY <2>1, <2>2, <2>3, <2>4 DEF Surplus

\* Undelegate moves stake from the validator to the queue; the amount of a record
\* it writes over is lost to the queue, not to the total.
<1>UndelegateSurplus.
      ASSUME StakingType, StakingType', BooksOK, NEW b \in Addrs, NEW d \in Delegators,
             NEW amount \in Int, currentSlot \in Nat, phase = "txs",
             Undelegate(d, b, amount, currentSlot)
      PROVE  StakeStepAccounted /\ QueueOK(ub')
  <2> USE <1>UndelegateSurplus
  <2> DEFINE mature == currentSlot + UnbondingEpochs * EpochSlots
             entry == [MatureSlot |-> mature,
                       DelegatorAddr |-> d, ValidatorAddr |-> b, Amount |-> amount]
             kept == {e \in ub : ubKey(e) # ubKey(entry)}
             f == [e \in ub' |-> e.Amount]
             g == [e \in ub |-> e.Amount]
  <2>1. /\ ub' = kept \cup {entry}
        /\ kept = {e \in ub : ubKey(e) # ubKey(entry)}
        /\ entry \notin kept
        /\ kept \in SUBSET ub /\ kept \in SUBSET ub'
        /\ entry.Amount = amount
        /\ \A e : ubKey(e) = ubKey(entry) => e.MatureSlot = mature
    BY DEF Undelegate, ubKey
  <2> HIDE DEF mature, entry, kept
  <2>2. IsFiniteSet(ub) /\ IsFiniteSet(kept) /\ IsFiniteSet(ub')
    <3>1. IsFiniteSet(ub) /\ IsFiniteSet(kept)
      BY <2>1, FS_Subset, Zenon DEF BooksOK, QueueOK
    <3> QED
      BY <2>1, <3>1, FS_AddElement
  <2>3. QueueOK(ub')
    BY <2>1, <2>2 DEF QueueOK, BooksOK
  <2>4. SumOfUnbonding' = SumFunctionOnSet(f, kept) + amount
    <3>1. f[entry] = amount /\ \A e \in kept \cup {entry} : f[e] \in Int
      BY <2>1 DEF StakingType, UnbondingEntry
    <3>2. SumOfUnbonding' = SumFunctionOnSet(f, kept \cup {entry})
      BY <2>1 DEF SumOfUnbonding
    <3> HIDE DEF f
    <3> QED
      BY <2>1, <2>2, <3>1, <3>2, SumAdd
  <2>5. SumFunctionOnSet(f, kept) \in Int /\ SumFunctionOnSet(f, kept) = SumFunctionOnSet(g, kept)
    BY <2>1, <2>2, AmountsType DEF StakingType
  <2>6. SumOfStake' = SumOfStake + (- amount)
    <3>1. /\ val'[b].TotalStake = val[b].TotalStake + (- amount)
          /\ \A a \in Addrs \ {b} : val'[a].TotalStake = val[a].TotalStake
          /\ - amount \in Int
      BY DEF Undelegate, StakingType, Validator
    <3> QED
      BY <3>1, StakeMoves, Zenon
  <2>7. /\ SumOfStake \in Int /\ SumOfUnbonding \in Int /\ total_stake \in Int
        /\ total_stake' = total_stake
        /\ SumOfUnbonding = SumFunctionOnSet(g, ub)
    BY SurplusType DEF Undelegate, SumOfUnbonding
  <2> HIDE DEF f
  <2> DEFINE s == SumFunctionOnSet(f, kept)
  <2>8. s \in Int /\ Surplus' = total_stake - (SumOfStake + (- amount)) - (s + amount)
    BY <2>4, <2>5, <2>6, <2>7 DEF Surplus
  <2>9. CASE kept = ub
    <3>1. s = SumOfUnbonding
      BY <2>5, <2>7, <2>9
    <3> HIDE DEF s
    <3>2. Surplus' = Surplus
      BY <2>7, <2>8, <3>1 DEF Surplus
    <3> QED
      BY <2>3, <3>2 DEF StakeStepAccounted
  <2>10. CASE kept # ub
    <3>1. PICK e \in ub : ubKey(e) = ubKey(entry)
      BY <2>1, <2>10
    <3>2. kept = ub \ {e}
      BY <2>1, <3>1 DEF BooksOK, QueueOK
    <3>3. SumOfUnbonding = e.Amount + s /\ e.Amount \in Int
      <4>1. g[e] = e.Amount /\ \A x \in ub : g[x] \in Int
        BY DEF StakingType, UnbondingEntry
      <4> HIDE DEF g
      <4>2. SumFunctionOnSet(g, ub) = g[e] + SumFunctionOnSet(g, ub \ {e})
        BY <2>2, <4>1, SumRemove
      <4> QED
        BY <2>5, <2>7, <3>2, <4>1, <4>2
    <3> HIDE DEF s
    <3>4. Surplus' = Surplus + e.Amount
      BY <2>7, <2>8, <3>3 DEF Surplus
    <3>5. ReplacesRecord(e)
      BY <2>1, <2>7, <3>1 DEF ReplacesRecord, mature
    <3> QED
      BY <2>3, <3>4, <3>5 DEF StakeStepAccounted
  <2> QED
    BY <2>9, <2>10

\* ReleaseUnbondings takes from the total what leaves the queue, if that is a
\* positive amount.
<1>ReleaseSurplus.
      ASSUME StakingType, BooksOK, NEW slot, ReleaseUnbondings(slot),
             phase = "unbond", phase' = "drain"
      PROVE  StakeStepAccounted /\ BooksOK'
  <2> USE <1>ReleaseSurplus
  <2> DEFINE f == [e \in ub |-> e.Amount]
             g == [e \in ub' |-> e.Amount]
  <2>1. /\ ub' = ub \ toDelete /\ ub' \in SUBSET ub /\ toDelete \in SUBSET ub
        /\ IsFiniteSet(ub) /\ ub \subseteq UnbondingEntry
        /\ val' = val /\ toDelete' = {} /\ released' = 0
    BY DEF ReleaseUnbondings, BooksOK, QueueOK, StakingType
  <2>2. QueueOK(ub')
    BY <2>1, FS_Subset DEF BooksOK, QueueOK
  <2>3. /\ SumOfUnbonding = SumFunctionOnSet(f, ub)
        /\ SumOfUnbonding' = SumFunctionOnSet(f, ub \ toDelete)
        /\ released = SumFunctionOnSet(f, toDelete)
    <3>1. SumFunctionOnSet(g, ub') = SumFunctionOnSet(f, ub')
      BY <2>1, AmountsType, Zenon
    <3>2. released = SumFunctionOnSet(f, toDelete)
      BY <2>1, AmountsType DEF BooksOK, SumOfReleased
    <3>3. SumOfUnbonding' = SumFunctionOnSet(g, ub')
      BY DEF SumOfUnbonding
    <3> QED
      BY <2>1, <3>1, <3>2, <3>3 DEF SumOfUnbonding
  <2>4. SumFunctionOnSet(f, ub \ toDelete) =
           SumFunctionOnSet(f, ub) - SumFunctionOnSet(f, toDelete)
    <3>1. \A e \in ub : f[e] \in Int
      BY <2>1 DEF UnbondingEntry
    <3> HIDE DEF f
    <3> QED
      BY <2>1, <3>1, SumMinus
  <2>5. /\ SumOfStake \in Int /\ SumOfUnbonding \in Int /\ total_stake \in Int
        /\ released \in Int
        /\ SumOfStake' = SumOfStake
        /\ \/ released > 0 /\ total_stake' = total_stake - released
           \/ ~ (released > 0) /\ total_stake' = total_stake
    <3>1. SumOfStake' = SumOfStake
      BY <2>1 DEF SumOfStake
    <3>2. \/ released > 0 /\ total_stake' = total_stake - released
          \/ ~ (released > 0) /\ total_stake' = total_stake
      BY Zenon DEF ReleaseUnbondings
    <3> QED
      BY <3>1, <3>2, SurplusType DEF StakingType
  <2>6. SumOfUnbonding' = SumOfUnbonding - released
    BY <2>3, <2>4
  <2>7. BooksOK'
    <3>1. SumOfReleased' = 0
      <4> DEFINE h == [e \in {} |-> e.Amount]
      <4>1. SumOfReleased' = SumFunctionOnSet(h, {})
        BY <2>1 DEF SumOfReleased
      <4>2. SumFunctionOnSet(h, {}) = 0
        <5> HIDE DEF h
        <5>1. IsFiniteSet({})
          BY FS_EmptySet
        <5> QED
          BY <5>1, SumByPick
      <4> QED
        BY <4>1, <4>2
    <3> QED
      BY <2>1, <2>2, <3>1 DEF BooksOK
  <2>8. CASE released > 0 /\ total_stake' = total_stake - released
    <3>1. Surplus' = Surplus
      BY <2>5, <2>6, <2>8 DEF Surplus
    <3> QED
      BY <2>7, <3>1 DEF StakeStepAccounted
  <2>9. CASE ~ (released > 0) /\ total_stake' = total_stake
    <3>1. released <= 0 /\ Surplus' = Surplus + released
      BY <2>5, <2>6, <2>9 DEF Surplus
    <3> QED
      BY <2>7, <3>1, Zenon DEF StakeStepAccounted
  <2> QED
    BY <2>5, <2>8, <2>9

\* ScanUnbonding adds a record's amount to released when it marks the record.
<1>ScanSurplus.
      ASSUME StakingType, BooksOK, NEW e \in ub, NEW slot, ScanUnbonding(e, slot)
      PROVE  /\ Surplus' = Surplus
             /\ BooksOK'
  <2> USE <1>ScanSurplus
  <2> DEFINE f == [x \in ub |-> x.Amount]
             T == toDelete \cup {e}
  <2>1. /\ UNCHANGED <<val, ub, total_stake>>
        /\ toDelete' = T /\ e \notin toDelete
        /\ released' = released + e.Amount
        /\ T \in SUBSET ub /\ toDelete \in SUBSET ub
        /\ IsFiniteSet(ub) /\ ub \subseteq UnbondingEntry
        /\ released = SumOfReleased
    BY DEF ScanUnbonding, BooksOK, QueueOK, StakingType
  <2>2. released = SumFunctionOnSet(f, toDelete) /\ SumOfReleased' = SumFunctionOnSet(f, T)
    <3>1. /\ SumFunctionOnSet([x \in toDelete |-> x.Amount], toDelete)
               = SumFunctionOnSet(f, toDelete)
          /\ SumFunctionOnSet([x \in T |-> x.Amount], T) = SumFunctionOnSet(f, T)
      BY <2>1, AmountsType, Zenon
    <3> QED
      BY <2>1, <3>1 DEF SumOfReleased
  <2>3. SumFunctionOnSet(f, T) = SumFunctionOnSet(f, toDelete) + f[e]
    <3>1. IsFiniteSet(toDelete) /\ \A x \in toDelete \cup {e} : f[x] \in Int
      BY <2>1, FS_Subset DEF UnbondingEntry
    <3> HIDE DEF f
    <3> QED
      BY <2>1, <3>1, SumAdd, Zenon
  <2>4. released' = SumOfReleased'
    BY <2>1, <2>2, <2>3
  <2>5. BooksOK'
    BY <2>1, <2>4, Zenon DEF BooksOK
  <2>6. Surplus' = Surplus
    BY <2>1, Zenon DEF Surplus, SumOfStake, SumOfUnbonding
  <2> QED
    BY <2>5, <2>6

<1>1. StakingType /\ StakingType' /\ currentSlot \in Nat
  BY DEF TypeOK, StakingType
<1>2. \A a \in Addrs : val'[a].Status = "none" => val'[a] = NoValidator
  <2> SUFFICES ASSUME NEW a \in Addrs, val'[a].Status = "none"
               PROVE  val'[a] = NoValidator
    OBVIOUS
  <2>1. val[a].Status = "none"
    BY Zenon DEF ValidatorStep
  <2>2. val[a] = NoValidator
    BY <2>1 DEF BooksOK
  <2>3. val'[a] = val[a]
    BY <1>1, <2>1, EmptyRecordStays
  <2> QED
    BY <2>2, <2>3
<1>3. ASSUME UNCHANGED <<ub, released, toDelete>>
      PROVE  BooksOK'
  BY <1>2, <1>3 DEF BooksOK, SumOfReleased
<1>4. ASSUME NEW b \in Addrs,
             \/ \E bond \in Nat : RegisterValidator(b, bond)
             \/ \E amount \in Int : Delegate(b, amount)
             \/ \E bps \in Nat : SlashBond(b, bps)
      PROVE  StakeStepAccounted /\ BooksOK'
  <2>1. UNCHANGED <<ub, released, toDelete>>
    BY <1>4 DEF RegisterValidator, Delegate, SlashBond
  <2>2. Surplus' = Surplus
    BY <1>1, <1>4, <1>TransferSurplus
  <2> QED
    BY <1>3, <2>1, <2>2 DEF StakeStepAccounted
<1>5. ASSUME NEW b \in Addrs, NEW amount \in Int, NEW d \in Delegators,
             phase = "txs", Undelegate(d, b, amount, currentSlot)
      PROVE  StakeStepAccounted /\ BooksOK'
  <2>1. StakeStepAccounted /\ QueueOK(ub')
    BY <1>1, <1>5, <1>UndelegateSurplus
  <2>2. UNCHANGED <<released, toDelete>> /\ toDelete = {}
    BY <1>5 DEF Undelegate
  <2> QED
    BY <1>2, <2>1, <2>2, Zenon DEF BooksOK, SumOfReleased
<1>6. ASSUME UNCHANGED <<ub, total_stake, released, toDelete>>,
             \A a \in Addrs : val'[a].TotalStake = val[a].TotalStake
      PROVE  StakeStepAccounted /\ BooksOK'
  <2>1. Surplus' = Surplus
    BY <1>1, <1>6, StakeStays, Zenon DEF Surplus, SumOfUnbonding
  <2> QED
    BY <1>3, <1>6, <2>1 DEF StakeStepAccounted
<1>7. ASSUME \/ UNCHANGED stakingVars
             \/ \E a \in Addrs : Unjail(a)
             \/ \E missed : IncrementMissed(missed)
             \/ \E a \in Servers : ResetMissed(a, currentEpoch)
      PROVE  StakeStepAccounted /\ BooksOK'
  <2>1. UNCHANGED <<ub, total_stake, released, toDelete>>
    BY <1>7, Zenon DEF stakingVars, Unjail, IncrementMissed, ResetMissed
  <2>2. \A a \in Addrs : val'[a].TotalStake = val[a].TotalStake
    <3>1. ASSUME NEW b \in Addrs, Unjail(b), NEW a \in Addrs
          PROVE  val'[a].TotalStake = val[a].TotalStake
      BY <1>1, <3>1 DEF Unjail, StakingType, Validator
    <3>2. ASSUME NEW missed, IncrementMissed(missed), NEW a \in Addrs
          PROVE  val'[a].TotalStake = val[a].TotalStake
      BY <1>1, <3>2 DEF IncrementMissed, StakingType, Validator
    <3>3. ASSUME NEW b \in Servers, ResetMissed(b, currentEpoch), NEW a \in Addrs
          PROVE  val'[a].TotalStake = val[a].TotalStake
      BY <1>1, <3>3 DEF ResetMissed, StakingType, Validator
    <3> QED
      BY <1>7, <3>1, <3>2, <3>3 DEF stakingVars
  <2> QED
    BY <1>6, <2>1, <2>2, Zenon
<1>8. ASSUME NEW e \in ub, ScanUnbonding(e, currentSlot)
      PROVE  StakeStepAccounted /\ BooksOK'
  BY <1>1, <1>8, <1>ScanSurplus DEF StakeStepAccounted
<1>9. CASE phase = "unbond" /\ phase' = "drain" /\ ReleaseUnbondings(currentSlot)
  BY <1>1, <1>9, <1>ReleaseSurplus
<1> QED
  BY <1>4, <1>5, <1>7, <1>8, <1>9 DEF StakingCases

\* A new application has its books in order.
LEMMA FreshBooks ==
    ASSUME Fresh
    PROVE  BooksOK
<1>1. /\ \A a \in Addrs : val[a] = NoValidator
      /\ ub = {} /\ toDelete = {} /\ released = 0 /\ total_stake = 0
  BY DEF Fresh
<1>2. IsFiniteSet({})
  BY FS_EmptySet
<1>3. \A f : SumFunctionOnSet(f, {}) = 0
  BY <1>2, SumByPick, Zenon
<1>4. SumOfReleased = 0
  BY <1>1, <1>3 DEF SumOfReleased
<1> QED
  BY <1>1, <1>2, <1>4 DEF BooksOK, QueueOK

\* The total stake moves with the validators' stake and the amounts unbonding,
\* through registrations, delegations, undelegations, releases and slashes, for
\* amounts of either sign and any number of each, but for the amount of an
\* undelegation written over in its block and a release that is not positive.
THEOREM StakeTheorem == Spec => StakeIsAccounted
<1>1. Init => BooksOK
  BY FreshBooks DEF Init
<1>2. ASSUME TypeOK, TypeOK', UnbondInv, BooksOK, [Next]_vars
      PROVE  StakeStepAccounted /\ BooksOK'
  BY <1>2, NextStakingCases, NextValidatorStep, StakingSurplus DEF UnbondInv, ScanIsSound
<1> QED
  BY <1>1, <1>2, TypeCorrectness, UnbondInvariant, PTL DEF Spec, StakeIsAccounted

-----------------------------------------------------------------------------
(* Staking over restarts                                                   *)

\* A validator is active exactly while its bond is at least MinStake, over crashes
\* too: status and bond are fields of one record and written together.
THEOREM RestartStatusTheorem == RestartSpec => []StatusMatchesBond
<1>1. RestartInit => StatusMatchesBond
  BY DEF RestartInit, Fresh, StatusMatchesBond, Registered, NoValidator, NewValidator
<1>2. ASSUME RestartInv, RestartInv', StatusMatchesBond, [RestartNext]_restartVars
      PROVE  StatusMatchesBond'
  BY <1>2, RestartValidatorStep, StatusStays DEF RestartInv, RestartTypeOK
<1> QED
  BY <1>1, <1>2, RestartInvariant, PTL DEF RestartSpec

\* No crash and no block executed again lets a jailed validator back or raises
\* its bond: RegisterValidator refuses an address that has a record.
THEOREM RestartJailTheorem == RestartSpec => JailIsForever
<1>1. ASSUME RestartInv, RestartInv', StatusMatchesBond, [RestartNext]_restartVars
      PROVE  [JailHolds]_vars
  BY <1>1, RestartValidatorStep, JailStays DEF RestartInv, RestartTypeOK
<1> QED
  BY <1>1, RestartInvariant, RestartStatusTheorem, PTL
  DEF RestartSpec, JailIsForever, JailHolds

\* The books are those of the application, and so is the unbonding queue: a
\* process that dies forgets what it was about to release.
RestartBooks == UnbondInv /\ BooksOK

\* The process started over a store finds its books in order.
THEOREM RestartBooksTheorem == RestartSpec => []RestartBooks

<1>CrashBooks.
      ASSUME RestartInv, RestartBooks, Crash
      PROVE  RestartBooks'
  <2> USE <1>CrashBooks
  <2>1. TypeOK /\ TypeOK' /\ CrashStaking /\ Start
    BY CrashTypes DEF RestartInv, Crash
  <2>2. StakingType
    BY DEF RestartInv, RestartTypeOK
  <2>3. /\ toDelete' = {} /\ released' = 0 /\ phase' = "genesis"
    BY <2>1 DEF Start
  <2>4. UnbondInv'
    BY <2>3 DEF UnbondInv, ScanIsSound, NothingOverdue
  <2>5. QueueOK(ub')
    <3>1. ub' \subseteq ub
      BY <2>1, Zenon DEF CrashStaking, IncrementMissed, ResetMissed
    <3> QED
      BY <3>1, FS_Subset DEF RestartBooks, BooksOK, QueueOK
  <2>6. SumOfReleased' = 0
    <3>1. \A f : SumFunctionOnSet(f, {}) = 0
      BY FS_EmptySet, SumByPick
    <3> QED
      BY <2>3, <3>1 DEF SumOfReleased
  <2>7. \A a \in Addrs : val'[a].Status = "none" => val'[a] = NoValidator
    <3> SUFFICES ASSUME NEW a \in Addrs, val'[a].Status = "none"
                 PROVE  val'[a] = NoValidator
      OBVIOUS
    <3>1. val'[a] = val[a]
      BY <2>1, <2>2, CrashValidatorStep
    <3> QED
      BY <3>1 DEF RestartBooks, BooksOK
  <2> QED
    BY <2>3, <2>4, <2>5, <2>6, <2>7 DEF RestartBooks, BooksOK

<1>NextRestartBooks.
      ASSUME RestartInv, RestartBooks, [RestartNext]_restartVars
      PROVE  RestartBooks'
  <2> USE <1>NextRestartBooks
  <2>1. CASE Run
    <3>1. TypeOK /\ [Next]_vars
      BY <2>1, RunIsNext DEF RestartInv
    <3>2. TypeOK'
      BY <3>1, NextType
    <3>3. UnbondInv'
      BY <3>1, NextUnbondInv DEF RestartBooks
    <3>4. phase # "unbond" => toDelete = {}
      BY DEF RestartBooks, UnbondInv, ScanIsSound
    <3>5. BooksOK'
      BY <3>1, <3>2, <3>4, NextStakingCases, NextValidatorStep, StakingSurplus DEF RestartBooks
    <3> QED
      BY <3>3, <3>5 DEF RestartBooks
  <2>2. CASE Crash
    BY <2>2, <1>CrashBooks
  <2>3. CASE StopsOnly
    <3>1. UnbondInv'
      BY <2>3 DEF StopsOnly, storeVars, RestartBooks, UnbondInv, ScanIsSound, NothingOverdue
    <3>2. BooksOK'
      BY <2>3, Zenon DEF StopsOnly, storeVars, RestartBooks, BooksOK, SumOfReleased
    <3> QED
      BY <3>1, <3>2 DEF RestartBooks
  <2> QED
    BY <2>1, <2>2, <2>3, RestartCases

<1>1. ASSUME RestartInit
      PROVE  RestartBooks
  <2>1. Fresh
    BY <1>1 DEF RestartInit
  <2>2. BooksOK
    BY <2>1, FreshBooks
  <2> QED
    BY <2>1, <2>2 DEF Fresh, RestartBooks, UnbondInv, ScanIsSound, NothingOverdue
<1> QED
  BY <1>1, <1>NextRestartBooks, RestartInvariant, PTL DEF RestartSpec

\* Over any number of crashes the total stake parts from the stake it is the sum of
\* by one operation per crash: every handler of staking writes one record before
\* the total and one after it, and a block executed again moves both.
THEOREM DriftTheorem == RestartSpec => DriftOnlyByCrash

\* The stake of one validator moves and nothing else.
<1>OneStakeMoves.
      ASSUME StakingType, StakingType', BooksOK, NEW b \in Addrs, NEW d \in Int,
             val'[b].TotalStake = val[b].TotalStake + d,
             \A a \in Addrs \ {b} : val'[a].TotalStake = val[a].TotalStake,
             UNCHANGED <<ub, total_stake>>
      PROVE  Surplus' - Surplus = - d
  <2> USE <1>OneStakeMoves
  <2>1. SumOfStake' = SumOfStake + d
    BY StakeMoves, Zenon
  <2>2. SumOfUnbonding' = SumOfUnbonding /\ total_stake' = total_stake
    BY Zenon DEF SumOfUnbonding
  <2>3. SumOfUnbonding \in Int /\ SumOfStake \in Int /\ total_stake \in Int
    BY SurplusType
  <2>4. Surplus' = total_stake - (SumOfStake + d) - SumOfUnbonding
    BY <2>1, <2>2 DEF Surplus
  <2> QED
    BY <2>3, <2>4 DEF Surplus

\* What a crash leaves of staking differs by the one record that is missing.
<1>CrashSurplus.
      ASSUME RestartTypeOK, StakingType', BooksOK, CrashStaking
      PROVE  CrashDrift(Surplus' - Surplus)
  <2> USE <1>CrashSurplus
  <2>1. /\ StakingType
        /\ \A b \in Addrs : /\ val[b] \in Validator /\ val[b].Bond \in Nat
                            /\ val[b].TotalStake \in Int /\ val'[b] \in Validator
        /\ Registered \subseteq Addrs
        /\ Bonds \subseteq Int /\ Amounts \subseteq Int
    BY StakingAssumption DEF RestartTypeOK, StakingType, Validator, Registered
  <2>2. SumOfUnbonding \in Int /\ SumOfStake \in Int /\ total_stake \in Int /\ Surplus \in Int
    <3>1. SumOfUnbonding \in Int /\ SumOfStake \in Int /\ total_stake \in Int
      BY <2>1, SurplusType
    <3> QED
      BY <3>1 DEF Surplus
  <2>3. ASSUME \A a \in Addrs : val'[a].TotalStake = val[a].TotalStake, UNCHANGED <<ub, total_stake>>
        PROVE  CrashDrift(Surplus' - Surplus)
    <3>1. SumOfStake' = SumOfStake
      BY <2>1, <2>3, StakeStays
    <3>2. Surplus' = Surplus
      BY <2>3, <3>1 DEF Surplus, SumOfUnbonding
    <3>3. Surplus' - Surplus = 0
      BY <2>2, <3>2
    <3> QED
      BY <3>3 DEF CrashDrift
  <2>4. ASSUME NEW b \in Addrs, NEW bond \in Nat, b \notin Registered, bond \in BondsOf(b),
               val' = [val EXCEPT ![b] = NewValidator(bond)], UNCHANGED <<ub, total_stake>>
        PROVE  CrashDrift(Surplus' - Surplus)
    <3>1. val[b].TotalStake = 0
      BY <2>4 DEF BooksOK, Registered, NoValidator, NewValidator
    <3>2. val'[b] = NewValidator(bond) /\ \A a \in Addrs \ {b} : val'[a] = val[a]
      BY <2>1, <2>4 DEF StakingType
    <3>3. val'[b].TotalStake = val[b].TotalStake + bond
      BY <3>1, <3>2 DEF NewValidator
    <3>4. Surplus' - Surplus = - bond
      BY <2>1, <2>4, <3>2, <3>3, <1>OneStakeMoves
    <3>5. \/ phase = "genesis" /\ b \in genesis /\ bond = GenesisBond[b]
          \/ phase = "txs" /\ bond \in Bonds
      BY <2>4 DEF BondsOf
    <3> QED
      BY <3>4, <3>5, Zenon DEF CrashDrift
  <2>5. ASSUME NEW b \in Registered, NEW amount \in Amounts, phase = "txs",
               \/ val' = [val EXCEPT ![b] = [val[b] EXCEPT !.TotalStake = @ + amount]]
               \/ val' = [val EXCEPT ![b] = [val[b] EXCEPT !.TotalStake = @ - amount]],
               UNCHANGED <<ub, total_stake>>
        PROVE  CrashDrift(Surplus' - Surplus)
    <3>1. b \in Addrs /\ amount \in Int
      BY <2>1
    <3>2. \A a \in Addrs \ {b} : val'[a] = val[a]
      BY <2>1, <2>5 DEF StakingType
    <3>3. \/ val'[b].TotalStake = val[b].TotalStake + amount
          \/ val'[b].TotalStake = val[b].TotalStake + (0 - amount)
      BY <2>1, <2>5, <3>1 DEF StakingType, Validator
    <3>4. amount \in Int /\ 0 - amount \in Int /\ - (0 - amount) = amount
      BY <3>1
    <3>5. Surplus' - Surplus = - amount \/ Surplus' - Surplus = - (0 - amount)
      BY <2>1, <2>5, <3>1, <3>2, <3>3, <3>4, <1>OneStakeMoves
    <3> QED
      BY <2>5, <3>4, <3>5 DEF CrashDrift
  <2>6. ASSUME NEW b \in Registered, NEW bps \in Nat, phase \in {"drain", "tally", "txs"},
               val' = [val EXCEPT ![b] = Slashed(val[b], bps)],
               total_stake' \in {total_stake, total_stake - SlashAmount(val[b].Bond, bps)},
               UNCHANGED ub
        PROVE  CrashDrift(Surplus' - Surplus)
    <3>1. PICK m : m = SlashAmount(val[b].Bond, bps)
      OBVIOUS
    <3>2. b \in Addrs /\ m \in Nat /\ m \in 0 .. val[b].Bond
      <4>1. b \in Addrs
        BY <2>1, Zenon
      <4>2. m \in 0 .. val[b].Bond
        BY <2>1, <3>1, <4>1, SlashAmountBounds, Zenon
      <4> QED
        BY <4>1, <4>2, <2>1
    <3>3. val'[b] = Slashed(val[b], bps) /\ \A a \in Addrs \ {b} : val'[a] = val[a]
      BY <2>1, <2>6, <3>2 DEF StakingType
    <3>4. Slashed(val[b], bps).TotalStake = val[b].TotalStake - m
      BY <2>1, <3>1, <3>2, SlashedStake, Zenon
    <3>5. val'[b].TotalStake = val[b].TotalStake + (0 - m) /\ 0 - m \in Int
      BY <2>1, <3>2, <3>3, <3>4
    <3>6. SumOfStake' = SumOfStake + (0 - m)
      BY <2>1, <3>2, <3>3, <3>5, StakeMoves
    <3>7. SumOfUnbonding' = SumOfUnbonding /\ total_stake' \in {total_stake, total_stake - m}
      BY <2>6, <3>1 DEF SumOfUnbonding
    <3>8. Surplus' = total_stake' - (SumOfStake + (0 - m)) - SumOfUnbonding
      BY <3>6, <3>7 DEF Surplus
    <3>9. CASE total_stake' = total_stake
      <4>1. Surplus' - Surplus = m
        BY <2>2, <3>2, <3>8, <3>9 DEF Surplus
      <4> QED
        BY <2>6, <3>2, <4>1, Zenon DEF CrashDrift
    <3>10. CASE total_stake' = total_stake - m
      <4>1. Surplus' - Surplus = 0
        BY <2>2, <3>2, <3>8, <3>10 DEF Surplus
      <4> QED
        BY <4>1 DEF CrashDrift
    <3> QED
      BY <3>7, <3>9, <3>10
  <2>7. CASE phase = "unbond" /\ ub' = ub \ toDelete /\ UNCHANGED <<val, total_stake>>
    <3> DEFINE f == [e \in ub |-> e.Amount]
    <3>1. /\ ub \subseteq UnbondingEntry /\ IsFiniteSet(ub)
          /\ ub' \in SUBSET ub /\ toDelete \in SUBSET ub
          /\ \A e \in ub : f[e] \in Int
      BY <2>1, <2>7 DEF StakingType, BooksOK, QueueOK, UnbondingEntry
    <3>2. SumOfUnbonding' = SumFunctionOnSet(f, ub')
      BY <3>1, AmountsType DEF SumOfUnbonding
    <3>3. /\ SumOfUnbonding = SumFunctionOnSet(f, ub)
          /\ released = SumFunctionOnSet(f, toDelete)
      BY <3>1, AmountsType DEF SumOfUnbonding, BooksOK, SumOfReleased
    <3> HIDE DEF f
    <3>4. SumFunctionOnSet(f, ub \ toDelete)
             = SumFunctionOnSet(f, ub) - SumFunctionOnSet(f, toDelete)
      BY <3>1, SumMinus
    <3>5. SumOfUnbonding' = SumOfUnbonding - released /\ released \in Int
      BY <2>1, <2>7, <3>2, <3>3, <3>4 DEF StakingType
    <3>6. SumOfStake' = SumOfStake
      BY <2>7 DEF SumOfStake
    <3>7. Surplus' - Surplus = released
      BY <2>2, <2>7, <3>5, <3>6 DEF Surplus
    <3> QED
      BY <2>7, <3>7 DEF CrashDrift
  <2>8. ASSUME NEW missed, IncrementMissed(missed), NEW a \in Addrs
        PROVE  val'[a].TotalStake = val[a].TotalStake
    BY <2>1, <2>8 DEF IncrementMissed, StakingType, Validator
  <2>9. ASSUME NEW s \in Servers, ResetMissed(s, currentEpoch), NEW a \in Addrs
        PROVE  val'[a].TotalStake = val[a].TotalStake
    BY <2>1, <2>9 DEF ResetMissed, StakingType, Validator
  <2>10. CASE \/ UNCHANGED <<val, ub, total_stake>>
              \/ \E missed : IncrementMissed(missed)
              \/ \E s \in Servers : ResetMissed(s, currentEpoch)
    <3>1. UNCHANGED <<ub, total_stake>>
      BY <2>10, Zenon DEF IncrementMissed, ResetMissed
    <3> QED
      BY <2>3, <2>8, <2>9, <2>10, <3>1, Zenon
  <2> QED
    BY <2>4, <2>5, <2>6, <2>7, <2>10 DEF CrashStaking

<1> DEFINE DriftStep == StakeStepAccounted
                          \/ (restarts' = restarts + 1 /\ CrashDrift(Surplus' - Surplus))
<1>1. ASSUME RestartInv, RestartInv', RestartBooks, [RestartNext]_restartVars
      PROVE  DriftStep
  <2>1. CASE Run
    <3>1. TypeOK /\ [Next]_vars
      BY <1>1, <2>1, RunIsNext DEF RestartInv
    <3>2. TypeOK'
      BY <3>1, NextType
    <3>3. phase # "unbond" => toDelete = {}
      BY <1>1 DEF RestartBooks, UnbondInv, ScanIsSound
    <3> QED
      BY <1>1, <3>1, <3>2, <3>3, NextStakingCases, NextValidatorStep, StakingSurplus
      DEF RestartBooks
  <2>2. CASE Crash
    <3>1. CrashDrift(Surplus' - Surplus)
      BY <1>1, <2>2, CrashTypes, <1>CrashSurplus, Zenon DEF RestartInv, RestartTypeOK, RestartBooks
    <3>2. restarts' = restarts + 1
      BY <2>2 DEF Crash, Start
    <3> QED
      BY <3>1, <3>2, Zenon
  <2>3. CASE StopsOnly
    <3>1. UNCHANGED <<val, ub, total_stake>>
      BY <2>3 DEF StopsOnly, storeVars
    <3>2. Surplus' = Surplus
      BY <3>1 DEF Surplus, SumOfStake, SumOfUnbonding
    <3> QED
      BY <3>2 DEF StakeStepAccounted
  <2> QED
    BY <1>1, <2>1, <2>2, <2>3, RestartCases
<1> QED
  BY <1>1, RestartInvariant, RestartBooksTheorem, PTL DEF RestartSpec, DriftOnlyByCrash

-----------------------------------------------------------------------------
(* The first block                                                         *)

\* The store after InitChain registered the validators S and nothing else ran.
GenesisState(S) ==
    /\ val = [a \in Addrs |-> IF a \in S THEN NewValidator(GenesisBond[a])
                                         ELSE NoValidator]
    /\ total_stake = SumFunctionOnSet(GenesisBond, S)
    /\ ub = {}
    /\ JobsInit
    /\ RewardsInit

\* InitChain is at work on a fresh store, or just done.
GenesisRuns ==
    /\ phase \in {"genesis", "idle"}
    /\ phase = "idle" => genesisQ = {}
    /\ GenesisState(genesis \ genesisQ)

\* A genesis validator still to register has a record: InitChain cannot finish.
GenesisStuck ==
    /\ phase \in {"genesis", "down"}
    /\ \E a \in genesisQ : a \in Registered

\* Blocks are executed, after a genesis that registered some validator.
BlocksRun ==
    /\ phase \notin {"genesis", "down"}
    /\ currentSlot > 0
    /\ \E a \in genesis : a \in Registered

GenesisInv == genesis # {} => GenesisRuns \/ GenesisStuck \/ BlocksRun

\* A chain whose genesis document names validators executes its first block on
\* the genesis state alone, however often the process dies before it: InitChain
\* fails over a store that holds a genesis validator already.
THEOREM FirstBlockTheorem == RestartSpec => []FirstBlockFollowsGenesis

<1>GenesisRegisters.
      ASSUME NEW S, GenesisState(S)
      PROVE  \A a \in Addrs : a \in S <=> a \in Registered
  BY <1>GenesisRegisters DEF GenesisState, Registered, NewValidator, NoValidator

\* One more genesis validator.
<1>GenesisGrows.
      ASSUME NEW S \in SUBSET Addrs, GenesisState(S), NEW a \in Addrs \ S,
             RegisterValidator(a, GenesisBond[a]), UNCHANGED <<jobs, disputes, stats>>
      PROVE  GenesisState(S \cup {a})'
  <2> USE <1>GenesisGrows
  <2>1. /\ IsFiniteSet(S)
        /\ \A b \in S \cup {a} : GenesisBond[b] \in Int
    BY AppAssumption, StakingAssumption, FS_Subset
  <2>2. SumFunctionOnSet(GenesisBond, S \cup {a})
          = SumFunctionOnSet(GenesisBond, S) + GenesisBond[a]
    BY <2>1, SumAdd, Zenon
  <2>3. val' = [b \in Addrs |-> IF b \in S \cup {a} THEN NewValidator(GenesisBond[b])
                                                    ELSE NoValidator]
    BY DEF GenesisState, RegisterValidator
  <2> QED
    BY <2>2, <2>3 DEF GenesisState, RegisterValidator, JobsInit, RewardsInit

<1>RunGenesis.
      ASSUME RestartInv, RestartInv', genesis # {}, GenesisInv, Run
      PROVE  GenesisRuns' \/ GenesisStuck' \/ BlocksRun'
  <2> USE <1>RunGenesis
  <2>1. /\ genesis' = genesis /\ genesis \subseteq Addrs /\ genesisQ \subseteq genesis
        /\ TypeOK /\ Next /\ phase # "down"
        /\ Registered \subseteq Registered'
        /\ currentSlot \in Nat /\ currentSlot' \in Nat
    <3>1. TypeOK /\ Next /\ phase # "down"
      BY RunIsNext DEF RestartInv
    <3>2. Registered \subseteq Registered'
      BY <3>1, NextValidatorStep, RegisteredGrows
    <3>3. currentSlot \in Nat /\ currentSlot' \in Nat
      BY <3>1, NextType, TypesAssumption DEF TypeOK
    <3> QED
      BY <3>1, <3>2, <3>3 DEF Run, RestartInv, RestartTypeOK
  <2>2. CASE InitChain
    <3>1. phase = "genesis"
      BY <2>2 DEF InitChain
    <3>2. ASSUME NEW a \in genesisQ, RegisterValidator(a, GenesisBond[a]),
                 genesisQ' = genesisQ \ {a}, UNCHANGED phase,
                 UNCHANGED <<jobs, disputes, stats>>
          PROVE  GenesisRuns' \/ GenesisStuck'
      <4>1. a \notin Registered
        BY <3>2 DEF RegisterValidator
      <4>2. CASE GenesisStuck
        <5>1. PICK b \in genesisQ : b \in Registered
          BY <4>2 DEF GenesisStuck
        <5> QED
          BY <2>1, <3>1, <3>2, <4>1, <5>1 DEF GenesisStuck
      <4>3. CASE GenesisRuns
        <5>1. PICK S : S = genesis \ genesisQ
          BY Zenon
        <5>2. /\ S \in SUBSET Addrs /\ a \in Addrs \ S
              /\ genesis' \ genesisQ' = S \cup {a}
          BY <2>1, <3>2, <5>1
        <5>3. GenesisState(S)
          BY <4>3, <5>1 DEF GenesisRuns
        <5>4. GenesisState(S \cup {a})'
          BY <3>2, <5>2, <5>3, <1>GenesisGrows
        <5>5. PICK T : T = S \cup {a}
          BY Zenon
        <5>6. GenesisState(T)'
          BY <5>4, <5>5
        <5>7. GenesisState(genesis \ genesisQ)'
          BY <5>2, <5>5, <5>6 DEF GenesisState
        <5> QED
          BY <3>1, <3>2, <5>7 DEF GenesisRuns
      <4> QED
        BY <3>1, <4>2, <4>3 DEF GenesisInv, BlocksRun
    <3>3. CASE /\ genesisQ = {} /\ genesisQ' = {} /\ phase' = "idle"
               /\ UNCHANGED <<val, total_stake, ub, jobs, disputes, stats>>
      BY <2>1, <3>1, <3>3, Zenon
      DEF GenesisInv, GenesisStuck, BlocksRun, GenesisRuns, GenesisState, JobsInit, RewardsInit
    <3> QED
      BY <2>2, <3>2, <3>3 DEF InitChain, jobsVars, stakingVars
  <2>3. CASE BeginBlock
    <3>1. /\ phase = "idle" /\ phase' = "unbond" /\ currentSlot' > 0
      BY <2>1, <2>3 DEF BeginBlock
    <3>2. CASE GenesisRuns
      <4>1. \A a \in genesis : a \in Registered
        BY <2>1, <3>1, <3>2, <1>GenesisRegisters DEF GenesisRuns
      <4> QED
        BY <2>1, <3>1, <4>1 DEF BlocksRun
    <3> QED
      BY <2>1, <3>1, <3>2 DEF GenesisInv, GenesisStuck, BlocksRun
  <2>4. CASE Halt
    BY <2>1, <2>4, Zenon DEF Halt, vars, stakingVars, jobsVars, appVars, GenesisInv, GenesisRuns,
       GenesisStuck, BlocksRun, GenesisState, JobsInit, RewardsInit, Registered
  <2>5. CASE /\ phase \notin {"genesis", "idle"}
             /\ phase' \notin {"genesis", "down"}
             /\ currentSlot' = currentSlot
    BY <2>1, <2>5 DEF GenesisInv, GenesisRuns, GenesisStuck, BlocksRun
  <2>6. \/ InitChain \/ BeginBlock \/ Halt
        \/ /\ phase \notin {"genesis", "idle"}
           /\ phase' \notin {"genesis", "down"}
           /\ currentSlot' = currentSlot
    BY <2>1, Zenon DEF Next, ProcessMatureUnbondings, EndEpoch, BeginTally, TallyExpiredDisputes,
       RecordTally, DeliverTx, EndBlock, appVars
  <2> QED
    BY <2>2, <2>3, <2>4, <2>5, <2>6

<1>CrashGenesis.
      ASSUME RestartInv, genesis # {}, GenesisInv, Crash
      PROVE  GenesisRuns' \/ GenesisStuck'
  <2> USE <1>CrashGenesis
  <2>1. /\ genesis' = genesis /\ genesis \subseteq Addrs /\ genesisQ \subseteq genesis
        /\ genesisQ' = genesis /\ phase' = "genesis" /\ phase # "down"
    BY DEF RestartInv, RestartTypeOK, Crash, Start
  <2>2. Registered \subseteq Registered'
    BY RestartValidatorStep, RegisteredGrows DEF RestartNext
  <2>3. CASE \E a \in genesis : a \in Registered
    BY <2>1, <2>2, <2>3 DEF GenesisStuck
  <2>4. CASE GenesisRuns /\ \A a \in genesis : a \notin Registered
    <3>1. genesis \ genesisQ = {}
      BY <2>1, <2>4, <1>GenesisRegisters DEF GenesisRuns
    <3>2. GenesisState({})
      BY <2>4, <3>1 DEF GenesisRuns
    <3>3. CASE UNCHANGED <<val, ub, total_stake, jobs, disputes, stats>>
      <4>1. genesis' \ genesisQ' = {}
        BY <2>1
      <4>2. GenesisState(genesis \ genesisQ)'
        BY <3>2, <3>3, <4>1, Zenon DEF GenesisState, JobsInit, RewardsInit
      <4> QED
        BY <2>1, <4>2 DEF GenesisRuns
    <3>4. CASE TornGenesis
      <4>1. PICK a \in genesisQ \ Registered : PutValidator(a, NewValidator(GenesisBond[a]))
        BY <3>4 DEF TornGenesis
      <4>2. val'[a].Status = "active"
        BY <2>1, <4>1, Zenon DEF PutValidator, NewValidator, RestartInv, RestartTypeOK, StakingType
      <4> QED
        BY <2>1, <4>1, <4>2, Zenon DEF GenesisStuck, Registered
    <3>5. phase \in {"genesis", "idle"}
      BY <2>4 DEF GenesisRuns
    <3> QED
      BY <3>3, <3>4, <3>5, Zenon DEF Crash, storeVars, jobsVars, TornRelease, TornDrain, TornTally,
         TornRecord, TornTx, TxAllowed, TornSweep
  <2> QED
    BY <2>1, <2>3, <2>4 DEF GenesisInv, GenesisStuck, BlocksRun

<1>1. RestartInit => GenesisInv
  <2> SUFFICES ASSUME RestartInit
               PROVE  GenesisRuns
    BY DEF GenesisInv
  <2>1. Fresh /\ genesis \ genesisQ = {}
    BY DEF RestartInit
  <2>2. SumFunctionOnSet(GenesisBond, {}) = 0
    BY FS_EmptySet, SumByPick
  <2>3. GenesisState({})
    BY <2>1, <2>2 DEF Fresh, GenesisState
  <2> QED
    BY <2>1, <2>3 DEF Fresh, GenesisRuns
<1>2. RestartInv /\ RestartInv' /\ GenesisInv /\ [RestartNext]_restartVars => GenesisInv'
  <2> SUFFICES ASSUME RestartInv, RestartInv', GenesisInv, [RestartNext]_restartVars,
                      genesis' # {}
               PROVE  GenesisRuns' \/ GenesisStuck' \/ BlocksRun'
    BY DEF GenesisInv
  <2>1. CASE Run
    BY <2>1, <1>RunGenesis DEF Run
  <2>2. CASE Crash
    BY <2>2, <1>CrashGenesis, Zenon DEF Crash, Start
  <2>3. CASE StopsOnly
    BY <2>3, Zenon DEF StopsOnly, storeVars, jobsVars, GenesisInv, GenesisRuns, GenesisStuck,
       BlocksRun, GenesisState, JobsInit, RewardsInit, Registered
  <2> QED
    BY <2>1, <2>2, <2>3, RestartCases
<1>3. RestartInv /\ GenesisInv => FirstBlockFollowsGenesis
  <2> SUFFICES ASSUME RestartInv, GenesisInv, genesis # {}, phase = "idle", currentSlot = 0
               PROVE  GenesisState(genesis)
    BY DEF FirstBlockFollowsGenesis, GenesisState
  <2>1. GenesisRuns
    BY DEF GenesisInv, GenesisStuck, BlocksRun
  <2>2. genesis \ genesisQ = genesis
    BY <2>1 DEF GenesisRuns
  <2> QED
    BY <2>1, <2>2 DEF GenesisRuns
<1> QED
  BY <1>1, <1>2, <1>3, RestartInvariant, PTL DEF RestartSpec

=============================================================================
