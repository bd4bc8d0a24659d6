\* One user and three jobs: renewals, replacements and requests in every order.
SPECIFICATION Spec
CONSTANTS
  u1 = u1
  m1 = m1
  a1 = a1
  a2 = a2
  a3 = a3
  j1 = j1
  j2 = j2
  j3 = j3
  basic = basic
  enterprise = enterprise
  Models = {m1}
  Approvers = {a1, a2, a3}
  quorumRequired = 3
  GracePeriodSlots = 1
  Graces = {0, 2}
  Users = {u1}
  Plans = {basic, enterprise}
  NoPlan = NoPlan
  Fee <- MCFee
  Limit <- MCLimit
  SubscriptionDurationSlots = 2
  Deposits = {1, 2}
  JobIDs = {j1, j2, j3}
  NoUser = NoUser
  EpochSlots = 2
  CallUncalled = TRUE
  MaxSlot = 4
  MaxExpiry = 6
  MaxBalance = 3
  MaxUsed = 2
  MaxRestarts = 1
SYMMETRY MCSymmetry
INVARIANTS
  TypeOK
  JobsArePaidFor
  CrashCostsOneFee
  ActiveModelHasQuorum
PROPERTIES
  RenewalBuysService
\* The bounds stop the instance; the chain itself never stops.
CHECK_DEADLOCK FALSE
