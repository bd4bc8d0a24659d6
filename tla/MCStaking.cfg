\* Delegation, undelegation and unbonding beside a job that may be slashed.
SPECIFICATION Spec
CONSTANTS
  v1 = v1
  v2 = v2
  d1 = d1
  j1 = j1
  j2 = j2
  o1 = o1
  o2 = o2
  Addrs = {v1}
  NoServer = NoServer
  NoCommitment = NoCommitment
  Delegators = {d1}
  JobIDs = {j1}
  Outputs = {o1, o2}
  Bonds = {}
  Amounts <- MCAmounts
  GenesisBond <- MCBondsOne
  MinStake = 9500
  TotalSupply = 1000000
  Int64Max = 536870911
  EpochSlots = 2
  UnbondingEpochs = 1
  DisputeWindow = 1
  VoteWindow = 1
  MaxSlot = 4
  StakeCap = 13000
  StakeFloor = 10000
  MaxObserved = 1
INVARIANTS
  NothingOverdue
PROPERTIES
  StakeIsAccounted
  ReleasedWhenMature
