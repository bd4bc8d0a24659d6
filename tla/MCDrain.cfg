\* Ten epochs of one slot: the inactivity drain.
SPECIFICATION Spec
CONSTANTS
  v1 = v1
  v2 = v2
  d1 = d1
  j1 = j1
  j2 = j2
  o1 = o1
  o2 = o2
  Addrs = {v1, v2}
  NoServer = NoServer
  NoCommitment = NoCommitment
  Delegators = {}
  JobIDs = {j1}
  Outputs = {o1}
  Bonds = {9500}
  Amounts = {}
  GenesisBond <- MCBondsOne
  MinStake = 9500
  TotalSupply = 1000000
  Int64Max = 536870911
  EpochSlots = 1
  UnbondingEpochs = 1
  DisputeWindow = 1
  VoteWindow = 1
  MaxSlot = 10
  StakeCap = 60000
  StakeFloor = 0
  MaxObserved = 0
INVARIANTS
  StatusMatchesBond
PROPERTIES
  DrainSparesServers
  JailIsForever
