\* Two jobs, two validators: disputes, votes, tallies and user disputes in every order.
SPECIFICATION Spec
CONSTANTS
  v1 = v1
  v2 = v2
  d1 = d1
  j1 = j1
  j2 = j2
  o1 = o1
  o2 = o2
  Addrs = {v1, v2}
  NoServer = NoServer
  NoCommitment = NoCommitment
  Delegators = {}
  JobIDs = {j1, j2}
  Outputs = {o1, o2}
  Bonds = {}
  Amounts = {}
  GenesisBond <- MCBondsTwo
  MinStake = 9500
  TotalSupply = 1000000
  Int64Max = 536870911
  EpochSlots = 2
  UnbondingEpochs = 1
  DisputeWindow = 1
  VoteWindow = 1
  MaxSlot = 3
  StakeCap = 60000
  StakeFloor = 0
  MaxObserved = 0
SYMMETRY MCSymmetry
INVARIANTS
  TypeOK
  CommitmentMatchesState
  OpenDisputeIsLive
  OneSlashPerRevertedJob
  ExpiredDisputesResolved
PROPERTIES
  ImplementsLifecycle
