\* One restart; one validator in the genesis document or none.
SPECIFICATION RestartSpec
CONSTANTS
  v1 = v1
  v2 = v2
  d1 = d1
  j1 = j1
  j2 = j2
  o1 = o1
  o2 = o2
  Addrs = {v1, v2}
  NoServer = NoServer
  NoCommitment = NoCommitment
  Delegators = {d1}
  JobIDs = {j1}
  Outputs = {o1, o2}
  Bonds = {40000}
  Amounts <- MCAmounts
  GenesisBond <- MCBonds
  MinStake = 9500
  TotalSupply = 1000000
  Int64Max = 536870911
  EpochSlots = 1
  UnbondingEpochs = 1
  DisputeWindow = 1
  VoteWindow = 0
  MaxSlot = 5
  StakeCap = 70000
  StakeFloor = 40000
  MaxObserved = 0
  MaxRestarts = 1
  MaxTxs = 7
  LastTxSlot = 2
SYMMETRY MCSymmetry
INVARIANTS
  FirstBlockFollowsGenesis
  SlashesNeverCountedTwice
  CommitmentMatchesState
  ExpiredDisputesResolved
PROPERTIES
  DriftOnlyByCrash
  VotersWeighOnce
  JailIsForever
  ImplementsLifecycle
