\* Three validators, three keys of which two are relayers', quorum 1.
SPECIFICATION Spec
CONSTANTS
  v1 = v1
  v2 = v2
  v3 = v3
  k1 = k1
  k2 = k2
  k3 = k3
  Addrs = {v1, v2, v3}
  NoServer = NoServer
  MinStake = 1
  TotalSupply = 0
  Int64Max = 536870911
  EpochSlots = 1
  UnbondingEpochs = 1
  DisputeWindow = 1
  VoteWindow = 1
  MaxSlot = 0
  JobFeeUBIGT = 13
  Commission <- MCCommission
  Keys = {k1, k2, k3}
  Address <- MCAddress
  RecoveryCode <- MCRecoveryCode
  IsRelayer = {10, 20}
  QuorumRequired = 1
  Counters <- MCCounters
  Pools <- MCPools
  Weights = {1, 2}
  Stakes <- MCStakes
  CheckpointEpochs = {1, 2}
  BlockHashes <- MCBlockHashes
INVARIANTS
  RewardsWithinPool
  SlashNeverPays
  ElectionsAreExact
  ThresholdIsTwoThirds
  SignatureIsOfCheckpoint
  CallIsRightButForOffsets
