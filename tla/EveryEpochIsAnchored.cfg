\* One relayer, a quorum of one, no lost transaction: the contract still falls
\* behind for good once an epoch passes between two polls.
SPECIFICATION FairSpec
CONSTANTS
  r1 = r1
  r2 = r2
  Relayers = {r1}
  EpochSlots = 2
  MaxPending = 2
  InitialRelayers = {r1}
  InitialQuorum = 1
  Managed = {}
  L1MayDrop = FALSE
  Quorums = {}
  MaxHeight = 6
PROPERTIES
  EveryEpochIsAnchored
CHECK_DEADLOCK FALSE
