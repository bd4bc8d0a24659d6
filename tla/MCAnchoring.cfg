\* Two relayers race over three epochs while the owner changes the relayer set
\* and the quorum.
SPECIFICATION Spec
CONSTANTS
  r1 = r1
  r2 = r2
  Relayers = {r1, r2}
  EpochSlots = 2
  MaxPending = 2
  InitialRelayers = {r1, r2}
  InitialQuorum = 1
  Managed = {r2}
  L1MayDrop = TRUE
  Quorums = {1, 2}
  MaxHeight = 6
INVARIANTS
  TypeOK
  AnchoredBlockIsOfEpoch
PROPERTIES
  ImplementsLog
  
\* The bounds stop the instance; the chain itself never stops.
CHECK_DEADLOCK FALSE
