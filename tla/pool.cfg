SPECIFICATION PoolSpec
CONSTANT
  Count = 3
INVARIANTS
  NoSleeperMissed
  JoinSettlesFutures
PROPERTY
  JoinReturns
