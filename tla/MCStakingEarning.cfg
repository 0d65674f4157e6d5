SPECIFICATION Spec
CONSTANTS
  ONE = 1000
  EPOCH_OF_YEAR = 4
  InterestParams <- MCInterestParams
  ActiveSetApy = 300
  RebalanceDust = 1
  Validator = {v1, v2}
  InitialStake <- MCInitialStake
  Deposit = 4000
  InsuranceRatio = 100
  Joins = {2000}
  Rebalances <- MCRebalances
  Rewards = {0, 60}
  UnbondEpochs = 1
  StartEpoch = 4
  MaxEpoch = 5
  MaxCalls = 4
  MaxNfts = 4
INVARIANTS
  TypeOK
  StakersCanLeave
PROPERTIES
  DseValueKept
  RebalanceKeepsValue
  PoolBuysAtDiscount
CHECK_DEADLOCK FALSE
