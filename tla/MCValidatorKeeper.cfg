SPECIFICATION Spec
CONSTANTS
  ONE = 1000
  EPOCH_OF_YEAR = 4
  Validator = {v1, v2}
  A_WEEK_EPOCHS = 2
  RESERVE_WEEKS = 4
  BABYLON_START_EPOCH = 1
  InitialStake <- MCInitialStake
  Rewards = {0, 50}
  Stakes = {333}
  FillLengths = {1, 2}
  MaxInserted = 3
  StartEpoch = 2
  MaxEpoch = 4
INVARIANTS
  TypeOK
  HistoryOrdered
  ApyIsGrowth
PROPERTIES
  PastKept
CHECK_DEADLOCK FALSE
