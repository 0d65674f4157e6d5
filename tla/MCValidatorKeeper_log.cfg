SPECIFICATION Spec
CONSTANTS
  ONE = 1000
  EPOCH_OF_YEAR = 4
  Validator = {v1}
  A_WEEK_EPOCHS = 2
  RESERVE_WEEKS = 4
  BABYLON_START_EPOCH = 1
  InitialStake <- MCInitialStake
  Rewards = {0, 50}
  Stakes = {333}
  FillLengths = {}
  MaxInserted = 0
  StartEpoch = 3
  MaxEpoch = 9
INVARIANTS
  LogPossible
CHECK_DEADLOCK FALSE
