SPECIFICATION Spec
CONSTANTS
  ONE = 1000
  EPOCH_OF_YEAR = 4
  InterestParams <- MCInterestParams
  ActiveSetApy = 80
  PoolModel = "XrdStaking"
  UnderlyingUnit = 1
  ShareUnit = 1
  InsuranceRatio = 100
  FlashloanFeeRatio = 10
  Borrower = {}
  Validator = {v1}
  Deposits = {2000}
  Loans = {1000}
  StableLoans = {}
  Repayments = {300, 1000}
  FlashLoans = {}
  ClaimAmounts = {}
  UnbondEpochs = 1
  MaxNfts = 2
  StartEpoch = 4
  MaxEpoch = 6
  MaxCalls = 3
  MaxSupply = 4000
  MaxInsuranceDraws = 3
INVARIANTS
  DrawsSpareDeposits
CHECK_DEADLOCK FALSE
