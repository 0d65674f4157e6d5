SPECIFICATION Spec
CONSTANTS
  ONE = 1000
  EPOCH_OF_YEAR = 4
  InterestParams <- MCInterestParams
  ActiveSetApy = 80
  PoolModel = "XrdStaking"
  UnderlyingUnit = 1
  ShareUnit = 1
  InsuranceRatio = 500
  FlashloanFeeRatio = 20
  Borrower = {}
  Validator = {v1}
  Deposits = {2000}
  Loans = {}
  StableLoans = {}
  Repayments = {}
  FlashLoans = {2000}
  ClaimAmounts = {20}
  UnbondEpochs = 1
  MaxNfts = 2
  StartEpoch = 4
  MaxEpoch = 5
  MaxCalls = 4
  MaxSupply = 4000
  MaxInsuranceDraws = 1
INVARIANTS
  ReturnsHaveDepositors
CHECK_DEADLOCK FALSE
