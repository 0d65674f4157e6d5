SPECIFICATION Spec
CONSTANTS
  ONE = 1000
  EPOCH_OF_YEAR = 4
  InterestParams <- MCInterestParams
  ActiveSetApy = 80
  PoolModel = "XrdStaking"
  UnderlyingUnit = 1
  ShareUnit = 1
  InsuranceRatio = 100
  FlashloanFeeRatio = 10
  Borrower = {b1, b2}
  Validator = {}
  Deposits = {4000}
  Loans = {}
  StableLoans = {500, 1000}
  Repayments = {10, 600, 2000}
  FlashLoans = {}
  ClaimAmounts = {600}
  UnbondEpochs = 1
  MaxNfts = 2
  StartEpoch = 4
  MaxEpoch = 7
  MaxCalls = 2
  MaxSupply = 4000
  MaxInsuranceDraws = 0
INVARIANTS
  StableBookMatches
CHECK_DEADLOCK FALSE
