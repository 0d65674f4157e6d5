SPECIFICATION Spec
CONSTANTS
  ONE = 1000
  EPOCH_OF_YEAR = 4
  InterestParams <- MCInterestParams
  ActiveSetApy = 80
  Xrd = xrd
  Usd = usd
  Token = {xrd, usd}
  AssetStates <- MCAssetStates
  Unit <- MCUnit
  ShareUnit <- MCShareUnit
  InsuranceRatio = 100
  FlashloanFeeRatio = 10
  Quotes <- MCQuotes
  Pairs <- AllPairs
  Seed <- MCSeed
  CloseFactors = {100000}
  Supplies = {1000}
  Collaterals = {2000}
  Loans = {1700}
  Repayments = {500, 4000}
  Withdrawals = {505}
  Additions = {300}
  Covers = {0, 200}
  FlashLoans = {1000}
  Draws = {}
  StableBorrowing = FALSE
  StartEpoch = 4
  MaxEpoch = 6
  MaxCdps = 2
  MaxCalls = 4
INVARIANTS
  TypeOK
  VariableBookMatches
  PoolsSolvent
  CollateralBacked
PROPERTIES
  LoansStayWithinLtv
  WithdrawalsKeepCover
  LiquidatorGainBounded
CHECK_DEADLOCK FALSE
