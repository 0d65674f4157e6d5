SPECIFICATION Spec
CONSTANTS
  ONE = 1000
  EPOCH_OF_YEAR = 4
  InterestParams <- MCInterestParams
  ActiveSetApy = 80
  Xrd = xrd
  Usd = usd
  Token = {xrd, usd}
  AssetStates <- MCAssetStates
  Unit <- MCUnit
  ShareUnit <- MCShareUnit
  InsuranceRatio = 100
  FlashloanFeeRatio = 10
  Quotes <- MCQuotes
  Pairs <- XrdOnUsd
  Seed <- MCSeed
  CloseFactors = {}
  Supplies = {}
  Collaterals = {2000}
  Loans = {500, 1000}
  Repayments = {10, 600, 2000}
  Withdrawals = {}
  Additions = {}
  Covers = {0}
  FlashLoans = {}
  Draws = {1}
  StableBorrowing = TRUE
  StartEpoch = 4
  MaxEpoch = 7
  MaxCdps = 2
  MaxCalls = 4
INVARIANTS
  StableBookBacked
PROPERTIES
  StableDebtKept
CHECK_DEADLOCK FALSE
