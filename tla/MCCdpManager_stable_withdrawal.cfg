SPECIFICATION Spec
CONSTANTS
  ONE = 1000
  EPOCH_OF_YEAR = 4
  InterestParams <- MCInterestParams
  ActiveSetApy = 80
  Xrd = xrd
  Usd = usd
  Token = {xrd, usd}
  AssetStates <- MCAssetStates
  Unit <- MCUnit
  ShareUnit <- MCShareUnit
  InsuranceRatio = 100
  FlashloanFeeRatio = 10
  Quotes <- MCQuotes
  Pairs <- XrdOnUsd
  Seed <- MCSeed
  CloseFactors = {}
  Supplies = {}
  Collaterals = {2000}
  Loans = {1700}
  Repayments = {600}
  Withdrawals = {1000}
  Additions = {}
  Covers = {}
  FlashLoans = {}
  Draws = {}
  StableBorrowing = TRUE
  StartEpoch = 4
  MaxEpoch = 6
  MaxCdps = 1
  MaxCalls = 4
PROPERTIES
  RemainingCollateralSuffices
CHECK_DEADLOCK FALSE
