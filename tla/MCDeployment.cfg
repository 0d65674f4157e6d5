SPECIFICATION FairSpec
CONSTANTS
  Networks = {"stokenet", "mainnet"}
  Steps <- AllSteps
  HandWritten <- TokensToWrite
  MaxStops = 1
INVARIANTS
  TypeOK
  Wired
  CompleteIsWhole
  NothingTwice
PROPERTIES
  NothingForgotten
  EventuallyDeployed
CHECK_DEADLOCK FALSE
