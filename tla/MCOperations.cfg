SPECIFICATION FairSpec
CONSTANTS
  Runs = {1, 2}
  Plans <- MCPlans
  TimedPlans <- MCTimedPlans
  ConfigFiles <- MCConfigFiles
  Badges = 5
  MaxDiff = 2
  Periods = {1, 3}
  MaxTime = 3
  MaxStops = 1
INVARIANTS
  TypeOK
  NothingInvented
  SavesSerialize
  AcceptedAreFresh
PROPERTIES
  RegistryNeverGoesBack
  EveryRunEnds
CHECK_DEADLOCK FALSE
