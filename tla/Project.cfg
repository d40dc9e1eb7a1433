SPECIFICATION ProjectSpec
CONSTANTS
  Paths = {1}
  MaxLoads = 2
  KeptCheckpoints = 1
  MaxCommands = 4
  MaxLaunches = 3
  MaxFaults = 2
  MaxCrashes = 1
INVARIANTS RestoresAreTrue CleanMeansSaved
PROPERTIES CheckpointIsExact LatestLoadWins
CHECK_DEADLOCK FALSE
