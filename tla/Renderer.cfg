SPECIFICATION FairSpec
CONSTANTS
  Keys = {k1, k2}
  Barrier = barrier
  MaxCommands = 3
  CommandLine = FALSE
  McpBenchmarks = TRUE
INVARIANTS
  EditsKeepTheirOrder
  PresentsAreAllowed
PROPERTIES
  WindowCloses
CHECK_DEADLOCK FALSE
