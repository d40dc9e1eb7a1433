CONSTANTS
  Models = {e2b}
  Backends = {gpu}
  cudart = cudart
  cuda = cuda
  Archives <- TwoArchives
  Size = 2
  MaximumAttempts = 2
  MaxFaults = 3
  MaxCancels = 1
  MaxCrashes = 1
  NoRequest = none
SPECIFICATION SetupSpec
INVARIANTS
  WindowIsTold
PROPERTIES
  DiskIsSound
  SetupsEnd
CHECK_DEADLOCK FALSE
