CONSTANTS
  Reads = {r1}
  Mutations = {m1}
  MaxFaults = 1
  MaxExpiries = 1
  MaxCancels = 1
  MaxRestarts = 1
SPECIFICATION Spec
INVARIANTS
  CallRunsOnce
  RefusedNeverRuns
  ApprovalDiesWithItsServer
PROPERTIES
  ClientOperationsEnd
CHECK_DEADLOCK FALSE
