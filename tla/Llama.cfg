CONSTANTS
  Callers = {c1, c2}
  Settings = {s1, s2}
  NoSettings = none
  MaxAttempts = 2
  MaxCalls = 1
  MaxEdits = 1
SPECIFICATION Spec
INVARIANTS ServersAreOwned CallersReachTheirs
PROPERTIES CallsAndDisposalEnd
CHECK_DEADLOCK FALSE
