SPECIFICATION FairSpec
CONSTANTS
  t1 = t1
  t2 = t2
  m1 = m1
  m2 = m2
  NoTurn = NoTurn
  Read = Read
  Turns <- OneTurn
  Mutations <- OneMutation
  MaxRounds = 2
  MaxCallsPerRound = 1
  MaxCallsPerTurn = 2
  MaxMutationApprovals = 2
  PipeMayStall = TRUE
INVARIANTS
  OneTerminalPerTurn
  MutationNeedsApproval
  DeniedStaysDenied
  CompletedClosesTools
CHECK_DEADLOCK FALSE
PROPERTIES CancelledAndStoppedEnd
