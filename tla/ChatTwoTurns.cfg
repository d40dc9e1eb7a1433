SPECIFICATION Spec
CONSTANTS
  t1 = t1
  t2 = t2
  m1 = m1
  m2 = m2
  NoTurn = NoTurn
  Read = Read
  Turns <- TwoTurns
  Mutations <- NoMutation
  MaxRounds = 1
  MaxCallsPerRound = 1
  MaxCallsPerTurn = 1
  MaxMutationApprovals = 0
  PipeMayStall = FALSE
SYMMETRY TurnSymmetry
INVARIANTS
  VisibleTextIsKept
  StopLeavesNothing
PROPERTY
  ImplementsLifecycle
CHECK_DEADLOCK FALSE
