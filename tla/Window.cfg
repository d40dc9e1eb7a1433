SPECIFICATION WindowFairSpec
CONSTANTS
  Turns = {t1, t2}
  NoTurn = NoTurn
  Projects = {p1, p2}
  MaxCalls = 1
  QueueLimit = 1
  MaxEvents = 1
INVARIANTS
  GateCoversTurn
  MessagesFit
PROPERTIES
  WindowSettles
CHECK_DEADLOCK FALSE
