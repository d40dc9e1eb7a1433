SPECIFICATION FairSpec
CONSTANTS
  w1 = w1
  w2 = w2
  None = None
  Workers <- TwoWorkers
  QueueLimit = 1
  Modes <- AccessModes
INVARIANTS
  AnswersAreTrue
  MutationIsAuthorized
PROPERTIES
  WorkersAndStopEnd
CHECK_DEADLOCK FALSE
