SPECIFICATION FairSpec
CONSTANTS
  MaximumQueuedFrames = 2
  MaxPosts = 4
INVARIANTS
  StoppedLeavesNothing
PROPERTIES
  ImplementsChannel
  QueuedFrameIsTaken
CHECK_DEADLOCK FALSE
