SPECIFICATION Spec
CONSTANTS
  Contexts = 2
  MaxSamples = 2
  MaxEvents = 3
INVARIANTS  FramesKeepTheirs 
