SPECIFICATION Spec
CONSTANTS
  Views = 2
  KeptReviews = 1
  MaxImages = 4
  MaxBytes = 6
  CaptureBytes = 3
  HeatmapBytes = 1
  MaxReviews = 2
  MaxRequests = 2
  MaxStops = 1
INVARIANTS ArtifactsAreKept ReviewsAreTrue
PROPERTIES ReviewsEndForGood
CHECK_DEADLOCK FALSE
