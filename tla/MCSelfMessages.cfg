\* The application of the lane-change example.
CONSTANTS
  App = "lane_change"
  RecordInterval = 3

SPECIFICATION Spec

INVARIANTS
  BaseAppIsServed

CHECK_DEADLOCK FALSE
