\* The lane-change example.
CONSTANTS
  Setups <- LaneChangeOnly
  MaxRuns = 1

SPECIFICATION Spec

INVARIANTS
  StarterHasRole

\* Nothing happens after the last vehicle is on the road.
CHECK_DEADLOCK FALSE
