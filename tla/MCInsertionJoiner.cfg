\* The join example.
CONSTANTS
  Setups <- JoinOnly
  MaxRuns = 1

SPECIFICATION Spec

INVARIANTS
  JoinerIsInserted

\* Nothing happens after the last vehicle is on the road.
CHECK_DEADLOCK FALSE
