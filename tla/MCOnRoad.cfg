\* Two starts, so that a request may be replaced or two lanes away.
CONSTANTS
  lead = lead
  f1 = f1
  Leader <- lead
  Follower <- OneFollower
  NLanes = 4
  StartLane = 1
  MaxStarts = 2

SPECIFICATION FairSpecOnRoad

INVARIANTS
  RequestKept
  CommandsAreSteps
  LeavesByDecision

PROPERTIES
  PlatoonArrives

\* The run ends when a transmission fails.
CHECK_DEADLOCK FALSE
