\* The manoeuvre is started twice, the second time at any moment.
CONSTANTS
  lead = lead
  f1 = f1
  f2 = f2
  f3 = f3
  Leader <- lead
  Follower <- TwoFollowers
  NLanes = 2
  StartLane = 0
  MaxStarts = 2

SPECIFICATION FairSpec

INVARIANTS
  NobodyStranded
  TimerAlive

PROPERTIES
  EveryoneReleased

\* The run ends when the manoeuvres are over or a transmission fails.
CHECK_DEADLOCK FALSE
