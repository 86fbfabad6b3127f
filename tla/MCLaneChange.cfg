\* One manoeuvre of a platoon of four, as in the example scenario.
CONSTANTS
  lead = lead
  f1 = f1
  f2 = f2
  f3 = f3
  Leader <- lead
  Follower <- ThreeFollowers
  NLanes = 3
  StartLane = 1
  MaxStarts = 1

SPECIFICATION FairSpec

INVARIANTS
  TypeOK
  SingleLane
  PointOfNoReturn
  CloseMeansChanged

PROPERTIES
  UnanimousChange
  ImplementsPromise
  PlatoonFollows

\* The run ends when the manoeuvre is over or a transmission fails.
CHECK_DEADLOCK FALSE
