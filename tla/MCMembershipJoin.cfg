\* Two vehicles join one platoon, each may ask twice.
CONSTANTS
  a1 = a1
  a2 = a2
  b1 = b1
  b2 = b2
  c = c
  d = d
  None = None
  Vehicle = {a1, a2, c, d}
  Platoons <- OnePlatoon
  Joiner = {c, d}
  Merger = {}
  Target = {a1}
  MaxStarts = 2

SPECIFICATION FairSpec

INVARIANTS
  TypeOK
  OneJoiner
  MembersInFormation
  PlatoonAgrees

PROPERTIES
  JoinAtTheBack
  Admitted
  EveryRequestAnswered

\* The run ends when the manoeuvres are over or a transmission fails.
CHECK_DEADLOCK FALSE
