\* A platoon merges and a vehicle joins, in any order.
CONSTANTS
  a1 = a1
  a2 = a2
  b1 = b1
  b2 = b2
  c = c
  d = d
  None = None
  Vehicle = {a1, a2, b1, b2, c}
  Platoons <- TwoPlatoons
  Joiner = {c}
  Merger = {b1}
  Target = {a1, b1}
  MaxStarts = 1

SPECIFICATION FairSpec

INVARIANTS
  OneJoiner
  MembersInFormation

PROPERTIES
  JoinAtTheBack
  Admitted
  MergeCompletes

\* The run ends when the manoeuvres are over or a transmission fails.
CHECK_DEADLOCK FALSE
