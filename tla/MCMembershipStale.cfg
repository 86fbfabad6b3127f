\* A platoon merges, and later a vehicle joins.
CONSTANTS
  a1 = a1
  a2 = a2
  b1 = b1
  b2 = b2
  c = c
  d = d
  None = None
  Vehicle = {a1, a2, b1, b2, c}
  Platoons <- TwoPlatoons
  Joiner = {c}
  Merger = {b1}
  Target = {a1}
  MaxStarts = 1

SPECIFICATION Spec

INVARIANTS
  PlatoonAgrees

\* The run ends when the manoeuvres are over or a transmission fails.
CHECK_DEADLOCK FALSE
