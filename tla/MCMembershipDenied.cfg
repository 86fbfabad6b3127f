\* Two platoons ask to merge with a third.
CONSTANTS
  a1 = a1
  a2 = a2
  b1 = b1
  b2 = b2
  c = c
  d = d
  None = None
  Vehicle = {a1, b1, b2, c, d}
  Platoons <- ThreePlatoons
  Joiner = {}
  Merger = {b1, c}
  Target = {a1}
  MaxStarts = 1

SPECIFICATION Spec

INVARIANTS
  NoneMeansAlone

\* The run ends when the manoeuvres are over or a transmission fails.
CHECK_DEADLOCK FALSE
