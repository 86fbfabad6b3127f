\* Beacons of a slotted and a simple platoon, with vehicles joining.
CONSTANTS
  a = a
  b = b
  c = c
  d = d
  None = None
  Vehicle = {a, b, c, d}
  Setups <- AllSetups
  MaxBeacons <- FewBeacons

SPECIFICATION Spec

INVARIANTS
  TypeOK
  SlotsApart
  NeverSilent
  BeaconsGoOn
  ControllerSource

PROPERTIES
  DataNeverGoesBack

\* Every vehicle sends a bounded number of beacons.
CHECK_DEADLOCK FALSE
