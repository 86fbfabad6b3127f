\* Every traffic manager, two runs of a configuration in one process.
CONSTANTS
  Setups <- AllSetups
  MaxRuns = 2

SPECIFICATION FairSpec

INVARIANTS
  TypeOK
  InFormation
  UniqueIds
  InOrder
  MapsAgree
  RolesMatchFormation
  PositionsFit

PROPERTIES
  AllInserted

\* Nothing happens after the last vehicle is on the road.
CHECK_DEADLOCK FALSE
