------------------------- MODULE MCTrafficInsertion -------------------------
(* The configurations of the examples, smaller where the size is free.     *)
EXTENDS TrafficInsertion

Base == [manager |-> "platoons", scenario |-> "other", nCars |-> 4, platoonSize |-> 2,
         nLanes |-> 1, gap |-> 5, platoonGap |-> 20, humanCars |-> 0, humanLanes |-> 1,
         sizes |-> <<>>]

Join       == [Base EXCEPT !.manager = "join", !.scenario = "join", !.platoonSize = 4]
Merge      == [Base EXCEPT !.scenario = "merge", !.nCars = 8, !.platoonSize = 4]
LaneChange == [Base EXCEPT !.scenario = "lane_change", !.nCars = 8, !.platoonSize = 4]
SideBySide == [Base EXCEPT !.nCars = 12, !.nLanes = 3]
Incomplete == [Base EXCEPT !.nCars = 5, !.platoonSize = 3]
Human      == [Base EXCEPT !.manager = "human", !.nLanes = 2, !.humanCars = 4, !.humanLanes = 2]
Ring       == [Base EXCEPT !.manager = "ring", !.nLanes = 2, !.sizes = <<3, 1, 2, 2>>]
Test       == [Base EXCEPT !.manager = "test"]

AllSetups == {Join, Merge, LaneChange, SideBySide, Incomplete, Human, Ring, Test}
JoinOnly  == {Join}
LaneChangeOnly == {LaneChange}

ASSUME FittingSetups

=============================================================================
