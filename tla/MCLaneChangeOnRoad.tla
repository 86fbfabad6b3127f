-------------------------- MODULE MCLaneChangeOnRoad --------------------------
(* A leader and its follower on a road of four lanes.                      *)
EXTENDS LaneChangeOnRoad, TLC

CONSTANTS lead, f1

OneFollower == {f1}

=============================================================================
