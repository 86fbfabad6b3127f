---------------------------- MODULE MCLaneChange ----------------------------
(* Small platoons for TLC: a leader and a set of followers, on a road with *)
(* a lane on either side of the platoon.                                   *)
EXTENDS LaneChange, TLC

CONSTANTS lead, f1, f2, f3

TwoFollowers   == {f1, f2}
ThreeFollowers == {f1, f2, f3}

=============================================================================
