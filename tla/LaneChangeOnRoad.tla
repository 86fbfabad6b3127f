--------------------------- MODULE LaneChangeOnRoad ---------------------------
(***************************************************************************)
(* The lane-change manoeuvre together with the code that carries a lane    *)
(* change out.  setFixedLane only stores a request; after every SUMO time  *)
(* step PlexeManager calls executePlexeTimestep, which turns requests into *)
(* changeLane commands, and SUMO moves the vehicles in its next step.      *)
(*                                                                         *)
(* SUMO is open: in any time step it drops any command and reports any     *)
(* vehicle as overlapping another.  Lane-change modes are left out: every  *)
(* mode the code sets keeps SUMO from changing lanes of its own accord.    *)
(***************************************************************************)
EXTENDS LaneChange

VARIABLES
  roadLane,     (* the lane each vehicle drives in (getLaneIndex)          *)
  command       (* the lane of its changeLane command, or NoLane           *)

roadVars == <<roadLane, command>>
allVars  == <<vars, roadVars>>

-----------------------------------------------------------------------------
(* CommandInterface: one request, for a vehicle that drives in lane        *)

Attempted(request, lane, overlaps) ==
  /\ request # NoRequest
  /\ ~request.wait
  /\ request.lane # lane
  /\ request.safe \/ ~overlaps

Satisfied(request, lane) ==
  request # NoRequest /\ ~request.wait /\ request.lane = lane

FaultyRequestAfter(request, lane, overlaps) ==   \* gives up when lanes overlap
  IF request.wait THEN [request EXCEPT !.wait = FALSE]
  ELSE IF Attempted(request, lane, overlaps) THEN [request EXCEPT !.wait = TRUE]
  ELSE NoRequest

(* A satisfied request is erased.  After an unsafe attempt it waits one    *)
(* time step for the outcome, and is tried again if the lane is not right. *)
RequestAfter(request, lane, overlaps) ==
  IF request.wait THEN [request EXCEPT !.wait = FALSE]
  ELSE IF Satisfied(request, lane) THEN NoRequest
  ELSE IF Attempted(request, lane, overlaps) /\ ~request.safe
       THEN [request EXCEPT !.wait = TRUE]
  ELSE request

FaultyCommandAfter(request, lane, overlaps) ==   \* the final lane at once
  IF Attempted(request, lane, overlaps) THEN request.lane ELSE NoLane

OneSidedCommandAfter(request, lane, overlaps) ==   \* upward in every case
  IF Attempted(request, lane, overlaps) THEN lane + 1 ELSE NoLane

(* One lane at a time toward the requested one.                            *)
CommandAfter(request, lane, overlaps) ==
  IF Attempted(request, lane, overlaps)
  THEN IF request.lane > lane THEN lane + 1 ELSE lane - 1
  ELSE NoLane

-----------------------------------------------------------------------------
(* A SUMO time step carries out the commands of the vehicles in moved; at  *)
(* its end executePlexeTimestep sees the vehicles in overlapping overlap.  *)
Timestep(moved, overlapping) ==
  /\ simulating
  /\ \A v \in moved : command[v] # NoLane
  /\ roadLane' = [v \in Vehicle |-> IF v \in moved THEN command[v] ELSE roadLane[v]]
  /\ laneChanges' = [v \in Vehicle |->
                      RequestAfter(laneChanges[v], roadLane'[v], v \in overlapping)]
  /\ command' = [v \in Vehicle |->
                  CommandAfter(laneChanges[v], roadLane'[v], v \in overlapping)]
  /\ UNCHANGED <<maneuverVars, platoonLane, leaderVars, channel, runVars>>

ManeuverStep == Next /\ UNCHANGED roadVars

InitOnRoad ==
  /\ Init
  /\ roadLane = [v \in Vehicle |-> StartLane]
  /\ command = [v \in Vehicle |-> NoLane]

NextOnRoad ==
  \/ ManeuverStep
  \/ \E moved, overlapping \in SUBSET Vehicle : Timestep(moved, overlapping)

SpecOnRoad == InitOnRoad /\ [][NextOnRoad]_allVars

(* SUMO's part: a vehicle does not overlap another at every time step, and *)
(* SUMO does not drop its command every time.                              *)
CarriedOut(v) ==
  /\ command[v] # NoLane
  /\ \E moved, overlapping \in SUBSET Vehicle : v \in moved /\ Timestep(moved, overlapping)

NotOverlapping(v) ==
  /\ command[v] = NoLane
  /\ \E moved, overlapping \in SUBSET Vehicle :
       v \notin overlapping /\ Timestep(moved, overlapping)

FairnessOnRoad ==
  /\ \A u, v \in Vehicle : WF_allVars(OnManeuverMessage(u, v) /\ UNCHANGED roadVars)
  /\ WF_allVars(HandleTimeoutMsg /\ UNCHANGED roadVars)
  /\ \A v \in Vehicle : SF_allVars(CarriedOut(v)) /\ SF_allVars(NotOverlapping(v))

FairSpecOnRoad == SpecOnRoad /\ FairnessOnRoad

-----------------------------------------------------------------------------
(* Properties *)

(* No lane change gets lost between the manoeuvre and SUMO: as long as a   *)
(* vehicle is not in the lane its position helper holds, CommandInterface  *)
(* holds a request for that lane, although the manoeuvre may replace       *)
(* requests while SUMO works on one (CommandInterface.cc:234-246, 395-442).*)
RequestKept ==
  \A v \in Vehicle :
    roadLane[v] # platoonLane[v] => laneChanges[v].lane = platoonLane[v]

(* A command is for a lane beside the one the vehicle is in, also when the *)
(* request is two lanes away or changed since the last command, and it is  *)
(* outstanding exactly while the request waits for it or was replaced      *)
(* (CommandInterface.cc:403-411, 427-442).                                 *)
CommandsAreSteps ==
  \A v \in Vehicle :
    /\ command[v] # NoLane => command[v] \in Destination(roadLane[v])
    /\ laneChanges[v].wait => command[v] # NoLane

(* In one manoeuvre a vehicle leaves its lane only for the lane the whole  *)
(* platoon agreed to and the leader has announced; it never drives alone   *)
(* in another lane on a decision that is then taken back (LaneChange.cc,   *)
(* handleWarnLaneChangeAck, handleStartSignal with CommandInterface.cc).   *)
LeavesByDecision ==
  starts <= 1 =>
    \A v \in Vehicle :
      roadLane[v] # StartLane =>
        /\ roadLane[v] = platoonLane[Leader]
        /\ \A f \in Follower : platoonLane[f] = roadLane[v] \/ InTransit("StartSignal", Leader, f)

(* After the leader's decision in one manoeuvre the whole platoon comes to *)
(* drive in the new lane, and stays there unless another one starts        *)
(* (LaneChange.cc, handleStartSignal; CommandInterface.cc:395-442).        *)
PlatoonArrives ==
  \A lane \in Lane \ {StartLane} :
    platoonLane[Leader] = lane ~>
      (~simulating \/ [](starts > 1 \/ \A v \in Vehicle : roadLane[v] = lane))

=============================================================================
