------------------------ MODULE LaneChangeOnRoadProofs ------------------------
(***************************************************************************)
(* Proofs about LaneChangeOnRoad: no lane request is lost on the way to    *)
(* SUMO, commands go one lane at a time, and nobody leaves the start lane  *)
(* but for the lane the platoon agreed on, for every platoon and road.     *)
(***************************************************************************)
EXTENDS LaneChangeOnRoad, LaneChangeSafetyProofs

RoadTypes ==
  /\ roadLane \in [Vehicle -> Lane]
  /\ command \in [Vehicle -> Lane \cup {NoLane}]

(* One vehicle: an erased request was satisfied and left no command; any   *)
(* other request is for the lane of the position helper.                   *)
Carried(v) ==
  /\ laneChanges[v] = NoRequest => command[v] = NoLane /\ roadLane[v] = platoonLane[v]
  /\ laneChanges[v] # NoRequest => laneChanges[v].lane = platoonLane[v]
  /\ command[v] # NoLane => command[v] \in Destination(roadLane[v])
  /\ laneChanges[v].wait => command[v] # NoLane

RoadInv == TypeInv /\ RoadTypes /\ \A v \in Vehicle : Carried(v)

LEMMA InitRoad == InitOnRoad => RoadInv
<1> SUFFICES ASSUME InitOnRoad PROVE RoadInv
  OBVIOUS
<1>1. TypeInv
  BY InitType DEF InitOnRoad
<1>2. StartLane \in Lane /\ NoLane \notin Lane
  BY LaneAssumption DEF Lane, NoLane
<1>3. RoadTypes
  BY <1>2 DEF InitOnRoad, RoadTypes
<1>4. ASSUME NEW v \in Vehicle
      PROVE  Carried(v)
  <2>1. /\ laneChanges[v] = [lane |-> StartLane, safe |-> FALSE, wait |-> FALSE]
        /\ platoonLane[v] = StartLane /\ roadLane[v] = StartLane /\ command[v] = NoLane
    BY DEF InitOnRoad, Init
  <2>2. laneChanges[v].lane = StartLane /\ laneChanges[v].wait = FALSE
    BY <2>1
  <2>3. QED
    BY <2>1, <2>2 DEF Carried
<1>5. QED
  BY <1>1, <1>3, <1>4 DEF RoadInv

LEMMA ManeuverKeepsRoad == RoadInv /\ ManeuverStep => RoadInv'
<1> SUFFICES ASSUME RoadInv, ManeuverStep PROVE RoadInv'
  OBVIOUS
<1>1. TypeInv' /\ RoadTypes' /\ UNCHANGED roadVars
  BY NextType DEF ManeuverStep, RoadInv, RoadTypes, roadVars
<1>2. ASSUME NEW v \in Vehicle
      PROVE  Carried(v)'
  <2>1. Carried(v) /\ roadLane'[v] = roadLane[v] /\ command'[v] = command[v]
    BY <1>1 DEF RoadInv, roadVars
  <2>2. CASE laneChanges'[v] = laneChanges[v] /\ platoonLane'[v] = platoonLane[v]
    BY <2>1, <2>2 DEF Carried, Destination
  <2>3. ASSUME NEW d \in Lane,
               laneChanges'[v] = [lane |-> d, safe |-> FALSE, wait |-> FALSE],
               platoonLane'[v] = d
        PROVE  Carried(v)'
    <3>1. laneChanges'[v].lane = d /\ laneChanges'[v].wait = FALSE
      BY <2>3
    <3>2. laneChanges'[v] # NoRequest
      BY <3>1 DEF Lane, NoRequest, NoLane
    <3>3. QED
      BY <2>1, <2>3, <3>1, <3>2 DEF Carried, Destination
  <2>4. QED
    BY <2>2, <2>3, LanesTogether DEF RoadInv, ManeuverStep
<1>3. QED
  BY <1>1, <1>2 DEF RoadInv

LEMMA TimestepKeepsRoad ==
  ASSUME RoadInv, NEW moved \in SUBSET Vehicle, NEW overlapping \in SUBSET Vehicle,
         Timestep(moved, overlapping)
  PROVE  RoadInv'
<1>1. /\ roadLane \in [Vehicle -> Lane] /\ command \in [Vehicle -> Lane \cup {NoLane}]
      /\ platoonLane \in [Vehicle -> Lane]
      /\ laneChanges \in [Vehicle -> LaneRequest \cup {NoRequest}]
  BY DEF RoadInv, RoadTypes, TypeInv, TypeOK
<1>2. ASSUME NEW v \in Vehicle
      PROVE  /\ roadLane'[v] \in Lane
             /\ command'[v] \in Lane \cup {NoLane}
             /\ laneChanges'[v] \in LaneRequest \cup {NoRequest}
             /\ Carried(v)'
  <2> DEFINE request == laneChanges[v]
             lane    == roadLane'[v]
             overlaps == v \in overlapping
  <2>1. /\ lane = IF v \in moved THEN command[v] ELSE roadLane[v]
        /\ laneChanges'[v] = RequestAfter(request, lane, overlaps)
        /\ command'[v] = CommandAfter(request, lane, overlaps)
        /\ platoonLane'[v] = platoonLane[v]
        /\ v \in moved => command[v] # NoLane
        /\ Carried(v)
    BY DEF Timestep, RoadInv
  <2>2. lane \in Lane /\ lane \in Int
    BY <1>1, <2>1 DEF Lane
  <2> HIDE DEF lane, overlaps
  <2>3. CASE request = NoRequest
    <3>1. request.wait = FALSE /\ ~Attempted(request, lane, overlaps) /\ ~Satisfied(request, lane)
      BY <2>3 DEF NoRequest, Attempted, Satisfied
    <3>2. laneChanges'[v] = NoRequest /\ command'[v] = NoLane
      BY <2>1, <2>3, <3>1 DEF RequestAfter, CommandAfter
    <3>3. lane = platoonLane[v]
      BY <2>1, <2>3 DEF Carried
    <3>4. NoRequest.wait = FALSE
      BY DEF NoRequest
    <3>5. QED
      BY <2>1, <2>2, <3>2, <3>3, <3>4 DEF Carried, lane
  <2>4. CASE request # NoRequest
    <3>1. /\ request \in LaneRequest /\ request.lane \in Lane /\ request.lane \in Int
          /\ request.wait \in BOOLEAN /\ request.safe \in BOOLEAN
          /\ request.lane = platoonLane[v]
      BY <1>1, <2>1, <2>4 DEF LaneRequest, Lane, Carried
    <3>2. NoLane \notin Lane /\ \A r \in LaneRequest : r # NoRequest
      BY DEF NoLane, Lane, LaneRequest, NoRequest
    <3>3. CASE request.wait
      <4>1. ~Attempted(request, lane, overlaps)
        BY <3>3 DEF Attempted
      <4>2. command'[v] = NoLane /\ laneChanges'[v] = [request EXCEPT !.wait = FALSE]
        BY <2>1, <3>3, <4>1 DEF RequestAfter, CommandAfter
      <4>3. /\ laneChanges'[v] \in LaneRequest /\ laneChanges'[v].lane = request.lane
            /\ laneChanges'[v].wait = FALSE
        BY <3>1, <4>2 DEF LaneRequest
      <4>4. QED
        BY <2>1, <2>2, <3>1, <3>2, <4>2, <4>3 DEF Carried, lane
    <3>4. CASE Satisfied(request, lane)
      <4>1. ~request.wait /\ request.lane = lane /\ ~Attempted(request, lane, overlaps)
        BY <3>4 DEF Satisfied, Attempted
      <4>2. command'[v] = NoLane /\ laneChanges'[v] = NoRequest
        BY <2>1, <3>4, <4>1 DEF RequestAfter, CommandAfter
      <4>3. NoRequest.wait = FALSE
        BY DEF NoRequest
      <4>4. QED
        BY <2>1, <2>2, <3>1, <4>1, <4>2, <4>3 DEF Carried, lane
    <3>5. CASE Attempted(request, lane, overlaps)
      <4>1. ~request.wait /\ request.lane # lane /\ ~Satisfied(request, lane)
        BY <3>5 DEF Satisfied, Attempted
      <4>2. command'[v] = IF request.lane > lane THEN lane + 1 ELSE lane - 1
        BY <2>1, <3>5 DEF CommandAfter
      <4>3. /\ command'[v] \in Destination(lane) /\ command'[v] \in Lane
            /\ command'[v] # NoLane
        BY <2>2, <3>1, <4>1, <4>2, LaneAssumption DEF Destination, Lane, NoLane
      <4>4. laneChanges'[v] = request \/ laneChanges'[v] = [request EXCEPT !.wait = TRUE]
        BY <2>1, <3>5, <4>1 DEF RequestAfter
      <4>5. laneChanges'[v] \in LaneRequest /\ laneChanges'[v].lane = request.lane
        BY <3>1, <4>4 DEF LaneRequest
      <4>6. QED
        BY <2>1, <2>2, <3>1, <3>2, <4>3, <4>5 DEF Carried, Destination, lane
    <3>6. CASE ~request.wait /\ ~Satisfied(request, lane) /\ ~Attempted(request, lane, overlaps)
      <4>1. command'[v] = NoLane /\ laneChanges'[v] = request
        BY <2>1, <3>6 DEF RequestAfter, CommandAfter
      <4>2. QED
        BY <2>1, <2>2, <3>1, <3>2, <3>6, <4>1 DEF Carried, lane
    <3>7. QED
      BY <3>3, <3>4, <3>5, <3>6
  <2>5. QED
    BY <2>3, <2>4
<1>3. RoadTypes' /\ laneChanges' \in [Vehicle -> LaneRequest \cup {NoRequest}]
  BY <1>2 DEF Timestep, RoadTypes
<1>4. TypeInv'
  BY <1>3 
  DEF RoadInv, TypeInv, TypeOK, AcksFromFollowers, Timestep, maneuverVars, leaderVars, runVars
<1>5. QED
  BY <1>2, <1>3, <1>4 DEF RoadInv

LEMMA RoadInvariant == SpecOnRoad => []RoadInv
<1>1. RoadInv /\ UNCHANGED allVars => RoadInv'
  <2> SUFFICES ASSUME RoadInv, UNCHANGED allVars PROVE RoadInv'
    OBVIOUS
  <2>1. TypeInv' /\ laneChanges' = laneChanges /\ platoonLane' = platoonLane
        /\ roadLane' = roadLane /\ command' = command
    BY NextType DEF RoadInv, allVars, vars, roadVars, laneVars
  <2>2. QED
    BY <2>1 DEF RoadInv, RoadTypes, Carried, Destination
<1>2. RoadInv /\ [NextOnRoad]_allVars => RoadInv'
  BY <1>1, ManeuverKeepsRoad, TimestepKeepsRoad DEF NextOnRoad
<1>3. QED
  BY <1>2, InitRoad, PTL DEF SpecOnRoad

(* A vehicle that is not yet in the lane its manoeuvre chose has a request *)
(* for exactly that lane pending, whatever SUMO drops or refuses           *)
(* (PlexeManager, CommandInterface::executePlexeTimestep).                 *)
THEOREM RequestIsKept == SpecOnRoad => []RequestKept
<1>1. RoadInv => RequestKept
  BY DEF RoadInv, Carried, RequestKept
<1>2. QED
  BY <1>1, RoadInvariant, PTL

(* No command ever skips a lane or leaves the road, on roads of any width. *)
THEOREM CommandsGoLaneByLane == SpecOnRoad => []CommandsAreSteps
<1>1. RoadInv => CommandsAreSteps
  BY DEF RoadInv, Carried, CommandsAreSteps
<1>2. QED
  BY <1>1, RoadInvariant, PTL

-----------------------------------------------------------------------------
(* One manoeuvre on the road *)

(* The leader never goes further than one lane, ...                        *)
Beside ==
  platoonLane[Leader] # StartLane => platoonLane[Leader] \in Destination(StartLane)

(* ... so that one command is enough.                                      *)
OneLane(v) ==
  /\ roadLane[v] \in {StartLane, platoonLane[v]}
  /\ command[v] \in {NoLane, platoonLane[v]}

OneChange == Beside /\ \A v \in Vehicle : OneLane(v)

(* Nobody leaves the start lane twice.                                     *)
LEMMA LeavesStartLane ==
  ASSUME TypeInv, SafetyInv, [Next]_vars, NEW v \in Vehicle,
         platoonLane'[v] # platoonLane[v]
  PROVE  platoonLane[v] = StartLane
<1>1. CASE v = Leader
  <2>1. maneuverState[Leader] = "WAIT_REPLY"
    BY <1>1, LeaderChangesLane DEF CountsAck
  <2>2. QED
    BY <1>1, <2>1 DEF SafetyInv, LeaderPhase, Committed
<1>2. CASE v # Leader
  <2>1. PICK u \in Vehicle, w \in Vehicle :
          HandleWarnLaneChangeAck(u, w) \/ HandleStartSignal(u, w)
    BY DEF Next, OnManeuverMessage, vars, laneVars, StartManeuver, HandleTimeoutMsg,
           HandleWarnLaneChange, HandleLaneChanged, HandleLaneChangeClose, HandleAbort,
           OnFailedTransmissionAttempt
  <2>2. platoonLane \in [Vehicle -> Lane] /\ Changing /\ Routes
    BY Types DEF SafetyInv
  <2>3. ~HandleWarnLaneChangeAck(u, w)
    BY <1>2, <2>2 DEF HandleWarnLaneChangeAck, CountsAck, Role, laneVars, SetPlatoonLane
  <2>4. v = w
    BY <2>1, <2>2, <2>3 DEF HandleStartSignal, SetPlatoonLane, laneVars
  <2>5. u = Leader /\ v \in Follower /\ InFlight("StartSignal", Leader, v)
    BY <2>1, <2>2, <2>3, <2>4, ReceiveLemma
    DEF HandleStartSignal, Routes, InFlight, FirstKind
  <2>6. QED
    BY <2>2, <2>5 DEF Changing
<1>3. QED
  BY <1>1, <1>2

LEMMA LeaderGoesBeside ==
  ASSUME TypeInv, SafetyInv, [Next]_vars, Beside
  PROVE  Beside'
<1>1. CASE platoonLane'[Leader] = platoonLane[Leader]
  BY <1>1 DEF Beside, Destination
<1>2. CASE platoonLane'[Leader] # platoonLane[Leader]
  <2>1. /\ maneuverState[Leader] = "WAIT_REPLY"
        /\ SetPlatoonLane(Leader, nextDestination[Leader])
    BY <1>2, LeaderChangesLane DEF CountsAck
  <2>2. nextDestination[Leader] \in Destination(StartLane)
    BY <2>1 DEF SafetyInv, LeaderPhase
  <2>3. platoonLane'[Leader] = nextDestination[Leader]
    BY <2>1, Types DEF SetPlatoonLane
  <2>4. QED
    BY <2>2, <2>3 DEF Beside, Destination
<1>3. QED
  BY <1>1, <1>2

LEMMA InitOneChange == InitOnRoad => OneChange
BY DEF InitOnRoad, Init, OneChange, Beside, OneLane, Vehicle

LEMMA ManeuverKeepsOneChange ==
  ASSUME SafetyInv, RoadInv, OneChange, ManeuverStep
  PROVE  OneChange'
<1>1. TypeInv /\ [Next]_vars /\ UNCHANGED roadVars
  BY DEF RoadInv, ManeuverStep
<1>2. ASSUME NEW v \in Vehicle
      PROVE  OneLane(v)'
  <2>1. OneLane(v) /\ Carried(v) /\ roadLane'[v] = roadLane[v] /\ command'[v] = command[v]
    BY <1>1 DEF OneChange, RoadInv, roadVars
  <2>2. CASE platoonLane'[v] = platoonLane[v]
    BY <2>1, <2>2 DEF OneLane
  <2>3. CASE platoonLane'[v] # platoonLane[v]
    <3>1. platoonLane[v] = StartLane
      BY <1>1, <2>3, LeavesStartLane
    <3>2. roadLane[v] = StartLane /\ command[v] \in {NoLane, StartLane}
      BY <2>1, <3>1 DEF OneLane
    <3>3. StartLane \notin Destination(StartLane)
      BY LaneAssumption DEF Destination
    <3>4. command[v] = NoLane
      BY <2>1, <3>2, <3>3 DEF Carried
    <3>5. QED
      BY <2>1, <3>2, <3>4 DEF OneLane
  <2>4. QED
    BY <2>2, <2>3
<1>3. QED
  BY <1>1, <1>2, LeaderGoesBeside DEF OneChange

LEMMA TimestepKeepsOneChange ==
  ASSUME SafetyInv, RoadInv, OneChange,
         NEW moved \in SUBSET Vehicle, NEW overlapping \in SUBSET Vehicle,
         Timestep(moved, overlapping)
  PROVE  OneChange'
<1>1. TypeInv /\ Changing /\ platoonLane' = platoonLane
  BY DEF RoadInv, SafetyInv, Timestep
<1>2. Beside'
  BY <1>1 DEF OneChange, Beside, Destination
<1>3. ASSUME NEW v \in Vehicle
      PROVE  OneLane(v)'
  <2> DEFINE request == laneChanges[v]
             lane    == roadLane'[v]
             overlaps == v \in overlapping
  <2>1. /\ lane = IF v \in moved THEN command[v] ELSE roadLane[v]
        /\ command'[v] = CommandAfter(request, lane, overlaps)
        /\ v \in moved => command[v] # NoLane
        /\ Carried(v) /\ OneLane(v)
        /\ platoonLane'[v] = platoonLane[v]
    BY <1>1 DEF Timestep, RoadInv, OneChange
  <2>2. lane \in {StartLane, platoonLane[v]}
    BY <2>1 DEF OneLane
  <2> HIDE DEF lane, overlaps
  <2>3. CASE ~Attempted(request, lane, overlaps)
    <3>1. command'[v] = NoLane
      BY <2>1, <2>3 DEF CommandAfter
    <3>2. QED
      BY <2>1, <2>2, <3>1 DEF OneLane, lane
  <2>4. CASE Attempted(request, lane, overlaps)
    <3>1. request # NoRequest /\ request.lane # lane /\ request.lane = platoonLane[v]
      BY <2>1, <2>4 DEF Attempted, Carried
    <3>2. lane = StartLane /\ platoonLane[v] # StartLane
      BY <2>2, <3>1
    <3>3. platoonLane[v] = platoonLane[Leader]
      BY <1>1, <3>2, Types DEF Changing
    <3>4. platoonLane[v] = StartLane + 1 \/ platoonLane[v] = StartLane - 1
      BY <3>2, <3>3 DEF OneChange, Beside, Destination
    <3>5. command'[v] = IF platoonLane[v] > StartLane THEN StartLane + 1 ELSE StartLane - 1
      BY <2>1, <2>4, <3>1, <3>2 DEF CommandAfter
    <3>6. command'[v] = platoonLane[v]
      BY <3>4, <3>5, LaneAssumption
    <3>7. QED
      BY <2>1, <2>2, <3>6 DEF OneLane, lane
  <2>5. QED
    BY <2>3, <2>4
<1>4. QED
  BY <1>2, <1>3 DEF OneChange

LEMMA OneChangeInvariant ==
  MaxStarts = 1 => (SpecOnRoad => [](RoadInv /\ SafetyInv /\ OneChange))
<1> SUFFICES ASSUME MaxStarts = 1
             PROVE  SpecOnRoad => [](RoadInv /\ SafetyInv /\ OneChange)
  OBVIOUS
<1>1. InitOnRoad => SafetyInv /\ OneChange
  BY InitSafety, InitOneChange DEF InitOnRoad
<1>2. ASSUME RoadInv, SafetyInv, OneChange, [NextOnRoad]_allVars
      PROVE  SafetyInv' /\ OneChange'
  <2>1. CASE ManeuverStep
    <3>1. TypeInv /\ [Next]_vars
      BY <1>2, <2>1 DEF RoadInv, ManeuverStep
    <3>2. SafetyInv'
      BY <1>2, <3>1, NextSafety
    <3>3. QED
      BY <1>2, <2>1, <3>2, ManeuverKeepsOneChange
  <2>2. ASSUME NEW moved \in SUBSET Vehicle, NEW overlapping \in SUBSET Vehicle,
               Timestep(moved, overlapping)
        PROVE  SafetyInv' /\ OneChange'
    <3>1. SafetyInv'
      BY <1>2, <2>2, StutterSafety DEF Timestep, runVars
    <3>2. QED
      BY <1>2, <2>2, <3>1, TimestepKeepsOneChange
  <2>3. CASE UNCHANGED allVars
    <3>1. UNCHANGED vars /\ UNCHANGED <<platoonLane, roadLane, command>>
      BY <2>3 DEF allVars, vars, roadVars, laneVars
    <3>2. SafetyInv'
      BY <1>2, <3>1, StutterSafety DEF vars, laneVars, runVars
    <3>3. OneChange'
      BY <1>2, <3>1 DEF OneChange, Beside, OneLane, Destination
    <3>4. QED
      BY <3>2, <3>3
  <2>4. QED
    BY <1>2, <2>1, <2>2, <2>3 DEF NextOnRoad
<1>3. QED
  BY <1>1, <1>2, RoadInvariant, PTL DEF SpecOnRoad

(* Whatever SUMO drops or refuses and however the vehicles' commands and   *)
(* the manoeuvre's messages interleave, a vehicle that is not in the start *)
(* lane drives in the lane of the leader's position helper, and each of    *)
(* the others has that lane or a StartSignal for it (LaneChange.cc:247-327,*)
(* CommandInterface.cc:395-442).                                           *)
THEOREM NobodyLeavesAlone == MaxStarts = 1 => (SpecOnRoad => []LeavesByDecision)
<1> SUFFICES ASSUME MaxStarts = 1 PROVE SpecOnRoad => []LeavesByDecision
  OBVIOUS
<1>1. ASSUME RoadInv, SafetyInv, OneChange
      PROVE  LeavesByDecision
  <2> SUFFICES ASSUME NEW v \in Vehicle, roadLane[v] # StartLane
               PROVE  /\ roadLane[v] = platoonLane[Leader]
                      /\ \A f \in Follower :
                           platoonLane[f] = roadLane[v] \/ InTransit("StartSignal", Leader, f)
    BY DEF LeavesByDecision
  <2>1. roadLane[v] = platoonLane[v] /\ platoonLane[v] # StartLane
    BY <1>1 DEF OneChange, OneLane
  <2>2. Changing /\ TypeInv
    BY <1>1 DEF SafetyInv, RoadInv
  <2>3. platoonLane[v] = platoonLane[Leader]
    BY <2>1, <2>2, Types DEF Changing
  <2>4. \A f \in Follower :
          platoonLane[f] = platoonLane[Leader] \/ InFlight("StartSignal", Leader, f)
    BY <2>2 DEF Changing
  <2>5. QED
    BY <2>1, <2>3, <2>4 DEF InFlight, Holds, InTransit
<1>2. QED
  BY <1>1, OneChangeInvariant, PTL

=============================================================================
