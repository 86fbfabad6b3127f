-------------------------- MODULE TrafficInsertion --------------------------
(***************************************************************************)
(* How vehicles come on the road: the traffic managers queue vehicles and  *)
(* register platoons under the ids they expect the vehicles to get; the    *)
(* base class inserts the queue in SUMO, which may refuse a vehicle; the   *)
(* scenario of each inserted vehicle gives it a role by its id.            *)
(*                                                                         *)
(* Several runs may follow each other in one process: the position manager *)
(* is a singleton and keeps what it was told.  Operators named Faulty...   *)
(* are neighbours with a plausible bug; no specification uses one.         *)
(***************************************************************************)
EXTENDS Integers, Sequences, FiniteSets

CONSTANTS
  Setups,       (* what omnetpp.ini may choose                             *)
  MaxRuns       (* runs in one process                                     *)

ASSUME SetupAssumption == \A s \in Setups :
  /\ s.manager \in {"platoons", "join", "human", "ring", "test"}
  /\ s.scenario \in {"join", "merge", "lane_change", "other"}
  /\ {s.nCars, s.gap, s.platoonGap, s.humanCars} \subseteq Nat
  /\ {s.platoonSize, s.nLanes, s.humanLanes} \subseteq Nat \ {0}
  /\ s.sizes \in Seq(Nat \ {0})
ASSUME RunsAssumption == MaxRuns \in Nat

VARIABLES
  traffic,        (* the configuration of this process                     *)
  pending,        (* self messages of the traffic manager, in order of time*)
  queue,          (* vehicleInsertQueue of the only route used             *)
  vehiclesCount,  (* vehicles inserted per type                            *)
  road,           (* the vehicles SUMO has accepted, in that order         *)
  platoons,       (* DynamicPositionManager: <<platoon, position>> -> id,  *)
  positions,      (* <<platoon, id>> -> position,                          *)
  vehToPlatoons,  (* id -> platoon,                                        *)
  information,    (* platoon -> lane                                       *)
  runs

registry == <<platoons, positions, vehToPlatoons, information>>
vars == <<traffic, pending, queue, vehiclesCount, road, registry, runs>>

-----------------------------------------------------------------------------
(* Values *)

Type  == {"auto", "human"}
Event == {"insertPlatoons", "insertJoiner"}
Entry == [type : Type, lane : Int, position : Int]

VehicleLength == 4

-----------------------------------------------------------------------------
(* Platoons in rows: nLanes vehicles side by side, platoonSize rows deep   *)

Rows == traffic.nCars \div traffic.nLanes

NPlatoons == (traffic.nCars \div traffic.platoonSize) \div traffic.nLanes
PlatoonLength == traffic.platoonSize * VehicleLength + (traffic.platoonSize - 1) * traffic.gap

FaultyTotalLength == NPlatoons * PlatoonLength
TotalLength == NPlatoons * PlatoonLength + (NPlatoons - 1) * traffic.platoonGap

(* Every row takes an intra-platoon gap, every platoonSize-th the other.   *)
RowPosition(row) ==
  TotalLength - row * VehicleLength
    - (row - row \div traffic.platoonSize) * traffic.gap
    - (row \div traffic.platoonSize) * traffic.platoonGap

FaultyPlatoonOf(row, lane) == row \div traffic.platoonSize + lane
PlatoonOf(row, lane) == (row \div traffic.platoonSize) * traffic.nLanes + lane

FaultyRowPlace(row) == (row % traffic.platoonSize) - 1
RowPlace(row) == row % traffic.platoonSize

RowCar(id) == LET row == id \div traffic.nLanes
                  lane == id % traffic.nLanes IN
  [id |-> id, platoon |-> PlatoonOf(row, lane), place |-> RowPlace(row),
   lane |-> lane, position |-> RowPosition(row)]

-----------------------------------------------------------------------------
(* Platoons on a ring: dealt to the lanes in turn, queued lane by lane     *)

RingLane(p) == (p - 1) % traffic.nLanes
RingBefore(p) == {q \in DOMAIN traffic.sizes :
                    \/ RingLane(q) < RingLane(p)
                    \/ RingLane(q) = RingLane(p) /\ q < p}
Seats(P) == UNION {{p} \X (0..(traffic.sizes[p] - 1)) : p \in P}
CarsBefore(p) == Cardinality(Seats(RingBefore(p)))
RingCars == Cardinality(Seats(DOMAIN traffic.sizes))

RingCar(id) ==
  LET p == CHOOSE q \in DOMAIN traffic.sizes :
             CarsBefore(q) <= id /\ id < CarsBefore(q) + traffic.sizes[q] IN
  [id |-> id, platoon |-> Cardinality(RingBefore(p)), place |-> id - CarsBefore(p),
   lane |-> RingLane(p), position |-> RingCars - id]

-----------------------------------------------------------------------------
(* What the events queue and register *)

Cars == CASE traffic.manager = "ring" -> RingCars
          [] traffic.manager = "test" -> 0
          [] OTHER                    -> Rows * traffic.nLanes
PlannedCar(id) == IF traffic.manager = "ring" THEN RingCar(id) ELSE RowCar(id)

AsEntry(car) == [type |-> "auto", lane |-> car.lane, position |-> car.position]
PlatoonEntries == [i \in 1..Cars |-> AsEntry(PlannedCar(i - 1))]

(* Vehicles registered nowhere: one that PlatoonsTrafficManager adds, and  *)
(* all those of TestTrafficManager, for any lane (-1).                     *)
NExtra == CASE traffic.manager \in {"platoons", "join"} -> 1
            [] traffic.manager = "test"                 -> traffic.nCars
            [] OTHER                                    -> 0
ExtraLane == IF traffic.manager = "test" THEN -1 ELSE 1
ExtraEntries == [i \in 1..NExtra |-> [type |-> "auto", lane |-> ExtraLane, position |-> 0]]

HumanRows == traffic.humanCars \div traffic.humanLanes
HumanEntries ==
  IF traffic.manager # "human" THEN <<>>
  ELSE [i \in 1..(HumanRows * traffic.humanLanes) |->
         [type |-> "human", lane |-> traffic.nLanes + ((i - 1) % traffic.humanLanes),
          position |-> HumanRows - ((i - 1) \div traffic.humanLanes)]]

Entries(event) ==
  IF event = "insertJoiner" THEN <<[type |-> "auto", lane |-> 2, position |-> 0]>>
  ELSE PlatoonEntries \o ExtraEntries \o HumanEntries

Places == {PlannedCar(id) : id \in 0..(Cars - 1)}

(* std::map::operator[] with the entries of a map: those there are replaced*)
Added(new, old) == [k \in DOMAIN new \cup DOMAIN old |->
                      IF k \in DOMAIN new THEN new[k] ELSE old[k]]

Platoons  == [k \in {<<r.platoon, r.place>> : r \in Places} |->
                (CHOOSE r \in Places : <<r.platoon, r.place>> = k).id]
Positions == [k \in {<<r.platoon, r.id>> : r \in Places} |->
                (CHOOSE r \in Places : <<r.platoon, r.id>> = k).place]
VehToPlatoons == [id \in 0..(Cars - 1) |-> PlannedCar(id).platoon]
(* RingTrafficManager gives no information about its platoons.             *)
Information == [p \in {r.platoon : r \in {s \in Places : traffic.manager # "ring"}} |->
                 (CHOOSE r \in Places : r.platoon = p /\ r.place = 0).lane]

-----------------------------------------------------------------------------
(* Actions *)

PendingAtStart ==
  IF traffic.manager = "join" THEN <<"insertPlatoons", "insertJoiner">>
                              ELSE <<"insertPlatoons">>

InsertPlatoons ==
  /\ pending # <<>> /\ Head(pending) = "insertPlatoons"
  /\ pending' = Tail(pending)
  /\ queue' = queue \o Entries("insertPlatoons")
  /\ platoons' = Added(Platoons, platoons)
  /\ positions' = Added(Positions, positions)
  /\ vehToPlatoons' = Added(VehToPlatoons, vehToPlatoons)
  /\ information' = Added(Information, information)
  /\ UNCHANGED <<traffic, vehiclesCount, road, runs>>

InsertJoiner ==
  /\ pending # <<>> /\ Head(pending) = "insertJoiner"
  /\ pending' = Tail(pending)
  /\ queue' = queue \o Entries("insertJoiner")
  /\ UNCHANGED <<traffic, vehiclesCount, road, registry, runs>>

(* The queue when SUMO accepts k vehicles and refuses the next: what is    *)
(* taken from it and what stays.  With insertInOrder FALSE the vehicle     *)
(* behind the refused one would be tried.                                  *)
UnorderedSplit(k) ==
  IF k + 2 > Len(queue) THEN <<SubSeq(queue, 1, k), SubSeq(queue, k + 1, Len(queue))>>
  ELSE <<Append(SubSeq(queue, 1, k), queue[k + 2]),
         <<queue[k + 1]>> \o SubSeq(queue, k + 3, Len(queue))>>
(* A loop that leaves the last vehicle behind.                             *)
StuckSplit(k) ==
  LET n == IF k = Len(queue) THEN k - 1 ELSE k IN
  <<SubSeq(queue, 1, n), SubSeq(queue, n + 1, Len(queue))>>
Split(k) == <<SubSeq(queue, 1, k), SubSeq(queue, k + 1, Len(queue))>>

OfType(s, type, n) == Cardinality({i \in 1..n : s[i].type = type})

FaultyNumber(s, i) == vehiclesCount[s[i].type]
Number(s, i) == vehiclesCount[s[i].type] + OfType(s, s[i].type, i - 1)

(* At the end of a SUMO time step.                                         *)
InsertVehicles(k) ==
  /\ LET taken == Split(k)[1] IN
       /\ road' = road \o [i \in 1..Len(taken) |-> [id |-> Number(taken, i), entry |-> taken[i]]]
       /\ vehiclesCount' = [type \in Type |-> vehiclesCount[type] + OfType(taken, type, Len(taken))]
  /\ queue' = Split(k)[2]
  /\ UNCHANGED <<traffic, pending, registry, runs>>

(* The next run of the same configuration, in the same process.            *)
NextRun ==
  /\ runs < MaxRuns
  /\ runs' = runs + 1
  /\ pending' = PendingAtStart /\ queue' = <<>> /\ road' = <<>>
  /\ vehiclesCount' = [type \in Type |-> 0]
  /\ UNCHANGED <<traffic, registry>>

Init ==
  /\ traffic \in Setups
  /\ pending = PendingAtStart /\ queue = <<>> /\ road = <<>>
  /\ vehiclesCount = [type \in Type |-> 0]
  /\ platoons = <<>> /\ positions = <<>> /\ vehToPlatoons = <<>> /\ information = <<>>
  /\ runs = 1

Next ==
  \/ InsertPlatoons \/ InsertJoiner \/ NextRun
  \/ \E k \in 1..Len(queue) : InsertVehicles(k)

Spec == Init /\ [][Next]_vars

(* Self messages arrive; SUMO does not refuse a vehicle for ever.          *)
Fairness ==
  /\ WF_vars(InsertPlatoons) /\ WF_vars(InsertJoiner)
  /\ WF_vars(\E k \in 1..Len(queue) : InsertVehicles(k))
FairSpec == Spec /\ Fairness

-----------------------------------------------------------------------------
(* What a vehicle on the road finds about itself                           *)

IsRegistered(id) == id \in DOMAIN vehToPlatoons
PlaceOf(id)  == positions[<<vehToPlatoons[id], id>>]
LeaderOf(id) == platoons[<<vehToPlatoons[id], 0>>]

(* The roles the scenarios may give to the vehicle with this id.  The      *)
(* formation of an unregistered vehicle is undefined.                      *)
IsLeader(id) == IF IsRegistered(id) THEN {LeaderOf(id) = id} ELSE BOOLEAN

FaultyLaneChangeRole(id, leads) ==
  IF id = 0 THEN "LEADER" ELSE IF leads \/ id >= traffic.nCars THEN "NONE" ELSE "FOLLOWER"
LaneChangeRole(id, leads) ==
  IF id % traffic.platoonSize = 0 /\ id < traffic.nCars THEN "LEADER"
  ELSE IF leads \/ id >= traffic.nCars THEN "NONE" ELSE "FOLLOWER"
MergeRole(id, leads) == IF leads THEN "LEADER" ELSE "FOLLOWER"
JoinRole(id) ==
  CASE id = 0 -> "LEADER" [] id \in 1..3 -> "FOLLOWER" [] OTHER -> "NONE"

RoleOf(id, leads) ==
  CASE traffic.scenario = "lane_change" -> LaneChangeRole(id, leads)
    [] traffic.scenario = "merge"       -> MergeRole(id, leads)
    [] traffic.scenario = "join"        -> JoinRole(id)
    [] traffic.scenario = "other"       -> "NONE"
RolesOf(id) == {RoleOf(id, leads) : leads \in IsLeader(id)}

(* Who schedules startManeuver, and the role that the start asserts.       *)
Starts(id, leads) ==
  CASE traffic.scenario = "lane_change" -> id % traffic.platoonSize = 0 /\ id < traffic.nCars
    [] traffic.scenario = "merge"       -> id # 0 /\ leads
    [] traffic.scenario = "join"        -> id = 4
    [] traffic.scenario = "other"       -> FALSE
StarterRole == IF traffic.scenario = "merge" THEN "LEADER" ELSE "NONE"

-----------------------------------------------------------------------------
(* Properties *)

AutoCars == {i \in DOMAIN road : road[i].entry.type = "auto"}

(* Types (TraCIBaseTrafficManager, DynamicPositionManager).                *)
TypeOK ==
  /\ traffic \in Setups
  /\ pending \in Seq(Event)
  /\ queue \in Seq(Entry)
  /\ vehiclesCount \in [Type -> Nat]
  /\ road \in Seq([id : Nat, entry : Entry])
  /\ DOMAIN platoons \subseteq Nat \X Nat /\ DOMAIN positions \subseteq Nat \X Nat
  /\ vehToPlatoons \in [DOMAIN vehToPlatoons -> Nat]
  /\ DOMAIN information \subseteq Nat
  /\ runs \in Nat

(* Ids are given by insertion, formations registered by queueing.  A       *)
(* registered vehicle is nevertheless where its formation says: in the     *)
(* lane its platoon is registered with, which it asks SUMO for, with the   *)
(* vehicle of the next position behind it and nobody in between            *)
(* (TraCIBaseTrafficManager::insertVehicles, insertPlatoons).              *)
Ahead(i, j) == /\ road[i].entry.lane = road[j].entry.lane
               /\ road[i].entry.position > road[j].entry.position
SamePlatoon(i, j) ==
  /\ IsRegistered(road[i].id) /\ IsRegistered(road[j].id)
  /\ vehToPlatoons[road[i].id] = vehToPlatoons[road[j].id]

InLane(i) == information[vehToPlatoons[road[i].id]] = road[i].entry.lane

InFormation ==
  \A i, j \in AutoCars :
    /\ IsRegistered(road[i].id) /\ traffic.manager # "ring" => InLane(i)
    /\ SamePlatoon(i, j) /\ PlaceOf(road[j].id) = PlaceOf(road[i].id) + 1 =>
         /\ Ahead(i, j)
         /\ ~ \E m \in DOMAIN road : Ahead(i, m) /\ Ahead(m, j)

(* SUMO gets the vehicles in the order in which they were queued, and none *)
(* is lost or inserted twice while SUMO refuses some                       *)
(* (TraCIBaseTrafficManager::insertVehicles, addVehicleToQueue).           *)
Announced ==
  IF pending = PendingAtStart THEN <<>>
  ELSE IF pending = <<>> /\ traffic.manager = "join"
       THEN Entries("insertPlatoons") \o Entries("insertJoiner")
  ELSE Entries("insertPlatoons")

InOrder == [i \in 1..Len(road) |-> road[i].entry] \o queue = Announced

(* No two vehicles of a type on the road share an id                       *)
(* (TraCIBaseTrafficManager::insertVehicles, getIdFromExternalId).         *)
UniqueIds ==
  \A i, j \in DOMAIN road :
    i # j /\ road[i].entry.type = road[j].entry.type => road[i].id # road[j].id

(* The position manager's maps tell one story, in every run of a process:  *)
(* positions and vehToPlatoons are the inverse of platoons, and positions  *)
(* of a platoon leave no gap (DynamicPositionManager::addVehicleToPlatoon, *)
(* insertPlatoons).                                                        *)
MapsAgree ==
  /\ \A k \in DOMAIN platoons :
       /\ IsRegistered(platoons[k]) /\ vehToPlatoons[platoons[k]] = k[1]
       /\ PlaceOf(platoons[k]) = k[2]
       /\ \A i \in 0..k[2] : <<k[1], i>> \in DOMAIN platoons
  /\ \A id \in DOMAIN vehToPlatoons :
       /\ <<vehToPlatoons[id], id>> \in DOMAIN positions
       /\ platoons[<<vehToPlatoons[id], PlaceOf(id)>>] = id

(* What the ids in the scenarios' code rest on: platoons in rows, and for  *)
(* the join manoeuvre one platoon of at most four vehicles, since vehicles *)
(* 0 to 3 are its members by id.                                           *)
FittingSetups == \A s \in Setups :
  /\ s.scenario = "lane_change" => s.manager # "ring"
  /\ s.scenario = "join" => /\ s.manager # "ring"
                            /\ s.nCars <= 4 /\ s.nCars <= s.platoonSize

(* With platoons in one lane, the scenarios' choice of roles by id agrees  *)
(* with the registered formations: exactly the first vehicle of a platoon  *)
(* leads it (LaneChangeManeuverScenario.cc:52, MergeManeuverScenario.cc:40,*)
(* JoinManeuverScenario.cc:48).  Whether a manoeuvre may start with that   *)
(* role is the question of StarterHasRole.                                 *)
RolesMatchFormation ==
  traffic.scenario # "other" /\ traffic.nLanes = 1 =>
    \A i \in AutoCars : IsRegistered(road[i].id) =>
      RolesOf(road[i].id) = {IF LeaderOf(road[i].id) = road[i].id THEN "LEADER" ELSE "FOLLOWER"}

(* Complete platoons fit on the road: no vehicle is queued for a position  *)
(* before the start of the route (PlatoonsTrafficManager.cc:73-113).       *)
PositionsFit ==
  Rows % traffic.platoonSize = 0 =>
    \A i \in DOMAIN queue : queue[i].position >= 0

(* Every queued vehicle gets on the road, although one that is refused     *)
(* holds up all behind it, in other lanes too                              *)
(* (TraCIBaseTrafficManager.cc:185-191).                                   *)
AllInserted == <>[](pending = <<>> /\ queue = <<>>)

(* The vehicle that starts the join manoeuvre is the one inserted as       *)
(* joiner, in the lane it keeps (JoinManeuverScenario.cc:70-80,            *)
(* JoinTrafficManager::insertJoiner).                                      *)
JoinerIsInserted ==
  traffic.scenario = "join" =>
    \A i \in AutoCars : \A leads \in IsLeader(road[i].id) :
      Starts(road[i].id, leads) => road[i].entry.lane = 2

(* A vehicle that a scenario lets start a manoeuvre has the role which the *)
(* application asserts at that start (LaneChangePlatooningApp.cc:77,       *)
(* GeneralPlatooningApp.cc:89, 101), given it by the same scenario.        *)
StarterHasRole ==
  \A i \in AutoCars : \A leads \in IsLeader(road[i].id) :
    Starts(road[i].id, leads) => RoleOf(road[i].id, leads) = StarterRole
=============================================================================
