----------------------------- MODULE Beaconing ------------------------------
(***************************************************************************)
(* Platooning beacons: when a vehicle sends one (SimplePlatooningBeaconing *)
(* and SlottedBeaconing), how BaseProtocol recognises the copies it gets   *)
(* through several radios, and what BaseApp passes to the controllers.     *)
(*                                                                         *)
(* Time passes in ticks.  A copy of a beacon arrives within a setup's      *)
(* delay or is lost.  The formations grow at the back, as the join         *)
(* manoeuvre lets them (PlatoonMembership).  A vehicle that nobody         *)
(* registered reads its first formation through an end iterator: any one   *)
(* vehicle, itself or not.  Operators named Faulty... are neighbours with  *)
(* a plausible bug; no specification uses one.                             *)
(***************************************************************************)
EXTENDS Integers, Sequences, SequencesExt

CONSTANTS
  Vehicle,
  Setups,       (* what the configuration of a simulation may choose       *)
  MaxBeacons,   (* bound on the beacons of each vehicle                    *)
  None          (* no vehicle                                              *)

(* With slots an interval that is not positive ends the run at once: the   *)
(* leader's first beacon would be due in the past, or all of them at once. *)
ASSUME SetupAssumption == \A s \in Setups :
  /\ s.protocol \in {"simple", "slotted"}
  /\ s.interval \in Int
  /\ s.protocol = "slotted" => s.interval > 0
  /\ s.second \in Nat \ {0} /\ s.delay \in Nat /\ s.radios \in Nat
  /\ s.platoon \in Seq(Vehicle) /\ s.joining \in Seq(Vehicle)
  /\ Len(s.platoon) > 0 /\ IsInjective(s.platoon \o s.joining)
ASSUME NoneAssumption == None \notin Vehicle
ASSUME BeaconsAssumption == MaxBeacons \in [Vehicle -> Nat]

VARIABLES
  setup,        (* protocol, beaconing interval, ticks of a second, delay, *)
                (* radios, registered platoon, and who will join it        *)
  stray,        (* stray[v]: whom v reads as its leader when nobody        *)
                (* registered it, and whether as the vehicle in front too  *)
  formation,    (* the formation in each vehicle's position helper         *)
  timer,        (* ticks until the self message sendBeacon                 *)
  slotTime,     (* offset from the leader's beacon                         *)
  seq_n,        (* sequence number of the next beacon                      *)
  air,          (* copies of beacons that will arrive                      *)
  knownBeacons, (* knownBeacons[v][u]: last number v accepted from u       *)
  leaderData,   (* the beacon whose data the controller uses for the       *)
  frontData,    (* leader, for the vehicle in front, ...                   *)
  vehicleData,  (* ... and for the vehicle at each position                *)
  simulating,   (* FALSE once a cRuntimeError has ended the run            *)
  quiet,        (* ticks since the last beacon of a vehicle (history)      *)
  before        (* knownBeacons[v] when v last got a formation (history)   *)

givenVars      == <<setup, stray, slotTime, simulating>>
sendVars       == <<timer, seq_n, quiet>>
controllerVars == <<leaderData, frontData, vehicleData>>
formationVars  == <<formation, before>>
vars == <<givenVars, formationVars, sendVars, air, knownBeacons, controllerVars>>

-----------------------------------------------------------------------------
(* Values *)

NotScheduled == -1
Unknown      == -1

Beacon   == [src : Vehicle, seq : Nat]
NoBeacon == [src |-> None, seq |-> Unknown]
Data     == Beacon \cup {NoBeacon}
Frame    == [src : Vehicle, seq : Nat, to : Vehicle, radio : Nat, age : Nat]

Registered == ToSet(setup.platoon)

Whole  == setup.platoon \o setup.joining
OnRoad == ToSet(Whole)
Place  == 1..Len(Whole)

-----------------------------------------------------------------------------
(* The position helper *)

LeaderId(v) == formation[v][1]
IsLast(v)   == formation[v][Len(formation[v])] = v
IsInSamePlatoon(v, u) == \E i \in 1..Len(formation[v]) : formation[v][i] = u
MemberPosition(v, u)  == CHOOSE i \in 1..Len(formation[v]) : formation[v][i] = u
(* Is u the vehicle in front of v?  What v finds before its formation when *)
(* it is not in it is undefined.                                           *)
IsFront(v, u) ==
  IF IsInSamePlatoon(v, v)
  THEN \E i \in 2..Len(formation[v]) : formation[v][i] = v /\ formation[v][i - 1] = u
  ELSE stray[v].front /\ u = LeaderId(v)

-----------------------------------------------------------------------------
(* Sending *)

(* createBeacon and sendTo: a copy per radio for everyone else; the lost   *)
(* ones never arrive.                                                      *)
Copies(v) == {[src |-> v, seq |-> seq_n[v], to |-> w, radio |-> r, age |-> 0] :
                w \in OnRoad \ {v}, r \in 1..setup.radios}

FaultyNextBeacon == setup.interval + 1
NextBeacon == setup.interval

SendBeacon(v) ==
  /\ v \in OnRoad
  /\ timer[v] = 0
  /\ seq_n[v] < MaxBeacons[v]
  /\ \E lost \in SUBSET Copies(v) : air' = air \cup (Copies(v) \ lost)
  /\ seq_n' = [seq_n EXCEPT ![v] = @ + 1]
  /\ timer' = [timer EXCEPT ![v] = NextBeacon]
  /\ quiet' = [quiet EXCEPT ![v] = 0]
  /\ UNCHANGED <<givenVars, formationVars, knownBeacons, controllerVars>>

-----------------------------------------------------------------------------
(* Receiving *)

FaultyIsDuplicated(f) == knownBeacons[f.to][f.src] = f.seq
IsDuplicated(f) == knownBeacons[f.to][f.src] >= f.seq

(* SlottedBeaconing synchronises on the leader, except the last vehicle.   *)
Synchronises(v, u) == setup.protocol = "slotted" /\ u = LeaderId(v) /\ ~IsLast(v)

(* cancels without scheduling again                                        *)
FaultyMessageReceived(v, u) ==
  IF Synchronises(v, u)
  THEN IF timer[v] = NotScheduled THEN slotTime[v] ELSE NotScheduled
  ELSE timer[v]
(* synchronises on the vehicle in front                                    *)
ForwardMessageReceived(v, u) ==
  IF setup.protocol = "slotted" /\ IsFront(v, u) /\ ~IsLast(v)
  THEN slotTime[v] ELSE timer[v]
MessageReceived(v, u) == IF Synchronises(v, u) THEN slotTime[v] ELSE timer[v]

DropDuplicate(f) ==
  /\ IsDuplicated(f)
  /\ air' = air \ {f}
  /\ UNCHANGED <<givenVars, formationVars, sendVars, knownBeacons, controllerVars>>

(* takes everyone who is ahead for the vehicle in front                    *)
FaultyPassToController(v, b) ==
  /\ leaderData' = IF b.src = LeaderId(v) THEN [leaderData EXCEPT ![v] = b] ELSE leaderData
  /\ frontData' = IF b.src # v THEN [frontData EXCEPT ![v] = b] ELSE frontData
  /\ vehicleData' = [vehicleData EXCEPT ![v][MemberPosition(v, b.src)] = b]
PassToController(v, b) ==
  /\ leaderData' = IF b.src = LeaderId(v) THEN [leaderData EXCEPT ![v] = b] ELSE leaderData
  /\ frontData' = IF IsFront(v, b.src) THEN [frontData EXCEPT ![v] = b] ELSE frontData
  /\ vehicleData' = [vehicleData EXCEPT ![v][MemberPosition(v, b.src)] = b]

OnPlatoonBeacon(v, b) ==
  IF IsInSamePlatoon(v, b.src) THEN PassToController(v, b) ELSE UNCHANGED controllerVars

(* The slot of a vehicle that is not in its first formation is at -1.      *)
SlotInPast(f) == Synchronises(f.to, f.src) /\ slotTime[f.to] < 0

HandleLowerMsg(f) ==
  /\ ~IsDuplicated(f) /\ ~SlotInPast(f)
  /\ air' = air \ {f}
  /\ knownBeacons' = [knownBeacons EXCEPT ![f.to][f.src] = f.seq]
  /\ timer' = [timer EXCEPT ![f.to] = MessageReceived(f.to, f.src)]
  /\ OnPlatoonBeacon(f.to, [src |-> f.src, seq |-> f.seq])
  /\ UNCHANGED <<givenVars, formationVars, seq_n, quiet>>

(* scheduleAt for a time in the past: a cRuntimeError.                     *)
ScheduleInPast(f) ==
  /\ ~IsDuplicated(f) /\ SlotInPast(f)
  /\ simulating' = FALSE
  /\ UNCHANGED <<setup, stray, slotTime, formationVars, sendVars, air, knownBeacons,
                 controllerVars>>

-----------------------------------------------------------------------------
(* Formations and time *)

FirstOfWhole(k) == SubSeq(Whole, 1, k)

SetPlatoonFormation(v, f) ==
  /\ formation' = [formation EXCEPT ![v] = f]
  /\ before' = [before EXCEPT ![v] = knownBeacons[v]]

(* A joiner becomes the last of the platoon.  It got into position behind  *)
(* a vehicle it has heard (JoinAtBack::onPlatoonBeacon).                   *)
JoinFormation(v) ==
  \E k \in 1..(Len(Whole) - 1) :
    /\ Whole[k + 1] = v /\ formation[v] = <<stray[v].leader>>
    /\ formation[Whole[1]] = FirstOfWhole(k)
    /\ knownBeacons[v][Whole[k]] # Unknown
    /\ SetPlatoonFormation(v, FirstOfWhole(k + 1))
    /\ UNCHANGED <<givenVars, sendVars, air, knownBeacons, controllerVars>>

(* The leader takes the formation its joiner has, the followers that of    *)
(* the leader, one joiner after the other.                                 *)
UpdatePlatoonFormation(v) ==
  \E k \in 1..(Len(Whole) - 1) :
    /\ v \in ToSet(FirstOfWhole(k)) /\ formation[v] = FirstOfWhole(k)
    /\ Len(formation[IF v = Whole[1] THEN Whole[k + 1] ELSE Whole[1]]) > k
    /\ SetPlatoonFormation(v, FirstOfWhole(k + 1))
    /\ UNCHANGED <<givenVars, sendVars, air, knownBeacons, controllerVars>>

Urgent ==
  \/ \E v \in OnRoad : timer[v] = 0
  \/ \E f \in air : f.age >= setup.delay

Tick ==
  /\ ~Urgent
  /\ timer' = [v \in Vehicle |-> IF timer[v] > 0 THEN timer[v] - 1 ELSE timer[v]]
  /\ air' = {[f EXCEPT !.age = @ + 1] : f \in air}
  /\ quiet' = [v \in Vehicle |-> IF seq_n[v] > 0 /\ quiet[v] < 2 * setup.interval
                                 THEN quiet[v] + 1 ELSE quiet[v]]
  /\ UNCHANGED <<givenVars, formationVars, seq_n, knownBeacons, controllerVars>>

-----------------------------------------------------------------------------
(* Initialisation: every vehicle starts in the formation registered for    *)
(* it, or in the stray one.  With slots only leaders schedule a beacon.    *)

FirstFormation(v) == IF v \in Registered THEN setup.platoon ELSE <<stray[v].leader>>

(* Positions count from 0; -1 is who is not in its formation.              *)
Position(v) == IF IsInSamePlatoon(v, v) THEN MemberPosition(v, v) - 1 ELSE -1
SlotTime(v) == IF setup.protocol = "simple" THEN 0
               ELSE (Position(v) * setup.interval) \div Len(formation[v])

StartsAlone(v) == IF setup.protocol = "simple" THEN setup.interval > 0
                                               ELSE FirstFormation(v)[1] = v
Begin  == 1..(IF setup.protocol = "simple" THEN setup.interval ELSE setup.second)
Latest == setup.interval + (IF setup.protocol = "simple" THEN setup.interval ELSE setup.second)

Init ==
  /\ setup \in Setups
  /\ stray \in [Vehicle -> [leader : Vehicle, front : BOOLEAN]]
  /\ \A v \in Vehicle : v \notin ToSet(setup.joining) => stray[v].leader = v
  /\ \A v \in Vehicle : stray[v].leader = v => ~stray[v].front
  /\ formation = [v \in Vehicle |-> FirstFormation(v)]
  /\ slotTime = [v \in Vehicle |-> SlotTime(v)]
  /\ \E begin \in [{v \in OnRoad : StartsAlone(v)} -> Begin] :
       timer = [v \in Vehicle |-> IF v \in OnRoad /\ StartsAlone(v)
                                  THEN setup.interval + begin[v] ELSE NotScheduled]
  /\ seq_n = [v \in Vehicle |-> 0]
  /\ air = {}
  /\ knownBeacons = [v \in Vehicle |-> [u \in Vehicle |-> Unknown]]
  /\ leaderData = [v \in Vehicle |-> NoBeacon]
  /\ frontData = [v \in Vehicle |-> NoBeacon]
  /\ vehicleData = [v \in Vehicle |-> [i \in Place |-> NoBeacon]]
  /\ simulating = TRUE
  /\ quiet = [v \in Vehicle |-> 0]
  /\ before = knownBeacons

Next ==
  /\ simulating
  /\ \/ \E v \in Vehicle : SendBeacon(v) \/ JoinFormation(v) \/ UpdatePlatoonFormation(v)
     \/ \E f \in air : HandleLowerMsg(f) \/ DropDuplicate(f) \/ ScheduleInPast(f)
     \/ Tick

Spec == Init /\ [][Next]_vars
-----------------------------------------------------------------------------
(* Properties *)

(* Types; the first timer runs an interval and a random time ahead, every  *)
(* later one at most an interval, and only slots no formation gives are in *)
(* the past (BaseProtocol, SimplePlatooningBeaconing, SlottedBeaconing).   *)
TypeOK ==
  /\ setup \in Setups
  /\ formation \in [Vehicle -> Seq(Vehicle)]
  /\ stray \in [Vehicle -> [leader : Vehicle, front : BOOLEAN]]
  /\ timer \in [Vehicle -> {NotScheduled} \cup 0..Latest]
  /\ \A v \in Vehicle : seq_n[v] > 0 => timer[v] <= setup.interval
  /\ slotTime \in [Vehicle -> Int]
  /\ \A v \in Vehicle : slotTime[v] < setup.interval \/ setup.protocol = "simple"
  /\ \A v \in Registered : slotTime[v] >= 0
  /\ seq_n \in [Vehicle -> Nat]
  /\ \A v \in Vehicle : seq_n[v] <= MaxBeacons[v]
  /\ air \subseteq Frame
  /\ knownBeacons \in [Vehicle -> [Vehicle -> Nat \cup {Unknown}]]
  /\ leaderData \in [Vehicle -> Data] /\ frontData \in [Vehicle -> Data]
  /\ vehicleData \in [Vehicle -> [Place -> Data]]
  /\ simulating \in BOOLEAN
  /\ quiet \in [Vehicle -> Nat]
  /\ before \in [Vehicle -> [Vehicle -> Nat \cup {Unknown}]]

(* Two vehicles registered in one platoon never send in the same tick      *)
(* under SlottedBeaconing, whatever beacons of the leader get lost or      *)
(* delayed, while the delay is shorter than a slot                         *)
(* (SlottedBeaconing::messageReceived, handleSelfMsg).                     *)
SendsNow(v) == timer[v] = 0 \/ (quiet[v] = 0 /\ seq_n[v] > 0)

SlotsApart ==
  setup.protocol = "slotted" /\ setup.delay < setup.interval \div Len(setup.platoon) =>
    \A u, v \in Registered : u # v => ~(SendsNow(u) /\ timer[v] = 0)

(* Synchronising on the leader cancels a beacon that was already           *)
(* scheduled.  Still nobody who has sent is silent for longer than an      *)
(* interval and, with slots, the delay of one beacon                       *)
(* (SlottedBeaconing.cc:68-77, SimplePlatooningBeaconing.cc:45).           *)
NeverSilent ==
  /\ setup.protocol = "simple" => \A v \in OnRoad : seq_n[v] > 0 => quiet[v] <= setup.interval
  /\ setup.protocol = "slotted" /\ setup.delay < setup.interval \div Len(setup.platoon) =>
       \A v \in OnRoad : quiet[v] <= setup.interval + setup.delay

(* The chain of sendBeacon messages never breaks, however the platoon      *)
(* grows: who starts it, who has sent, and who has heard its leader since  *)
(* its formation last changed and is not the last of it, has a beacon      *)
(* scheduled (SlottedBeaconing::handleSelfMsg, messageReceived).           *)
HeardLeader(v) == knownBeacons[v][LeaderId(v)] # before[v][LeaderId(v)]

BeaconsGoOn ==
  \A v \in OnRoad :
    \/ StartsAlone(v)
    \/ seq_n[v] > 0
    \/ setup.protocol = "slotted" /\ ~IsLast(v) /\ HeardLeader(v)
    => timer[v] # NotScheduled

(* Copies of one beacon, and of successive beacons, come through radios in *)
(* any order.  What the controllers hold about a vehicle is never replaced *)
(* by an older beacon of it (BaseProtocol::isDuplicated,                   *)
(* BaseApp::onPlatoonBeacon).                                              *)
NewerThan(b, a) == b = a \/ (b.src = a.src => b.seq > a.seq)

DataGetsNewer ==
  \A v \in Vehicle :
    /\ NewerThan(leaderData'[v], leaderData[v])
    /\ NewerThan(frontData'[v], frontData[v])
    /\ \A i \in Place : NewerThan(vehicleData'[v][i], vehicleData[v][i])

DataNeverGoesBack == [][DataGetsNewer]_vars

(* What a controller uses for the leader, for the vehicle in front and for *)
(* each position is the newest beacon accepted from the vehicle that the   *)
(* formation has there, once one has come since the formation changed.     *)
(* Until then it is an older one of the same vehicle, or, for a vehicle    *)
(* nobody registered, of the vehicle its stray formation named             *)
(* (BaseApp::onPlatoonBeacon with BasePositionHelper's positions).         *)
Newest(v, u) == [src |-> u, seq |-> knownBeacons[v][u]]

UsesNewest(v) ==
  \A i \in 1..Len(formation[v]) :
    LET u == formation[v][i] IN
    knownBeacons[v][u] # before[v][u] =>
      /\ vehicleData[v][i] = Newest(v, u)
      /\ i = 1 => leaderData[v] = Newest(v, u)
      /\ IsFront(v, u) => frontData[v] = Newest(v, u)

FromStray(v, d) == v \notin Registered /\ d.src = stray[v].leader

UsesNoOther(v) ==
  /\ leaderData[v] # NoBeacon => leaderData[v].src = LeaderId(v) \/ FromStray(v, leaderData[v])
  /\ frontData[v] # NoBeacon => IsFront(v, frontData[v].src) \/ FromStray(v, frontData[v])
  /\ \A i \in Place : vehicleData[v][i] # NoBeacon =>
       \/ i <= Len(formation[v]) /\ vehicleData[v][i].src = formation[v][i]
       \/ i = 1 /\ FromStray(v, vehicleData[v][i])

ControllerSource == \A v \in Vehicle : UsesNewest(v) /\ UsesNoOther(v)
=============================================================================
