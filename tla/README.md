# A verification of the platooning manoeuvres of platoon-lane-change

platoon-lane-change extends Plexe, an OMNeT++/Veins/SUMO simulator of vehicle
platoons, by a manoeuvre that moves a whole platoon to another lane.  This
project models the manoeuvres, the beacons and the insertion of traffic in
TLA+, model-checks them with TLC and proves their main invariants with TLAPS.
Paths below are relative to `src/plexe/` of the repository unless they start
otherwise.

## 1. Inventory

### Components, state, operations

| Component | State | Operations |
|---|---|---|
| **Lane-change manoeuvre** `maneuver/LaneChange.cc`, `apps/LaneChangePlatooningApp.cc` | manoeuvre state, `inManeuver`, `nextDestination`, `receivedAck`, `timeoutMsg` | start, one handler per message, timeout, abort |
| **Join and merge manoeuvres** `maneuver/JoinAtBack.cc`, `MergeAtBack.cc`, `JoinManeuver.cc` | `joinManeuverState`, `targetPlatoonData`, `joinerData`, `oldFormation`, `checkDistance` | start, one handler per message, beacon of the front vehicle, distance check |
| **GeneralPlatooningApp** | role, `inManeuver`, `activeManeuver` | dispatch of messages and self messages, unicast, formation updates |
| **Position helper / position manager** `utilities/` | platoon id, lane, formation of a vehicle; registered formations | getters, setters, first values |
| **CommandInterface, PlexeManager** `mobility/`, `PlexeManager.cc` | `laneChanges`: lane requests for the next time steps | `setFixedLane`, `executePlexeTimestep` |
| **Beacon protocols** `protocols/` | `seq_n`, `knownBeacons`, `slotTime`, `sendBeacon` timer | send a beacon, recognise duplicates, synchronise on the leader, pass to the application |
| **BaseApp** | timers for recording and for the end of the run; the controllers' data | dispatch of beacons and self messages |
| **Traffic managers** `traffic/`, `mobility/TraCIBaseTrafficManager.cc` | queue of vehicles per route, vehicles inserted per type | queueing, insertion, registration of platoons |
| **Scenarios** `scenarios/` | timers | roles, controllers, start of manoeuvres, speed profiles |
| **Radio driver, human traffic, messages, scripts** | none of interest | |

### How they interact

A scenario calls `start...Maneuver` of the vehicle's app.  The manoeuvre sends
unicast messages through the app, the protocol and the 802.11p MAC; at the
receiver the app passes them to the manoeuvre.  Handlers change the app (role,
active manoeuvre), the position helper (lane, id, formation) and the
`CommandInterface` (lane requests).  `PlexeManager` calls
`executePlexeTimestep` after every SUMO time step; that turns lane requests
into `changeLane` commands.  When a unicast runs out of retries the MAC emits a
signal, on which every manoeuvre throws a `cRuntimeError`: the run is over.

Beside the manoeuvres every vehicle broadcasts beacons.  The protocol drops the
copies it knows, `SlottedBeaconing` sets its timer by those of the leader, and
`BaseApp` files each under the sender's position in the formation for the
controllers; a joiner takes the beacon of the vehicle in front as the sign that
it is in position.  Before all that the traffic manager registers platoons with
the position manager under the ids it expects SUMO's vehicles to get, queues
the vehicles and inserts them as SUMO accepts them; each vehicle reads its
place from the position manager, and the scenario gives it a role by its id.

Nothing runs in parallel inside a vehicle: OMNeT++ executes one event at a
time and a handler runs to completion.  What makes the code hard is the order
of events of different vehicles: messages of different senders overtake each
other, a timeout races the answers it waits for, refusals race decisions, and
SUMO carries a lane change out some time after it was requested, or not at all.

### What makes each component correct

* Lane change: the platoon changes lane as a whole or not at all; nobody stays
  in the manoeuvre; the timer pointer is never used when it names nothing.
* Lane requests: a request is never lost, a command is for an adjacent lane.
* Join and merge: a leader serves one joiner at a time; formations grow only
  at the back; every member finds itself in the formation it holds; members
  come to agree; requests are answered.
* Self messages: what no manoeuvre handles reaches `BaseApp`.
* Beacons: a vehicle that has a reason to send goes on sending; slots do not
  collide; a controller never goes back to older data, and once a beacon has
  come under a formation, uses no other vehicle's.
* Insertion: the id a vehicle is registered under is the id it gets, at the
  place its platoon expects, and the role it gets by its id is the one its
  place asks for; every vehicle comes on the road.

The hazards of the code, each at its line, are listed in `PROJECT.json` with
the properties that cover them.

## 2. Modules

| Module | Models | |
|---|---|---|
| `LaneChange` | the lane-change manoeuvre of one platoon | core |
| `PlatoonLaneChange` | what it promises: an indivisible decision, then each follower moves to the leader's lane | abstract |
| `LaneChangeOnRoad` | `LaneChange` composed with `CommandInterface` and an open SUMO | composition |
| `PlatoonMembership` | join, merge, dispatch of manoeuvre messages, formation updates | |
| `Beaconing` | beacons from the sender's timer to the controllers, with formations that grow | |
| `TrafficInsertion` | traffic managers, position manager, the roles of the manoeuvre scenarios | |
| `SelfMessages` | who gets a self message, for either application; its theorem | |
| `MCLaneChange`, `MCLaneChangeOnRoad`, `MCPlatoonMembership`, `MCBeaconing`, `MCTrafficInsertion` | small instances for TLC | |
| `LaneChangeProofs` | type correctness, timer, nobody is stranded | proofs |
| `LaneChangeSafetyProofs` | the platoon's lane, point of no return, close, unanimity; the manoeuvre implements `PlatoonLaneChange` | proofs |
| `LaneChangeOnRoadProofs` | lane requests, commands, leaving the start lane | proofs |
| `PlatoonMembershipProofs` | types, one joiner at a time | proofs |
| `PlatoonFormationProofs` | the formations the vehicles hold, agreement | proofs |
| `BeaconingProofs` | types, what the controllers hold, when beacons are sent | proofs |
| `TrafficInsertionProofs` | order, ids, types, maps, positions, formations on the road, roles | proofs |

Each handler is one action of the same name, with a capital first letter; it
consumes the first message of a channel and includes every call the handler
makes.  The early returns of a `process...` method are the guard, and the case
they leave is a disjunct of the action (the lane-change manoeuvre aborts in
it) or, in `PlatoonMembership`, the action `Disregard`.  State variables keep
the names of the members they stand for; `maneuverState[v]` is the manoeuvre
state of vehicle `v`, and so on.  Operators called `Faulty...` are variants
with a plausible bug, kept to show that each property can fail; no
specification uses them.

### What is abstracted, and how

* **Channels.** `channel[v][w]` is the sequence of messages from `v` to `w`.
  The MAC keeps one queue per sender and repeats a frame until it is
  acknowledged, so the messages of one pair arrive in order.  The order
  between different pairs is left open, which allows more than one queue per
  sender does (a `sendUnicast` loop sends in the order of the formation).
* **Failed transmission.** Any message may be the one whose retries run out:
  `simulating` becomes FALSE and nothing happens after that, as after the
  `cRuntimeError`.  A message is never lost without that.
* **Timeout.** A scheduled timeout may fire at any time.  The code waits one
  second; the model does not rely on the answer being faster.  `timer` keeps
  what the member `timeoutMsg` points to (unset, scheduled, delivered,
  deleted) and how many scheduled messages it no longer points to.
* **SUMO.** `isLaneFree` may answer either way at every call.  On the road, SUMO
  may drop any command and report any vehicle as overlapping another.
* **Assertions.** `ASSERT` is compiled out of a release build, so a failed one
  does not stop the models; that is why `OneJoiner` states what the handlers'
  assertions compare.  Only the two at the entry of `startJoinManeuver` and
  `startMergeManeuver` (role, not in a manoeuvre) are taken as preconditions
  the caller keeps.  The role asserted at the entry of
  `startChangeLaneManeuver` is not one the caller keeps (finding 5), so
  `LaneChange` is the manoeuvre of a build without assertions.
* **Unregistered vehicles.** The position manager reads the formation of a
  vehicle it does not know through an end iterator: undefined.  `Init` of
  `PlatoonMembership` and of `Beaconing` lets it be any single vehicle, that
  vehicle or another; in `Beaconing`, `stray[v]` is that vehicle, and whether
  `v` finds it in front of itself too.  A vehicle that is not in its formation
  has position -1, so its slot lies in the past: synchronising on its supposed
  leader ends the run (`ScheduleInPast`), as `scheduleAt` does.  A longer stray
  formation is not modelled.
* **Beacons.** A beacon is its sender and sequence number; which copies get lost
  is chosen when it is sent, and each of the others arrives within the delay of
  the setup, in any order.  Time passes in ticks, never past an event that is
  due.  The first beacon is due an interval and a random time after the start
  (up to another interval without slots, up to a second with them); with an
  interval that is not positive nobody starts, as in `examples/autolanechange`.
  The protocol hands a beacon to the application in the same instant, so that is one action.
  Formations change as in `PlatoonMembership` for one platoon: the joiner
  first, then the leader, then each follower.  Delay statistics and the number
  of registered applications are left out.
* **Insertion.** Speeds, headways and the random offset of a lane are left out:
  they move a whole lane.  On the ring a position is only the rank on the lane.
  The message that starts an insertion (in `RingTrafficManager` the call of
  `scenarioLoaded`, in `TestTrafficManager` `generateVehicle`) is an entry of
  `pending`; SUMO accepts any number of vehicles from the front of the queue
  per time step.  `NextRun` is the next run of the same configuration in one
  process: modules are new, the position manager is not.
* **Self messages.** One vehicle; a manoeuvre may set or cancel its own timer at
  any time, and SUMO may report a crash at any time.

## 3. Runs

| Run | Instance | Shows |
|---|---|---|
| `lane_change` | leader, 3 followers, 3 lanes, 1 start | `SingleLane`, `PointOfNoReturn`, `CloseMeansChanged`, `UnanimousChange`; refinement `ImplementsPromise`; `PlatoonFollows` |
| `lane_change_restart` | leader, 2 followers, 2 lanes, 2 starts | `NobodyStranded`, `TimerAlive`, `EveryoneReleased` |
| `on_road` | leader, 1 follower, 4 lanes, 2 starts | `RequestKept`, `CommandsAreSteps`; for behaviours with one start `LeavesByDecision`, `PlatoonArrives` |
| `membership_join` | platoon of 2, two joiners, 2 requests each | `OneJoiner`, `MembersInFormation`, `PlatoonAgrees`, `JoinAtTheBack`, `Admitted`, `EveryRequestAnswered` |
| `membership_merge` | two platoons of 2, a joiner that asks either | `OneJoiner`, `MembersInFormation`, `JoinAtTheBack`, `Admitted`, `MergeCompletes` |
| `membership_stale` | the same, joiner asks the first | violation of `PlatoonAgrees` |
| `membership_denied` | two platoons ask a third | violation of `NoneMeansAlone` |
| `beaconing` | four vehicles in slots; a leader that an unregistered vehicle joins, two radios, a delay longer than the interval; a leader that two unregistered vehicles join, in slots; an interval of -1 | `SlotsApart`, `NeverSilent`, `BeaconsGoOn`, `ControllerSource`, `DataNeverGoesBack` |
| `insertion` | every traffic manager with the examples' configurations, made smaller; two runs each | `InFormation`, `UniqueIds`, `InOrder`, `MapsAgree`, `RolesMatchFormation`, `PositionsFit`, `AllInserted` |
| `self_messages` | the lane-change application | violation of `BaseAppIsServed` |
| `joiner_inserted` | the join example | violation of `JoinerIsInserted` |
| `lane_change_started` | the lane-change example | violation of `StarterHasRole` |

**Bounds.**  Three followers are the example's platoon; with two, an abort can
already overtake a warning and an acknowledgement can be the last but one.
Three lanes give the leader a choice and a follower an off-by-one to make; the
restart run needs only two, since it is about messages of two rounds meeting.
`MaxStarts` is the number of calls of the scenario: one in the repository (the
message that would start it again is commented out, `LaneChange.cc:185-190`),
two where a second round is the hard case.  On the road one follower and two
starts already let a request be replaced while a command is outstanding and be
two lanes away; the three invariants of the run are proved for any platoon,
`PlatoonArrives` is checked for these two vehicles only (two more vehicles or
lanes make its state graph too large).  `LeavesByDecision` and `PlatoonArrives`
are about one manoeuvre and say nothing once a second has started.  Two joiners, or a joiner and a
merging platoon, are the least number of vehicles that can compete for one
leader; asking twice makes a denied vehicle come back to a platoon that has
grown.  Two beacons of each vehicle but one (`FewBeacons`) are enough for one to be late behind the
next and for a leader's beacon to cancel a beacon scheduled after one sent;
the second beacon of vehicle `c` still becomes due, so a collision with it would
show, but it is not sent, which keeps the state graph at 620,000 states;
four vehicles in slots of two ticks, a delay of one and a second of ten
intervals are the example's platoon with a slot longer than a delay.  An
interval shorter than the delay, with two radios, lets every copy of two
beacons arrive in every order.  With slots only a leader alone can be joined
(the last of a longer registered platoon never sends, and a joiner waits for the
beacon of the vehicle in front); two joiners then make the first of them a
follower that is no longer the last and synchronises on its leader.  In
`insertion` the numbers of vehicles and lanes are small but every division and
remainder occurs: complete and incomplete platoons, one lane and several,
platoons of different sizes on the ring.  No run uses symmetry: most check
temporal properties, for which it is unsound.

**Fairness.**  Every message in a channel is handled and every scheduled timer
fires, for the OMNeT++ event queue executes every event (weak fairness per
channel and for the timer).  Nothing forces the scenario to start a manoeuvre,
a transmission to fail or a lane to be free.  In `LaneChangeOnRoad` strong
fairness is assumed of SUMO only: a vehicle is not reported as overlapping at
every time step, and its command is not dropped every time.  In
`PlatoonMembership` a vehicle that moves toward its position reaches it
(`OnPlatoonBeacon`, `CheckDistance`).  In `TrafficInsertion` the traffic
manager's messages arrive and SUMO, while the queue is not empty, accepts the
first vehicle some time: the road ahead drives on.  All liveness properties of
the manoeuvres allow the run to end by a failed transmission.  `NeverSilent`
and `BeaconsGoOn` say what must happen about beacons as invariants over ticks,
and need no fairness.

**Restarts.**  `SingleLane`, `PointOfNoReturn` and `CloseMeansChanged` are
checked and proved for one start.  With a second one they fail in the model: a
message does not say to which round it belongs, so an Abort or an
acknowledgement of the first round counts in the second.  The shipped code
does not start twice, so that is a limit to know before enabling `Again`.

## 4. Findings

Five runs show a disagreement between the code and what it says of itself
(details in `PROJECT.json`):

1. `LaneChange::handleSelfMsg` claims every self message: with the lane-change
   application nothing is recorded after the start and a crash does not end
   the run.  `GeneralPlatooningApp` with join and merge is proved right.
2. In the join example the vehicle that starts the manoeuvre (id 4) is the
   extra one that `insertPlatoons` queues in lane 1, not the joiner that
   `insertJoiner` queues in lane 2.
3. A leader whose merge request is denied becomes `NONE` while its followers
   still follow it, and can never ask again.
4. A vehicle that joins between a merge and the end of the approach is missing
   in the formation of the merged platoon's followers for good.
5. `startChangeLaneManeuver` asserts the role `NONE`
   (`LaneChangePlatooningApp.cc:77`), and the scenario gives the role `LEADER`
   to just the vehicle that it lets start the manoeuvre
   (`LaneChangeManeuverScenario.cc:57`): with assertions compiled in, the example
   of the lane change ends there.  `RolesMatchFormation` is about which vehicle
   gets the role `LEADER`, not about this assertion.  The starts of the join
   (`GeneralPlatooningApp.cc:89`) and of the merge (101) assert the role that
   the scenario gives.

Limits to know, which no doc contradicts:

* A merge request that arrives while its leader serves a joiner (or the
  reverse) reaches the wrong manoeuvre and gets no answer; there is no timeout
  (`GeneralPlatooningApp.cc:196`).  `EveryRequestAnswered` is therefore checked
  for requests of one kind.
* `COMPLETE_LANE_CHANGE` is entered, and reported to the leader, when the lane
  request is stored (`LaneChange.cc:250-259`), not when the vehicle has changed
  lane; `PlatoonArrives` shows that it does in the end, if SUMO lets it.
* With slots a vehicle that was last whenever the leader's beacons came has no
  beacon scheduled; one that wants to join behind it waits for ever
  (`SlottedBeaconing.cc:68`).  `BeaconsGoOn` therefore counts from the first
  beacon of the leader after a formation change.
* With slots a vehicle registered nowhere may take one that it hears for its
  leader, and then schedules a beacon in the past: the run ends
  (`SlottedBeaconing.cc:33-36, 77`).
* A joiner that nobody registered may hold data of another vehicle in the
  leader's place until the first beacon of its new leader: `ControllerSource`
  names that exception (`FromStray`).
* A second run in one process with smaller platoons would find the longer ones
  of the first in the position manager; only a second run of the same
  configuration is modelled.
* The lane of the ring's platoons is -1, for which `setFixedLane` leaves the
  lanes to SUMO (`CommandInterface.cc:236-239`); `InFormation` does not ask for
  it.
* In the merge example, too, the extra vehicle is on the road and registered
  nowhere; its formation is undefined, so it may take any role.

## 5. Proofs

Every invariant and every action property that a run checks is also a theorem,
for all values of the constants that the modules' assumptions admit:
`LaneChange` asks for a finite set of followers, two lanes or more and a start
lane among them; `PlatoonMembership` for disjoint platoons without repetition
and joiners that are in none; `SetupAssumption` of `Beaconing` for platoons
without repetition and, with slots only, a positive beaconing interval (with
another the first beacon of the leader would be due in the past or all of them
at once); `SetupAssumption` of `TrafficInsertion` for sizes of platoons and
numbers of lanes that are not zero, for the code divides by them.

### The lane change

* **`TypeCorrect`**, **`TimerIsAlive`** (any number of starts).  `TypeOK` is
  not inductive: `receivedAck` holds followers only because nobody else sends
  an acknowledgement, so `TypeInv` adds that (`AcksFromFollowers`).
  `TimerAlive` is then preserved handler by handler.
* **`NobodyIsStranded`** (any number of starts).  `ReleaseInv` says what will
  free a vehicle when no timer of the leader runs: a follower in the manoeuvre
  has an Abort or a LaneChangeClose of the leader coming, and so has, behind
  it, every WarnLaneChange that could still draw a follower in.  A leader in
  the manoeuvre has its timer running (`TimerAlive`).  When no message and no
  timer is left, nobody can be in the manoeuvre.
* **`PlatoonInOneLane`, `NoRefusalAfterChange`, `CloseReportsChange`,
  `ChangeIsUnanimous`** (one start).  All four follow from `SafetyInv`, the
  history of one manoeuvre told by its state.  Its parts: nothing is under way
  before the start (`NotStarted`); who can send what to whom, and what is first
  in its queue (`Routes`); what the leader's state means for its lane, its
  timer and its Aborts (`LeaderPhase`); a follower that acknowledged is ready
  for the leader's destination unless another has vetoed the change, and a
  follower whose Abort is under way will never acknowledge (`Vote`); a
  follower with a StartSignal coming is prepared, one without is in the
  leader's lane (`Changing`); a counted LaneChanged comes from a follower
  that has changed (`Changed`); a LaneChangeClose comes after all of them
  (`Closing`).  The four properties are about different
  moments of this history, none is inductive alone: `SingleLane` needs that no
  Abort reaches a prepared follower before its StartSignal, which needs that a
  refusing follower was never counted, which is `Vote`.  `CloseReportsChange`
  needs besides that a lane request is for the vehicle's own lane (`Requests`,
  an invariant of its own).
* **`ManeuverImplementsPromise`** (one start): the refinement of
  `PlatoonLaneChange`.  The mapping needs `SafetyInv` on both sides of a step:
  before the leader's change the platoon drives together, so that a step into
  or out of `PREPARE_LANE_CHANGE` is a consent or a withdrawal; after it the
  followers that still consent are exactly those in another lane than the
  leader, so that a step that changes no lane, a late timeout or Abort among
  them, is a stutter; and the two handlers that change a lane are `Lead` and
  `Follow`.
* **`RequestIsKept`, `CommandsGoLaneByLane`** (any road, any number of starts).
  `RoadInv` adds to `TypeInv` of the manoeuvre the types of road and commands
  and, per vehicle (`Carried`): one without a request has no command
  outstanding and is in the platoon's lane, a request is for the platoon's
  lane, a command is for a lane beside the vehicle's, and a request that waits
  has its command outstanding.
* **`NobodyLeavesAlone`** (at most one start allowed).  `OneChange` says that the leader goes
  one lane beside the start lane, so that one command takes a vehicle there
  and a vehicle is either still in the start lane or in the leader's.

### Joins and merges

* **`TypeCorrect`, `OneJoinerAtATime`**.  `Inv` adds to the types that every
  pair of a vehicle and a leader is in one of nine stages (`Stage`) of the
  handshake: what the one waits for, what the other waits for and which
  messages are on their way fit together.  A handler moves one pair from one
  stage to the next and leaves all other pairs where they are.  A stage says
  that its receiver waits for the next message, so that of the handshake only
  requests are ever disregarded.
* **`EveryMemberInFormation`, `PlatoonsGrowAtTheBack`**.  `PInv` adds to `Inv`
  the `Formations`.  Every leader stands for one line of vehicles (`Known`),
  which only an admission changes, and lengthens at the back.  All formations
  anywhere (held, on their way, or taken over by a leader that merged) are
  front parts of the line of their first vehicle, and a leader that follows
  another has its old platoon behind it in each of them.  The lines of two
  leaders have no vehicle in common.
* **`JoinedPlatoonsAgree`, `NoneIsAloneWithoutMerging`** (no merging leaders).
  `Agreement`: a follower holds its leader's formation, or that formation is on
  its way to it, or its leader has yet to hear that it follows; and no update
  is disregarded.  With merging leaders both are false, findings 3 and 4.

### Beacons

* **`TypeCorrect`, `DataComesFromItsVehicle`, `DataOnlyGetsNewer`**.
  `TypeInv` says that every formation is a first part of the whole platoon, no
  shorter than the registered one, or the single vehicle an unregistered one
  read by chance (`Seated`), which makes every position that the code computes
  one that exists; and that no timer runs without a positive interval.
  `ControllerInv` adds that no vehicle gets its own beacon, that held data is
  no newer than the last accepted beacon of its sender (the duplicate check
  compares with `knownBeacons`, not with what the controller holds), and that
  nothing but the stray formation's vehicle is held from before the vehicle
  joined.
* **`SlotsStayApart`, `SilenceIsBounded`, `TheChainNeverBreaks`**.  `BeatInv`
  relates timers to the leader's beacons: a copy under way is as old as the
  leader's last beacon, so that it sets the timer of its receiver to fire
  within the delay of the start of its slot; a slot begins later than the delay,
  so the beacon of the round is moved and never doubled; and slots lie one
  equal part of the interval apart.  Before the leader's first beacon, which
  may be many intervals ahead, nobody who waits for a slot has anything
  scheduled.  Whoever waits
  for no slot (`Free`) has its next beacon within an interval of its last
  (`Steady`); whoever hears its leader after its formation changed schedules
  anew, also with the slot of its old, shorter formation (`slotTime` is computed
  once, in `initialize`).

### Insertion and self messages

* **`InsertionKeepsOrder`, `IdsAreUnique`** (any configuration, any number of
  runs, as all that follow).  `OrderInv` says how much has been queued
  (`PendingInv`) and that road and queue together are that; `IdsInv` adds that
  every id on the road is below the count of its type.
* **`TypeCorrect`, `MapsTellOneStory`, `CompletePlatoonsFit`,
  `RegisteredInFormation`**.  What a traffic manager is about to queue and to
  register is a sound plan (`Plan`): one vehicle for each place of each platoon,
  no place left out, each platoon in one lane and close together.  For platoons
  in rows that is integer division, for the ring counting the seats in front of
  a platoon.  The maps hold the plan or nothing (`RegistryInv`); automated
  vehicles are announced before any other (`RoadKinds`), so the id of one is
  its place in the order of insertion (`NumbersInv`), which is the place the
  plan gave it.
* **`RolesFitFormations`**: under `FittingSetups` (platoons in rows, not on the
  ring, for the lane change and the join; for a join besides a single platoon of
  at most four vehicles), what the ids written in the scenarios presume.  `MCTrafficInsertion`
  assumes it, so TLC evaluates it for the configurations of the runs.
* **`GeneralAppServesBaseApp`**: `BaseAppIsServed`, which the lane-change
  application violates, holds with the other one.

**Only model-checked:** liveness (`EveryoneReleased`, `PlatoonFollows`,
`PlatoonArrives`, `Admitted`, `EveryRequestAnswered`, `MergeCompletes`,
`AllInserted`), for fairness is out of the prover's reach.

## 6. Not modelled

* Continuous control (speeds, controllers, gaps) and the scenarios that only
  set speed profiles: no protocol state.
* The TraCI encoding in the rest of `CommandInterface`: pure input and output.
* Statistics in `BaseProtocol` and `BaseApp`, colours, debug output.
* `SumoTrafficManager`, human traffic's own protocol and the radio driver: they
  keep no state a property could be about.
* `src/subprojects/plexe_catch/src/catch2/catch.hpp` is a vendored test
  framework, more than half of the repository's lines; the frame around it
  holds no test of this code.
* Message definitions, NED files, scripts and examples: their content appears
  as the fields of messages and the configurations of the runs.

## 7. Plan

1. done: `LaneChange`, `PlatoonLaneChange`, their runs and invariants' proofs.
2. done: `LaneChangeOnRoad`, `PlatoonMembership`, their runs; the proofs of
   `LaneChangeOnRoad`.
3. done: `SelfMessages`, `Beaconing`, `TrafficInsertion`, their runs and proofs.
4. done: the refinement of `PlatoonLaneChange` by `LaneChange`, proved.
5. done: the theorems about `PlatoonMembership`, the timing of beacons and the
   formations on the road.
6. left: agreement after a merge that no join overtakes; what holds of a second
   lane change once the messages of the first are gone; the rest of
   `CommandInterface` that keeps state.
