---------------------------- MODULE SelfMessages ----------------------------
(***************************************************************************)
(* Who gets a self message of a vehicle's application: the manoeuvres are  *)
(* asked first, and what none of them handles goes to BaseApp, which logs  *)
(* the vehicle's data periodically and ends the run after a crash.         *)
(*                                                                         *)
(* One vehicle; time passes in ticks.                                      *)
(***************************************************************************)
EXTENDS Integers, TLAPS

CONSTANTS
  App,             (* "general" or "lane_change": the application          *)
  RecordInterval   (* ticks between two recordData                         *)

VARIABLES
  timer,           (* ticks until each self message                        *)
  crashed,         (* has SUMO reported a crash of the vehicle?            *)
  crashLogged,     (* has logVehicleData recorded it?                      *)
  ended            (* has endSimulation been called?                       *)

vars == <<timer, crashed, crashLogged, ended>>

SelfMessage == {"recordData", "stopSimulation", "checkDistance", "TimeoutMsg"}
NotScheduled == -1

ManeuverMessage == IF App = "general" THEN "checkDistance" ELSE "TimeoutMsg"

Schedule(t, msg, delay) == [t EXCEPT ![msg] = delay]

Due(msg) ==
  /\ ~ended
  /\ timer[msg] = 0
(* A message that has been delivered is scheduled no more.                 *)
Delivered(msg) == Schedule(timer, msg, NotScheduled)

(* What the manoeuvres' handleSelfMsg returns: MergeAtBack says whether it *)
(* was its message, LaneChange says it was, whatever the message.          *)
ManeuverHandles(msg) == IF App = "general" THEN msg = "checkDistance" ELSE TRUE

(* checkDistance is scheduled again while the platoon is far, a timeout    *)
(* aborts the manoeuvre.                                                   *)
HandledByManeuver(msg) ==
  /\ Due(msg) /\ ManeuverHandles(msg)
  /\ \E far \in BOOLEAN :
       timer' = IF msg = "checkDistance" /\ far THEN Schedule(timer, msg, RecordInterval)
                ELSE Delivered(msg)
  /\ UNCHANGED <<crashed, crashLogged, ended>>

RecordData ==
  /\ Due("recordData") /\ ~ManeuverHandles("recordData")
  /\ timer' = Schedule(IF crashed THEN Schedule(timer, "stopSimulation", 1) ELSE timer,
                       "recordData", RecordInterval)
  /\ crashLogged' = (crashLogged \/ crashed)
  /\ UNCHANGED <<crashed, ended>>

StopSimulation ==
  /\ Due("stopSimulation") /\ ~ManeuverHandles("stopSimulation")
  /\ timer' = Delivered("stopSimulation")
  /\ ended' = TRUE
  /\ UNCHANGED <<crashed, crashLogged>>

(* A manoeuvre schedules its message, or cancels it.                       *)
ManeuverTimer ==
  /\ ~ended
  /\ \E delay \in {NotScheduled, RecordInterval} :
       timer' = Schedule(timer, ManeuverMessage, delay)
  /\ UNCHANGED <<crashed, crashLogged, ended>>

Crash ==
  /\ ~crashed /\ ~ended
  /\ crashed' = TRUE
  /\ UNCHANGED <<timer, crashLogged, ended>>

Tick ==
  /\ ~ended /\ \A msg \in SelfMessage : timer[msg] # 0
  /\ timer' = [msg \in SelfMessage |-> IF timer[msg] > 0 THEN timer[msg] - 1 ELSE timer[msg]]
  /\ UNCHANGED <<crashed, crashLogged, ended>>

Init ==
  /\ timer = [msg \in SelfMessage |-> IF msg = "recordData" THEN RecordInterval ELSE NotScheduled]
  /\ crashed = FALSE /\ crashLogged = FALSE /\ ended = FALSE

Next ==
  \/ \E msg \in SelfMessage : HandledByManeuver(msg)
  \/ RecordData \/ StopSimulation \/ ManeuverTimer \/ Crash \/ Tick

Spec == Init /\ [][Next]_vars

-----------------------------------------------------------------------------
(* Properties *)

(* BaseApp's messages reach BaseApp, whatever the manoeuvres do: while the *)
(* run goes on the next recording is scheduled, and once a crash has been  *)
(* logged so is the end of the run (Maneuver.h:77-81,                      *)
(* BaseApp::handleSelfMsg, logVehicleData).                                *)
BaseAppIsServed ==
  ~ended =>
    /\ timer["recordData"] # NotScheduled
    /\ crashLogged => timer["stopSimulation"] # NotScheduled

(* Types (BaseApp, Maneuver).                                             *)
TypeOK ==
  /\ timer \in [SelfMessage -> {NotScheduled} \cup 0..(RecordInterval + 1)]
  /\ crashed \in BOOLEAN /\ crashLogged \in BOOLEAN /\ ended \in BOOLEAN

-----------------------------------------------------------------------------
(* Proof: with the manoeuvres of GeneralPlatooningApp, which say whether a *)
(* self message was theirs, BaseApp is served for ever.                    *)

IntervalAssumption == RecordInterval \in Nat \ {0}

ServedInv == TypeOK /\ BaseAppIsServed

LEMMA InitServed ==
  ASSUME IntervalAssumption, Init
  PROVE  ServedInv
  <1>1. RecordInterval \in Nat \ {0} /\ NotScheduled = -1
    BY DEF IntervalAssumption, NotScheduled
  <1>2. timer \in [SelfMessage -> {NotScheduled} \cup 0..(RecordInterval + 1)]
    BY <1>1 DEF Init
  <1>3. timer["recordData"] = RecordInterval
    BY DEF Init, SelfMessage
  <1>4. TypeOK
    BY <1>2 DEF Init, TypeOK
  <1>5. timer["recordData"] # NotScheduled /\ ~crashLogged
    BY <1>1, <1>3 DEF Init
  <1> QED  BY <1>4, <1>5 DEF ServedInv, BaseAppIsServed

LEMMA NextServed ==
  ASSUME IntervalAssumption, App = "general", ServedInv, [Next]_vars
  PROVE  ServedInv'
  <1> USE DEF IntervalAssumption, ServedInv, TypeOK, BaseAppIsServed, SelfMessage, NotScheduled
  <1>1. CASE \E msg \in SelfMessage : HandledByManeuver(msg)
    <2>1. HandledByManeuver("checkDistance")
      BY <1>1 DEF HandledByManeuver, ManeuverHandles
    <2> QED  BY <2>1 DEF HandledByManeuver, Schedule, Delivered
  <1>2. CASE RecordData
    BY <1>2 DEF RecordData, Schedule
  <1>3. CASE StopSimulation
    BY <1>3 DEF StopSimulation, Schedule, Delivered
  <1>4. CASE ManeuverTimer
    BY <1>4 DEF ManeuverTimer, ManeuverMessage, Schedule
  <1>5. CASE Crash
    BY <1>5 DEF Crash
  <1>6. CASE Tick
    BY <1>6 DEF Tick
  <1>7. CASE UNCHANGED vars
    BY <1>7 DEF vars
  <1> QED  BY <1>1, <1>2, <1>3, <1>4, <1>5, <1>6, <1>7 DEF Next

(* The next recording, and after a logged crash the end of the run, stay   *)
(* scheduled for any recording interval (GeneralPlatooningApp and BaseApp  *)
(* ::handleSelfMsg).                                                       *)
THEOREM GeneralAppServesBaseApp ==
  IntervalAssumption /\ App = "general" => (Spec => []BaseAppIsServed)
  <1> SUFFICES ASSUME IntervalAssumption, App = "general"
               PROVE  Spec => []BaseAppIsServed
    OBVIOUS
  <1>1. Init => ServedInv
    BY InitServed
  <1>2. ServedInv /\ [Next]_vars => ServedInv'
    BY NextServed
  <1>3. ServedInv => BaseAppIsServed
    BY DEF ServedInv
  <1> QED  BY <1>1, <1>2, <1>3, PTL DEF Spec
=============================================================================
