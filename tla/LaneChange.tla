------------------------------ MODULE LaneChange ------------------------------
(***************************************************************************)
(* The lane-change manoeuvre of one platoon: the handlers of LaneChange.cc *)
(* on every vehicle, the timeout of LaneChangePlatooningApp.cc, and the    *)
(* unicast messages between the vehicles.  A handler runs to completion in *)
(* one simulation event, so each is one action.                            *)
(*                                                                         *)
(* Each operator named Faulty... is its neighbour with a plausible bug,    *)
(* used to see that the properties can fail; no specification uses one.    *)
(*                                                                         *)
(* Three things are outside the code and stay open here: whether a lane is *)
(* free (SUMO answers isLaneFree), the order in which messages of          *)
(* different senders or for different receivers arrive, and when the       *)
(* one-second timeout fires relative to them.  ASSERTs are compiled out,   *)
(* as in a release build.                                                  *)
(***************************************************************************)
EXTENDS Integers, Sequences, FiniteSets

CONSTANTS
  Leader,      (* the vehicle the scenario made LEADER                     *)
  Follower,    (* the other vehicles of the platoon's formation            *)
  NLanes,      (* number of lanes of the road (getLanesCount)              *)
  StartLane,   (* the lane the platoon was inserted in                     *)
  MaxStarts    (* how often startChangeLaneManeuver is called; the         *)
               (* scenario of the repository calls it once                 *)

ASSUME PlatoonAssumption == IsFiniteSet(Follower) /\ Leader \notin Follower
ASSUME LaneAssumption == NLanes \in Nat /\ NLanes >= 2 /\ StartLane \in 0 .. NLanes - 1
ASSUME StartsAssumption == MaxStarts \in Nat \ {0}

VARIABLES
  maneuverState,    (* laneChangeManeuverState of each vehicle             *)
  inManeuver,       (* the app's inManeuver flag (and activeManeuver)      *)
  nextDestination,  (* the lane the vehicle means to change to, or NoLane  *)
  platoonLane,      (* positionHelper's platoonLane of each vehicle        *)
  laneChanges,      (* CommandInterface::laneChanges, the lane requests    *)
                    (* handed to SUMO's next time step                     *)
  receivedAck,      (* the keys the leader's map receivedAck holds as true *)
  timer,            (* the leader app's timeoutMsg and the timers it lost  *)
  channel,          (* channel[v][w]: messages from v to w, oldest first   *)
  starts,           (* calls of startChangeLaneManeuver so far             *)
  simulating        (* FALSE once a failed transmission ended the run      *)

maneuverVars == <<maneuverState, inManeuver, nextDestination>>
laneVars     == <<platoonLane, laneChanges>>
leaderVars   == <<receivedAck, timer>>
runVars      == <<starts, simulating>>
vars         == <<maneuverVars, laneVars, leaderVars, channel, runVars>>

-----------------------------------------------------------------------------
(* Values *)

Vehicle == {Leader} \cup Follower
Lane    == 0 .. NLanes - 1
NoLane  == -1

Role(v) == IF v = Leader THEN "LEADER" ELSE "FOLLOWER"

(* LANE_CHANGE is entered and left inside one handler, so no state shows it. *)
ManeuverState == {"IDLE", "WAIT_REPLY", "WAIT_ALL_CHANGED",
                  "PREPARE_LANE_CHANGE", "COMPLETE_LANE_CHANGE"}

MessageKind == {"WarnLaneChange", "WarnLaneChangeAck", "StartSignal",
                "LaneChanged", "LaneChangeClose", "Abort"}
Message     == [kind : MessageKind, lane : Lane \cup {NoLane}]

Plain(kind) == [kind |-> kind, lane |-> NoLane]
Warn(lane)  == [kind |-> "WarnLaneChange", lane |-> lane]

LaneRequest == [lane : Lane, safe : BOOLEAN, wait : BOOLEAN]
NoRequest   == [lane |-> NoLane, safe |-> FALSE, wait |-> FALSE]

(* What timeoutMsg points to.  "unset" is the uninitialised pointer of the *)
(* constructor and "deleted" a message cancelAndDelete freed.              *)
TimerPointer == {"unset", "scheduled", "delivered", "deleted"}
Timer        == [pointer : TimerPointer, orphans : Nat]

-----------------------------------------------------------------------------
(* Sending and receiving *)

Receives(u, v, kind) ==
  /\ simulating
  /\ channel[u][v] # <<>>
  /\ Head(channel[u][v]).kind = kind

Dequeue(u, v) == [channel EXCEPT ![u][v] = Tail(@)]

SendUnicast(ch, v, w, msg) == [ch EXCEPT ![v][w] = Append(@, msg)]

SendToAll(ch, v, dest, msg) ==
  [ch EXCEPT ![v] = [w \in Vehicle |-> IF w \in dest THEN Append(@[w], msg) ELSE @[w]]]

-----------------------------------------------------------------------------
(* Helpers of the handlers *)

FaultySendTimeoutMsg(t) ==      \* only the first phase gets a timer
  IF t.pointer = "unset" THEN [t EXCEPT !.pointer = "scheduled"] ELSE t

SendTimeoutMsg(t) ==
  [pointer |-> "scheduled",
   orphans |-> IF t.pointer = "scheduled" THEN t.orphans + 1 ELSE t.orphans]

FaultyResetTimeoutMsg(t) == t   \* the timer is not cancelled

ResetTimeoutMsg(t) == [t EXCEPT !.pointer = "deleted"]

FaultyAllAcked(acks) ==         \* off by one
  Cardinality(acks) + 1 >= Cardinality(Follower)

AllAcked(acks) == acks = Follower

FaultyResetReceivedAck == UNCHANGED receivedAck

ResetReceivedAck == receivedAck' = {}

(* destination(): the lanes next to the current one.  The code then takes  *)
(* one of them at random.                                                  *)
Destination(lane) == {d \in Lane : d = lane + 1 \/ d = lane - 1}

SetFixedLane(v, lane, safe) ==
  laneChanges' = [laneChanges EXCEPT ![v] = [lane |-> lane, safe |-> safe, wait |-> FALSE]]

FaultySetPlatoonLane(v, lane) == platoonLane' = [platoonLane EXCEPT ![v] = lane + 1]

SetPlatoonLane(v, lane) == platoonLane' = [platoonLane EXCEPT ![v] = lane]

Enter(v, state, lane) ==
  /\ maneuverState' = [maneuverState EXCEPT ![v] = state]
  /\ inManeuver' = [inManeuver EXCEPT ![v] = TRUE]
  /\ nextDestination' = [nextDestination EXCEPT ![v] = lane]

Proceed(v, state) ==
  /\ maneuverState' = [maneuverState EXCEPT ![v] = state]
  /\ UNCHANGED <<inManeuver, nextDestination>>

Release(v) ==
  /\ maneuverState' = [maneuverState EXCEPT ![v] = "IDLE"]
  /\ inManeuver' = [inManeuver EXCEPT ![v] = FALSE]
  /\ nextDestination' = [nextDestination EXCEPT ![v] = NoLane]

FaultyAbortManeuver(v, ch) ==   \* tells the others but stays in the manoeuvre
  /\ channel' = SendToAll(ch, v, Vehicle \ {v}, Plain("Abort"))
  /\ UNCHANGED maneuverVars

(* abortManeuver(), with ch the channels left by what called it.           *)
AbortManeuver(v, ch) ==
  /\ channel' = SendToAll(ch, v, Vehicle \ {v}, Plain("Abort"))
  /\ Release(v)

-----------------------------------------------------------------------------
(* Leader *)

CanInitialize(laneFree) ==
  /\ maneuverState[Leader] = "IDLE"
  /\ ~inManeuver[Leader]
  /\ laneFree

StartManeuver ==
  /\ simulating
  /\ starts < MaxStarts
  /\ starts' = starts + 1
  /\ \E lane \in Destination(platoonLane[Leader]), laneFree \in BOOLEAN :
       IF CanInitialize(laneFree)
       THEN /\ Enter(Leader, "WAIT_REPLY", lane)
            /\ timer' = SendTimeoutMsg(timer)
            /\ ResetReceivedAck
            /\ channel' = SendToAll(channel, Leader, Follower, Warn(lane))
       ELSE /\ nextDestination' = [nextDestination EXCEPT ![Leader] = lane]
            /\ UNCHANGED <<maneuverState, inManeuver, leaderVars, channel>>
  /\ UNCHANGED <<laneVars, simulating>>

CountsAck(v, state) ==
  Role(v) = "LEADER" /\ maneuverState[v] = state /\ inManeuver[v]

HandleWarnLaneChangeAck(u, v) ==
  /\ Receives(u, v, "WarnLaneChangeAck")
  /\ \/ /\ ~CountsAck(v, "WAIT_REPLY")
        /\ channel' = Dequeue(u, v)
        /\ UNCHANGED <<maneuverVars, laneVars, leaderVars>>
     \/ /\ CountsAck(v, "WAIT_REPLY")
        /\ ~AllAcked(receivedAck \cup {u})
        /\ receivedAck' = receivedAck \cup {u}
        /\ channel' = Dequeue(u, v)
        /\ UNCHANGED <<maneuverVars, laneVars, timer>>
     \/ /\ CountsAck(v, "WAIT_REPLY")
        /\ AllAcked(receivedAck \cup {u})
        /\ ResetReceivedAck
        /\ IF nextDestination[v] >= 0
           THEN /\ SetFixedLane(v, nextDestination[v], FALSE)
                /\ SetPlatoonLane(v, nextDestination[v])
                /\ channel' = SendToAll(Dequeue(u, v), v, Follower, Plain("StartSignal"))
                /\ Proceed(v, "WAIT_ALL_CHANGED")
                /\ timer' = SendTimeoutMsg(ResetTimeoutMsg(timer))
           ELSE /\ AbortManeuver(v, Dequeue(u, v))
                /\ timer' = ResetTimeoutMsg(timer)
                /\ UNCHANGED laneVars
  /\ UNCHANGED runVars

HandleLaneChanged(u, v) ==
  /\ Receives(u, v, "LaneChanged")
  /\ \/ /\ ~CountsAck(v, "WAIT_ALL_CHANGED")
        /\ channel' = Dequeue(u, v)
        /\ UNCHANGED <<maneuverVars, leaderVars>>
     \/ /\ CountsAck(v, "WAIT_ALL_CHANGED")
        /\ ~AllAcked(receivedAck \cup {u})
        /\ receivedAck' = receivedAck \cup {u}
        /\ channel' = Dequeue(u, v)
        /\ UNCHANGED <<maneuverVars, timer>>
     \/ /\ CountsAck(v, "WAIT_ALL_CHANGED")
        /\ AllAcked(receivedAck \cup {u})
        /\ ResetReceivedAck
        /\ timer' = ResetTimeoutMsg(timer)
        /\ channel' = SendToAll(Dequeue(u, v), v, Follower, Plain("LaneChangeClose"))
        /\ Release(v)
  /\ UNCHANGED <<laneVars, runVars>>

(* handleSelfMsg(): the timer timeoutMsg points to, or one it lost, fires. *)
(* The pointer keeps naming the delivered message.                         *)
HandleTimeoutMsg ==
  /\ simulating
  /\ \/ /\ timer.pointer = "scheduled"
        /\ timer' = [timer EXCEPT !.pointer = "delivered"]
     \/ /\ timer.orphans > 0
        /\ timer' = [timer EXCEPT !.orphans = @ - 1]
  /\ AbortManeuver(Leader, channel)
  /\ UNCHANGED <<laneVars, receivedAck, runVars>>

-----------------------------------------------------------------------------
(* Follower *)

ProcessWarnLaneChange(v, laneFree) ==
  /\ Role(v) = "FOLLOWER"
  /\ maneuverState[v] = "IDLE"
  /\ ~inManeuver[v]
  /\ laneFree

HandleWarnLaneChange(u, v) ==
  /\ Receives(u, v, "WarnLaneChange")
  /\ \E laneFree \in BOOLEAN :
       \/ /\ ProcessWarnLaneChange(v, laneFree)
          /\ Enter(v, "PREPARE_LANE_CHANGE", Head(channel[u][v]).lane)
          /\ channel' = SendUnicast(Dequeue(u, v), v, u, Plain("WarnLaneChangeAck"))
       \/ /\ ~ProcessWarnLaneChange(v, laneFree)
          /\ AbortManeuver(v, Dequeue(u, v))
  /\ UNCHANGED <<laneVars, leaderVars, runVars>>

FaultyProcessStartSignal(v) ==  \* expects a follower that is not prepared
  Role(v) = "FOLLOWER" /\ maneuverState[v] = "IDLE" /\ ~inManeuver[v]

ProcessStartSignal(v) ==
  /\ Role(v) = "FOLLOWER"
  /\ maneuverState[v] = "PREPARE_LANE_CHANGE"
  /\ inManeuver[v]
  /\ nextDestination[v] >= 0

HandleStartSignal(u, v) ==
  /\ Receives(u, v, "StartSignal")
  /\ \/ /\ ProcessStartSignal(v)
        /\ SetFixedLane(v, nextDestination[v], FALSE)
        /\ SetPlatoonLane(v, nextDestination[v])
        /\ Proceed(v, "COMPLETE_LANE_CHANGE")
        /\ channel' = SendUnicast(Dequeue(u, v), v, u, Plain("LaneChanged"))
     \/ /\ ~ProcessStartSignal(v)
        /\ AbortManeuver(v, Dequeue(u, v))
        /\ UNCHANGED laneVars
  /\ UNCHANGED <<leaderVars, runVars>>

FaultyProcessLaneChangeClose(v) ==  \* expects a state the follower has left
  Role(v) = "FOLLOWER" /\ maneuverState[v] = "PREPARE_LANE_CHANGE" /\ inManeuver[v]

ProcessLaneChangeClose(v) ==
  /\ Role(v) = "FOLLOWER"
  /\ maneuverState[v] = "COMPLETE_LANE_CHANGE"
  /\ inManeuver[v]

HandleLaneChangeClose(u, v) ==
  /\ Receives(u, v, "LaneChangeClose")
  /\ \/ /\ ProcessLaneChangeClose(v)
        /\ channel' = Dequeue(u, v)
        /\ Release(v)
     \/ /\ ~ProcessLaneChangeClose(v)
        /\ AbortManeuver(v, Dequeue(u, v))
  /\ UNCHANGED <<laneVars, leaderVars, runVars>>

-----------------------------------------------------------------------------
(* Either role *)

FaultyHandleAbort(u, v) ==      \* also cancels the leader's timer
  /\ Receives(u, v, "Abort")
  /\ channel' = Dequeue(u, v)
  /\ Release(v)
  /\ timer' = IF v = Leader THEN ResetTimeoutMsg(timer) ELSE timer
  /\ UNCHANGED <<laneVars, receivedAck, runVars>>

HandleAbort(u, v) ==
  /\ Receives(u, v, "Abort")
  /\ channel' = Dequeue(u, v)
  /\ Release(v)
  /\ UNCHANGED <<laneVars, leaderVars, runVars>>

(* onFailedTransmissionAttempt() throws cRuntimeError: the run is over.    *)
OnFailedTransmissionAttempt(u, v) ==
  /\ simulating
  /\ channel[u][v] # <<>>
  /\ simulating' = FALSE
  /\ UNCHANGED <<maneuverVars, laneVars, leaderVars, channel, starts>>

-----------------------------------------------------------------------------
(* Specification *)

(* After initialize(): BaseScenario has fixed every vehicle to its lane.   *)
Init ==
  /\ maneuverState = [v \in Vehicle |-> "IDLE"]
  /\ inManeuver = [v \in Vehicle |-> FALSE]
  /\ nextDestination = [v \in Vehicle |-> NoLane]
  /\ platoonLane = [v \in Vehicle |-> StartLane]
  /\ laneChanges = [v \in Vehicle |-> [lane |-> StartLane, safe |-> FALSE, wait |-> FALSE]]
  /\ receivedAck = {}
  /\ timer = [pointer |-> "unset", orphans |-> 0]
  /\ channel = [v \in Vehicle |-> [w \in Vehicle |-> <<>>]]
  /\ starts = 0
  /\ simulating = TRUE

OnManeuverMessage(u, v) ==
  \/ HandleWarnLaneChange(u, v)
  \/ HandleWarnLaneChangeAck(u, v)
  \/ HandleStartSignal(u, v)
  \/ HandleLaneChanged(u, v)
  \/ HandleLaneChangeClose(u, v)
  \/ HandleAbort(u, v)

Next ==
  \/ StartManeuver
  \/ HandleTimeoutMsg
  \/ \E u, v \in Vehicle : OnManeuverMessage(u, v) \/ OnFailedTransmissionAttempt(u, v)

Spec == Init /\ [][Next]_vars

(* The event queue delivers every frame in transmission and fires every    *)
(* scheduled timer, unless the run ends first.  Nothing makes the scenario *)
(* call startChangeLaneManeuver again.                                     *)
Fairness ==
  /\ \A u, v \in Vehicle : WF_vars(OnManeuverMessage(u, v))
  /\ WF_vars(HandleTimeoutMsg)

FairSpec == Spec /\ Fairness

-----------------------------------------------------------------------------
(* Properties *)

(* Type invariant of the vehicles' manoeuvre state, the leader's timer and *)
(* the messages in transit (LaneChange.h:86-131).                          *)
TypeOK ==
  /\ maneuverState \in [Vehicle -> ManeuverState]
  /\ inManeuver \in [Vehicle -> BOOLEAN]
  /\ nextDestination \in [Vehicle -> Lane \cup {NoLane}]
  /\ platoonLane \in [Vehicle -> Lane]
  /\ laneChanges \in [Vehicle -> LaneRequest \cup {NoRequest}]
  /\ receivedAck \subseteq Follower
  /\ timer \in Timer
  /\ channel \in [Vehicle -> [Vehicle -> Seq(Message)]]
  /\ starts \in 0 .. MaxStarts
  /\ simulating \in BOOLEAN

InTransit(kind, u, v) == \E i \in DOMAIN channel[u][v] : channel[u][v][i].kind = kind

(* The platoon is never split for good: a follower whose lane differs from *)
(* the leader's is prepared to change to exactly that lane and has the     *)
(* leader's StartSignal coming (LaneChange.cc:247-263 and 302-327).        *)
SingleLane ==
  \A f \in Follower :
    platoonLane[f] # platoonLane[Leader] =>
      /\ InTransit("StartSignal", Leader, f)
      /\ maneuverState[f] = "PREPARE_LANE_CHANGE"
      /\ inManeuver[f]
      /\ nextDestination[f] = platoonLane[Leader]

(* Once the leader has changed lane no follower's refusal is under way to  *)
(* anyone: an Abort then could reach a follower before its StartSignal and *)
(* leave it behind (abortManeuver, LaneChange.cc:112-127).                 *)
PointOfNoReturn ==
  platoonLane[Leader] # StartLane =>
    \A f \in Follower, v \in Vehicle : ~InTransit("Abort", f, v)

(* A LaneChangeClose reports a complete manoeuvre: while one is in transit *)
(* every vehicle has asked for the leader's lane and no timeout is left    *)
(* that could abort it (handleLaneChanged, LaneChange.cc:193-231).         *)
CloseMeansChanged ==
  (\E f \in Follower : InTransit("LaneChangeClose", Leader, f)) =>
    /\ \A v \in Vehicle : laneChanges[v].lane = platoonLane[Leader]
    /\ timer.pointer # "scheduled"
    /\ timer.orphans = 0

(* No vehicle is stranded in the manoeuvre: with no message in transit and *)
(* no timer running, all are IDLE and out of the manoeuvre.  A follower    *)
(* whose WarnLaneChange was overtaken by another follower's Abort is freed *)
(* only by the timer handleAbort leaves running (LaneChange.cc:105-110).   *)
NobodyStranded ==
  /\ \A u, v \in Vehicle : channel[u][v] = <<>>
  /\ timer.pointer # "scheduled" /\ timer.orphans = 0
  => \A v \in Vehicle : maneuverState[v] = "IDLE" /\ ~inManeuver[v]

(* Whenever a handler is going to call resetTimeoutMsg, timeoutMsg names a *)
(* message that is scheduled: cancelAndDelete never meets the pointer the  *)
(* constructor left uninitialised or one it freed before                   *)
(* (LaneChangePlatooningApp.cc:96-106).                                    *)
TimerAlive ==
  maneuverState[Leader] \in {"WAIT_REPLY", "WAIT_ALL_CHANGED"} =>
    timer.pointer = "scheduled"

(* The leader changes lane only in a step before which every follower has  *)
(* found that lane free and waits, prepared, to change to it               *)
(* (processWarnLaneChangeAck, LaneChange.cc:265-284).                      *)
UnanimousChange ==
  [][platoonLane'[Leader] # platoonLane[Leader] =>
       \A f \in Follower :
         /\ maneuverState[f] = "PREPARE_LANE_CHANGE"
         /\ nextDestination[f] = platoonLane'[Leader]
         /\ platoonLane[f] = platoonLane[Leader]]_vars

(* The manoeuvre implements the indivisible change of PlatoonLaneChange: a *)
(* follower consents while it is in PREPARE_LANE_CHANGE.                   *)
Promise == INSTANCE PlatoonLaneChange WITH
             lane <- platoonLane,
             consent <- {f \in Follower : maneuverState[f] = "PREPARE_LANE_CHANGE"}

ImplementsPromise == Promise!Spec

(* Whoever entered the manoeuvre leaves it, whatever the order of refusals *)
(* and timeouts, unless the run ends on a failed transmission.             *)
EveryoneReleased ==
  \A v \in Vehicle : inManeuver[v] ~> (~inManeuver[v] \/ ~simulating)

(* When the leader has changed lane the whole platoon ends up in that lane *)
(* and stays in it, even if the leader times out meanwhile.                *)
PlatoonFollows ==
  \A lane \in Lane \ {StartLane} :
    platoonLane[Leader] = lane ~>
      (~simulating \/ [](\A v \in Vehicle : platoonLane[v] = lane))

=============================================================================
