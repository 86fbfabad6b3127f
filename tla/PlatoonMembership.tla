-------------------------- MODULE PlatoonMembership --------------------------
(***************************************************************************)
(* How vehicles join a platoon and platoons merge: the handlers of         *)
(* JoinAtBack.cc and MergeAtBack.cc, the dispatch of manoeuvre messages    *)
(* and the formation updates of GeneralPlatooningApp.cc, and the formation *)
(* each vehicle keeps in its BasePositionHelper.                           *)
(*                                                                         *)
(* Speeds, controllers and lanes are left out: they decide only when the   *)
(* joiner is close enough, which stays open.  Operators named Faulty...    *)
(* are neighbours with a plausible bug, used to see that the properties    *)
(* can fail; no specification uses one.                                    *)
(***************************************************************************)
EXTENDS Naturals, Sequences, SequencesExt

CONSTANTS
  Vehicle,
  Platoons,    (* the formations the traffic manager registers; a platoon  *)
               (* is named by its first vehicle, the leader                *)
  Joiner,      (* the vehicles for which startJoinManeuver is called       *)
  Merger,      (* the leaders for which startMergeManeuver is called       *)
  Target,      (* the leaders they ask                                     *)
  MaxStarts,   (* how often the scenario calls either for one vehicle      *)
  None         (* INVALID_PLATOON_ID, and no vehicle                       *)

Leaders    == {Head(p) : p \in Platoons}
Registered == UNION {ToSet(p) : p \in Platoons}

ASSUME VehicleAssumption ==
  /\ Registered \subseteq Vehicle
  /\ Joiner = Vehicle \ Registered
  /\ Merger \subseteq Leaders /\ Target \subseteq Leaders
  /\ None \notin Vehicle
ASSUME PlatoonsAssumption ==
  /\ Platoons \subseteq Seq(Vehicle)
  /\ \A p \in Platoons : Len(p) > 0 /\ IsInjective(p)
  /\ \A p, q \in Platoons : p # q => ToSet(p) \cap ToSet(q) = {}
ASSUME StartsAssumption == MaxStarts \in Nat

VARIABLES
  role,         (* platoon role of each vehicle's app                      *)
  active,       (* its activeManeuver, "none" when not in a manoeuvre      *)
  platoonId,    (* the position helper's platoon id ...                    *)
  formation,    (* ... and formation, from which it derives leader and     *)
                (* position                                                *)
  state,        (* state[v][m]: joinManeuverState of v's manoeuvre m       *)
  target,       (* target[v][m]: its targetPlatoonData                     *)
  joiner,       (* joiner[v][m]: its joinerData                            *)
  old,          (* MergeAtBack's oldPlatoonId and oldFormation             *)
  checkDistance,(* is MergeAtBack's self message scheduled?                *)
  channel,      (* channel[v][w]: messages from v to w, oldest first       *)
  starts,       (* manoeuvres started for each vehicle                     *)
  simulating    (* FALSE once a failed transmission ended the run          *)

appVars      == <<role, active>>
helperVars   == <<platoonId, formation>>
maneuverVars == <<state, target, joiner>>
mergeVars    == <<old, checkDistance>>
runVars      == <<starts, simulating>>
vars == <<appVars, helperVars, maneuverVars, mergeVars, channel, runVars>>

-----------------------------------------------------------------------------
(* Values *)

Maneuver == {"join", "merge"}
Role     == {"NONE", "LEADER", "FOLLOWER", "JOINER"}

JoinManeuverState == {"IDLE",
  "J_WAIT_REPLY", "J_WAIT_INFORMATION", "J_MOVE_IN_POSITION", "J_WAIT_JOIN",
  "L_WAIT_JOINER_IN_POSITION", "L_WAIT_JOINER_TO_JOIN"}

(* The state in which the joiner, or the leader, expects a kind of message *)
JoinerExpects ==
  [JoinPlatoonResponse |-> "J_WAIT_REPLY",
   MoveToPosition      |-> "J_WAIT_INFORMATION",
   JoinFormation       |-> "J_WAIT_JOIN"]
LeaderExpects ==
  [MoveToPositionAck   |-> "L_WAIT_JOINER_IN_POSITION",
   JoinFormationAck    |-> "L_WAIT_JOINER_TO_JOIN"]

Request == [join |-> "JoinPlatoonRequest", merge |-> "MergePlatoonRequest"]

UpdateKind  == {"UpdatePlatoonFormation", "UpdatePlatoonData"}
MessageKind == {Request[m] : m \in Maneuver} \cup DOMAIN JoinerExpects
                 \cup DOMAIN LeaderExpects \cup UpdateKind

Id        == Leaders \cup {None}
Formation == Seq(Vehicle)
Message   == [kind : MessageKind, platoonId : Id, formation : Formation,
              permitted : BOOLEAN, newPlatoonId : Id]

Msg(kind, id, f) ==
  [kind |-> kind, platoonId |-> id, formation |-> f, permitted |-> FALSE, newPlatoonId |-> id]

NoTarget == [platoonId |-> None, platoonLeader |-> None, newFormation |-> <<>>]
NoJoiner == [id |-> None, newFormation |-> <<>>]

-----------------------------------------------------------------------------
(* Sending, receiving and dispatching *)

Send(ch, v, w, msg) == [ch EXCEPT ![v][w] = Append(@, msg)]

(* To everyone in the formation f but its first vehicle.                   *)
SendToFollowers(ch, v, f, msg) ==
  [ch EXCEPT ![v] =
    [w \in Vehicle |-> IF w \in ToSet(Tail(f)) THEN Append(@[w], msg) ELSE @[w]]]

Receives(u, v, kind) ==
  /\ simulating
  /\ channel[u][v] # <<>>
  /\ Head(channel[u][v]).kind = kind

Dequeue(u, v) == [channel EXCEPT ![u][v] = Tail(@)]

(* onManeuverMessage passes a message to the active manoeuvre only; to     *)
(* both when there is none.                                                *)
Served(m, v) == active[v] \in {"none", m}

LeaderId(v) == Head(formation[v])

FaultySetActive(v, m) == active' = [active EXCEPT ![v] = "none"]

SetActive(v, m) == active' = [active EXCEPT ![v] = m]
SetRole(v, r) == role' = [role EXCEPT ![v] = r]
SetState(v, m, s) == state' = [state EXCEPT ![v][m] = s]

FaultySetFormation(v, f) ==     \* a leader keeps the formation it has
  formation' = [formation EXCEPT ![v] = IF v = Head(f) THEN @ ELSE f]

SetFormation(v, f) == formation' = [formation EXCEPT ![v] = f]

-----------------------------------------------------------------------------
(* Guards of the handlers, for the first message from u to v *)

FaultyForMyPlatoon(m, u, v) ==  \* not even a denial while in a manoeuvre
  LET msg == Head(channel[u][v]) IN
  /\ active[v] = "none"
  /\ msg.kind = Request[m]
  /\ msg.platoonId = platoonId[v]
  /\ role[v] \in {"LEADER", "NONE"}

ForMyPlatoon(m, u, v) ==
  LET msg == Head(channel[u][v]) IN
  /\ Served(m, v)
  /\ msg.kind = Request[m]
  /\ msg.platoonId = platoonId[v]
  /\ role[v] \in {"LEADER", "NONE"}

FromTarget(m, u, v) ==
  LET msg == Head(channel[u][v]) IN
  /\ Served(m, v)
  /\ msg.kind \in DOMAIN JoinerExpects
  /\ role[v] = "JOINER"
  /\ state[v][m] = JoinerExpects[msg.kind]
  /\ msg.platoonId = target[v][m].platoonId
  /\ u = target[v][m].platoonLeader

FromJoiner(m, u, v) ==
  LET msg == Head(channel[u][v]) IN
  /\ Served(m, v)
  /\ msg.kind \in DOMAIN LeaderExpects
  /\ role[v] = "LEADER"
  /\ state[v][m] = LeaderExpects[msg.kind]
  /\ msg.platoonId = platoonId[v]
  /\ u = joiner[v][m].id

FromLeader(u, v) ==
  /\ Head(channel[u][v]).kind \in UpdateKind
  /\ role[v] = "FOLLOWER"
  /\ Head(channel[u][v]).platoonId = platoonId[v]
  /\ u = LeaderId(v)

-----------------------------------------------------------------------------
(* The vehicle that joins, or the leader of the platoon that merges *)

(* initializeJoinManeuver and startManeuver.  The scenarios call them for  *)
(* a vehicle that the app's ASSERTs admit.                                 *)
StartManeuver(m, v, leader) ==
  /\ simulating
  /\ starts[v] < MaxStarts
  /\ role[v] = IF m = "join" THEN "NONE" ELSE "LEADER"
  /\ active[v] = "none"
  /\ leader # v
  /\ starts' = [starts EXCEPT ![v] = @ + 1]
  /\ old' = IF m = "merge"
            THEN [old EXCEPT ![v] = [platoonId |-> platoonId[v], formation |-> formation[v]]]
            ELSE old
  /\ state[v][m] = "IDLE"
  /\ SetActive(v, m)
  /\ SetRole(v, "JOINER")
  /\ target' = [target EXCEPT ![v][m] = [NoTarget EXCEPT !.platoonId = leader,
                                                         !.platoonLeader = leader]]
  /\ SetState(v, m, "J_WAIT_REPLY")
  /\ LET members == IF m = "merge" THEN Tail(formation[v]) ELSE <<>> IN
     channel' = Send(channel, v, leader, Msg(Request[m], leader, members))
  /\ UNCHANGED <<helperVars, joiner, checkDistance, simulating>>

HandleJoinPlatoonResponse(m, u, v) ==
  /\ Receives(u, v, "JoinPlatoonResponse")
  /\ FromTarget(m, u, v)
  /\ \/ /\ Head(channel[u][v]).permitted
        /\ SetState(v, m, "J_WAIT_INFORMATION")
        /\ UNCHANGED appVars
     \/ /\ ~Head(channel[u][v]).permitted
        /\ SetState(v, m, "IDLE")
        /\ SetRole(v, "NONE")
        /\ SetActive(v, "none")
  /\ channel' = Dequeue(u, v)
  /\ UNCHANGED <<helperVars, target, joiner, mergeVars, runVars>>

HandleMoveToPosition(m, u, v) ==
  /\ Receives(u, v, "MoveToPosition")
  /\ FromTarget(m, u, v)
  /\ target' = [target EXCEPT ![v][m].newFormation = Head(channel[u][v]).formation]
  /\ SetState(v, m, "J_MOVE_IN_POSITION")
  /\ channel' = Dequeue(u, v)
  /\ UNCHANGED <<appVars, helperVars, joiner, mergeVars, runVars>>

(* A beacon of the vehicle in front, when v has come close enough to it.   *)
(* Any other beacon only feeds the controller.                             *)
OnPlatoonBeacon(m, v) ==
  /\ simulating
  /\ state[v][m] = "J_MOVE_IN_POSITION"
  /\ channel' = Send(channel, v, Head(target[v][m].newFormation),
                     Msg("MoveToPositionAck", target[v][m].platoonId, target[v][m].newFormation))
  /\ SetState(v, m, "J_WAIT_JOIN")
  /\ UNCHANGED <<appVars, helperVars, target, joiner, mergeVars, runVars>>

HandleJoinFormation(m, u, v) ==
  /\ Receives(u, v, "JoinFormation")
  /\ FromTarget(m, u, v)
  /\ LET msg == Head(channel[u][v]) IN
     /\ platoonId' = [platoonId EXCEPT ![v] = msg.platoonId]
     /\ SetFormation(v, msg.formation)
     /\ channel' = Send(Dequeue(u, v), v, Head(msg.formation),
                        Msg("JoinFormationAck", msg.platoonId, msg.formation))
  /\ SetRole(v, "FOLLOWER")
  /\ SetState(v, m, "IDLE")
  /\ SetActive(v, "none")
  /\ checkDistance' = [checkDistance EXCEPT ![v] = @ \/ m = "merge"]
  /\ UNCHANGED <<target, joiner, old, runVars>>

FaultyCheckDistance(v) ==       \* addresses the followers by the new platoon id
  /\ simulating
  /\ checkDistance[v]
  /\ checkDistance' = [checkDistance EXCEPT ![v] = FALSE]
  /\ channel' = SendToFollowers(channel, v, old[v].formation,
       [Msg("UpdatePlatoonData", platoonId[v], target[v]["merge"].newFormation)
          EXCEPT !.newPlatoonId = target[v]["merge"].platoonId])
  /\ UNCHANGED <<appVars, helperVars, maneuverVars, old, runVars>>

(* MergeAtBack::handleSelfMsg, once the platoon in front is close enough;  *)
(* before, it only schedules itself again.                                 *)
CheckDistance(v) ==
  /\ simulating
  /\ checkDistance[v]
  /\ checkDistance' = [checkDistance EXCEPT ![v] = FALSE]
  /\ channel' = SendToFollowers(channel, v, old[v].formation,
       [Msg("UpdatePlatoonData", old[v].platoonId, target[v]["merge"].newFormation)
          EXCEPT !.newPlatoonId = target[v]["merge"].platoonId])
  /\ UNCHANGED <<appVars, helperVars, maneuverVars, old, runVars>>

-----------------------------------------------------------------------------
(* The leader of the platoon in front *)

FaultyIsJoinAllowed(v) == role[v] \in {"LEADER", "NONE"}    \* even when busy

IsJoinAllowed(v) == role[v] \in {"LEADER", "NONE"} /\ active[v] = "none"

FaultyGrant(ch, v, u, id, f) ==       \* the answer after the information
  Send(Send(ch, v, u, Msg("MoveToPosition", id, f)), v, u,
       [Msg("JoinPlatoonResponse", id, <<>>) EXCEPT !.permitted = TRUE])

Grant(ch, v, u, id, f) ==
  Send(Send(ch, v, u, [Msg("JoinPlatoonResponse", id, <<>>) EXCEPT !.permitted = TRUE]),
       v, u, Msg("MoveToPosition", id, f))

FaultyNewFormation(f, u, members) ==  \* the joiner goes behind the leader
  <<Head(f), u>> \o Tail(f) \o members

ForgetfulNewFormation(f, u, members) ==  \* before the joiner's id is stored
  Append(f, None) \o members

(* The joiner goes to the back, in front of those that come with it.       *)
NewFormation(f, u, members) == Append(f, u) \o members

(* handleJoinPlatoonRequest and handleMergePlatoonRequest                  *)
HandleRequest(m, u, v) ==
  /\ Receives(u, v, Request[m])
  /\ ForMyPlatoon(m, u, v)
  /\ LET msg  == Head(channel[u][v])
         next == NewFormation(formation[v], u, msg.formation)
     IN \/ /\ IsJoinAllowed(v)
           /\ SetActive(v, m)
           /\ SetRole(v, "LEADER")
           /\ joiner' = [joiner EXCEPT ![v][m] = [id |-> u, newFormation |-> next]]
           /\ SetState(v, m, "L_WAIT_JOINER_IN_POSITION")
           /\ channel' = Grant(Dequeue(u, v), v, u, msg.platoonId, next)
        \/ /\ ~IsJoinAllowed(v)
           /\ channel' = Send(Dequeue(u, v), v, u, Msg("JoinPlatoonResponse", msg.platoonId, <<>>))
           /\ UNCHANGED <<appVars, joiner, state>>
  /\ UNCHANGED <<helperVars, target, mergeVars, runVars>>

HandleMoveToPositionAck(m, u, v) ==
  /\ Receives(u, v, "MoveToPositionAck")
  /\ FromJoiner(m, u, v)
  /\ channel' = Send(Dequeue(u, v), v, u,
                     Msg("JoinFormation", platoonId[v], joiner[v][m].newFormation))
  /\ SetState(v, m, "L_WAIT_JOINER_TO_JOIN")
  /\ UNCHANGED <<appVars, helperVars, target, joiner, mergeVars, runVars>>

HandleJoinFormationAck(m, u, v) ==
  /\ Receives(u, v, "JoinFormationAck")
  /\ FromJoiner(m, u, v)
  /\ LET f == joiner[v][m].newFormation IN
     /\ SetFormation(v, f)
     /\ channel' = SendToFollowers(Dequeue(u, v), v, f,
                                   Msg("UpdatePlatoonFormation", platoonId[v], f))
  /\ SetState(v, m, "IDLE")
  /\ SetActive(v, "none")
  /\ UNCHANGED <<role, platoonId, target, joiner, mergeVars, runVars>>

-----------------------------------------------------------------------------
(* Followers, and messages nobody waits for *)

HandleUpdatePlatoonFormation(u, v) ==
  /\ Receives(u, v, "UpdatePlatoonFormation")
  /\ FromLeader(u, v)
  /\ SetFormation(v, Head(channel[u][v]).formation)
  /\ channel' = Dequeue(u, v)
  /\ UNCHANGED <<appVars, platoonId, maneuverVars, mergeVars, runVars>>

HandleUpdatePlatoonData(u, v) ==
  /\ Receives(u, v, "UpdatePlatoonData")
  /\ FromLeader(u, v)
  /\ SetFormation(v, Head(channel[u][v]).formation)
  /\ platoonId' = [platoonId EXCEPT ![v] = Head(channel[u][v]).newPlatoonId]
  /\ channel' = Dequeue(u, v)
  /\ UNCHANGED <<appVars, maneuverVars, mergeVars, runVars>>

Wanted(u, v) ==
  \/ \E m \in Maneuver : ForMyPlatoon(m, u, v) \/ FromTarget(m, u, v) \/ FromJoiner(m, u, v)
  \/ FromLeader(u, v)

(* Every handler returns at its first guard.  Only MergeAtBack's           *)
(* handleJoinFormation has by then scheduled its self message.             *)
Disregard(u, v) ==
  /\ simulating
  /\ channel[u][v] # <<>>
  /\ ~Wanted(u, v)
  /\ checkDistance' = [checkDistance EXCEPT ![v] =
       @ \/ (Served("merge", v) /\ Head(channel[u][v]).kind = "JoinFormation")]
  /\ channel' = Dequeue(u, v)
  /\ UNCHANGED <<appVars, helperVars, maneuverVars, old, runVars>>

(* onFailedTransmissionAttempt() throws cRuntimeError: the run is over.    *)
OnFailedTransmissionAttempt(u, v) ==
  /\ simulating
  /\ channel[u][v] # <<>>
  /\ simulating' = FALSE
  /\ UNCHANGED <<appVars, helperVars, maneuverVars, mergeVars, channel, starts>>

-----------------------------------------------------------------------------
(* Specification *)

(* A vehicle that no traffic manager registered gets the platoon id -1,    *)
(* and a formation read through an end iterator: it may be anything.       *)
Init ==
  /\ role = [v \in Vehicle |-> IF v \in Leaders THEN "LEADER"
                               ELSE IF v \in Registered THEN "FOLLOWER" ELSE "NONE"]
  /\ active = [v \in Vehicle |-> "none"]
  /\ \E stray \in [Joiner -> {<<w>> : w \in Vehicle}] :
       formation = [v \in Vehicle |-> IF v \in Registered
                                      THEN CHOOSE p \in Platoons : v \in ToSet(p)
                                      ELSE stray[v]]
  /\ platoonId = [v \in Vehicle |-> IF v \in Registered THEN Head(formation[v]) ELSE None]
  /\ state = [v \in Vehicle |-> [m \in Maneuver |-> "IDLE"]]
  /\ target = [v \in Vehicle |-> [m \in Maneuver |-> NoTarget]]
  /\ joiner = [v \in Vehicle |-> [m \in Maneuver |-> NoJoiner]]
  /\ old = [v \in Vehicle |-> [platoonId |-> None, formation |-> <<>>]]
  /\ checkDistance = [v \in Vehicle |-> FALSE]
  /\ channel = [v \in Vehicle |-> [w \in Vehicle |-> <<>>]]
  /\ starts = [v \in Vehicle |-> 0]
  /\ simulating = TRUE

Start ==
  \/ \E v \in Joiner, leader \in Target : StartManeuver("join", v, leader)
  \/ \E v \in Merger, leader \in Target : StartManeuver("merge", v, leader)

OnManeuverMessage(u, v) ==
  \/ \E m \in Maneuver :
       \/ HandleRequest(m, u, v)
       \/ HandleJoinPlatoonResponse(m, u, v)
       \/ HandleMoveToPosition(m, u, v)
       \/ HandleMoveToPositionAck(m, u, v)
       \/ HandleJoinFormation(m, u, v)
       \/ HandleJoinFormationAck(m, u, v)
  \/ HandleUpdatePlatoonFormation(u, v)
  \/ HandleUpdatePlatoonData(u, v)
  \/ Disregard(u, v)

Next ==
  \/ Start
  \/ \E u, v \in Vehicle : OnManeuverMessage(u, v) \/ OnFailedTransmissionAttempt(u, v)
  \/ \E v \in Vehicle : CheckDistance(v) \/ \E m \in Maneuver : OnPlatoonBeacon(m, v)

Spec == Init /\ [][Next]_vars

(* Every frame in transmission arrives unless the run ends first; whoever  *)
(* moves toward a position reaches it.                                     *)
Fairness ==
  /\ \A u, v \in Vehicle : WF_vars(OnManeuverMessage(u, v))
  /\ \A v \in Vehicle : WF_vars(CheckDistance(v))
  /\ \A v \in Vehicle, m \in Maneuver : WF_vars(OnPlatoonBeacon(m, v))

FairSpec == Spec /\ Fairness

-----------------------------------------------------------------------------
(* Properties *)

(* Type invariant of the roles, manoeuvres, formations and messages        *)
(* (JoinAtBack.h:124-225, BasePositionHelper.h).                           *)
TypeOK ==
  /\ role \in [Vehicle -> Role]
  /\ active \in [Vehicle -> Maneuver \cup {"none"}]
  /\ platoonId \in [Vehicle -> Id]
  /\ formation \in [Vehicle -> Formation]
  /\ state \in [Vehicle -> [Maneuver -> JoinManeuverState]]
  /\ target \in [Vehicle -> [Maneuver ->
       [platoonId : Id, platoonLeader : Id, newFormation : Formation]]]
  /\ joiner \in [Vehicle -> [Maneuver ->
       [id : Vehicle \cup {None}, newFormation : Formation]]]
  /\ old \in [Vehicle -> [platoonId : Id, formation : Formation]]
  /\ checkDistance \in [Vehicle -> BOOLEAN]
  /\ channel \in [Vehicle -> [Vehicle -> Seq(Message)]]
  /\ starts \in [Vehicle -> 0 .. MaxStarts]
  /\ simulating \in BOOLEAN

InTransit(kind, u, v) == \E i \in DOMAIN channel[u][v] : channel[u][v][i].kind = kind

(* The handshake has one joiner at a time: whoever holds a permission is   *)
(* the one its target leader waits for, in the state that matches, and     *)
(* both mean the same new formation, which the ASSERTs of the handlers     *)
(* compare (JoinAtBack.cc:232, 250 and 285).                               *)
OneJoiner ==
  \A v \in Vehicle, m \in Maneuver :
    state[v][m] \in {"J_WAIT_INFORMATION", "J_MOVE_IN_POSITION", "J_WAIT_JOIN"} =>
      LET l == target[v][m].platoonLeader IN
      /\ active[l] = m
      /\ joiner[l][m].id = v
      /\ state[l][m] = "L_WAIT_JOINER_TO_JOIN" => state[v][m] = "J_WAIT_JOIN"
      /\ state[v][m] # "J_WAIT_INFORMATION" =>
           target[v][m].newFormation = joiner[l][m].newFormation

(* Every member finds itself once in the formation it holds, a leader and  *)
(* nobody else in front, so setVariablesAfterFormationChange never indexes *)
(* outside it; and the vehicle a follower takes for its leader knows the   *)
(* follower, or is about to (BasePositionHelper.cc:76-86).                 *)
MembersInFormation ==
  \A v \in Vehicle : role[v] \in {"LEADER", "FOLLOWER"} =>
    /\ v \in ToSet(formation[v]) /\ IsInjective(formation[v])
    /\ role[v] = "LEADER" <=> LeaderId(v) = v
    /\ \/ v \in ToSet(formation[LeaderId(v)])
       \/ \E u \in Vehicle, m \in Maneuver :
            /\ InTransit("JoinFormationAck", u, LeaderId(v))
            /\ v \in ToSet(joiner[LeaderId(v)][m].newFormation)

(* A platoon grows only at its back, and a formation update never drops or *)
(* reorders vehicles a member already knew, so nobody's front vehicle      *)
(* changes under way (JoinAtBack.cc:142-143 and 289-298).                  *)
JoinAtTheBack ==
  [][\A v \in Registered :
       /\ role[v] = "LEADER" /\ role'[v] = "LEADER" => IsPrefix(formation[v], formation'[v])
       /\ \E i \in 1 .. Len(formation'[v]) :
            IsPrefix(formation[v], SubSeq(formation'[v], i, Len(formation'[v])))]_vars

(* When all is quiet the members of a platoon agree on its id and its      *)
(* formation: the leader sends each change to all vehicles in the platoon  *)
(* (JoinAtBack.cc:287-298).                                                *)
PlatoonAgrees ==
  /\ \A u, v \in Vehicle : channel[u][v] = <<>>
  /\ \A v \in Vehicle : ~checkDistance[v]
  => \A v \in Vehicle : role[v] = "FOLLOWER" =>
      /\ formation[v] = formation[LeaderId(v)]
      /\ platoonId[v] = platoonId[LeaderId(v)]

(* What the comment on NONE says (GeneralPlatooningApp.h:45): the vehicle  *)
(* is not in a platoon, so no vehicle takes it for its leader.             *)
NoneMeansAlone ==
  \A v \in Vehicle : role[v] = "NONE" =>
    \A f \in Vehicle : role[f] = "FOLLOWER" => LeaderId(f) # v

(* A vehicle that got the permission ends up a follower of the platoon.    *)
Admitted ==
  \A v \in Vehicle, m \in Maneuver :
    state[v][m] = "J_WAIT_INFORMATION" ~> (role[v] = "FOLLOWER" \/ ~simulating)

(* A request is answered: nobody waits for a reply for ever                *)
(* (JoinAtBack.h:127).                                                     *)
EveryRequestAnswered ==
  \A v \in Vehicle, m \in Maneuver :
    state[v][m] = "J_WAIT_REPLY" ~> (state[v][m] # "J_WAIT_REPLY" \/ ~simulating)

(* The followers of a platoon that merged end up in the platoon their old  *)
(* leader follows (MergeAtBack.cc:85-105).                                 *)
MergeCompletes ==
  \A v \in Vehicle :
    checkDistance[v] ~>
      \/ \A f \in ToSet(old[v].formation) :
           platoonId[f] = platoonId[v] /\ LeaderId(f) = LeaderId(v)
      \/ ~simulating

=============================================================================
